-------------------------- MODULE TcpServerProofs ---------------------------
(***************************************************************************)
(* Proofs about TcpServer and its Acceptor, for any descriptors, clients,  *)
(* thread pools and threads that call start().                             *)
(***************************************************************************)
EXTENDS TcpServer, ListProofs

Ops == {"listen", "connectEstablished", "connectDestroyed", "removeConnectionInLoop"}
Functor == [op : Ops, conn : Nat]

(* The functors that wait in queues F.                                     *)
WaitingIn(F) == UNION {Range(F[l]) : l \in Loops}

(* Functor f is queued to the right loop, with connections K.              *)
Belongs(f, l, K) ==
  \/ f = Do("listen", NoConn) /\ l = Base
  \/ \E c \in DOMAIN K :
       \/ f = Do("removeConnectionInLoop", c) /\ l = Base
       \/ f = Do("connectEstablished", c) /\ l = K[c].loop
       \/ f = Do("connectDestroyed", c) /\ l = K[c].loop

(* Each functor waits once, in its loop, and connectEstablished before     *)
(* connectDestroyed.                                                       *)
QueuesOK(F, K) ==
  /\ F \in [Loops -> Seq(Functor)]
  /\ \A l \in Loops :
       /\ IsInjective(F[l])
       /\ \A f \in Range(F[l]) : Belongs(f, l, K)
       /\ \A c \in Nat : Before(F[l], Do("connectEstablished", c), Do("connectDestroyed", c))

Waiting == WaitingIn(functors)
FunctorInv == QueuesOK(functors, conn)

ServerTypes ==
  /\ pool \in Pools
  /\ started_ \in BOOLEAN /\ starting \subseteq Starters
  /\ next_ \in Nat /\ nextConnId_ \in Nat \ {0}
  /\ alive \in BOOLEAN /\ crossed \in BOOLEAN
  /\ failed \subseteq {"start", "listen", "removeConnection", "server"}

Connection ==
  [loop : Loops, fd : Fds, registered : BOOLEAN,
   life : {"connecting", "connected", "disconnected", "freed"}]

ConnTypes ==
  /\ Conns = 1..(nextConnId_ - 1)
  /\ conn \in [Conns -> Connection]
  /\ connections_ \subseteq Conns /\ held \subseteq Conns
  /\ closing \in [Loops -> Conns \cup {NoConn}]
  /\ \A l \in Loops : closing[l] # NoConn => conn[closing[l]].loop = l

(* Every connection was a client that arrived.                             *)
CountInv == nextConnId_ - 1 + backlog <= arrivals

Types == AcceptorTypeOK /\ ServerTypes /\ ConnTypes /\ CountInv /\ FunctorInv

-----------------------------------------------------------------------------
(* Functors are told apart by what they call and for which connection.     *)
LEMMA DoParts ==
  /\ \A op, op2, c, d : Do(op, c) = Do(op2, d) <=> op = op2 /\ c = d
  /\ \A op \in Ops, c \in Nat : Do(op, c) \in Functor
  /\ \A op, c : Do(op, c).op = op /\ Do(op, c).conn = c
  /\ \A f \in Functor : f = Do(f.op, f.conn)
BY DEF Do, Functor

(* What waits, in which loop.                                              *)
LEMMA Waits ==
  ASSUME FunctorInv
  PROVE  /\ \A f \in Waiting : \E l \in Loops : f \in Range(functors[l]) /\ Belongs(f, l, conn)
         /\ \A l \in Loops : \A f \in Range(functors[l]) : f \in Waiting /\ Belongs(f, l, conn)
         /\ \A op, c : HasFunctor(op, c) <=> Do(op, c) \in Waiting
BY Zenon DEF FunctorInv, QueuesOK, Waiting, WaitingIn, HasFunctor

(* The loops of the pool do not change.                                    *)
LEMMA NextQueues ==
  ASSUME UNCHANGED pool, QueuesOK(functors', conn')
  PROVE  FunctorInv' /\ Waiting' = WaitingIn(functors')
<1>1. Loops' = Loops
  BY Zenon DEF Loops
<1>2. Waiting' = WaitingIn(functors')
  BY <1>1, Zenon DEF Waiting, WaitingIn
<1> QED
  BY <1>1, <1>2, Zenon DEF FunctorInv, QueuesOK, Belongs

(* What it means for a functor to be in the right loop.                    *)
LEMMA BelongsParts ==
  ASSUME NEW K, NEW op, NEW c, NEW l, Belongs(Do(op, c), l, K)
  PROVE  /\ op = "listen" => c = NoConn
         /\ op # "listen" => c \in DOMAIN K
         /\ op \in {"connectEstablished", "connectDestroyed"} => K[c].loop = l
BY DoParts DEF Belongs

(* A functor belongs to one loop only.                                     *)
LEMMA OneLoop ==
  ASSUME NEW K, DOMAIN K \subseteq Nat \ {0}, NEW f, NEW l, NEW m,
         Belongs(f, l, K), Belongs(f, m, K)
  PROVE  l = m
BY DoParts DEF Belongs, NoConn

(* Connections are added and keep their loops, so functors keep theirs.    *)
LEMMA Grown ==
  ASSUME NEW F, NEW K, NEW M, QueuesOK(F, K),
         \A c \in DOMAIN K : c \in DOMAIN M /\ M[c].loop = K[c].loop
  PROVE  QueuesOK(F, M)
<1>1. ASSUME NEW f, NEW l, Belongs(f, l, K) PROVE Belongs(f, l, M)
  BY <1>1, Zenon DEF Belongs
<1> QED
  BY <1>1, Zenon DEF QueuesOK

(* Queues G are queues F with functor g behind the others of loop l.       *)
Adding(F, G, l, g) ==
  /\ G \in [Loops -> Seq(Functor)]
  /\ G[l] = Append(F[l], g)
  /\ \A m \in Loops \ {l} : G[m] = F[m]

(* queueInLoop adds a functor.                                             *)
LEMMA Adds1 ==
  ASSUME NEW F \in [Loops -> Seq(Functor)], NEW l \in Loops, NEW g \in Functor
  PROVE  Adding(F, [F EXCEPT ![l] = Append(@, g)], l, g)
BY AddTail, Zenon DEF Adding

(* queueInLoop: one functor more waits.                                    *)
LEMMA Queued ==
  ASSUME NEW F, NEW K, QueuesOK(F, K), NEW l \in Loops, NEW g \in Functor,
         g \notin WaitingIn(F), Belongs(g, l, K),
         \A c \in Nat : g = Do("connectEstablished", c) =>
           Do("connectDestroyed", c) \notin WaitingIn(F),
         NEW G, Adding(F, G, l, g)
  PROVE  QueuesOK(G, K) /\ WaitingIn(G) = WaitingIn(F) \cup {g}
<1> DEFINE q == F[l]
<1>1. F \in [Loops -> Seq(Functor)] /\ q \in Seq(Functor)
  BY Zenon DEF QueuesOK
<1>2. G[l] = Append(q, g) /\ \A m \in Loops \ {l} : G[m] = F[m]
  BY Zenon DEF Adding
<1>3. G \in [Loops -> Seq(Functor)]
  BY Zenon DEF Adding
<1>4. g \notin Range(q) /\ \A f \in Range(q) : f \in WaitingIn(F)
  BY Zenon DEF WaitingIn
<1>5. Range(G[l]) = Range(q) \cup {g} /\ IsInjective(G[l])
  BY <1>1, <1>2, <1>4, AddTail, SMTT(30) DEF QueuesOK
<1>6. ASSUME NEW c \in Nat
      PROVE  Before(G[l], Do("connectEstablished", c), Do("connectDestroyed", c))
  <2>1. Do("connectEstablished", c) # Do("connectDestroyed", c)
    BY DoParts
  <2>2. g = Do("connectEstablished", c) => Do("connectDestroyed", c) \notin Range(q)
    BY <1>4, DoParts, Zenon
  <2>3. Before(q, Do("connectEstablished", c), Do("connectDestroyed", c))
    BY Zenon DEF QueuesOK
  <2> HIDE DEF q
  <2> QED
    BY <1>1, <1>2, <2>1, <2>2, <2>3, BeforeAdd, SMTT(30)
<1> HIDE DEF q
<1>7. ASSUME NEW m \in Loops, NEW f \in Range(G[m])
      PROVE  f \in Range(F[m]) \/ (m = l /\ f = g)
  BY <1>2, <1>5, Zenon DEF q
<1>8. ASSUME NEW m \in Loops, NEW f \in Range(G[m])
      PROVE  Belongs(f, m, K)
  BY <1>7, Zenon DEF QueuesOK
<1>9. QueuesOK(G, K)
  BY <1>2, <1>3, <1>5, <1>6, <1>8, Zenon DEF QueuesOK
<1>10. ASSUME NEW f \in WaitingIn(G) PROVE f \in WaitingIn(F) \cup {g}
  <2>1. PICK m \in Loops : f \in Range(G[m])
    BY Zenon DEF WaitingIn
  <2>2. f \in Range(F[m]) \/ f = g
    BY <1>7, <2>1, Zenon
  <2> QED
    BY <2>2, Zenon DEF WaitingIn
<1>11. ASSUME NEW f \in WaitingIn(F) PROVE f \in WaitingIn(G)
  <2>1. PICK m \in Loops : f \in Range(F[m])
    BY Zenon DEF WaitingIn
  <2>2. f \in Range(G[m])
    BY <1>2, <1>5, <2>1, Zenon DEF q
  <2> QED
    BY <2>2, Zenon DEF WaitingIn
<1>12. g \in WaitingIn(G)
  BY <1>5, Zenon DEF WaitingIn
<1>13. WaitingIn(G) = WaitingIn(F) \cup {g}
  BY <1>10, <1>11, <1>12, Zenon
<1> QED
  BY <1>9, <1>13, Zenon

(* doPendingFunctors takes the first functor of a loop, which then waits   *)
(* no longer.                                                              *)
LEMMA FirstCalled ==
  ASSUME NEW F, NEW K, QueuesOK(F, K), DOMAIN K \subseteq Nat \ {0},
         NEW l \in Loops, F[l] # <<>>
  PROVE  LET G == [F EXCEPT ![l] = Tail(@)]
             g == Head(F[l])
         IN  /\ QueuesOK(G, K) /\ WaitingIn(G) = WaitingIn(F) \ {g}
             /\ g \in WaitingIn(F) /\ g \in Functor /\ Belongs(g, l, K)
             /\ \A c \in Nat : g = Do("connectDestroyed", c) =>
                  Do("connectEstablished", c) \notin WaitingIn(F)
<1> DEFINE q == F[l]
           g == Head(q)
           G == [F EXCEPT ![l] = Tail(@)]
<1>1. F \in [Loops -> Seq(Functor)] /\ q \in Seq(Functor) /\ q # <<>>
  BY Zenon DEF QueuesOK
<1>2. /\ G[l] = Tail(q)
      /\ \A m \in Loops \ {l} : G[m] = F[m]
  BY <1>1, Zenon
<1>3. G \in [Loops -> Seq(Functor)]
  BY <1>1, TakeHead, Zenon
<1> HIDE DEF G
<1>4. IsInjective(q) /\ \A f \in Range(q) : Belongs(f, l, K)
  BY Zenon DEF QueuesOK
<1> HIDE DEF g, q
<1>5. /\ Range(q) = Range(Tail(q)) \cup {g} /\ IsInjective(Tail(q)) /\ g \notin Range(Tail(q))
      /\ g \in Functor
  BY <1>1, <1>4, TakeHead, Zenon DEF g
<1>6. ASSUME NEW c \in Nat
      PROVE  /\ Before(Tail(q), Do("connectEstablished", c), Do("connectDestroyed", c))
             /\ g = Do("connectDestroyed", c) => Do("connectEstablished", c) \notin Range(q)
  <2>1. Before(q, Do("connectEstablished", c), Do("connectDestroyed", c))
    BY Zenon DEF QueuesOK, q
  <2> QED
    BY <1>1, <2>1, BeforeTake, Zenon DEF g
<1>7. ASSUME NEW m \in Loops, NEW f \in Range(G[m])
      PROVE  f \in Range(F[m]) /\ Belongs(f, m, K)
  <2>1. f \in Range(F[m])
    BY <1>2, <1>5, Zenon DEF q
  <2> QED
    BY <2>1, Zenon DEF QueuesOK
<1>8. QueuesOK(G, K)
  BY <1>2, <1>3, <1>5, <1>6, <1>7, Zenon DEF QueuesOK
<1>9. g \in Range(q) /\ g \in WaitingIn(F) /\ Belongs(g, l, K)
  BY <1>4, <1>5, Zenon DEF WaitingIn, q
<1>10. ASSUME NEW f \in WaitingIn(G) PROVE f \in WaitingIn(F) /\ f # g
  <2>1. PICK m \in Loops : f \in Range(G[m])
    BY Zenon DEF WaitingIn
  <2>2. f \in Range(F[m]) /\ Belongs(f, m, K)
    BY <1>7, <2>1, Zenon
  <2>3. f = g => m = l
    BY <1>9, <2>2, OneLoop, Zenon
  <2> QED
    BY <1>2, <1>5, <2>1, <2>2, <2>3, Zenon DEF WaitingIn
<1>11. ASSUME NEW f \in WaitingIn(F), f # g PROVE f \in WaitingIn(G)
  <2>1. PICK m \in Loops : f \in Range(F[m])
    BY Zenon DEF WaitingIn
  <2>2. f \in Range(G[m])
    BY <1>2, <1>5, <1>11, <2>1, Zenon DEF q
  <2> QED
    BY <2>2, Zenon DEF WaitingIn
<1>12. ASSUME NEW c \in Nat, g = Do("connectDestroyed", c)
       PROVE  Do("connectEstablished", c) \notin WaitingIn(F)
  <2> SUFFICES ASSUME NEW m \in Loops, Do("connectEstablished", c) \in Range(F[m])
               PROVE  FALSE
    BY Zenon DEF WaitingIn
  <2>1. Belongs(Do("connectEstablished", c), m, K)
    BY Zenon DEF QueuesOK
  <2>2. m = l
    BY <1>9, <1>12, <2>1, DoParts DEF Belongs
  <2> QED
    BY <1>6, <1>12, <2>2, Zenon DEF q
<1>13. WaitingIn(G) = WaitingIn(F) \ {g}
  BY <1>10, <1>11, Zenon
<1> QED
  BY <1>5, <1>8, <1>9, <1>12, <1>13, Zenon DEF G, g, q

(* ~TcpServer queues connectDestroyed for the connections of its map.      *)
LEMMA Spliced ==
  ASSUME NEW F, NEW K, QueuesOK(F, K), NEW there \in [Loops -> Seq(Functor)],
         \A l \in Loops :
           /\ IsInjective(there[l]) /\ Range(there[l]) \cap WaitingIn(F) = {}
           /\ \A f \in Range(there[l]) : Belongs(f, l, K) /\ f.op = "connectDestroyed"
  PROVE  LET G == [l \in Loops |-> F[l] \o there[l]]
         IN  QueuesOK(G, K) /\ WaitingIn(G) = WaitingIn(F) \cup WaitingIn(there)
<1> DEFINE G == [l \in Loops |-> F[l] \o there[l]]
<1>1. ASSUME NEW l \in Loops
      PROVE  /\ G[l] \in Seq(Functor) /\ IsInjective(G[l])
             /\ Range(G[l]) = Range(F[l]) \cup Range(there[l])
             /\ \A c \in Nat :
                  Before(G[l], Do("connectEstablished", c), Do("connectDestroyed", c))
  <2> DEFINE q == F[l]
             u == there[l]
  <2>1. /\ q \in Seq(Functor) /\ u \in Seq(Functor) /\ IsInjective(q) /\ IsInjective(u)
        /\ Range(q) \cap Range(u) = {}
    BY Zenon DEF QueuesOK, WaitingIn
  <2>2. ASSUME NEW c \in Nat
        PROVE  /\ Before(q, Do("connectEstablished", c), Do("connectDestroyed", c))
               /\ Do("connectEstablished", c) \notin Range(u)
    BY DoParts DEF QueuesOK
  <2>3. G[l] = q \o u
    BY Zenon
  <2> HIDE DEF G, q, u
  <2>4. /\ G[l] \in Seq(Functor) /\ IsInjective(G[l]) /\ Range(G[l]) = Range(q) \cup Range(u)
    BY <2>1, <2>3, Splice
  <2>5. \A c \in Nat : Before(G[l], Do("connectEstablished", c), Do("connectDestroyed", c))
    BY <2>1, <2>2, <2>3, BeforeSplice
  <2> QED
    BY <2>4, <2>5, Zenon DEF q, u
<1>2. G \in [Loops -> Seq(Functor)]
  BY <1>1, Zenon
<1> HIDE DEF G
<1>3. QueuesOK(G, K)
  BY <1>1, <1>2, Zenon DEF QueuesOK
<1>4. WaitingIn(G) = WaitingIn(F) \cup WaitingIn(there)
  <2>1. ASSUME NEW f \in WaitingIn(G) PROVE f \in WaitingIn(F) \cup WaitingIn(there)
    <3>1. PICK m \in Loops : f \in Range(G[m])
      BY Zenon DEF WaitingIn
    <3>2. f \in Range(F[m]) \cup Range(there[m])
      BY <1>1, <3>1, Zenon
    <3> QED
      BY <3>2, Zenon DEF WaitingIn
  <2>2. ASSUME NEW f \in WaitingIn(F) \cup WaitingIn(there) PROVE f \in WaitingIn(G)
    <3>1. PICK m \in Loops : f \in Range(F[m]) \cup Range(there[m])
      BY Zenon DEF WaitingIn
    <3> QED
      BY <1>1, <3>1, ZenonT(60) DEF WaitingIn
  <2> QED
    BY <2>1, <2>2, Zenon
<1> QED
  BY <1>3, <1>4, Zenon DEF G

-----------------------------------------------------------------------------
Listen0 == Do("listen", NoConn)
Est(c) == Do("connectEstablished", c) \in Waiting
Des(c) == Do("connectDestroyed", c) \in Waiting
Rem(c) == Do("removeConnectionInLoop", c) \in Waiting
InClose(c) == closing[conn[c].loop] = c

(* What a step does to the connections, with the functors that wait as a   *)
(* set.                                                                    *)
Same ==
  Waiting' = Waiting /\ UNCHANGED <<connections_, conn, closing, held, alive, crossed, failed>>

QueueListen ==
  /\ alive /\ Waiting' = Waiting \cup {Listen0}
  /\ UNCHANGED <<connections_, conn, closing, held, alive, crossed, failed>>

CallListen ==
  /\ alive /\ Waiting' = Waiting \ {Listen0}
  /\ UNCHANGED <<connections_, conn, closing, held, alive, crossed, failed>>

Fails ==
  /\ \/ starting # {} /\ (~alive \/ listenning_)
     \/ Listen0 \in Waiting /\ ~alive
     \/ \E c \in Conns : (InClose(c) \/ Rem(c)) /\ (~alive \/ c \notin connections_)
  /\ Waiting' \subseteq Waiting
  /\ \A l \in Loops : closing'[l] \in {closing[l], NoConn}
  /\ UNCHANGED <<connections_, conn, held, alive, crossed>>

Adds(c) ==
  /\ alive /\ c = nextConnId_
  /\ \E l \in Loops, fd \in Fds :
       /\ conn' = Append(conn, NewTcpConnection(l, fd))
       /\ Waiting' = IF l = Base THEN Waiting
                     ELSE Waiting \cup {Do("connectEstablished", c)}
  /\ connections_' = connections_ \cup {c}
  /\ UNCHANGED <<closing, held, alive, crossed, failed>>

Establishes(c) ==
  /\ Est(c) /\ Waiting' = Waiting \ {Do("connectEstablished", c)}
  /\ conn' = [conn EXCEPT ![c].life = "connected", ![c].registered = TRUE]
  /\ UNCHANGED <<connections_, closing, held, alive, crossed, failed>>

Closes(c) ==
  /\ conn[c].life = "connected" /\ closing[conn[c].loop] = NoConn
  /\ conn' = [conn EXCEPT ![c].life = "disconnected"]
  /\ closing' = [closing EXCEPT ![conn[c].loop] = c]
  /\ crossed' = (crossed \/ ~alive)
  /\ Waiting' = Waiting
  /\ UNCHANGED <<connections_, held, alive, failed>>

Asks(c) ==
  /\ alive /\ InClose(c)
  /\ closing' = [closing EXCEPT ![conn[c].loop] = NoConn]
  /\ Waiting' = Waiting \cup {Do("removeConnectionInLoop", c)}
  /\ UNCHANGED <<connections_, conn, held, alive, crossed, failed>>

Erases(c) ==
  /\ alive /\ c \in connections_
  /\ \/ InClose(c) /\ closing' = [closing EXCEPT ![conn[c].loop] = NoConn]
     \/ Rem(c) /\ UNCHANGED closing
  /\ connections_' = connections_ \ {c}
  /\ Waiting' = (Waiting \ {Do("removeConnectionInLoop", c)})
                  \cup {Do("connectDestroyed", c)}
  /\ UNCHANGED <<conn, held, alive, crossed, failed>>

Destroys(c) ==
  /\ Des(c) /\ ~Est(c) /\ Waiting' = Waiting \ {Do("connectDestroyed", c)}
  /\ conn' = Ended({c}, LastReferenceGone({c}))
  /\ UNCHANGED <<connections_, closing, held, alive, crossed, failed>>

Holds(c) ==
  /\ conn[c].life = "connected" /\ held' = held \cup {c}
  /\ Waiting' = Waiting /\ UNCHANGED <<connections_, conn, closing, alive, crossed, failed>>

Releases(c) ==
  /\ c \in held /\ held' = held \ {c}
  /\ conn' = [conn EXCEPT ![c].life = IF c \in LastReferenceGone({c}) THEN "freed" ELSE @]
  /\ Waiting' = Waiting /\ UNCHANGED <<connections_, closing, alive, crossed, failed>>

Here == {c \in connections_ : conn[c].loop = Base}

Ends ==
  /\ alive /\ ~alive' /\ connections_' = {}
  /\ closing[Base] = NoConn
  /\ Waiting' = Waiting \cup {Do("connectDestroyed", c) : c \in connections_ \ Here}
  /\ conn' = Ended(Here, LastReferenceGone(Here))
  /\ crossed' = \/ crossed \/ starting # {} \/ Listen0 \in Waiting
                \/ \E c \in Conns : Rem(c)
                \/ \E c \in connections_ : conn[c].life = "disconnected"
  /\ UNCHANGED <<closing, held, failed>>

Move ==
  \/ Same \/ CallListen \/ Fails \/ Ends
  \/ Adds(nextConnId_)
  \/ \E c \in Conns :
       \/ Establishes(c) \/ Closes(c) \/ Asks(c) \/ Erases(c) \/ Destroys(c)
       \/ Holds(c) \/ Releases(c)

-----------------------------------------------------------------------------
(* start() is past its test once, and before that nothing listens.         *)
StartInv ==
  /\ ~started_ \/ starting # {} => ~listenning_ /\ Listen0 \notin Waiting
  /\ starting # {} => started_
  /\ \A t, u \in starting : t = u

(* Where a connection is in its life.                                      *)
Connecting(c) ==
  /\ conn[c].life = "connecting" /\ ~conn[c].registered /\ conn[c].loop # Base
  /\ Est(c) /\ ~Rem(c) /\ ~InClose(c) /\ (Des(c) <=> c \notin connections_)

Connected(c) ==
  /\ conn[c].life = "connected" /\ conn[c].registered
  /\ ~Est(c) /\ ~Rem(c) /\ ~InClose(c) /\ (Des(c) <=> c \notin connections_)

Leaving(c) ==
  /\ conn[c].life = "disconnected" /\ conn[c].registered
  /\ ~Est(c) /\ ~Des(c) /\ (Rem(c) <=> ~InClose(c)) /\ c \in connections_

Ending(c) ==
  /\ conn[c].life = "disconnected" /\ conn[c].registered
  /\ ~Est(c) /\ Des(c) /\ ~Rem(c) /\ ~InClose(c) /\ c \notin connections_

Over(c) ==
  /\ conn[c].life \in {"disconnected", "freed"} /\ ~conn[c].registered
  /\ ~Est(c) /\ ~Des(c) /\ ~Rem(c) /\ ~InClose(c) /\ c \notin connections_

Phase(c) == Connecting(c) \/ Connected(c) \/ Leaving(c) \/ Ending(c) \/ Over(c)

(* As long as its end has not crossed a call, the server has lost track of *)
(* no connection.                                                          *)
LifeInv ==
  /\ crossed => ~alive
  /\ ~crossed =>
       /\ failed = {}
       /\ \A c \in Conns : Phase(c)
       /\ alive => \A c \in Conns :
            conn[c].life \in {"connecting", "connected"} => c \in connections_
       /\ ~alive => starting = {} /\ Listen0 \notin Waiting /\ connections_ = {}

(* What is referred to has not been freed.                                 *)
Refers(c) == c \in connections_ \cup held \/ InClose(c) \/ Est(c) \/ Des(c) \/ Rem(c)
RefInv == \A c \in Conns : Refers(c) => conn[c].life # "freed"

ServerInv == Types /\ StartInv /\ LifeInv /\ RefInv

-----------------------------------------------------------------------------
(* The loop that calls a functor, and what waits afterwards.               *)
LEMMA Calls ==
  ASSUME Types, NEW l \in Loops, NEW op \in Ops, CallFunctor(l, op)
  PROVE  LET c == Head(functors[l]).conn
         IN  /\ closing[l] = NoConn
             /\ QueuesOK(Called(l), conn)
             /\ WaitingIn(Called(l)) = Waiting \ {Do(op, c)} /\ Do(op, c) \in Waiting
             /\ op = "listen" => c = NoConn
             /\ op # "listen" => c \in Conns
             /\ op \in {"connectEstablished", "connectDestroyed"} => conn[c].loop = l
             /\ op = "connectDestroyed" => ~Est(c)
<1> DEFINE g == Head(functors[l])
           c == g.conn
<1>1. functors[l] # <<>> /\ g.op = op /\ closing[l] = NoConn
  BY Zenon DEF CallFunctor, AtRest
<1>2. DOMAIN conn \subseteq Nat \ {0}
  BY DEF Types, ServerTypes, ConnTypes
<1>3. /\ QueuesOK(Called(l), conn) /\ WaitingIn(Called(l)) = Waiting \ {g}
      /\ g \in Waiting /\ g \in Functor /\ Belongs(g, l, conn)
      /\ \A d \in Nat : g = Do("connectDestroyed", d) =>
           Do("connectEstablished", d) \notin Waiting
  BY <1>1, <1>2, FirstCalled, Zenon DEF Types, FunctorInv, Called, Waiting
<1> HIDE DEF g
<1>4. g = Do(op, c) /\ c \in Nat
  BY <1>1, <1>3, DoParts, Zenon DEF Functor
<1>5. /\ op = "listen" => c = NoConn
      /\ op # "listen" => c \in Conns
      /\ op \in {"connectEstablished", "connectDestroyed"} => conn[c].loop = l
  BY <1>3, <1>4, BelongsParts DEF Conns
<1>6. op = "connectDestroyed" => ~Est(c)
  BY <1>3, <1>4, Zenon DEF Est
<1>7. WaitingIn(Called(l)) = Waiting \ {Do(op, c)} /\ Do(op, c) \in Waiting
  BY <1>3, <1>4, Zenon
<1> QED
  BY <1>1, <1>3, <1>5, <1>6, <1>7, Zenon DEF g

(* The functors when only connections are changed.                         *)
LEMMA SameQueues ==
  ASSUME Types, UNCHANGED <<pool, functors>>,
         \A c \in Conns : c \in Conns' /\ conn'[c].loop = conn[c].loop
  PROVE  FunctorInv' /\ Waiting' = Waiting
BY Grown, NextQueues, Zenon DEF Types, FunctorInv, Waiting, Conns

(* The functors when queues G take the place of the old ones.              *)
LEMMA NewQueues ==
  ASSUME NEW G, QueuesOK(G, conn), functors' = G, UNCHANGED pool,
         \A c \in Conns : c \in Conns' /\ conn'[c].loop = conn[c].loop
  PROVE  FunctorInv' /\ Waiting' = WaitingIn(G)
BY Grown, NextQueues, Zenon DEF Conns

(* start() and the functor it queues, if it is not on the base loop.       *)
LEMMA StartMoves ==
  ASSUME Types, StartInv, NEW t \in Starters, start(t)
  PROVE  FunctorInv' /\ (QueueListen \/ Fails \/ Same)
<1>1. Base \in Loops /\ UNCHANGED <<pool, conn>> /\ t \in starting
  BY Zenon DEF start, Loops
<1>2. CASE (~alive \/ listenning_) /\ UNCHANGED functors
  <2>1. FunctorInv' /\ Waiting' = Waiting
    BY <1>1, <1>2, SameQueues, Zenon DEF Conns
  <2> QED
    BY <1>1, <1>2, <2>1, Zenon DEF start, Fails
<1>3. CASE alive /\ ~listenning_ /\ functors' = Queue(Base, Listen0) /\ UNCHANGED failed
  <2>1. Listen0 \notin Waiting
    BY <1>1, Zenon DEF StartInv
  <2>2. QueuesOK(Queue(Base, Listen0), conn)
        /\ WaitingIn(Queue(Base, Listen0)) = Waiting \cup {Listen0}
    <3>1. /\ Listen0 \in Functor /\ Belongs(Listen0, Base, conn)
          /\ \A c \in Nat : Listen0 # Do("connectEstablished", c)
      BY DoParts DEF Listen0, Belongs, Ops, NoConn
    <3>2. QueuesOK(functors, conn) /\ Listen0 \notin WaitingIn(functors)
      BY <2>1, Zenon DEF Types, FunctorInv, Waiting
    <3>3. Adding(functors, Queue(Base, Listen0), Base, Listen0)
      BY <1>1, <3>1, <3>2, Adds1, Zenon DEF QueuesOK, Queue
    <3>4. \A c \in Nat : Listen0 = Do("connectEstablished", c) =>
            Do("connectDestroyed", c) \notin WaitingIn(functors)
      BY <3>1, Zenon
    <3>5. Belongs(Listen0, Base, conn) /\ Listen0 \in Functor /\ Base \in Loops
      BY <1>1, <3>1, Zenon
    <3>6. /\ QueuesOK(Queue(Base, Listen0), conn)
          /\ WaitingIn(Queue(Base, Listen0)) = WaitingIn(functors) \cup {Listen0}
      BY <3>2, <3>3, <3>4, <3>5, Queued, SMTT(30)
    <3> QED
      BY <3>6, Zenon DEF Waiting
  <2>3. FunctorInv' /\ Waiting' = Waiting \cup {Listen0}
    BY <1>1, <1>3, <2>2, NewQueues, Zenon DEF Conns
  <2> QED
    BY <1>1, <1>3, <2>3, Zenon DEF start, QueueListen
<1>4. CASE alive /\ UNCHANGED <<functors, failed>>
  <2>1. FunctorInv' /\ Waiting' = Waiting
    BY <1>1, <1>4, SameQueues, Zenon DEF Conns
  <2> QED
    BY <1>4, <2>1, Zenon DEF start, Same
<1> QED
  BY <1>2, <1>3, <1>4, Zenon DEF start, Listen0

(* Acceptor::listen, on the base loop.                                     *)
LEMMA ListenMoves ==
  ASSUME Types, listen
  PROVE  FunctorInv' /\ (CallListen \/ Fails)
<1>1. Base \in Loops /\ UNCHANGED <<pool, conn>> /\ functors' = Called(Base)
      /\ CallFunctor(Base, "listen")
  BY Zenon DEF listen, Loops, serverVars
<1>2. /\ QueuesOK(Called(Base), conn) /\ WaitingIn(Called(Base)) = Waiting \ {Listen0}
      /\ Listen0 \in Waiting
  BY <1>1, Calls, Zenon DEF Ops, Listen0
<1>3. FunctorInv' /\ Waiting' = Waiting \ {Listen0}
  BY <1>1, <1>2, NewQueues, Zenon DEF Conns
<1>4. CASE alive /\ UNCHANGED failed
  BY <1>3, <1>4, Zenon DEF listen, serverVars, CallListen
<1>5. CASE ~alive
  BY <1>2, <1>3, <1>5, Zenon DEF listen, serverVars, Fails
<1> QED
  BY <1>4, <1>5, Zenon DEF listen

(* newConnection: a connection is added, and connectEstablished queued to  *)
(* its loop if that is another one.                                        *)
LEMMA NewMoves ==
  ASSUME Types, NEW connfd \in Fds, alive, newConnection(nextConnId_, connfd),
         UNCHANGED <<pool, alive, closing, held, crossed, failed>>
  PROVE  FunctorInv' /\ ConnTypes' /\ Adds(nextConnId_)
<1> DEFINE l == getNextLoop
           c == nextConnId_
           g == Do("connectEstablished", c)
<1>1. l \in Loops
  <2>1. CASE pool = <<>>
    BY <2>1, Zenon DEF getNextLoop, Loops
  <2>2. CASE pool # <<>>
    <3>1. pool \in Seq(Range(pool)) /\ Len(pool) \in Nat /\ Len(pool) > 0
      BY <2>2, PoolsAssumption DEF Types, ServerTypes
    <3>2. (next_ % Len(pool)) + 1 \in 1..Len(pool)
      BY <3>1 DEF Types, ServerTypes
    <3>3. l = pool[(next_ % Len(pool)) + 1]
      BY <2>2, Zenon DEF getNextLoop
    <3> QED
      BY <3>1, <3>2, <3>3 DEF Loops
  <2> QED
    BY <2>1, <2>2, Zenon
<1> HIDE DEF l
<1>2. /\ c \in Nat /\ c # 0 /\ Conns = 1..(c - 1) /\ conn \in [1..(c - 1) -> Connection]
  BY Zenon DEF Types, ServerTypes, ConnTypes
<1>3. NewTcpConnection(l, connfd) \in Connection /\ NewTcpConnection(l, connfd).loop = l
  BY <1>1, Zenon DEF NewTcpConnection, Connection
<1> DEFINE r == NewTcpConnection(l, connfd)
<1> HIDE DEF r
<1>4. conn \in Seq(Connection) /\ Len(conn) = c - 1
  BY <1>2
<1>5. conn' = Append(conn, r) /\ nextConnId_' = c + 1 /\ Loops' = Loops
  BY Zenon DEF newConnection, l, r, Loops
<1>6. /\ DOMAIN conn' = 1..c /\ conn' \in [1..c -> Connection] /\ conn'[c] = r
      /\ \A d \in 1..(c - 1) : conn'[d] = conn[d]
  <2> DEFINE q == Append(conn, r)
  <2>1. /\ q \in Seq(Connection) /\ Len(q) = c /\ q[c] = r
        /\ \A d \in 1..(c - 1) : q[d] = conn[d]
    BY <1>2, <1>3, <1>4 DEF r
  <2> HIDE DEF q
  <2>2. DOMAIN q = 1..c /\ q \in [1..c -> Connection]
    BY <1>2, <2>1
  <2> QED
    BY <1>5, <2>1, <2>2, Zenon DEF q
<1>7. \A d \in Conns : d \in Conns' /\ conn'[d].loop = conn[d].loop
  BY <1>2, <1>6 DEF Conns
<1>8. ConnTypes'
  <2>1. Conns' = 1..(nextConnId_' - 1) /\ conn' \in [Conns' -> Connection]
    BY <1>2, <1>5, <1>6, SMTT(30) DEF Conns
  <2>2. connections_' \subseteq Conns' /\ held' \subseteq Conns'
    BY <1>2, <1>6 DEF Conns, Types, ConnTypes, newConnection
  <2>3. closing' \in [Loops -> Conns' \cup {NoConn}]
    BY <1>7, Zenon DEF Types, ConnTypes
  <2>4. \A m \in Loops : closing'[m] # NoConn => conn'[closing'[m]].loop = m
    BY <1>7, Zenon DEF Types, ConnTypes
  <2> QED
    BY <1>5, <2>1, <2>2, <2>3, <2>4, Zenon DEF ConnTypes, Connection
<1>9. QueuesOK(functors, conn')
  BY <1>7, Grown, Zenon DEF Types, FunctorInv, Conns
<1>10. g \notin Waiting /\ Do("connectDestroyed", c) \notin Waiting
  <2>1. \A m : ~Belongs(g, m, conn) /\ ~Belongs(Do("connectDestroyed", c), m, conn)
    BY <1>2, DoParts DEF Belongs, Conns
  <2> QED
    BY <2>1, Waits, Zenon DEF Types
<1>11. CASE l = Base
  <2>1. FunctorInv' /\ Waiting' = Waiting
    BY <1>11, <1>7, SameQueues, Zenon DEF newConnection, l
  <2> QED
    BY <1>1, <1>5, <1>8, <1>11, <2>1, Zenon DEF Adds, newConnection, r
<1>12. CASE l # Base
  <2>1. Adding(functors, functors', l, g)
    <3>1. g \in Functor /\ functors \in [Loops -> Seq(Functor)]
      BY <1>2, <1>9, DoParts, Zenon DEF Ops, QueuesOK
    <3>2. functors' = [functors EXCEPT ![l] = Append(@, g)]
      BY <1>12, Zenon DEF newConnection, Queue, l
    <3> QED
      BY <1>1, <3>1, <3>2, Adds1, Zenon
  <2>2. Belongs(g, l, conn')
    BY <1>2, <1>3, <1>6 DEF Belongs, r
  <2>3. QueuesOK(functors', conn') /\ WaitingIn(functors') = Waiting \cup {g}
    <3>1. g \in Functor /\ g \notin WaitingIn(functors)
      BY <1>2, <1>10, DoParts, Zenon DEF Ops, Waiting
    <3>2. \A d \in Nat : g = Do("connectEstablished", d) =>
            Do("connectDestroyed", d) \notin WaitingIn(functors)
      BY <1>10, DoParts, SMTT(30) DEF Waiting
    <3> HIDE DEF g
    <3>3. QueuesOK(functors', conn') /\ WaitingIn(functors') = WaitingIn(functors) \cup {g}
      BY <1>1, <1>9, <2>1, <2>2, <3>1, <3>2, Queued, SMTT(30)
    <3> QED
      BY <3>3, Zenon DEF Waiting
  <2>4. FunctorInv' /\ Waiting' = Waiting \cup {g}
    BY <2>3, NextQueues, Zenon
  <2> QED
    BY <1>1, <1>5, <1>8, <1>12, <2>4, Zenon DEF Adds, newConnection, r
<1> QED
  BY <1>11, <1>12, Zenon

(* The types of the connections when none is added.                        *)
LEMMA NextConnTypes ==
  ASSUME Types, UNCHANGED <<pool, nextConnId_>>,
         Conns' = Conns, conn' \in [Conns -> Connection],
         \A d \in Conns : conn'[d].loop = conn[d].loop,
         connections_' \subseteq Conns, held' \subseteq Conns,
         closing' \in [Loops -> Conns \cup {NoConn}],
         \A l \in Loops : closing'[l] # NoConn => conn[closing'[l]].loop = l
  PROVE  ConnTypes'
<1>1. Loops' = Loops /\ Connection' = Connection
  BY Zenon DEF Loops, Connection
<1>2. \A l \in Loops : closing'[l] # NoConn => conn'[closing'[l]].loop = l
  BY Zenon
<1> QED
  BY <1>1, <1>2, Zenon DEF ConnTypes, Types

(* What the types say of the connections before the step.                  *)
LEMMA ConnFacts ==
  ASSUME Types
  PROVE  /\ connections_ \subseteq Conns /\ held \subseteq Conns
         /\ closing \in [Loops -> Conns \cup {NoConn}]
         /\ \A l \in Loops : closing[l] # NoConn => conn[closing[l]].loop = l
         /\ conn \in [Conns -> Connection]
         /\ \A c \in Conns : c \in Nat /\ c # NoConn /\ conn[c].loop \in Loops
BY DEF Types, ServerTypes, ConnTypes, Connection, NoConn

(* connectEstablished on the loop of its connection.                       *)
LEMMA EstablishMoves ==
  ASSUME Types, NEW l \in Loops, connectEstablished(l)
  PROVE  FunctorInv' /\ ConnTypes' /\ \E c \in Conns : Establishes(c)
<1> DEFINE c == Head(functors[l]).conn
<1>1. /\ CallFunctor(l, "connectEstablished") /\ "connectEstablished" \in Ops
      /\ functors' = Called(l) /\ UNCHANGED <<pool, nextConnId_, connections_, closing, held>>
      /\ conn' = [conn EXCEPT ![c].life = "connected", ![c].registered = TRUE]
      /\ UNCHANGED <<alive, crossed, failed>>
  BY Zenon DEF connectEstablished, serverVars, Ops
<1>2. /\ QueuesOK(Called(l), conn) /\ c \in Conns /\ Est(c)
      /\ WaitingIn(Called(l)) = Waiting \ {Do("connectEstablished", c)}
  BY <1>1, Calls, Zenon DEF Est
<1> HIDE DEF c
<1>3. /\ Conns' = Conns /\ Loops' = Loops
      /\ \A d \in Conns : conn'[d].loop = conn[d].loop
      /\ conn' \in [Conns -> Connection]
  <2>1. conn \in [Conns -> Connection] /\ conn[c] \in Connection
    BY <1>2, ConnFacts, Zenon
  <2>2. /\ conn' = [conn EXCEPT ![c] = [[conn[c] EXCEPT !.life = "connected"]
                                          EXCEPT !.registered = TRUE]]
        /\ UNCHANGED pool
    BY <1>1, <1>2, <2>1, Zenon
  <2>3. LET x == [[conn[c] EXCEPT !.life = "connected"] EXCEPT !.registered = TRUE]
        IN  x \in Connection /\ x.loop = conn[c].loop
    BY <2>1, Zenon DEF Connection
  <2> QED
    BY <1>2, <2>1, <2>2, <2>3, Zenon DEF Conns, Loops
<1>4. FunctorInv' /\ Waiting' = Waiting \ {Do("connectEstablished", c)}
  BY <1>1, <1>2, <1>3, NewQueues, Zenon
<1>5. ConnTypes'
  BY <1>1, <1>3, ConnFacts, NextConnTypes, Zenon
<1>6. Establishes(c)
  BY <1>1, <1>2, <1>4, Zenon DEF Establishes
<1> QED
  BY <1>2, <1>4, <1>5, <1>6, Zenon

(* handleClose on the loop of its connection.                              *)
LEMMA CloseMoves ==
  ASSUME Types, NEW c \in Conns, handleClose(c)
  PROVE  FunctorInv' /\ ConnTypes' /\ Closes(c)
<1>1. /\ closing[conn[c].loop] = NoConn /\ conn[c].life = "connected"
      /\ conn' = [conn EXCEPT ![c].life = "disconnected"]
      /\ closing' = [closing EXCEPT ![conn[c].loop] = c]
      /\ crossed' = (crossed \/ ~alive)
      /\ UNCHANGED <<functors, pool, nextConnId_, connections_, held, alive, failed>>
  BY Zenon DEF handleClose, AtRest, serverVars
<1>2. /\ Conns' = Conns /\ Loops' = Loops
      /\ \A d \in Conns : conn'[d].loop = conn[d].loop
      /\ conn' \in [Conns -> Connection]
  BY <1>1 DEF Types, ConnTypes, Connection, Conns, Loops
<1>3. FunctorInv' /\ Waiting' = Waiting
  BY <1>1, <1>2, SameQueues, Zenon
<1>4. /\ closing' \in [Loops -> Conns \cup {NoConn}]
      /\ \A l \in Loops : closing'[l] # NoConn => conn[closing'[l]].loop = l
  BY <1>1, ConnFacts, Zenon
<1>5. ConnTypes'
  BY <1>1, <1>2, <1>4, ConnFacts, NextConnTypes, Zenon
<1> QED
  BY <1>1, <1>3, <1>5, Zenon DEF Closes

(* Users take and give up a TcpConnectionPtr.                              *)
LEMMA HoldMoves ==
  ASSUME Types, NEW c \in Conns, Hold(c) \/ Release(c)
  PROVE  FunctorInv' /\ ConnTypes' /\ (Holds(c) \/ Releases(c))
<1>1. UNCHANGED <<functors, pool, nextConnId_, connections_, closing, alive, crossed, failed>>
  BY Zenon DEF Hold, Release, serverVars
<1>2. /\ Conns' = Conns /\ Loops' = Loops
      /\ \A d \in Conns : conn'[d].loop = conn[d].loop
      /\ conn' \in [Conns -> Connection]
  <2>1. CASE Hold(c)
    BY <1>1, <2>1, Zenon DEF Hold, Types, ConnTypes, Connection, Conns, Loops
  <2>2. CASE Release(c)
    BY <1>1, <2>2 DEF Release, Types, ConnTypes, Connection, Conns, Loops
  <2> QED
    BY <2>1, <2>2, Zenon
<1>3. FunctorInv' /\ Waiting' = Waiting
  BY <1>1, <1>2, SameQueues, Zenon
<1>4. held' \subseteq Conns
  BY Zenon DEF Hold, Release, Types, ConnTypes
<1>5. ConnTypes'
  BY <1>1, <1>2, <1>4, ConnFacts, NextConnTypes, Zenon
<1>6. Holds(c) \/ Releases(c)
  BY <1>1, <1>3, Zenon DEF Hold, Release, Holds, Releases
<1> QED
  BY <1>3, <1>5, <1>6, Zenon

(* connectDestroyed changes the life of connections and nothing else.      *)
EndsAs(cs, freed, K) ==
  /\ K \in [Conns -> Connection] /\ DOMAIN K = Conns
  /\ \A d \in Conns : /\ K[d].loop = conn[d].loop /\ K[d].fd = conn[d].fd
                      /\ d \notin cs => K[d] = conn[d]
                      /\ d \in cs => /\ K[d].registered = FALSE
                                     /\ K[d].life = IF d \in freed THEN "freed"
                                                    ELSE "disconnected"

(* It does so for the connections it is called for.                        *)
LEMMA EndedTypes ==
  ASSUME Types
  PROVE  \A cs, freed : EndsAs(cs, freed, Ended(cs, freed))
<1> TAKE cs, freed
<1>1. ASSUME NEW d \in Conns
      PROVE  LET x == [conn[d] EXCEPT !.registered = FALSE,
                               !.life = IF d \in freed THEN "freed" ELSE "disconnected"]
             IN  /\ x \in Connection /\ x.loop = conn[d].loop /\ x.fd = conn[d].fd
                 /\ x.registered = FALSE
                 /\ x.life = IF d \in freed THEN "freed" ELSE "disconnected"
  <2>1. conn[d] \in Connection
    BY ConnFacts, Zenon
  <2> QED
    BY <2>1, Zenon DEF Connection
<1>2. conn \in [Conns -> Connection]
  BY ConnFacts, Zenon
<1> QED
  BY <1>1, <1>2, Zenon DEF Ended, EndsAs

(* So does it when it is the step.                                         *)
LEMMA EndedNext ==
  ASSUME Types, UNCHANGED pool, \E cs, freed : conn' = Ended(cs, freed)
  PROVE  /\ Conns' = Conns /\ Loops' = Loops
         /\ \A d \in Conns : conn'[d].loop = conn[d].loop
         /\ conn' \in [Conns -> Connection]
<1>1. PICK cs, freed : EndsAs(cs, freed, conn')
  BY EndedTypes, Zenon
<1>2. /\ conn' \in [Conns -> Connection] /\ DOMAIN conn' = Conns
      /\ \A d \in Conns : conn'[d].loop = conn[d].loop
  BY <1>1, Zenon DEF EndsAs
<1> QED
  BY <1>2, Zenon DEF Conns, Loops

(* connectDestroyed on the loop of its connection.                         *)
LEMMA DestroyMoves ==
  ASSUME Types, NEW l \in Loops, connectDestroyed(l)
  PROVE  FunctorInv' /\ ConnTypes' /\ \E c \in Conns : Destroys(c)
<1> DEFINE c == Head(functors[l]).conn
<1>1. /\ CallFunctor(l, "connectDestroyed") /\ "connectDestroyed" \in Ops
      /\ functors' = Called(l) /\ UNCHANGED <<pool, nextConnId_, connections_, closing, held>>
      /\ conn' = Ended({c}, LastReferenceGone({c}))
      /\ UNCHANGED <<alive, crossed, failed>>
  BY Zenon DEF connectDestroyed, serverVars, Ops
<1>2. /\ QueuesOK(Called(l), conn) /\ c \in Conns /\ Des(c) /\ ~Est(c)
      /\ WaitingIn(Called(l)) = Waiting \ {Do("connectDestroyed", c)}
  BY <1>1, Calls, Zenon DEF Des
<1> HIDE DEF c
<1>3. /\ Conns' = Conns /\ Loops' = Loops
      /\ \A d \in Conns : conn'[d].loop = conn[d].loop
      /\ conn' \in [Conns -> Connection]
  BY <1>1, EndedNext, Zenon
<1>4. FunctorInv' /\ Waiting' = Waiting \ {Do("connectDestroyed", c)}
  BY <1>1, <1>2, <1>3, NewQueues, Zenon
<1>5. ConnTypes'
  BY <1>1, <1>3, ConnFacts, NextConnTypes, Zenon
<1>6. Destroys(c)
  BY <1>1, <1>2, <1>4, Zenon DEF Destroys
<1> QED
  BY <1>2, <1>4, <1>5, <1>6, Zenon

(* queueInLoop, for a functor other than connectEstablished.               *)
LEMMA QueueOne ==
  ASSUME NEW F, QueuesOK(F, conn), NEW l \in Loops, NEW op \in Ops \ {"connectEstablished"},
         NEW c \in Nat, Belongs(Do(op, c), l, conn), Do(op, c) \notin WaitingIn(F),
         functors' = [F EXCEPT ![l] = Append(@, Do(op, c))], UNCHANGED <<pool, conn>>
  PROVE  FunctorInv' /\ Waiting' = WaitingIn(F) \cup {Do(op, c)}
<1> DEFINE g == Do(op, c)
<1>1. g \in Functor /\ \A d \in Nat : g # Do("connectEstablished", d)
  BY DoParts
<1>2. F \in [Loops -> Seq(Functor)]
  BY Zenon DEF QueuesOK
<1>3. functors' = [F EXCEPT ![l] = Append(@, g)] /\ g \notin WaitingIn(F) /\ Belongs(g, l, conn)
  BY Zenon
<1> HIDE DEF g
<1>4. Adding(F, functors', l, g)
  <2>1. Adding(F, [F EXCEPT ![l] = Append(@, g)], l, g)
    BY <1>1, <1>2, Adds1, Zenon
  <2> QED
    BY <1>3, <2>1, Zenon
<1>5. QueuesOK(functors', conn) /\ WaitingIn(functors') = WaitingIn(F) \cup {g}
  <2>1. \A d \in Nat : g = Do("connectEstablished", d) =>
          Do("connectDestroyed", d) \notin WaitingIn(F)
    BY <1>1, Zenon
  <2>2. QueuesOK(F, conn) /\ l \in Loops /\ g \in Functor
    BY <1>1, Zenon
  <2> DEFINE G == functors'
  <2>3. Adding(F, G, l, g)
    BY <1>4, Zenon
  <2> HIDE DEF G
  <2>4. QueuesOK(G, conn) /\ WaitingIn(G) = WaitingIn(F) \cup {g}
    BY <1>3, <2>1, <2>2, <2>3, Queued, SMTT(30)
  <2> QED
    BY <2>4, Zenon DEF G
<1> QED
  BY <1>5, NextQueues, Zenon DEF g

(* A connection that is to be removed is removed once.                     *)
LEMMA AskedOnce ==
  ASSUME Types, LifeInv, alive, NEW c \in Conns, InClose(c) \/ Rem(c)
  PROVE  Leaving(c) /\ ~Des(c) /\ (Rem(c) <=> ~InClose(c))
BY Zenon DEF LifeInv, Phase, Connecting, Connected, Leaving, Ending, Over

(* removeConnection and what it does on the base loop or queues to it.     *)
LEMMA RemoveMoves ==
  ASSUME Types, LifeInv, NEW l \in Loops, removeConnection(l)
  PROVE  FunctorInv' /\ ConnTypes' /\ (Fails \/ \E c \in Conns : Asks(c) \/ Erases(c))
<1> DEFINE c == closing[l]
<1>1. /\ c \in Conns /\ c # NoConn /\ conn[c].loop = l /\ InClose(c)
      /\ c \in Nat
  BY ConnFacts, Zenon DEF removeConnection, InClose
<1>2. /\ closing' = [closing EXCEPT ![l] = NoConn]
      /\ UNCHANGED <<pool, nextConnId_, conn, held, alive, crossed>>
  BY Zenon DEF removeConnection, serverVars
<1>3. closing' \in [Loops -> Conns \cup {NoConn}]
      /\ \A m \in Loops : closing'[m] \in {closing[m], NoConn}
  BY <1>2, ConnFacts, Zenon
<1>4. connections_' \subseteq Conns
  BY ConnFacts, Zenon DEF removeConnection, Erase
<1>5. /\ Conns' = Conns /\ conn' \in [Conns -> Connection] /\ held' \subseteq Conns
      /\ \A d \in Conns : d \in Conns' /\ conn'[d].loop = conn[d].loop
  BY <1>2, ConnFacts, Zenon DEF Conns
<1>6. ConnTypes'
  <2>1. \A m \in Loops : closing'[m] # NoConn => conn[closing'[m]].loop = m
    BY <1>3, ConnFacts, Zenon
  <2> QED
    BY <1>2, <1>3, <1>4, <1>5, <2>1, NextConnTypes, Zenon
<1>7. Base \in Loops /\ QueuesOK(functors, conn) /\ Waiting = WaitingIn(functors)
  BY Zenon DEF Loops, Types, FunctorInv, Waiting
<1> HIDE DEF c
<1>8. CASE (~alive \/ c \notin connections_) /\ UNCHANGED <<functors, connections_>>
  <2>1. FunctorInv' /\ Waiting' = Waiting
    BY <1>2, <1>5, <1>8, SameQueues, Zenon
  <2>2. Fails
    BY <1>1, <1>2, <1>3, <1>8, <2>1, Zenon DEF Fails
  <2> QED
    BY <1>6, <2>1, <2>2, Zenon
<1>9. CASE /\ alive /\ c \in connections_ /\ connections_' = connections_ \ {c}
           /\ functors' = [functors EXCEPT ![l] = Append(@, Do("connectDestroyed", c))]
           /\ UNCHANGED failed
  <2>1. ~Des(c) /\ ~Rem(c)
    BY <1>1, <1>9, AskedOnce, Zenon
  <2>2. /\ Belongs(Do("connectDestroyed", c), l, conn)
        /\ Do("connectDestroyed", c) \notin WaitingIn(functors)
    BY <1>1, <1>7, <2>1, Zenon DEF Belongs, Conns, Des
  <2>3. FunctorInv' /\ Waiting' = Waiting \cup {Do("connectDestroyed", c)}
    BY <1>1, <1>2, <1>7, <1>9, <2>2, QueueOne, Zenon DEF Ops
  <2>4. Waiting' = (Waiting \ {Do("removeConnectionInLoop", c)})
                     \cup {Do("connectDestroyed", c)}
    BY <2>1, <2>3, Zenon DEF Rem
  <2>5. Erases(c)
    BY <1>1, <1>2, <1>9, <2>4, Zenon DEF Erases
  <2> QED
    BY <1>1, <1>6, <2>3, <2>5, Zenon
<1>10. CASE /\ alive /\ functors' = Queue(Base, Do("removeConnectionInLoop", c))
            /\ UNCHANGED <<failed, connections_>>
  <2>1. ~Rem(c)
    BY <1>1, <1>10, AskedOnce, Zenon
  <2>2. /\ Belongs(Do("removeConnectionInLoop", c), Base, conn)
        /\ Do("removeConnectionInLoop", c) \notin WaitingIn(functors)
    BY <1>1, <1>7, <2>1, Zenon DEF Belongs, Conns, Rem
  <2>3. functors' = [functors EXCEPT ![Base] = Append(@, Do("removeConnectionInLoop", c))]
    BY <1>10, Zenon DEF Queue
  <2>4. FunctorInv' /\ Waiting' = Waiting \cup {Do("removeConnectionInLoop", c)}
    BY <1>1, <1>2, <1>7, <2>2, <2>3, QueueOne, ZenonT(30) DEF Ops
  <2>5. Asks(c)
    BY <1>1, <1>2, <1>10, <2>4, Zenon DEF Asks
  <2> QED
    BY <1>1, <1>6, <2>4, <2>5, Zenon
<1> QED
  BY <1>1, <1>8, <1>9, <1>10, Zenon DEF removeConnection, Erase, c

(* removeConnectionInLoop as a functor.                                    *)
LEMMA RemoveInLoopMoves ==
  ASSUME Types, LifeInv, removeConnectionInLoop
  PROVE  FunctorInv' /\ ConnTypes' /\ (Fails \/ \E c \in Conns : Erases(c))
<1> DEFINE c == Head(functors[Base]).conn
<1>1. /\ CallFunctor(Base, "removeConnectionInLoop") /\ Base \in Loops
      /\ UNCHANGED <<pool, nextConnId_, conn, closing, held, alive, crossed>>
  BY Zenon DEF removeConnectionInLoop, serverVars, Loops
<1>2. /\ QueuesOK(Called(Base), conn) /\ c \in Conns /\ Rem(c)
      /\ WaitingIn(Called(Base)) = Waiting \ {Do("removeConnectionInLoop", c)}
  BY <1>1, Calls, Zenon DEF Ops, Rem
<1>3. connections_' \subseteq Conns
  BY ConnFacts, Zenon DEF removeConnectionInLoop, Erase
<1>4. /\ Conns' = Conns /\ conn' \in [Conns -> Connection] /\ held' \subseteq Conns
      /\ \A d \in Conns : d \in Conns' /\ conn'[d].loop = conn[d].loop
  BY <1>1, ConnFacts, Zenon DEF Conns
<1>5. ConnTypes'
  BY <1>1, <1>3, <1>4, ConnFacts, NextConnTypes, Zenon
<1>6. /\ \/ /\ ~alive \/ c \notin connections_
            /\ functors' = Called(Base) /\ UNCHANGED connections_
         \/ /\ alive /\ c \in connections_ /\ connections_' = connections_ \ {c}
            /\ functors' = [Called(Base) EXCEPT
                              ![conn[c].loop] = Append(@, Do("connectDestroyed", c))]
            /\ UNCHANGED failed
  BY Zenon DEF removeConnectionInLoop, Erase
<1> HIDE DEF c
<1>7. CASE (~alive \/ c \notin connections_) /\ functors' = Called(Base) /\ UNCHANGED connections_
  <2>1. FunctorInv' /\ Waiting' = Waiting \ {Do("removeConnectionInLoop", c)}
    BY <1>1, <1>2, <1>4, <1>7, NewQueues, Zenon
  <2>2. Fails
    BY <1>1, <1>2, <1>7, <2>1, Zenon DEF Fails
  <2> QED
    BY <1>5, <2>1, <2>2, Zenon
<1>8. CASE /\ alive /\ c \in connections_ /\ connections_' = connections_ \ {c}
           /\ functors' = [Called(Base) EXCEPT
                             ![conn[c].loop] = Append(@, Do("connectDestroyed", c))]
           /\ UNCHANGED failed
  <2> DEFINE F == Called(Base)
             l == conn[c].loop
  <2>1. ~Des(c) /\ l \in Loops /\ c \in Nat
    BY <1>2, <1>8, AskedOnce, ConnFacts, Zenon
  <2>2. /\ Belongs(Do("connectDestroyed", c), l, conn)
        /\ Do("connectDestroyed", c) \notin WaitingIn(F)
    BY <1>2, <2>1, Zenon DEF Belongs, Conns, Des
  <2>3. functors' = [F EXCEPT ![l] = Append(@, Do("connectDestroyed", c))] /\ QueuesOK(F, conn)
    BY <1>2, <1>8, Zenon
  <2> HIDE DEF F, l
  <2>4. FunctorInv' /\ Waiting' = WaitingIn(F) \cup {Do("connectDestroyed", c)}
    BY <1>1, <2>1, <2>2, <2>3, QueueOne, Zenon DEF Ops
  <2>5. Erases(c)
    BY <1>1, <1>2, <1>8, <2>4, Zenon DEF Erases, F
  <2> QED
    BY <1>2, <1>5, <2>4, <2>5, Zenon
<1> QED
  BY <1>6, <1>7, <1>8, Zenon

(* What ~TcpServer queues to a loop.                                       *)
LEMMA Elsewhere ==
  ASSUME Types, LifeInv, alive, NEW l \in Loops, NEW q \in DestroyElsewhere(l)
  PROVE  /\ q \in Seq(Functor) /\ IsInjective(q) /\ Range(q) \cap Waiting = {}
         /\ \A f \in Range(q) : Belongs(f, l, conn) /\ f.op = "connectDestroyed"
         /\ Range(q) = {Do("connectDestroyed", c) :
                          c \in {d \in connections_ : conn[d].loop = l /\ l # Base}}
<1> DEFINE cs == {d \in connections_ : conn[d].loop = l /\ l # Base}
           S == {Do("connectDestroyed", c) : c \in cs}
<1>1. q \in Orders(S, nextConnId_) /\ nextConnId_ \in Nat
  BY Zenon DEF DestroyElsewhere, Types, ServerTypes
<1> HIDE DEF S
<1>2. q \in Seq(S) /\ Range(q) = S /\ IsInjective(q)
  BY <1>1, Ordered, Zenon
<1>3. ASSUME NEW c \in cs
      PROVE  c \in Conns /\ c \in Nat /\ conn[c].loop = l /\ ~Des(c)
  <2>1. c \in Conns /\ c \in Nat /\ c \in connections_
    BY ConnFacts, Zenon
  <2>2. Phase(c)
    BY <2>1, Zenon DEF LifeInv
  <2> QED
    BY <2>1, <2>2, Zenon DEF Phase, Connecting, Connected, Leaving, Ending, Over
<1>4. ASSUME NEW f \in S
      PROVE  f \in Functor /\ f \notin Waiting /\ Belongs(f, l, conn) /\ f.op = "connectDestroyed"
  <2>1. PICK c \in cs : f = Do("connectDestroyed", c)
    BY Zenon DEF S
  <2>2. c \in Conns /\ c \in Nat /\ conn[c].loop = l /\ ~Des(c)
    BY <1>3, Zenon
  <2> HIDE DEF cs
  <2> QED
    BY <2>1, <2>2, DoParts, Zenon DEF Belongs, Conns, Des, Ops
<1>5. q \in Seq(Functor)
  <2>1. S \subseteq Functor
    BY <1>4, Zenon
  <2> QED
    BY <1>2, <2>1
<1> QED
  BY <1>2, <1>4, <1>5, Zenon DEF S

(* ~TcpServer.                                                             *)
LEMMA EndMoves ==
  ASSUME Types, LifeInv, DestroyServer
  PROVE  FunctorInv' /\ ConnTypes' /\ Ends
<1>1. /\ alive /\ alive' = FALSE /\ connections_' = {} /\ closing[Base] = NoConn
      /\ conn' = Ended(Here, LastReferenceGone(Here))
      /\ UNCHANGED <<pool, nextConnId_, closing, held, failed>>
  BY Zenon DEF DestroyServer, AtRest, Here
<1>2. /\ Conns' = Conns /\ Loops' = Loops
      /\ \A d \in Conns : conn'[d].loop = conn[d].loop
      /\ conn' \in [Conns -> Connection]
  BY <1>1, EndedNext, Zenon
<1>3. ConnTypes'
  BY <1>1, <1>2, ConnFacts, NextConnTypes, Zenon
<1>4. PICK there : /\ there \in [Loops -> UNION {DestroyElsewhere(l) : l \in Loops}]
                   /\ \A l \in Loops : there[l] \in DestroyElsewhere(l)
                   /\ functors' = [l \in Loops |-> functors[l] \o there[l]]
  BY Zenon DEF DestroyServer
<1>5. ASSUME NEW l \in Loops
      PROVE  /\ there[l] \in Seq(Functor) /\ IsInjective(there[l])
             /\ Range(there[l]) \cap Waiting = {}
             /\ \A f \in Range(there[l]) : Belongs(f, l, conn) /\ f.op = "connectDestroyed"
             /\ Range(there[l]) = {Do("connectDestroyed", c) :
                   c \in {d \in connections_ : conn[d].loop = l /\ l # Base}}
  BY <1>1, <1>4, Elsewhere, Zenon
<1>6. there \in [Loops -> Seq(Functor)]
  BY <1>4, <1>5, Zenon
<1> DEFINE G == [l \in Loops |-> functors[l] \o there[l]]
<1>7. QueuesOK(G, conn) /\ WaitingIn(G) = Waiting \cup WaitingIn(there)
  BY <1>5, <1>6, Spliced, ZenonT(60) DEF Types, FunctorInv, Waiting
<1>8. functors' = G
  BY <1>4, Zenon
<1> HIDE DEF G
<1>9. FunctorInv' /\ Waiting' = Waiting \cup WaitingIn(there)
  BY <1>1, <1>2, <1>7, <1>8, NewQueues, Zenon
<1>10. WaitingIn(there) = {Do("connectDestroyed", c) : c \in connections_ \ Here}
  <2>1. \A c \in connections_ : conn[c].loop \in Loops
    BY ConnFacts, Zenon
  <2>2. ASSUME NEW f \in WaitingIn(there)
        PROVE  f \in {Do("connectDestroyed", c) : c \in connections_ \ Here}
    <3>1. PICK l \in Loops : f \in Range(there[l])
      BY Zenon DEF WaitingIn
    <3>2. f \in {Do("connectDestroyed", c) :
                   c \in {d \in connections_ : conn[d].loop = l /\ l # Base}}
      BY <1>5, <3>1, Zenon
    <3> QED
      BY <3>2, Zenon DEF Here
  <2>3. ASSUME NEW c \in connections_ \ Here PROVE Do("connectDestroyed", c) \in WaitingIn(there)
    <3> DEFINE l == conn[c].loop
    <3>1. l \in Loops /\ c \in {d \in connections_ : conn[d].loop = l /\ l # Base}
      BY <2>1, Zenon DEF Here
    <3>2. Do("connectDestroyed", c) \in Range(there[l])
      BY <1>5, <3>1, ZenonT(120)
    <3> QED
      BY <3>1, <3>2, Zenon DEF WaitingIn
  <2> QED
    BY <2>2, <2>3, Zenon
<1>11. crossed' = \/ crossed \/ starting # {} \/ Listen0 \in Waiting
                  \/ \E c \in Conns : Rem(c)
                  \/ \E c \in connections_ : conn[c].life = "disconnected"
  <2>1. \A op, c : HasFunctor(op, c) <=> Do(op, c) \in Waiting
    BY Waits, Zenon DEF Types
  <2>2. crossed' = \/ crossed \/ starting # {} \/ HasFunctor("listen", NoConn)
                   \/ \E c \in Conns : HasFunctor("removeConnectionInLoop", c)
                   \/ \E c \in connections_ : conn[c].life = "disconnected"
    BY Zenon DEF DestroyServer
  <2> QED
    BY <2>1, <2>2, Zenon DEF Rem, Listen0
<1>12. Ends
  BY <1>1, <1>9, <1>10, <1>11, Zenon DEF Ends
<1> QED
  BY <1>3, <1>9, <1>12, Zenon

(* The types when the connections do not change.                           *)
LEMMA SameConns ==
  ASSUME Types, UNCHANGED <<pool, nextConnId_, connections_, conn, closing, held>>
  PROVE  ConnTypes'
<1>1. Conns' = Conns /\ conn' \in [Conns -> Connection]
  BY ConnFacts, Zenon DEF Conns
<1> QED
  BY <1>1, ConnFacts, NextConnTypes, Zenon

(* The steps that change neither connections nor functors.                 *)
LEMMA SameMoves ==
  ASSUME Types, UNCHANGED <<pool, nextConnId_, alive, connVars, crossed, failed>>
  PROVE  FunctorInv' /\ ConnTypes' /\ Same
<1>1. UNCHANGED <<pool, nextConnId_, connections_, conn, functors, closing, held, alive,
                  crossed, failed>>
  BY Zenon DEF connVars
<1>2. FunctorInv' /\ Waiting' = Waiting
  BY <1>1, SameQueues, Zenon DEF Conns
<1> QED
  BY <1>1, <1>2, SameConns, Zenon DEF Same

(* Every step of the server is one of the kinds above, and only start()    *)
(* queues listen.                                                          *)
LEMMA NextMoves ==
  ASSUME ServerInv, Next
  PROVE  FunctorInv' /\ ConnTypes' /\ (Move \/ (QueueListen /\ \E t \in Starters : start(t)))
<1> USE DEF ServerInv
<1>1. ASSUME NEW t \in Starters, ExchangeStarted(t)
      PROVE  FunctorInv' /\ ConnTypes' /\ Move
  BY <1>1, SameMoves, Zenon DEF ExchangeStarted, Move
<1>2. ASSUME NEW t \in Starters, start(t)
      PROVE  FunctorInv' /\ ConnTypes' /\ (Move \/ QueueListen)
  <2>1. ConnTypes'
    BY <1>2, SameConns, Zenon DEF start
  <2> QED
    BY <1>2, <2>1, StartMoves, Zenon DEF Move
<1>3. ASSUME NEW l \in Loops, FunctorStep(l)
      PROVE  FunctorInv' /\ ConnTypes' /\ Move
  <2>1. CASE connectEstablished(l)
    BY <2>1, EstablishMoves, Zenon DEF Move
  <2>2. CASE connectDestroyed(l)
    BY <2>2, DestroyMoves, Zenon DEF Move
  <2>3. CASE listen
    <3>1. ConnTypes'
      BY <2>3, SameConns, Zenon DEF listen, serverVars
    <3> QED
      BY <2>3, <3>1, ListenMoves, Zenon DEF Move
  <2>4. CASE removeConnectionInLoop
    BY <2>4, RemoveInLoopMoves, Zenon DEF Move
  <2> QED
    BY <1>3, <2>1, <2>2, <2>3, <2>4, Zenon DEF FunctorStep
<1>4. ASSUME NEW l \in Loops, HandlerStep(l)
      PROVE  FunctorInv' /\ ConnTypes' /\ Move
  <2>1. CASE removeConnection(l)
    BY <2>1, RemoveMoves, Zenon DEF Move
  <2>2. CASE handleReadRest
    BY <2>2, SameMoves, Zenon DEF handleReadRest, serverVars, Move
  <2> QED
    BY <1>4, <2>1, <2>2, Zenon DEF HandlerStep
<1>5. CASE handleRead
  <2>1. ASSUME NEW connfd \in Fds, newConnection(nextConnId_, connfd),
               UNCHANGED <<pool, started_, starting, alive, closing, held>>
        PROVE  FunctorInv' /\ ConnTypes' /\ Move
    BY <1>5, <2>1, NewMoves, Zenon DEF handleRead, Move
  <2>2. CASE UNCHANGED <<serverVars, connVars>>
    BY <1>5, <2>2, SameMoves, Zenon DEF handleRead, serverVars, Move
  <2> QED
    BY <1>5, <2>1, <2>2, Zenon DEF handleRead
<1>6. ASSUME NEW c \in Conns, handleClose(c) \/ Hold(c) \/ Release(c)
      PROVE  FunctorInv' /\ ConnTypes' /\ Move
  BY <1>6, CloseMoves, HoldMoves, Zenon DEF Move
<1>7. CASE DestroyServer
  BY <1>7, EndMoves, Zenon DEF Move
<1>8. CASE UNCHANGED <<serverVars, connVars, crossed, failed>>
  BY <1>8, SameMoves, Zenon DEF serverVars, Move
<1> QED
  BY <1>1, <1>2, <1>3, <1>4, <1>5, <1>6, <1>7, <1>8, Zenon DEF Next

-----------------------------------------------------------------------------
(* Descriptors o are the open ones and fd, which belongs to who.           *)
OpenAs(fd, who, o) ==
  /\ DOMAIN o = DOMAIN open \cup {fd} /\ o[fd] = who
  /\ \A f \in DOMAIN open : f # fd => o[f] = open[f]

(* Descriptors o are the open ones but for fds.                            *)
ClosedAs(fds, o) ==
  /\ DOMAIN o = DOMAIN open \ fds
  /\ \A f \in DOMAIN open \ fds : o[f] = open[f]

(* Descriptors are opened and closed, and the others keep their owners.    *)
LEMMA OpenParts ==
  /\ \A fd, who : OpenAs(fd, who, Open(fd, who))
  /\ \A fds : ClosedAs(fds, Closed(fds))
BY Zenon DEF Open, OpenAs, Closed, ClosedAs

OpenOK(o) == DOMAIN o \subseteq Fds /\ o \in [DOMAIN o -> Int]

(* Owners are numbers.                                                     *)
LEMMA OpenTypes ==
  ASSUME OpenOK(open)
  PROVE  /\ \A fd \in Fds, who \in Int : OpenOK(Open(fd, who))
         /\ \A fds : OpenOK(Closed(fds))
BY Zenon DEF OpenOK, Open, Closed

(* A step frees the connections fr and no others.                          *)
Frees(fr) ==
  /\ fr \subseteq Conns /\ Conns' = Conns
  /\ \A c \in fr : conn[c].life # "freed"
  /\ \A c \in Conns : /\ conn'[c].fd = conn[c].fd
                      /\ conn'[c].life = "freed" <=> conn[c].life = "freed" \/ c \in fr

Sockets(fr) == {conn[c].fd : c \in fr}

(* What a step does to the Acceptor and the descriptors.                   *)
Untouched == UNCHANGED <<acceptorVars, nextConnId_, alive>> /\ Frees({})

ClosesSockets(fr) ==
  /\ Frees(fr) /\ open' = Closed(Sockets(fr))
  /\ UNCHANGED <<idleFd_, listenning_, backlog, arrivals, apc, taken, stolen, nextConnId_,
                 alive>>

EndsAcceptor(fr) == Frees(fr) /\ CloseAcceptor(Sockets(fr)) /\ ~alive' /\ UNCHANGED nextConnId_

Accepts(connfd) ==
  /\ alive /\ UNCHANGED alive
  /\ AcceptNew(nextConnId_, connfd) /\ nextConnId_' = nextConnId_ + 1
  /\ Conns' = Conns \cup {nextConnId_} /\ nextConnId_ \notin Conns
  /\ \A c \in Conns : conn'[c] = conn[c]
  /\ conn'[nextConnId_].fd = connfd /\ conn'[nextConnId_].life # "freed"

AcceptorAlone ==
  /\ \/ ClientConnects \/ OtherOpens \/ OtherCloses
     \/ alive /\ (Listen \/ AcceptFails \/ CloseIdle)
     \/ AcceptIdle \/ CloseAccepted \/ Reopen
  /\ UNCHANGED <<nextConnId_, conn, alive>>

AcceptorMove ==
  \/ Untouched \/ AcceptorAlone
  \/ \E fr : ClosesSockets(fr) \/ EndsAcceptor(fr)
  \/ \E connfd \in Fds : Accepts(connfd)

(* newConnection keeps the accepted descriptor in the new connection.      *)
LEMMA NewAccepts ==
  ASSUME Types, NEW connfd \in Fds, alive, UNCHANGED alive,
         AcceptNew(nextConnId_, connfd), newConnection(nextConnId_, connfd)
  PROVE  Accepts(connfd)
<1> DEFINE c == nextConnId_
           r == NewTcpConnection(getNextLoop, connfd)
<1>1. c \in Nat /\ c # 0 /\ Conns = 1..(c - 1) /\ conn \in [1..(c - 1) -> Connection]
  BY Zenon DEF Types, ServerTypes, ConnTypes
<1>2. r.fd = connfd /\ r.life # "freed"
  BY Zenon DEF NewTcpConnection
<1>3. conn' = Append(conn, r) /\ nextConnId_' = c + 1
  BY Zenon DEF newConnection
<1> HIDE DEF r
<1>4. conn \in Seq(Connection) /\ Len(conn) = c - 1
  BY <1>1
<1>5. DOMAIN conn' = 1..c /\ conn'[c] = r /\ \A d \in 1..(c - 1) : conn'[d] = conn[d]
  <2> DEFINE q == Append(conn, r)
  <2>1. Len(q) = c /\ q[c] = r /\ (\A d \in 1..(c - 1) : q[d] = conn[d]) /\ DOMAIN q = 1..Len(q)
    BY <1>1, <1>4
  <2> HIDE DEF q
  <2> QED
    BY <1>3, <2>1, Zenon DEF q
<1>6. Conns' = Conns \cup {c} /\ c \notin Conns
  BY <1>1, <1>5 DEF Conns
<1> QED
  BY <1>1, <1>2, <1>3, <1>5, <1>6, Zenon DEF Accepts

(* Every step of the server is one of these.                               *)
LEMMA NextAccepts ==
  ASSUME ServerInv, Next
  PROVE  AcceptorMove
<1> USE DEF ServerInv
<1>1. CASE UNCHANGED <<acceptorVars, nextConnId_, alive, conn>>
  <2>1. Frees({})
    BY <1>1, Zenon DEF Frees, Conns
  <2> QED
    BY <1>1, <2>1, Zenon DEF AcceptorMove, Untouched
<1>2. ASSUME NEW l \in Loops, connectEstablished(l) PROVE AcceptorMove
  <2>1. PICK c \in Conns : Establishes(c)
    BY <1>2, EstablishMoves, Zenon
  <2>2. conn[c].life # "freed" /\ conn \in [Conns -> Connection] /\ conn[c] \in Connection
    BY <2>1, ConnFacts, Zenon DEF RefInv, Refers, Establishes
  <2>3. conn' = [conn EXCEPT ![c] = [[conn[c] EXCEPT !.life = "connected"]
                                       EXCEPT !.registered = TRUE]]
    BY <2>1, <2>2, Zenon DEF Establishes
  <2>4. LET x == [[conn[c] EXCEPT !.life = "connected"] EXCEPT !.registered = TRUE]
        IN  x.fd = conn[c].fd /\ x.life # "freed"
    BY <2>2, Zenon DEF Connection
  <2>5. Frees({})
    BY <2>2, <2>3, <2>4, Zenon DEF Frees, Conns
  <2> QED
    BY <1>2, <2>5, Zenon DEF connectEstablished, serverVars, AcceptorMove, Untouched
<1>3. ASSUME NEW c \in Conns, handleClose(c) PROVE AcceptorMove
  <2>1. /\ conn[c].life = "connected" /\ conn' = [conn EXCEPT ![c].life = "disconnected"]
        /\ conn \in [Conns -> Connection]
    BY <1>3, ConnFacts, Zenon DEF handleClose
  <2>2. Frees({})
    BY <2>1, Zenon DEF Frees, Conns, Connection
  <2> QED
    BY <1>3, <2>2, Zenon DEF handleClose, serverVars, AcceptorMove, Untouched
<1>4. ASSUME NEW l \in Loops, connectDestroyed(l) PROVE AcceptorMove
  <2> DEFINE c == Head(functors[l]).conn
             fr == LastReferenceGone({c})
  <2>1. c \in Conns /\ Des(c)
    BY <1>4, Calls, Zenon DEF connectDestroyed, Ops, Des
  <2>2. /\ conn' = Ended({c}, fr) /\ open' = Closed(Sockets(fr))
        /\ UNCHANGED <<idleFd_, listenning_, backlog, arrivals, apc, taken, stolen, nextConnId_,
                 alive>>
    BY <1>4, Zenon DEF connectDestroyed, serverVars, Sockets
  <2>3. fr \subseteq {c}
    BY Zenon DEF LastReferenceGone
  <2>4. conn[c].life # "freed"
    BY <2>1, Zenon DEF RefInv, Refers
  <2> HIDE DEF fr, c
  <2>5. EndsAs({c}, fr, conn')
    BY <2>2, EndedTypes, Zenon
  <2>6. Frees(fr)
    BY <2>1, <2>3, <2>4, <2>5, Zenon DEF Frees, EndsAs, Conns
  <2> QED
    BY <2>2, <2>6, ZenonT(30) DEF AcceptorMove, ClosesSockets
<1>5. ASSUME NEW c \in Conns, Release(c) PROVE AcceptorMove
  <2> DEFINE fr == LastReferenceGone({c})
  <2>1. /\ conn' = [conn EXCEPT ![c].life = IF c \in fr THEN "freed" ELSE @]
        /\ open' = Closed(Sockets(fr)) /\ c \in held
        /\ UNCHANGED <<idleFd_, listenning_, backlog, arrivals, apc, taken, stolen, nextConnId_,
                 alive>>
    BY <1>5, Zenon DEF Release, serverVars, Sockets
  <2>2. fr \subseteq {c}
    BY Zenon DEF LastReferenceGone
  <2>3. conn[c].life # "freed" /\ conn \in [Conns -> Connection]
    BY <2>1, ConnFacts, Zenon DEF RefInv, Refers
  <2> HIDE DEF fr
  <2>4. Frees(fr)
    BY <2>1, <2>2, <2>3, Zenon DEF Frees, Conns, Connection
  <2> QED
    BY <2>1, <2>4, Zenon DEF AcceptorMove, ClosesSockets
<1>6. CASE DestroyServer
  <2> DEFINE fr == LastReferenceGone(Here)
  <2>1. /\ conn' = Ended(Here, fr) /\ CloseAcceptor(Sockets(fr))
        /\ alive' = FALSE /\ UNCHANGED nextConnId_
    BY <1>6, Zenon DEF DestroyServer, Sockets, Here
  <2>2. fr \subseteq Here /\ Here \subseteq Conns /\ \A c \in Here : conn[c].life # "freed"
    BY ConnFacts, Zenon DEF LastReferenceGone, Here, RefInv, Refers
  <2> HIDE DEF fr
  <2>3. EndsAs(Here, fr, conn')
    BY <2>1, EndedTypes, Zenon
  <2>4. Frees(fr)
    BY <2>2, <2>3, Zenon DEF Frees, EndsAs, Conns
  <2> QED
    BY <2>1, <2>4, Zenon DEF AcceptorMove, EndsAcceptor
<1>7. CASE handleRead
  <2>1. ASSUME NEW connfd \in Fds, AcceptNew(nextConnId_, connfd),
               newConnection(nextConnId_, connfd), UNCHANGED alive
        PROVE  AcceptorMove
    BY <1>7, <2>1, NewAccepts, Zenon DEF handleRead, AcceptorMove
  <2> QED
    BY <1>7, <2>1, Zenon DEF handleRead, AcceptorMove, AcceptorAlone, serverVars, connVars
<1>8. CASE listen
  BY <1>1, <1>8, Zenon DEF listen, AcceptorMove, AcceptorAlone, serverVars
<1>9. CASE handleReadRest
  BY <1>9, Zenon DEF handleReadRest, AcceptorMove, AcceptorAlone, serverVars, connVars
<1>10. CASE Environment /\ UNCHANGED <<serverVars, connVars, crossed, failed>>
  BY <1>10, Zenon DEF Environment, AcceptorMove, AcceptorAlone, serverVars, connVars
<1>11. ASSUME NEW t \in Starters, ExchangeStarted(t) \/ start(t) PROVE AcceptorMove
  <2>1. CASE UNCHANGED acceptorVars
    BY <1>1, <1>11, <2>1, Zenon DEF ExchangeStarted, start, connVars
  <2>2. CASE alive /\ Listen /\ start(t)
    BY <2>2, Zenon DEF start, AcceptorMove, AcceptorAlone
  <2> QED
    BY <1>11, <2>1, <2>2, Zenon DEF ExchangeStarted, start
<1>12. ASSUME NEW l \in Loops, removeConnection(l) \/ removeConnectionInLoop PROVE AcceptorMove
  BY <1>1, <1>12, Zenon DEF removeConnection, removeConnectionInLoop, serverVars
<1>13. ASSUME NEW c \in Conns, Hold(c) PROVE AcceptorMove
  BY <1>1, <1>13, Zenon DEF Hold, serverVars
<1> QED
  BY <1>2, <1>3, <1>4, <1>5, <1>6, <1>7, <1>8, <1>9, <1>10, <1>11, <1>12, <1>13, Zenon
     DEF Next, FunctorStep, HandlerStep

(* The Acceptor keeps its types, and every client is counted once.         *)
LEMMA AcceptorTypes ==
  ASSUME Types, AcceptorMove
  PROVE  AcceptorTypeOK' /\ CountInv' /\ nextConnId_' \in Nat \ {0}
<1> DEFINE Good == /\ OpenOK(open') /\ idleFd_' \in Fds \cup {NoFd} /\ listenning_' \in BOOLEAN
                   /\ backlog' \in 0..MaxArrivals /\ arrivals' \in 0..MaxArrivals
                   /\ nextConnId_' \in Nat \ {0} /\ nextConnId_' - 1 + backlog' <= arrivals'
                   /\ apc' \in {"rest", "closed", "accepted", "closedAgain"}
                   /\ taken' \subseteq Fds /\ stolen' \in BOOLEAN
<1>1. /\ OpenOK(open) /\ idleFd_ \in Fds \cup {NoFd} /\ listenning_ \in BOOLEAN
      /\ backlog \in 0..MaxArrivals /\ arrivals \in 0..MaxArrivals
      /\ nextConnId_ \in Nat \ {0} /\ nextConnId_ - 1 + backlog <= arrivals
      /\ apc \in {"rest", "closed", "accepted", "closedAgain"}
      /\ taken \subseteq Fds /\ stolen \in BOOLEAN
  BY Zenon DEF Types, AcceptorTypeOK, ServerTypes, CountInv, OpenOK
<1>2. NoFd \notin Fds /\ Idle \in Int /\ Other \in Int /\ MaxArrivals \in Nat
  BY FdsAssumption, ArrivalsAssumption DEF NoFd, Idle, Other
<1>3. /\ \A fd \in Fds, who \in Int : OpenOK(Open(fd, who))
      /\ \A fds : OpenOK(Closed(fds))
  BY <1>1, OpenTypes, Zenon
<1>4. Good => AcceptorTypeOK' /\ CountInv' /\ nextConnId_' \in Nat \ {0}
  BY Zenon DEF AcceptorTypeOK, CountInv, OpenOK
<1>5. ASSUME Untouched PROVE Good
  <2>1. UNCHANGED <<open, idleFd_, listenning_, backlog, arrivals, apc, taken, stolen,
                    nextConnId_>>
    BY <1>5, Zenon DEF Untouched, acceptorVars
  <2> QED
    BY <1>1, <2>1, Zenon
<1>6. ASSUME NEW fr, ClosesSockets(fr) PROVE Good
  BY <1>1, <1>3, <1>6, Zenon DEF ClosesSockets
<1>7. ASSUME NEW fr, EndsAcceptor(fr) PROVE Good
  <2>1. /\ OpenOK(open') /\ idleFd_' = NoFd /\ listenning_' = FALSE /\ backlog' = 0
        /\ UNCHANGED <<arrivals, apc, taken, stolen, nextConnId_>>
    BY <1>3, <1>7, Zenon DEF EndsAcceptor, CloseAcceptor
  <2>2. listenning_' \in BOOLEAN /\ stolen' \in BOOLEAN
    BY <1>1, <2>1, Zenon
  <2>3. backlog' \in 0..MaxArrivals /\ nextConnId_' - 1 + backlog' <= arrivals'
    BY <1>1, <1>2, <2>1
  <2> QED
    BY <1>1, <2>1, <2>2, <2>3, Zenon
<1>8. ASSUME NEW connfd \in Fds, Accepts(connfd) PROVE Good
  BY <1>1, <1>2, <1>3, <1>8 DEF Accepts, AcceptNew, Readable
<1>9. ASSUME AcceptorAlone PROVE Good
  <2>1. CASE ClientConnects
    BY <1>1, <1>2, <1>9, <2>1, SMTT(30) DEF AcceptorAlone, ClientConnects
  <2>2. CASE OtherOpens
    BY <1>1, <1>2, <1>3, <1>9, <2>2, Zenon DEF AcceptorAlone, OtherOpens
  <2>3. CASE OtherCloses
    BY <1>1, <1>3, <1>9, <2>3, Zenon DEF AcceptorAlone, OtherCloses
  <2>4. CASE Listen \/ AcceptFails
    <3>1. /\ listenning_' \in BOOLEAN
          /\ UNCHANGED <<open, idleFd_, arrivals, apc, taken, stolen, nextConnId_>>
      BY <1>1, <1>9, <2>4, Zenon DEF AcceptorAlone, Listen, AcceptFails
    <3>2. backlog' \in 0..MaxArrivals /\ nextConnId_' - 1 + backlog' <= arrivals'
      BY <1>1, <1>2, <2>4, <3>1, SMTT(30) DEF Listen, AcceptFails, Readable
    <3> QED
      BY <1>1, <3>1, <3>2, Zenon
  <2>5. CASE CloseIdle \/ CloseAccepted
    BY <1>1, <1>3, <1>9, <2>5, Zenon DEF AcceptorAlone, CloseIdle, CloseAccepted
  <2>6. CASE AcceptIdle
    <3>1. /\ OpenOK(open') /\ idleFd_' \in Fds \cup {NoFd} /\ stolen' \in BOOLEAN
          /\ apc' = "accepted" /\ UNCHANGED <<listenning_, arrivals, taken, nextConnId_>>
      BY <1>1, <1>2, <1>3, <1>9, <2>6, Zenon DEF AcceptorAlone, AcceptIdle, SystemFull
    <3>2. backlog' = backlog \/ (backlog > 0 /\ backlog' = backlog - 1)
      BY <2>6, Zenon DEF AcceptIdle
    <3>3. backlog' \in 0..MaxArrivals /\ nextConnId_' - 1 + backlog' <= arrivals'
      BY <1>1, <1>2, <3>1, <3>2, SMTT(30)
    <3> QED
      BY <1>1, <3>1, <3>3, Zenon
  <2>7. CASE Reopen
    BY <1>1, <1>2, <1>3, <1>9, <2>7, Zenon DEF AcceptorAlone, Reopen, SystemFull
  <2> QED
    BY <1>9, <2>1, <2>2, <2>3, <2>4, <2>5, <2>6, <2>7, Zenon DEF AcceptorAlone
<1> QED
  <2> HIDE DEF Good
  <2>1. Good
    BY <1>5, <1>6, <1>7, <1>8, <1>9, Zenon DEF AcceptorMove
  <2> QED
    BY <1>4, <2>1, Zenon

(* Descriptors and their owners; idleFd_ says which one is in reserve      *)
(* unless handleRead has just closed it.                                   *)
InReserve == apc \in {"rest", "accepted"}

FdInv ==
  /\ \A fd \in DOMAIN open :
       /\ open[fd] \in Conns \cup {Idle, Other}
       /\ open[fd] = Idle => fd = idleFd_ /\ InReserve
       /\ open[fd] \in Conns => conn[open[fd]].fd = fd /\ conn[open[fd]].life # "freed"
  /\ \A c \in Conns :
       conn[c].life # "freed" => conn[c].fd \in DOMAIN open /\ open[conn[c].fd] = c
  /\ InReserve /\ idleFd_ # NoFd => idleFd_ \in DOMAIN open /\ open[idleFd_] = Idle

(* What other threads have opened and not closed is theirs.                *)
TakenInv == taken = {fd \in DOMAIN open : open[fd] = Other}

(* Only a server that is alive listens, and until somebody else takes it   *)
(* there is a descriptor in reserve, or one that is free to be.            *)
IdleInv ==
  /\ listenning_ \/ apc # "rest" => alive
  /\ alive /\ ~stolen => IF Lent THEN Free # {} ELSE idleFd_ # NoFd

(* Connections are not taken for the other owners.                         *)
LEMMA Owners ==
  ASSUME Types
  PROVE  /\ Idle \notin Conns /\ Other \notin Conns /\ Idle # Other /\ NoFd \notin Fds
         /\ nextConnId_ # Idle /\ nextConnId_ # Other
         /\ DOMAIN open \subseteq Fds /\ Free = Fds \ DOMAIN open
BY ConnFacts, FdsAssumption DEF Idle, Other, NoFd, Types, ServerTypes, AcceptorTypeOK, Free

(* Owners keep their descriptors when the connections do not change.       *)
LEMMA FdAlone ==
  ASSUME Types, FdInv, TakenInv, AcceptorAlone
  PROVE  FdInv'
<1>1. Conns' = Conns /\ conn' = conn
  BY Zenon DEF AcceptorAlone, Conns
<1>2. CASE ClientConnects \/ Listen \/ AcceptFails
  <2>1. UNCHANGED <<open, idleFd_, apc>>
    BY <1>2, Zenon DEF ClientConnects, Listen, AcceptFails
  <2> QED
    BY <1>1, <2>1, Zenon DEF FdInv, InReserve
<1>3. CASE OtherOpens
  <2>1. PICK fd \in Fds : Lowest(fd) /\ open' = Open(fd, Other)
    BY <1>3, Zenon DEF OtherOpens
  <2>2. UNCHANGED <<idleFd_, apc>> /\ fd \notin DOMAIN open
    BY <1>3, <2>1, Zenon DEF OtherOpens, Lowest, Free
  <2>3. /\ DOMAIN open' = DOMAIN open \cup {fd} /\ open'[fd] = Other
        /\ \A f \in DOMAIN open : f # fd => open'[f] = open[f]
    <3>1. OpenAs(fd, Other, open')
      BY <2>1, OpenParts, Zenon
    <3> QED
      BY <3>1, Zenon DEF OpenAs
  <2> QED
    BY <1>1, <2>2, <2>3, Owners DEF FdInv, InReserve
<1>4. CASE OtherCloses
  <2>1. PICK fd \in taken : open' = Closed({fd})
    BY <1>4, Zenon DEF OtherCloses
  <2>2. UNCHANGED <<idleFd_, apc>> /\ fd \in DOMAIN open /\ open[fd] = Other
    BY <1>4, <2>1, Zenon DEF OtherCloses, TakenInv
  <2>3. DOMAIN open' = DOMAIN open \ {fd} /\ \A f \in DOMAIN open \ {fd} : open'[f] = open[f]
    BY <2>1, OpenParts, Zenon DEF ClosedAs
  <2> QED
    BY <1>1, <2>2, <2>3, Owners DEF FdInv, InReserve
<1>5. CASE CloseIdle \/ CloseAccepted
  <2>1. /\ DOMAIN open' = DOMAIN open \ {idleFd_}
        /\ \A f \in DOMAIN open \ {idleFd_} : open'[f] = open[f]
    BY <1>5, OpenParts, Zenon DEF CloseIdle, CloseAccepted, ClosedAs
  <2>2. InReserve /\ ~InReserve' /\ UNCHANGED idleFd_
    BY <1>5, Zenon DEF CloseIdle, CloseAccepted, InReserve, Readable
  <2>3. idleFd_ \in DOMAIN open => open[idleFd_] = Idle
    BY <2>2, Owners DEF FdInv
  <2>4. \A fd \in DOMAIN open' :
          /\ open'[fd] \in Conns \cup {Idle, Other} /\ open'[fd] # Idle
          /\ open'[fd] \in Conns => conn[open'[fd]].fd = fd /\ conn[open'[fd]].life # "freed"
    BY <2>1, Zenon DEF FdInv
  <2>5. \A c \in Conns :
          conn[c].life # "freed" => conn[c].fd \in DOMAIN open' /\ open'[conn[c].fd] = c
    BY <2>1, <2>3, Owners DEF FdInv
  <2> QED
    BY <1>1, <2>2, <2>4, <2>5, Zenon DEF FdInv
<1>6. CASE AcceptIdle \/ Reopen
  <2>1. ~InReserve /\ InReserve'
    BY <1>6, Zenon DEF AcceptIdle, Reopen, InReserve
  <2>2. CASE idleFd_' = NoFd /\ UNCHANGED open
    BY <1>1, <2>1, <2>2, Zenon DEF FdInv
  <2>3. ASSUME NEW fd \in Fds, Lowest(fd), idleFd_' = fd, open' = Open(fd, Idle)
        PROVE  FdInv'
    <3>1. fd \notin DOMAIN open
      BY <2>3, Zenon DEF Lowest, Free
    <3>2. /\ DOMAIN open' = DOMAIN open \cup {fd} /\ open'[fd] = Idle
          /\ \A f \in DOMAIN open : f # fd => open'[f] = open[f]
      <4>1. OpenAs(fd, Idle, open')
        BY <2>3, OpenParts, Zenon
      <4> QED
        BY <4>1, Zenon DEF OpenAs
    <3>3. \A f \in DOMAIN open' :
            /\ open'[f] \in Conns \cup {Idle, Other}
            /\ open'[f] = Idle => f = fd
            /\ open'[f] \in Conns => conn[open'[f]].fd = f /\ conn[open'[f]].life # "freed"
      BY <2>1, <3>1, <3>2, Owners, Zenon DEF FdInv
    <3>4. \A c \in Conns :
            conn[c].life # "freed" => conn[c].fd \in DOMAIN open' /\ open'[conn[c].fd] = c
      BY <3>1, <3>2, Zenon DEF FdInv
    <3> QED
      BY <1>1, <2>1, <2>3, <3>2, <3>3, <3>4, Zenon DEF FdInv
  <2> QED
    BY <1>6, <2>2, <2>3, Zenon DEF AcceptIdle, Reopen
<1> QED
  BY <1>2, <1>3, <1>4, <1>5, <1>6, Zenon DEF AcceptorAlone

(* ~Socket of the connections that are freed closes their own descriptors  *)
(* and no others.                                                          *)
LEMMA FdFreed ==
  ASSUME Types, FdInv, NEW fr, Frees(fr), NEW S,
         S = Sockets(fr) \/ (S = Sockets(fr) \cup {idleFd_} /\ InReserve),
         ClosedAs(S, open')
  PROVE  /\ \A fd \in DOMAIN open' :
              /\ fd \in DOMAIN open /\ fd \notin S /\ open'[fd] = open[fd]
              /\ open'[fd] \in Conns => /\ conn'[open'[fd]].fd = fd
                                        /\ conn'[open'[fd]].life # "freed"
         /\ \A c \in Conns : conn'[c].life # "freed" =>
              conn'[c].fd \in DOMAIN open' /\ open'[conn'[c].fd] = c
         /\ idleFd_ \notin Sockets(fr) \/ idleFd_ \notin DOMAIN open \/ open[idleFd_] # Idle
<1>1. \A fd \in DOMAIN open' : fd \in DOMAIN open /\ fd \notin S /\ open'[fd] = open[fd]
  BY Zenon DEF ClosedAs
<1>2. ASSUME NEW c \in fr
      PROVE  c \in Conns /\ conn[c].fd \in S /\ conn[c].fd \in DOMAIN open /\ open[conn[c].fd] = c
  BY Zenon DEF Frees, FdInv, Sockets
<1>3. ASSUME NEW fd \in DOMAIN open', open'[fd] \in Conns
      PROVE  conn'[open'[fd]].fd = fd /\ conn'[open'[fd]].life # "freed"
  <2> DEFINE c == open[fd]
  <2>1. /\ fd \in DOMAIN open /\ fd \notin S /\ open'[fd] = c /\ c \in Conns
        /\ conn[c].fd = fd /\ conn[c].life # "freed"
    BY <1>1, <1>3, Zenon DEF FdInv
  <2>2. c \notin fr
    BY <1>2, <2>1, Zenon
  <2> QED
    BY <2>1, <2>2, Zenon DEF Frees
<1>4. ASSUME NEW c \in Conns, conn'[c].life # "freed"
      PROVE  conn'[c].fd \in DOMAIN open' /\ open'[conn'[c].fd] = c
  <2>1. conn[c].life # "freed" /\ c \notin fr /\ conn'[c].fd = conn[c].fd
    BY <1>4, Zenon DEF Frees
  <2>2. conn[c].fd \in DOMAIN open /\ open[conn[c].fd] = c
    BY <2>1, Zenon DEF FdInv
  <2>3. conn[c].fd \notin Sockets(fr)
    <3> SUFFICES ASSUME NEW d \in fr, conn[c].fd = conn[d].fd
                 PROVE  FALSE
      BY Zenon DEF Sockets
    <3> QED
      BY <1>2, <2>1, <2>2
  <2>4. InReserve /\ conn[c].fd = idleFd_ => FALSE
    <3>1. NoFd # conn[c].fd
      BY <2>2, Owners, Zenon
    <3> QED
      BY <2>2, <3>1, Owners, Zenon DEF FdInv
  <2>5. conn[c].fd \notin S
    BY <2>3, <2>4, Zenon
  <2> QED
    BY <2>1, <2>2, <2>5, Zenon DEF ClosedAs
<1>5. idleFd_ \in Sockets(fr) => idleFd_ \in DOMAIN open /\ open[idleFd_] \in Conns
  BY <1>2 DEF Sockets
<1> QED
  BY <1>1, <1>3, <1>4, <1>5, Owners, Zenon

(* Every descriptor keeps its owner, through every step.                   *)
LEMMA FdStep ==
  ASSUME Types, FdInv, TakenInv, AcceptorMove
  PROVE  FdInv'
<1>1. CASE Untouched
  <2>1. UNCHANGED <<open, idleFd_, apc>> /\ Conns' = Conns
        /\ \A c \in Conns : conn'[c].fd = conn[c].fd /\
             (conn'[c].life = "freed" <=> conn[c].life = "freed")
    BY <1>1, Zenon DEF Untouched, acceptorVars, Frees
  <2> QED
    BY <2>1, Zenon DEF FdInv, InReserve
<1>2. ASSUME NEW fr, ClosesSockets(fr) PROVE FdInv'
  <2>1. Frees(fr) /\ UNCHANGED <<idleFd_, apc>> /\ ClosedAs(Sockets(fr), open') /\ Conns' = Conns
    BY <1>2, OpenParts, Zenon DEF ClosesSockets, Frees
  <2>2. /\ \A fd \in DOMAIN open' :
              /\ fd \in DOMAIN open /\ open'[fd] = open[fd]
              /\ open'[fd] \in Conns => /\ conn'[open'[fd]].fd = fd
                                        /\ conn'[open'[fd]].life # "freed"
        /\ \A c \in Conns : conn'[c].life # "freed" =>
              conn'[c].fd \in DOMAIN open' /\ open'[conn'[c].fd] = c
        /\ idleFd_ \notin Sockets(fr) \/ idleFd_ \notin DOMAIN open \/ open[idleFd_] # Idle
    BY <2>1, FdFreed, Zenon
  <2>3. InReserve /\ idleFd_ # NoFd => idleFd_ \in DOMAIN open' /\ open'[idleFd_] = Idle
    BY <2>1, <2>2, Zenon DEF FdInv, ClosedAs
  <2> QED
    BY <2>1, <2>2, <2>3, ZenonT(120) DEF FdInv, InReserve
<1>3. ASSUME NEW fr, EndsAcceptor(fr) PROVE FdInv'
  <2> DEFINE S == {idleFd_} \cup Sockets(fr)
  <2>1. /\ Frees(fr) /\ idleFd_' = NoFd /\ InReserve /\ ClosedAs(S, open') /\ Conns' = Conns
        /\ S = Sockets(fr) \cup {idleFd_} /\ idleFd_ \in S
    BY <1>3, OpenParts, Zenon DEF EndsAcceptor, CloseAcceptor, Frees, InReserve
  <2> HIDE DEF S
  <2>2. /\ \A fd \in DOMAIN open' :
              /\ fd \in DOMAIN open /\ fd \notin S /\ open'[fd] = open[fd]
              /\ open'[fd] \in Conns => /\ conn'[open'[fd]].fd = fd
                                        /\ conn'[open'[fd]].life # "freed"
        /\ \A c \in Conns : conn'[c].life # "freed" =>
              conn'[c].fd \in DOMAIN open' /\ open'[conn'[c].fd] = c
    BY <2>1, FdFreed, Zenon
  <2>3. ASSUME NEW fd \in DOMAIN open' PROVE open'[fd] # Idle
    <3>1. fd \in DOMAIN open /\ fd # idleFd_ /\ open'[fd] = open[fd]
      BY <2>1, <2>2, Zenon
    <3> QED
      BY <3>1, Zenon DEF FdInv
  <2> QED
    BY <2>1, <2>2, <2>3, Zenon DEF FdInv
<1>4. ASSUME NEW connfd \in Fds, Accepts(connfd) PROVE FdInv'
  <2> DEFINE c == nextConnId_
  <2>1. /\ UNCHANGED <<idleFd_, apc>> /\ OpenAs(connfd, c, open') /\ Lowest(connfd)
        /\ Conns' = Conns \cup {c} /\ c \notin Conns
        /\ conn'[c].fd = connfd /\ conn'[c].life # "freed"
        /\ \A d \in Conns : conn'[d] = conn[d]
    BY <1>4, OpenParts, Zenon DEF Accepts, AcceptNew
  <2>2. connfd \notin DOMAIN open /\ c # Idle /\ c # Other
    BY <2>1, Owners, Zenon DEF Lowest
  <2> HIDE DEF c
  <2>3. \A fd \in DOMAIN open' : fd = connfd \/ (fd \in DOMAIN open /\ open'[fd] = open[fd])
    BY <2>1, Zenon DEF OpenAs
  <2>4. connfd \in DOMAIN open' /\ open'[connfd] = c
    BY <2>1, Zenon DEF OpenAs
  <2>5. \A fd \in DOMAIN open' :
          /\ open'[fd] \in Conns' \cup {Idle, Other}
          /\ open'[fd] = Idle => fd = idleFd_ /\ InReserve
          /\ open'[fd] \in Conns' =>
               conn'[open'[fd]].fd = fd /\ conn'[open'[fd]].life # "freed"
    BY <2>1, <2>2, <2>3, <2>4, Owners, SMTT(30) DEF FdInv
  <2>6. \A d \in Conns' : conn'[d].life # "freed" =>
          conn'[d].fd \in DOMAIN open' /\ open'[conn'[d].fd] = d
    BY <2>1, <2>2, <2>4 DEF FdInv, OpenAs
  <2>7. InReserve /\ idleFd_ # NoFd => idleFd_ \in DOMAIN open' /\ open'[idleFd_] = Idle
    BY <2>1, <2>2, Zenon DEF FdInv, OpenAs
  <2> QED
    BY <2>1, <2>5, <2>6, <2>7, Zenon DEF FdInv, InReserve
<1> QED
  BY <1>1, <1>2, <1>3, <1>4, FdAlone, Zenon DEF AcceptorMove

(* Other threads keep what is theirs when it is neither closed nor given   *)
(* to anybody else.                                                        *)
LEMMA TakenKept ==
  ASSUME TakenInv, UNCHANGED taken,
         \A fd \in DOMAIN open : open[fd] = Other => fd \in DOMAIN open' /\ open'[fd] = Other,
         \A fd \in DOMAIN open' : open'[fd] = Other => fd \in DOMAIN open /\ open[fd] = Other
  PROVE  TakenInv'
BY Zenon DEF TakenInv

(* The server closes no descriptor of another thread, in any step.         *)
LEMMA TakenStep ==
  ASSUME Types, FdInv, TakenInv, AcceptorMove
  PROVE  TakenInv'
<1>1. ASSUME UNCHANGED <<taken, open>> PROVE TakenInv'
  BY <1>1, Zenon DEF TakenInv
<1>2. ASSUME NEW fds, ClosedAs(fds, open'), UNCHANGED taken,
             \A fd \in fds : fd \in DOMAIN open => open[fd] # Other
      PROVE  TakenInv'
  BY <1>2, TakenKept, Zenon DEF ClosedAs
<1>3. ASSUME NEW fd \in Fds, NEW who, who # Other, fd \notin DOMAIN open,
             OpenAs(fd, who, open'), UNCHANGED taken
      PROVE  TakenInv'
  BY <1>3, TakenKept, Zenon DEF OpenAs
<1>4. InReserve /\ idleFd_ \in DOMAIN open => open[idleFd_] # Other
  <2>1. idleFd_ \in DOMAIN open => idleFd_ # NoFd
    BY Owners, Zenon
  <2> QED
    BY <2>1, Owners, Zenon DEF FdInv
<1>5. ASSUME NEW fr, Frees(fr), NEW fd \in Sockets(fr) PROVE open[fd] # Other
  <2>1. PICK c \in fr : fd = conn[c].fd
    BY Zenon DEF Sockets
  <2>2. c \in Conns /\ open[fd] = c
    BY <1>5, <2>1, Zenon DEF Frees, FdInv
  <2> QED
    BY <2>2, Owners, Zenon
<1>6. CASE Untouched
  BY <1>1, <1>6, Zenon DEF Untouched, acceptorVars
<1>7. ASSUME NEW fr, ClosesSockets(fr) PROVE TakenInv'
  <2>1. Frees(fr) /\ ClosedAs(Sockets(fr), open') /\ UNCHANGED taken
    BY <1>7, OpenParts, Zenon DEF ClosesSockets
  <2> QED
    BY <1>2, <1>5, <2>1, Zenon
<1>8. ASSUME NEW fr, EndsAcceptor(fr) PROVE TakenInv'
  <2>1. /\ Frees(fr) /\ ClosedAs({idleFd_} \cup Sockets(fr), open') /\ UNCHANGED taken
        /\ InReserve
    BY <1>8, OpenParts, Zenon DEF EndsAcceptor, CloseAcceptor, InReserve
  <2>2. \A fd \in {idleFd_} \cup Sockets(fr) : fd \in DOMAIN open => open[fd] # Other
    BY <1>4, <1>5, <2>1, Zenon
  <2> QED
    BY <1>2, <2>1, <2>2, Zenon
<1>9. ASSUME NEW connfd \in Fds, Accepts(connfd) PROVE TakenInv'
  <2>1. OpenAs(connfd, nextConnId_, open') /\ connfd \notin DOMAIN open /\ UNCHANGED taken
    BY <1>9, OpenParts, Zenon DEF Accepts, AcceptNew, Lowest, Free
  <2> QED
    BY <1>3, <2>1, Owners, Zenon
<1>10. CASE AcceptorAlone
  <2>1. CASE ClientConnects \/ Listen \/ AcceptFails
    BY <1>1, <2>1, Zenon DEF ClientConnects, Listen, AcceptFails
  <2>2. CASE OtherOpens
    <3>1. PICK fd \in Fds : Lowest(fd) /\ open' = Open(fd, Other) /\ taken' = taken \cup {fd}
      BY <2>2, Zenon DEF OtherOpens
    <3>2. OpenAs(fd, Other, open')
      BY <3>1, OpenParts, Zenon
    <3> QED
      BY <3>1, <3>2, Zenon DEF OpenAs, TakenInv
  <2>3. CASE OtherCloses
    <3>1. PICK fd \in taken : open' = Closed({fd}) /\ taken' = taken \ {fd}
      BY <2>3, Zenon DEF OtherCloses
    <3>2. ClosedAs({fd}, open')
      BY <3>1, OpenParts, Zenon
    <3> QED
      BY <3>1, <3>2, Zenon DEF ClosedAs, TakenInv
  <2>4. CASE CloseIdle \/ CloseAccepted
    <3> DEFINE S == {idleFd_}
    <3>1. ClosedAs(S, open') /\ UNCHANGED taken /\ InReserve
      BY <2>4, OpenParts, Zenon DEF CloseIdle, CloseAccepted, Readable, InReserve
    <3>2. \A fd \in S : fd \in DOMAIN open => open[fd] # Other
      BY <1>4, <3>1, Zenon
    <3> HIDE DEF S
    <3> QED
      BY <1>2, <3>1, <3>2, Zenon
  <2>5. CASE AcceptIdle \/ Reopen
    <3>1. UNCHANGED taken
      BY <2>5, Zenon DEF AcceptIdle, Reopen
    <3>2. ASSUME NEW fd \in Fds, Lowest(fd), open' = Open(fd, Idle) PROVE TakenInv'
      <4>1. OpenAs(fd, Idle, open') /\ fd \notin DOMAIN open
        BY <3>2, OpenParts, Zenon DEF Lowest, Free
      <4> QED
        BY <1>3, <3>1, <4>1, Owners, Zenon
    <3> QED
      BY <1>1, <2>5, <3>1, <3>2, Zenon DEF AcceptIdle, Reopen
  <2> QED
    BY <1>10, <2>1, <2>2, <2>3, <2>4, <2>5, Zenon DEF AcceptorAlone
<1> QED
  BY <1>6, <1>7, <1>8, <1>9, <1>10, Zenon DEF AcceptorMove

(* Other threads and processes aside, the reserve is not lost.             *)
LEMMA IdleStep ==
  ASSUME Types, FdInv, IdleInv, AcceptorMove
  PROVE  IdleInv'
<1> DEFINE Reserve == alive /\ ~stolen => IF Lent THEN Free # {} ELSE idleFd_ # NoFd
<1>1. (listenning_ \/ apc # "rest" => alive) /\ Reserve
  BY Zenon DEF IdleInv
<1>2. ASSUME NEW fds, ClosedAs(fds, open') PROVE Free # {} => Free' # {}
  BY <1>2, Zenon DEF Free, ClosedAs
<1>3. CASE Untouched
  BY <1>3, Zenon DEF Untouched, acceptorVars, IdleInv, Lent, Free
<1>4. ASSUME NEW fr, ClosesSockets(fr) PROVE IdleInv'
  <2>1. ClosedAs(Sockets(fr), open') /\ UNCHANGED <<idleFd_, listenning_, apc, stolen, alive>>
    BY <1>4, OpenParts, Zenon DEF ClosesSockets
  <2> QED
    BY <1>2, <2>1, Zenon DEF IdleInv, Lent
<1>5. ASSUME NEW fr, EndsAcceptor(fr) PROVE IdleInv'
  BY <1>5, Zenon DEF EndsAcceptor, CloseAcceptor, IdleInv
<1>6. ASSUME NEW connfd \in Fds, Accepts(connfd) PROVE IdleInv'
  BY <1>6, Zenon DEF Accepts, AcceptNew, Readable, IdleInv, Lent
<1>7. CASE AcceptorAlone
  <2>1. UNCHANGED alive
    BY <1>7, Zenon DEF AcceptorAlone
  <2>2. CASE ClientConnects
    BY <2>1, <2>2, Zenon DEF ClientConnects, IdleInv, Lent, Free
  <2>3. CASE OtherOpens
    <3>1. UNCHANGED <<idleFd_, listenning_, apc>> /\ stolen' = (stolen \/ Lent)
      BY <2>3, Zenon DEF OtherOpens
    <3>2. UNCHANGED Lent
      BY <3>1, Zenon DEF Lent
    <3> QED
      BY <2>1, <3>1, <3>2, Zenon DEF IdleInv
  <2>4. CASE OtherCloses
    <3>1. UNCHANGED <<idleFd_, listenning_, apc, stolen>> /\ \E fds : ClosedAs(fds, open')
      BY <2>4, OpenParts, Zenon DEF OtherCloses
    <3> QED
      BY <1>2, <2>1, <3>1, Zenon DEF IdleInv, Lent
  <2>5. CASE alive /\ (Listen \/ AcceptFails)
    <3>1. UNCHANGED <<open, idleFd_, apc, stolen>>
      BY <2>5, Zenon DEF Listen, AcceptFails
    <3>2. UNCHANGED <<Lent, Free>>
      BY <3>1, Zenon DEF Lent, Free
    <3> QED
      BY <2>1, <2>5, <3>1, <3>2, Zenon DEF IdleInv
  <2>6. CASE (alive /\ CloseIdle) \/ CloseAccepted
    <3>1. /\ InReserve /\ Lent' /\ UNCHANGED stolen /\ alive
          /\ ClosedAs({idleFd_}, open')
      BY <1>1, <2>6, OpenParts, Zenon DEF CloseIdle, CloseAccepted, Readable, InReserve, Lent
    <3>2. idleFd_ # NoFd => Free' # {}
      BY <3>1, Owners, Zenon DEF Free, ClosedAs, FdInv
    <3>3. Free # {} => Free' # {}
      BY <1>2, <3>1, Zenon
    <3> QED
      BY <1>1, <2>1, <3>1, <3>2, <3>3, Zenon DEF IdleInv
  <2>7. CASE AcceptIdle \/ Reopen
    <3>1. Lent /\ alive /\ (stolen => stolen')
      <4>1. apc \in {"closed", "closedAgain"} /\ apc # "rest"
        BY <2>7, Zenon DEF AcceptIdle, Reopen
      <4>2. UNCHANGED stolen \/ stolen' = TRUE
        BY <2>7, Zenon DEF AcceptIdle, Reopen, SystemFull
      <4>3. stolen => stolen'
        BY <4>2
      <4> QED
        BY <1>1, <4>1, <4>3, Zenon DEF Lent
    <3>2. \/ idleFd_' \in Fds /\ apc' \in {"rest", "accepted"}
          \/ AcceptIdle /\ apc' = "accepted" /\ idleFd_' = NoFd /\ UNCHANGED open
          \/ stolen' \/ Free = {}
      BY <2>7, Zenon DEF AcceptIdle, Reopen, SystemFull
    <3>3. CASE idleFd_' \in Fds /\ apc' \in {"rest", "accepted"}
      <4>1. idleFd_' # NoFd /\ ~Lent'
        BY <3>3, Owners, Zenon DEF Lent
      <4> QED
        BY <2>1, <3>1, <4>1, Zenon DEF IdleInv
    <3>4. CASE apc' = "accepted" /\ idleFd_' = NoFd /\ UNCHANGED open
      <4>1. Lent' /\ UNCHANGED Free
        BY <3>4, Zenon DEF Lent, Free
      <4> QED
        BY <1>1, <2>1, <3>1, <4>1, Zenon DEF IdleInv
    <3>5. CASE stolen' \/ Free = {}
      BY <1>1, <2>1, <3>1, <3>5, Zenon DEF IdleInv
    <3> QED
      BY <3>2, <3>3, <3>4, <3>5, Zenon
  <2> QED
    BY <1>7, <2>2, <2>3, <2>4, <2>5, <2>6, <2>7, Zenon DEF AcceptorAlone
<1> QED
  BY <1>3, <1>4, <1>5, <1>6, <1>7, Zenon DEF AcceptorMove

-----------------------------------------------------------------------------
(* The pool, the threads in start() and the flags of the server.           *)
LEMMA ServerStep ==
  ASSUME ServerInv, Next, nextConnId_' \in Nat \ {0}
  PROVE  ServerTypes'
<1>1. /\ pool \in Pools /\ started_ \in BOOLEAN /\ starting \subseteq Starters /\ next_ \in Nat
      /\ alive \in BOOLEAN /\ crossed \in BOOLEAN
      /\ failed \subseteq {"start", "listen", "removeConnection", "server"}
  BY Zenon DEF ServerInv, Types, ServerTypes
<1>2. UNCHANGED pool
  BY Zenon DEF Next, ExchangeStarted, start, FunctorStep, connectEstablished,
     connectDestroyed,
         listen, removeConnectionInLoop, HandlerStep, removeConnection, handleReadRest,
         handleRead, handleClose, Hold, Release, DestroyServer, serverVars
<1>3. started_' \in BOOLEAN /\ alive' \in BOOLEAN
  BY <1>1, Zenon DEF Next, ExchangeStarted, start, FunctorStep, connectEstablished,
     connectDestroyed,
         listen, removeConnectionInLoop, HandlerStep, removeConnection, handleReadRest,
         handleRead, handleClose, Hold, Release, DestroyServer, serverVars
<1>4. crossed' \in BOOLEAN
  <2>1. ASSUME NEW c \in Conns, handleClose(c) PROVE crossed' \in BOOLEAN
    BY <2>1, Zenon DEF handleClose
  <2>2. CASE DestroyServer
    BY <2>2, Zenon DEF DestroyServer
  <2>3. CASE UNCHANGED crossed
    BY <1>1, <2>3, Zenon
  <2> QED
    BY <2>1, <2>2, <2>3, Zenon DEF Next, ExchangeStarted, start, FunctorStep,
         connectEstablished, connectDestroyed,
         listen, removeConnectionInLoop, HandlerStep, removeConnection, handleReadRest,
         handleRead, Hold, Release
<1>5. starting' \subseteq Starters /\ next_' \in Nat
  <2>1. ASSUME NEW t \in Starters, ExchangeStarted(t) \/ start(t)
        PROVE  starting' \subseteq Starters /\ next_' \in Nat
    BY <1>1, <2>1, Zenon DEF ExchangeStarted, start
  <2>2. ASSUME NEW connfd, newConnection(nextConnId_, connfd), UNCHANGED starting
        PROVE  starting' \subseteq Starters /\ next_' \in Nat
    BY <1>1, <2>2 DEF newConnection
  <2>3. CASE UNCHANGED <<starting, next_>>
    BY <1>1, <2>3, Zenon
  <2> QED
    BY <2>1, <2>2, <2>3, ZenonT(60) DEF Next, FunctorStep, connectEstablished, connectDestroyed,
         listen, removeConnectionInLoop, HandlerStep, removeConnection, handleReadRest,
         handleRead, handleClose, Hold, Release, DestroyServer, serverVars
<1>6. failed' \subseteq {"start", "listen", "removeConnection", "server"}
  <2>1. failed' \subseteq failed \cup {"start", "listen", "removeConnection", "server"}
    <3>1. CASE failed' = failed
      BY <3>1, Zenon
    <3>2. ASSUME NEW f \in {"start", "listen", "removeConnection", "server"},
                 failed' = failed \cup {f}
          PROVE  failed' \subseteq failed \cup {"start", "listen", "removeConnection", "server"}
      BY <3>2, Zenon
    <3> QED
      BY <3>1, <3>2, Zenon DEF Next, ExchangeStarted, start, FunctorStep,
         connectEstablished,
         connectDestroyed, listen, removeConnectionInLoop, HandlerStep, removeConnection, Erase,
         handleReadRest, handleRead, handleClose, Hold, Release, DestroyServer
  <2> QED
    BY <1>1, <2>1, Zenon
<1> QED
  BY <1>1, <1>2, <1>3, <1>4, <1>5, <1>6, Zenon DEF ServerTypes

(* Steps other than start() queue no listen.                               *)
LEMMA NoNewListen ==
  ASSUME Move, Listen0 \in Waiting'
  PROVE  Listen0 \in Waiting
<1>1. \A op, c : Listen0 = Do(op, c) => op = "listen"
  BY DoParts DEF Listen0
<1>2. CASE Same \/ CallListen \/ Fails
  BY <1>2, Zenon DEF Same, CallListen, Fails
<1>3. CASE Ends
  BY <1>1, <1>3, Zenon DEF Ends
<1>4. CASE Adds(nextConnId_)
  BY <1>1, <1>4 DEF Adds
<1>5. ASSUME NEW c \in Conns, \/ Establishes(c) \/ Closes(c) \/ Asks(c) \/ Erases(c)
                              \/ Destroys(c) \/ Holds(c) \/ Releases(c)
      PROVE  Listen0 \in Waiting
  BY <1>1, <1>5 DEF Establishes, Closes, Asks, Erases, Destroys, Holds, Releases
<1> QED
  BY <1>2, <1>3, <1>4, <1>5, Zenon DEF Move

(* One thread passes the test of start(), before anything listens.         *)
LEMMA StartStep ==
  ASSUME ServerInv, Next
  PROVE  StartInv' /\ (starting' \subseteq starting \/ (alive /\ alive'))
<1>1. StartInv
  BY Zenon DEF ServerInv
<1>2. ASSUME NEW t \in Starters, ExchangeStarted(t)
      PROVE  StartInv' /\ alive /\ alive'
  <2>1. /\ ~started_ /\ started_' = TRUE /\ starting' = starting \cup {t} /\ alive /\ alive'
        /\ UNCHANGED listenning_
    BY <1>2, Zenon DEF ExchangeStarted, acceptorVars
  <2>2. Waiting' = Waiting
    BY <1>2, SameMoves, Zenon DEF ExchangeStarted, ServerInv, Same
  <2>3. starting = {}
    BY <1>1, <2>1, Zenon DEF StartInv
  <2> QED
    BY <1>1, <2>1, <2>2, <2>3, Zenon DEF StartInv
<1>3. ASSUME NEW t \in Starters, start(t)
      PROVE  StartInv' /\ starting' \subseteq starting
  <2>1. started_' = TRUE /\ starting' = {}
    BY <1>1, <1>3, Zenon DEF start, StartInv
  <2> QED
    BY <2>1, Zenon DEF StartInv
<1>4. ASSUME Listen0 \in Waiting' => Listen0 \in Waiting, UNCHANGED <<started_, starting>>,
             listenning_' => listenning_ \/ Listen0 \in Waiting
      PROVE  StartInv'
  BY <1>1, <1>4, Zenon DEF StartInv
<1>5. ASSUME UNCHANGED <<started_, starting>>, ~(\E t \in Starters : start(t))
      PROVE  StartInv'
  <2>1. Listen0 \in Waiting' => Listen0 \in Waiting
    BY <1>5, NextMoves, NoNewListen, Zenon
  <2>2. CASE listen
    <3>1. Listen0 \in Waiting
      BY <2>2, Calls, Zenon DEF listen, Ops, Listen0, Loops, ServerInv
    <3> QED
      BY <1>4, <1>5, <2>1, <3>1, Zenon
  <2>3. CASE listenning_' = listenning_ \/ listenning_' = FALSE
    BY <1>4, <1>5, <2>1, <2>3, ZenonT(60)
  <2> QED
    BY <1>5, <2>2, <2>3, ZenonT(60) DEF Next, ExchangeStarted, start, FunctorStep,
       connectEstablished,
       connectDestroyed, removeConnectionInLoop, HandlerStep, removeConnection, handleReadRest,
       handleRead, handleClose, Hold, Release, DestroyServer, Environment, acceptorVars,
       ClientConnects, OtherOpens, OtherCloses, AcceptNew, AcceptFails, CloseIdle, AcceptIdle,
       CloseAccepted, Reopen, CloseAcceptor
<1>6. \/ \E t \in Starters : ExchangeStarted(t) \/ start(t)
      \/ UNCHANGED <<started_, starting>>
  BY Zenon DEF Next, FunctorStep, connectEstablished, connectDestroyed, listen,
       removeConnectionInLoop, HandlerStep, removeConnection, handleReadRest,
       handleRead, handleClose, Hold, Release, DestroyServer, serverVars
<1> QED
  BY <1>2, <1>3, <1>5, <1>6, Zenon

-----------------------------------------------------------------------------
(* A step leaves connection d where it is in its life.                     *)
Kept(d) ==
  /\ conn'[d] = conn[d]
  /\ (Est(d)' <=> Est(d)) /\ (Des(d)' <=> Des(d)) /\ (Rem(d)' <=> Rem(d))
  /\ (InClose(d)' <=> InClose(d)) /\ (d \in connections_' <=> d \in connections_)

(* What an operation on connection c is.                                   *)
MoveOf(c) ==
  \/ Establishes(c) \/ Closes(c) \/ Asks(c) \/ Erases(c) \/ Destroys(c)
  \/ Holds(c) \/ Releases(c)

(* A connection that is left where it is stays in its phase.               *)
LEMMA KeptPhase ==
  ASSUME NEW d, Kept(d), Phase(d)
  PROVE  Phase(d)'
<1>1. Connecting(d) => Connecting(d)'
  BY Zenon DEF Kept, Connecting
<1>2. Connected(d) => Connected(d)'
  BY Zenon DEF Kept, Connected
<1>3. Leaving(d) => Leaving(d)'
  BY Zenon DEF Kept, Leaving
<1>4. Ending(d) => Ending(d)'
  BY Zenon DEF Kept, Ending
<1>5. Over(d) => Over(d)'
  BY Zenon DEF Kept, Over
<1> QED
  BY <1>1, <1>2, <1>3, <1>4, <1>5, Zenon DEF Phase

(* A step on connection c leaves the others alone.                         *)
LEMMA OthersKept ==
  ASSUME Types, NEW c \in Conns, MoveOf(c), NEW d \in Conns, d # c
  PROVE  Kept(d)
<1>1. \A op, op2 : Do(op, c) # Do(op2, d)
  BY DoParts
<1>2. /\ \A op : Do(op, d) \in Waiting' <=> Do(op, d) \in Waiting
      /\ d \in connections_' <=> d \in connections_
  BY <1>1, Zenon DEF MoveOf, Establishes, Closes, Asks, Erases, Destroys, Holds, Releases
<1>3. conn'[d] = conn[d]
  <2>1. conn \in [Conns -> Connection]
    BY ConnFacts, Zenon
  <2>2. CASE Establishes(c)
    BY <2>1, <2>2, Zenon DEF Establishes
  <2>3. CASE Closes(c) \/ Releases(c)
    BY <2>1, <2>3, Zenon DEF Closes, Releases
  <2>4. CASE Destroys(c)
    BY <2>4, EndedTypes, Zenon DEF Destroys, Ended
  <2>5. CASE UNCHANGED conn
    BY <2>5, Zenon
  <2> QED
    BY <2>2, <2>3, <2>4, <2>5, Zenon DEF MoveOf, Asks, Erases, Holds
<1>4. InClose(d)' <=> InClose(d)
  <2>1. /\ closing \in [Loops -> Conns \cup {NoConn}] /\ d # NoConn
        /\ conn[c].loop \in Loops /\ conn[d].loop \in Loops
    BY ConnFacts, Zenon
  <2>2. CASE closing' = [closing EXCEPT ![conn[c].loop] = c] /\ closing[conn[c].loop] = NoConn
    BY <1>3, <2>1, <2>2, Zenon DEF InClose
  <2>3. CASE closing' = [closing EXCEPT ![conn[c].loop] = NoConn] /\ InClose(c)
    BY <1>3, <2>1, <2>3, Zenon DEF InClose
  <2>4. CASE UNCHANGED closing
    BY <1>3, <2>4, Zenon DEF InClose
  <2> QED
    BY <2>2, <2>3, <2>4, Zenon DEF MoveOf, Establishes, Closes, Asks, Erases, Destroys,
       Holds, Releases
<1> QED
  BY <1>2, <1>3, <1>4, Zenon DEF Kept, Est, Des, Rem

(* The references of the shared pointers, after a step.                    *)
LEMMA Referring ==
  ASSUME FunctorInv', ConnTypes', NEW c \in Conns', c # NoConn
  PROVE  Referenced(c)' <=> Refers(c)'
<1>1. \A op : HasFunctor(op, c)' <=> (Do(op, c) \in Waiting)'
  BY Zenon DEF HasFunctor, Waiting, WaitingIn
<1>2. (\E l \in Loops : closing[l] = c)' <=> InClose(c)'
  <2>1. conn'[c].loop \in Loops'
    BY Zenon DEF ConnTypes, Connection
  <2>2. \A l \in Loops' : closing'[l] = c => conn'[c].loop = l
    BY Zenon DEF ConnTypes
  <2> QED
    BY <2>1, <2>2, Zenon DEF InClose
<1> QED
  BY <1>1, <1>2, Zenon DEF Referenced, Refers, Est, Des, Rem

(* The asserts of the server do not fail before its end crosses a call.    *)
LEMMA NoFailure ==
  ASSUME ServerInv, Fails
  PROVE  crossed
<1> SUFFICES ASSUME ~crossed PROVE FALSE
  BY Zenon
<1>1. /\ \A c \in Conns : Phase(c)
      /\ ~alive => starting = {} /\ Listen0 \notin Waiting /\ connections_ = {}
      /\ starting # {} => ~listenning_
  BY Zenon DEF ServerInv, LifeInv, StartInv
<1>2. PICK c \in Conns : (InClose(c) \/ Rem(c)) /\ (~alive \/ c \notin connections_)
  BY <1>1, Zenon DEF Fails
<1>3. c \in connections_
  BY <1>1, <1>2, Zenon DEF Phase, Connecting, Connected, Leaving, Ending, Over
<1> QED
  BY <1>1, <1>2, <1>3, Zenon

(* The life of a connection that a step changes.                           *)
LEMMA EstablishLife ==
  ASSUME Types, NEW c \in Conns, Establishes(c)
  PROVE  /\ Conns' = Conns /\ conn'[c].loop = conn[c].loop
         /\ conn'[c].life = "connected" /\ conn'[c].registered = TRUE
<1>1. conn \in [Conns -> Connection] /\ conn[c] \in Connection
  BY ConnFacts, Zenon
<1>2. conn' = [conn EXCEPT ![c] = [[conn[c] EXCEPT !.life = "connected"]
                                     EXCEPT !.registered = TRUE]]
  BY <1>1, Zenon DEF Establishes
<1>3. LET x == [[conn[c] EXCEPT !.life = "connected"] EXCEPT !.registered = TRUE]
      IN  x.loop = conn[c].loop /\ x.life = "connected" /\ x.registered = TRUE
  BY <1>1, Zenon DEF Connection
<1> QED
  BY <1>1, <1>2, <1>3, Zenon DEF Conns

(* handleClose.                                                            *)
LEMMA CloseLife ==
  ASSUME Types, NEW c \in Conns, Closes(c)
  PROVE  /\ Conns' = Conns /\ conn'[c].loop = conn[c].loop
         /\ conn'[c].life = "disconnected" /\ conn'[c].registered = conn[c].registered
         /\ InClose(c)'
<1>1. conn \in [Conns -> Connection] /\ conn[c] \in Connection
      /\ closing \in [Loops -> Conns \cup {NoConn}] /\ conn[c].loop \in Loops
  BY ConnFacts, Zenon
<1>2. /\ conn' = [conn EXCEPT ![c].life = "disconnected"]
      /\ closing' = [closing EXCEPT ![conn[c].loop] = c]
  BY Zenon DEF Closes
<1>3. /\ conn'[c].loop = conn[c].loop /\ conn'[c].life = "disconnected"
      /\ conn'[c].registered = conn[c].registered /\ Conns' = Conns
  BY <1>1, <1>2, Zenon DEF Connection, Conns
<1> QED
  BY <1>1, <1>2, <1>3, Zenon DEF InClose

(* connectDestroyed.                                                       *)
LEMMA DestroyLife ==
  ASSUME Types, NEW c \in Conns, Destroys(c)
  PROVE  /\ Conns' = Conns /\ conn'[c].loop = conn[c].loop /\ conn'[c].registered = FALSE
         /\ conn'[c].life = IF Referenced(c)' THEN "disconnected" ELSE "freed"
<1>1. EndsAs({c}, LastReferenceGone({c}), conn')
  BY EndedTypes, Zenon DEF Destroys
<1>2. c \in LastReferenceGone({c}) <=> ~Referenced(c)'
  BY Zenon DEF LastReferenceGone
<1>3. /\ Conns' = Conns /\ conn'[c].loop = conn[c].loop /\ conn'[c].registered = FALSE
      /\ conn'[c].life = IF c \in LastReferenceGone({c}) THEN "freed" ELSE "disconnected"
  BY <1>1, Zenon DEF EndsAs, Conns
<1> QED
  BY <1>2, <1>3, Zenon

(* A user gives up a TcpConnectionPtr.                                     *)
LEMMA ReleaseLife ==
  ASSUME Types, NEW c \in Conns, Releases(c)
  PROVE  /\ Conns' = Conns /\ conn'[c].loop = conn[c].loop
         /\ conn'[c].registered = conn[c].registered
         /\ conn'[c].life = IF Referenced(c)' THEN conn[c].life ELSE "freed"
<1>1. conn \in [Conns -> Connection] /\ conn[c] \in Connection
  BY ConnFacts, Zenon
<1>2. c \in LastReferenceGone({c}) <=> ~Referenced(c)'
  BY Zenon DEF LastReferenceGone
<1> DEFINE fr == LastReferenceGone({c})
<1>3. conn' = [conn EXCEPT ![c].life = IF c \in fr THEN "freed" ELSE @]
  BY Zenon DEF Releases
<1> HIDE DEF fr
<1>4. /\ conn'[c].loop = conn[c].loop /\ conn'[c].registered = conn[c].registered
      /\ conn'[c].life = (IF c \in fr THEN "freed" ELSE conn[c].life) /\ Conns' = Conns
  BY <1>1, <1>3, Zenon DEF Connection, Conns
<1> QED
  BY <1>2, <1>4, Zenon DEF fr

(* While the server lives, its map holds the connections that are up.      *)
InMap(c) == conn[c].life \in {"connecting", "connected"} => c \in connections_

(* What a step may do to a connection: nothing that others see,            *)
StaysPut(c) ==
  /\ Phase(c)' /\ conn'[c].life = conn[c].life /\ conn'[c].registered = conn[c].registered
  /\ (c \in connections_' <=> c \in connections_) /\ (Des(c)' <=> Des(c))
  /\ (Rem(c)' \/ InClose(c)') <=> (Rem(c) \/ InClose(c))

(* or take it to its next phase.                                           *)
Turn(c) ==
  \/ StaysPut(c)
  \/ Connecting(c) /\ Connected(c)' /\ (c \in connections_' <=> c \in connections_)
  \/ Connected(c) /\ c \in connections_ /\ Leaving(c)'
  \/ Leaving(c) /\ Ending(c)'
  \/ (Connected(c) \/ Ending(c)) /\ Over(c)'
  \/ /\ \/ Connecting(c) /\ Connecting(c)'
        \/ Connected(c) /\ Connected(c)'
     /\ c \in connections_ /\ c \notin connections_' /\ ~alive'
  \/ /\ Over(c) /\ conn[c].life = "disconnected"
     /\ Over(c)' /\ conn'[c].life = "freed"

(* Every turn leads to a phase, and only the end of the server takes a     *)
(* connection that is up out of the map.                                   *)
LEMMA TurnPhase ==
  ASSUME NEW c, Turn(c)
  PROVE  /\ Phase(c)'
         /\ InMap(c) /\ alive' => InMap(c)'
<1>1. Phase(c)'
  BY Zenon DEF Turn, StaysPut, Phase
<1>2. ASSUME StaysPut(c), InMap(c) PROVE InMap(c)'
  BY <1>2, Zenon DEF StaysPut, InMap
<1>3. ASSUME Leaving(c)' \/ Ending(c)' \/ Over(c)' PROVE InMap(c)'
  BY <1>3, Zenon DEF Leaving, Ending, Over, InMap
<1>4. ASSUME Connecting(c), InMap(c), c \in connections_' <=> c \in connections_
      PROVE  InMap(c)'
  BY <1>4, Zenon DEF Connecting, InMap
<1> QED
  BY <1>1, <1>2, <1>3, <1>4, Zenon DEF Turn

(* A step on a connection takes it to the next phase of its life.          *)
LEMMA NextPhase ==
  ASSUME ServerInv, FunctorInv', ConnTypes', ~crossed', NEW c \in Conns, MoveOf(c)
  PROVE  Turn(c)
<1>1. Types /\ LifeInv /\ ~crossed /\ (Closes(c) => alive)
  <2>1. CASE Closes(c)
    BY <2>1, Zenon DEF ServerInv, Closes
  <2>2. CASE ~Closes(c)
    <3>1. UNCHANGED crossed
      BY <2>2, Zenon DEF MoveOf, Establishes, Asks, Erases, Destroys, Holds, Releases
    <3> QED
      BY <2>2, <3>1, Zenon DEF ServerInv
  <2> QED
    BY <2>1, <2>2, Zenon
<1>2. /\ Phase(c) /\ UNCHANGED alive
      /\ alive /\ conn[c].life \in {"connecting", "connected"} => c \in connections_
  BY <1>1, Zenon DEF LifeInv, MoveOf, Establishes, Closes, Asks, Erases, Destroys,
     Holds, Releases
<1>3. /\ Do("connectEstablished", c) # Do("connectDestroyed", c)
      /\ Do("connectEstablished", c) # Do("removeConnectionInLoop", c)
      /\ Do("connectDestroyed", c) # Do("removeConnectionInLoop", c)
  BY DoParts
<1>4. /\ closing \in [Loops -> Conns \cup {NoConn}] /\ conn[c].loop \in Loops /\ c # NoConn
  BY <1>1, ConnFacts, Zenon
<1>5. CASE Establishes(c)
  <2>1. Connecting(c)
    BY <1>2, <1>5, Zenon DEF Phase, Connecting, Connected, Leaving, Ending, Over,
       Establishes
  <2>2. /\ conn'[c].loop = conn[c].loop
        /\ conn'[c].life = "connected" /\ conn'[c].registered = TRUE
    BY <1>1, <1>5, EstablishLife, Zenon
  <2>3. ~Est(c)' /\ (Des(c)' <=> Des(c)) /\ (Rem(c)' <=> Rem(c)) /\ UNCHANGED <<connections_, closing>>
    BY <1>3, <1>5, Zenon DEF Establishes, Est, Des, Rem
  <2>4. InClose(c)' <=> InClose(c)
    BY <2>2, <2>3, Zenon DEF InClose
  <2>5. Connected(c)'
    BY <2>1, <2>2, <2>3, <2>4, Zenon DEF Connecting, Connected
  <2> QED
    BY <1>2, <2>1, <2>3, <2>5, Zenon DEF Turn, Connecting
<1>6. CASE Closes(c)
  <2>1. alive /\ Connected(c) /\ c \in connections_
    BY <1>1, <1>2, <1>6, Zenon DEF Phase, Connecting, Connected, Leaving, Ending, Over,
       Closes
  <2>2. /\ conn'[c].life = "disconnected" /\ conn'[c].registered = conn[c].registered
        /\ InClose(c)'
    BY <1>1, <1>6, CloseLife, Zenon
  <2>3. UNCHANGED <<connections_, Waiting>>
    BY <1>6, Zenon DEF Closes
  <2>4. Leaving(c)'
    BY <2>1, <2>2, <2>3, Zenon DEF Connected, Leaving, Est, Des, Rem
  <2> QED
    BY <2>1, <2>2, <2>4, Zenon DEF Turn
<1>7. CASE Asks(c)
  <2>1. Leaving(c)
    BY <1>1, <1>7, AskedOnce, Zenon DEF Asks
  <2>2. UNCHANGED <<conn, connections_>> /\ Rem(c)' /\ (Est(c)' <=> Est(c)) /\ (Des(c)' <=> Des(c))
    BY <1>3, <1>7, Zenon DEF Asks, Est, Des, Rem
  <2>3. ~InClose(c)'
    BY <1>4, <1>7, <2>2, Zenon DEF Asks, InClose
  <2>4. Leaving(c)'
    BY <2>1, <2>2, <2>3, Zenon DEF Leaving
  <2>5. StaysPut(c)
    BY <1>7, <2>2, <2>4, Zenon DEF StaysPut, Phase, Asks
  <2> QED
    BY <1>2, <2>2, <2>5, Zenon DEF Turn
<1>8. CASE Erases(c)
  <2>1. Leaving(c)
    BY <1>1, <1>8, AskedOnce, Zenon DEF Erases
  <2>2. UNCHANGED conn /\ c \notin connections_' /\ ~Rem(c)' /\ (Est(c)' <=> Est(c)) /\ Des(c)'
    BY <1>3, <1>8, ZenonT(30) DEF Erases, Est, Des, Rem
  <2>3. ~InClose(c)'
    BY <1>4, <1>8, <2>1, <2>2, Zenon DEF Erases, InClose, Leaving
  <2>4. Ending(c)' /\ conn'[c].life = "disconnected"
    BY <2>1, <2>2, <2>3, Zenon DEF Leaving, Ending
  <2> QED
    BY <2>1, <2>4, Zenon DEF Turn
<1>9. CASE Destroys(c)
  <2>1. Connected(c) \/ Ending(c)
    BY <1>2, <1>9, Zenon DEF Phase, Connecting, Connected, Leaving, Ending, Over, Destroys
  <2>2. /\ conn'[c].loop = conn[c].loop /\ conn'[c].registered = FALSE
        /\ conn'[c].life \in {"disconnected", "freed"}
    BY <1>1, <1>9, DestroyLife, Zenon
  <2>3. ~Des(c)' /\ (Est(c)' <=> Est(c)) /\ (Rem(c)' <=> Rem(c)) /\ UNCHANGED <<connections_, closing>>
    BY <1>3, <1>9, Zenon DEF Destroys, Est, Des, Rem
  <2>4. InClose(c)' <=> InClose(c)
    BY <2>2, <2>3, Zenon DEF InClose
  <2>5. Des(c)
    BY <1>9, Zenon DEF Destroys
  <2>6. Over(c)'
    BY <2>1, <2>2, <2>3, <2>4, <2>5, Zenon DEF Connected, Ending, Over
  <2> QED
    BY <2>1, <2>2, <2>6, Zenon DEF Turn
<1>10. CASE Holds(c)
  <2>1. Kept(c)
    BY <1>10, Zenon DEF Holds, Kept, Est, Des, Rem, InClose
  <2> QED
    BY <1>2, <2>1, KeptPhase, Zenon DEF Kept, StaysPut, Turn
<1>11. CASE Releases(c)
  <2>1. /\ conn'[c].loop = conn[c].loop /\ conn'[c].registered = conn[c].registered
        /\ conn'[c].life = (IF Referenced(c)' THEN conn[c].life ELSE "freed") /\ c \in Conns'
    BY <1>1, <1>11, ReleaseLife, Zenon
  <2>2. UNCHANGED <<connections_, closing, Waiting>>
    BY <1>11, Zenon DEF Releases
  <2>3. (InClose(c)' <=> InClose(c)) /\ (Est(c)' <=> Est(c)) /\ (Des(c)' <=> Des(c))
        /\ (Rem(c)' <=> Rem(c))
    BY <2>1, <2>2, Zenon DEF InClose, Est, Des, Rem
  <2>4. Referenced(c)' <=> Refers(c)'
    BY <1>4, <2>1, Referring, Zenon
  <2>5. CASE Referenced(c)'
    <3>1. conn'[c].life = conn[c].life
      BY <2>1, <2>5, Zenon
    <3>2. Phase(c)'
      BY <1>2, <2>1, <2>2, <2>3, <3>1, Zenon DEF Phase, Connecting, Connected, Leaving,
         Ending, Over
    <3> QED
      BY <1>2, <2>1, <2>2, <2>3, <3>1, <3>2, Zenon DEF StaysPut, Turn
  <2>6. CASE ~Referenced(c)'
    <3>1. ~Est(c) /\ ~Des(c) /\ ~Rem(c) /\ ~InClose(c) /\ c \notin connections_
      BY <2>2, <2>3, <2>4, <2>6, Zenon DEF Refers
    <3>2. Over(c) /\ conn'[c].life = "freed"
      BY <1>2, <2>1, <2>6, <3>1, Zenon DEF Phase, Connecting, Connected, Leaving, Ending
    <3>3. Over(c)'
      BY <2>1, <2>2, <2>3, <3>2, Zenon DEF Over
    <3>4. conn[c].life = "disconnected"
      BY <1>11, <3>2, Zenon DEF Over, Releases, ServerInv, RefInv, Refers
    <3> QED
      BY <3>2, <3>3, <3>4, Zenon DEF Turn
  <2> QED
    BY <2>5, <2>6, Zenon
<1> QED
  BY <1>5, <1>6, <1>7, <1>8, <1>9, <1>10, <1>11, Zenon DEF MoveOf

(* A new connection has the next number.                                   *)
LEMMA Appended ==
  ASSUME Types, NEW r, r \in Connection, conn' = Append(conn, r)
  PROVE  /\ Conns' = Conns \cup {nextConnId_} /\ nextConnId_ \notin Conns
         /\ conn'[nextConnId_] = r /\ \A d \in Conns : conn'[d] = conn[d]
<1> DEFINE c == nextConnId_
           q == Append(conn, r)
<1>1. c \in Nat /\ c # 0 /\ Conns = 1..(c - 1) /\ conn \in [1..(c - 1) -> Connection]
  BY Zenon DEF Types, ServerTypes, ConnTypes
<1>2. conn \in Seq(Connection) /\ Len(conn) = c - 1
  BY <1>1
<1>3. Len(q) = c /\ q[c] = r /\ (\A d \in 1..(c - 1) : q[d] = conn[d]) /\ DOMAIN q = 1..Len(q)
  BY <1>1, <1>2
<1>4. conn' = q
  BY Zenon
<1> HIDE DEF q
<1> QED
  BY <1>1, <1>3, <1>4 DEF Conns

(* newConnection puts it into the map, on its way to be established.       *)
LEMMA NewPhase ==
  ASSUME ServerInv, NEW c, c = nextConnId_, Adds(c)
  PROVE  /\ Conns' = Conns \cup {c} /\ c \notin Conns
         /\ Connecting(c)' \/ Connected(c)'
         /\ c \in connections_'
         /\ \A d \in Conns : Kept(d)
<1>1. Types /\ c \in Nat /\ c # NoConn /\ c \in connections_' /\ UNCHANGED closing
  BY Zenon DEF ServerInv, Types, ServerTypes, NoConn, Adds
<1>2. PICK l \in Loops, fd \in Fds :
        /\ conn' = Append(conn, NewTcpConnection(l, fd))
        /\ Waiting' = IF l = Base THEN Waiting ELSE Waiting \cup {Do("connectEstablished", c)}
  BY Zenon DEF Adds
<1> DEFINE r == NewTcpConnection(l, fd)
<1>3. /\ r \in Connection /\ r.loop = l /\ r.registered = (l = Base)
      /\ r.life = IF l = Base THEN "connected" ELSE "connecting"
  BY Zenon DEF NewTcpConnection, Connection
<1> HIDE DEF r
<1>4. /\ Conns' = Conns \cup {c} /\ c \notin Conns
      /\ conn'[c] = r /\ \A d \in Conns : conn'[d] = conn[d]
  BY <1>1, <1>2, <1>3, Appended, Zenon DEF r
<1>5. ASSUME NEW op \in Ops \ {"listen"} PROVE Do(op, c) \notin Waiting
  <2>1. \A m : ~Belongs(Do(op, c), m, conn)
    BY <1>4, BelongsParts, Zenon DEF Conns
  <2> QED
    BY <1>1, <2>1, Waits, Zenon DEF Types
<1>6. ~Est(c) /\ ~Des(c) /\ ~Rem(c)
  BY <1>5, Zenon DEF Ops, Est, Des, Rem
<1>7. ~InClose(c)'
  <2>1. closing[l] # c
    BY <1>1, <1>4, ConnFacts, Zenon
  <2> QED
    BY <1>1, <1>3, <1>4, <2>1, Zenon DEF InClose
<1>8. /\ Do("connectEstablished", c) # Do("connectDestroyed", c)
      /\ Do("connectEstablished", c) # Do("removeConnectionInLoop", c)
  BY DoParts
<1>9. ASSUME l = Base PROVE Connected(c)'
  <2>1. ~Est(c)' /\ ~Des(c)' /\ ~Rem(c)'
    BY <1>2, <1>6, <1>9, Zenon DEF Est, Des, Rem
  <2> QED
    BY <1>1, <1>3, <1>4, <1>7, <1>9, <2>1, Zenon DEF Connected
<1>10. ASSUME l # Base PROVE Connecting(c)'
  <2>1. Est(c)' /\ ~Des(c)' /\ ~Rem(c)'
    BY <1>2, <1>6, <1>8, <1>10, Zenon DEF Est, Des, Rem
  <2> QED
    BY <1>1, <1>3, <1>4, <1>7, <1>10, <2>1, Zenon DEF Connecting
<1>11. ASSUME NEW d \in Conns PROVE Kept(d)
  <2>1. d # c /\ \A op, op2 : Do(op, c) # Do(op2, d)
    BY <1>4, DoParts
  <2>2. (Est(d)' <=> Est(d)) /\ (Des(d)' <=> Des(d)) /\ (Rem(d)' <=> Rem(d))
    BY <1>2, <2>1, Zenon DEF Est, Des, Rem
  <2>3. d \in connections_' <=> d \in connections_
    BY <2>1, Zenon DEF Adds
  <2> QED
    BY <1>1, <1>4, <2>2, <2>3, Zenon DEF Kept, InClose
<1> QED
  BY <1>1, <1>4, <1>9, <1>10, <1>11, Zenon

(* ~TcpServer destroys its connections, or has them destroyed.             *)
LEMMA EndPhase ==
  ASSUME ServerInv, Ends, ~crossed', NEW c \in Conns
  PROVE  Turn(c) /\ Conns' = Conns
<1>1. /\ Types /\ ~crossed /\ \A d \in Conns : Phase(d)
      /\ \A d \in connections_ : conn[d].life # "disconnected"
  BY Zenon DEF ServerInv, LifeInv, Ends
<1>2. /\ EndsAs(Here, LastReferenceGone(Here), conn') /\ UNCHANGED closing /\ connections_' = {}
      /\ Waiting' = Waiting \cup {Do("connectDestroyed", d) : d \in connections_ \ Here}
  BY <1>1, EndedTypes, Zenon DEF Ends
<1>3. /\ Conns' = Conns /\ conn'[c].loop = conn[c].loop
      /\ c \notin Here => conn'[c] = conn[c]
      /\ c \in Here => /\ conn'[c].registered = FALSE
                       /\ conn'[c].life \in {"disconnected", "freed"}
  BY <1>2, Zenon DEF EndsAs, Conns
<1>4. /\ (Est(c)' <=> Est(c)) /\ (Rem(c)' <=> Rem(c))
      /\ Des(c)' <=> Des(c) \/ c \in connections_ \ Here
  <2>1. \A op, d : Do(op, c) = Do("connectDestroyed", d) <=> op = "connectDestroyed" /\ d = c
    BY DoParts
  <2> QED
    BY <1>2, <2>1 DEF Est, Des, Rem
<1>5. InClose(c)' <=> InClose(c)
  BY <1>2, <1>3, Zenon DEF InClose
<1>6. CASE c \in Here
  <2>1. c \in connections_ /\ conn[c].loop = Base
    BY <1>6, Zenon DEF Here
  <2>2. Connected(c)
    BY <1>1, <2>1, ZenonT(30) DEF Phase, Connecting, Leaving, Ending, Over
  <2>3. Over(c)'
    BY <1>2, <1>3, <1>4, <1>5, <1>6, <2>1, <2>2, Zenon DEF Connected, Over
  <2> QED
    BY <1>3, <2>2, <2>3, Zenon DEF Turn
<1>7. CASE c \in connections_ \ Here
  <2>1. Connecting(c) \/ Connected(c)
    BY <1>1, <1>7, ZenonT(30) DEF Phase, Leaving, Ending, Over
  <2>2. conn'[c] = conn[c] /\ Des(c)' /\ c \notin connections_' /\ ~alive'
    BY <1>2, <1>3, <1>4, <1>7, Zenon DEF Ends
  <2>3. Connecting(c) => Connecting(c)'
    BY <1>4, <1>5, <2>2, Zenon DEF Connecting
  <2>4. Connected(c) => Connected(c)'
    BY <1>4, <1>5, <2>2, Zenon DEF Connected
  <2> QED
    BY <1>3, <1>7, <2>1, <2>2, <2>3, <2>4, Zenon DEF Turn
<1>8. CASE c \notin connections_
  <2>1. c \notin Here
    BY <1>8, Zenon DEF Here
  <2>2. Kept(c)
    BY <1>2, <1>3, <1>4, <1>5, <1>8, <2>1, Zenon DEF Kept
  <2> QED
    BY <1>1, <1>3, <2>2, KeptPhase, ZenonT(60) DEF Kept, StaysPut, Turn
<1> QED
  BY <1>6, <1>7, <1>8, Zenon

(* The kinds of steps that leave all connections where they are.           *)
LEMMA AllKept ==
  ASSUME Same \/ QueueListen \/ CallListen
  PROVE  /\ UNCHANGED <<connections_, conn, closing, held, alive, crossed, failed>>
         /\ Conns' = Conns /\ \A c : Kept(c)
<1>1. \A op, c : Do(op, c) = Listen0 => op = "listen"
  BY DoParts DEF Listen0
<1>2. UNCHANGED <<connections_, conn, closing, held, alive, crossed, failed>>
  BY Zenon DEF Same, QueueListen, CallListen
<1>3. ASSUME NEW c PROVE (Est(c)' <=> Est(c)) /\ (Des(c)' <=> Des(c)) /\ (Rem(c)' <=> Rem(c))
  BY <1>1, Zenon DEF Same, QueueListen, CallListen, Est, Des, Rem
<1> QED
  BY <1>2, <1>3, Zenon DEF Kept, InClose, Conns

(* A connection that a step leaves as it is stays put.                     *)
LEMMA KeptTurn ==
  ASSUME NEW c, Kept(c), Phase(c)
  PROVE  Turn(c)
BY KeptPhase, Zenon DEF Kept, StaysPut, Turn

(* Until the end of the server crosses that of a connection, every step is *)
(* a turn of each connection; a client that is accepted starts a new one.  *)
Turns ==
  /\ ~crossed
  /\ \A c \in Conns : c \in Conns' /\ Turn(c)
  /\ \A c \in Conns' \ Conns : c \in connections_' /\ (Connecting(c)' \/ Connected(c)')

LEMMA TurnStep ==
  ASSUME ServerInv, Next, ~crossed'
  PROVE  Turns
<1>1. /\ LifeInv /\ FunctorInv' /\ ConnTypes'
      /\ Move \/ (QueueListen /\ \E t \in Starters : start(t))
  BY NextMoves, Zenon DEF ServerInv
<1>2. ~crossed => \A c \in Conns : Phase(c)
  BY <1>1, Zenon DEF LifeInv
<1>3. CASE Same \/ QueueListen \/ CallListen
  <2>1. UNCHANGED crossed /\ Conns' = Conns /\ \A c : Kept(c)
    BY <1>3, AllKept, Zenon
  <2>2. ~crossed
    BY <2>1, Zenon
  <2> QED
    BY <1>2, <2>1, <2>2, KeptTurn, Zenon DEF Turns
<1>4. CASE Fails
  <2>1. crossed /\ UNCHANGED crossed
    BY <1>4, NoFailure, Zenon DEF Fails
  <2> QED
    BY <2>1, Zenon
<1>5. CASE Ends
  <2>1. ~crossed
    BY <1>5, Zenon DEF Ends
  <2>2. Conns' = Conns
    <3>1. EndsAs(Here, LastReferenceGone(Here), conn')
      BY <1>5, EndedTypes, Zenon DEF Ends, ServerInv
    <3> QED
      BY <3>1, Zenon DEF EndsAs, Conns
  <2>3. \A c \in Conns : Turn(c)
    BY <1>5, EndPhase, Zenon
  <2> QED
    BY <2>1, <2>2, <2>3, Zenon DEF Turns
<1>6. ASSUME NEW n, n = nextConnId_, Adds(n) PROVE Turns
  <2>1. /\ Conns' = Conns \cup {n} /\ n \notin Conns
        /\ Connecting(n)' \/ Connected(n)'
        /\ n \in connections_' /\ \A d \in Conns : Kept(d)
    BY <1>6, NewPhase, Zenon
  <2>2. UNCHANGED crossed
    BY <1>6, Zenon DEF Adds
  <2>3. ~crossed
    BY <2>2, Zenon
  <2>4. \A c \in Conns : c \in Conns' /\ Turn(c)
    BY <1>2, <2>1, <2>3, KeptTurn, Zenon
  <2>5. \A c \in Conns' \ Conns : c = n
    BY <2>1, Zenon
  <2> QED
    BY <2>1, <2>3, <2>4, <2>5, Zenon DEF Turns
<1>7. ASSUME NEW c \in Conns, MoveOf(c) PROVE Turns
  <2>1. ~crossed
    <3>1. Closes(c) => (crossed => crossed')
      BY Zenon DEF Closes
    <3>2. ~Closes(c) => UNCHANGED crossed
      BY <1>7, Zenon DEF MoveOf, Establishes, Asks, Erases, Destroys, Holds, Releases
    <3> QED
      BY <3>1, <3>2, Zenon
  <2>2. Types /\ Conns' = Conns
    <3>1. Types /\ Conns = 1..(nextConnId_ - 1) /\ Conns' = 1..(nextConnId_' - 1)
      BY <1>1, Zenon DEF ServerInv, Types, ConnTypes
    <3>2. CASE Establishes(c) \/ Closes(c) \/ Destroys(c) \/ Releases(c)
      BY <3>1, <3>2, EstablishLife, CloseLife, DestroyLife, ReleaseLife, Zenon
    <3> QED
      BY <1>7, <3>1, <3>2, Zenon DEF MoveOf, Asks, Erases, Holds, Conns
  <2>3. ASSUME NEW d \in Conns PROVE Turn(d)
    <3>1. CASE d = c
      BY <1>1, <1>7, <3>1, NextPhase, Zenon
    <3>2. CASE d # c
      <4>1. Kept(d)
        BY <1>7, <2>2, <2>3, <3>2, OthersKept, Zenon
      <4> QED
        BY <1>2, <2>1, <2>3, <4>1, KeptTurn, Zenon
    <3> QED
      BY <3>1, <3>2, Zenon
  <2> QED
    BY <2>1, <2>2, <2>3, Zenon DEF Turns
<1> QED
  BY <1>1, <1>3, <1>4, <1>5, <1>6, <1>7, Zenon DEF Move, MoveOf

(* The server loses track of no connection.                                *)
LEMMA LifeStep ==
  ASSUME ServerInv, Next
  PROVE  LifeInv'
<1>1. LifeInv /\ (Move \/ (QueueListen /\ \E t \in Starters : start(t)))
  BY NextMoves, Zenon DEF ServerInv
<1>2. starting' \subseteq starting \/ (alive /\ alive')
  BY StartStep, Zenon
<1>3. /\ crossed => ~alive
      /\ ~crossed => /\ failed = {}
                     /\ alive => \A c \in Conns : InMap(c)
                     /\ ~alive => starting = {} /\ Listen0 \notin Waiting /\ connections_ = {}
  BY <1>1, Zenon DEF LifeInv, InMap
<1>4. ASSUME crossed' => ~alive', alive' => alive,
             ~crossed' => failed' = {},
             ~crossed' /\ ~alive' => starting' = {} /\ Listen0 \notin Waiting' /\ connections_' = {}
      PROVE  LifeInv'
  <2>1. ASSUME ~crossed', NEW c \in Conns' PROVE Phase(c)' /\ (alive' => InMap(c)')
    <3>1. Turns
      BY <2>1, TurnStep, Zenon
    <3>2. CASE c \in Conns
      BY <1>3, <1>4, <3>1, <3>2, TurnPhase, Zenon DEF Turns
    <3>3. CASE c \notin Conns
      BY <2>1, <3>1, <3>3, Zenon DEF Turns, Phase, InMap
    <3> QED
      BY <3>2, <3>3, Zenon
  <2> QED
    BY <1>4, <2>1, Zenon DEF LifeInv, InMap
<1>5. ASSUME UNCHANGED alive, ~alive, ~crossed, Move, connections_' \subseteq connections_
      PROVE  starting' = {} /\ Listen0 \notin Waiting' /\ connections_' = {}
  <2>1. Listen0 \notin Waiting'
    BY <1>3, <1>5, NoNewListen, Zenon
  <2> QED
    BY <1>2, <1>3, <1>5, <2>1, Zenon
<1>6. CASE Same \/ QueueListen \/ CallListen
  <2>1. UNCHANGED <<connections_, alive, crossed, failed>>
    BY <1>6, AllKept, Zenon
  <2>2. ~alive /\ ~crossed => starting' = {} /\ Listen0 \notin Waiting' /\ connections_' = {}
    BY <1>5, <1>6, <2>1, Zenon DEF Move, QueueListen, CallListen
  <2> QED
    BY <1>3, <1>4, <2>1, <2>2, Zenon
<1>7. CASE Fails
  <2>1. crossed /\ UNCHANGED <<alive, crossed>>
    BY <1>7, NoFailure, Zenon DEF Fails
  <2> QED
    BY <1>3, <1>4, <2>1, Zenon
<1>8. CASE Ends
  <2>1. ~alive' /\ connections_' = {} /\ UNCHANGED failed
    BY <1>8, Zenon DEF Ends
  <2>2. ASSUME ~crossed'
        PROVE  ~crossed /\ starting' = {} /\ Listen0 \notin Waiting'
    <3>1. ~crossed /\ starting = {} /\ Listen0 \notin Waiting
      BY <1>8, <2>2, Zenon DEF Ends
    <3>2. Listen0 \notin Waiting'
      BY <1>8, <3>1, NoNewListen, Zenon DEF Move
    <3> QED
      BY <1>2, <2>1, <3>1, <3>2, Zenon
  <2> QED
    BY <1>3, <1>4, <2>1, <2>2, Zenon
<1>9. ASSUME NEW n, n = nextConnId_, Adds(n) PROVE LifeInv'
  <2>1. alive /\ UNCHANGED <<alive, crossed, failed>>
    BY <1>9, Zenon DEF Adds
  <2> QED
    BY <1>3, <1>4, <2>1, Zenon
<1>10. ASSUME NEW c \in Conns, MoveOf(c) PROVE LifeInv'
  <2>1. UNCHANGED <<alive, failed>> /\ connections_' \subseteq connections_ /\ Move
    BY <1>10, Zenon DEF MoveOf, Establishes, Closes, Asks, Erases, Destroys, Holds,
       Releases, Move
  <2>2. (crossed' => crossed \/ ~alive) /\ (crossed => crossed')
    <3>1. Closes(c) => (crossed' => crossed \/ ~alive) /\ (crossed => crossed')
      BY Zenon DEF Closes
    <3>2. ~Closes(c) => UNCHANGED crossed
      BY <1>10, Zenon DEF MoveOf, Establishes, Asks, Erases, Destroys, Holds, Releases
    <3> QED
      BY <3>1, <3>2
  <2>3. ~crossed' /\ ~alive' => starting' = {} /\ Listen0 \notin Waiting' /\ connections_' = {}
    BY <1>5, <2>1, <2>2, Zenon
  <2> QED
    BY <1>3, <1>4, <2>1, <2>2, <2>3, Zenon
<1> QED
  BY <1>1, <1>6, <1>7, <1>8, <1>9, <1>10, Zenon DEF Move, MoveOf

(* The reference that keeps a connection is not to one that is freed.      *)
LEMMA RefStep ==
  ASSUME ServerInv, Next
  PROVE  RefInv'
<1>1. /\ Types /\ RefInv /\ FunctorInv' /\ ConnTypes'
      /\ Move \/ (QueueListen /\ \E t \in Starters : start(t))
  BY NextMoves, Zenon DEF ServerInv
<1>2. ASSUME NEW c \in Conns, Kept(c), c \in held' => Refers(c)
      PROVE  Refers(c)' => conn'[c].life # "freed"
  BY <1>1, <1>2, Zenon DEF Kept, Refers, RefInv
<1>3. \A c \in Conns : c # NoConn
  BY <1>1, ConnFacts, Zenon
<1>4. CASE Same \/ QueueListen \/ CallListen
  <2>1. UNCHANGED held /\ Conns' = Conns /\ \A c : Kept(c)
    BY <1>4, AllKept, Zenon
  <2> QED
    BY <1>2, <2>1, Zenon DEF RefInv, Refers
<1>5. CASE Fails
  <2>1. UNCHANGED <<connections_, conn, held>> /\ Waiting' \subseteq Waiting /\ Conns' = Conns
        /\ \A l \in Loops : closing'[l] \in {closing[l], NoConn}
    BY <1>5, Zenon DEF Fails, Conns
  <2>2. ASSUME NEW c \in Conns, Refers(c)' PROVE Refers(c)
    <3>1. InClose(c)' => InClose(c)
      BY <1>1, <1>3, <2>1, ConnFacts, Zenon DEF InClose
    <3> QED
      BY <2>1, <2>2, <3>1, ZenonT(30) DEF Refers, Est, Des, Rem
  <2> QED
    BY <1>1, <2>1, <2>2, Zenon DEF RefInv
<1>6. CASE Ends
  <2>1. /\ EndsAs(Here, LastReferenceGone(Here), conn') /\ UNCHANGED <<closing, held>>
        /\ connections_' = {}
        /\ Waiting' = Waiting \cup {Do("connectDestroyed", d) : d \in connections_ \ Here}
    BY <1>1, <1>6, EndedTypes, Zenon DEF Ends
  <2>2. Conns' = Conns
    BY <2>1, Zenon DEF EndsAs, Conns
  <2>3. ASSUME NEW c \in Conns, Refers(c)', c \in Here PROVE conn'[c].life # "freed"
    <3>1. Referenced(c)'
      BY <1>1, <1>3, <2>2, <2>3, Referring, Zenon
    <3>2. c \notin LastReferenceGone(Here)
      BY <3>1, Zenon DEF LastReferenceGone
    <3> QED
      BY <2>1, <2>3, <3>2, Zenon DEF EndsAs
  <2>4. ASSUME NEW c \in Conns, Refers(c)', c \notin Here PROVE conn'[c].life # "freed"
    <3>1. conn'[c] = conn[c]
      BY <2>1, <2>4, Zenon DEF EndsAs
    <3>2. \A op, d : Do(op, c) = Do("connectDestroyed", d) <=> op = "connectDestroyed" /\ d = c
      BY DoParts
    <3>3. (Est(c)' => Est(c)) /\ (Rem(c)' => Rem(c)) /\ (Des(c)' => Des(c) \/ c \in connections_)
      BY <2>1, <3>2 DEF Est, Des, Rem
    <3>4. InClose(c)' => InClose(c)
      BY <2>1, <3>1, Zenon DEF InClose
    <3>5. Refers(c)
      BY <2>1, <2>4, <3>3, <3>4, Zenon DEF Refers
    <3> QED
      BY <1>1, <3>1, <3>5, Zenon DEF RefInv
  <2> QED
    BY <2>2, <2>3, <2>4, Zenon DEF RefInv
<1>7. ASSUME NEW n, n = nextConnId_, Adds(n) PROVE RefInv'
  <2>1. /\ Conns' = Conns \cup {n} /\ UNCHANGED held
        /\ Connecting(n)' \/ Connected(n)'
        /\ \A d \in Conns : Kept(d)
    BY <1>7, NewPhase, ZenonT(30) DEF Adds
  <2>2. conn'[n].life # "freed"
    BY <2>1, Zenon DEF Connecting, Connected
  <2> QED
    BY <1>2, <2>1, <2>2, Zenon DEF RefInv, Refers
<1>8. ASSUME NEW c \in Conns, MoveOf(c) PROVE RefInv'
  <2>1. Conns' = Conns
    <3>1. CASE Establishes(c) \/ Closes(c) \/ Destroys(c) \/ Releases(c)
      BY <1>1, <3>1, EstablishLife, CloseLife, DestroyLife, ReleaseLife, Zenon
    <3> QED
      BY <1>8, <3>1, Zenon DEF MoveOf, Asks, Erases, Holds, Conns
  <2>2. ASSUME NEW d \in Conns, d # c PROVE Refers(d)' => conn'[d].life # "freed"
    <3>1. Kept(d)
      BY <1>1, <1>8, <2>2, OthersKept, Zenon
    <3>2. d \in held' => d \in held
      BY <1>8, <2>2, Zenon DEF MoveOf, Establishes, Closes, Asks, Erases, Destroys,
         Holds, Releases
    <3> QED
      BY <1>2, <3>1, <3>2, Zenon DEF Refers
  <2>3. ASSUME Refers(c)' PROVE conn'[c].life # "freed"
    <3>1. CASE Establishes(c) \/ Closes(c)
      BY <1>1, <3>1, EstablishLife, CloseLife, Zenon
    <3>2. CASE Asks(c) \/ Erases(c) \/ Holds(c)
      BY <1>1, <3>2, Zenon DEF Asks, Erases, Holds, RefInv, Refers
    <3>3. CASE Destroys(c) \/ Releases(c)
      <4>1. Referenced(c)'
        BY <1>1, <1>3, <2>1, <2>3, Referring, Zenon
      <4>2. CASE Destroys(c)
        BY <1>1, <4>1, <4>2, DestroyLife, Zenon
      <4>3. CASE Releases(c)
        <5>1. conn'[c].life = conn[c].life /\ c \in held
          BY <1>1, <4>1, <4>3, ReleaseLife, Zenon DEF Releases
        <5> QED
          BY <1>1, <5>1, Zenon DEF RefInv, Refers
      <4> QED
        BY <3>3, <4>2, <4>3, Zenon
    <3> QED
      BY <1>8, <3>1, <3>2, <3>3, ZenonT(30) DEF MoveOf
  <2> QED
    BY <2>1, <2>2, <2>3, Zenon DEF RefInv
<1> QED
  BY <1>1, <1>4, <1>5, <1>6, <1>7, <1>8, Zenon DEF Move, MoveOf

-----------------------------------------------------------------------------
(* The inductive invariant of the server.                                  *)
Inv == ServerInv /\ FdInv /\ TakenInv /\ IdleInv

(* It holds before start() is called.                                      *)
LEMMA InitInv ==
  ASSUME Init
  PROVE  Inv
<1>1. /\ idleFd_ \in Fds /\ open = [fd \in {idleFd_} |-> Idle] /\ listenning_ = FALSE
      /\ backlog = 0 /\ arrivals = 0 /\ apc = "rest" /\ taken = {} /\ stolen = FALSE
      /\ pool \in Pools /\ started_ = FALSE /\ starting = {} /\ next_ = 0 /\ nextConnId_ = 1
      /\ connections_ = {} /\ conn = <<>> /\ held = {}
      /\ functors = [l \in Loops |-> <<>>] /\ closing = [l \in Loops |-> NoConn]
      /\ alive = TRUE /\ crossed = FALSE /\ failed = {}
  BY Zenon DEF Init, AcceptorInit
<1>2. Conns = {} /\ DOMAIN open = {idleFd_} /\ open[idleFd_] = Idle /\ idleFd_ # NoFd
  BY <1>1, FdsAssumption DEF Conns, NoFd
<1>3. AcceptorTypeOK
  <2>1. DOMAIN open \subseteq Fds /\ open \in [DOMAIN open -> Int]
    BY <1>1, <1>2 DEF Idle
  <2>2. backlog \in 0..MaxArrivals /\ arrivals \in 0..MaxArrivals
    BY <1>1, ArrivalsAssumption
  <2> QED
    BY <1>1, <2>1, <2>2, Zenon DEF AcceptorTypeOK
<1>4. ServerTypes
  <2>1. next_ \in Nat /\ nextConnId_ \in Nat \ {0} /\ starting \subseteq Starters
        /\ failed \subseteq {"start", "listen", "removeConnection", "server"}
    BY <1>1
  <2> QED
    BY <1>1, <2>1, Zenon DEF ServerTypes
<1>5. ConnTypes
  BY <1>1, <1>2 DEF ConnTypes
<1>6. CountInv
  BY <1>1 DEF CountInv
<1>7. FunctorInv /\ Waiting = {}
  <2>1. \A l \in Loops : functors[l] = <<>> /\ Range(functors[l]) = {} /\ IsInjective(functors[l])
                         /\ \A x, y : Before(functors[l], x, y)
    BY <1>1 DEF Range, IsInjective, Before
  <2>2. functors \in [Loops -> Seq(Functor)]
    BY <1>1
  <2>3. Waiting = {}
    BY <2>1, Zenon DEF Waiting, WaitingIn
  <2> QED
    BY <2>1, <2>2, <2>3, Zenon DEF FunctorInv, QueuesOK
<1>8. StartInv
  BY <1>1, <1>7, Zenon DEF StartInv
<1>9. LifeInv /\ RefInv
  BY <1>1, <1>2, <1>7, Zenon DEF LifeInv, RefInv
<1>10. FdInv /\ IdleInv
  BY <1>1, <1>2, Zenon DEF FdInv, IdleInv, InReserve, Lent, Idle, Other
<1>11. TakenInv
  <2>1. Idle # Other
    BY DEF Idle, Other
  <2> QED
    BY <1>1, <1>2, <2>1, Zenon DEF TakenInv
<1> QED
  BY <1>3, <1>4, <1>5, <1>6, <1>7, <1>8, <1>9, <1>10, <1>11, Zenon
     DEF Inv, ServerInv, Types

(* Every step keeps it.                                                    *)
LEMMA NextInv ==
  ASSUME Inv, Next
  PROVE  Inv'
<1>1. ServerInv /\ Types /\ FdInv /\ TakenInv /\ IdleInv
  BY Zenon DEF Inv, ServerInv
<1>2. FunctorInv' /\ ConnTypes' /\ AcceptorMove
  BY <1>1, NextMoves, NextAccepts, Zenon
<1>3. AcceptorTypeOK' /\ CountInv' /\ nextConnId_' \in Nat \ {0}
  BY <1>1, <1>2, AcceptorTypes, Zenon
<1>4. ServerTypes'
  BY <1>1, <1>3, ServerStep, Zenon
<1>5. StartInv' /\ LifeInv' /\ RefInv'
  BY <1>1, StartStep, LifeStep, RefStep, Zenon
<1>6. FdInv' /\ TakenInv' /\ IdleInv'
  BY <1>1, <1>2, FdStep, TakenStep, IdleStep, Zenon
<1> QED
  BY <1>2, <1>3, <1>4, <1>5, <1>6, Zenon DEF Inv, ServerInv, Types

(* So does a step that changes nothing.                                    *)
LEMMA StutterInv ==
  ASSUME Inv, UNCHANGED vars
  PROVE  Inv'
<1>1. /\ ServerInv /\ Types /\ FdInv /\ TakenInv /\ IdleInv /\ StartInv /\ LifeInv /\ RefInv
      /\ ServerTypes /\ AcceptorTypeOK /\ CountInv
  BY Zenon DEF Inv, ServerInv, Types
<1>2. /\ UNCHANGED <<acceptorVars, serverVars, connVars, crossed, failed>>
      /\ UNCHANGED <<open, idleFd_, listenning_, backlog, arrivals, apc, taken, stolen>>
      /\ UNCHANGED <<pool, started_, starting, next_, nextConnId_, alive, crossed, failed>>
      /\ UNCHANGED <<connections_, conn, functors, closing, held>>
  BY Zenon DEF vars, acceptorVars, serverVars, connVars
<1>3. FunctorInv' /\ ConnTypes' /\ Same
  BY <1>1, <1>2, SameMoves, Zenon
<1>4. Conns' = Conns /\ Waiting' = Waiting /\ \A c : Kept(c)
  BY <1>3, AllKept, Zenon DEF Same
<1>5. AcceptorTypeOK' /\ CountInv' /\ ServerTypes'
  BY <1>1, <1>2, Zenon DEF AcceptorTypeOK, CountInv, ServerTypes
<1>6. FdInv' /\ TakenInv' /\ IdleInv'
  BY <1>1, <1>2, <1>4, Zenon DEF FdInv, TakenInv, IdleInv, InReserve, Lent, Free
<1>7. StartInv'
  BY <1>1, <1>2, <1>4, Zenon DEF StartInv
<1>8. LifeInv'
  <2>1. \A c \in Conns : Phase(c) => Phase(c)'
    BY <1>4, KeptPhase, Zenon
  <2>2. (crossed' <=> crossed) /\ (alive' <=> alive)
    BY <1>2
  <2> QED
    BY <1>1, <1>2, <1>4, <2>1, <2>2, Zenon DEF LifeInv
<1>9. RefInv'
  BY <1>1, <1>2, <1>4, Zenon DEF RefInv, Refers, Kept
<1> QED
  BY <1>3, <1>5, <1>6, <1>7, <1>8, <1>9, Zenon DEF Inv, ServerInv, Types

(* The inductive invariant holds in every state of the server.             *)
LEMMA InvHolds == Spec => []Inv
<1>1. Init => Inv
  BY InitInv, Zenon
<1>2. Inv /\ [Next]_vars => Inv'
  BY NextInv, StutterInv, Zenon
<1> QED
  BY <1>1, <1>2, PTL DEF Spec

-----------------------------------------------------------------------------
(* The functors of a queue are typed: those of TcpServer.cc are listen and *)
(* the three that a connection is bound to.                                *)
LEMMA FunctorTypes ==
  ASSUME FunctorInv
  PROVE  functors \in [Loops -> Seq([op : Ops, conn : Conns \cup {NoConn}])]
<1>1. functors \in [Loops -> Seq(Functor)]
  BY Zenon DEF FunctorInv, QueuesOK
<1>2. ASSUME NEW l \in Loops, NEW i \in DOMAIN functors[l]
      PROVE  functors[l][i] \in [op : Ops, conn : Conns \cup {NoConn}]
  <2>1. Belongs(functors[l][i], l, conn)
    BY Zenon DEF FunctorInv, QueuesOK, Range
  <2>2. \E op \in Ops, c \in Conns \cup {NoConn} : functors[l][i] = Do(op, c)
    BY <2>1, Zenon DEF Belongs, Ops, Conns
  <2> QED
    BY <2>2 DEF Do
<1>3. ASSUME NEW l \in Loops
      PROVE  functors[l] \in Seq([op : Ops, conn : Conns \cup {NoConn}])
  <2> DEFINE S == [op : Ops, conn : Conns \cup {NoConn}]
             q == functors[l]
  <2>1. q \in Seq(Functor) /\ \A i \in DOMAIN q : q[i] \in S
    BY <1>1, <1>2, Zenon
  <2> HIDE DEF S, q
  <2>2. q \in Seq(S)
    BY <2>1
  <2> QED
    BY <2>2, Zenon DEF S, q
<1> QED
  BY <1>1, <1>3, Zenon

(* The variables of TcpServer and its Acceptor keep their types, whatever  *)
(* the loops, the clients and the user do.                                 *)
THEOREM ServerTypesTheorem == Spec => []TypeOK
<1>1. ASSUME Inv PROVE TypeOK
  <2>1. Types
    BY <1>1, Zenon DEF Inv, ServerInv
  <2>2. functors \in [Loops -> Seq([op : Ops, conn : Conns \cup {NoConn}])]
    BY <2>1, FunctorTypes, Zenon DEF Types
  <2>3. nextConnId_ \in 1..(MaxArrivals + 1)
    BY <2>1, ArrivalsAssumption DEF Types, ServerTypes, CountInv, AcceptorTypeOK
  <2> QED
    BY <2>1, <2>2, <2>3, Zenon DEF TypeOK, Types, ServerTypes, ConnTypes, Connection, Ops
<1> QED
  BY <1>1, InvHolds, PTL

(* Every descriptor has one owner and every owner its descriptor: a socket *)
(* is closed when its TcpConnection is freed, and not before; /dev/null is *)
(* open only as idleFd_.                                                   *)
THEOREM FdsTheorem == Spec => []FdsOwned
<1>1. Inv => FdsOwned
  BY Zenon DEF Inv, FdInv, TakenInv, FdsOwned
<1> QED
  BY <1>1, InvHolds, PTL

(* No assertion of TcpServer, Acceptor and TcpConnection fails as long as  *)
(* no call and no end of the server crosses the end of a connection.       *)
THEOREM ServerAssertsTheorem == Spec => []AssertsHold
<1>1. Inv => AssertsHold
  BY Zenon DEF Inv, ServerInv, LifeInv, AssertsHold
<1> QED
  BY <1>1, InvHolds, PTL

(* While the server listens and does not handle a client, idleFd_ holds an *)
(* open /dev/null, ready to be given up to refuse a client when            *)
(* descriptors run out; unless another thread took it in between.          *)
THEOREM IdleTheorem == Spec => []IdleReserved
<1>1. Inv => IdleReserved
  BY Zenon DEF Inv, FdInv, IdleInv, InReserve, Lent, IdleReserved
<1> QED
  BY <1>1, InvHolds, PTL

-----------------------------------------------------------------------------
(* What the life of a connection shows, as ConnectionsLive maps it.        *)
Life(c) == IF c \in Conns THEN conn[c].life ELSE "connecting"
Owner(c) ==
  IF c \in connections_ \/ c \notin Conns THEN "map"
  ELSE IF HasFunctor("connectDestroyed", c) THEN "destroy" ELSE "none"
Asked(c) == HasFunctor("removeConnectionInLoop", c) \/ \E l \in Loops : closing[l] = c
Registered(c) == c \in Conns /\ conn[c].registered

(* It shows what the phases speak of, and nothing before the connection is *)
(* made.                                                                   *)
Shows(c) ==
  /\ c \notin Conns => Life(c) = "connecting" /\ Owner(c) = "map" /\ ~Asked(c) /\ ~Registered(c)
  /\ c \in Conns =>
       /\ Life(c) = conn[c].life /\ (Registered(c) <=> conn[c].registered)
       /\ Asked(c) <=> (Rem(c) \/ InClose(c))
       /\ c \in connections_ => Owner(c) = "map"
       /\ c \notin connections_ /\ Des(c) => Owner(c) = "destroy"
       /\ c \notin connections_ /\ ~Des(c) => Owner(c) = "none"

(* So it is in every state of the inductive invariant,                     *)
LEMMA Shown ==
  Inv => \A c \in 1..MaxArrivals : Shows(c)
<1> SUFFICES ASSUME Inv, NEW c \in 1..MaxArrivals PROVE Shows(c)
  BY Zenon
<1>1. FunctorInv /\ ConnTypes
  BY Zenon DEF Inv, ServerInv, Types
<1>2. c # NoConn
  BY DEF NoConn
<1>3. \A op : HasFunctor(op, c) <=> Do(op, c) \in Waiting
  BY <1>1, Waits, Zenon
<1>4. CASE c \notin Conns
  <2>1. Do("removeConnectionInLoop", c) \notin Waiting
    BY <1>1, <1>4, Waits, BelongsParts, SMTT(30) DEF Conns
  <2>2. \A l \in Loops : closing[l] # c
    BY <1>1, <1>2, <1>4, Zenon DEF ConnTypes
  <2> QED
    BY <1>3, <1>4, <2>1, <2>2, Zenon DEF Shows, Life, Owner, Asked, Registered
<1>5. CASE c \in Conns
  <2>1. conn[c].loop \in Loops
    BY <1>1, <1>5, Zenon DEF ConnTypes, Connection
  <2>2. \A l \in Loops : closing[l] = c => conn[c].loop = l
    BY <1>1, <1>2, Zenon DEF ConnTypes
  <2>3. Asked(c) <=> (Rem(c) \/ InClose(c))
    BY <1>3, <2>1, <2>2, Zenon DEF Asked, Rem, InClose
  <2> QED
    BY <1>3, <1>5, <2>3, Zenon DEF Shows, Life, Owner, Registered, Des
<1> QED
  BY <1>4, <1>5, Zenon

(* and in the next one.                                                    *)
LEMMA ShownNext ==
  Inv' => \A c \in 1..MaxArrivals : Shows(c)'
<1>1. Inv' => (\A c \in 1..MaxArrivals : Shows(c))'
  BY Shown, PTL
<1> QED
  BY <1>1, Zenon

(* A turn of a connection is a step of its life.                           *)
LEMMA TurnLive ==
  ASSUME NEW c \in 1..MaxArrivals, c \in Conns, c \in Conns', Shows(c), Shows(c)', Turn(c)
  PROVE  \/ LifeOf(c)!Step
         \/ UNCHANGED <<Life(c), Owner(c), Asked(c), Registered(c)>>
<1>1. /\ Life(c) = conn[c].life /\ (Registered(c) <=> conn[c].registered)
      /\ Asked(c) <=> (Rem(c) \/ InClose(c))
      /\ c \in connections_ => Owner(c) = "map"
      /\ c \notin connections_ /\ Des(c) => Owner(c) = "destroy"
      /\ c \notin connections_ /\ ~Des(c) => Owner(c) = "none"
  BY Zenon DEF Shows
<1>2. /\ Life(c)' = conn'[c].life /\ (Registered(c)' <=> conn'[c].registered)
      /\ Asked(c)' <=> (Rem(c)' \/ InClose(c)')
      /\ c \in connections_' => Owner(c)' = "map"
      /\ c \notin connections_' /\ Des(c)' => Owner(c)' = "destroy"
      /\ c \notin connections_' /\ ~Des(c)' => Owner(c)' = "none"
  BY Zenon DEF Shows
<1>3. ASSUME Asked(c)' <=> Asked(c) PROVE Asked(c)' = Asked(c)
  BY <1>3, Zenon DEF Asked
<1>4. ASSUME Registered(c)' <=> Registered(c) PROVE Registered(c)' = Registered(c)
  BY <1>4, Zenon DEF Registered
<1>5. (Asked(c) => Asked(c) = TRUE) /\ (Asked(c)' => Asked(c)' = TRUE) /\ (~Asked(c)' => Asked(c)' = FALSE)
  BY Zenon DEF Asked
<1>6. (Registered(c)' => Registered(c)' = TRUE) /\ (~Registered(c)' => Registered(c)' = FALSE)
  BY Zenon DEF Registered
<1>7. CASE StaysPut(c)
  <2>1. Life(c)' = Life(c) /\ Owner(c)' = Owner(c)
    BY <1>1, <1>2, <1>7, Zenon DEF StaysPut
  <2>2. Asked(c)' = Asked(c)
    BY <1>1, <1>2, <1>3, <1>7, Zenon DEF StaysPut
  <2>3. Registered(c)' = Registered(c)
    <3>1. conn'[c].registered <=> conn[c].registered
      BY <1>7, Zenon DEF StaysPut
    <3> QED
      BY <1>1, <1>2, <1>4, <3>1, ZenonT(30)
  <2> QED
    BY <2>1, <2>2, <2>3, Zenon
<1>8. CASE Connecting(c) /\ Connected(c)' /\ (c \in connections_' <=> c \in connections_)
  <2>1. /\ Life(c) = "connecting" /\ Life(c)' = "connected" /\ Registered(c)'
        /\ Owner(c) # "none" /\ Owner(c)' = Owner(c) /\ ~Asked(c) /\ ~Asked(c)'
    BY <1>1, <1>2, <1>8, Zenon DEF Connecting, Connected
  <2>2. LifeOf(c)!Establish
    BY <1>3, <1>6, <2>1, Zenon DEF LifeOf!Establish, Life, Owner, Asked, Registered
  <2> QED
    BY <2>2, ZenonT(30) DEF LifeOf!Step
<1>9. CASE Connected(c) /\ c \in connections_ /\ Leaving(c)'
  <2>1. /\ Life(c) = "connected" /\ Life(c)' = "disconnected" /\ Registered(c) /\ Registered(c)'
        /\ Owner(c) = "map" /\ Owner(c)' = "map" /\ Asked(c)'
    BY <1>1, <1>2, <1>9, Zenon DEF Connected, Leaving
  <2>2. LifeOf(c)!Disconnect
    BY <1>4, <1>5, <2>1, Zenon DEF LifeOf!Disconnect, Life, Owner, Asked, Registered
  <2> QED
    BY <2>2, Zenon DEF LifeOf!Step
<1>10. CASE Leaving(c) /\ Ending(c)'
  <2>1. /\ Life(c) = "disconnected" /\ Life(c)' = "disconnected" /\ Registered(c) /\ Registered(c)'
        /\ Owner(c) = "map" /\ Owner(c)' = "destroy" /\ Asked(c) /\ ~Asked(c)'
    BY <1>1, <1>2, <1>10, Zenon DEF Leaving, Ending
  <2>2. LifeOf(c)!Erase
    BY <1>4, <1>5, <2>1, Zenon DEF LifeOf!Erase, Life, Owner, Asked, Registered
  <2> QED
    BY <2>2, ZenonT(30) DEF LifeOf!Step
<1>11. CASE (Connected(c) \/ Ending(c)) /\ Over(c)'
  <2>1. /\ Life(c) \in {"connected", "disconnected"} /\ Life(c)' \in {"disconnected", "freed"}
        /\ Owner(c) \in {"map", "destroy"} /\ Owner(c)' = "none"
        /\ ~Asked(c) /\ ~Asked(c)' /\ ~Registered(c)'
    BY <1>1, <1>2, <1>11, Zenon DEF Connected, Ending, Over
  <2>2. LifeOf(c)!Destroy
    BY <1>3, <1>6, <2>1, Zenon DEF LifeOf!Destroy, Life, Owner, Asked, Registered
  <2> QED
    BY <2>2, ZenonT(30) DEF LifeOf!Step
<1>12. CASE /\ \/ Connecting(c) /\ Connecting(c)'
               \/ Connected(c) /\ Connected(c)'
            /\ c \in connections_ /\ c \notin connections_' /\ ~alive'
  <2>1. /\ Life(c) \in {"connecting", "connected"} /\ Life(c)' = Life(c)
        /\ (Registered(c)' <=> Registered(c)) /\ ~Asked(c) /\ ~Asked(c)'
        /\ Owner(c) = "map" /\ Owner(c)' = "destroy"
    BY <1>1, <1>2, <1>12, Zenon DEF Connecting, Connected
  <2>2. LifeOf(c)!ServerEnds
    BY <1>3, <1>4, <2>1, Zenon DEF LifeOf!ServerEnds, Life, Owner, Asked, Registered
  <2> QED
    BY <2>2, ZenonT(30) DEF LifeOf!Step
<1>13. CASE /\ Over(c) /\ conn[c].life = "disconnected"
            /\ Over(c)' /\ conn'[c].life = "freed"
  <2>1. /\ Life(c) = "disconnected" /\ Life(c)' = "freed" /\ Owner(c) = "none" /\ Owner(c)' = "none"
        /\ ~Asked(c) /\ ~Asked(c)' /\ ~Registered(c) /\ ~Registered(c)'
    BY <1>1, <1>2, <1>13, Zenon DEF Over
  <2>2. LifeOf(c)!Free
    BY <1>3, <1>4, <2>1, Zenon DEF LifeOf!Free, Life, Owner, Asked, Registered
  <2> QED
    BY <2>2, ZenonT(30) DEF LifeOf!Step
<1> QED
  BY <1>7, <1>8, <1>9, <1>10, <1>11, <1>12, <1>13, Zenon DEF Turn

(* Every step of the server is a step of the life of each connection, or   *)
(* none.                                                                   *)
LEMMA LiveStep ==
  ASSUME Inv, Inv', [Next]_vars, NEW c \in 1..MaxArrivals
  PROVE  [LifeOf(c)!Next]_(LifeOf(c)!vars)
<1>1. CASE crossed'
  BY <1>1, ZenonT(30) DEF LifeOf!Next
<1>2. CASE UNCHANGED vars
  <2>1. UNCHANGED <<serverVars, connVars, crossed>>
    BY <1>2, Zenon DEF vars
  <2>2. UNCHANGED <<pool, connections_, conn, functors, closing>>
    BY <2>1, Zenon DEF serverVars, connVars
  <2>3. Loops' = Loops /\ Conns' = Conns
    BY <2>2, Zenon DEF Loops, Conns
  <2>4. \A op : HasFunctor(op, c)' = HasFunctor(op, c)
    BY <2>2, <2>3, Zenon DEF HasFunctor
  <2> QED
    BY <2>1, <2>2, <2>3, <2>4, Zenon DEF LifeOf!vars
<1>3. CASE ~crossed' /\ Next
  <2>1. Turns /\ Shows(c) /\ Shows(c)'
    BY <1>3, TurnStep, Shown, ShownNext, Zenon DEF Inv
  <2>2. ~crossed /\ UNCHANGED crossed
    <3>1. crossed \in BOOLEAN /\ crossed' \in BOOLEAN
      BY Zenon DEF Inv, ServerInv, Types, ServerTypes
    <3> QED
      BY <1>3, <2>1, <3>1, Zenon DEF Turns
  <2>3. ASSUME LifeOf(c)!Step PROVE LifeOf(c)!Next
    BY <2>2, <2>3, Zenon DEF LifeOf!Next
  <2>4. ASSUME UNCHANGED <<Life(c), Owner(c), Asked(c), Registered(c)>>
        PROVE  UNCHANGED LifeOf(c)!vars
    BY <2>2, <2>4, Zenon DEF LifeOf!vars, Life, Owner, Asked, Registered
  <2>5. CASE c \in Conns
    <3>1. c \in Conns' /\ Turn(c)
      BY <2>1, <2>5, ZenonT(30) DEF Turns
    <3> QED
      BY <2>1, <2>3, <2>4, <2>5, <3>1, TurnLive, Zenon
  <2>6. CASE c \notin Conns /\ c \notin Conns'
    BY <2>1, <2>4, <2>6, Zenon DEF Shows, Asked, Registered
  <2>7. CASE c \notin Conns /\ c \in Conns'
    <3>1. Life(c) = "connecting" /\ Owner(c) = "map" /\ ~Asked(c) /\ ~Registered(c)
      BY <2>1, <2>7, Zenon DEF Shows
    <3>2. /\ Life(c)' = conn'[c].life /\ (Registered(c)' <=> conn'[c].registered)
          /\ Asked(c)' <=> (Rem(c)' \/ InClose(c)')
          /\ Owner(c)' = "map" /\ (Connecting(c)' \/ Connected(c)')
      BY <2>1, <2>7, Zenon DEF Shows, Turns
    <3>3. ~Asked(c)' /\ Asked(c)' = Asked(c)
      <4>1. ~Asked(c)'
        BY <3>2, ZenonT(30) DEF Connecting, Connected
      <4> QED
        BY <3>1, <4>1, Zenon DEF Asked
    <3>4. CASE Connecting(c)'
      <4>1. Life(c)' = "connecting" /\ ~Registered(c)'
        BY <3>2, <3>4, Zenon DEF Connecting
      <4>2. Registered(c)' = Registered(c)
        BY <3>1, <4>1, Zenon DEF Registered
      <4> QED
        BY <2>4, <3>1, <3>2, <3>3, <4>1, <4>2, Zenon
    <3>5. CASE Connected(c)'
      <4>1. Life(c)' = "connected" /\ Registered(c)'
        BY <3>2, <3>5, Zenon DEF Connected
      <4>2. Registered(c)' = TRUE
        BY <4>1, Zenon DEF Registered
      <4>3. LifeOf(c)!Establish
        BY <3>1, <3>2, <3>3, <4>1, <4>2, Zenon DEF LifeOf!Establish, Life, Owner, Asked,
           Registered
      <4> QED
        BY <2>3, <4>3, Zenon DEF LifeOf!Step
    <3> QED
      BY <3>2, <3>4, <3>5, Zenon
  <2> QED
    BY <2>5, <2>6, <2>7, Zenon
<1> QED
  BY <1>1, <1>2, <1>3, Zenon

(* TcpServer, its Acceptor and the loops of its pool make each connection  *)
(* live as ConnLife says: established, disconnected, erased from           *)
(* connections_ when that is asked, destroyed on its own loop and freed,   *)
(* in this order, once each, also when the server ends in the middle.      *)
THEOREM ConnectionsTheorem == Spec => ConnectionsLive
<1>1. Init => \A c \in 1..MaxArrivals : LifeOf(c)!Init
  <2> SUFFICES ASSUME Init, NEW c \in 1..MaxArrivals PROVE LifeOf(c)!Init
    BY Zenon
  <2>1. Conns = {} /\ crossed = FALSE
    BY DEF Init, Conns
  <2>2. Shows(c)
    BY InitInv, Shown, Zenon
  <2>3. Life(c) = "connecting" /\ Owner(c) = "map" /\ ~Asked(c) /\ ~Registered(c)
    BY <2>1, <2>2, Zenon DEF Shows
  <2>4. Asked(c) = FALSE /\ Registered(c) = FALSE
    BY <2>3, Zenon DEF Asked, Registered
  <2> QED
    BY <2>1, <2>3, <2>4, Zenon DEF LifeOf!Init, Life, Owner, Asked, Registered
<1>2. Inv /\ Inv' /\ [Next]_vars
        => [\A c \in 1..MaxArrivals : [LifeOf(c)!Next]_(LifeOf(c)!vars)]_vars
  BY LiveStep, Zenon
<1> QED
  BY <1>1, <1>2, InvHolds, PTL DEF Spec, ConnectionsLive
=============================================================================
