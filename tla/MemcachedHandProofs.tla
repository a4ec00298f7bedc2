------------------------- MODULE MemcachedHandProofs ------------------------
(***************************************************************************)
(* The connections of memcached on their way from the main thread to their *)
(* workers, for every number of workers, connections, failures and flips   *)
(* of the lock type.                                                       *)
(***************************************************************************)
EXTENDS MemcachedThreadsProofs, ListProofs

ConnType == [state : ConnStates, rbytes : Nat, ev : {"read", "write"}, thread : Threads]
SockType == [bytes : Nat, eof : BOOLEAN]
ConnTypes ==
  /\ conn \in [DOMAIN conn -> ConnType] /\ sock \in [Open -> SockType]
  /\ DOMAIN conn \cup Open \subseteq Fds

(* A descriptor is with the main thread, in one queue or of one conn.      *)
InQueue(f, w) == f \in Range(queue[w])
HoldOne(f) ==
  /\ \A v, w \in Threads : InQueue(f, v) /\ InQueue(f, w) => v = w
  /\ \A w \in Threads : InQueue(f, w) => f \in Open /\ f # main.sfd /\ f \notin DOMAIN conn
  /\ f = main.sfd => f \in Open /\ f \notin DOMAIN conn
  /\ f \in DOMAIN conn => f \in Open
  /\ f \in Open => f = main.sfd \/ f \in DOMAIN conn \/ \E w \in Threads : InQueue(f, w)
HoldInv ==
  /\ main.sfd # NoFd => main.pc = "dispatch"
  /\ \A w \in Threads : IsInjective(queue[w])
  /\ \A f \in Fds : HoldOne(f)

(* A worker handles events of its own conns only, one at a time.           *)
ConnsOf(w) == {f \in DOMAIN conn : conn[f].thread = w}
DriveOne(w) ==
  /\ worker[w].active \subseteq ConnsOf(w) \cup {Pipe}
  /\ worker[w].pc = "drive" => worker[w].fd \in ConnsOf(w) \ worker[w].active
DriveInv == \A w \in Threads : DriveOne(w)

(* What a step does to the conn of f: it gets other values on the same     *)
(* worker,                                                                 *)
Sets(f) ==
  \E r \in ConnType : r.thread = conn[f].thread /\ conn' = [conn EXCEPT ![f] = r]
(* or is closed.                                                           *)
Ends(f) == conn' = Restrict(conn, DOMAIN conn \ {f}) /\ Close(f)

(* conn_set_state and update_event.                                        *)
LEMMA SetsState ==
  ASSUME ConnTypes, NEW f \in DOMAIN conn
  PROVE  /\ \A s \in ConnStates : SetState(f, s) => Sets(f)
         /\ \A w, ev, s : ev \in {"read", "write"} /\ s \in ConnStates /\ UpdateEvent(w, f, ev, s)
              => Sets(f)
<1>1. conn[f] \in ConnType
  BY Zenon DEF ConnTypes
<1>2. ASSUME NEW s \in ConnStates, SetState(f, s) PROVE Sets(f)
  <2>1. conn' = [conn EXCEPT ![f] = [conn[f] EXCEPT !.state = s]]
    BY <1>2, Zenon DEF SetState
  <2>2. /\ [conn[f] EXCEPT !.state = s] \in ConnType
        /\ [conn[f] EXCEPT !.state = s].thread = conn[f].thread
    BY <1>1, Zenon DEF ConnType
  <2> QED
    BY <2>1, <2>2, Zenon DEF Sets
<1>3. ASSUME NEW w, NEW ev \in {"read", "write"}, NEW s \in ConnStates, UpdateEvent(w, f, ev, s)
      PROVE  Sets(f)
  <2>1. CASE SetState(f, "conn_closing")
    BY <1>2, <2>1, Zenon DEF ConnStates
  <2>2. CASE conn' = [conn EXCEPT ![f].ev = ev, ![f].state = s]
    <3>1. conn' = [conn EXCEPT ![f] = [conn[f] EXCEPT !.ev = ev, !.state = s]]
      BY <2>2, Zenon
    <3>2. /\ [conn[f] EXCEPT !.ev = ev, !.state = s] \in ConnType
          /\ [conn[f] EXCEPT !.ev = ev, !.state = s].thread = conn[f].thread
      BY <1>1, ZenonT(60) DEF ConnType
    <3> QED
      BY <3>1, <3>2, Zenon DEF Sets
  <2> QED
    BY <1>3, <2>1, <2>2, Zenon DEF UpdateEvent
<1> QED
  BY <1>2, <1>3, Zenon

(* What drive_machine does to the conn it drives and to its socket.        *)
LEMMA DriveConns ==
  ASSUME ConnTypes, NEW w \in Threads, drive_machine(w),
         NEW f, f = worker[w].fd, f \in DOMAIN conn, f \in Open
  PROVE  \/ UNCHANGED <<conn, sock>>
         \/ Sets(f) /\ (UNCHANGED sock \/ sock' = [sock EXCEPT ![f].bytes = 0])
         \/ Ends(f) /\ BackToLoop(w)
<1>1. /\ \A s \in ConnStates : SetState(f, s) => Sets(f)
      /\ \A v, ev, s : ev \in {"read", "write"} /\ s \in ConnStates /\ UpdateEvent(v, f, ev, s)
           => Sets(f)
  BY SetsState, Zenon
<1>2. {"conn_new_cmd", "conn_waiting", "conn_read", "conn_parse_cmd", "conn_closing"} = ConnStates
  BY Zenon DEF ConnStates
<1>3. conn[f] \in ConnType /\ sock[f] \in SockType /\ CmdLen \in Nat
  BY LengthsAssumption, Zenon DEF ConnTypes
<1>4. CASE conn_new_cmd(w, f)
  BY <1>1, <1>2, <1>4, Zenon DEF conn_new_cmd, Yield
<1>5. CASE conn_waiting(w, f)
  BY <1>1, <1>2, <1>5, ZenonT(60) DEF conn_waiting
<1>6. CASE conn_read(w, f)
  <2>1. CASE conn' = [conn EXCEPT ![f].state = "conn_parse_cmd", ![f].rbytes = @ + sock[f].bytes]
             /\ sock' = [sock EXCEPT ![f].bytes = 0]
    <3> DEFINE n == conn[f].rbytes + sock[f].bytes
               r == [conn[f] EXCEPT !.state = "conn_parse_cmd", !.rbytes = n]
    <3>1. conn' = [conn EXCEPT ![f] = r]
      BY <2>1, ZenonT(60)
    <3>2. n \in Nat
      BY <1>3 DEF ConnType, SockType
    <3> HIDE DEF n
    <3>3. r \in ConnType /\ r.thread = conn[f].thread
      BY <1>2, <1>3, <3>2, Zenon DEF ConnType
    <3> HIDE DEF r
    <3>4. Sets(f)
      BY <3>1, <3>3, Zenon DEF Sets
    <3> QED
      BY <2>1, <3>4, Zenon
  <2>2. CASE \E s \in ConnStates : SetState(f, s) /\ UNCHANGED sock
    BY <1>1, <2>2, Zenon
  <2> QED
    BY <1>2, <1>6, <2>1, <2>2, ZenonT(60) DEF conn_read
<1>7. CASE conn_parse_cmd(w, f)
  <2>1. CASE conn[f].rbytes >= CmdLen
             /\ conn' = [conn EXCEPT ![f].state = "conn_new_cmd", ![f].rbytes = @ - CmdLen]
    <3> DEFINE r == [conn[f] EXCEPT !.state = "conn_new_cmd", !.rbytes = @ - CmdLen]
    <3>1. conn' = [conn EXCEPT ![f] = r]
      BY <2>1, Zenon
    <3>2. r \in ConnType /\ r.thread = conn[f].thread
      BY <1>2, <1>3, <2>1, SMTT(30) DEF ConnType
    <3> HIDE DEF r
    <3>3. Sets(f)
      BY <3>1, <3>2, Zenon DEF Sets
    <3> QED
      BY <1>7, <3>3, Zenon DEF conn_parse_cmd
  <2>2. CASE SetState(f, "conn_waiting")
    BY <1>1, <1>2, <1>7, <2>2, Zenon DEF conn_parse_cmd
  <2> QED
    BY <1>7, <2>1, <2>2, Zenon DEF conn_parse_cmd
<1>8. CASE conn_closing(w, f)
  BY <1>8, Zenon DEF conn_closing, Ends
<1> QED
  BY <1>4, <1>5, <1>6, <1>7, <1>8, SMTT(30) DEF drive_machine

(* The conns stay with their workers.                                      *)
ConnsStay ==
  \A g \in DOMAIN conn : g \in DOMAIN conn' /\ conn'[g].thread = conn[g].thread

(* A change of the values of a conn or of a socket keeps the types, and    *)
(* who has which conn.                                                     *)
LEMMA SetsKeep ==
  ASSUME ConnTypes, NEW f, f \in DOMAIN conn, Sets(f)
  PROVE  /\ DOMAIN conn' = DOMAIN conn /\ ConnsStay
         /\ conn' \in [DOMAIN conn' -> ConnType]
<1>1. PICK r \in ConnType : r.thread = conn[f].thread /\ conn' = [conn EXCEPT ![f] = r]
  BY Zenon DEF Sets
<1>2. conn \in [DOMAIN conn -> ConnType]
  BY Zenon DEF ConnTypes
<1> QED
  BY <1>1, <1>2, Zenon DEF ConnsStay

(* A client or try_read_network changes what there is to read.             *)
LEMMA SockKeep ==
  ASSUME ConnTypes, NEW f \in Open, NEW n \in Nat,
         \/ sock' = [sock EXCEPT ![f].bytes = n]
         \/ sock' = [sock EXCEPT ![f].eof = TRUE]
  PROVE  Open' = Open /\ sock' \in [Open' -> SockType]
<1>1. sock \in [Open -> SockType] /\ sock[f] \in SockType
  BY Zenon DEF ConnTypes
<1>2. /\ [sock[f] EXCEPT !.bytes = n] \in SockType
      /\ [sock[f] EXCEPT !.eof = TRUE] \in SockType
  BY <1>1, Zenon DEF SockType
<1>3. PICK r \in SockType : sock' = [sock EXCEPT ![f] = r]
  <2>1. CASE sock' = [sock EXCEPT ![f].bytes = n]
    BY <1>2, <2>1, Zenon
  <2>2. CASE sock' = [sock EXCEPT ![f].eof = TRUE]
    BY <1>2, <2>2, Zenon
  <2> QED
    BY <2>1, <2>2, Zenon
<1> QED
  BY <1>1, <1>3, Zenon DEF Open

(* What a step may do to the places that hold a descriptor: nothing,       *)
HoldStays ==
  /\ UNCHANGED queue /\ DOMAIN conn' = DOMAIN conn /\ Open' = Open /\ ConnsStay
  /\ main'.sfd = main.sfd /\ (main'.pc = main.pc \/ main.sfd = NoFd)
(* accept returns f,                                                       *)
Accepts(f) ==
  /\ f \in FreeFds /\ Open' = Open \cup {f} /\ UNCHANGED <<queue, conn>>
  /\ main.sfd = NoFd /\ main'.sfd = f /\ main'.pc = "dispatch"
(* dispatch_conn_new closes it or queues it,                               *)
Drops ==
  /\ main.sfd \in Fds /\ Open' = Open \ {main.sfd} /\ UNCHANGED <<queue, conn>>
  /\ main'.sfd = NoFd
Pushes(w) ==
  /\ main.sfd \in Fds /\ UNCHANGED <<sock, conn>>
  /\ queue' = [queue EXCEPT ![w] = Append(@, main.sfd)]
  /\ main'.sfd = NoFd
(* worker w makes a conn of it or closes it,                               *)
Pops(w) ==
  /\ UNCHANGED main
  /\ queue[w] # <<>> /\ queue' = [queue EXCEPT ![w] = Tail(@)]
  /\ \/ DOMAIN conn' = DOMAIN conn \cup {Head(queue[w])} /\ UNCHANGED sock
     \/ UNCHANGED conn /\ Open' = Open \ {Head(queue[w])}
  /\ ConnsStay
(* and closes its conn.                                                    *)
Closes(w) ==
  /\ UNCHANGED <<queue, main>>
  /\ worker[w].pc = "drive" /\ worker[w].fd \in DOMAIN conn
  /\ Ends(worker[w].fd) /\ BackToLoop(w)

HandMove ==
  \/ HoldStays \/ Drops
  \/ \E f \in Fds : Accepts(f)
  \/ \E w \in Threads : Pushes(w) \/ Pops(w) \/ Closes(w)

HandInv == ConnTypes /\ HoldInv /\ DriveInv

(* Nothing happens to the conns and the sockets.                           *)
LEMMA HoldSame ==
  ASSUME ConnTypes, UNCHANGED <<conn, sock>>, Threads' = Threads
  PROVE  /\ DOMAIN conn' = DOMAIN conn /\ Open' = Open /\ ConnsStay
         /\ ConnTypes'
<1>1. ConnType' = ConnType /\ SockType' = SockType
  BY Zenon DEF ConnType, SockType
<1> QED
  BY <1>1, Zenon DEF ConnsStay, ConnTypes, Open

(* The main thread, the clients and the flips.                             *)
LEMMA HandOthers ==
  ASSUME Types, ConnTypes, HoldInv, Threads' = Threads,
         MainStep \/ ClientStep \/ StartFlip \/ EndFlip
  PROVE  HandMove /\ ConnTypes'
<1>1. /\ main \in [pc : MainLabels, sfd : Fds \cup {NoFd}, tid : Threads \cup {NoThread}]
      /\ main.sfd # NoFd => main.pc = "dispatch"
      /\ main.pc = "dispatch" => main.sfd \in Fds
      /\ sock \in [Open -> SockType] /\ DOMAIN conn \cup Open \subseteq Fds
      /\ conn \in [DOMAIN conn -> ConnType]
  BY Zenon DEF Types, HoldInv, ConnTypes
<1>2. ConnType' = ConnType /\ SockType' = SockType
  BY Zenon DEF ConnType, SockType
<1>3. CASE setup_thread \/ create_worker \/ thread_init_returns \/ write_notify
           \/ StartFlip \/ EndFlip
  <2>1. UNCHANGED <<conn, sock, queue>>
    BY <1>3, ZenonT(30) DEF setup_thread, create_worker, thread_init_returns, write_notify,
       StartFlip, EndFlip, chanVars, connVars
  <2>2. main'.sfd = main.sfd /\ (main'.pc = main.pc \/ main.sfd = NoFd)
    <3>1. CASE UNCHANGED main
      BY <3>1, Zenon
    <3>2. CASE main.pc # "dispatch" /\ \E s : main' = [main EXCEPT !.pc = s]
      BY <1>1, <3>2, Zenon
    <3>3. CASE main.pc # "dispatch" /\ main' = [main EXCEPT !.pc = "serve", !.tid = NoThread]
      BY <1>1, <3>3, Zenon
    <3> QED
      BY <1>3, <3>1, <3>2, <3>3, Zenon DEF setup_thread, create_worker, thread_init_returns,
         write_notify, StartFlip, EndFlip, mainVars, exit
  <2> QED
    BY <2>1, <2>2, HoldSame, Zenon DEF HandMove, HoldStays
<1>4. CASE dispatch_conn_new
  <2>1. main.sfd \in Fds /\ conn' = conn
    BY <1>1, <1>4, Zenon DEF dispatch_conn_new
  <2>2. CASE Close(main.sfd) /\ main' = [main EXCEPT !.pc = "serve", !.sfd = NoFd]
             /\ UNCHANGED <<last_thread, queue>>
    <3>1. Open' = Open \ {main.sfd} /\ sock' \in [Open' -> SockType]
      BY <1>1, <2>2, Zenon DEF Close, Restrict, Open
    <3>2. main'.sfd = NoFd
      BY <1>1, <2>2, Zenon
    <3>3. Drops
      BY <2>1, <2>2, <3>1, <3>2, Zenon DEF Drops
    <3>4. ConnTypes'
      BY <1>1, <1>2, <2>1, <3>1, Zenon DEF ConnTypes
    <3> QED
      BY <3>3, <3>4, Zenon DEF HandMove
  <2>3. CASE /\ queue' = [queue EXCEPT ![NextThread] = Append(@, main.sfd)]
             /\ main' = [pc |-> "notify", sfd |-> NoFd, tid |-> NextThread]
             /\ UNCHANGED sock
    <3>1. main'.sfd = NoFd
      BY <2>3, Zenon
    <3>2. NextThread \in Threads
      BY ThreadCount DEF NextThread, Types, Threads, NoThread
    <3>3. Pushes(NextThread)
      BY <2>1, <2>3, <3>1, Zenon DEF Pushes
    <3>4. ConnTypes'
      BY <2>1, <2>3, HoldSame, Zenon
    <3> QED
      BY <3>2, <3>3, <3>4, Zenon DEF HandMove
  <2> QED
    BY <1>4, <2>2, <2>3, Zenon DEF dispatch_conn_new
<1>5. CASE conn_listening
  <2>1. UNCHANGED <<queue, conn>> /\ main.sfd = NoFd
    BY <1>1, <1>5, Zenon DEF conn_listening, chanVars
  <2>2. CASE UNCHANGED <<main, sock>>
    BY <2>1, <2>2, HoldSame, Zenon DEF HandMove, HoldStays
  <2>3. ASSUME NEW f \in FreeFds,
               sock' = [g \in Open \cup {f} |-> IF g = f THEN [bytes |-> 0, eof |-> FALSE]
                                                         ELSE sock[g]],
               main' = [main EXCEPT !.pc = "dispatch", !.sfd = f]
        PROVE  HandMove /\ ConnTypes'
    <3>1. [bytes |-> 0, eof |-> FALSE] \in SockType
      BY Zenon DEF SockType
    <3>2. Open' = Open \cup {f} /\ sock' \in [Open' -> SockType]
      BY <1>1, <2>3, <3>1, Zenon DEF Open
    <3>3. main'.sfd = f /\ main'.pc = "dispatch"
      BY <1>1, <2>3, Zenon
    <3>4. Accepts(f) /\ f \in Fds
      BY <2>1, <3>2, <3>3, Zenon DEF Accepts, FreeFds
    <3>5. ConnTypes'
      BY <1>1, <1>2, <2>1, <3>2, <3>4, Zenon DEF ConnTypes
    <3> QED
      BY <3>4, <3>5, Zenon DEF HandMove
  <2> QED
    BY <1>5, <2>2, <2>3, ZenonT(30) DEF conn_listening
<1>6. ASSUME NEW f \in Fds, ClientSends(f) \/ ClientCloses(f)
      PROVE  HandMove /\ ConnTypes'
  <2>1. UNCHANGED <<queue, conn, main>> /\ f \in Open
    BY <1>6, Zenon DEF ClientSends, ClientCloses, chanVars, mainVars
  <2>2. sock[f].bytes + Chunk \in Nat
    BY <1>1, <2>1, LengthsAssumption, SMTT(30) DEF SockType
  <2>3. \/ sock' = [sock EXCEPT ![f].bytes = sock[f].bytes + Chunk]
        \/ sock' = [sock EXCEPT ![f].eof = TRUE]
    BY <1>6, <2>1, Zenon DEF ClientSends, ClientCloses
  <2>4. Open' = Open /\ sock' \in [Open' -> SockType]
    BY <2>1, <2>2, <2>3, SockKeep, Zenon
  <2>5. HoldStays
    BY <2>1, <2>4, Zenon DEF HoldStays, ConnsStay
  <2>6. ConnTypes'
    BY <1>1, <1>2, <2>1, <2>4, Zenon DEF ConnTypes
  <2> QED
    BY <2>5, <2>6, ZenonT(60) DEF HandMove
<1> QED
  BY <1>3, <1>4, <1>5, <1>6, Zenon DEF MainStep, ClientStep

(* The workers.                                                            *)
LEMMA HandWorker ==
  ASSUME Types, HandInv, Threads' = Threads, NEW w \in Threads, WorkerStep(w)
  PROVE  HandMove /\ ConnTypes'
<1>1. /\ sock \in [Open -> SockType] /\ DOMAIN conn \cup Open \subseteq Fds
      /\ conn \in [DOMAIN conn -> ConnType] /\ queue \in [Threads -> Seq(Fds)]
      /\ ConnTypes
  BY Zenon DEF Types, HandInv, ConnTypes
<1>2. ConnType' = ConnType /\ SockType' = SockType
  BY Zenon DEF ConnType, SockType
<1>3. ASSUME UNCHANGED <<conn, sock, queue, main>> PROVE HandMove /\ ConnTypes'
  BY <1>1, <1>3, HoldSame, Zenon DEF HandMove, HoldStays
<1>4. CASE worker_libevent(w) \/ event_base_loop(w) \/ read_notify(w)
           \/ \E f \in Fds : event_handler(w, f)
  <2>1. UNCHANGED <<conn, sock, queue, main>>
    BY <1>4, Zenon DEF worker_libevent, event_base_loop, read_notify, event_handler,
       chanVars,
       connVars, mainVars
  <2> QED
    BY <1>3, <2>1, Zenon
<1>5. CASE thread_libevent_process(w)
  <2>1. UNCHANGED main
    BY <1>5, Zenon DEF thread_libevent_process, mainVars
  <2>2. CASE UNCHANGED <<queue, connVars>>
    BY <1>3, <2>1, <2>2, Zenon DEF connVars
  <2> DEFINE h == Head(queue[w])
  <2>3. CASE queue[w] # <<>> /\ queue' = [queue EXCEPT ![w] = Tail(@)]
             /\ \/ NewConn(h, w) /\ UNCHANGED sock
                \/ Close(h) /\ UNCHANGED conn
    <3>1. queue[w] \in Seq(Fds)
      BY <1>1, Zenon
    <3>2. h \in Fds /\ h \in Range(queue[w])
      BY <2>3, <3>1, TakeHead, SMTT(30)
    <3>3. h \notin DOMAIN conn
      BY <3>2, Zenon DEF HandInv, HoldInv, HoldOne, InQueue
    <3> HIDE DEF h
    <3>4. CASE NewConn(h, w) /\ UNCHANGED sock
      <4>1. [state |-> "conn_new_cmd", rbytes |-> 0, ev |-> "read", thread |-> w] \in ConnType
        BY Zenon DEF ConnType, ConnStates
      <4>2. /\ DOMAIN conn' = DOMAIN conn \cup {h} /\ ConnsStay
            /\ conn' \in [DOMAIN conn' -> ConnType]
        BY <1>1, <3>3, <3>4, <4>1, ZenonT(60) DEF NewConn, ConnsStay
      <4>3. Pops(w)
        BY <2>1, <2>3, <3>4, <4>2, ZenonT(30) DEF Pops, h
      <4>4. ConnTypes'
        BY <1>1, <1>2, <3>2, <3>4, <4>2, Zenon DEF ConnTypes, Open
      <4> QED
        BY <4>3, <4>4, Zenon DEF HandMove
    <3>5. CASE Close(h) /\ UNCHANGED conn
      <4>1. Open' = Open \ {h} /\ sock' \in [Open' -> SockType]
        BY <1>1, <3>5, Zenon DEF Close, Restrict, Open
      <4>2. ConnsStay
        BY <3>5, Zenon DEF ConnsStay
      <4>3. Pops(w)
        BY <2>1, <2>3, <3>5, <4>1, <4>2, ZenonT(30) DEF Pops, h
      <4>4. ConnTypes'
        BY <1>1, <1>2, <3>5, <4>1, Zenon DEF ConnTypes
      <4> QED
        BY <4>3, <4>4, Zenon DEF HandMove
    <3> QED
      BY <2>3, <3>4, <3>5, Zenon DEF h
  <2> QED
    BY <1>5, <2>2, <2>3, Zenon DEF thread_libevent_process, TakeConnection
<1>6. CASE drive_machine(w)
  <2> DEFINE f == worker[w].fd
  <2>1. worker[w].pc = "drive" /\ UNCHANGED <<queue, main>>
    BY <1>6, DriveEffect, Zenon
  <2>2. f \in DOMAIN conn /\ f \in Open
    BY <1>1, <2>1, Zenon DEF HandInv, DriveInv, DriveOne, ConnsOf, HoldInv, HoldOne
  <2> HIDE DEF f
  <2>3. \/ UNCHANGED <<conn, sock>>
        \/ Sets(f) /\ (UNCHANGED sock \/ sock' = [sock EXCEPT ![f].bytes = 0])
        \/ Ends(f) /\ BackToLoop(w)
    BY <1>1, <1>6, <2>2, DriveConns, Zenon DEF f
  <2>4. CASE UNCHANGED <<conn, sock>>
    BY <1>3, <2>1, <2>4, Zenon
  <2>5. CASE Sets(f) /\ (UNCHANGED sock \/ sock' = [sock EXCEPT ![f].bytes = 0])
    <3>1. Open' = Open /\ sock' \in [Open' -> SockType]
      <4>1. CASE UNCHANGED sock
        BY <1>1, <4>1, Zenon DEF Open
      <4>2. CASE sock' = [sock EXCEPT ![f].bytes = 0]
        BY <1>1, <2>2, <4>2, SockKeep, Zenon
      <4> QED
        BY <2>5, <4>1, <4>2, Zenon
    <3>2. /\ DOMAIN conn' = DOMAIN conn /\ ConnsStay
          /\ conn' \in [DOMAIN conn' -> ConnType]
      BY <1>1, <2>2, <2>5, SetsKeep, Zenon
    <3>3. HoldStays
      BY <2>1, <3>1, <3>2, Zenon DEF HoldStays
    <3>4. ConnTypes'
      BY <1>1, <1>2, <3>1, <3>2, Zenon DEF ConnTypes
    <3> QED
      BY <3>3, <3>4, Zenon DEF HandMove
  <2>6. CASE Ends(f) /\ BackToLoop(w)
    <3>1. Closes(w)
      BY <2>1, <2>2, <2>6, Zenon DEF Closes, f
    <3>2. /\ DOMAIN conn' \subseteq DOMAIN conn /\ Open' \subseteq Open
          /\ conn' \in [DOMAIN conn' -> ConnType] /\ sock' \in [Open' -> SockType]
      BY <1>1, <2>6, Zenon DEF Ends, Close, Restrict, Open
    <3>3. ConnTypes'
      BY <1>1, <1>2, <3>2, Zenon DEF ConnTypes
    <3> QED
      BY <3>1, <3>3, Zenon DEF HandMove
  <2> QED
    BY <2>3, <2>4, <2>5, <2>6, Zenon
<1> QED
  BY <1>4, <1>5, <1>6, Zenon DEF WorkerStep

(* Every hand-over leaves a descriptor in one place.                       *)
LEMMA HoldStep ==
  ASSUME Types, ConnTypes, HoldInv, Threads' = Threads, HandMove
  PROVE  HoldInv'
<1>1. /\ queue \in [Threads -> Seq(Fds)]
      /\ DOMAIN conn \cup Open \subseteq Fds /\ NoFd \notin Fds
  BY FdsAssumption DEF Types, ConnTypes, NoFd
<1>2. \A w \in Threads : IsInjective(queue[w])
  BY Zenon DEF HoldInv
<1>3. \A f \in Fds : HoldOne(f)
  BY Zenon DEF HoldInv
<1>4. ASSUME queue' = queue
      PROVE  \A w \in Threads : queue'[w] = queue[w] /\ \A f : InQueue(f, w)' <=> InQueue(f, w)
  BY <1>4, Zenon DEF InQueue
<1>5. CASE HoldStays
  BY <1>2, <1>4, <1>5, Zenon DEF HoldStays, HoldInv, HoldOne
<1>6. CASE Drops
  BY <1>1, <1>2, <1>4, <1>6, ZenonT(60) DEF Drops, HoldInv, HoldOne
<1>7. ASSUME NEW f \in Fds, Accepts(f) PROVE HoldInv'
  BY <1>1, <1>2, <1>4, <1>7, ZenonT(60) DEF Accepts, FreeFds, HoldInv, HoldOne
<1>8. ASSUME NEW w \in Threads, Pushes(w) PROVE HoldInv'
  <2>1. queue[w] \in Seq(Fds) /\ main.sfd \in Fds /\ IsInjective(queue[w])
    BY <1>1, <1>2, <1>8, Zenon DEF Pushes
  <2>2. main.sfd \notin Range(queue[w])
    BY <1>3, <2>1, Zenon DEF HoldOne, InQueue
  <2>3. /\ \A v \in Threads : queue'[v] = IF v = w THEN Append(queue[w], main.sfd) ELSE queue[v]
    BY <1>1, <1>8, Zenon DEF Pushes
  <2>4. /\ \A v \in Threads : IsInjective(queue'[v])
        /\ \A v \in Threads : \A f : v # w => (InQueue(f, v)' <=> InQueue(f, v))
        /\ \A f : InQueue(f, w)' <=> InQueue(f, w) \/ f = main.sfd
    <3>1. /\ Range(Append(queue[w], main.sfd)) = Range(queue[w]) \cup {main.sfd}
          /\ IsInjective(Append(queue[w], main.sfd))
      BY <2>1, <2>2, AddTail, SMTT(30)
    <3> QED
      BY <1>2, <2>3, <3>1, Zenon DEF InQueue
  <2>5. main'.sfd = NoFd /\ DOMAIN conn' = DOMAIN conn /\ Open' = Open
    BY <1>8, Zenon DEF Pushes, Open
  <2>6. ASSUME NEW f \in Fds PROVE HoldOne(f)'
    BY <1>1, <1>3, <2>1, <2>4, <2>5, SMTT(30) DEF HoldOne
  <2> QED
    BY <2>4, <2>5, <2>6, Zenon DEF HoldInv
<1>9. ASSUME NEW w \in Threads, Pops(w) PROVE HoldInv'
  <2> DEFINE h == Head(queue[w])
  <2>1. queue[w] \in Seq(Fds) /\ queue[w] # <<>> /\ IsInjective(queue[w])
    BY <1>1, <1>2, <1>9, Zenon DEF Pops
  <2>2. \A v \in Threads : queue'[v] = IF v = w THEN Tail(queue[w]) ELSE queue[v]
    BY <1>1, <1>9, Zenon DEF Pops
  <2>3. /\ h \in Fds /\ Range(queue[w]) = Range(Tail(queue[w])) \cup {h}
        /\ IsInjective(Tail(queue[w])) /\ h \notin Range(Tail(queue[w]))
    BY <2>1, TakeHead, Zenon
  <2> HIDE DEF h
  <2>4. /\ \A v \in Threads : IsInjective(queue'[v])
        /\ \A v \in Threads : \A f : v # w => (InQueue(f, v)' <=> InQueue(f, v))
        /\ \A f : InQueue(f, w)' <=> InQueue(f, w) /\ f # h
        /\ InQueue(h, w)
    BY <1>2, <2>2, <2>3, Zenon DEF InQueue
  <2>5. /\ main' = main
        /\ \/ DOMAIN conn' = DOMAIN conn \cup {h} /\ Open' = Open
           \/ DOMAIN conn' = DOMAIN conn /\ Open' = Open \ {h}
    BY <1>9, Zenon DEF Pops, Open, h
  <2>6. ASSUME NEW f \in Fds PROVE HoldOne(f)'
    <3>1. HoldOne(f)
      BY <1>3, Zenon
    <3>2. CASE f = h
      <4>1. /\ f \in Open /\ f # main.sfd /\ f \notin DOMAIN conn
            /\ \A v \in Threads : InQueue(f, v) => v = w
        BY <2>4, <3>1, <3>2, Zenon DEF HoldOne
      <4>2. \A v \in Threads : ~InQueue(f, v)'
        BY <2>4, <3>2, <4>1, Zenon
      <4> QED
        BY <2>5, <3>2, <4>1, <4>2, Zenon DEF HoldOne
    <3>3. CASE f # h
      <4>1. /\ \A v \in Threads : InQueue(f, v)' <=> InQueue(f, v)
            /\ f \in DOMAIN conn' <=> f \in DOMAIN conn
            /\ f \in Open' <=> f \in Open
        BY <2>4, <2>5, <3>3, Zenon
      <4> QED
        BY <2>5, <3>1, <4>1, Zenon DEF HoldOne
    <3> QED
      BY <3>2, <3>3, Zenon
  <2> QED
    BY <2>4, <2>5, <2>6, Zenon DEF HoldInv
<1>10. ASSUME NEW w \in Threads, Closes(w) PROVE HoldInv'
  <2>1. /\ worker[w].fd \in DOMAIN conn /\ UNCHANGED <<queue, main>>
        /\ DOMAIN conn' = DOMAIN conn \ {worker[w].fd}
        /\ Open' = Open \ {worker[w].fd}
    BY <1>10, Zenon DEF Closes, Ends, Close, Restrict, Open
  <2> QED
    BY <1>1, <1>2, <1>4, <2>1, ZenonT(60) DEF HoldInv, HoldOne
<1> QED
  BY <1>5, <1>6, <1>7, <1>8, <1>9, <1>10, ZenonT(60) DEF HandMove

(* A worker that starts nothing new keeps to its conns while they stay.    *)
LEMMA DriveKeep ==
  ASSUME ConnsStay, NEW w, DriveOne(w), worker'[w].active \subseteq worker[w].active,
         worker'[w].pc = "drive" => worker[w].pc = "drive" /\ worker'[w].fd = worker[w].fd
  PROVE  DriveOne(w)'
<1>1. ConnsOf(w) \subseteq ConnsOf(w)'
  BY Zenon DEF ConnsStay, ConnsOf
<1> QED
  BY <1>1, Zenon DEF DriveOne

(* No conn goes but by conn_close.                                         *)
LEMMA ConnMoves ==
  ASSUME HandMove
  PROVE  ConnsStay \/ \E w \in Threads : Closes(w)
<1>1. UNCHANGED conn => ConnsStay
  BY Zenon DEF ConnsStay
<1> QED
  BY <1>1, Zenon DEF HandMove, HoldStays, Drops, Accepts, Pushes, Pops

(* What the threads other than the workers do leaves the workers at work.  *)
LEMMA DriveOthers ==
  ASSUME Types, DriveInv, HandMove, Threads' = Threads,
         MainStep \/ ClientStep \/ StartFlip \/ EndFlip
  PROVE  DriveInv'
<1>1. \A w \in Threads : \/ worker'[w] = worker[w]
                         \/ /\ worker[w].pc = "none"
                            /\ worker'[w] = [worker[w] EXCEPT !.pc = "start"]
  <2>1. create_worker \/ UNCHANGED worker
    BY Zenon DEF MainStep, ClientStep, setup_thread, exit, thread_init_returns,
       dispatch_conn_new, write_notify, conn_listening, ClientSends, ClientCloses, StartFlip,
       EndFlip
  <2> QED
    BY <2>1, CreateEffect, Zenon
<1>2. \A w \in Threads : worker[w] \in WorkerType
  BY Zenon DEF Types
<1>3. \A w \in Threads :
        /\ worker'[w].active = worker[w].active
        /\ worker'[w].pc = "drive" <=> worker[w].pc = "drive"
        /\ worker'[w].fd = worker[w].fd
  BY <1>1, <1>2, ZenonT(60) DEF WorkerType
<1>4. ASSUME NEW w \in Threads, Closes(w) PROVE FALSE
  <2>1. worker[w].pc = "drive" /\ worker'[w].pc = "loop"
    BY <1>2, <1>4 DEF Closes, BackToLoop, Types, WorkerType
  <2> QED
    BY <1>3, <2>1, Zenon
<1>5. ConnsStay
  BY <1>4, ConnMoves, Zenon
<1> QED
  BY <1>3, <1>5, DriveKeep, Zenon DEF DriveInv

(* A worker drives its conns one at a time and closes no other's.          *)
LEMMA DriveWorker ==
  ASSUME Types, PipeInv, DriveInv, HandMove, Threads' = Threads, NEW w \in Threads, WorkerStep(w)
  PROVE  DriveInv'
<1>1. /\ \A v \in Threads : v # w => worker'[v] = worker[v]
      /\ worker[w] \in WorkerType /\ worker \in [Threads -> WorkerType]
  BY WorkerEffect, Zenon DEF Types
<1>2. \A v \in Threads : DriveOne(v)
  BY Zenon DEF DriveInv
<1>3. CASE Closes(w)
  <2> DEFINE f == worker[w].fd
  <2>1. /\ worker[w].pc = "drive" /\ f \in ConnsOf(w) \ worker[w].active
        /\ conn' = Restrict(conn, DOMAIN conn \ {f})
    BY <1>2, <1>3, Zenon DEF Closes, Ends, DriveOne
  <2>2. worker'[w].active = worker[w].active /\ worker'[w].pc = "loop"
    BY <1>1, <1>3, Zenon DEF Closes, BackToLoop, WorkerType
  <2> HIDE DEF f
  <2>3. DOMAIN conn' = DOMAIN conn \ {f} /\ \A g \in DOMAIN conn' : conn'[g] = conn[g]
    BY <2>1, Zenon DEF Restrict
  <2>4. \A v \in Threads : ConnsOf(v)' = ConnsOf(v) \ {f}
    BY <2>3, Zenon DEF ConnsOf
  <2>5. DriveOne(w)'
    BY <1>2, <2>1, <2>2, <2>4, Zenon DEF DriveOne
  <2>6. ASSUME NEW v \in Threads, v # w PROVE DriveOne(v)'
    <3>1. f \notin ConnsOf(v)
      BY <2>1, <2>6, Zenon DEF ConnsOf
    <3> QED
      BY <1>1, <1>2, <2>4, <2>6, <3>1, ZenonT(60) DEF DriveOne
  <2> QED
    BY <2>5, <2>6, Zenon DEF DriveInv
<1>4. CASE ConnsStay
  <2>1. ASSUME NEW v \in Threads, v # w PROVE DriveOne(v)'
    BY <1>1, <1>2, <1>4, <2>1, DriveKeep, Zenon
  <2>2. SUFFICES DriveOne(w)'
    BY <2>1, Zenon DEF DriveInv
  <2>3. ASSUME BackToLoop(w) PROVE DriveOne(w)'
    <3>1. worker'[w].active = worker[w].active /\ worker'[w].pc = "loop"
      BY <1>1, <2>3, ZenonT(60) DEF BackToLoop, WorkerType
    <3> QED
      BY <1>2, <1>4, <3>1, DriveKeep, Zenon
  <2>4. CASE worker_libevent(w)
    <3>1. worker'[w].active = worker[w].active /\ worker'[w].pc = "loop"
      BY <1>1, <2>4, Zenon DEF worker_libevent, WorkerType
    <3> QED
      BY <1>2, <1>4, <3>1, DriveKeep, Zenon
  <2>5. CASE event_base_loop(w)
    <3>1. worker'[w].active = ReadyEvents(w) /\ worker'[w].pc = "loop" /\ conn' = conn
      BY <1>1, <2>5, Zenon DEF event_base_loop, Idle, WorkerType, connVars
    <3>2. ReadyEvents(w) \subseteq ConnsOf(w) \cup {Pipe} /\ ConnsOf(w)' = ConnsOf(w)
      BY <3>1, Zenon DEF ReadyEvents, ConnsOf
    <3> QED
      BY <3>1, <3>2, Zenon DEF DriveOne
  <2>6. CASE read_notify(w)
    <3>1. worker'[w].active = worker[w].active \ {Pipe} /\ worker'[w].pc = "switch"
      BY <1>1, <2>6 DEF read_notify, WorkerType
    <3> QED
      BY <1>2, <1>4, <3>1, DriveKeep, Zenon
  <2>7. ASSUME NEW f \in Fds, event_handler(w, f) PROVE DriveOne(w)'
    <3>1. /\ f \in worker[w].active /\ worker'[w].active = worker[w].active \ {f}
          /\ worker'[w].fd = f /\ conn' = conn
      BY <1>1, <2>7, Zenon DEF event_handler, WorkerType, connVars
    <3>2. f # Pipe
      BY FdsAssumption, Zenon DEF Pipe
    <3>3. ConnsOf(w)' = ConnsOf(w)
      BY <3>1, Zenon DEF ConnsOf
    <3> QED
      BY <1>2, <3>1, <3>2, <3>3, ZenonT(60) DEF DriveOne
  <2>8. CASE thread_libevent_process(w)
    BY <2>3, <2>8, Zenon DEF thread_libevent_process
  <2>9. CASE drive_machine(w)
    <3>1. DriveMoves(w)
      BY <2>9, DriveEffect, Zenon
    <3>2. CASE UNCHANGED worker
      BY <1>2, <1>4, <3>2, DriveKeep, Zenon
    <3>3. CASE worker' = [worker EXCEPT ![w].nreqs = @ - 1]
      <4>1. worker'[w].active = worker[w].active /\ worker'[w].fd = worker[w].fd
            /\ worker'[w].pc = worker[w].pc
        BY <1>1, <3>3, Zenon DEF WorkerType
      <4> QED
        BY <1>2, <1>4, <4>1, DriveKeep, Zenon
    <3> QED
      BY <2>3, <3>1, <3>2, <3>3, Zenon DEF DriveMoves
  <2> QED
    BY <2>4, <2>5, <2>6, <2>7, <2>8, <2>9, ZenonT(30) DEF WorkerStep
<1>5. ASSUME NEW v \in Threads, Closes(v) PROVE v = w
  <2>1. worker[v].pc = "drive" /\ worker'[v].pc = "loop"
    BY <1>1, <1>5, Zenon DEF Closes, BackToLoop, WorkerType
  <2> QED
    BY <1>1, <2>1, Zenon
<1> QED
  BY <1>3, <1>4, <1>5, ConnMoves, Zenon

(* Nobody holds anything at first.                                         *)
LEMMA HandInit == Init => HandInv
<1> SUFFICES ASSUME Init PROVE HandInv
  BY Zenon
<1>1. DOMAIN conn = {} /\ Open = {} /\ conn = <<>> /\ sock = <<>>
  BY DEF Init, Open
<1>2. ConnTypes
  BY <1>1 DEF ConnTypes
<1>3. /\ main.sfd = NoFd /\ NoFd \notin Fds
      /\ \A w \in Threads : queue[w] = <<>> /\ worker[w].active = {} /\ worker[w].pc = "none"
  BY FdsAssumption DEF Init, NoFd
<1>4. \A w \in Threads : Range(queue[w]) = {} /\ IsInjective(queue[w])
  BY <1>3, EmptyList, Zenon
<1>5. HoldInv
  BY <1>1, <1>3, <1>4, Zenon DEF HoldInv, HoldOne, InQueue
<1>6. DriveInv
  BY <1>3, Zenon DEF DriveInv, DriveOne
<1> QED
  BY <1>2, <1>5, <1>6, Zenon DEF HandInv

(* Every step keeps HandInv.                                               *)
LEMMA HandStep == BarrierInv /\ HandInv /\ [Next]_vars => HandInv'
<1> SUFFICES ASSUME BarrierInv, HandInv, [Next]_vars PROVE HandInv'
  BY Zenon
<1>1. Types /\ PipeInv /\ ConnTypes /\ HoldInv /\ DriveInv /\ Threads' = Threads
  BY SameThreads, Zenon DEF BarrierInv, HandInv
<1>2. CASE MainStep \/ ClientStep \/ StartFlip \/ EndFlip
  BY <1>1, <1>2, HandOthers, HoldStep, DriveOthers, Zenon DEF HandInv
<1>3. ASSUME NEW w \in Threads, WorkerStep(w) PROVE HandInv'
  BY <1>1, <1>3, HandWorker, HoldStep, DriveWorker, Zenon DEF HandInv
<1>4. CASE UNCHANGED vars
  <2>1. UNCHANGED <<main, worker, queue, conn, sock>>
    BY <1>4, Zenon DEF vars, mainVars, chanVars, connVars
  <2>2. HoldStays /\ ConnTypes'
    BY <1>1, <2>1, HoldSame, Zenon DEF HoldStays
  <2>3. HoldInv'
    BY <1>1, <2>2, HoldStep, Zenon DEF HandMove
  <2>4. DriveInv'
    BY <1>1, <2>1, <2>2, DriveKeep, Zenon DEF DriveInv, HoldStays
  <2> QED
    BY <2>2, <2>3, <2>4, Zenon DEF HandInv
<1> QED
  BY <1>2, <1>3, <1>4, Zenon DEF Next

(* HandInv always holds.                                                   *)
LEMMA Hands == Spec => [](BarrierInv /\ HandInv)
BY BarrierInit, BarrierStep, HandInit, HandStep, PTL DEF Spec

(* A descriptor that is open is held by the main thread, by one item of    *)
(* one queue or by one conn, and a closed one by nobody, for every number  *)
(* of workers, descriptors and failures: a connection is neither leaked    *)
(* nor closed twice on its way from accept to conn_close                   *)
(* (dispatch_conn_new, thread_libevent_process, conn_close).               *)
THEOREM HoldersTheorem == Spec => []OneHolder
<1>1. BarrierInv /\ HandInv => OneHolder
  <2> SUFFICES ASSUME HandInv PROVE OneHolder
    BY Zenon
  <2>1. \A w \in Threads : IsInjective(queue[w])
    BY Zenon DEF HandInv, HoldInv
  <2> DEFINE Held(f) == One(main.sfd = f) + Cardinality(Queued(f)) + One(f \in DOMAIN conn)
                          = One(f \in Open)
  <2>2. ASSUME NEW f \in Fds PROVE Held(f)
    <3>1. HoldOne(f)
      BY Zenon DEF HandInv, HoldInv
    <3>2. CASE Queued(f) = {}
      <4>1. Cardinality(Queued(f)) = 0
        BY <3>2, FS_EmptySet, Zenon
      <4>2. \A w \in Threads : ~InQueue(f, w)
        BY <3>2, Zenon DEF Queued, InQueue
      <4>3. /\ f \in Open <=> main.sfd = f \/ f \in DOMAIN conn
            /\ ~(main.sfd = f /\ f \in DOMAIN conn)
        BY <3>1, <4>2, Zenon DEF HoldOne
      <4> QED
        BY <4>1, <4>3 DEF One
    <3>3. ASSUME NEW w \in Queued(f) PROVE Held(f)
      <4>1. w \in Threads /\ InQueue(f, w)
        BY Zenon DEF Queued, InQueue
      <4>2. Queued(f) = {w}
        BY <3>1, <4>1, Zenon DEF HoldOne, Queued, InQueue
      <4>3. Cardinality(Queued(f)) = 1
        BY <4>2, FS_Singleton, Zenon
      <4>4. f \in Open /\ main.sfd # f /\ f \notin DOMAIN conn
        BY <3>1, <4>1, Zenon DEF HoldOne
      <4> QED
        BY <4>3, <4>4 DEF One
    <3> QED
      BY <3>2, <3>3, Zenon
  <2> QED
    BY <2>1, <2>2, Zenon DEF OneHolder
<1> QED
  BY <1>1, Hands, PTL

-----------------------------------------------------------------------------
(* The counters; a write that fails is a call that fails.                  *)
CountsInv ==
  /\ arrivals \in Nat /\ sent \in Nat /\ flips \in 0..MaxFlips
  /\ faults \in 0..MaxFaults /\ stray \in BOOLEAN
  /\ lost \in [Threads -> Nat] /\ \A w \in Threads : lost[w] <= faults

(* What a step may do to them.                                             *)
Lose(w) == Fails /\ lost' = [lost EXCEPT ![w] = @ + 1]
CountMove ==
  /\ arrivals' = arrivals \/ arrivals' = arrivals + 1
  /\ sent' = sent \/ sent' = sent + Chunk
  /\ flips' = flips \/ (flips < MaxFlips /\ flips' = flips + 1)
  /\ stray' = stray \/ stray' = TRUE
  /\ \/ lost' = lost /\ (Works \/ Fails)
     \/ \E w \in Threads : Lose(w)

(* A step of drive_machine makes one call that may fail, or none.          *)
LEMMA DriveCounts ==
  ASSUME NEW w, drive_machine(w)
  PROVE  (Works \/ Fails) /\ UNCHANGED <<arrivals, sent, flips, stray, lost>>
<1>1. \A f, ev, s : UpdateEvent(w, f, ev, s) => Works \/ Fails
  BY Zenon DEF UpdateEvent
<1>2. \A f : conn_new_cmd(w, f) => Works \/ Fails
  BY <1>1, Zenon DEF conn_new_cmd, Yield
<1>3. \A f : conn_waiting(w, f) => Works \/ Fails
  BY <1>1, Zenon DEF conn_waiting
<1>4. \A f : conn_read(w, f) \/ conn_parse_cmd(w, f) \/ conn_closing(w, f) => Works \/ Fails
  BY Zenon DEF conn_read, conn_parse_cmd, conn_closing, GoOn
<1> QED
  BY <1>2, <1>3, <1>4, Zenon DEF drive_machine, lockVars, chanVars, clientVars

(* The counters are zero at first.                                         *)
LEMMA CountsInit == Init => CountsInv
<1> SUFFICES ASSUME Init PROVE CountsInv
  BY Zenon
<1>1. MaxFlips \in Nat /\ MaxFaults \in Nat
  BY BoundsAssumption, Zenon
<1>2. arrivals = 0 /\ sent = 0 /\ flips = 0 /\ faults = 0 /\ lost = [w \in Threads |-> 0]
  BY Zenon DEF Init
<1>3. stray \in BOOLEAN
  BY Zenon DEF Init
<1>4. lost \in [Threads -> Nat] /\ \A w \in Threads : lost[w] <= faults
  BY <1>2
<1>5. arrivals \in Nat /\ sent \in Nat /\ flips \in 0..MaxFlips /\ faults \in 0..MaxFaults
  BY <1>1, <1>2
<1> QED
  BY <1>3, <1>4, <1>5, Zenon DEF CountsInv

(* Every step keeps the counters within their bounds, and counts a lost    *)
(* byte as a fault.                                                        *)
LEMMA CountsStep == Types /\ CountsInv /\ [Next]_vars => CountsInv'
<1> SUFFICES ASSUME Types, CountsInv, [Next]_vars PROVE CountsInv'
  BY Zenon
<1> USE DEF lockVars, chanVars, clientVars, faultVars
<1>1. Threads' = Threads
  BY SameThreads, Zenon
<1>2. CountMove
  <2>1. CASE setup_thread \/ create_worker \/ thread_init_returns \/ EndFlip \/ StartFlip
    BY <2>1, Zenon DEF CountMove, setup_thread, create_worker, thread_init_returns, EndFlip,
         StartFlip, Works
  <2>2. CASE dispatch_conn_new \/ conn_listening
    BY <2>2, Zenon DEF CountMove, dispatch_conn_new, conn_listening, Works
  <2>3. CASE write_notify
    <3>1. main.tid \in Threads
      BY <2>3, Zenon DEF write_notify, Types
    <3> QED
      BY <2>3, <3>1, Zenon DEF CountMove, Lose, write_notify
  <2>4. CASE \E f \in Fds : ClientSends(f) \/ ClientCloses(f)
    BY <2>4, Zenon DEF CountMove, ClientSends, ClientCloses, Works
  <2>5. ASSUME NEW w \in Threads, WorkerStep(w) PROVE CountMove
    <3>1. CASE drive_machine(w)
      BY <3>1, DriveCounts, Zenon DEF CountMove
    <3>2. CASE read_notify(w)
      BY <3>2, Zenon DEF CountMove, read_notify
    <3>3. CASE worker_libevent(w) \/ event_base_loop(w) \/ \E f \in Fds : event_handler(w, f)
      BY <3>3, Zenon DEF CountMove, worker_libevent, event_base_loop, event_handler, Works
    <3>4. CASE thread_libevent_process(w)
      BY <3>4, Zenon DEF CountMove, thread_libevent_process, TakeConnection
    <3> QED
      BY <2>5, <3>1, <3>2, <3>3, <3>4, ZenonT(30) DEF WorkerStep
  <2>6. CASE UNCHANGED vars
    BY <2>6, Zenon DEF CountMove, vars, Works
  <2> QED
    BY <2>1, <2>2, <2>3, <2>4, <2>5, <2>6, ZenonT(30) DEF Next, MainStep, ClientStep
<1>3. stray' \in BOOLEAN
  BY <1>2, Zenon DEF CountMove, CountsInv
<1>4. MaxFlips \in Nat /\ MaxFaults \in Nat /\ Chunk \in Nat
  BY BoundsAssumption, LengthsAssumption, Zenon
<1>5. arrivals' \in Nat /\ sent' \in Nat /\ flips' \in 0..MaxFlips
  <2>1. arrivals \in Nat /\ sent \in Nat /\ flips \in 0..MaxFlips
    BY Zenon DEF CountsInv
  <2> QED
    BY <1>2, <1>4, <2>1, SMTT(30) DEF CountMove
<1>6. /\ faults \in 0..MaxFaults /\ lost \in [Threads -> Nat]
      /\ \A w \in Threads : lost[w] <= faults
  BY Zenon DEF CountsInv
<1>7. /\ faults' \in 0..MaxFaults /\ lost' \in [Threads -> Nat]
      /\ \A w \in Threads : lost'[w] <= faults'
  <2>1. CASE lost' = lost /\ (Works \/ Fails)
    BY <1>4, <1>6, <2>1, SMTT(30) DEF Works, Fails
  <2>2. CASE \E w \in Threads : Lose(w)
    BY <1>4, <1>6, <2>2 DEF Lose, Fails
  <2> QED
    BY <1>2, <2>1, <2>2, Zenon DEF CountMove
<1> QED
  BY <1>1, <1>3, <1>5, <1>7, ZenonT(30) DEF CountsInv

(* Every variable has its type (memcached's threads and what they share),  *)
(* for every number of workers and descriptors.                            *)
THEOREM ThreadsTypes == Spec => []TypeOK
<1>1. BarrierInv /\ HandInv /\ CountsInv => TypeOK
  <2> SUFFICES ASSUME Types, ConnTypes, CountsInv PROVE TypeOK
    BY Zenon DEF BarrierInv, HandInv
  <2>1. lost \in [Threads -> 0..MaxFaults]
    BY BoundsAssumption DEF CountsInv
  <2> QED
    BY <2>1, Zenon DEF Types, WorkerType, ConnTypes, ConnType, SockType, CountsInv, TypeOK
<1>2. BarrierInv => Types
  BY Zenon DEF BarrierInv
<1> QED
  BY <1>1, <1>2, Hands, CountsInit, CountsStep, PTL DEF Spec

-----------------------------------------------------------------------------
(* The bytes in a pipe, counted.                                           *)
LEMMA CountType ==
  ASSUME NEW S, NEW s \in Seq(S), NEW y
  PROVE  /\ IsFiniteSet({i \in DOMAIN s : s[i] = y}) /\ Count(s, y) \in Nat
<1>1. DOMAIN s = 1..Len(s) /\ Len(s) \in Nat
  BY Entries, Zenon
<1>2. IsFiniteSet(1..Len(s))
  BY <1>1, FS_Interval
<1>3. {i \in DOMAIN s : s[i] = y} \in SUBSET (1..Len(s))
  BY <1>1, Zenon
<1> QED
  BY <1>2, <1>3, FS_Subset, FS_CardinalityType, Zenon DEF Count

(* A write adds its byte.                                                  *)
LEMMA CountAppend ==
  ASSUME NEW S, NEW s \in Seq(S), NEW x \in S, NEW y
  PROVE  Count(Append(s, x), y) = IF x = y THEN Count(s, y) + 1 ELSE Count(s, y)
<1> DEFINE At(q) == {i \in DOMAIN q : q[i] = y}
           n == Len(s)
<1>1. /\ DOMAIN s = 1..n /\ n \in Nat
      /\ DOMAIN Append(s, x) = 1..(n + 1)
      /\ \A i \in 1..n : Append(s, x)[i] = s[i]
      /\ Append(s, x)[n + 1] = x
  OBVIOUS
<1> HIDE DEF n
<1>2. /\ x = y => At(Append(s, x)) = At(s) \cup {n + 1}
      /\ x # y => At(Append(s, x)) = At(s)
      /\ n + 1 \notin At(s)
  BY <1>1
<1>3. IsFiniteSet(At(s))
  BY CountType, Zenon
<1> QED
  BY <1>2, <1>3, FS_AddElement, Zenon DEF Count

(* A read takes the first one.                                             *)
LEMMA CountTail ==
  ASSUME NEW S, NEW s \in Seq(S), s # <<>>, NEW y
  PROVE  Count(s, y) = IF Head(s) = y THEN Count(Tail(s), y) + 1 ELSE Count(Tail(s), y)
<1> DEFINE At(q) == {i \in DOMAIN q : q[i] = y}
           n == Len(s)
           R == At(s) \ {1}
           g == [i \in At(Tail(s)) |-> i + 1]
<1>1. /\ DOMAIN s = 1..n /\ n \in Nat \ {0} /\ Tail(s) \in Seq(S)
      /\ DOMAIN Tail(s) = 1..(n - 1)
      /\ \A i \in 1..(n - 1) : Tail(s)[i] = s[i + 1]
      /\ Head(s) = s[1]
  OBVIOUS
<1> HIDE DEF n
<1>2. g \in [At(Tail(s)) -> R] /\ \A i, j \in At(Tail(s)) : g[i] = g[j] => i = j
  BY <1>1
<1>3. ASSUME NEW t \in R PROVE \E i \in At(Tail(s)) : g[i] = t
  <2>1. t - 1 \in At(Tail(s)) /\ (t - 1) + 1 = t
    BY <1>1
  <2> QED
    BY <2>1, Zenon
<1>4. ExistsBijection(At(Tail(s)), R)
  <2> HIDE DEF g, R, At
  <2>1. g \in Bijection(At(Tail(s)), R)
    BY <1>2, <1>3, Zenon DEF Bijection, Injection, Surjection, IsInjective
  <2> QED
    BY <2>1, Zenon DEF ExistsBijection
<1>5. IsFiniteSet(At(Tail(s))) /\ IsFiniteSet(At(s)) /\ Cardinality(At(s)) \in Nat
  BY <1>1, CountType, ZenonT(30) DEF Count
<1>6. Cardinality(R) = Cardinality(At(Tail(s)))
  BY <1>4, <1>5, FS_Bijection, Zenon
<1>7. Cardinality(R) = IF 1 \in At(s) THEN Cardinality(At(s)) - 1 ELSE Cardinality(At(s))
  BY <1>5, FS_RemoveElement, Zenon
<1>8. 1 \in At(s) <=> Head(s) = y
  BY <1>1
<1>9. Count(s, y) = Cardinality(At(s)) /\ Count(Tail(s), y) = Cardinality(At(Tail(s)))
  BY Zenon DEF Count
<1> HIDE DEF At, R
<1> QED
  BY <1>5, <1>6, <1>7, <1>8, <1>9, SMTT(30)

(* The notices of worker w: in the pipe, in buf[0], about to be written    *)
(* and lost.                                                               *)
InPipe(w) == Count(pipe[w], "c")
Read(w) == One(worker[w].buf = "c")
Due(w) == One(main.pc = "notify" /\ main.tid = w)
Notices(w) == InPipe(w) + Read(w) + Due(w) + lost[w]
NotifiedOne(w) == Len(queue[w]) <= Notices(w)

NoticeNumbers ==
  \A w \in Threads : /\ InPipe(w) \in Nat /\ lost[w] \in Nat
                     /\ Read(w) \in {0, 1} /\ Due(w) \in {0, 1}
                     /\ Notices(w) \in Nat /\ Len(queue[w]) \in Nat
(* These are numbers, as the pipes hold finitely many bytes.               *)
LEMMA NoticeTypes == Types /\ CountsInv => NoticeNumbers
<1> SUFFICES ASSUME Types, CountsInv, NEW w \in Threads
             PROVE  /\ InPipe(w) \in Nat /\ lost[w] \in Nat
                    /\ Read(w) \in {0, 1} /\ Due(w) \in {0, 1}
                    /\ Notices(w) \in Nat /\ Len(queue[w]) \in Nat
  BY Zenon DEF NoticeNumbers
<1>1. queue[w] \in Seq(Fds) /\ pipe[w] \in Seq(Bytes)
  BY Zenon DEF Types
<1>2. InPipe(w) \in Nat
  BY <1>1, CountType, Zenon DEF InPipe
<1>3. lost[w] \in Nat
  BY Zenon DEF CountsInv
<1>4. Read(w) \in {0, 1} /\ Due(w) \in {0, 1}
  BY Zenon DEF Read, Due, One
<1>5. Notices(w) \in Nat
  BY <1>2, <1>3, <1>4 DEF Notices
<1> QED
  BY <1>1, <1>2, <1>3, <1>4, <1>5, SMTT(30)

(* A worker keeps its notices while its queue does not grow.               *)
LEMMA NotifiedKeep ==
  ASSUME NoticeNumbers, NoticeNumbers', Threads' = Threads, NEW w \in Threads,
         NotifiedOne(w), Len(queue'[w]) <= Len(queue[w]), Notices(w)' >= Notices(w)
  PROVE  NotifiedOne(w)'
<1>1. Len(queue[w]) \in Nat /\ Notices(w) \in Nat
  BY Zenon DEF NoticeNumbers
<1>2. Len(queue'[w]) \in Nat /\ Notices(w)' \in Nat
  BY Zenon DEF NoticeNumbers
<1> QED
  BY <1>1, <1>2 DEF NotifiedOne

(* The notices stay when nothing about them changes, or only a byte is     *)
(* read by mistake.                                                        *)
LEMMA NoticesSame ==
  ASSUME NoticeNumbers, NoticeNumbers', Threads' = Threads, NEW w \in Threads,
         pipe'[w] = pipe[w], lost'[w] = lost[w], Due(w)' = Due(w),
         worker[w].buf = "c" => worker'[w].buf = "c"
  PROVE  Notices(w)' >= Notices(w)
<1>1. InPipe(w)' = InPipe(w)
  BY Zenon DEF InPipe
<1>2. Read(w)' >= Read(w)
  BY DEF Read, One
<1>3. InPipe(w) \in Nat /\ lost[w] \in Nat /\ Read(w) \in {0, 1} /\ Due(w) \in {0, 1}
  BY Zenon DEF NoticeNumbers
<1>4. Read(w)' \in {0, 1}
  BY Zenon DEF NoticeNumbers
<1> QED
  BY <1>1, <1>2, <1>3, <1>4, SMTT(30) DEF Notices

(* The main thread pushes an item before it writes the byte, and no flip   *)
(* takes a byte away.                                                      *)
LEMMA NotifiedOthers ==
  ASSUME Types, CountsInv, NoticeNumbers, NoticeNumbers', Threads' = Threads,
         MainStep \/ ClientStep \/ StartFlip \/ EndFlip,
         NEW w \in Threads, NotifiedOne(w)
  PROVE  NotifiedOne(w)'
<1>1. /\ main \in [pc : MainLabels, sfd : Fds \cup {NoFd}, tid : Threads \cup {NoThread}]
      /\ queue \in [Threads -> Seq(Fds)] /\ pipe \in [Threads -> Seq(Bytes)]
      /\ worker'[w].buf = worker[w].buf /\ lost \in [Threads -> Nat]
  BY OthersEffect, Zenon DEF Types, CountsInv
<1>2. /\ InPipe(w) \in Nat /\ lost[w] \in Nat /\ Notices(w) \in Nat /\ Len(queue[w]) \in Nat
      /\ Read(w) \in {0, 1} /\ Due(w) \in {0, 1}
  BY Zenon DEF NoticeNumbers
<1>3. Read(w)' = Read(w) /\ (pipe'[w] = pipe[w] => InPipe(w)' = InPipe(w))
  BY <1>1, Zenon DEF Read, InPipe
<1>4. ASSUME UNCHANGED <<queue, pipe, lost>>, Due(w)' = Due(w) PROVE NotifiedOne(w)'
  <2>1. Len(queue'[w]) <= Len(queue[w]) /\ pipe'[w] = pipe[w] /\ lost'[w] = lost[w]
    BY <1>2, <1>4
  <2> QED
    BY <1>1, <1>4, <2>1, NoticesSame, NotifiedKeep, Zenon
<1>5. CASE setup_thread \/ create_worker \/ thread_init_returns \/ EndFlip \/ conn_listening
           \/ \E f \in Fds : ClientSends(f) \/ ClientCloses(f)
  <2>1. UNCHANGED <<queue, pipe, lost>>
    BY <1>5, ZenonT(30) DEF setup_thread, create_worker, thread_init_returns, EndFlip,
       conn_listening, ClientSends, ClientCloses, chanVars
  <2>2. \/ UNCHANGED main
        \/ /\ main.pc \in {"setup", "create", "wait", "serve"}
           /\ main'.pc \in {"create", "wait", "serve", "exited", "dispatch"}
    BY <1>1, <1>5, ZenonT(30) DEF setup_thread, create_worker, thread_init_returns, EndFlip,
       conn_listening, ClientSends, ClientCloses, mainVars, exit
  <2>3. Due(w)' = Due(w)
    BY <2>2, Zenon DEF Due
  <2> QED
    BY <1>4, <2>1, <2>3, Zenon
<1>6. CASE dispatch_conn_new
  <2>1. main.pc = "dispatch" /\ UNCHANGED <<pipe, lost>>
    BY <1>6, Zenon DEF dispatch_conn_new
  <2>2. Due(w) = 0
    BY <2>1, Zenon DEF Due, One
  <2>3. CASE main' = [main EXCEPT !.pc = "serve", !.sfd = NoFd] /\ UNCHANGED queue
    <3>1. main'.pc = "serve"
      BY <1>1, <2>3, Zenon
    <3>2. Due(w)' = 0
      BY <3>1, Zenon DEF Due, One
    <3> QED
      BY <1>4, <2>1, <2>2, <2>3, <3>2, Zenon
  <2>4. CASE /\ queue' = [queue EXCEPT ![NextThread] = Append(@, main.sfd)]
             /\ main' = [pc |-> "notify", sfd |-> NoFd, tid |-> NextThread]
    <3>1. Due(w)' = IF w = NextThread THEN 1 ELSE 0
      BY <2>4, Zenon DEF Due, One
    <3>2. Len(queue'[w]) = IF w = NextThread THEN Len(queue[w]) + 1 ELSE Len(queue[w])
      BY <1>1, <2>4, SMTT(30)
    <3>3. Notices(w)' = IF w = NextThread THEN Notices(w) + 1 ELSE Notices(w)
      BY <1>2, <1>3, <2>1, <2>2, <3>1, SMTT(30) DEF Notices
    <3> QED
      BY <1>2, <3>2, <3>3, SMTT(30) DEF NotifiedOne
  <2> QED
    BY <1>6, <2>3, <2>4, Zenon DEF dispatch_conn_new
<1>7. CASE write_notify
  <2>1. main.pc = "notify" /\ main'.pc = "serve" /\ UNCHANGED queue
    BY <1>1, <1>7, Zenon DEF write_notify
  <2>2. Due(w) = (IF main.tid = w THEN 1 ELSE 0) /\ Due(w)' = 0
    BY <2>1, Zenon DEF Due, One
  <2>3. CASE main.tid # w
    <3>1. pipe'[w] = pipe[w] /\ lost'[w] = lost[w]
      BY <1>1, <1>7, <2>3, Zenon DEF write_notify
    <3>2. Len(queue'[w]) <= Len(queue[w])
      BY <1>2, <2>1, SMTT(30)
    <3> QED
      <4>1. Due(w)' = Due(w)
        BY <2>2, <2>3, Zenon
      <4>2. Notices(w)' >= Notices(w)
        BY <1>1, <3>1, <4>1, NoticesSame, ZenonT(30)
      <4> QED
        BY <3>2, <4>2, NotifiedKeep, Zenon
  <2>4. CASE main.tid = w
    <3>1. \/ pipe'[w] = Append(pipe[w], "c") /\ lost'[w] = lost[w]
          \/ pipe'[w] = pipe[w] /\ lost' = [lost EXCEPT ![w] = @ + 1]
      BY <1>1, <1>7, <2>4, ZenonT(60) DEF write_notify
    <3>2. CASE pipe'[w] = Append(pipe[w], "c") /\ lost'[w] = lost[w]
      <4>1. pipe[w] \in Seq(Bytes) /\ "c" \in Bytes
        BY <1>1, Zenon DEF Bytes
      <4>2. InPipe(w)' = InPipe(w) + 1
        BY <3>2, <4>1, CountAppend, SMTT(30) DEF InPipe
      <4> QED
        BY <1>2, <1>3, <2>1, <2>2, <2>4, <3>2, <4>2, SMTT(30) DEF Notices, NotifiedOne
    <3>3. CASE pipe'[w] = pipe[w] /\ lost' = [lost EXCEPT ![w] = @ + 1]
      <4>1. lost'[w] = lost[w] + 1
        BY <1>1, <3>3, Zenon
      <4> QED
        BY <1>2, <1>3, <2>1, <2>2, <2>4, <3>3, <4>1, SMTT(30) DEF Notices, NotifiedOne
    <3> QED
      BY <3>1, <3>2, <3>3, Zenon
  <2> QED
    BY <2>3, <2>4, Zenon
<1>8. CASE StartFlip
  <2>1. UNCHANGED <<queue, main, lost>>
    BY <1>8, ZenonT(30) DEF StartFlip, mainVars
  <2>2. PICK b \in {"l", "g"} : pipe'[w] = Append(pipe[w], b)
    BY <1>8, Zenon DEF StartFlip
  <2>3. pipe[w] \in Seq(Bytes) /\ b \in Bytes /\ b # "c"
    BY <1>1, Zenon DEF Bytes
  <2>4. InPipe(w)' = InPipe(w)
    BY <2>2, <2>3, CountAppend, SMTT(30) DEF InPipe
  <2>5. Due(w)' = Due(w)
    BY <2>1, Zenon DEF Due
  <2> QED
    BY <1>2, <1>3, <2>1, <2>4, <2>5, ZenonT(60) DEF Notices, NotifiedOne
<1> QED
  BY <1>5, <1>6, <1>7, <1>8, ZenonT(30) DEF MainStep, ClientStep

(* A worker reads a byte before it takes an item, and takes one at most.   *)
LEMMA NotifiedWorker ==
  ASSUME Types, PipeInv, NoticeNumbers, NoticeNumbers', Threads' = Threads,
         NEW u \in Threads, WorkerStep(u), NEW w \in Threads, NotifiedOne(w)
  PROVE  NotifiedOne(w)'
<1>1. /\ queue \in [Threads -> Seq(Fds)] /\ pipe \in [Threads -> Seq(Bytes)]
      /\ worker \in [Threads -> WorkerType] /\ worker[u] \in WorkerType
      /\ \A v \in Threads : v # u => worker'[v] = worker[v]
  BY WorkerEffect, Zenon DEF Types
<1>2. /\ InPipe(w) \in Nat /\ lost[w] \in Nat /\ Notices(w) \in Nat /\ Len(queue[w]) \in Nat
      /\ Read(w) \in {0, 1} /\ Due(w) \in {0, 1}
  BY Zenon DEF NoticeNumbers
<1>3. UNCHANGED <<main, lost>>
  BY DriveEffect, DriveCounts, ZenonT(30) DEF WorkerStep, worker_libevent, event_base_loop,
     read_notify, event_handler, thread_libevent_process, mainVars, chanVars
<1>4. Due(w)' = Due(w) /\ lost'[w] = lost[w]
  BY <1>3, Zenon DEF Due
<1>5. ASSUME Len(queue'[w]) <= Len(queue[w]), pipe'[w] = pipe[w],
             worker[w].buf = "c" => worker'[w].buf = "c"
      PROVE  NotifiedOne(w)'
  <2>1. Notices(w)' >= Notices(w)
    BY <1>4, <1>5, NoticesSame, ZenonT(30)
  <2> QED
    BY <1>5, <2>1, NotifiedKeep, Zenon
<1>6. CASE worker_libevent(u) \/ event_base_loop(u) \/ \E f \in Fds : event_handler(u, f)
  <2>1. UNCHANGED <<queue, pipe>>
    BY <1>6, Zenon DEF worker_libevent, event_base_loop, event_handler, chanVars
  <2>2. worker'[u].buf = worker[u].buf
    <3>1. CASE worker_libevent(u) \/ event_base_loop(u)
      BY <1>1, <3>1, SMTT(30) DEF worker_libevent, event_base_loop, WorkerType
    <3>2. ASSUME NEW f \in Fds, event_handler(u, f) PROVE worker'[u].buf = worker[u].buf
      BY <1>1, <3>2, Zenon DEF event_handler, WorkerType
    <3> QED
      BY <1>6, <3>1, <3>2, ZenonT(30)
  <2>3. worker'[w].buf = worker[w].buf
    BY <1>1, <2>2, ZenonT(30)
  <2> QED
    BY <1>2, <1>5, <2>1, <2>3, SMTT(30)
<1>7. CASE drive_machine(u)
  <2>1. UNCHANGED <<queue, pipe>> /\ worker[u].pc = "drive"
    BY <1>7, DriveEffect, ZenonT(30)
  <2>2. worker[u].buf # "c"
    BY <2>1, Zenon DEF PipeInv, NoByte
  <2>3. worker[w].buf = "c" => worker'[w].buf = "c"
    BY <1>1, <2>2, Zenon
  <2> QED
    BY <1>2, <1>5, <2>1, <2>3, SMTT(30)
<1>8. CASE read_notify(u)
  <2>1. UNCHANGED queue /\ worker[u].pc = "loop" /\ Pipe \in worker[u].active
    BY <1>8, ZenonT(30) DEF read_notify, Idle
  <2>2. worker[u].buf = NoByte /\ pipe[u] # <<>> /\ pipe[u] \in Seq(Bytes)
    BY <1>1, <2>1, Zenon DEF PipeInv
  <2>3. Len(queue'[w]) = Len(queue[w])
    BY <2>1, Zenon
  <2>4. CASE pipe' = pipe
    <3>1. worker[w].buf = "c" => worker'[w].buf = "c"
      BY <1>1, <2>2, Zenon DEF NoByte
    <3> QED
      BY <1>2, <1>5, <2>3, <2>4, <3>1, SMTT(30)
  <2>5. CASE w # u
    <3>1. pipe'[w] = pipe[w]
      BY <1>1, <1>8, <2>5, Zenon DEF read_notify, ReadOne
    <3> QED
      BY <1>1, <1>2, <1>5, <2>3, <2>5, <3>1, SMTT(30)
  <2>6. CASE /\ w = u /\ pipe' = ReadOne(u)
             /\ worker' = [worker EXCEPT ![u].pc = "switch", ![u].active = @ \ {Pipe},
                                         ![u].buf = Head(pipe[u])]
    <3>1. pipe'[w] = Tail(pipe[w]) /\ worker'[w].buf = Head(pipe[w])
      BY <1>1, <2>6, Zenon DEF ReadOne, WorkerType
    <3>2. Read(w) = 0
      BY <2>2, <2>6, Zenon DEF Read, One, NoByte
    <3>3. Read(w)' = IF Head(pipe[w]) = "c" THEN 1 ELSE 0
      BY <3>1, Zenon DEF Read, One
    <3>4. /\ InPipe(w) = IF Head(pipe[w]) = "c" THEN Count(Tail(pipe[w]), "c") + 1
                                                ELSE Count(Tail(pipe[w]), "c")
      BY <2>2, <2>6, CountTail, ZenonT(30) DEF InPipe
    <3>5. InPipe(w)' = Count(Tail(pipe[w]), "c")
      BY <3>1, Zenon DEF InPipe
    <3>6. InPipe(w)' \in Nat
      BY Zenon DEF NoticeNumbers
    <3>7. InPipe(w)' + Read(w)' = InPipe(w) + Read(w)
      BY <3>2, <3>3, <3>4, <3>5, <3>6, SMTT(30)
    <3> QED
      BY <1>2, <1>4, <2>3, <3>7, Zenon DEF Notices, NotifiedOne
  <2> QED
    BY <1>8, <2>4, <2>5, <2>6, ZenonT(30) DEF read_notify
<1>9. CASE thread_libevent_process(u)
  <2>1. UNCHANGED pipe
    BY <1>9, ZenonT(30) DEF thread_libevent_process
  <2>2. CASE w # u
    <3>1. queue'[w] = queue[w]
      BY <1>1, <1>9, <2>2, ZenonT(30) DEF thread_libevent_process, TakeConnection
    <3> QED
      BY <1>1, <1>2, <1>5, <2>1, <2>2, <3>1, SMTT(30)
  <2>3. CASE w = u /\ worker[u].buf # "c"
    <3>1. UNCHANGED queue
      BY <1>9, <2>3, Zenon DEF thread_libevent_process
    <3> QED
      BY <1>2, <1>5, <2>1, <2>3, <3>1, SMTT(30)
  <2>4. CASE w = u /\ worker[u].buf = "c"
    <3>1. TakeConnection(u) /\ BackToLoop(u)
      BY <1>9, <2>4, Zenon DEF thread_libevent_process, NoByte
    <3>2. worker'[w].buf = NoByte
      BY <1>1, <2>4, <3>1, Zenon DEF BackToLoop, WorkerType
    <3>3. Read(w) = 1 /\ Read(w)' = 0
      BY <2>4, <3>2, Zenon DEF Read, One, NoByte
    <3>4. InPipe(w)' = InPipe(w)
      BY <2>1, Zenon DEF InPipe
    <3>5. Notices(w)' = Notices(w) - 1 /\ Notices(w)' \in Nat
      <4>1. Notices(w)' = Notices(w) - 1
        BY <1>2, <1>4, <3>3, <3>4, SMTT(30) DEF Notices
      <4> QED
        BY <4>1, Zenon DEF NoticeNumbers
    <3>6. CASE queue[w] = <<>> /\ queue' = queue
      BY <3>5, <3>6 DEF NotifiedOne
    <3>7. CASE queue[w] # <<>> /\ queue' = [queue EXCEPT ![w] = Tail(@)]
      <4>1. Len(queue'[w]) = Len(queue[w]) - 1
        BY <1>1, <3>7
      <4> QED
        BY <1>2, <3>5, <4>1 DEF NotifiedOne
    <3> QED
      BY <2>4, <3>1, <3>6, <3>7, ZenonT(30) DEF TakeConnection
  <2> QED
    BY <2>2, <2>3, <2>4, Zenon
<1> QED
  BY <1>6, <1>7, <1>8, <1>9, ZenonT(30) DEF WorkerStep

(* For every item in the queue of a worker a byte is in its pipe or on its *)
(* way from the main thread to cq_pop, or its write has failed, for every  *)
(* number of workers and connections and whatever flips come in between:   *)
(* no queued connection is overlooked (dispatch_conn_new,                  *)
(* thread_libevent_process).                                               *)
THEOREM NotifiedTheorem == Spec => []ItemsNotified
<1> DEFINE Safe == Types /\ PipeInv /\ CountsInv
           AllNotified == \A w \in Threads : NotifiedOne(w)
<1>1. AllNotified => ItemsNotified
  BY Zenon DEF NotifiedOne, Notices, InPipe, Read, Due, ItemsNotified
<1>2. Init => AllNotified
  <2> SUFFICES ASSUME Init, NEW w \in Threads PROVE NotifiedOne(w)
    BY Zenon
  <2>1. NoticeNumbers
    BY TypesInit, CountsInit, NoticeTypes, Zenon
  <2>2. Len(queue[w]) = 0
    BY Zenon DEF Init
  <2> QED
    BY <2>1, <2>2 DEF NoticeNumbers, NotifiedOne
<1>3. Safe /\ Safe' /\ NoticeNumbers /\ NoticeNumbers' /\ AllNotified /\ [Next]_vars => AllNotified'
  <2> SUFFICES ASSUME Types, PipeInv, CountsInv, NoticeNumbers, NoticeNumbers', AllNotified,
                      [Next]_vars
               PROVE  AllNotified'
    BY Zenon
  <2>1. Threads' = Threads
    BY SameThreads, Zenon
  <2>2. SUFFICES ASSUME NEW w \in Threads PROVE NotifiedOne(w)'
    BY <2>1, Zenon
  <2>3. NotifiedOne(w)
    BY Zenon
  <2>4. CASE MainStep \/ ClientStep \/ StartFlip \/ EndFlip
    BY <2>1, <2>3, <2>4, NotifiedOthers, Zenon
  <2>5. ASSUME NEW u \in Threads, WorkerStep(u) PROVE NotifiedOne(w)'
    BY <2>1, <2>3, <2>5, NotifiedWorker, Zenon
  <2>6. CASE UNCHANGED vars
    <3>1. UNCHANGED <<main, worker, queue, pipe, lost>>
      BY <2>6, Zenon DEF vars, mainVars, chanVars
    <3> QED
      BY <2>3, <3>1, Zenon DEF NotifiedOne, Notices, InPipe, Read, Due
  <2> QED
    BY <2>4, <2>5, <2>6, ZenonT(30) DEF Next
<1>4. BarrierInv /\ CountsInv => Safe
  BY Zenon DEF BarrierInv
<1>5. Safe => Types /\ CountsInv
  BY Zenon
<1> HIDE DEF Safe, AllNotified
<1>6. Spec => [](BarrierInv /\ CountsInv)
  <2>1. BarrierInv => Types
    BY Zenon DEF BarrierInv
  <2> QED
    BY <2>1, BarrierInit, BarrierStep, CountsInit, CountsStep, PTL DEF Spec
<1> QED
  BY <1>1, <1>2, <1>3, <1>4, <1>5, <1>6, NoticeTypes, PTL DEF Spec
=============================================================================
