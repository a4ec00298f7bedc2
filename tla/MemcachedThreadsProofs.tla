----------------------- MODULE MemcachedThreadsProofs -----------------------
(***************************************************************************)
(* The registration barrier of memcached's threads, for every number of    *)
(* workers, connections, failures and flips of the lock type.              *)
(***************************************************************************)
EXTENDS MemcachedThreads, FiniteSetTheorems, TLAPS

WorkerType == [pc : {"none", "start", "loop", "switch", "drive"},
               active : SUBSET (Fds \cup {Pipe}), buf : Garbage,
               fd : Fds \cup {NoFd}, nreqs : Nat]

(* The types of what the barrier depends on.                               *)
Types ==
  /\ settings \in Settings
  /\ main \in [pc : MainLabels, sfd : Fds \cup {NoFd}, tid : Threads \cup {NoThread}]
  /\ main.pc = "dispatch" => main.sfd \in Fds
  /\ main.pc = "notify" => main.tid \in Threads
  /\ last_thread \in Threads \cup {NoThread}
  /\ init_count \in Nat /\ flips \in Nat
  /\ worker \in [Threads -> WorkerType]
  /\ item_lock_type \in [Threads -> {"unset", "granular", "global"}]
  /\ flip \in [waiting : BOOLEAN, byte : {"l", "g"}]
  /\ queue \in [Threads -> Seq(Fds)]
  /\ pipe \in [Threads -> Seq(Bytes)]
  /\ DOMAIN conn \subseteq Fds

-----------------------------------------------------------------------------
Starting == main.pc \in {"setup", "create", "wait"}
Reported == {w \in Threads : worker[w].pc = "loop"}

(* Until thread_init returns nothing but the registration goes on, and     *)
(* init_count counts the workers that have entered their loops.            *)
StartInv ==
  /\ Starting => /\ flips = 0 /\ DOMAIN conn = {}
                 /\ init_count = Cardinality(Reported)
                 /\ \A w \in Threads : /\ pipe[w] = <<>> /\ worker[w].active = {}
                                       /\ worker[w].pc \in {"none", "start", "loop"}
  /\ Serving => \A w \in Threads : worker[w].pc \notin {"none", "start"}
  /\ \A w \in Threads :
       worker[w].pc \notin {"none", "start"} => item_lock_type[w] # "unset"

(* What a flip makes of a worker: the byte is in its pipe, then in buf[0], *)
(* then acted upon.  All other bytes are notices of connections.           *)
Notice(b) == b \in {NoByte, "c"}
OnlyNotices(w) == \A i \in 1..Len(pipe[w]) : pipe[w][i] = "c"
Quiet(w) == OnlyNotices(w) /\ Notice(worker[w].buf)
ByteAt(w, i) ==
  /\ pipe[w][i] = flip.byte
  /\ \A j \in 1..Len(pipe[w]) : j # i => pipe[w][j] = "c"
Pending(w) == Notice(worker[w].buf) /\ \E i \in 1..Len(pipe[w]) : ByteAt(w, i)
InHand(w) == OnlyNotices(w) /\ worker[w].buf = flip.byte
Done(w) == Quiet(w) /\ item_lock_type[w] = LockType(flip.byte)
AllDone == {w \in Threads : Done(w)}

PipeInv ==
  \A w \in Threads : /\ worker[w].pc # "switch" => worker[w].buf = NoByte
                     /\ Pipe \in worker[w].active => pipe[w] # <<>>

(* During a flip init_count counts the workers that have flipped; nobody   *)
(* stops waiting before all have.                                          *)
FlipInv ==
  /\ flips = 0 => ~flip.waiting
  /\ ~stray /\ flips = 0 => \A w \in Threads : Quiet(w)
  /\ ~stray /\ flips > 0 =>
       /\ \A w \in Threads : Pending(w) \/ InHand(w) \/ Done(w)
       /\ init_count = Cardinality(AllDone)
       /\ ~flip.waiting => \A w \in Threads : Done(w)

BarrierInv == Types /\ StartInv /\ PipeInv /\ FlipInv

-----------------------------------------------------------------------------
(* There are as many workers as settings.num_threads says.                 *)
LEMMA ThreadCount ==
  ASSUME settings \in Settings
  PROVE  /\ settings.num_threads \in Nat \ {0}
         /\ IsFiniteSet(Threads)
         /\ Cardinality(Threads) = settings.num_threads
<1> DEFINE n == settings.num_threads
<1>1. n \in Nat \ {0}
  BY SettingsAssumption, Zenon
<1> HIDE DEF n
<1>2. 0 \in Int /\ n - 1 \in Int /\ ~(0 > n - 1) /\ (n - 1) - 0 + 1 = n
  BY <1>1
<1>3. IsFiniteSet(0..(n - 1)) /\ Cardinality(0..(n - 1)) = n
  BY <1>2, FS_Interval, Zenon
<1> QED
  BY <1>1, <1>3, Zenon DEF Threads, n

(* A set of workers that has as many members as there are workers is all   *)
(* of them.                                                                *)
LEMMA AllOfThem ==
  ASSUME settings \in Settings, NEW S, S \subseteq Threads,
         Cardinality(S) >= settings.num_threads
  PROVE  S = Threads
<1>1. IsFiniteSet(Threads) /\ Cardinality(Threads) = settings.num_threads
  BY ThreadCount, Zenon
<1>2. Cardinality(S) \in Nat /\ Cardinality(Threads) \in Nat /\ Cardinality(S) <= Cardinality(Threads)
  BY <1>1, FS_Subset, FS_CardinalityType, Zenon
<1>3. Cardinality(S) = Cardinality(Threads)
  BY <1>1, <1>2
<1> QED
  BY <1>1, <1>3, FS_Subset, Zenon

(* One more worker that has reported in counts for one.                    *)
LEMMA OneMore ==
  ASSUME settings \in Settings, NEW S, S \subseteq Threads, NEW w, w \notin S
  PROVE  Cardinality(S \cup {w}) = Cardinality(S) + 1
BY ThreadCount, FS_Subset, FS_AddElement, Zenon

DriveMoves(w) ==
  \/ UNCHANGED worker
  \/ BackToLoop(w)
  \/ worker[w].nreqs > 0 /\ worker' = [worker EXCEPT ![w].nreqs = @ - 1]

(* A step of drive_machine ends in the event loop or goes on, and makes no *)
(* conn.                                                                   *)
LEMMA DriveEffect ==
  ASSUME NEW w \in Threads, drive_machine(w)
  PROVE  /\ DriveMoves(w)
         /\ DOMAIN conn' \subseteq DOMAIN conn
         /\ worker[w].pc = "drive" /\ Running
         /\ UNCHANGED <<settings, main, last_thread, item_lock_type, flip, flips, init_count,
                        queue, pipe, stray>>
<1> DEFINE f == worker[w].fd
           Effect == DriveMoves(w) /\ DOMAIN conn' \subseteq DOMAIN conn
<1>1. \A s : SetState(f, s) => DOMAIN conn' = DOMAIN conn
  BY Zenon DEF SetState
<1>2. ASSUME NEW ev, NEW state, UpdateEvent(w, f, ev, state)
      PROVE  Effect
  BY <1>1, <1>2, Zenon DEF UpdateEvent, DriveMoves
<1>3. \/ conn_new_cmd(w, f) \/ conn_waiting(w, f) \/ conn_read(w, f)
      \/ conn_parse_cmd(w, f) \/ conn_closing(w, f)
  BY Zenon DEF drive_machine
<1>4. ASSUME conn_new_cmd(w, f) PROVE Effect
  <2>1. CASE Yield(w, f)
    BY <1>2, <2>1, Zenon DEF Yield, DriveMoves
  <2>2. CASE ~Yield(w, f)
    BY <1>1, <1>4, <2>2, Zenon DEF conn_new_cmd, DriveMoves
  <2> QED
    BY <2>1, <2>2, Zenon
<1>5. ASSUME conn_waiting(w, f) PROVE Effect
  BY <1>2, <1>5, Zenon DEF conn_waiting
<1>6. ASSUME conn_read(w, f) PROVE Effect
  BY <1>1, <1>6, Zenon DEF conn_read, DriveMoves
<1>7. ASSUME conn_parse_cmd(w, f) PROVE Effect
  BY <1>1, <1>7, Zenon DEF conn_parse_cmd, GoOn, DriveMoves
<1>8. ASSUME conn_closing(w, f) PROVE Effect
  BY <1>8, Zenon DEF conn_closing, Restrict, DriveMoves
<1>9. Effect
  BY <1>3, <1>4, <1>5, <1>6, <1>7, <1>8, Zenon
<1>10. /\ worker[w].pc = "drive" /\ Running
       /\ UNCHANGED <<settings, main, last_thread, item_lock_type, flip, flips, init_count,
                        queue, pipe, stray>>
  BY Zenon DEF drive_machine, mainVars, lockVars, chanVars
<1> QED
  BY <1>9, <1>10, Zenon

-----------------------------------------------------------------------------
(* Every action keeps the settings, and with them the set of workers.      *)
LEMMA SameThreads ==
  ASSUME [Next]_vars
  PROVE  settings' = settings /\ Threads' = Threads
<1>1. settings' = settings
  BY DriveEffect, ZenonT(60)
  DEF Next, vars, MainStep, ClientStep, WorkerStep, setup_thread, create_worker,
      thread_init_returns, dispatch_conn_new, write_notify, conn_listening, ClientSends,
      ClientCloses, StartFlip, EndFlip, worker_libevent, event_base_loop, read_notify,
      event_handler, thread_libevent_process
<1> QED
  BY <1>1, Zenon DEF Threads

(* The types hold at first.                                                *)
LEMMA TypesInit == Init => Types
<1> SUFFICES ASSUME Init PROVE Types
  BY Zenon
<1>1. \A w \in Threads : worker[w] \in WorkerType
  BY Zenon DEF Init, WorkerType, Garbage
<1>2. worker \in [Threads -> WorkerType]
  BY <1>1, Zenon DEF Init
<1>3. \A S : <<>> \in Seq(S)
  OBVIOUS
<1>4. DOMAIN conn \subseteq Fds
  BY DEF Init
<1>5. /\ queue \in [Threads -> Seq(Fds)] /\ pipe \in [Threads -> Seq(Bytes)]
      /\ item_lock_type \in [Threads -> {"unset", "granular", "global"}]
  BY <1>3, Zenon DEF Init
<1>6. main \in [pc : MainLabels, sfd : Fds \cup {NoFd}, tid : Threads \cup {NoThread}]
  BY Zenon DEF Init, MainLabels
<1> QED
  BY <1>2, <1>4, <1>5, <1>6, Zenon DEF Init, Types

(* The main thread keeps the types.                                        *)
LEMMA TypesMain ==
  ASSUME Types, MainStep \/ conn_listening
  PROVE  Types'
<1> USE DEF mainVars, lockVars, chanVars, connVars, MainLabels
<1> DEFINE MainType == [pc : MainLabels, sfd : Fds \cup {NoFd}, tid : Threads \cup {NoThread}]
<1>1. settings' = settings /\ Threads' = Threads
  BY SameThreads, Zenon DEF Next, ClientStep
<1>2. CASE setup_thread
  BY <1>1, <1>2, ZenonT(60) DEF Types, setup_thread, exit
<1>3. CASE create_worker
  <2>1. (main' = main \/ \E l \in {"wait", "exited"} : main' = [main EXCEPT !.pc = l])
    BY <1>3, Zenon DEF create_worker, exit
  <2>2. worker' = worker \/ \E i : worker' = [worker EXCEPT ![i].pc = "start"]
    BY <1>3, Zenon DEF create_worker, exit
  <2>3. worker' \in [Threads -> WorkerType]
    <3>1. DOMAIN worker' = Threads /\ worker \in [Threads -> WorkerType]
      BY <2>2, Zenon DEF Types
    <3>2. ASSUME NEW w \in Threads
          PROVE  worker'[w] = worker[w] \/ worker'[w] = [worker[w] EXCEPT !.pc = "start"]
      BY <2>2, <3>1, Zenon
    <3>3. \A w \in Threads : worker'[w] \in WorkerType
      BY <3>1, <3>2 DEF WorkerType
    <3>4. worker' = [w \in Threads |-> worker'[w]]
      BY <2>2, <3>1, Zenon
    <3> QED
      BY <3>3, <3>4, Zenon
  <2>4. UNCHANGED <<last_thread, init_count, flips, item_lock_type, flip, queue, pipe, conn>>
    BY <1>3, Zenon DEF create_worker, exit
  <2> QED
    BY <1>1, <2>1, <2>3, <2>4 DEF Types
<1>4. CASE thread_init_returns
  BY <1>1, <1>4, ZenonT(60) DEF Types, thread_init_returns, exit
<1>5. CASE dispatch_conn_new
  <2>1. NextThread \in Threads
    <3>1. settings.num_threads \in Nat \ {0} /\ last_thread \in Int
      BY ThreadCount DEF Types, Threads, NoThread
    <3> QED
      BY <3>1 DEF NextThread, Threads
  <2>2. main.sfd \in Fds /\ queue \in [Threads -> Seq(Fds)]
    BY <1>5, Zenon DEF Types, dispatch_conn_new
  <2>3. queue' \in [Threads -> Seq(Fds)]
    <3>1. Append(queue[NextThread], main.sfd) \in Seq(Fds)
      BY <2>1, <2>2
    <3>2. queue' = queue \/ queue' = [queue EXCEPT ![NextThread] = Append(queue[NextThread], main.sfd)]
      BY <1>5, Zenon DEF dispatch_conn_new
    <3> QED
      BY <2>2, <3>1, <3>2, Zenon
  <2>4. /\ main' \in MainType /\ main'.pc # "dispatch"
        /\ main'.pc = "notify" => main'.tid \in Threads
        /\ last_thread' \in Threads \cup {NoThread}
    <3>1. CASE main' = [main EXCEPT !.pc = "serve", !.sfd = NoFd] /\ UNCHANGED last_thread
      BY <3>1, Zenon DEF Types
    <3>2. CASE /\ main' = [pc |-> "notify", sfd |-> NoFd, tid |-> NextThread]
               /\ last_thread' = NextThread
      BY <2>1, <3>2, Zenon
    <3> QED
      BY <1>5, <3>1, <3>2, Zenon DEF dispatch_conn_new
  <2>5. UNCHANGED <<worker, init_count, flips, item_lock_type, flip, pipe, conn>>
    BY <1>5, Zenon DEF dispatch_conn_new
  <2> QED
    BY <1>1, <2>3, <2>4, <2>5, Zenon DEF Types
<1>6. CASE write_notify
  <2>1. pipe' \in [Threads -> Seq(Bytes)]
    <3>1. main.tid \in Threads /\ pipe \in [Threads -> Seq(Bytes)] /\ "c" \in Bytes
      BY <1>6, Zenon DEF Types, write_notify, Bytes
    <3>2. Append(pipe[main.tid], "c") \in Seq(Bytes)
      BY <3>1
    <3>3. pipe' = pipe \/ pipe' = [pipe EXCEPT ![main.tid] = Append(pipe[main.tid], "c")]
      BY <1>6, Zenon DEF write_notify
    <3> QED
      BY <3>1, <3>2, <3>3, Zenon
  <2> QED
    BY <1>1, <1>6, <2>1, Zenon DEF Types, write_notify
<1>7. CASE conn_listening
  <2>1. main' = main \/ \E sfd \in Fds : main' = [main EXCEPT !.pc = "dispatch", !.sfd = sfd]
    BY <1>7, ZenonT(30) DEF conn_listening, FreeFds
  <2>2. UNCHANGED <<last_thread, worker, init_count, flips, item_lock_type, flip, queue, pipe, conn>>
    BY <1>7, Zenon DEF conn_listening
  <2> QED
    BY <1>1, <2>1, <2>2, ZenonT(30) DEF Types
<1> QED
  BY <1>2, <1>3, <1>4, <1>5, <1>6, <1>7, Zenon DEF MainStep

(* The client sockets and the flipping thread keep the types.              *)
LEMMA TypesOthers ==
  ASSUME Types, StartFlip \/ EndFlip \/ (\E f \in Fds : ClientSends(f) \/ ClientCloses(f))
  PROVE  Types'
<1> USE DEF mainVars, lockVars, chanVars
<1>1. settings' = settings /\ Threads' = Threads
  BY SameThreads, Zenon DEF Next, ClientStep
<1>2. CASE StartFlip
  <2>1. flip' \in [waiting : BOOLEAN, byte : {"l", "g"}] /\ flip'.byte \in Bytes
    BY <1>2, Zenon DEF StartFlip, Types, Bytes
  <2>2. \A w \in Threads : Append(pipe[w], flip'.byte) \in Seq(Bytes)
    BY <2>1 DEF Types
  <2>3. pipe' \in [Threads -> Seq(Bytes)]
    BY <1>2, <2>2, Zenon DEF StartFlip
  <2>4. flips' \in Nat /\ init_count' \in Nat
    BY <1>2 DEF StartFlip, Types
  <2>5. UNCHANGED <<main, last_thread, worker, item_lock_type, queue, conn>>
    BY <1>2, Zenon DEF StartFlip, connVars
  <2> QED
    BY <1>1, <2>1, <2>3, <2>4, <2>5, Zenon DEF Types
<1>3. CASE EndFlip
  BY <1>1, <1>3, Zenon DEF Types, EndFlip, connVars
<1>4. CASE \E f \in Fds : ClientSends(f) \/ ClientCloses(f)
  BY <1>1, <1>4 DEF Types, ClientSends, ClientCloses
<1> QED
  BY <1>2, <1>3, <1>4, Zenon

(* A step of worker w changes the state of this worker only.               *)
LEMMA WorkerEffect ==
  ASSUME Types, PipeInv, NEW w \in Threads, WorkerStep(w)
  PROVE  /\ worker' \in [Threads -> WorkerType]
         /\ \A v \in Threads : v # w => worker'[v] = worker[v]
<1> DEFINE r == worker[w]
           To(x) == worker' = [worker EXCEPT ![w] = x]
<1>1. worker \in [Threads -> WorkerType] /\ r \in WorkerType
  BY Zenon DEF Types
<1>2. \A x \in WorkerType :
        To(x) => /\ worker' \in [Threads -> WorkerType]
                 /\ \A v \in Threads : v # w => worker'[v] = worker[v]
  BY <1>1, Zenon
<1> HIDE DEF To
<1>3. SUFFICES \E x \in WorkerType : To(x)
  BY <1>2, Zenon
<1>4. ASSUME BackToLoop(w) PROVE \E x \in WorkerType : To(x)
  <2>1. To([r EXCEPT !.pc = "loop", !.buf = NoByte, !.fd = NoFd, !.nreqs = 0])
    BY <1>4, Zenon DEF BackToLoop, To
  <2>2. [r EXCEPT !.pc = "loop", !.buf = NoByte, !.fd = NoFd, !.nreqs = 0] \in WorkerType
    BY <1>1, Zenon DEF WorkerType, Garbage
  <2> QED
    BY <2>1, <2>2, Zenon
<1>5. CASE worker_libevent(w)
  <2>1. To([r EXCEPT !.pc = "loop"])
    BY <1>5, Zenon DEF worker_libevent, To
  <2>2. [r EXCEPT !.pc = "loop"] \in WorkerType
    BY <1>1, Zenon DEF WorkerType
  <2> QED
    BY <2>1, <2>2, Zenon
<1>6. CASE event_base_loop(w)
  <2>1. To([r EXCEPT !.active = ReadyEvents(w)])
    BY <1>6, Zenon DEF event_base_loop, To
  <2>2. ReadyEvents(w) \in SUBSET (Fds \cup {Pipe})
    BY Zenon DEF ReadyEvents, Types
  <2>3. [r EXCEPT !.active = ReadyEvents(w)] \in WorkerType
    BY <1>1, <2>2, Zenon DEF WorkerType
  <2> QED
    BY <2>1, <2>3, Zenon
<1>7. CASE read_notify(w)
  <2>1. Head(pipe[w]) \in Garbage
    <3>1. pipe[w] \in Seq(Bytes) /\ pipe[w] # <<>>
      BY <1>7, Zenon DEF read_notify, PipeInv, Types
    <3> QED
      BY <3>1 DEF Garbage
  <2>2. PICK b \in Garbage : To([r EXCEPT !.pc = "switch", !.active = @ \ {Pipe}, !.buf = b])
    BY <1>7, <2>1, ZenonT(60) DEF read_notify, To
  <2>3. [r EXCEPT !.pc = "switch", !.active = @ \ {Pipe}, !.buf = b] \in WorkerType
    BY <1>1, Zenon DEF WorkerType
  <2> QED
    BY <2>2, <2>3, Zenon
<1>8. CASE \E f \in Fds : event_handler(w, f)
  <2>1. PICK f \in Fds : event_handler(w, f)
    BY <1>8, Zenon
  <2>2. To([r EXCEPT !.pc = "drive", !.active = @ \ {f}, !.fd = f, !.nreqs = settings.reqs_per_event])
    BY <2>1, Zenon DEF event_handler, To
  <2>3. settings.reqs_per_event \in Nat
    BY SettingsAssumption, Zenon DEF Types
  <2>4. [r EXCEPT !.pc = "drive", !.active = @ \ {f}, !.fd = f, !.nreqs = settings.reqs_per_event]
          \in WorkerType
    BY <1>1, <2>3, Zenon DEF WorkerType
  <2> QED
    BY <2>2, <2>4, Zenon
<1>9. CASE thread_libevent_process(w)
  BY <1>4, <1>9, Zenon DEF thread_libevent_process
<1>10. CASE drive_machine(w)
  <2>1. CASE UNCHANGED worker
    BY <1>1, <2>1, Zenon DEF To
  <2>2. CASE r.nreqs > 0 /\ worker' = [worker EXCEPT ![w].nreqs = @ - 1]
    <3>1. To([r EXCEPT !.nreqs = @ - 1])
      BY <2>2, Zenon DEF To
    <3>2. [r EXCEPT !.nreqs = @ - 1] \in WorkerType
      BY <1>1, <2>2 DEF WorkerType
    <3> QED
      BY <3>1, <3>2, Zenon
  <2> QED
    BY <1>4, <1>10, <2>1, <2>2, DriveEffect, Zenon DEF DriveMoves
<1> QED
  BY <1>5, <1>6, <1>7, <1>8, <1>9, <1>10, Zenon DEF WorkerStep

(* The workers keep the types.                                             *)
LEMMA TypesWorker ==
  ASSUME Types, PipeInv, NEW w \in Threads, WorkerStep(w)
  PROVE  Types'
<1> USE DEF mainVars, lockVars, chanVars, connVars
<1>1. settings' = settings /\ Threads' = Threads
  BY SameThreads, Zenon DEF Next
<1>2. worker' \in [Threads -> WorkerType]
  BY WorkerEffect, Zenon
<1>3. CASE worker_libevent(w)
  BY <1>1, <1>2, <1>3 DEF Types, worker_libevent
<1>4. CASE event_base_loop(w)
  BY <1>1, <1>2, <1>4, Zenon DEF Types, event_base_loop
<1>5. CASE read_notify(w)
  <2>1. pipe[w] \in Seq(Bytes) /\ pipe[w] # <<>> /\ pipe \in [Threads -> Seq(Bytes)]
    BY <1>5, Zenon DEF read_notify, PipeInv, Types
  <2>2. pipe' \in [Threads -> Seq(Bytes)]
    <3>1. Tail(pipe[w]) \in Seq(Bytes)
      BY <2>1
    <3>2. pipe' = pipe \/ pipe' = [pipe EXCEPT ![w] = Tail(pipe[w])]
      BY <1>5, Zenon DEF read_notify, ReadOne
    <3> QED
      BY <2>1, <3>1, <3>2, Zenon
  <2> QED
    BY <1>1, <1>2, <1>5, <2>2, Zenon DEF Types, read_notify
<1>6. CASE \E f \in Fds : event_handler(w, f)
  BY <1>1, <1>2, <1>6 DEF Types, event_handler
<1>7. CASE thread_libevent_process(w)
  <2>1. UNCHANGED <<main, last_thread, flip, flips, pipe>>
    BY <1>7, Zenon DEF thread_libevent_process
  <2>2. init_count' \in Nat /\ item_lock_type' \in [Threads -> {"unset", "granular", "global"}]
    <3>1. \/ UNCHANGED <<item_lock_type, init_count>>
          \/ FlipLockType(w, worker[w].buf)
      BY <1>7, Zenon DEF thread_libevent_process
    <3>2. LockType(worker[w].buf) \in {"unset", "granular", "global"}
      BY Zenon DEF LockType
    <3>3. item_lock_type \in [Threads -> {"unset", "granular", "global"}] /\ init_count \in Nat
      BY Zenon DEF Types
    <3>4. CASE FlipLockType(w, worker[w].buf)
      BY <3>2, <3>3, <3>4 DEF FlipLockType
    <3> QED
      BY <3>1, <3>3, <3>4, Zenon
  <2>3. /\ UNCHANGED <<queue, conn>> \/ TakeConnection(w)
        /\ queue \in [Threads -> Seq(Fds)] /\ DOMAIN conn \subseteq Fds
    BY <1>7, Zenon DEF thread_libevent_process, Types
  <2>4. queue' \in [Threads -> Seq(Fds)]
    <3>1. queue' = queue \/ (queue[w] # <<>> /\ queue' = [queue EXCEPT ![w] = Tail(queue[w])])
      BY <2>3, Zenon DEF TakeConnection
    <3>2. queue[w] # <<>> => Tail(queue[w]) \in Seq(Fds)
      BY <2>3
    <3> QED
      BY <2>3, <3>1, <3>2, Zenon
  <2>5. DOMAIN conn' \subseteq Fds
    <3>1. CASE queue[w] # <<>> /\ NewConn(Head(queue[w]), w)
      BY <2>3, <3>1 DEF NewConn
    <3> QED
      BY <2>3, <3>1, Zenon DEF TakeConnection
  <2> QED
    BY <1>1, <1>2, <2>1, <2>2, <2>4, <2>5, Zenon DEF Types
<1>8. CASE drive_machine(w)
  BY <1>1, <1>2, <1>8, DriveEffect, Zenon DEF Types
<1> QED
  BY <1>3, <1>4, <1>5, <1>6, <1>7, <1>8, Zenon DEF WorkerStep

-----------------------------------------------------------------------------
(* A step of create_worker starts one worker that was not there, if any.   *)
LEMMA CreateEffect ==
  ASSUME Types, create_worker
  PROVE  \A v \in Threads : \/ worker'[v] = worker[v]
                            \/ /\ worker[v].pc = "none"
                               /\ worker'[v] = [worker[v] EXCEPT !.pc = "start"]
<1>1. \/ UNCHANGED worker
      \/ \E i \in Threads : /\ worker[i].pc = "none"
                            /\ worker' = [worker EXCEPT ![i].pc = "start"]
  BY Zenon DEF create_worker, exit
<1>2. worker \in [Threads -> WorkerType]
  BY Zenon DEF Types
<1>3. ASSUME NEW i \in Threads, worker[i].pc = "none",
             worker' = [worker EXCEPT ![i].pc = "start"], NEW v \in Threads
      PROVE  \/ worker'[v] = worker[v]
             \/ worker[v].pc = "none" /\ worker'[v] = [worker[v] EXCEPT !.pc = "start"]
  <2>1. CASE v = i
    BY <1>2, <1>3, <2>1, Zenon
  <2>2. CASE v # i
    BY <1>2, <1>3, <2>2, Zenon
  <2> QED
    BY <2>1, <2>2, Zenon
<1> QED
  BY <1>1, <1>3, Zenon

(* The main thread, the clients and the flipping thread keep StartInv.     *)
LEMMA StartMain ==
  ASSUME Types, StartInv, MainStep \/ ClientStep \/ StartFlip \/ EndFlip
  PROVE  StartInv'
<1> USE DEF mainVars, lockVars, chanVars, connVars, MainLabels
<1>1. settings' = settings /\ Threads' = Threads
  BY SameThreads, Zenon DEF Next
<1>2. CASE setup_thread
  <2>1. main.pc = "setup" /\ main'.pc \in {"create", "exited"}
    BY <1>2, Zenon DEF setup_thread, exit, Types
  <2>2. UNCHANGED <<worker, init_count, flips, item_lock_type, pipe, conn>>
    BY <1>2, Zenon DEF setup_thread, exit
  <2>3. Reported' = Reported
    BY <1>1, <2>2, Zenon DEF Reported
  <2> QED
    BY <1>1, <2>1, <2>2, <2>3, Zenon DEF StartInv, Starting, Serving
<1>3. CASE create_worker
  <2>1. main'.pc \in {"create", "wait", "exited"}
    BY <1>3, Zenon DEF create_worker, exit, Types
  <2>2. UNCHANGED <<init_count, flips, item_lock_type, pipe, conn>>
    BY <1>3, Zenon DEF create_worker, exit
  <2>3. main.pc = "create"
    BY <1>3, Zenon DEF create_worker
  <2>4. \A v \in Threads : /\ worker'[v].active = worker[v].active
                           /\ \/ worker'[v].pc = worker[v].pc
                              \/ worker[v].pc = "none" /\ worker'[v].pc = "start"
    <3>1. \A v \in Threads : worker[v] \in WorkerType
      BY Zenon DEF Types
    <3>2. \A v \in Threads : \/ worker'[v] = worker[v]
                             \/ /\ worker[v].pc = "none"
                                /\ worker'[v] = [worker[v] EXCEPT !.pc = "start"]
      BY <1>3, CreateEffect, Zenon
    <3>3. \A r \in WorkerType : /\ [r EXCEPT !.pc = "start"].pc = "start"
                                /\ [r EXCEPT !.pc = "start"].active = r.active
      BY Zenon DEF WorkerType
    <3> TAKE v \in Threads
    <3>4. CASE worker'[v] = worker[v]
      BY <3>4, Zenon
    <3>5. CASE /\ worker[v].pc = "none"
               /\ worker'[v] = [worker[v] EXCEPT !.pc = "start"]
      <4>1. worker'[v].pc = "start" /\ worker'[v].active = worker[v].active
        BY <3>1, <3>3, <3>5
      <4> QED
        BY <3>5, <4>1, Zenon
    <3> QED
      BY <3>2, <3>4, <3>5, Zenon
  <2>5. Reported' = Reported
    BY <1>1, <2>4, Zenon DEF Reported
  <2> QED
    BY <1>1, <2>1, <2>2, <2>3, <2>4, <2>5, Zenon DEF StartInv, Starting, Serving
<1>4. CASE thread_init_returns
  <2>1. Cardinality(Reported) >= settings.num_threads
    BY <1>4, Zenon DEF thread_init_returns, AllRegistered, StartInv, Starting
  <2>2. Reported = Threads
    <3>1. Reported \subseteq Threads /\ settings \in Settings
      BY Zenon DEF Reported, Types
    <3> QED
      BY <2>1, <3>1, AllOfThem, Zenon
  <2>3. \A w \in Threads : worker[w].pc = "loop"
    BY <2>2, Zenon DEF Reported
  <2>4. main'.pc \in {"serve", "exited"} /\ UNCHANGED <<worker, item_lock_type>>
    BY <1>4, Zenon DEF thread_init_returns, exit, Types
  <2> QED
    BY <1>1, <2>3, <2>4, Zenon DEF StartInv, Starting, Serving
<1>5. CASE dispatch_conn_new \/ write_notify \/ ClientStep \/ StartFlip \/ EndFlip
  <2>1. UNCHANGED <<worker, item_lock_type>>
    BY <1>5, Zenon DEF dispatch_conn_new, write_notify, ClientStep, conn_listening,
       ClientSends,
                ClientCloses, StartFlip, EndFlip
  <2>2. CASE UNCHANGED <<main, init_count, flips, pipe, conn>>
    BY <1>1, <2>1, <2>2, Zenon DEF StartInv, Starting, Serving, Reported
  <2>3. CASE Serving /\ main'.pc \in {"serve", "dispatch", "notify"}
    BY <1>1, <2>1, <2>3, Zenon DEF StartInv, Starting, Serving
  <2>4. CASE dispatch_conn_new \/ write_notify
    <3>1. main.pc \in {"dispatch", "notify"} /\ main'.pc \in {"serve", "notify"}
      <4>1. CASE dispatch_conn_new
        <5>1. \/ main' = [main EXCEPT !.pc = "serve", !.sfd = NoFd]
              \/ main' = [pc |-> "notify", sfd |-> NoFd, tid |-> NextThread]
          BY <4>1, Zenon DEF dispatch_conn_new
        <5>2. [main EXCEPT !.pc = "serve", !.sfd = NoFd].pc = "serve"
          BY Zenon DEF Types
        <5>3. main.pc = "dispatch"
          BY <4>1, Zenon DEF dispatch_conn_new
        <5>4. CASE main' = [main EXCEPT !.pc = "serve", !.sfd = NoFd]
          BY <5>2, <5>3, <5>4, Zenon
        <5>5. CASE main' = [pc |-> "notify", sfd |-> NoFd, tid |-> NextThread]
          <6>1. main'.pc = "notify"
            BY <5>5, Zenon
          <6> QED
            BY <5>3, <6>1, Zenon
        <5> QED
          BY <5>1, <5>4, <5>5, Zenon
      <4>2. CASE write_notify
        BY <4>2, Zenon DEF write_notify, Types
      <4> QED
        BY <2>4, <4>1, <4>2, Zenon
    <3> QED
      BY <2>3, <3>1, Zenon DEF Serving
  <2>5. CASE ClientStep
    <3>1. CASE conn_listening
      BY <2>3, <3>1, Zenon DEF conn_listening, Serving, Types
    <3>2. CASE \E f \in Fds : ClientSends(f) \/ ClientCloses(f)
      BY <2>2, <3>2, Zenon DEF ClientSends, ClientCloses
    <3> QED
      BY <2>5, <3>1, <3>2, Zenon DEF ClientStep
  <2>6. CASE StartFlip
    BY <2>3, <2>6, Zenon DEF StartFlip, Serving
  <2>7. CASE EndFlip
    BY <2>2, <2>7, Zenon DEF EndFlip
  <2> QED
    BY <1>5, <2>4, <2>5, <2>6, <2>7, Zenon
<1> QED
  BY <1>2, <1>3, <1>4, <1>5, Zenon DEF MainStep

(* The workers keep StartInv: while the main thread waits, nothing but     *)
(* worker_libevent is possible.                                            *)
LEMMA StartWorker ==
  ASSUME Types, StartInv, PipeInv, NEW w \in Threads, WorkerStep(w)
  PROVE  StartInv'
<1> USE DEF mainVars, lockVars, chanVars, connVars
<1>1. settings' = settings /\ Threads' = Threads
  BY SameThreads, Zenon DEF Next
<1>2. /\ worker' \in [Threads -> WorkerType] /\ worker \in [Threads -> WorkerType]
      /\ \A v \in Threads : v # w => worker'[v] = worker[v]
  BY WorkerEffect, Zenon DEF Types
<1>3. CASE worker_libevent(w)
  <2>1. /\ worker'[w] = [worker[w] EXCEPT !.pc = "loop"] /\ worker[w].pc = "start"
        /\ UNCHANGED <<main, flips, pipe, conn>>
        /\ init_count' = init_count + 1
        /\ item_lock_type' = [item_lock_type EXCEPT ![w] = "granular"]
    BY <1>2, <1>3, Zenon DEF worker_libevent
  <2>2. Reported' = Reported \cup {w} /\ w \notin Reported
    BY <1>1, <1>2, <2>1, SMTT(30) DEF Reported, WorkerType
  <2>3. Cardinality(Reported') = Cardinality(Reported) + 1
    BY <2>2, OneMore, Zenon DEF Reported, Types
  <2>4. Running
    BY <1>3, Zenon DEF worker_libevent
  <2>5. /\ worker'[w].pc = "loop" /\ worker'[w].active = worker[w].active
        /\ item_lock_type'[w] = "granular"
        /\ \A v \in Threads : v # w => item_lock_type'[v] = item_lock_type[v]
    BY <1>2, <2>1 DEF WorkerType, Types
  <2>6. CASE Starting
    BY <1>1, <1>2, <2>1, <2>3, <2>5, <2>6, ZenonT(60) DEF StartInv, Starting, Serving
  <2>7. CASE ~Starting
    BY <1>1, <1>2, <2>1, <2>5, <2>7 DEF StartInv, Starting, Serving
  <2> QED
    BY <2>6, <2>7, Zenon
<1>4. ASSUME ~worker_libevent(w)
      PROVE  /\ worker[w].pc \notin {"none", "start"} /\ worker'[w].pc \notin {"none", "start"}
             /\ UNCHANGED main
             /\ item_lock_type[w] # "unset" => item_lock_type'[w] # "unset"
             /\ \A v \in Threads : v # w => item_lock_type'[v] = item_lock_type[v]
             /\ ~Starting
  <2>1. CASE event_base_loop(w)
    <3>1. ReadyEvents(w) = {} \/ ~Starting
      BY Zenon DEF ReadyEvents, StartInv
    <3>2. worker[w].pc = "loop" /\ worker'[w] = [worker[w] EXCEPT !.active = ReadyEvents(w)]
      BY <1>2, <2>1, Zenon DEF event_base_loop, Idle
    <3>3. worker'[w].pc = "loop"
      BY <1>2, <3>2, Zenon DEF WorkerType
    <3> QED
      BY <2>1, <3>1, <3>2, <3>3, Zenon DEF event_base_loop
  <2>2. CASE read_notify(w)
    <3>1. worker'[w].pc = "switch"
      BY <1>2, <2>2 DEF read_notify, WorkerType
    <3> QED
      BY <2>2, <3>1, Zenon DEF read_notify, Idle, StartInv
  <2>3. CASE \E f \in Fds : event_handler(w, f)
    <3>1. worker'[w].pc = "drive"
      BY <1>2, <2>3, SMTT(30) DEF event_handler, WorkerType
    <3> QED
      BY <2>3, <3>1, Zenon DEF event_handler, Idle, StartInv
  <2>4. CASE thread_libevent_process(w)
    <3>1. worker'[w].pc = "loop"
      BY <1>2, <2>4 DEF thread_libevent_process, BackToLoop, WorkerType
    <3>2. worker[w].pc = "switch" /\ UNCHANGED main
      BY <2>4, Zenon DEF thread_libevent_process
    <3>3. \/ UNCHANGED item_lock_type
          \/ item_lock_type' = [item_lock_type EXCEPT ![w] = LockType(worker[w].buf)]
      BY <2>4, Zenon DEF thread_libevent_process, FlipLockType
    <3>4. LockType(worker[w].buf) # "unset"
      BY Zenon DEF LockType
    <3>5. /\ item_lock_type[w] # "unset" => item_lock_type'[w] # "unset"
          /\ \A v \in Threads : v # w => item_lock_type'[v] = item_lock_type[v]
      BY <3>3, <3>4, Zenon DEF Types
    <3> QED
      BY <3>1, <3>2, <3>5, Zenon DEF StartInv
  <2>5. CASE drive_machine(w)
    <3>1. worker[w].pc = "drive" /\ UNCHANGED <<main, item_lock_type>> /\ DriveMoves(w)
      BY <2>5, DriveEffect, Zenon
    <3>2. worker'[w].pc \in {"drive", "loop"}
      BY <1>2, <3>1, SMTT(30) DEF DriveMoves, BackToLoop, WorkerType
    <3> QED
      BY <3>1, <3>2, Zenon DEF StartInv
  <2> QED
    BY <1>4, <2>1, <2>2, <2>3, <2>4, <2>5, Zenon DEF WorkerStep
<1>5. CASE ~worker_libevent(w)
  BY <1>1, <1>2, <1>4, <1>5, Zenon DEF StartInv, Starting, Serving
<1> QED
  BY <1>3, <1>5, Zenon

-----------------------------------------------------------------------------
(* The threads other than the workers leave what the workers have found    *)
(* and read, and take nothing from the pipes.                              *)
LEMMA OthersEffect ==
  ASSUME Types, MainStep \/ ClientStep \/ StartFlip \/ EndFlip, NEW w \in Threads
  PROVE  /\ worker'[w].buf = worker[w].buf /\ worker'[w].active = worker[w].active
         /\ worker'[w].pc # "switch" => worker[w].pc # "switch"
         /\ pipe'[w] = pipe[w] \/ \E b \in Bytes : pipe'[w] = Append(pipe[w], b)
<1> USE DEF lockVars, chanVars
<1>1. worker[w] \in WorkerType /\ pipe \in [Threads -> Seq(Bytes)]
  BY Zenon DEF Types
<1>2. CASE create_worker
  <2>1. worker'[w] = worker[w] \/ (worker[w].pc = "none" /\ worker'[w] = [worker[w] EXCEPT !.pc = "start"])
    BY <1>2, CreateEffect, Zenon
  <2>2. UNCHANGED pipe
    BY <1>2, Zenon DEF create_worker
  <2> QED
    BY <1>1, <2>1, <2>2, Zenon DEF WorkerType
<1>3. CASE write_notify
  <2>1. UNCHANGED worker
    BY <1>3, Zenon DEF write_notify
  <2>2. pipe' = pipe \/ pipe' = [pipe EXCEPT ![main.tid] = Append(pipe[main.tid], "c")]
    BY <1>3, Zenon DEF write_notify
  <2>3. pipe'[w] = pipe[w] \/ pipe'[w] = Append(pipe[w], "c")
    BY <1>1, <2>2, Zenon
  <2> QED
    BY <2>1, <2>3, Zenon DEF Bytes
<1>4. CASE StartFlip
  <2>1. UNCHANGED worker /\ pipe'[w] = Append(pipe[w], flip'.byte)
    BY <1>4, Zenon DEF StartFlip
  <2>2. flip'.byte \in Bytes
    BY <1>4, Zenon DEF StartFlip, Types, Bytes
  <2> QED
    BY <2>1, <2>2, Zenon
<1>5. CASE setup_thread \/ thread_init_returns \/ dispatch_conn_new \/ ClientStep \/ EndFlip
  <2>1. UNCHANGED <<worker, pipe>>
    BY <1>5, Zenon DEF setup_thread, exit, thread_init_returns, dispatch_conn_new,
       ClientStep,
                conn_listening, ClientSends, ClientCloses, EndFlip
  <2> QED
    BY <2>1, Zenon
<1> QED
  BY <1>2, <1>3, <1>4, <1>5, Zenon DEF MainStep

(* They keep PipeInv.                                                      *)
LEMMA PipeOthers ==
  ASSUME Types, PipeInv, MainStep \/ ClientStep \/ StartFlip \/ EndFlip
  PROVE  PipeInv'
<1>1. Threads' = Threads
  BY SameThreads, Zenon DEF Next
<1>2. ASSUME NEW w \in Threads
      PROVE  /\ worker'[w].pc # "switch" => worker'[w].buf = NoByte
             /\ Pipe \in worker'[w].active => pipe'[w] # <<>>
  <2>1. pipe[w] \in Seq(Bytes)
    BY Zenon DEF Types
  <2>2. \A b \in Bytes : Append(pipe[w], b) # <<>>
    BY <2>1, SMTT(30)
  <2> QED
    BY <2>2, OthersEffect, Zenon DEF PipeInv
<1> QED
  BY <1>1, <1>2, Zenon DEF PipeInv

(* The workers keep PipeInv.                                               *)
LEMMA PipeWorker ==
  ASSUME Types, PipeInv, NEW w \in Threads, WorkerStep(w)
  PROVE  PipeInv'
<1> USE DEF lockVars, chanVars
<1>1. Threads' = Threads
  BY SameThreads, Zenon DEF Next
<1>2. /\ worker[w] \in WorkerType /\ worker \in [Threads -> WorkerType]
      /\ \A v \in Threads : v # w => worker'[v] = worker[v]
  BY WorkerEffect, Zenon DEF Types
<1>3. \A v \in Threads : v # w => pipe'[v] = pipe[v]
  <2>1. UNCHANGED pipe \/ pipe' = [pipe EXCEPT ![w] = Tail(@)]
    BY DriveEffect, Zenon DEF WorkerStep, worker_libevent, event_base_loop, read_notify,
       ReadOne,
                       event_handler, thread_libevent_process
  <2> QED
    BY <2>1, Zenon DEF Types
<1>4. SUFFICES /\ worker'[w].pc # "switch" => worker'[w].buf = NoByte
               /\ Pipe \in worker'[w].active => pipe'[w] # <<>>
  BY <1>1, <1>2, <1>3, Zenon DEF PipeInv
<1>5. /\ worker[w].pc # "switch" => worker[w].buf = NoByte
      /\ Pipe \in worker[w].active => pipe[w] # <<>>
  BY Zenon DEF PipeInv
<1>6. ASSUME BackToLoop(w), UNCHANGED pipe
      PROVE  /\ worker'[w].pc # "switch" => worker'[w].buf = NoByte
             /\ Pipe \in worker'[w].active => pipe'[w] # <<>>
  <2>1. worker'[w].buf = NoByte /\ worker'[w].active = worker[w].active
    BY <1>2, <1>6, Zenon DEF BackToLoop, WorkerType
  <2> QED
    BY <1>5, <1>6, <2>1, Zenon
<1>7. CASE worker_libevent(w)
  <2>1. /\ worker'[w].buf = worker[w].buf /\ worker'[w].active = worker[w].active
        /\ worker[w].pc = "start"
    BY <1>2, <1>7, Zenon DEF worker_libevent, WorkerType
  <2> QED
    BY <1>5, <1>7, <2>1, Zenon DEF worker_libevent
<1>8. CASE event_base_loop(w)
  <2>1. /\ worker'[w].buf = worker[w].buf /\ worker'[w].active = ReadyEvents(w)
        /\ worker[w].pc = "loop" /\ UNCHANGED pipe
    BY <1>2, <1>8, Zenon DEF event_base_loop, Idle, WorkerType
  <2>2. Pipe \in ReadyEvents(w) => pipe[w] # <<>>
    BY FdsAssumption, Zenon DEF ReadyEvents, Types, Pipe
  <2> QED
    BY <1>5, <2>1, <2>2, Zenon
<1>9. CASE read_notify(w)
  <2>1. worker'[w].pc = "switch" /\ worker'[w].active = worker[w].active \ {Pipe}
    BY <1>2, <1>9, SMTT(30) DEF read_notify, WorkerType
  <2> QED
    BY <2>1, Zenon
<1>10. CASE \E f \in Fds : event_handler(w, f)
  <2>1. PICK f \in Fds : event_handler(w, f)
    BY <1>10, Zenon
  <2>2. /\ worker'[w].buf = worker[w].buf /\ worker'[w].active = worker[w].active \ {f}
        /\ worker[w].pc = "loop" /\ UNCHANGED pipe
    BY <1>2, <2>1, Zenon DEF event_handler, Idle, WorkerType
  <2> QED
    BY <1>5, <2>2, Zenon
<1>11. CASE thread_libevent_process(w)
  BY <1>6, <1>11, Zenon DEF thread_libevent_process
<1>12. CASE drive_machine(w)
  <2>1. DriveMoves(w) /\ UNCHANGED pipe /\ worker[w].pc = "drive"
    BY <1>12, DriveEffect, Zenon
  <2>2. CASE BackToLoop(w)
    BY <1>6, <2>1, <2>2, Zenon
  <2>3. CASE ~BackToLoop(w)
    <3>1. worker'[w].buf = worker[w].buf /\ worker'[w].active = worker[w].active
      BY <1>2, <2>1, <2>3, ZenonT(60) DEF DriveMoves, WorkerType
    <3> QED
      BY <1>5, <2>1, <3>1, Zenon
  <2> QED
    BY <2>2, <2>3, Zenon
<1> QED
  BY <1>7, <1>8, <1>9, <1>10, <1>11, <1>12, Zenon DEF WorkerStep

-----------------------------------------------------------------------------
(* Another notice in the pipe, or a notice dealt with, makes no difference *)
(* to a flip.                                                              *)
LEMMA NoticesKeep ==
  ASSUME Types, NEW w \in Threads, UNCHANGED flip,
         pipe'[w] = pipe[w] \/ pipe'[w] = Append(pipe[w], "c"),
         worker'[w].buf = worker[w].buf \/ (Notice(worker[w].buf) /\ Notice(worker'[w].buf))
  PROVE  /\ Quiet(w)' <=> Quiet(w)
         /\ Pending(w) => Pending(w)'
         /\ InHand(w) => InHand(w)'
<1>1. pipe[w] \in Seq(Bytes) /\ flip.byte \in {"l", "g"}
  BY Zenon DEF Types
<1>2. OnlyNotices(w)' <=> OnlyNotices(w)
  <2>1. CASE pipe'[w] = pipe[w]
    BY <2>1, Zenon DEF OnlyNotices
  <2>2. CASE pipe'[w] = Append(pipe[w], "c")
    <3>1. /\ Len(pipe'[w]) = Len(pipe[w]) + 1 /\ Len(pipe[w]) \in Nat
          /\ \A i \in 1..Len(pipe[w]) : pipe'[w][i] = pipe[w][i]
          /\ pipe'[w][Len(pipe[w]) + 1] = "c"
      BY <1>1, <2>2
    <3>2. \A i : i \in 1..Len(pipe'[w]) <=> i \in 1..Len(pipe[w]) \/ i = Len(pipe[w]) + 1
      BY <3>1
    <3> QED
      BY <3>1, <3>2, Zenon DEF OnlyNotices
  <2> QED
    BY <2>1, <2>2, Zenon
<1>3. ASSUME NEW i \in 1..Len(pipe[w]), ByteAt(w, i)
      PROVE  i \in 1..Len(pipe'[w]) /\ ByteAt(w, i)'
  <2>1. CASE pipe'[w] = pipe[w]
    BY <1>3, <2>1, Zenon DEF ByteAt
  <2>2. CASE pipe'[w] = Append(pipe[w], "c")
    <3>1. /\ Len(pipe'[w]) = Len(pipe[w]) + 1 /\ Len(pipe[w]) \in Nat
          /\ \A j \in 1..Len(pipe[w]) : pipe'[w][j] = pipe[w][j]
          /\ pipe'[w][Len(pipe[w]) + 1] = "c"
      BY <1>1, <2>2, SMTT(30)
    <3>2. \A j : j \in 1..Len(pipe'[w]) <=> j \in 1..Len(pipe[w]) \/ j = Len(pipe[w]) + 1
      BY <3>1
    <3>3. pipe'[w][i] = flip'.byte
      BY <1>3, <3>1, Zenon DEF ByteAt
    <3>4. ASSUME NEW j \in 1..Len(pipe'[w]), j # i PROVE pipe'[w][j] = "c"
      BY <1>3, <3>1, <3>2, <3>4, Zenon DEF ByteAt
    <3> QED
      BY <3>2, <3>3, <3>4, Zenon DEF ByteAt
  <2> QED
    BY <2>1, <2>2, Zenon
<1>4. Notice(worker[w].buf) <=> Notice(worker'[w].buf)
  BY Zenon
<1>5. worker[w].buf = flip.byte => worker'[w].buf = flip.byte
  BY <1>1, Zenon DEF Notice, NoByte
<1>6. Quiet(w)' <=> Quiet(w)
  BY <1>2, <1>4, Zenon DEF Quiet, Notice
<1>7. Pending(w) => Pending(w)'
  BY <1>3, <1>4, Zenon DEF Pending, Notice
<1>8. InHand(w) => InHand(w)'
  BY <1>2, <1>5, Zenon DEF InHand
<1> QED
  BY <1>6, <1>7, <1>8, Zenon

(* A byte that is read moves from the pipe into buf[0].                    *)
LEMMA ReadMoves ==
  ASSUME Types, NEW w \in Threads, UNCHANGED flip,
         worker[w].buf = NoByte, pipe[w] # <<>>,
         pipe'[w] = Tail(pipe[w]), worker'[w].buf = Head(pipe[w])
  PROVE  /\ Quiet(w)' <=> Quiet(w)
         /\ Pending(w) \/ InHand(w) => Pending(w)' \/ InHand(w)'
<1>1. pipe[w] \in Seq(Bytes) /\ flip.byte \in {"l", "g"}
  BY Zenon DEF Types
<1>2. /\ Len(pipe[w]) \in Nat \ {0} /\ Len(pipe'[w]) = Len(pipe[w]) - 1
      /\ \A i \in 1..Len(pipe'[w]) : pipe'[w][i] = pipe[w][i + 1]
      /\ worker'[w].buf = pipe[w][1] /\ pipe[w][1] \in Bytes
  BY <1>1
<1>3. \A i \in 1..Len(pipe[w]) : i = 1 \/ (i - 1 \in 1..Len(pipe'[w]) /\ pipe'[w][i - 1] = pipe[w][i])
  BY <1>2
<1>4. Quiet(w)' <=> Quiet(w)
  <2>1. OnlyNotices(w) <=> (pipe[w][1] = "c" /\ OnlyNotices(w)')
    <3>1. ASSUME OnlyNotices(w) PROVE pipe[w][1] = "c" /\ OnlyNotices(w)'
      BY <1>2, <3>1 DEF OnlyNotices
    <3>2. ASSUME pipe[w][1] = "c", OnlyNotices(w)' PROVE OnlyNotices(w)
      BY <1>3, <3>2, Zenon DEF OnlyNotices
    <3> QED
      BY <3>1, <3>2, Zenon
  <2>2. Notice(worker'[w].buf) <=> pipe[w][1] = "c"
    BY <1>2, Zenon DEF Notice, NoByte, Bytes
  <2>3. Notice(worker[w].buf)
    BY Zenon DEF Notice
  <2> QED
    BY <2>1, <2>2, <2>3, Zenon DEF Quiet, Notice
<1>5. ~InHand(w)
  BY <1>1, Zenon DEF InHand, NoByte
<1>6. ASSUME NEW i \in 1..Len(pipe[w]), ByteAt(w, i)
      PROVE  Pending(w)' \/ InHand(w)'
  <2>1. CASE i = 1
    <3>1. \A j \in 1..Len(pipe'[w]) : j + 1 \in 1..Len(pipe[w]) /\ j + 1 # 1
      BY <1>2
    <3>2. OnlyNotices(w)'
      BY <1>2, <1>6, <2>1, <3>1, Zenon DEF OnlyNotices, ByteAt
    <3>3. worker'[w].buf = flip'.byte
      BY <1>2, <1>6, <2>1, Zenon DEF ByteAt
    <3> QED
      BY <3>2, <3>3, Zenon DEF InHand
  <2>2. CASE i # 1
    <3>1. i - 1 \in 1..Len(pipe'[w]) /\ pipe'[w][i - 1] = flip'.byte
      BY <1>3, <1>6, <2>2, Zenon DEF ByteAt
    <3>2. ASSUME NEW j \in 1..Len(pipe'[w]), j # i - 1 PROVE pipe'[w][j] = "c"
      <4>1. j + 1 \in 1..Len(pipe[w]) /\ j + 1 # i
        BY <1>2, <3>2
      <4> QED
        BY <1>2, <1>6, <4>1, Zenon DEF ByteAt
    <3>3. worker'[w].buf = "c"
      BY <1>2, <1>6, <2>2 DEF ByteAt
    <3> QED
      BY <3>1, <3>2, <3>3, ZenonT(30) DEF Pending, ByteAt, Notice
  <2> QED
    BY <2>1, <2>2, Zenon
<1>7. Pending(w) => Pending(w)' \/ InHand(w)'
  BY <1>6, Zenon DEF Pending
<1> QED
  BY <1>4, <1>5, <1>7, Zenon

(* A step that moves no worker on to, or back from, its part of the flip   *)
(* keeps FlipInv.                                                          *)
LEMMA FlipSame ==
  ASSUME Types, FlipInv, Threads' = Threads, UNCHANGED <<flip, flips, stray>>,
         flips > 0 => UNCHANGED <<item_lock_type, init_count>>,
         \A w \in Threads : /\ Quiet(w)' <=> Quiet(w)
                            /\ Pending(w) \/ InHand(w) => Pending(w)' \/ InHand(w)'
  PROVE  FlipInv'
<1>1. flips \in Nat
  BY Zenon DEF Types
<1>2. CASE flips = 0
  BY <1>2 DEF FlipInv
<1>3. CASE flips > 0
  <2>1. \A w \in Threads : Done(w)' <=> Done(w)
    BY <1>3, Zenon DEF Done
  <2>2. AllDone' = AllDone
    BY <2>1, Zenon DEF AllDone
  <2> QED
    BY <1>3, <2>1, <2>2, Zenon DEF FlipInv
<1> QED
  BY <1>1, <1>2, <1>3

(* A worker that has its part of the flip done counts for one more.        *)
LEMMA FlipDone ==
  ASSUME Types, FlipInv, NEW w \in Threads, thread_libevent_process(w),
         worker[w].buf \in {"l", "g"}, Threads' = Threads,
         worker' \in [Threads -> WorkerType],
         \A v \in Threads : v # w => worker'[v] = worker[v]
  PROVE  FlipInv'
<1>1. /\ UNCHANGED <<flip, flips, pipe, stray>>
      /\ BackToLoop(w)
      /\ FlipLockType(w, worker[w].buf)
  BY ZenonT(30) DEF thread_libevent_process, NoByte
<1>2. SUFFICES ASSUME ~stray PROVE FlipInv'
  BY <1>1, ZenonT(30) DEF FlipInv
<1>3. flips > 0
  <2>1. flips \in Nat
    BY Zenon DEF Types
  <2>2. flips # 0
    BY <1>2, Zenon DEF FlipInv, Quiet, Notice, NoByte
  <2> QED
    BY <2>1, <2>2
<1>4. InHand(w) /\ ~Done(w)
  BY <1>2, <1>3, Zenon DEF FlipInv, Pending, Done, Quiet, Notice, NoByte
<1>5. flip.waiting
  BY <1>2, <1>3, <1>4, Zenon DEF FlipInv
<1>6. Done(w)'
  <2>1. worker'[w].buf = NoByte
    BY <1>1, Zenon DEF BackToLoop, Types, WorkerType
  <2>2. OnlyNotices(w)'
    BY <1>1, <1>4, Zenon DEF InHand, OnlyNotices
  <2>3. item_lock_type'[w] = LockType(flip'.byte)
    BY <1>1, <1>4, Zenon DEF FlipLockType, InHand, Types, LockType
  <2> QED
    BY <2>1, <2>2, <2>3, Zenon DEF Done, Quiet, Notice
<1>7. ASSUME NEW v \in Threads, v # w
      PROVE  /\ Done(v)' <=> Done(v)
             /\ Pending(v) \/ InHand(v) => Pending(v)' \/ InHand(v)'
  <2>1. worker'[v].buf = worker[v].buf /\ pipe'[v] = pipe[v] /\ item_lock_type'[v] = item_lock_type[v]
    BY <1>1, <1>7, Zenon DEF FlipLockType, Types
  <2>2. Quiet(v)' <=> Quiet(v)
    BY <1>1, <2>1, NoticesKeep, Zenon
  <2>3. Pending(v) \/ InHand(v) => Pending(v)' \/ InHand(v)'
    BY <1>1, <2>1, NoticesKeep, Zenon
  <2> QED
    BY <1>1, <2>1, <2>2, <2>3, Zenon DEF Done
<1>8. AllDone' = AllDone \cup {w} /\ w \notin AllDone /\ AllDone \subseteq Threads
  BY <1>4, <1>6, <1>7, Zenon DEF AllDone
<1>9. Cardinality(AllDone') = Cardinality(AllDone) + 1
  BY <1>8, OneMore, Zenon DEF Types
<1>10. init_count' = Cardinality(AllDone')
  BY <1>1, <1>2, <1>3, <1>9, Zenon DEF FlipLockType, FlipInv
<1>11. \A v \in Threads : Pending(v)' \/ InHand(v)' \/ Done(v)'
  BY <1>2, <1>3, <1>6, <1>7, Zenon DEF FlipInv
<1> QED
  BY <1>1, <1>3, <1>5, <1>10, <1>11, Zenon DEF FlipInv

(* The workers keep FlipInv.                                               *)
LEMMA FlipWorker ==
  ASSUME Types, StartInv, PipeInv, FlipInv, NEW w \in Threads, WorkerStep(w)
  PROVE  FlipInv'
<1> USE DEF lockVars, chanVars, faultVars
<1>1. Threads' = Threads
  BY SameThreads, Zenon DEF Next
<1>2. /\ worker[w] \in WorkerType /\ worker \in [Threads -> WorkerType]
      /\ worker' \in [Threads -> WorkerType]
      /\ \A v \in Threads : v # w => worker'[v] = worker[v]
      /\ pipe \in [Threads -> Seq(Bytes)]
  BY WorkerEffect, Zenon DEF Types
<1>3. worker[w].pc # "switch" => worker[w].buf = NoByte
  BY Zenon DEF PipeInv
<1>4. ASSUME UNCHANGED <<flip, flips, stray, pipe>>,
             flips > 0 => UNCHANGED <<item_lock_type, init_count>>,
             \/ worker'[w].buf = worker[w].buf
             \/ Notice(worker[w].buf) /\ Notice(worker'[w].buf)
      PROVE  FlipInv'
  <2>1. ASSUME NEW v \in Threads
        PROVE  /\ Quiet(v)' <=> Quiet(v)
               /\ Pending(v) \/ InHand(v) => Pending(v)' \/ InHand(v)'
    <3>1. worker'[v].buf = worker[v].buf \/ (Notice(worker[v].buf) /\ Notice(worker'[v].buf))
      BY <1>2, <1>4, Zenon
    <3> QED
      BY <1>4, <3>1, NoticesKeep, Zenon
  <2> QED
    BY <1>1, <1>4, <2>1, FlipSame, ZenonT(30)
<1>5. CASE worker_libevent(w)
  <2>1. ~(flips > 0)
    BY <1>5 DEF worker_libevent, StartInv, Starting, Serving, Running, Types, MainLabels
  <2>2. worker'[w].buf = worker[w].buf /\ UNCHANGED <<flip, flips, stray, pipe>>
    BY <1>2, <1>5, Zenon DEF worker_libevent, WorkerType
  <2> QED
    BY <1>4, <2>1, <2>2, Zenon
<1>6. CASE event_base_loop(w) \/ \E f \in Fds : event_handler(w, f)
  <2>1. worker'[w].buf = worker[w].buf
    <3>1. CASE event_base_loop(w)
      BY <1>2, <3>1, Zenon DEF event_base_loop, WorkerType
    <3>2. ASSUME NEW f \in Fds, event_handler(w, f) PROVE worker'[w].buf = worker[w].buf
      BY <1>2, <3>2, Zenon DEF event_handler, WorkerType
    <3> QED
      BY <1>6, <3>1, <3>2, Zenon
  <2>2. UNCHANGED <<flip, flips, stray, pipe, item_lock_type, init_count>>
    BY <1>6, Zenon DEF event_base_loop, event_handler
  <2> QED
    BY <1>4, <2>1, <2>2, Zenon
<1>7. CASE read_notify(w)
  <2>1. UNCHANGED <<flip, flips, item_lock_type, init_count>>
    BY <1>7, Zenon DEF read_notify
  <2>2. CASE stray'
    BY <2>1, <2>2, Zenon DEF FlipInv
  <2>3. CASE ~stray'
    <3>1. /\ worker' = [worker EXCEPT ![w].pc = "switch", ![w].active = @ \ {Pipe},
                                      ![w].buf = Head(pipe[w])]
          /\ pipe' = [pipe EXCEPT ![w] = Tail(pipe[w])] /\ UNCHANGED stray
      BY <1>7, <2>3, Zenon DEF read_notify, ReadOne
    <3>2. worker[w].buf = NoByte /\ pipe[w] # <<>>
      BY <1>3, <1>7, Zenon DEF read_notify, Idle, PipeInv
    <3>3. worker'[w].buf = Head(pipe[w]) /\ pipe'[w] = Tail(pipe[w])
      BY <1>2, <3>1, Zenon DEF WorkerType
    <3>4. ASSUME NEW v \in Threads
          PROVE  /\ Quiet(v)' <=> Quiet(v)
                 /\ Pending(v) \/ InHand(v) => Pending(v)' \/ InHand(v)'
      <4>1. CASE v = w
        BY <2>1, <3>2, <3>3, <4>1, ReadMoves, Zenon
      <4>2. CASE v # w
        <5>1. worker'[v].buf = worker[v].buf /\ pipe'[v] = pipe[v]
          BY <1>2, <3>1, <4>2, Zenon
        <5> QED
          BY <2>1, <5>1, NoticesKeep, Zenon
      <4> QED
        BY <4>1, <4>2, Zenon
    <3> QED
      BY <1>1, <2>1, <3>1, <3>4, FlipSame, Zenon
  <2> QED
    BY <2>2, <2>3, Zenon
<1>8. CASE thread_libevent_process(w)
  <2>1. CASE worker[w].buf \in {"l", "g"}
    BY <1>1, <1>2, <1>8, <2>1, FlipDone, Zenon
  <2>2. CASE worker[w].buf \notin {"l", "g"}
    <3>1. Notice(worker[w].buf) /\ UNCHANGED <<flip, flips, stray, pipe, item_lock_type, init_count>>
      BY <1>8, <2>2, Zenon DEF thread_libevent_process, Notice
    <3>2. Notice(worker'[w].buf)
      BY <1>2, <1>8, Zenon DEF thread_libevent_process, BackToLoop, WorkerType, Notice
    <3> QED
      BY <1>4, <3>1, <3>2, Zenon
  <2> QED
    BY <2>1, <2>2, Zenon
<1>9. CASE drive_machine(w)
  <2>1. DriveMoves(w) /\ worker[w].pc = "drive"
    BY <1>9, DriveEffect, Zenon
  <2>2. UNCHANGED <<flip, flips, stray, pipe, item_lock_type, init_count>>
    BY <1>9, DriveEffect, Zenon
  <2>3. worker'[w].buf = worker[w].buf
    BY <1>2, <1>3, <2>1 DEF DriveMoves, BackToLoop, WorkerType
  <2> QED
    BY <1>4, <2>2, <2>3, Zenon
<1> QED
  BY <1>5, <1>6, <1>7, <1>8, <1>9, Zenon DEF WorkerStep

(* The other threads keep FlipInv: a flip starts only when the one before  *)
(* is over, and ends only when every worker has done its part.             *)
LEMMA FlipOthers ==
  ASSUME Types, StartInv, FlipInv, MainStep \/ ClientStep \/ StartFlip \/ EndFlip
  PROVE  FlipInv'
<1> USE DEF lockVars, chanVars, faultVars
<1>1. Threads' = Threads
  BY SameThreads, Zenon DEF Next
<1>2. \A w \in Threads : worker'[w].buf = worker[w].buf
  BY OthersEffect, Zenon
<1>3. pipe \in [Threads -> Seq(Bytes)] /\ flips \in Nat /\ flip.byte \in {"l", "g"}
  BY Zenon DEF Types
<1>4. CASE MainStep \/ ClientStep
  <2>1. UNCHANGED <<flip, flips, item_lock_type, stray, init_count>>
    <3>1. CASE MainStep
      BY <3>1, ZenonT(30) DEF MainStep, setup_thread, exit, create_worker,
         thread_init_returns,
                  dispatch_conn_new, write_notify
    <3>2. CASE ClientStep
      BY <3>2, Zenon DEF ClientStep, conn_listening, ClientSends, ClientCloses
    <3> QED
      BY <1>4, <3>1, <3>2, Zenon
  <2>2. ASSUME NEW w \in Threads
        PROVE  pipe'[w] = pipe[w] \/ pipe'[w] = Append(pipe[w], "c")
    <3>1. pipe' = pipe \/ pipe' = [pipe EXCEPT ![main.tid] = Append(pipe[main.tid], "c")]
      <4>1. CASE MainStep
        BY <4>1, ZenonT(30) DEF MainStep, setup_thread, create_worker, thread_init_returns,
                    dispatch_conn_new, write_notify
      <4>2. CASE ClientStep
        BY <4>2, ZenonT(30) DEF ClientStep, conn_listening, ClientSends, ClientCloses
      <4> QED
        BY <1>4, <4>1, <4>2, Zenon
    <3> QED
      BY <1>3, <3>1, Zenon
  <2>3. \A w \in Threads : /\ Quiet(w)' <=> Quiet(w)
                           /\ Pending(w) \/ InHand(w) => Pending(w)' \/ InHand(w)'
    BY <1>2, <2>1, <2>2, NoticesKeep, Zenon
  <2> QED
    BY <1>1, <2>1, <2>3, FlipSame, Zenon
<1>5. CASE StartFlip
  <2>1. /\ flips' = flips + 1 /\ flip'.waiting /\ flip'.byte \in {"l", "g"}
        /\ init_count' = 0 /\ UNCHANGED <<stray, worker>> /\ ~flip.waiting
    BY <1>3, <1>5, Zenon DEF StartFlip
  <2>2. flips' > 0
    BY <1>3, <2>1, SMTT(30)
  <2>3. SUFFICES ASSUME ~stray PROVE FlipInv'
    BY <2>1, <2>2, SMTT(30) DEF FlipInv
  <2>4. ASSUME NEW w \in Threads PROVE Quiet(w)
    <3>1. flips = 0 \/ flips > 0
      BY <1>3
    <3> QED
      BY <2>1, <2>3, <3>1, Zenon DEF FlipInv, Done
  <2>5. ASSUME NEW w \in Threads PROVE Pending(w)' /\ ~Done(w)'
    <3>0. PICK n \in Nat : n = Len(pipe[w])
      BY <1>3
    <3>1. pipe'[w] = Append(pipe[w], flip'.byte)
      BY <1>5, Zenon DEF StartFlip
    <3>2. /\ n \in Nat /\ Len(pipe'[w]) = n + 1 /\ pipe'[w][n + 1] = flip'.byte
          /\ \A j \in 1..n : pipe'[w][j] = pipe[w][j]
      BY <1>3, <3>0, <3>1, SMTT(30)
    <3>3. \A j \in 1..n : pipe'[w][j] = "c"
      BY <2>4, <3>0, <3>2, Zenon DEF Quiet, OnlyNotices
    <3>4. n + 1 \in 1..Len(pipe'[w]) /\ ByteAt(w, n + 1)'
      BY <3>2, <3>3 DEF ByteAt
    <3>5. Notice(worker'[w].buf)
      BY <2>1, <2>4, Zenon DEF Quiet
    <3>6. ~OnlyNotices(w)'
      BY <2>1, <3>2, <3>4, Zenon DEF OnlyNotices
    <3> QED
      BY <3>4, <3>5, <3>6, Zenon DEF Pending, Notice, Done, Quiet
  <2>6. AllDone' = {}
    BY <1>1, <2>5, Zenon DEF AllDone
  <2>7. init_count' = Cardinality(AllDone')
    BY <2>1, <2>6, FS_EmptySet, Zenon
  <2> QED
    BY <1>1, <2>1, <2>2, <2>5, <2>7, SMTT(30) DEF FlipInv
<1>6. CASE EndFlip
  <2>1. /\ flip' = [flip EXCEPT !.waiting = FALSE] /\ AllRegistered /\ flip.waiting
        /\ UNCHANGED <<flips, stray, pipe, item_lock_type, init_count, worker>>
    BY <1>6, Zenon DEF EndFlip
  <2>2. flip'.byte = flip.byte /\ ~flip'.waiting
    BY <2>1, Zenon DEF Types
  <2>3. flips > 0
    BY <1>3, <2>1 DEF FlipInv
  <2>4. SUFFICES ASSUME ~stray PROVE FlipInv'
    BY <2>1, <2>2, Zenon DEF FlipInv
  <2>5. \A w \in Threads : Done(w)' <=> Done(w)
    BY <2>1, <2>2, Zenon DEF Done, Quiet, OnlyNotices, Notice
  <2>6. AllDone' = AllDone /\ AllDone \subseteq Threads /\ settings \in Settings
    BY <1>1, <2>5, Zenon DEF AllDone, Types
  <2>7. Cardinality(AllDone) >= settings.num_threads
    BY <2>1, <2>3, <2>4, Zenon DEF AllRegistered, FlipInv
  <2>8. AllDone = Threads
    BY <2>6, <2>7, AllOfThem, Zenon
  <2>9. \A w \in Threads : Done(w)'
    BY <2>5, <2>8, Zenon DEF AllDone
  <2> QED
    BY <1>1, <2>1, <2>2, <2>3, <2>4, <2>6, <2>9, Zenon DEF FlipInv
<1> QED
  BY <1>4, <1>5, <1>6, Zenon

-----------------------------------------------------------------------------
(* BarrierInv holds at first.                                              *)
LEMMA BarrierInit == Init => BarrierInv
<1> SUFFICES ASSUME Init PROVE BarrierInv
  BY Zenon
<1>1. \A w \in Threads : /\ worker[w].pc = "none" /\ worker[w].active = {}
                         /\ worker[w].buf = NoByte /\ pipe[w] = <<>>
  BY Zenon DEF Init
<1>2. main.pc = "setup" /\ flips = 0 /\ init_count = 0 /\ ~flip.waiting /\ DOMAIN conn = {}
  BY DEF Init
<1>3. Cardinality(Reported) = 0
  <2>1. Reported = {}
    BY <1>1, Zenon DEF Reported
  <2> QED
    BY <2>1, FS_EmptySet, Zenon
<1>4. StartInv
  BY <1>1, <1>2, <1>3, Zenon DEF StartInv, Starting, Serving
<1>5. PipeInv
  BY <1>1, Zenon DEF PipeInv
<1>6. \A w \in Threads : Quiet(w)
  BY <1>1, SMTT(30) DEF Quiet, OnlyNotices, Notice
<1>7. FlipInv
  BY <1>2, <1>6 DEF FlipInv
<1> QED
  BY <1>4, <1>5, <1>7, TypesInit, Zenon DEF BarrierInv

(* Every step keeps BarrierInv.                                            *)
LEMMA BarrierStep == BarrierInv /\ [Next]_vars => BarrierInv'
<1> SUFFICES ASSUME BarrierInv, [Next]_vars PROVE BarrierInv'
  BY Zenon
<1>1. Types /\ StartInv /\ PipeInv /\ FlipInv
  BY Zenon DEF BarrierInv
<1>2. CASE MainStep \/ ClientStep \/ StartFlip \/ EndFlip
  <2>1. Types'
    BY <1>1, <1>2, TypesMain, TypesOthers, Zenon DEF ClientStep
  <2> QED
    BY <1>1, <1>2, <2>1, StartMain, PipeOthers, FlipOthers, Zenon DEF BarrierInv
<1>3. ASSUME NEW w \in Threads, WorkerStep(w) PROVE BarrierInv'
  BY <1>1, <1>3, TypesWorker, StartWorker, PipeWorker, FlipWorker, Zenon DEF BarrierInv
<1>4. CASE UNCHANGED vars
  <2>1. UNCHANGED <<settings, main, last_thread, worker, item_lock_type, flip, flips, init_count,
                    queue, pipe, conn, stray>>
    BY <1>4, Zenon DEF vars, mainVars, lockVars, chanVars, connVars, faultVars
  <2>2. Threads' = Threads
    BY <2>1, Zenon DEF Threads
  <2>3. Types'
    BY <1>1, <2>1, <2>2, Zenon DEF Types
  <2>4. StartInv'
    BY <1>1, <2>1, <2>2, Zenon DEF StartInv, Starting, Serving, Reported
  <2>5. PipeInv'
    BY <1>1, <2>1, <2>2, Zenon DEF PipeInv
  <2>6. FlipInv'
    <3>1. \A w \in Threads : /\ Quiet(w)' <=> Quiet(w)
                             /\ Pending(w) \/ InHand(w) => Pending(w)' \/ InHand(w)'
      BY <1>1, <2>1, NoticesKeep, Zenon
    <3> QED
      BY <1>1, <2>1, <2>2, <3>1, FlipSame, Zenon
  <2> QED
    BY <2>3, <2>4, <2>5, <2>6, Zenon DEF BarrierInv
<1> QED
  BY <1>2, <1>3, <1>4, Zenon DEF Next

(* Whoever waits for the workers goes on only when every worker has        *)
(* reported in and done its part, for every number of workers: thread_init *)
(* at the start, and a flip of the lock type whatever connections arrive   *)
(* in between (wait_for_thread_registration, thread_libevent_process).     *)
THEOREM BarrierTheorem == Spec => []ReportedIn
<1>1. BarrierInv => ReportedIn
  <2> SUFFICES ASSUME BarrierInv PROVE ReportedIn
    BY Zenon
  <2>1. Serving => \A w \in Threads : item_lock_type[w] # "unset"
    BY Zenon DEF BarrierInv, StartInv
  <2>2. flips > 0 /\ ~flip.waiting /\ ~stray =>
          \A w \in Threads : item_lock_type[w] = LockType(flip.byte)
    BY Zenon DEF BarrierInv, FlipInv, Done
  <2> QED
    BY <2>1, <2>2, Zenon DEF ReportedIn
<1> QED
  BY <1>1, BarrierInit, BarrierStep, PTL DEF Spec
=============================================================================
