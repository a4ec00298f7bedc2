-------------------------- MODULE MemcachedThreads --------------------------
(***************************************************************************)
(* The threads of memcached: the main thread sets the workers up, accepts  *)
(* connections and hands each to a worker through the worker's queue and   *)
(* notify pipe; a worker takes them over and drives each one's state       *)
(* machine; another thread makes all workers flip their lock type.         *)
(*                                                                         *)
(* Every worker has its own event base: its callbacks run one at a time,   *)
(* between the steps of the other threads.  A conn is named by its         *)
(* descriptor (conns[sfd]), so the check fd # c->sfd of event_handler      *)
(* cannot fail here.  UDP, the states conn_nread, conn_swallow, conn_write *)
(* (elided in the source) and the content of commands are left out.        *)
(***************************************************************************)
EXTENDS Integers, Sequences, FiniteSets, Functions

CONSTANTS
  Settings,     \* the settings to start with: num_threads, maxconns,
                \* maxconns_fast and reqs_per_event
  Fds,          \* descriptors of client sockets, numbers
  CmdLen,       \* length of a command
  Chunk,        \* bytes that arrive at a time
  MaxArrivals,  \* bound, for every num_threads: clients that connect
  MaxBytes,     \* bound, for every num_threads: bytes that the clients send
  MaxFlips,     \* bound: flips of the lock type
  MaxFaults     \* bound: calls that fail once the workers run

ASSUME SettingsAssumption ==
  Settings \subseteq [num_threads : Nat \ {0}, maxconns : Nat,
                      maxconns_fast : BOOLEAN, reqs_per_event : Nat \ {0}]
ASSUME FdsAssumption == Fds \subseteq Nat \ {0} /\ IsFiniteSet(Fds)
ASSUME LengthsAssumption == {CmdLen, Chunk} \subseteq Nat \ {0}
ASSUME BoundsAssumption ==
  /\ {MaxFlips, MaxFaults} \subseteq Nat
  /\ \A s \in Settings : {MaxArrivals[s.num_threads], MaxBytes[s.num_threads]} \subseteq Nat

VARIABLES
  settings,
  main,         \* the main thread: label, socket it holds, worker chosen
  last_thread,
  init_count,   \* workers that have reported in (register_thread_initialized)
  worker,       \* each worker thread: label, events that libevent has found
                \* active, buf[0], conn it drives, nreqs
  item_lock_type,
  flip,         \* the thread that flips the lock type: waiting?, what for
  queue,        \* new_conn_queue of each worker
  pipe,         \* bytes in its notify pipe
  conn,         \* the conns of workers: state, rbytes, event, thread
  sock,         \* open client sockets: bytes to read, end of file?
  arrivals,     \* clients that have connected
  sent,         \* bytes that clients have sent
  flips,        \* flips started
  faults,       \* calls that have failed
  lost,         \* history: writes to each pipe that failed
  stray         \* history: has a read of a pipe failed?

mainVars == <<main, last_thread>>
lockVars == <<item_lock_type, flip, flips, init_count>>
chanVars == <<queue, pipe, lost>>
connVars == <<conn, sock>>
clientVars == <<arrivals, sent>>
faultVars == <<faults, stray>>
vars == <<settings, mainVars, worker, lockVars, chanVars, connVars, clientVars, faultVars>>

Threads == 0..(settings.num_threads - 1)
NoFd == -1
Pipe == 0             \* the receiving end of a worker's notify pipe
NoThread == -1
NoByte == "none"
Bytes == {"c", "l", "g"}
Garbage == Bytes \cup {NoByte}    \* an uninitialized buf[0]
LockType(byte) == IF byte = "g" THEN "global" ELSE "granular"

MainLabels == {"setup", "create", "wait", "serve", "dispatch", "notify", "exited"}
ConnStates == {"conn_new_cmd", "conn_waiting", "conn_read", "conn_parse_cmd",
               "conn_closing"}

Open == DOMAIN sock
Running == main.pc # "exited"
Fails == faults < MaxFaults /\ faults' = faults + 1
Works == UNCHANGED faults
Idle(w) == Running /\ worker[w].pc = "loop"

TypeOK ==
  /\ settings \in Settings
  /\ main \in [pc : MainLabels, sfd : Fds \cup {NoFd}, tid : Threads \cup {NoThread}]
  /\ last_thread \in Threads \cup {NoThread}
  /\ init_count \in Nat
  /\ worker \in [Threads -> [pc : {"none", "start", "loop", "switch", "drive"},
                             active : SUBSET (Fds \cup {Pipe}), buf : Garbage,
                             fd : Fds \cup {NoFd}, nreqs : Nat]]
  /\ item_lock_type \in [Threads -> {"unset", "granular", "global"}]
  /\ flip \in [waiting : BOOLEAN, byte : {"l", "g"}]
  /\ queue \in [Threads -> Seq(Fds)]
  /\ pipe \in [Threads -> Seq(Bytes)]
  /\ conn \in [DOMAIN conn -> [state : ConnStates, rbytes : Nat,
                               ev : {"read", "write"}, thread : Threads]]
  /\ DOMAIN conn \cup Open \subseteq Fds
  /\ sock \in [Open -> [bytes : Nat, eof : BOOLEAN]]
  /\ arrivals \in Nat /\ sent \in Nat /\ flips \in 0..MaxFlips
  /\ faults \in 0..MaxFaults
  /\ lost \in [Threads -> 0..MaxFaults] /\ stray \in BOOLEAN

Init ==
  /\ settings \in Settings
  /\ main = [pc |-> "setup", sfd |-> NoFd, tid |-> NoThread]
  /\ last_thread = NoThread
  /\ init_count = 0
  /\ worker = [w \in Threads |-> [pc |-> "none", active |-> {}, buf |-> NoByte,
                                  fd |-> NoFd, nreqs |-> 0]]
  /\ item_lock_type = [w \in Threads |-> "unset"]
  /\ flip = [waiting |-> FALSE, byte |-> "l"]
  /\ queue = [w \in Threads |-> <<>>]
  /\ pipe = [w \in Threads |-> <<>>]
  /\ conn = <<>> /\ sock = <<>>
  /\ arrivals = 0 /\ sent = 0 /\ flips = 0
  /\ faults = 0 /\ lost = [w \in Threads |-> 0] /\ stray = FALSE

-----------------------------------------------------------------------------
(* Starting up.                                                            *)

\* exit(1): every thread stops.
exit ==
  /\ main' = [main EXCEPT !.pc = "exited"]
  /\ UNCHANGED <<worker, init_count>>

\* thread_init's first loop: a pipe and setup_thread for every worker.
setup_thread ==
  /\ main.pc = "setup"
  /\ \/ main' = [main EXCEPT !.pc = "create"] /\ UNCHANGED <<worker, init_count>>
     \/ exit
  /\ UNCHANGED <<settings, last_thread, item_lock_type, flip, flips, chanVars,
                 connVars, clientVars, faultVars>>

\* One turn of thread_init's second loop, or its end.
create_worker ==
  /\ main.pc = "create"
  /\ LET missing == {w \in Threads : worker[w].pc = "none"}
     IN  \/ /\ missing = {}
            /\ main' = [main EXCEPT !.pc = "wait"]
            /\ UNCHANGED <<worker, init_count>>
         \/ /\ \E i \in missing :
                 /\ \A w \in missing : i <= w
                 /\ worker' = [worker EXCEPT ![i].pc = "start"]
            /\ UNCHANGED <<main, init_count>>
         \/ missing # {} /\ exit
  /\ UNCHANGED <<settings, last_thread, item_lock_type, flip, flips, chanVars,
                 connVars, clientVars, faultVars>>

\* One worker too few is waited for.
MutWaitForOneLess == init_count >= settings.num_threads - 1

\* wait_for_thread_registration(nthreads) returns.
AllRegistered == init_count >= settings.num_threads

\* The end of thread_init; main goes on to the listening socket and its event
\* loop, or ends when something on the way fails.
thread_init_returns ==
  /\ main.pc = "wait"
  /\ AllRegistered
  /\ \/ main' = [main EXCEPT !.pc = "serve"] /\ UNCHANGED <<worker, init_count>>
     \/ exit
  /\ UNCHANGED <<settings, last_thread, item_lock_type, flip, flips, chanVars,
                 connVars, clientVars, faultVars>>

\* The worker sets its lock type, reports in and enters its event loop.
worker_libevent(w) ==
  /\ Running /\ worker[w].pc = "start"
  /\ item_lock_type' = [item_lock_type EXCEPT ![w] = "granular"]
  /\ init_count' = init_count + 1
  /\ worker' = [worker EXCEPT ![w].pc = "loop"]
  /\ UNCHANGED <<settings, mainVars, flip, flips, chanVars, connVars, clientVars, faultVars>>

-----------------------------------------------------------------------------
(* The main thread hands connections over.                                 *)

Serving == main.pc \in {"serve", "dispatch", "notify"}

FreeFds == Fds \ Open
reserved_fds == 5 * settings.num_threads
curr_conns == Cardinality(DOMAIN conn)

TooMany ==
  settings.maxconns_fast /\ curr_conns + reserved_fds >= settings.maxconns - 1

Close(f) == sock' = Restrict(sock, Open \ {f})

\* A client connects; it is the kernel that gives accept the lowest free
\* descriptor.
conn_listening ==
  /\ main.pc = "serve"
  /\ arrivals < MaxArrivals[settings.num_threads] /\ FreeFds # {}
  /\ arrivals' = arrivals + 1
  /\ \/ TooMany /\ UNCHANGED <<main, sock>>     \* closed again
     \/ /\ ~TooMany
        /\ \E sfd \in FreeFds :
             /\ \A f \in FreeFds : sfd <= f
             /\ sock' = [f \in Open \cup {sfd} |->
                           IF f = sfd THEN [bytes |-> 0, eof |-> FALSE]
                                      ELSE sock[f]]
             /\ main' = [main EXCEPT !.pc = "dispatch", !.sfd = sfd]
  /\ UNCHANGED <<settings, last_thread, worker, lockVars, chanVars, conn, sent, faultVars>>

\* The index of the next worker is not wrapped.
MutNextThread == last_thread + 1

\* Round robin.
NextThread == (last_thread + 1) % settings.num_threads

\* dispatch_conn_new up to cq_push.  cqi_new may fail.
dispatch_conn_new ==
  /\ main.pc = "dispatch"
  /\ \/ /\ Fails
        /\ Close(main.sfd)
        /\ main' = [main EXCEPT !.pc = "serve", !.sfd = NoFd]
        /\ UNCHANGED <<last_thread, queue>>
     \/ /\ Works
        /\ last_thread' = NextThread
        /\ queue' = [queue EXCEPT ![NextThread] = Append(@, main.sfd)]
        /\ main' = [pc |-> "notify", sfd |-> NoFd, tid |-> NextThread]
        /\ UNCHANGED sock
  /\ UNCHANGED <<settings, worker, lockVars, pipe, lost, conn, clientVars, stray>>

\* The byte goes to the next worker.
MutNotifyOther ==
  /\ main.pc = "notify"
  /\ pipe' = [pipe EXCEPT ![(main.tid + 1) % settings.num_threads] = Append(@, "c")]
  /\ main' = [main EXCEPT !.pc = "serve", !.tid = NoThread]
  /\ UNCHANGED <<settings, last_thread, worker, lockVars, queue, lost, connVars,
                 clientVars, faultVars>>

\* The write to the notify pipe; when it fails nothing is undone.
write_notify ==
  /\ main.pc = "notify"
  /\ \/ /\ Works
        /\ pipe' = [pipe EXCEPT ![main.tid] = Append(@, "c")]
        /\ UNCHANGED lost
     \/ /\ Fails
        /\ lost' = [lost EXCEPT ![main.tid] = @ + 1]
        /\ UNCHANGED pipe
  /\ main' = [main EXCEPT !.pc = "serve", !.tid = NoThread]
  /\ UNCHANGED <<settings, last_thread, worker, lockVars, queue, connVars,
                 clientVars, stray>>

-----------------------------------------------------------------------------
(* Another thread flips the lock type, to global and back: it tells every  *)
(* worker and waits until all have reported in.                            *)

StartFlip ==
  /\ Serving /\ ~flip.waiting /\ flips < MaxFlips
  /\ flips' = flips + 1
  /\ flip' = [waiting |-> TRUE, byte |-> IF flip.byte = "l" THEN "g" ELSE "l"]
  /\ init_count' = 0
  /\ pipe' = [w \in Threads |-> Append(pipe[w], flip'.byte)]
  /\ UNCHANGED <<settings, mainVars, worker, item_lock_type, queue, lost, connVars,
                 clientVars, faultVars>>

EndFlip ==
  /\ Running /\ flip.waiting /\ AllRegistered
  /\ flip' = [flip EXCEPT !.waiting = FALSE]
  /\ UNCHANGED <<settings, mainVars, worker, item_lock_type, flips, init_count,
                 chanVars, connVars, clientVars, faultVars>>

-----------------------------------------------------------------------------
(* event_base_loop of worker w.  It collects the events that are ready and *)
(* calls the callback of each, then looks again.                           *)

\* The socket is ready for the event that its conn asks for; room to write
\* there always is, as nothing but short answers is written.
EventReady(f) ==
  \/ conn[f].ev = "write"
  \/ sock[f].bytes > 0 \/ sock[f].eof

ReadyEvents(w) ==
  {f \in DOMAIN conn : conn[f].thread = w /\ EventReady(f)}
    \cup (IF pipe[w] = <<>> THEN {} ELSE {Pipe})

event_base_loop(w) ==
  /\ Idle(w) /\ worker[w].active = {}
  /\ ReadyEvents(w) # {}
  /\ worker' = [worker EXCEPT ![w].active = ReadyEvents(w)]
  /\ UNCHANGED <<settings, mainVars, lockVars, chanVars, connVars, clientVars, faultVars>>

-----------------------------------------------------------------------------
(* thread_libevent_process: the notify pipe of worker w is readable.       *)

\* Reads all that is in the pipe and acts on the first byte.
MutReadAll(w) == [pipe EXCEPT ![w] = <<>>]

ReadOne(w) == [pipe EXCEPT ![w] = Tail(@)]

read_notify(w) ==
  /\ Idle(w) /\ Pipe \in worker[w].active
  /\ \/ /\ worker' = [worker EXCEPT ![w].pc = "switch", ![w].active = @ \ {Pipe},
                                    ![w].buf = Head(pipe[w])]
        /\ pipe' = ReadOne(w)
        /\ Works /\ UNCHANGED stray
     \/ /\ Fails
        /\ stray' = TRUE
        /\ \E garbage \in Garbage :
             worker' = [worker EXCEPT ![w].pc = "switch", ![w].active = @ \ {Pipe},
                                      ![w].buf = garbage]
        /\ UNCHANGED pipe
  /\ UNCHANGED <<settings, mainVars, lockVars, queue, lost, connVars, clientVars>>

BackToLoop(w) ==
  worker' = [worker EXCEPT ![w].pc = "loop", ![w].buf = NoByte, ![w].fd = NoFd,
                            ![w].nreqs = 0]

NewConn(f, w) ==
  conn' = [g \in DOMAIN conn \cup {f} |->
             IF g = f THEN [state |-> "conn_new_cmd", rbytes |-> 0, ev |-> "read",
                            thread |-> w]
                      ELSE conn[g]]

\* The connection of a failed conn_new is closed and its conn kept.
MutCloseKeepsConn(w) ==
  /\ queue[w] # <<>>
  /\ queue' = [queue EXCEPT ![w] = Tail(@)]
  /\ NewConn(Head(queue[w]), w)
  /\ \/ Fails /\ Close(Head(queue[w]))
     \/ Works /\ UNCHANGED sock

\* The body of case 'c': cq_pop, conn_new, which fails when event_add does,
\* and close or c->thread = me.
TakeConnection(w) ==
  \/ /\ queue[w] = <<>>
     /\ Works /\ UNCHANGED <<queue, connVars>>
  \/ /\ queue[w] # <<>>
     /\ queue' = [queue EXCEPT ![w] = Tail(@)]
     /\ \/ Works /\ NewConn(Head(queue[w]), w) /\ UNCHANGED sock
        \/ Fails /\ Close(Head(queue[w])) /\ UNCHANGED conn

\* A worker flips and does not report in.
MutNoReport(w, byte) ==
  /\ item_lock_type' = [item_lock_type EXCEPT ![w] = LockType(byte)]
  /\ UNCHANGED init_count

\* The body of the cases 'l' and 'g'.
FlipLockType(w, byte) ==
  /\ item_lock_type' = [item_lock_type EXCEPT ![w] = LockType(byte)]
  /\ init_count' = init_count + 1

thread_libevent_process(w) ==
  /\ Running /\ worker[w].pc = "switch"
  /\ \/ /\ worker[w].buf = "c"
        /\ TakeConnection(w)
        /\ UNCHANGED <<item_lock_type, init_count>>
     \/ /\ worker[w].buf \in {"l", "g"}
        /\ FlipLockType(w, worker[w].buf)
        /\ Works /\ UNCHANGED <<queue, connVars>>
     \/ /\ worker[w].buf = NoByte
        /\ Works /\ UNCHANGED <<queue, connVars, item_lock_type, init_count>>
  /\ BackToLoop(w)
  /\ UNCHANGED <<settings, mainVars, flip, flips, pipe, lost, clientVars, stray>>

-----------------------------------------------------------------------------
(* The conns of a worker.  A client sends bytes or closes its end.         *)

ClientSends(f) ==
  /\ Running /\ f \in Open
  /\ ~sock[f].eof /\ sent + Chunk <= MaxBytes[settings.num_threads]
  /\ sock' = [sock EXCEPT ![f].bytes = @ + Chunk]
  /\ sent' = sent + Chunk
  /\ UNCHANGED <<settings, mainVars, worker, lockVars, chanVars, conn, arrivals, faultVars>>

ClientCloses(f) ==
  /\ Running /\ f \in Open /\ ~sock[f].eof
  /\ sock' = [sock EXCEPT ![f].eof = TRUE]
  /\ UNCHANGED <<settings, mainVars, worker, lockVars, chanVars, conn, clientVars, faultVars>>

\* libevent calls event_handler, which calls drive_machine.
event_handler(w, f) ==
  /\ Idle(w) /\ f \in worker[w].active
  /\ worker' = [worker EXCEPT ![w].pc = "drive", ![w].active = @ \ {f}, ![w].fd = f,
                              ![w].nreqs = settings.reqs_per_event]
  /\ UNCHANGED <<settings, mainVars, lockVars, chanVars, connVars, clientVars, faultVars>>

\* conn_set_state, and another turn of drive_machine's loop.
SetState(f, state) == conn' = [conn EXCEPT ![f].state = state]
GoOn == UNCHANGED worker /\ Works

\* update_event(c, flags) and what drive_machine makes of its failure.
UpdateEvent(w, f, ev, state) ==
  \/ /\ conn' = [conn EXCEPT ![f].ev = ev, ![f].state = state]
     /\ BackToLoop(w) /\ Works
  \/ Fails /\ SetState(f, "conn_closing") /\ UNCHANGED worker

\* Out of nreqs: the conn stops without asking for an event.
MutYieldSilently(w, f) ==
  /\ worker[w].nreqs = 0
  /\ UNCHANGED conn
  /\ BackToLoop(w) /\ Works

\* Out of nreqs: with input in the buffer the conn asks to be called when it
\* can write.
Yield(w, f) ==
  /\ worker[w].nreqs = 0
  /\ \/ conn[f].rbytes > 0 /\ UpdateEvent(w, f, "write", "conn_new_cmd")
     \/ conn[f].rbytes = 0 /\ UNCHANGED conn /\ BackToLoop(w) /\ Works

conn_new_cmd(w, f) ==
  /\ conn[f].state = "conn_new_cmd"
  /\ \/ /\ worker[w].nreqs > 0
        /\ worker' = [worker EXCEPT ![w].nreqs = @ - 1] /\ Works
        /\ SetState(f, IF conn[f].rbytes > 0 THEN "conn_parse_cmd" ELSE "conn_waiting")
     \/ Yield(w, f)
  /\ UNCHANGED sock

\* Its body is elided in the source.
conn_waiting(w, f) ==
  /\ conn[f].state = "conn_waiting"
  /\ UpdateEvent(w, f, "read", "conn_read")
  /\ UNCHANGED sock

\* try_read_network takes all there is; READ_MEMORY_ERROR ends in closing.
conn_read(w, f) ==
  /\ conn[f].state = "conn_read"
  /\ \/ /\ sock[f].bytes > 0
        /\ conn' = [conn EXCEPT ![f].state = "conn_parse_cmd",
                                ![f].rbytes = @ + sock[f].bytes]
        /\ sock' = [sock EXCEPT ![f].bytes = 0]
        /\ Works
     \/ /\ sock[f].bytes > 0 /\ Fails
        /\ SetState(f, "conn_closing") /\ UNCHANGED sock
     \/ /\ sock[f].bytes = 0 /\ Works
        /\ SetState(f, IF sock[f].eof THEN "conn_closing" ELSE "conn_waiting")
        /\ UNCHANGED sock
  /\ UNCHANGED worker

\* try_read_command carries out one command, if a whole one is there.
conn_parse_cmd(w, f) ==
  /\ conn[f].state = "conn_parse_cmd"
  /\ \/ /\ conn[f].rbytes >= CmdLen
        /\ conn' = [conn EXCEPT ![f].state = "conn_new_cmd", ![f].rbytes = @ - CmdLen]
     \/ conn[f].rbytes < CmdLen /\ SetState(f, "conn_waiting")
  /\ GoOn
  /\ UNCHANGED sock

\* conn_close.
conn_closing(w, f) ==
  /\ conn[f].state = "conn_closing"
  /\ conn' = Restrict(conn, DOMAIN conn \ {f})
  /\ Close(f)
  /\ BackToLoop(w) /\ Works

drive_machine(w) ==
  /\ Running /\ worker[w].pc = "drive"
  /\ LET f == worker[w].fd
     IN  \/ conn_new_cmd(w, f)
         \/ conn_waiting(w, f)
         \/ conn_read(w, f)
         \/ conn_parse_cmd(w, f)
         \/ conn_closing(w, f)
  /\ UNCHANGED <<settings, mainVars, lockVars, chanVars, clientVars, stray>>

-----------------------------------------------------------------------------
MainStep ==
  \/ setup_thread
  \/ create_worker
  \/ thread_init_returns
  \/ dispatch_conn_new
  \/ write_notify

WorkerStep(w) ==
  \/ worker_libevent(w)
  \/ event_base_loop(w)
  \/ read_notify(w)
  \/ \E f \in Fds : event_handler(w, f)
  \/ thread_libevent_process(w)
  \/ drive_machine(w)

ClientStep ==
  \/ conn_listening
  \/ \E f \in Fds : ClientSends(f) \/ ClientCloses(f)

Next ==
  \/ MainStep
  \/ ClientStep
  \/ EndFlip
  \/ StartFlip
  \/ \E w \in Threads : WorkerStep(w)

Spec == Init /\ [][Next]_vars

(***************************************************************************)
(* Fairness: every thread runs.  Nothing is assumed of the clients or of   *)
(* the order in which libevent calls the callbacks of ready events.        *)
(***************************************************************************)
FairSpec ==
  /\ Spec
  /\ WF_vars(MainStep)
  /\ WF_vars(EndFlip)
  /\ \A w \in UNION {0..(s.num_threads - 1) : s \in Settings} :
       WF_vars(w \in Threads /\ WorkerStep(w))

-----------------------------------------------------------------------------
Queued(f) == {w \in Threads : f \in Range(queue[w])}
Count(seq, x) == Cardinality({i \in DOMAIN seq : seq[i] = x})
One(condition) == IF condition THEN 1 ELSE 0

(* A descriptor that is open is held in exactly one place, by the main     *)
(* thread in drive_machine, by one item of one queue or by one conn, and   *)
(* no place holds a closed one, whatever fails on the way and although     *)
(* closed descriptors are used again: nothing leaks and nothing is closed  *)
(* twice (dispatch_conn_new, thread_libevent_process, conn_close).         *)
OneHolder ==
  /\ \A w \in Threads : IsInjective(queue[w])
  /\ \A f \in Fds :
       One(main.sfd = f) + Cardinality(Queued(f)) + One(f \in DOMAIN conn)
         = One(f \in Open)

(* For every connection in a worker's queue a byte is in its pipe or on    *)
(* the way from the main thread to the worker's cq_pop, but for as many    *)
(* as there were failed writes (dispatch_conn_new pushes first and writes  *)
(* then; thread_libevent_process reads first and pops then).               *)
ItemsNotified ==
  \A w \in Threads :
    Len(queue[w]) <= Count(pipe[w], "c") + One(worker[w].buf = "c")
                       + One(main.pc = "notify" /\ main.tid = w) + lost[w]

(* Who waits for the workers to report in goes on only when every one of   *)
(* them has done its part: all have set a lock type when thread_init       *)
(* returns, and all have the type asked for when a flip returns, unless a  *)
(* worker acted on a byte that it failed to read                           *)
(* (wait_for_thread_registration, worker_libevent,                         *)
(* thread_libevent_process).                                               *)
ReportedIn ==
  /\ Serving => \A w \in Threads : item_lock_type[w] # "unset"
  /\ flips > 0 /\ ~flip.waiting /\ ~stray =>
       \A w \in Threads : item_lock_type[w] = LockType(flip.byte)

(* Every connection that is queued is taken over or closed by its worker,  *)
(* unless the write of a byte failed (dispatch_conn_new,                   *)
(* thread_libevent_process).                                               *)
ConnectionsTaken ==
  \A f \in Fds : Queued(f) # {} ~> Queued(f) = {} \/ \E w \in Threads : lost[w] > 0

(* A whole command that a client has sent is carried out, or its           *)
(* connection closed, also when the conn yields with the command in its    *)
(* buffer and no byte left in the socket (conn_new_cmd of drive_machine).  *)
CommandsServed ==
  \A f \in Fds :
    LET Waiting == f \in DOMAIN conn /\ conn[f].rbytes + sock[f].bytes >= CmdLen
    IN  Waiting ~> ~Waiting

(* Whoever waits for the workers to report in does not wait for ever       *)
(* (wait_for_thread_registration): main serves or ends, a flip returns.    *)
RegistrationEnds ==
  /\ main.pc = "wait" ~> Serving \/ ~Running
  /\ flip.waiting ~> ~flip.waiting
=============================================================================
