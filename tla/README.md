# A verification of SourceCode in TLA+

The repository holds annotated sources of three systems: the network library
muduo (an event loop per thread, timers, TCP server), the Linux `eventpoll.c`
and the connection threads of memcached.  This directory keeps TLA+ models of
them, TLC configurations that check the models on small instances, and proofs
that TLAPS checks for all instances.

## Inventory

| Part | State | Operations | What makes it hard |
| --- | --- | --- | --- |
| EventLoop (`EventLoop.cc/.h`) | `looping_`, `quit_`, `pendingFunctors_`, `callingPendingFunctors_`, the eventfd, the active channels | `loop`, `quit`, `runInLoop`, `queueInLoop`, `wakeup`, `handleRead`, `doPendingFunctors` | wakeups from other threads against a blocking poll |
| TimerQueue (`TimerQueue.cc/.h`, `Timer.*`, `TimerId.h`) | `timers_`, `activeTimers_`, `cancelingTimers_`, the timerfd, the Timers on the heap | `addTimer`, `cancel`, `handleRead`, `getExpired`, `reset` | callbacks that add and cancel timers, other threads, addresses used again, two clocks |
| eventpoll (`eventpoll.c`) | the items, `rdllist`, `txlist`, `ovflist`, `wq`, `mtx` | `epoll_ctl`, `ep_insert`, `ep_poll_callback`, `epoll_wait`, `ep_scan_ready_list`, `ep_send_events_proc` | events during a scan, exclusive waiters, timeouts, signals, failures |
| TcpConnection (`TcpConnection.cc/.h`) | `state_`, `reading_`, the channel's events, `outputBuffer_` | `send`, `shutdown`, `forceClose`, `startRead`, `stopRead`, `connectEstablished`, `connectDestroyed`, `handleRead/Write/Close` | `state_` is tested and set without a lock on any thread |
| TcpServer (`TcpServer.cc/.h`) | `connections_`, `started_`, `nextConnId_` | `start`, `newConnection`, `removeConnection`, the destructor | hand-over between the base loop and the I/O loops |
| Acceptor (`Acceptor.cc/.h`) | `listenning_`, `idleFd_` | `listen`, `handleRead` | accept when no descriptor is left |
| Channel (`Channel.cc/.h`), Poller (`Poller.cc/.h`) | `events_`, `revents_`, `tied_`, `addedToLoop_` | `handleEvent`, `update`, `remove`, `tie` | callbacks that destroy what is being handled |
| Socket, SocketsOps, Buffer, Endian | - | wrappers of system calls, `readFd`, byte order | classification of errors, sizes |
| memcached threads (`memcached.c`) | queues and pipes of the workers, `conn.state`, `last_thread`, `item_lock_type` | `thread_init`, `dispatch_conn_new`, `thread_libevent_process`, `drive_machine` | queue and pipe can disagree, calls fail half way, a barrier over all workers |

A TcpServer owns an Acceptor on the base loop and hands each connection to a
loop; every cross-thread call goes through `EventLoop::runInLoop`; timers and
channels are handlers of their loop; the poller of a loop is an eventpoll.
`PROJECT.json` lists the hazards of each part at the line where they bite.

## Modules

**FunctorQueue** is the abstract promise of `queueInLoop`, and of `runInLoop` on
other threads, which calls it: functors run exactly once, in the order in which
they were queued.  On the loop's own thread `runInLoop` calls the functor at
once, ahead of what is queued; it changes nothing of the loop and is part of the
user code it is called from.

**EventLoop** models one loop, its thread `IO` and any set of `Others`.  A
critical section under `mutex_`, and every read or write of a variable that
two threads share, is one action: `queueInLoop` pushes, `queueInLoopWakeup`
decides about the wakeup after the unlock; likewise `quit` and `quitWakeup`.
The control `lpc` of the loop goes through `CheckQuit`, `Poll`, the handlers
(`handleRead` for the eventfd, `handleEvent` for a channel of a user, who may
queue and quit), `EnterPendingFunctors`, `SwapFunctors`, `CallFunctor`,
`LeavePendingFunctors`.  The eventfd is a counter up to `EventfdMax`.  The
switch `OutsideCalls` lets the loop thread call in before `loop()`.

**TimerQueue** models the queue with the loop thread, other threads and the
callbacks of timers.  The heap is a partial function from addresses to Timers,
so a deleted address can be used again.  `now` is the wall clock that
expirations refer to and `fdRemaining` the countdown of the timerfd; `Tick`
moves both, `StepClock` only the first.  `addTimer` on another thread ends with
an action of its own, `addTimerReturns`, that reads the sequence; the sequence
is arbitrary when the Timer is gone by then.  Any thread may cancel any TimerId
that was returned.  The history `cancelled` holds the timers that
`cancelInLoop` was called for after their `addTimerInLoop` had run.

**EventPoll** models one eventpoll: drivers that make an event visible
(`EventArrives`) and later call `ep_poll_callback`, `epoll_ctl` in two steps
(`CtlPoll` up to `ep_item_poll`, then `CtlLink` or `ep_insert_fails`), and
threads in `epoll_wait`.  A section under `ep->lock` is one action, `ep->mtx`
is a variable.  An item is named by its file.  The histories `fresh` and
`shots` record the events not yet polled and the reports of a ONESHOT item.
The kernel's lists are sequences; **Lists** says what `list_del` and the loop
over `ovflist` leave of one without recursion (`Without`, `InOrder`), and in
which orders a map may be gone through (`Orders`, for the destructor of
TcpServer), so that the proofs can use them.

**TcpConnection** models one connection from `newConnection` (the initial
state) to the end: its Channel, the functors of its loop, the TcpServer on
another loop, and threads that hold a TcpConnectionPtr.  A handler is one step
up to the user callback it makes; `lpc` says which callback the loop is in, and
`UserReturns` is the rest of the handler.  User code may send, shut down, close
and switch reading in any callback.  A call of another thread is split where
another thread can come in between: `CallTests` reads `state_`, `CallSets` sets
it, `CallQueues` queues the functor.  `sendInLoop` and `handleWrite` leave open
how much the socket takes.  Messages are split into chunks that carry their
message and position, so lost, repeated and reordered output shows.  The
connection lives while it is in the map, in a functor that is bound to a
TcpConnectionPtr, in use on its loop or held by a thread (`Alive`); a functor
bound to `this` that runs later, and every assert that fails, ends up in
`failed`.

A call *crosses* the end of the connection when it takes effect after the
connection was disconnected or its server destroyed, or when the server is
destroyed while a connection is closing; `crossed` records it.  The code has
FIXMEs at these places, and asserts do fail there (`conn_remove`).  The
properties about the end say that nothing else makes them fail.

**ConnLife** is the abstract life of a connection: established, disconnected,
erased from the map when the server is asked to, destroyed on its loop, freed.
TcpConnection implements it (`ImplementsConnLife`, with a refinement mapping
from `state_`, the map and the functors under way), and TcpServer uses a
connection no further than it says (`ConnectionsLive`).  Once a call crosses
the end, ConnLife promises nothing more.

**Acceptor** holds the listening socket, `idleFd_` and the descriptors of the
process, each with its owner; the lowest free number is the next one, as in
POSIX.  `handleRead` either accepts, loses a client that has gone, or, with no
descriptor left, goes through `CloseIdle`, `AcceptIdle`, `CloseAccepted` and
`Reopen`, between which other threads open and close files.  `taken` is what
these threads themselves know: the numbers they have opened and not closed.  A
close with a stale number would drop one of theirs from `open` and leave it in
`taken`.  `accept` and `open` may also fail with a number free, because the
client is gone or the system has no file left (`SystemFull`).

**TcpServer** extends Acceptor with the loops of the pool, the map of
connections and the functors under way between the loops.  `start` is split
after the exchange of `started_`; on the base loop's thread it calls
`Acceptor::listen` at once, on others it queues it.  The loops are those of
EventLoop, reduced to the queue of functors and the callback they are in
(`AtRest`).  `newConnection` gives connections to the loops in turn; a
connection on the base loop is established and removed without a functor, as
`runInLoop` does.  A connection is freed, and its descriptor closed, in the step
that drops the last pointer to it (`Referenced`); users may keep one.
`DestroyServer` is the destructor with that of the Acceptor.

**MemcachedThreads** models the main thread from `thread_init` on, the worker
threads with their event bases, and the thread that flips the lock type (the
caller of the bytes `l` and `g`, outside the source).  `dispatch_conn_new` and
`write_notify` are the two sides of the moment between the push and the byte;
`read_notify` and `thread_libevent_process` those of the worker.  libevent
collects the ready events of a base (`event_base_loop`) and calls their
callbacks in any order.  `drive_machine` takes one step per state.  Every call
whose result the source tests can fail, `MaxFaults` times in a behaviour; a
read that fails leaves an arbitrary `buf[0]`.

**MCEventLoop**, **MCTimerQueue**, **MCEventPoll**, **MCTcpConnection**,
**MCTcpServer** and **MCMemcachedThreads** are the modules that TLC runs; the
`.cfg` files give the constants.  Operators named `Mut...` are plausible faults
of the operation that follows them; each of them makes TLC report the property
that `PROJECT.json` pairs it with.

## Runs

| Run | Shows |
| --- | --- |
| `loop` | the loop never blocks on a pending functor or on `quit_` without a wakeup that is there or coming; functors run once and in order (it implements FunctorQueue); they do run, and `quit` stops the loop |
| `loop_outside` (violation) | a functor queued by the loop thread before `loop()` waits for the poll timeout |
| `loop_quit` (violation) | a `quit()` before `loop()` is forgotten |
| `timer` | every Timer has one owner; while timers wait an alarm is set, and not too late; timers leave the queue only when due or cancelled; a cancelled timer is not queued again; every timer runs or is cancelled |
| `timer_return` (violation) | `addTimer` reads a Timer that may be deleted |
| `epoll_one` | one file, all modes, all disturbances: no event lost, no waiter stranded, no freed item on a list, ONESHOT reports once |
| `epoll_two` | two files and room for one event: nothing is lost or overrun, waiters are handed what is left, no file starves |
| `epoll_zero` (violation) | a call that finds nothing does not return 0 while it has time left |
| `conn` | output goes out in order and completely, is watched for while it waits, and comes before the shutdown; a connection that is being closed shuts its write side down or is disconnected; unless a call crosses the end, no assert fails, nothing is used after its end, the connection ends disconnected, removed from the loop and with one report to the user, and it implements ConnLife |
| `conn_remove` (violation) | a connection that is closing when the `connectDestroyed` of a destroyed server runs has a Channel removed that still has events |
| `server` | every descriptor belongs to the one who closes it, none leaks, and none of another thread is closed; a descriptor stays in reserve and clients are accepted or refused; the asserts of `start` and `removeConnectionInLoop` hold; every connection lives as ConnLife says; the end of the server closes all |
| `workers` | a descriptor is held in one place whatever fails; every queued connection is announced by a byte and taken over; commands are served although connections yield; who waits for the workers goes on when all have reported in, and not before |

The violations are disagreements of the code with a comment or an assertion;
the findings in `PROJECT.json` quote them.

Some behaviours of the code are not claims of any run.  A timer cancelled by
another one of its batch still runs (`handleRead` does not look at
`cancelingTimers_`).  The loop thread can cancel a timer of another thread
before its `addTimerInLoop` has run, without effect.  Another thread can take
the descriptor that `Acceptor::handleRead` has just freed, and another process
the last file of the system; the history `stolen` excepts that from
`IdleReserved` and `BacklogDrains`, but not from `FdsOwned`.
A failed write to a notify pipe leaves its connection in the queue (`lost`),
and a failed read makes a worker act on any byte (`stray`).  A limit of
connections (`maxconns_fast`) does not count the ones that wait in queues.

### Bounds

Two other threads and three functors give a push before, during and after each
step of `doPendingFunctors`; an eventfd limit of 2 lets wakeups pile up.  Two
addresses and two timers give a batch of two, a self-cancelling timer
and an address used again; times up to `Horizon` give timers that are past, due
and in the future; one step of the clock in either direction.  In EventPoll one
file suffices for the races of a single item, with POLLHUP-like events in every
mask; two files and `MaxEvents = 1` are needed for left-overs; two waiters for
exclusive wakeups.  `shots` stops at 2 because the property asks for at most 1.
In TcpConnection two messages of two chunks give output that is split, queued
behind other output and past the high water mark; `MaxPending` limits the calls
made while functors wait, and once a call has crossed the end only what is
under way goes on (`Exploring`): of the properties only `OutputInOrder` speaks
of what follows, and it is proved; `conn_remove` needs no more.  Messages are
numbered in the order in which they are passed to `send`.

In TcpServer three descriptors, of which one is in reserve and one may be taken
by another thread, make three clients meet every case of `handleRead`; the pools
have no loop, so that all is on the base loop, or two, so that loops differ from
it and from each other and the third client shares the loop of the first.
`start` is called on the base loop's thread and on two others.  In
MemcachedThreads two settings are explored together: one worker with two
connections, where three commands and a half arrive in one piece so that a conn
yields with a whole command and with a part of one; and two workers with room
for one conn.  One flip, one fault and two arrivals meet in every order.

### Fairness

EventLoop: the loop thread takes its steps and the threads finish the calls
they have started.  `PollTimeout` has no fairness: the ten seconds of
`kPollTimeMs` would hide every lost wakeup.  TimerQueue: time passes, the loop
runs, and pending functors get their turn once per iteration.  EventPoll: a
driver finishes the wakeup it started, a lock that is repeatedly free is
obtained, threads call `epoll_wait` again; nothing is assumed of files, timers,
signals, faults or `epoll_ctl` calls.  TcpConnection: the loop runs functors in
every iteration (strong fairness, events come in between), callbacks return,
threads finish their calls, timers fire, and the peer reads, so that a socket
that is watched becomes writable again and again and takes something.
TcpServer: the loops run their functors and handlers, the listening socket is
polled, threads finish `start`, users give up their pointers; nothing is
assumed of clients or of threads that open files.  MemcachedThreads: every
thread runs; nothing is assumed of clients or of the order in which libevent
calls back, so `CommandsServed` says that yielding does not depend on it.

## Proofs

`EventLoopProofs` proves for every set of threads, functors and channels and
every eventfd limit above 0:

* `TypeCorrect`: the type invariant, with the bound on the eventfd counter
  (the type invariants of EventLoop, TimerQueue and TcpConnection are proved
  and not part of a run, those of EventPoll, TcpServer and MemcachedThreads are
  both);
* `NeverAsleepOnAFunctor` (without calls before `loop()`), `NeverAsleepOnQuit`,
  `HandlerFindsEventfdReadable`;
* `NothingLostOrOvertaken` and `Refinement`: EventLoop implements FunctorQueue.

The wakeup theorems do not hold by induction alone.  `ControlInv` ties
`callingPendingFunctors_`, `looping_`, the local `functors` and the active
channels to the control of the loop; `WakeInv` says that a pending functor is
*signalled* at every place from which the loop can reach poll without passing
`SwapFunctors`: the eventfd counts, its channel is active, or some thread is
between its push and its `wakeup`.  `OrderInv` says that what was executed, the
local functors and the pending ones are together what was queued; its steps
rest on two lemmas about sequences (`MoveHead`, `PushLast`).

`TimerQueueProofs` proves for every set of threads, addresses, times and
intervals:

* `OwnerTheorem`: every Timer is in the queue (in both containers), in a queued
  `addTimerInLoop` or in the batch, and in one of them only.  `OneOwner` is
  inductive with the types and `BatchWhileCalling` (a batch exists only inside
  `handleRead`);
* `LeavingTheorem`: timers leave the queue only when due or cancelled;
* `CancelTheorem`: a cancelled timer is not queued again.  `CancelInv` adds that
  no queued `addTimerInLoop` names a cancelled timer, that a cancelled timer of
  the batch is in `cancelingTimers_`, and that sequences in use and cancelled
  are not above `s_numCreated_`, so that a new Timer at an old address is new;
* `AlarmTheorem`: while timers wait an alarm is set or about to be handled;
* `InTimeTheorem`: until the wall clock is stepped, the alarm is not later than
  the earliest expiration (`AlarmInTime`).  It is not inductive, because nothing
  is said of the alarm while `handleRead` runs callbacks, and `reset` leaves the
  timerfd alone when the earliest expiration is the invalid one.
  `InvalidArmed` closes the gap: such a timer was added by one of the callbacks,
  which set the alarm to the smallest delay.

`TcpConnectionProofs` proves for all messages, chunk counts and threads that
output goes out in order (`OutputTheorem`), is watched for (`WatchedTheorem`)
and comes before the shutdown (`ShutdownTheorem`).  They rest on one invariant,
`OutputInv`: what is in the socket and the buffer is what was accepted, the
Channel of a usable connection watches for writing exactly as long as the
buffer is not empty, and the write side is closed only with an empty buffer.
`ConnTypes` is the type invariant of the connection.

`TcpConnectionProofs` also proves for the same constants how a connection ends,
until a call or the end of the server crosses it (`crossed`): the asserts on the
way hold (`AssertsTheorem`), it is freed in order (`GoneTheorem`) and it
implements ConnLife (`ConnLifeTheorem`).  None of the three is inductive.
`LifeInv` says in which of five phases the connection is (`Unborn`, `Living`,
`Erasing`, `Dying`, `Dead`) and what holds in each of them of the map, the loop,
the Channel and the calls of other threads, and `QueueInv` orders the functors
that wait: `connectEstablished` comes first, `connectDestroyed` is there once
and only after the server let go, and what is bound to a bare `this` comes
before it.  `StepMoves` says which phases one step leads to and `NoRevival` that
a freed connection stays freed; with the state of ConnLife in each phase
(`Mapped`) every step is then a step of ConnLife (`LifeSimulates`).

`EventPollProofs` proves for all files, events, modes, threads and MaxEvents:

* `PollTypes`: the type invariant, with MaxEvents as the limit of a report;
* `EventTheorem`: no event is lost;
* `WaiterTheorem`: no waiter is left asleep over a ready list;
* `ListsTheorem`: the lists hold registered items, each once;
* `OneShotTheorem`: a ONESHOT item is reported once.

`NoLostEvent` speaks of items and is not inductive: the callback that is still
to come may be for an event that the item does not ask for, and do nothing.
`PollInv` therefore covers every event for itself (`DueInv`): the item is on a
list, the callback of this event is about to run, or `epoll_ctl` has seen this
event and is about to link the item.  `FreshInv` says that an event not yet
polled is still ready and asked for.  `PollInv` also says who holds `mtx` and
what is empty while nobody scans (`HolderInv`), that `wq` holds exactly the
threads that sleep or have just been woken, each once (`QueueInv`), and that a
reported ONESHOT item has an empty mask (`ShotInv`).  `ListProofs` has the facts
about lists that these steps need: what adding, taking, deleting and splicing
do to the elements of a list, to their being distinct and to their order.

`TcpServerProofs` proves for all descriptors, pools of loops, clients and
threads that call `start`:

* `ServerTypesTheorem`: the type invariant;
* `FdsTheorem`: every descriptor has its one owner, and other threads have all
  that they have opened and not closed (`FdsOwned`);
* `IdleTheorem`: a descriptor is in reserve (`IdleReserved`);
* `ServerAssertsTheorem`: no assert fails until something crosses the end of a
  connection (`AssertsHold`);
* `ConnectionsTheorem`: each connection lives as ConnLife says.

Again none is inductive, and they share one invariant, `Inv`.  `FunctorInv` says
that every functor waits once, in the loop that may run it, and that
`connectEstablished` comes before `connectDestroyed`: without the order a
connection could be destroyed while it is connecting.  `StartInv` says that
`listen` is called once, by or for the thread that won the exchange of
`started_`.  `LifeInv` puts every connection into one of five phases
(`Connecting`, `Connected`, `Leaving`, `Ending`, `Over`), each of which says
which functors wait for it and whether it is in the map, and `RefInv` says that
nothing refers to a freed connection.  `FdInv` ties each open descriptor to the
connection, the reserve or the other thread that has it, and says that
`idleFd_`, where it is closed, is -1 or the reserve: from this follows
`TakenInv`, that no step closes what other threads have `taken`.  `IdleInv` says
that there is a free descriptor while the reserve is given up (`Lent`), unless
it was stolen.  `CountInv` bounds the connections by the clients.

The steps are sorted twice before anything is shown of them: by what they do to
functors and connections (`NextMoves`) and by what they do to descriptors
(`NextAccepts`).  `TurnStep` says that a step takes each connection to its next
phase or lets it be (`Turn`); the invariant and the refinement both follow from
it, the latter because each turn is a step of ConnLife (`TurnLive`).

`MemcachedThreadsProofs` proves `BarrierTheorem` for every number of workers,
connections, failures and flips.  `StartInv` says that before `thread_init`
returns `init_count` is the number of workers in their loops; `FlipInv` follows
the byte of a flip through every worker (in the pipe, in `buf[0]`, acted upon)
and says that `init_count` is the number of workers that have acted; `PipeInv`
says that a worker reads its pipe only when there is something in it.  The
count becomes "all" by the cardinality of the finite set of workers.

`MemcachedHandProofs` proves for the same constants how a connection gets from
the main thread to its worker:

* `HoldersTheorem`: an open descriptor is held in exactly one place
  (`OneHolder`);
* `ThreadsTypes`: the type invariant;
* `NotifiedTheorem`: for every connection in a worker's queue a byte is in its
  pipe or on the way, but for the failed writes (`ItemsNotified`).

`OneHolder` counts holders, and is not inductive: who closes a descriptor or
hands it on must be known to hold it at that moment.  `HandInv` says it without
counting and adds what is missing: the main thread has a descriptor only between
`accept` and `dispatch_conn_new` (`HoldInv`), and a worker handles events only
of conns that are its own, and drives none of which an event is still to be
handled (`DriveInv`), so that it never acts on a conn that it has closed.  A
step is one of a few moves of a descriptor (`HandMove`: accepted, dropped,
queued, popped, closed), and each move is shown once to keep `HoldInv`.  The
types also need `CountsInv`, which bounds the lost notifications by the
failures.  For `ItemsNotified` the notices of a worker are one sum (`Notices`);
each step changes the queue and the sum alike, by the lemmas `CountAppend` and
`CountTail` about counting in a sequence.

The assumptions are the named ASSUMEs of the modules: the constants have their
types, sets of descriptors are finite, the loop thread is not one of the others,
the base loop is not in the pool, and no thread in `epoll_wait` has the name of
another state of `mtx`.

Every invariant, action property and refinement that a passing run checks is
also proved.  The properties that are only model-checked are the liveness
properties, which need fairness and ENABLED and are out of the prover's reach:
`FunctorsRun`, `QuitStopsLoop`, `TimersFire`, `EventsReachScan`, `ClosingEnds`,
`BacklogDrains`, `EndClosesAll`, `ConnectionsTaken`, `CommandsServed` and
`RegistrationEnds`.

## Not modelled

* The bodies of user callbacks beyond what they may call.
* EventLoop: the destructor, and the assert of `removeChannel` about active
  channels; a server destroyed inside an event callback of its own loop.
* TimerQueue: the destructor.
* TcpConnection: the input buffer, socket options, POLLNVAL, POLLPRI and
  POLLRDHUP.  Channels ask for POLLIN and POLLPRI together and never for
  POLLRDHUP, and a TCP socket that hangs up is also readable, so that a POLLHUP
  without POLLIN means that reading is off; a `handleEvent` that calls the close
  callback and then the read callback does not arise.
* EventPoll: nested eventpolls (`poll_wait`, `reverse_path_check`),
  EPOLLEXCLUSIVE, EPOLLWAKEUP and busy polling; the POLLFREE branch of
  `ep_poll_callback`, with which a driver takes its wait queue away.
* memcached: UDP, and the states of `drive_machine` whose bodies the source
  leaves out; `conn_waiting` is modelled as asking for the read event.  What
  `main` does between `thread_init` and its event loop is one choice, to serve
  or to exit.  The branch of `event_handler` for a descriptor that is not the
  conn's cannot be reached: the event of a conn is set up for its own `sfd`.
* Buffer: `readFd` is all there is, and its class is not in the repository.
* Socket, SocketsOps, Endian: wrappers of one system call or library function
  each, apart from `accept` and `close`.  An error that `sockets::accept` takes
  for fatal ends the process.
* Poller is an interface; the subclasses are not in the repository.
