----------------------------- MODULE EventPoll ------------------------------
(***************************************************************************)
(* One Linux eventpoll instance: threads in epoll_wait, callers of         *)
(* epoll_ctl, and files whose drivers call ep_poll_callback.               *)
(*                                                                         *)
(* Sections under ep->lock are atomic steps; ep->mtx is a variable.  An    *)
(* epitem is named by its file.  EPOLLEXCLUSIVE (which other eventpolls to *)
(* wake), EPOLLWAKEUP and an eventpoll that is itself polled are left out. *)
(* The control pc[t] of a thread is one of                                 *)
(*   user    outside epoll_wait                                            *)
(*   fetch   at the label fetch_events of ep_poll                          *)
(*   asleep  in schedule_hrtimeout_range, task state INTERRUPTIBLE         *)
(*   woken   out of it, task state RUNNING, still in ep->wq                *)
(*   send    about to call ep_send_events                                  *)
(*   scan    in the loop of ep_send_events_proc, holding mtx               *)
(***************************************************************************)
EXTENDS Naturals, Sequences, Functions, Lists

CONSTANTS
  Files,        \* files that can be watched
  Events,       \* poll events told apart
  Always,       \* POLLERR and POLLHUP: in every mask
  Modes,        \* subset of {"LT", "ET", "ONESHOT"}
  WaitThreads,  \* threads that call epoll_wait
  MaxEvents,    \* maxevents of every call
  Timeouts,     \* subset of {"zero", "finite", "forever"}
  Signals,      \* may a signal arrive during epoll_wait?
  Faults,       \* may a copy to user space fail?
  Ctl           \* may MOD and DEL be called (ADD always may)?

ASSUME EventsAssumption == Always \subseteq Events
ASSUME ModesAssumption == Modes \subseteq {"LT", "ET", "ONESHOT"}
ASSUME MaxEventsAssumption == MaxEvents \in Nat \ {0}
ASSUME TimeoutsAssumption == Timeouts \subseteq {"zero", "finite", "forever"}
ASSUME ThreadsAssumption == {"free", "epoll_ctl"} \cap WaitThreads = {}
ASSUME SwitchesAssumption == {Signals, Faults, Ctl} \subseteq BOOLEAN

VARIABLES
  ready,      \* what f_op->poll of each file reports
  callbacks,  \* pairs of a file and an event whose driver is about to wake us
  item,       \* the rb-tree: mode and event mask of every watched file
  rdllist, txlist,
  ovflist,    \* a sequence, head first; meaningful while scanning
  mtx,        \* what holds ep->mtx: nobody, a thread of epoll_wait, epoll_ctl
  ctl,        \* what epoll_ctl works on and the events its poll found
  wq,         \* ep->wq
  pc, timeout, timed_out, signal, eventcnt,
  fresh,      \* history: file and wanted event, arrived since the last poll
  shots       \* history: reports of a ONESHOT item since ADD or MOD, up to 2

fileVars == <<ready, callbacks>>
listVars == <<rdllist, txlist, ovflist>>
callVars == <<timeout, timed_out, signal, eventcnt>>
histVars == <<fresh, shots>>
vars == <<fileVars, item, listVars, mtx, ctl, wq, pc, callVars, histVars>>

Free == "free"
CtlThread == "epoll_ctl"
Scanning == mtx \notin {Free, CtlThread}   \* ovflist # EP_UNACTIVE_PTR
Registered == DOMAIN item
NoCtl == [op |-> "none"]

TypeOK ==
  /\ ready \in [Files -> SUBSET Events]
  /\ callbacks \subseteq Files \X Events
  /\ Registered \subseteq Files
  /\ item \in [Registered -> [mode : Modes, events : SUBSET Events]]
  /\ rdllist \in Seq(Files) /\ txlist \in Seq(Files) /\ ovflist \in Seq(Files)
  /\ mtx \in {Free, CtlThread} \cup WaitThreads
  /\ ctl \in {NoCtl} \cup [op : {"add", "mod"}, file : Files, revents : SUBSET Events]
  /\ wq \in Seq(WaitThreads)
  /\ pc \in [WaitThreads -> {"user", "fetch", "asleep", "woken", "send", "scan"}]
  /\ timeout \in [WaitThreads -> {"zero", "finite", "forever"}]
  /\ timed_out \in [WaitThreads -> BOOLEAN]
  /\ signal \in [WaitThreads -> BOOLEAN]
  /\ eventcnt \in [WaitThreads -> 0..MaxEvents]
  /\ fresh \subseteq Files \X Events
  /\ shots \in [Files -> 0..2]

Init ==
  /\ ready = [f \in Files |-> {}]
  /\ callbacks = {}
  /\ item = <<>>
  /\ rdllist = <<>> /\ txlist = <<>> /\ ovflist = <<>>
  /\ mtx = Free
  /\ ctl = NoCtl
  /\ wq = <<>>
  /\ pc = [t \in WaitThreads |-> "user"]
  /\ timeout = [t \in WaitThreads |-> "forever"]
  /\ timed_out = [t \in WaitThreads |-> FALSE]
  /\ signal = [t \in WaitThreads |-> FALSE]
  /\ eventcnt = [t \in WaitThreads |-> 0]
  /\ fresh = {}
  /\ shots = [f \in Files |-> 0]

-----------------------------------------------------------------------------
ep_is_linked(f) == f \in Range(rdllist) \cup Range(txlist)

ep_events_available == rdllist # <<>> \/ Scanning

ep_item_poll(f) == ready[f] \cap item[f].events

Asleep(p) == {i \in DOMAIN wq : p[wq[i]] = "asleep"}

(* wake_up_locked(&ep->wq), from control p: the waiters are exclusive, so  *)
(* the first one that is asleep is woken; one that already runs does not   *)
(* count.                                                                  *)
WakeUp(p) ==
  \/ Asleep(p) = {} /\ pc' = p
  \/ \E i \in Asleep(p) : /\ \A j \in Asleep(p) : i <= j
                          /\ pc' = [p EXCEPT ![wq[i]] = "woken"]

NotFresh(f) == {p \in fresh : p[1] # f}

-----------------------------------------------------------------------------
(* Files.  A driver first makes an event visible to poll, then walks the   *)
(* wait queue, which calls ep_poll_callback.                               *)

EventArrives(f, e) ==
  /\ e \notin ready[f] \/ <<f, e>> \notin callbacks
  /\ ready' = [ready EXCEPT ![f] = @ \cup {e}]
  /\ callbacks' = callbacks \cup {<<f, e>>}
  /\ fresh' = IF f \in Registered /\ e \in item[f].events
              THEN fresh \cup {<<f, e>>} ELSE fresh
  /\ UNCHANGED <<item, listVars, mtx, ctl, wq, pc, callVars, shots>>

\* The user reads or writes the file and the event is gone.
Consume(f, e) ==
  /\ e \in ready[f]
  /\ ready' = [ready EXCEPT ![f] = @ \ {e}]
  /\ fresh' = fresh \ {<<f, e>>}
  /\ UNCHANGED <<callbacks, item, listVars, mtx, ctl, wq, pc, callVars, shots>>

\* The callback goes on: the item is not disabled, and the key, when the
\* driver passes the event as the key of the wakeup, is one it asks for.
Wanted(f, e, keyed) ==
  /\ f \in Registered
  /\ item[f].events # {}
  /\ keyed => e \in item[f].events

\* A callback during a scan is dropped.
MutIgnoreOvflist(f, e, keyed) ==
  /\ <<f, e>> \in callbacks
  /\ callbacks' = callbacks \ {<<f, e>>}
  /\ \/ /\ ~Wanted(f, e, keyed) \/ Scanning
        /\ UNCHANGED <<rdllist, ovflist, pc>>
     \/ /\ Wanted(f, e, keyed) /\ ~Scanning
        /\ rdllist' = IF ep_is_linked(f) THEN rdllist ELSE Append(rdllist, f)
        /\ WakeUp(pc)
        /\ UNCHANGED ovflist
  /\ UNCHANGED <<ready, item, txlist, mtx, ctl, wq, callVars, histVars>>

ep_poll_callback(f, e, keyed) ==
  /\ <<f, e>> \in callbacks
  /\ callbacks' = callbacks \ {<<f, e>>}
  /\ \/ /\ ~Wanted(f, e, keyed)
        /\ UNCHANGED <<rdllist, ovflist, pc>>
     \/ /\ Wanted(f, e, keyed) /\ Scanning
        /\ ovflist' = IF f \in Range(ovflist) THEN ovflist ELSE <<f>> \o ovflist
        /\ UNCHANGED <<rdllist, pc>>
     \/ /\ Wanted(f, e, keyed) /\ ~Scanning
        /\ rdllist' = IF ep_is_linked(f) THEN rdllist ELSE Append(rdllist, f)
        /\ WakeUp(pc)
        /\ UNCHANGED ovflist
  /\ UNCHANGED <<ready, item, txlist, mtx, ctl, wq, callVars, histVars>>

-----------------------------------------------------------------------------
(* epoll_ctl, under mtx.  ADD and MOD install the mask and poll the file   *)
(* (CtlPoll), then put it on the ready list under ep->lock (CtlLink); the  *)
(* callback can hit the item in between.                                   *)

CtlPoll(op, f, mode, events) ==
  /\ mtx = Free
  /\ mtx' = CtlThread
  /\ item' = [g \in Registered \cup {f} |->
                IF g = f THEN [mode |-> mode, events |-> events \cup Always]
                         ELSE item[g]]
  /\ LET revents == ready[f] \cap (events \cup Always)
     IN  /\ ctl' = [op |-> op, file |-> f, revents |-> revents]
         /\ fresh' = NotFresh(f) \cup ({f} \X revents)
  /\ shots' = [shots EXCEPT ![f] = 0]
  /\ UNCHANGED <<fileVars, listVars, wq, pc, callVars>>

\* ep_insert up to ep_item_poll.
epoll_ctl_add(f, mode, events) ==
  f \notin Registered /\ CtlPoll("add", f, mode, events)

\* ep_modify is not in the repository.
epoll_ctl_mod(f, mode, events) ==
  f \in Registered /\ CtlPoll("mod", f, mode, events)

CtlLink ==
  /\ mtx = CtlThread
  /\ \/ /\ ctl.revents # {} /\ ~ep_is_linked(ctl.file)
        /\ rdllist' = Append(rdllist, ctl.file)
        /\ WakeUp(pc)
     \/ /\ ctl.revents = {} \/ ep_is_linked(ctl.file)
        /\ UNCHANGED <<rdllist, pc>>
  /\ mtx' = Free
  /\ ctl' = NoCtl
  /\ UNCHANGED <<fileVars, item, txlist, ovflist, wq, callVars, histVars>>

Unregister(f) ==
  /\ item' = Restrict(item, Registered \ {f})
  /\ \/ \E i \in DOMAIN rdllist : rdllist[i] = f /\ rdllist' = Without(rdllist, i)
     \/ f \notin Range(rdllist) /\ UNCHANGED rdllist
  /\ fresh' = NotFresh(f)
  /\ shots' = [shots EXCEPT ![f] = 0]

\* Leaves an item that a callback has linked meanwhile on the ready list.
MutFailKeepsLink ==
  /\ mtx = CtlThread /\ ctl.op = "add"
  /\ item' = Restrict(item, Registered \ {ctl.file})
  /\ fresh' = NotFresh(ctl.file)
  /\ mtx' = Free
  /\ ctl' = NoCtl
  /\ UNCHANGED <<fileVars, listVars, wq, pc, callVars, shots>>

\* ep_insert's exit error_unregister: no memory for the wait queue entry.
ep_insert_fails ==
  /\ mtx = CtlThread /\ ctl.op = "add"
  /\ Unregister(ctl.file)
  /\ mtx' = Free
  /\ ctl' = NoCtl
  /\ UNCHANGED <<fileVars, txlist, ovflist, wq, pc, callVars>>

epoll_ctl_del(f) ==
  /\ mtx = Free
  /\ f \in Registered
  /\ Unregister(f)
  /\ UNCHANGED <<fileVars, txlist, ovflist, mtx, ctl, wq, pc, callVars>>

-----------------------------------------------------------------------------
(* epoll_wait.                                                             *)

\* __remove_wait_queue
LeaveQueue(t) == \E i \in DOMAIN wq : wq[i] = t /\ wq' = Without(wq, i)

ResetCall(t) ==
  /\ timeout' = [timeout EXCEPT ![t] = "forever"]
  /\ timed_out' = [timed_out EXCEPT ![t] = FALSE]
  /\ signal' = [signal EXCEPT ![t] = FALSE]
  /\ eventcnt' = [eventcnt EXCEPT ![t] = 0]

\* Back to user space, with 0 or with an error.
ReturnToUser(t) == pc' = [pc EXCEPT ![t] = "user"] /\ ResetCall(t)

GoTo(t, label) == pc' = [pc EXCEPT ![t] = label] /\ UNCHANGED callVars

\* epoll_wait with a timeout of 0 goes to check_events at once.
epoll_wait(t, to) ==
  /\ pc[t] = "user"
  /\ pc' = [pc EXCEPT ![t] = IF to # "zero" THEN "fetch"
                             ELSE IF ep_events_available THEN "send" ELSE "user"]
  /\ IF pc'[t] = "user" THEN UNCHANGED <<timeout, timed_out>>
     ELSE /\ timeout' = [timeout EXCEPT ![t] = to]
          /\ timed_out' = [timed_out EXCEPT ![t] = to = "zero"]
  /\ UNCHANGED <<fileVars, item, listVars, mtx, ctl, wq, signal, eventcnt, histVars>>

\* fetch_events, up to the first call of schedule_hrtimeout_range.
fetch_events(t) ==
  /\ pc[t] = "fetch"
  /\ \/ ep_events_available /\ GoTo(t, "send") /\ UNCHANGED wq
     \/ ~ep_events_available /\ signal[t] /\ ReturnToUser(t) /\ UNCHANGED wq
     \/ /\ ~ep_events_available /\ ~signal[t]
        /\ GoTo(t, "asleep")
        /\ wq' = Append(wq, t)
  /\ UNCHANGED <<fileVars, item, listVars, mtx, ctl, histVars>>

TimerExpires(t) ==
  /\ pc[t] \in {"asleep", "woken"}
  /\ timeout[t] = "finite" /\ ~timed_out[t]
  /\ timed_out' = [timed_out EXCEPT ![t] = TRUE]
  /\ pc' = [pc EXCEPT ![t] = "woken"]
  /\ UNCHANGED <<fileVars, item, listVars, mtx, ctl, wq, timeout, signal,
                 eventcnt, histVars>>

\* Anywhere in ep_poll; it is looked at only in these places.
SignalArrives(t) ==
  /\ Signals
  /\ pc[t] \in {"fetch", "asleep", "woken"} /\ ~signal[t]
  /\ signal' = [signal EXCEPT ![t] = TRUE]
  /\ pc' = IF pc[t] = "asleep" THEN [pc EXCEPT ![t] = "woken"] ELSE pc
  /\ UNCHANGED <<fileVars, item, listVars, mtx, ctl, wq, timeout, timed_out,
                 eventcnt, histVars>>

\* Looks at the signal before it looks at the lists.
MutSignalFirst(t) ==
  /\ pc[t] = "woken"
  /\ \/ /\ ~signal[t] /\ ep_events_available
        /\ GoTo(t, "send") /\ LeaveQueue(t)
     \/ /\ signal[t] \/ (~ep_events_available /\ timed_out[t])
        /\ ReturnToUser(t) /\ LeaveQueue(t)
     \/ /\ ~ep_events_available /\ ~timed_out[t] /\ ~signal[t]
        /\ GoTo(t, "asleep") /\ UNCHANGED wq
  /\ UNCHANGED <<fileVars, item, listVars, mtx, ctl, histVars>>

\* Out of schedule_hrtimeout_range: the rest of the for loop of ep_poll.
ResumePoll(t) ==
  /\ pc[t] = "woken"
  /\ \/ /\ ep_events_available
        /\ GoTo(t, "send") /\ LeaveQueue(t)
     \/ /\ ~ep_events_available /\ (timed_out[t] \/ signal[t])
        /\ ReturnToUser(t) /\ LeaveQueue(t)
     \/ /\ ~ep_events_available /\ ~timed_out[t] /\ ~signal[t]
        /\ GoTo(t, "asleep") /\ UNCHANGED wq
  /\ UNCHANGED <<fileVars, item, listVars, mtx, ctl, histVars>>

\* ep_send_events: ep_scan_ready_list steals the ready list.
BeginScan(t) ==
  /\ pc[t] = "send"
  /\ mtx = Free
  /\ mtx' = t
  /\ txlist' = rdllist
  /\ rdllist' = <<>>
  /\ ovflist' = <<>>
  /\ GoTo(t, "scan")
  /\ UNCHANGED <<fileVars, item, ctl, wq, histVars>>

\* Reports a ONESHOT item without disabling it.
MutOneshotStays(t, f) ==
  /\ txlist' = Tail(txlist)
  /\ fresh' = NotFresh(f)
  /\ \/ /\ ep_item_poll(f) = {}
        /\ UNCHANGED <<rdllist, item, eventcnt, shots>>
     \/ /\ ep_item_poll(f) # {}
        /\ eventcnt' = [eventcnt EXCEPT ![t] = @ + 1]
        /\ shots' = IF item[f].mode = "ONESHOT"
                    THEN [shots EXCEPT ![f] = IF @ < 2 THEN @ + 1 ELSE 2] ELSE shots
        /\ item' = item
        /\ rdllist' = IF item[f].mode = "LT" THEN Append(rdllist, f) ELSE rdllist
  /\ UNCHANGED <<fileVars, ovflist, mtx, ctl, wq, pc, timeout, timed_out, signal>>

\* Polls item f and reports what it finds; the copy succeeds.
Report(t, f) ==
  /\ txlist' = Tail(txlist)
  /\ fresh' = NotFresh(f)
  /\ \/ /\ ep_item_poll(f) = {}
        /\ UNCHANGED <<rdllist, item, eventcnt, shots>>
     \/ /\ ep_item_poll(f) # {}
        /\ eventcnt' = [eventcnt EXCEPT ![t] = @ + 1]
        /\ shots' = IF item[f].mode = "ONESHOT"
                    THEN [shots EXCEPT ![f] = IF @ < 2 THEN @ + 1 ELSE 2] ELSE shots
        /\ item' = IF item[f].mode = "ONESHOT"
                   THEN [item EXCEPT ![f].events = {}] ELSE item
        /\ rdllist' = IF item[f].mode = "LT" THEN Append(rdllist, f) ELSE rdllist
  /\ UNCHANGED <<fileVars, ovflist, mtx, ctl, wq, pc, timeout, timed_out, signal>>

\* Copies past the end of the caller's array.
MutPastMaxEvents(t) ==
  pc[t] = "scan" /\ txlist # <<>> /\ Report(t, Head(txlist))

\* One turn of the loop of ep_send_events_proc.
ep_send_events_proc(t) ==
  /\ pc[t] = "scan" /\ txlist # <<>> /\ eventcnt[t] < MaxEvents
  /\ Report(t, Head(txlist))

\* Puts what is left of txlist behind what was put back.
MutSpliceTail(late) == rdllist \o late \o txlist

\* Drops what the scan did not get to.
MutDropLeftovers(late) == rdllist \o late

\* The ready list when ep_scan_ready_list ends: what is left of txlist, what
\* the scan put back, what arrived in the meantime.
Requeued(late) == txlist \o rdllist \o late

\* The items of ovflist that are not linked.
Unlinked == {f \in Range(ovflist) : ~ep_is_linked(f)}

\* Ends a scan without waking the next waiter.
MutEndNoWakeup(t, label) ==
  /\ \E late \in InOrder(ovflist, Unlinked) : rdllist' = Requeued(late)
  /\ txlist' = <<>> /\ ovflist' = <<>>
  /\ mtx' = Free
  /\ pc' = [pc EXCEPT ![t] = label]
  /\ UNCHANGED <<fileVars, item, ctl, wq, histVars>>

\* The end of ep_scan_ready_list; thread t goes on at label.
EndScan(t, label) ==
  /\ \E late \in InOrder(ovflist, Unlinked) : rdllist' = Requeued(late)
  /\ txlist' = <<>> /\ ovflist' = <<>>
  /\ mtx' = Free
  /\ LET p == [pc EXCEPT ![t] = label]
     IN  IF rdllist' = <<>> THEN pc' = p ELSE WakeUp(p)
  /\ UNCHANGED <<fileVars, item, ctl, wq, histVars>>

\* The loop of ep_send_events_proc is over; with no event and time left
\* ep_poll goes back to fetch_events.
ScanDone(t) ==
  /\ pc[t] = "scan"
  /\ txlist = <<>> \/ eventcnt[t] = MaxEvents
  /\ \/ /\ eventcnt[t] = 0 /\ ~timed_out[t]
        /\ EndScan(t, "fetch")
        /\ UNCHANGED callVars
     \/ /\ eventcnt[t] > 0 \/ timed_out[t]
        /\ EndScan(t, "user")
        /\ ResetCall(t)

\* __put_user fails: the item stays at the head of txlist and epoll_wait
\* returns the events copied so far, or -EFAULT.
CopyFaults(t) ==
  /\ Faults
  /\ pc[t] = "scan" /\ txlist # <<>> /\ eventcnt[t] < MaxEvents
  /\ ep_item_poll(Head(txlist)) # {}
  /\ EndScan(t, "user")
  /\ ResetCall(t)

-----------------------------------------------------------------------------
FileStep ==
  \E f \in Files, e \in Events :
    EventArrives(f, e) \/ Consume(f, e)

CallbackStep ==
  \E f \in Files, e \in Events, keyed \in BOOLEAN : ep_poll_callback(f, e, keyed)

CtlStep ==
  \/ \E f \in Files, mode \in Modes, events \in SUBSET (Events \ Always) :
       epoll_ctl_add(f, mode, events) \/ (Ctl /\ epoll_ctl_mod(f, mode, events))
  \/ Ctl /\ \E f \in Files : epoll_ctl_del(f)

CtlEnd == CtlLink \/ ep_insert_fails

WaitStep(t) ==
  \/ fetch_events(t)
  \/ ResumePoll(t)
  \/ ep_send_events_proc(t)
  \/ ScanDone(t)

Next ==
  \/ FileStep
  \/ CallbackStep
  \/ CtlStep
  \/ CtlEnd
  \/ \E t \in WaitThreads :
       \/ \E to \in Timeouts : epoll_wait(t, to)
       \/ TimerExpires(t)
       \/ SignalArrives(t)
       \/ BeginScan(t)
       \/ WaitStep(t)
       \/ CopyFaults(t)

Spec == Init /\ [][Next]_vars

(***************************************************************************)
(* Fairness: a wakeup that a driver has started is delivered, nobody keeps *)
(* mtx for ever and a thread that waits for mtx gets it, and the threads   *)
(* keep calling epoll_wait.  Nothing is assumed of timers, signals, faults *)
(* or the files.                                                           *)
(***************************************************************************)
FairSpec ==
  /\ Spec
  /\ \A f \in Files, e \in Events : WF_vars(ep_poll_callback(f, e, TRUE))
  /\ WF_vars(CtlEnd)
  /\ \A t \in WaitThreads :
       /\ WF_vars(\E to \in Timeouts : epoll_wait(t, to))
       /\ WF_vars(WaitStep(t))
       /\ SF_vars(BeginScan(t))

-----------------------------------------------------------------------------
(* An event is still to be reported: for a level-triggered item as long as *)
(* its file is ready, for the others once per event.                       *)
Pending(f) ==
  \/ \E e \in Events : <<f, e>> \in fresh
  \/ f \in Registered /\ item[f].mode = "LT" /\ ep_item_poll(f) # {}

(* No event is lost, wherever it falls between poll, the callback, a scan  *)
(* by another thread, an epoll_ctl or a failed copy: an item with an event *)
(* to report is on one of the lists, or a callback or an epoll_ctl is      *)
(* about to put it there (ep_poll_callback, ep_scan_ready_list).           *)
NoLostEvent ==
  \A f \in Files : Pending(f) =>
    \/ f \in Range(rdllist) \cup Range(txlist) \cup Range(ovflist)
    \/ \E e \in ready[f] : <<f, e>> \in callbacks
    \/ mtx = CtlThread /\ ctl.file = f

(* The exclusive wakeups leave nobody behind: when the ready list is not   *)
(* empty and a thread sleeps in epoll_wait, another one is awake inside    *)
(* epoll_wait and will look at the list, even if it got there through a    *)
(* timeout or a signal (ep_poll, ep_scan_ready_list).                      *)
NoStrandedWaiter ==
  (\E t \in WaitThreads : pc[t] = "asleep") /\ rdllist # <<>> =>
    \E t \in WaitThreads : pc[t] \notin {"user", "asleep"}

(* The lists hold each item at most once and only items that are           *)
(* registered, so no scan meets one that epoll_ctl or a failed ep_insert   *)
(* has freed.                                                              *)
ListsSound ==
  /\ IsInjective(txlist \o rdllist)
  /\ IsInjective(ovflist)
  /\ Range(txlist \o rdllist \o ovflist) \subseteq Registered

(* EPOLLONESHOT reports one event until the next epoll_ctl, also when the  *)
(* file becomes ready again during the scan that reports it and another    *)
(* thread scans next (ep_send_events_proc, ep_poll_callback).              *)
OneShot ==
  \A f \in Registered : item[f].mode = "ONESHOT" => shots[f] <= 1

(* Every event that an item asks for is polled by a scan, or is gone or    *)
(* its item removed before: no file starves behind the level-triggered     *)
(* ones that are put back at every scan of MaxEvents items (the order of   *)
(* list_splice in ep_scan_ready_list).                                     *)
EventsReachScan ==
  \A f \in Files, e \in Events : <<f, e>> \in fresh ~> <<f, e>> \notin fresh

(* What the comment in ep_send_events_proc says of an epoll_wait that      *)
(* finds no event left on the items put back: it returns 0.                *)
EmptyScanReturnsZero ==
  [][\A t \in WaitThreads :
       pc[t] = "scan" /\ pc'[t] # "scan" /\ eventcnt[t] = 0 => pc'[t] = "user"]_vars
=============================================================================
