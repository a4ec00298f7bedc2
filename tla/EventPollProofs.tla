-------------------------- MODULE EventPollProofs ---------------------------
(***************************************************************************)
(* Proofs about EventPoll, for any files, events, modes, waiting threads   *)
(* and any number of places in the caller's array: the lists stay sound,   *)
(* no event is lost, no waiter is stranded and ONESHOT reports once.       *)
(***************************************************************************)
EXTENDS EventPoll, ListProofs

Places == {"user", "fetch", "asleep", "woken", "send", "scan"}

(* wake_up_locked wakes a thread if one is asleep in ep->wq, and touches   *)
(* no other.                                                               *)
LEMMA WakeOne ==
  ASSUME wq \in Seq(WaitThreads), NEW p \in [WaitThreads -> Places], WakeUp(p)
  PROVE  /\ pc' \in [WaitThreads -> Places]
         /\ \A t \in WaitThreads : \/ pc'[t] = p[t]
                                   \/ p[t] = "asleep" /\ pc'[t] = "woken"
         /\ \A t \in Range(wq) : p[t] = "asleep" =>
              \E u \in WaitThreads : pc'[u] = "woken"
<1>1. "woken" \in Places
  BY Zenon DEF Places
<1>2. CASE Asleep(p) = {} /\ pc' = p
  BY <1>2, Zenon DEF Asleep, Range
<1>3. ASSUME NEW i \in Asleep(p), pc' = [p EXCEPT ![wq[i]] = "woken"]
      PROVE  /\ pc' \in [WaitThreads -> Places]
             /\ \A t \in WaitThreads : \/ pc'[t] = p[t]
                                       \/ p[t] = "asleep" /\ pc'[t] = "woken"
             /\ pc'[wq[i]] = "woken" /\ wq[i] \in WaitThreads
  <2>1. wq[i] \in WaitThreads /\ p[wq[i]] = "asleep"
    BY <1>3, Entries, Zenon DEF Asleep
  <2> QED
    BY <1>1, <1>3, <2>1, Zenon
<1> QED
  BY <1>2, <1>3, Zenon DEF WakeUp

-----------------------------------------------------------------------------
(* Who holds mtx, and what the scan and epoll_ctl have under it.           *)
HolderInv ==
  /\ \A t \in WaitThreads : pc[t] = "scan" <=> mtx = t
  /\ ~Scanning => txlist = <<>> /\ ovflist = <<>>
  /\ mtx = CtlThread => /\ ctl \in [op : {"add", "mod"}, file : Files, revents : SUBSET Events]
                        /\ ctl.file \in Registered

(* The threads in ep->wq are those that sleep or have just been woken.     *)
QueueInv ==
  /\ IsInjective(wq)
  /\ \A t \in WaitThreads : t \in Range(wq) <=> pc[t] \in {"asleep", "woken"}

(* ListsSound, list by list.                                               *)
ListInv ==
  /\ IsInjective(rdllist) /\ IsInjective(txlist) /\ IsInjective(ovflist)
  /\ Range(rdllist) \cap Range(txlist) = {}
  /\ Range(rdllist) \cup Range(txlist) \cup Range(ovflist) \subseteq Registered

(* A ONESHOT item that has reported is disabled.                           *)
ShotInv ==
  \A f \in Registered : item[f].mode = "ONESHOT" =>
    shots[f] = 0 \/ (shots[f] = 1 /\ item[f].events = {})

Listed(f) == f \in Range(rdllist) \cup Range(txlist) \cup Range(ovflist)

(* Event e of file f is still to be reported.                              *)
Due(f, e) ==
  \/ <<f, e>> \in fresh
  \/ f \in Registered /\ item[f].mode = "LT" /\ e \in ready[f] \cap item[f].events

(* Every such event is accounted for.                                      *)
Covered(f, e) ==
  \/ Listed(f)
  \/ <<f, e>> \in callbacks
  \/ mtx = CtlThread /\ ctl.file = f /\ e \in ctl.revents

FreshInv ==
  \A f \in Files, e \in Events : <<f, e>> \in fresh =>
    f \in Registered /\ e \in ready[f] \cap item[f].events

DueInv == \A f \in Files, e \in Events : Due(f, e) => Covered(f, e)

PollInv ==
  /\ HolderInv /\ QueueInv /\ ListInv /\ ShotInv /\ FreshInv /\ DueInv
  /\ NoStrandedWaiter

-----------------------------------------------------------------------------
(* TypeOK, by what it is about.                                            *)
FileTypes ==
  /\ ready \in [Files -> SUBSET Events]
  /\ callbacks \subseteq Files \X Events
  /\ fresh \subseteq Files \X Events

ItemTypes ==
  /\ Registered \subseteq Files
  /\ item \in [Registered -> [mode : Modes, events : SUBSET Events]]
  /\ ctl \in {NoCtl} \cup [op : {"add", "mod"}, file : Files, revents : SUBSET Events]
  /\ shots \in [Files -> 0..2]

ListTypes == rdllist \in Seq(Files) /\ txlist \in Seq(Files) /\ ovflist \in Seq(Files)

ThreadTypes ==
  /\ mtx \in {Free, CtlThread} \cup WaitThreads
  /\ wq \in Seq(WaitThreads)
  /\ pc \in [WaitThreads -> Places]

CallTypes ==
  /\ timeout \in [WaitThreads -> {"zero", "finite", "forever"}]
  /\ timed_out \in [WaitThreads -> BOOLEAN]
  /\ signal \in [WaitThreads -> BOOLEAN]
  /\ eventcnt \in [WaitThreads -> 0..MaxEvents]

Types == FileTypes /\ ItemTypes /\ ListTypes /\ ThreadTypes /\ CallTypes

(* The parts are together the type invariant.                              *)
LEMMA TypeParts == TypeOK <=> Types
BY Zenon DEF TypeOK, Types, FileTypes, ItemTypes, ListTypes, ThreadTypes, CallTypes, Places

(* The lists of items keep their type in every step.                       *)
LEMMA ListTypesStep ==
  ASSUME Types, HolderInv, Next
  PROVE  ListTypes'
<1> USE DEF Types, ListTypes
<1>1. CASE FileStep
  BY <1>1, Zenon DEF FileStep, EventArrives, Consume, listVars
<1>2. CASE CallbackStep
  <2>1. PICK f \in Files, e \in Events, keyed \in BOOLEAN : ep_poll_callback(f, e, keyed)
    BY <1>2, Zenon DEF CallbackStep
  <2>2. Append(rdllist, f) \in Seq(Files) /\ <<f>> \o ovflist \in Seq(Files)
    BY AddTail
  <2> QED
    BY <2>1, <2>2, Zenon DEF ep_poll_callback
<1>3. CASE CtlStep
  <2>1. CASE UNCHANGED listVars
    BY <2>1, Zenon DEF listVars
  <2>2. ASSUME NEW f \in Files, Unregister(f), UNCHANGED <<txlist, ovflist>>
        PROVE  ListTypes'
    BY <2>2, Deleted DEF Unregister
  <2> QED
    BY <1>3, <2>1, <2>2, ZenonT(60) DEF CtlStep, epoll_ctl_add, epoll_ctl_mod,
       epoll_ctl_del, CtlPoll
<1>4. CASE CtlLink
  <2>1. ctl.file \in Files
    BY <1>4, Zenon DEF CtlLink, HolderInv
  <2>2. Append(rdllist, ctl.file) \in Seq(Files)
    BY <2>1, AddTail, Zenon
  <2> QED
    BY <1>4, <2>2, Zenon DEF CtlLink
<1>5. CASE ep_insert_fails
  BY <1>5, Deleted DEF ep_insert_fails, Unregister
<1>6. ASSUME NEW t \in WaitThreads, EndScan(t, "user") \/ EndScan(t, "fetch")
      PROVE  ListTypes'
  <2>1. PICK late \in InOrder(ovflist, Unlinked) : rdllist' = Requeued(late)
    BY <1>6, Zenon DEF EndScan
  <2>2. Unlinked \in SUBSET Files
    BY Splice DEF Unlinked, Range
  <2>3. late \in Seq(Files)
    BY <2>1, <2>2, TakeOver, Zenon
  <2>4. rdllist' \in Seq(Files)
    BY <2>1, <2>3, Splice, Zenon DEF Requeued
  <2>5. txlist' = <<>> /\ ovflist' = <<>>
    BY <1>6, Zenon DEF EndScan
  <2> QED
    BY <2>4, <2>5
<1>7. ASSUME NEW t \in WaitThreads, ep_send_events_proc(t)
      PROVE  ListTypes'
  <2>1. Tail(txlist) \in Seq(Files) /\ Append(rdllist, Head(txlist)) \in Seq(Files)
    BY <1>7, TakeHead, AddTail, Zenon DEF ep_send_events_proc
  <2> QED
    BY <1>7, <2>1, Zenon DEF ep_send_events_proc, Report
<1>8. ASSUME NEW t \in WaitThreads, BeginScan(t)
      PROVE  ListTypes'
  BY <1>8 DEF BeginScan
<1>9. ASSUME NEW t \in WaitThreads,
             \/ \E to \in Timeouts : epoll_wait(t, to)
             \/ TimerExpires(t) \/ SignalArrives(t) \/ fetch_events(t) \/ ResumePoll(t)
      PROVE  ListTypes'
  BY <1>9, Zenon DEF epoll_wait, TimerExpires, SignalArrives, fetch_events, ResumePoll,
     listVars
<1> QED
  BY <1>1, <1>2, <1>3, <1>4, <1>5, <1>6, <1>7, <1>8, <1>9, Zenon
     DEF Next, CtlEnd, WaitStep, ScanDone, CopyFaults

(* The files, callbacks and pending events keep their types.               *)
LEMMA FileTypesStep ==
  ASSUME Types, Next
  PROVE  FileTypes'
<1> USE DEF Types, FileTypes
<1>1. CASE FileStep
  <2>1. PICK f \in Files, e \in Events : EventArrives(f, e) \/ Consume(f, e)
    BY <1>1, Zenon DEF FileStep
  <2>2. ready' \in [Files -> SUBSET Events]
    BY <2>1, ZenonT(60) DEF EventArrives, Consume
  <2>3. callbacks' \subseteq Files \X Events /\ fresh' \subseteq Files \X Events
    BY <2>1 DEF EventArrives, Consume
  <2> QED
    BY <2>2, <2>3, Zenon
<1>2. CASE CallbackStep
  BY <1>2, Zenon DEF CallbackStep, ep_poll_callback, histVars
<1>3. \A f \in Files : NotFresh(f) \subseteq Files \X Events
  BY Zenon DEF NotFresh
<1>4. ASSUME NEW f \in Files, NEW op, NEW mode, NEW events \in SUBSET (Events \ Always),
             CtlPoll(op, f, mode, events)
      PROVE  FileTypes'
  <2>1. ready[f] \cap (events \cup Always) \in SUBSET Events
    BY EventsAssumption, Zenon
  <2>2. fresh' = NotFresh(f) \cup ({f} \X (ready[f] \cap (events \cup Always)))
    BY <1>4, Zenon DEF CtlPoll
  <2>3. fresh' \subseteq Files \X Events
    BY <1>3, <2>1, <2>2, Zenon
  <2> QED
    BY <1>4, <2>3, Zenon DEF CtlPoll, fileVars
<1>5. ASSUME NEW f \in Files, Unregister(f), UNCHANGED fileVars
      PROVE  FileTypes'
  BY <1>3, <1>5, Zenon DEF Unregister, fileVars
<1>6. CASE CtlStep
  BY <1>4, <1>5, <1>6, Zenon DEF CtlStep, epoll_ctl_add, epoll_ctl_mod, epoll_ctl_del
<1>7. CASE CtlLink
  BY <1>7, Zenon DEF CtlLink, fileVars, histVars
<1>8. CASE ep_insert_fails
  <2>1. fresh' \subseteq fresh
    BY <1>8, Zenon DEF ep_insert_fails, Unregister, NotFresh
  <2> QED
    BY <1>8, <2>1, Zenon DEF ep_insert_fails, fileVars
<1>9. ASSUME NEW t \in WaitThreads, ep_send_events_proc(t)
      PROVE  FileTypes'
  BY <1>9, Zenon DEF ep_send_events_proc, Report, NotFresh, fileVars
<1>10. ASSUME NEW t \in WaitThreads,
             \/ \E to \in Timeouts : epoll_wait(t, to)
             \/ TimerExpires(t) \/ SignalArrives(t) \/ fetch_events(t) \/ ResumePoll(t)
             \/ BeginScan(t) \/ ScanDone(t) \/ CopyFaults(t)
      PROVE  FileTypes'
  <2>1. UNCHANGED fileVars /\ UNCHANGED histVars
    BY <1>10, Zenon DEF epoll_wait, TimerExpires, SignalArrives, fetch_events, ResumePoll,
       BeginScan, ScanDone, CopyFaults, EndScan
  <2> QED
    BY <2>1, Zenon DEF fileVars, histVars
<1> QED
  BY <1>1, <1>2, <1>6, <1>7, <1>8, <1>9, <1>10, Zenon DEF Next, CtlEnd, WaitStep

(* The items, what epoll_ctl works on and the reports of ONESHOT items     *)
(* keep their types.                                                       *)
LEMMA ItemTypesStep ==
  ASSUME Types, HolderInv, Next
  PROVE  ItemTypes'
<1> USE DEF Types, ItemTypes, Registered
<1>1. CASE UNCHANGED <<item, ctl, shots>>
  BY <1>1, Zenon
<1>2. ASSUME NEW f \in Files, NEW op \in {"add", "mod"}, NEW mode \in Modes,
             NEW events \in SUBSET (Events \ Always), CtlPoll(op, f, mode, events)
      PROVE  ItemTypes'
  <2>1. events \cup Always \in SUBSET Events
    BY EventsAssumption, Zenon
  <2>2. item' = [g \in Registered \cup {f} |->
                   IF g = f THEN [mode |-> mode, events |-> events \cup Always] ELSE item[g]]
    BY <1>2, Zenon DEF CtlPoll
  <2>3. Registered' = Registered \cup {f}
    BY <2>2, Zenon
  <2>4. item' \in [Registered \cup {f} -> [mode : Modes, events : SUBSET Events]]
    BY <2>1, <2>2, Zenon
  <2>5. ctl' = [op |-> op, file |-> f, revents |-> ready[f] \cap (events \cup Always)]
    BY <1>2, Zenon DEF CtlPoll
  <2>6. ctl' \in [op : {"add", "mod"}, file : Files, revents : SUBSET Events]
    BY <2>1, <2>5, Zenon
  <2>7. shots' \in [Files -> 0..2]
    BY <1>2 DEF CtlPoll
  <2> QED
    BY <2>3, <2>4, <2>6, <2>7, Zenon
<1>3. ASSUME NEW f \in Files, Unregister(f), ctl' \in {ctl, NoCtl}
      PROVE  ItemTypes'
  <2>1. item' = [g \in Registered \ {f} |-> item[g]]
    BY <1>3, Zenon DEF Unregister, Restrict
  <2>2. Registered' = Registered \ {f} /\ shots' \in [Files -> 0..2]
    BY <1>3, <2>1 DEF Unregister
  <2> QED
    BY <1>3, <2>1, <2>2, Zenon
<1>4. CASE CtlStep
  BY <1>2, <1>3, <1>4, Zenon DEF CtlStep, epoll_ctl_add, epoll_ctl_mod, epoll_ctl_del
<1>5. CASE CtlLink
  BY <1>5, Zenon DEF CtlLink, histVars
<1>6. CASE ep_insert_fails
  BY <1>3, <1>6, Zenon DEF ep_insert_fails, HolderInv
<1>7. ASSUME NEW t \in WaitThreads, ep_send_events_proc(t)
      PROVE  ItemTypes'
  <2> DEFINE f == Head(txlist)
  <2>1. f \in Files
    BY <1>7, TakeHead, Zenon DEF ep_send_events_proc, ListTypes
  <2>2. Report(t, f)
    BY <1>7, Zenon DEF ep_send_events_proc
  <2> HIDE DEF f
  <2>3. shots' \in [Files -> 0..2]
    BY <2>1, <2>2 DEF Report
  <2>4. ctl' = ctl /\ (item' = item \/ item' = [item EXCEPT ![f].events = {}])
    BY <2>2, Zenon DEF Report
  <2>5. Registered' = Registered /\ item' \in [Registered -> [mode : Modes, events : SUBSET Events]]
    BY <2>4
  <2> QED
    BY <2>3, <2>4, <2>5, Zenon
<1>8. FileStep \/ CallbackStep => UNCHANGED <<item, ctl, shots>>
  BY Zenon DEF FileStep, EventArrives, Consume, CallbackStep, ep_poll_callback, histVars
<1>9. ASSUME NEW t \in WaitThreads,
             \/ \E to \in Timeouts : epoll_wait(t, to)
             \/ TimerExpires(t) \/ SignalArrives(t) \/ fetch_events(t) \/ ResumePoll(t)
             \/ BeginScan(t) \/ ScanDone(t) \/ CopyFaults(t)
      PROVE  UNCHANGED <<item, ctl, shots>>
  <2>1. UNCHANGED <<item, ctl>> /\ UNCHANGED histVars
    BY <1>9, Zenon DEF epoll_wait, TimerExpires, SignalArrives, fetch_events, ResumePoll,
       BeginScan, ScanDone, CopyFaults, EndScan
  <2> QED
    BY <2>1, Zenon DEF histVars
<1> QED
  BY <1>1, <1>4, <1>5, <1>6, <1>7, <1>8, <1>9, Zenon DEF Next, CtlEnd, WaitStep

(* The mutex, the wait queue and the control of the threads keep their     *)
(* types.                                                                  *)
LEMMA ThreadTypesStep ==
  ASSUME Types, Next
  PROVE  ThreadTypes'
<1> USE DEF Types, ThreadTypes
<1>1. ASSUME WakeUp(pc) PROVE pc' \in [WaitThreads -> Places]
  BY <1>1, WakeOne, Zenon
<1>2. ASSUME NEW t \in WaitThreads, NEW p \in [WaitThreads -> Places], NEW l \in Places
      PROVE  [p EXCEPT ![t] = l] \in [WaitThreads -> Places]
  BY Zenon
<1>3. /\ "user" \in Places /\ "fetch" \in Places /\ "asleep" \in Places
      /\ "woken" \in Places /\ "send" \in Places /\ "scan" \in Places
  BY Zenon DEF Places
<1>4. FileStep \/ CallbackStep \/ CtlStep \/ CtlEnd => ThreadTypes'
  <2>1. /\ FileStep => UNCHANGED <<mtx, wq, pc>>
        /\ CallbackStep => UNCHANGED <<mtx, wq>> /\ (pc' = pc \/ WakeUp(pc))
        /\ CtlStep => UNCHANGED <<wq, pc>> /\ mtx' \in {mtx, CtlThread}
        /\ CtlEnd => UNCHANGED wq /\ mtx' = Free /\ (pc' = pc \/ WakeUp(pc))
    BY ZenonT(60) DEF FileStep, EventArrives, Consume, CallbackStep, ep_poll_callback,
       CtlStep, CtlEnd,
       epoll_ctl_add, epoll_ctl_mod, epoll_ctl_del, CtlPoll, CtlLink, ep_insert_fails
  <2> QED
    BY <1>1, <2>1, Zenon
<1>5. ASSUME NEW t \in WaitThreads, LeaveQueue(t)
      PROVE  wq' \in Seq(WaitThreads)
  BY <1>5, Deleted DEF LeaveQueue
<1>6. ASSUME NEW t \in WaitThreads
      PROVE  Append(wq, t) \in Seq(WaitThreads)
  BY AddTail, Zenon
<1>7. ASSUME NEW t \in WaitThreads, NEW to \in Timeouts, epoll_wait(t, to)
      PROVE  ThreadTypes'
  <2>1. \E l \in Places : pc' = [pc EXCEPT ![t] = l]
    BY <1>3, <1>7, Zenon DEF epoll_wait
  <2> QED
    BY <1>2, <1>7, <2>1 DEF epoll_wait
<1>8. ASSUME NEW t \in WaitThreads, fetch_events(t)
      PROVE  ThreadTypes'
  <2>1. \E l \in Places : pc' = [pc EXCEPT ![t] = l]
    BY <1>3, <1>8, Zenon DEF fetch_events, GoTo, ReturnToUser
  <2>2. mtx' = mtx /\ wq' \in {wq, Append(wq, t)}
    BY <1>8, Zenon DEF fetch_events
  <2> QED
    BY <1>2, <1>6, <2>1, <2>2, SMTT(30)
<1>9. ASSUME NEW t \in WaitThreads, TimerExpires(t) \/ SignalArrives(t)
      PROVE  ThreadTypes'
  <2>1. pc' = pc \/ \E l \in Places : pc' = [pc EXCEPT ![t] = l]
    BY <1>3, <1>9, Zenon DEF TimerExpires, SignalArrives
  <2>2. UNCHANGED <<mtx, wq>>
    BY <1>9, Zenon DEF TimerExpires, SignalArrives
  <2> QED
    BY <1>2, <2>1, <2>2
<1>10. ASSUME NEW t \in WaitThreads, ResumePoll(t)
       PROVE  ThreadTypes'
  <2>1. \E l \in Places : pc' = [pc EXCEPT ![t] = l]
    BY <1>3, <1>10, Zenon DEF ResumePoll, GoTo, ReturnToUser
  <2>2. mtx' = mtx /\ (wq' = wq \/ LeaveQueue(t))
    BY <1>10, Zenon DEF ResumePoll
  <2> QED
    BY <1>2, <1>5, <2>1, <2>2
<1>11. ASSUME NEW t \in WaitThreads, BeginScan(t)
       PROVE  ThreadTypes'
  BY <1>2, <1>3, <1>11, Zenon DEF BeginScan, GoTo
<1>12. ASSUME NEW t \in WaitThreads, ep_send_events_proc(t)
       PROVE  ThreadTypes'
  BY <1>12, Zenon DEF ep_send_events_proc, Report
<1>13. ASSUME NEW t \in WaitThreads, EndScan(t, "user") \/ EndScan(t, "fetch")
       PROVE  ThreadTypes'
  <2>1. PICK l \in Places : LET p == [pc EXCEPT ![t] = l]
                            IN  pc' = p \/ WakeUp(p)
    BY <1>3, <1>13, Zenon DEF EndScan
  <2>2. [pc EXCEPT ![t] = l] \in [WaitThreads -> Places]
    BY <1>2, Zenon
  <2>3. pc' \in [WaitThreads -> Places]
    BY <2>1, <2>2, WakeOne, Zenon
  <2> QED
    BY <1>13, <2>3, Zenon DEF EndScan
<1> QED
  BY <1>4, <1>7, <1>8, <1>9, <1>10, <1>11, <1>12, <1>13, Zenon
     DEF Next, WaitStep, ScanDone, CopyFaults

(* The timeouts, signals and counts of the calls keep their types; no call *)
(* reports more than MaxEvents.                                            *)
LEMMA CallTypesStep ==
  ASSUME Types, Next
  PROVE  CallTypes'
<1> USE DEF Types, CallTypes
<1>1. CASE UNCHANGED callVars
  BY <1>1, Zenon DEF callVars
<1>2. FileStep \/ CallbackStep \/ CtlStep \/ CtlEnd => UNCHANGED callVars
  BY ZenonT(60) DEF FileStep, EventArrives, Consume, CallbackStep, ep_poll_callback,
     CtlStep, CtlEnd,
     epoll_ctl_add, epoll_ctl_mod, epoll_ctl_del, CtlPoll, CtlLink, ep_insert_fails
<1>3. ASSUME NEW t \in WaitThreads, ResetCall(t)
      PROVE  CallTypes'
  BY <1>3, MaxEventsAssumption DEF ResetCall
<1>4. ASSUME NEW t \in WaitThreads, NEW to \in Timeouts, epoll_wait(t, to)
      PROVE  CallTypes'
  <2>1. /\ timeout' = timeout \/ timeout' = [timeout EXCEPT ![t] = to]
        /\ timed_out' = timed_out \/ timed_out' = [timed_out EXCEPT ![t] = to = "zero"]
        /\ UNCHANGED <<signal, eventcnt>>
    BY <1>4, Zenon DEF epoll_wait
  <2>2. timeout' \in [WaitThreads -> {"zero", "finite", "forever"}]
    BY <2>1, TimeoutsAssumption
  <2>3. \A b \in BOOLEAN : [timed_out EXCEPT ![t] = b] \in [WaitThreads -> BOOLEAN]
    BY Zenon
  <2>4. timed_out' \in [WaitThreads -> BOOLEAN]
    BY <2>1, <2>3, Zenon
  <2> QED
    BY <2>1, <2>2, <2>4, Zenon
<1>5. ASSUME NEW t \in WaitThreads, TimerExpires(t) \/ SignalArrives(t)
      PROVE  CallTypes'
  BY <1>5, Zenon DEF TimerExpires, SignalArrives
<1>6. ASSUME NEW t \in WaitThreads, ep_send_events_proc(t)
      PROVE  CallTypes'
  <2>1. eventcnt[t] < MaxEvents /\ UNCHANGED <<timeout, timed_out, signal>>
        /\ (eventcnt' = eventcnt \/ eventcnt' = [eventcnt EXCEPT ![t] = @ + 1])
    BY <1>6, Zenon DEF ep_send_events_proc, Report
  <2> QED
    BY <2>1, MaxEventsAssumption
<1>7. ASSUME NEW t \in WaitThreads,
             \/ fetch_events(t) \/ ResumePoll(t) \/ BeginScan(t) \/ ScanDone(t) \/ CopyFaults(t)
      PROVE  ResetCall(t) \/ UNCHANGED callVars
  BY <1>7, Zenon DEF fetch_events, ResumePoll, BeginScan, ScanDone, CopyFaults, GoTo,
     ReturnToUser
<1> QED
  BY <1>1, <1>2, <1>3, <1>4, <1>5, <1>6, <1>7, Zenon DEF Next, WaitStep

-----------------------------------------------------------------------------
(* The steps of a thread outside ep_scan_ready_list.                       *)
Waits(t) ==
  \/ \E to \in Timeouts : epoll_wait(t, to)
  \/ TimerExpires(t) \/ SignalArrives(t) \/ fetch_events(t) \/ ResumePoll(t)

ScanEnds(t) == EndScan(t, "user") \/ EndScan(t, "fetch")

(* The steps of the eventpoll.                                             *)
LEMMA Steps ==
  ASSUME Next
  PROVE  \/ FileStep \/ CallbackStep \/ CtlStep \/ CtlLink \/ ep_insert_fails
         \/ \E t \in WaitThreads :
              \/ Waits(t) \/ BeginScan(t) \/ ep_send_events_proc(t)
              \/ pc[t] = "scan" /\ ScanEnds(t)
BY Zenon DEF Next, CtlEnd, Waits, WaitStep, ScanDone, CopyFaults, ScanEnds

(* A thread that waits changes nothing but itself and the wait queue.      *)
LEMMA WaitsAlone ==
  ASSUME NEW t \in WaitThreads, Waits(t)
  PROVE  UNCHANGED <<ready, callbacks, item, rdllist, txlist, ovflist, mtx, ctl, fresh, shots>>
<1>1. UNCHANGED fileVars /\ UNCHANGED listVars /\ UNCHANGED histVars /\ UNCHANGED <<item, mtx, ctl>>
  BY Zenon DEF Waits, epoll_wait, TimerExpires, SignalArrives, fetch_events, ResumePoll
<1> QED
  BY <1>1, Zenon DEF fileVars, listVars, histVars

(* Where a thread that waits goes: to sleep only when nothing is ready,    *)
(* and to user space, from inside epoll_wait, only then.                   *)
LEMMA WaitsMoves ==
  ASSUME Types, NEW t \in WaitThreads, Waits(t)
  PROVE  /\ \A u \in WaitThreads \ {t} : pc'[u] = pc[u]
         /\ pc[t] # "scan" /\ pc'[t] # "scan"
         /\ \/ UNCHANGED wq /\ (pc[t] \in {"asleep", "woken"} <=> pc'[t] \in {"asleep", "woken"})
            \/ pc[t] = "fetch" /\ pc'[t] = "asleep" /\ wq' = Append(wq, t)
            \/ pc[t] = "woken" /\ pc'[t] \in {"send", "user"} /\ LeaveQueue(t)
         /\ pc'[t] \in {"asleep", "user"} => \/ pc[t] = "user" \/ rdllist = <<>>
                                             \/ pc'[t] = "asleep" /\ pc[t] = "asleep"
<1> USE DEF Types, ThreadTypes
<1>1. ASSUME NEW to \in Timeouts, epoll_wait(t, to)
      PROVE  /\ pc[t] = "user" /\ UNCHANGED wq
             /\ \E l \in {"fetch", "send", "user"} : pc' = [pc EXCEPT ![t] = l]
  BY <1>1, Zenon DEF epoll_wait
<1>2. ASSUME TimerExpires(t)
      PROVE  /\ pc[t] \in {"asleep", "woken"} /\ UNCHANGED wq /\ pc' = [pc EXCEPT ![t] = "woken"]
  BY <1>2, Zenon DEF TimerExpires
<1>3. ASSUME SignalArrives(t)
      PROVE  /\ pc[t] \in {"fetch", "asleep", "woken"} /\ UNCHANGED wq
             /\ \/ pc[t] # "asleep" /\ pc' = pc
                \/ pc[t] = "asleep" /\ pc' = [pc EXCEPT ![t] = "woken"]
  BY <1>3, Zenon DEF SignalArrives
<1>4. ASSUME fetch_events(t)
      PROVE  /\ pc[t] = "fetch"
             /\ \/ UNCHANGED wq /\ pc' = [pc EXCEPT ![t] = "send"]
                \/ rdllist = <<>> /\ UNCHANGED wq /\ pc' = [pc EXCEPT ![t] = "user"]
                \/ rdllist = <<>> /\ wq' = Append(wq, t) /\ pc' = [pc EXCEPT ![t] = "asleep"]
  BY <1>4, Zenon DEF fetch_events, GoTo, ReturnToUser, ep_events_available
<1>5. ASSUME ResumePoll(t)
      PROVE  /\ pc[t] = "woken"
             /\ \/ LeaveQueue(t) /\ pc' = [pc EXCEPT ![t] = "send"]
                \/ rdllist = <<>> /\ LeaveQueue(t) /\ pc' = [pc EXCEPT ![t] = "user"]
                \/ rdllist = <<>> /\ UNCHANGED wq /\ pc' = [pc EXCEPT ![t] = "asleep"]
  BY <1>5, Zenon DEF ResumePoll, GoTo, ReturnToUser, ep_events_available
<1>6. CASE \E to \in Timeouts : epoll_wait(t, to)
  BY <1>1, <1>6, Zenon
<1>7. CASE TimerExpires(t)
  BY <1>2, <1>7, Zenon
<1>8. CASE SignalArrives(t)
  BY <1>3, <1>8, Zenon
<1>9. CASE fetch_events(t)
  BY <1>4, <1>9, Zenon
<1>10. CASE ResumePoll(t)
  BY <1>5, <1>10, Zenon
<1> QED
  BY <1>6, <1>7, <1>8, <1>9, <1>10, Zenon DEF Waits

(* The end of a scan: who goes where.                                      *)
LEMMA EndMoves ==
  ASSUME Types, NEW t \in WaitThreads, pc[t] = "scan", ScanEnds(t)
  PROVE  /\ pc'[t] \in {"user", "fetch"}
         /\ \A u \in WaitThreads \ {t} : \/ pc'[u] = pc[u]
                                         \/ pc[u] = "asleep" /\ pc'[u] = "woken"
         /\ \A u \in Range(wq) : pc[u] = "asleep" /\ rdllist' # <<>> =>
              \E v \in WaitThreads : pc'[v] = "woken"
<1> USE DEF Types, ThreadTypes
<1>1. PICK label \in {"user", "fetch"} :
        LET p == [pc EXCEPT ![t] = label]
        IN  IF rdllist' = <<>> THEN pc' = p ELSE WakeUp(p)
  BY Zenon DEF ScanEnds, EndScan
<1> DEFINE p == [pc EXCEPT ![t] = label]
<1>2. /\ p \in [WaitThreads -> Places] /\ p[t] = label
      /\ \A u \in WaitThreads \ {t} : p[u] = pc[u]
  BY Zenon DEF Places
<1>3. IF rdllist' = <<>> THEN pc' = p ELSE WakeUp(p)
  BY <1>1, Zenon
<1> HIDE DEF p
<1>4. CASE rdllist' = <<>>
  BY <1>2, <1>3, <1>4, Zenon
<1>5. CASE rdllist' # <<>>
  <2>1. /\ \A u \in WaitThreads : \/ pc'[u] = p[u]
                                  \/ p[u] = "asleep" /\ pc'[u] = "woken"
        /\ \A u \in Range(wq) : p[u] = "asleep" =>
             \E v \in WaitThreads : pc'[v] = "woken"
    BY <1>2, <1>3, <1>5, WakeOne, Zenon
  <2>2. \A u \in Range(wq) : pc[u] = "asleep" => p[u] = "asleep"
    BY <1>2, Entries, Zenon DEF Range
  <2> QED
    BY <1>2, <2>1, <2>2, Zenon
<1> QED
  BY <1>4, <1>5, Zenon

(* The mutex is held by the thread that scans, or by epoll_ctl.            *)
LEMMA HolderStep ==
  ASSUME Types, HolderInv, Next
  PROVE  HolderInv'
<1> USE DEF Types, ThreadTypes
<1>1. /\ \A t \in WaitThreads : t # Free /\ t # CtlThread
      /\ Free # CtlThread
  BY ThreadsAssumption, Zenon DEF Free, CtlThread
<1>2. ASSUME pc' = pc \/ WakeUp(pc), NEW t \in WaitThreads
      PROVE  pc'[t] = "scan" <=> pc[t] = "scan"
  BY <1>2, WakeOne, Zenon
<1>3. ASSUME UNCHANGED <<txlist, ctl, item, mtx>>, UNCHANGED ovflist \/ Scanning,
             \A t \in WaitThreads : pc'[t] = "scan" <=> pc[t] = "scan"
      PROVE  HolderInv'
  BY <1>3, Zenon DEF HolderInv, Scanning, Registered
<1>4. CASE FileStep
  BY <1>3, <1>4, Zenon DEF FileStep, EventArrives, Consume, listVars
<1>5. CASE CallbackStep
  <2>1. UNCHANGED <<txlist, ctl, item, mtx>> /\ (UNCHANGED ovflist \/ Scanning)
        /\ (pc' = pc \/ WakeUp(pc))
    BY <1>5, Zenon DEF CallbackStep, ep_poll_callback
  <2> QED
    BY <1>2, <1>3, <2>1, Zenon
<1>6. CASE mtx = Free /\ (CtlStep \/ \E t \in WaitThreads : BeginScan(t))
  <2>1. /\ txlist = <<>> /\ ovflist = <<>> /\ \A t \in WaitThreads : pc[t] # "scan"
    BY <1>1, <1>6, Zenon DEF HolderInv, Scanning
  <2>2. ASSUME NEW f \in Files, NEW op \in {"add", "mod"}, NEW mode,
               NEW events \in SUBSET (Events \ Always), CtlPoll(op, f, mode, events)
        PROVE  HolderInv'
    <3>1. ctl' = [op |-> op, file |-> f, revents |-> ready[f] \cap (events \cup Always)]
      BY <2>2, ZenonT(30) DEF CtlPoll
    <3>2. ready[f] \cap (events \cup Always) \in SUBSET Events
      BY EventsAssumption, Zenon
    <3>3. ctl' \in [op : {"add", "mod"}, file : Files, revents : SUBSET Events] /\ ctl'.file = f
      BY <3>1, <3>2, Zenon
    <3>4. f \in Registered'
      BY <2>2, Zenon DEF CtlPoll, Registered
    <3>5. UNCHANGED <<txlist, ovflist, pc>> /\ mtx' = CtlThread
      BY <2>2, Zenon DEF CtlPoll, listVars
    <3> QED
      BY <1>1, <2>1, <3>3, <3>4, <3>5, Zenon DEF HolderInv
  <2>3. CASE CtlStep
    <3>1. ASSUME NEW f \in Files, epoll_ctl_del(f)
          PROVE  HolderInv'
      <4>1. UNCHANGED <<txlist, ovflist, mtx, pc>>
        BY <3>1, Zenon DEF epoll_ctl_del
      <4> QED
        BY <1>1, <1>6, <2>1, <4>1, Zenon DEF HolderInv
    <3>2. "add" \in {"add", "mod"} /\ "mod" \in {"add", "mod"}
      BY Zenon
    <3> QED
      BY <2>2, <2>3, <3>1, <3>2, Zenon DEF CtlStep, epoll_ctl_add, epoll_ctl_mod
  <2>4. ASSUME NEW t \in WaitThreads, BeginScan(t)
        PROVE  HolderInv'
    <3>1. mtx' = t /\ pc' = [pc EXCEPT ![t] = "scan"]
      BY <2>4, Zenon DEF BeginScan, GoTo
    <3>2. \A u \in WaitThreads : pc'[u] = "scan" <=> u = t
      BY <2>1, <3>1, Zenon
    <3> QED
      BY <1>1, <3>1, <3>2, Zenon DEF HolderInv, Scanning
  <2> QED
    BY <1>6, <2>3, <2>4, Zenon
<1>7. CASE CtlLink \/ ep_insert_fails
  <2>1. mtx = CtlThread /\ mtx' = Free /\ UNCHANGED <<txlist, ovflist>>
        /\ (pc' = pc \/ WakeUp(pc))
    BY <1>7, Zenon DEF CtlLink, ep_insert_fails
  <2>2. /\ txlist = <<>> /\ ovflist = <<>> /\ \A t \in WaitThreads : pc[t] # "scan"
    BY <1>1, <2>1, Zenon DEF HolderInv, Scanning
  <2> QED
    BY <1>1, <1>2, <2>1, <2>2, Zenon DEF HolderInv
<1>8. ASSUME NEW t \in WaitThreads, Waits(t)
      PROVE  HolderInv'
  <2>1. UNCHANGED <<txlist, ctl, item, mtx, ovflist>>
    BY <1>8, WaitsAlone, Zenon
  <2>2. \A u \in WaitThreads : pc'[u] = "scan" <=> pc[u] = "scan"
    BY <1>8, WaitsMoves, Zenon
  <2> QED
    BY <1>3, <2>1, <2>2, Zenon
<1>9. ASSUME NEW t \in WaitThreads, ep_send_events_proc(t)
      PROVE  HolderInv'
  <2>1. mtx = t /\ UNCHANGED <<mtx, pc>>
    BY <1>9, Zenon DEF ep_send_events_proc, Report, HolderInv
  <2> QED
    BY <1>1, <2>1, Zenon DEF HolderInv, Scanning
<1>10. ASSUME NEW t \in WaitThreads, pc[t] = "scan", ScanEnds(t)
       PROVE  HolderInv'
  <2>1. mtx = t /\ mtx' = Free /\ txlist' = <<>> /\ ovflist' = <<>>
    BY <1>10, Zenon DEF ScanEnds, EndScan, HolderInv
  <2>2. \A u \in WaitThreads : pc'[u] # "scan"
    BY <1>10, <2>1, EndMoves, Zenon DEF HolderInv
  <2> QED
    BY <1>1, <2>1, <2>2, Zenon DEF HolderInv
<1>11. (CtlStep \/ \E t \in WaitThreads : BeginScan(t)) => mtx = Free
  BY ZenonT(30) DEF CtlStep, epoll_ctl_add, epoll_ctl_mod, epoll_ctl_del, CtlPoll, BeginScan
<1> QED
  BY <1>4, <1>5, <1>6, <1>7, <1>8, <1>9, <1>10, <1>11, Steps, ZenonT(30)

(* The wait queue holds the threads that sleep or have just been woken.    *)
LEMMA QueueStep ==
  ASSUME Types, HolderInv, QueueInv, Next
  PROVE  QueueInv'
<1> USE DEF Types, ThreadTypes
<1>1. ASSUME pc' = pc \/ WakeUp(pc), NEW t \in WaitThreads
      PROVE  pc'[t] = pc[t] \/ (pc[t] = "asleep" /\ pc'[t] = "woken")
  BY <1>1, WakeOne, Zenon
<1>2. ASSUME UNCHANGED wq, \A t \in WaitThreads :
               pc'[t] \in {"asleep", "woken"} <=> pc[t] \in {"asleep", "woken"}
      PROVE  QueueInv'
  BY <1>2, Zenon DEF QueueInv
<1>3. CASE FileStep \/ CallbackStep \/ CtlStep \/ CtlLink \/ ep_insert_fails
  <2>1. UNCHANGED wq /\ (pc' = pc \/ WakeUp(pc))
    BY <1>3, ZenonT(60) DEF FileStep, EventArrives, Consume, CallbackStep,
       ep_poll_callback, CtlStep,
       epoll_ctl_add, epoll_ctl_mod, epoll_ctl_del, CtlPoll, CtlLink, ep_insert_fails
  <2> QED
    BY <1>1, <1>2, <2>1, Zenon
<1>4. ASSUME NEW t \in WaitThreads, Waits(t)
      PROVE  QueueInv'
  <2>1. \A u \in WaitThreads \ {t} : pc'[u] = pc[u]
    BY <1>4, WaitsMoves, Zenon
  <2>2. CASE UNCHANGED wq /\ (pc[t] \in {"asleep", "woken"} <=> pc'[t] \in {"asleep", "woken"})
    BY <1>2, <2>1, <2>2, Zenon
  <2>3. CASE pc[t] = "fetch" /\ pc'[t] = "asleep" /\ wq' = Append(wq, t)
    <3>1. t \notin Range(wq)
      BY <2>3, Zenon DEF QueueInv
    <3>2. IsInjective(wq') /\ Range(wq') = Range(wq) \cup {t}
      BY <2>3, <3>1, AddTail DEF QueueInv
    <3> QED
      BY <2>1, <2>3, <3>2, Zenon DEF QueueInv
  <2>4. CASE pc[t] = "woken" /\ pc'[t] \in {"send", "user"} /\ LeaveQueue(t)
    <3>1. IsInjective(wq') /\ Range(wq') = Range(wq) \ {t}
      BY <2>4, Deleted DEF LeaveQueue, QueueInv
    <3> QED
      BY <2>1, <2>4, <3>1, Zenon DEF QueueInv
  <2> QED
    BY <1>4, <2>2, <2>3, <2>4, WaitsMoves, Zenon
<1>5. ASSUME NEW t \in WaitThreads, BeginScan(t)
      PROVE  QueueInv'
  <2>1. pc[t] = "send" /\ pc' = [pc EXCEPT ![t] = "scan"] /\ UNCHANGED wq
    BY <1>5, Zenon DEF BeginScan, GoTo
  <2> QED
    BY <1>2, <2>1, Zenon
<1>6. ASSUME NEW t \in WaitThreads, ep_send_events_proc(t)
      PROVE  QueueInv'
  BY <1>2, <1>6, Zenon DEF ep_send_events_proc, Report
<1>7. ASSUME NEW t \in WaitThreads, pc[t] = "scan", ScanEnds(t)
      PROVE  QueueInv'
  <2>1. UNCHANGED wq
    BY <1>7, Zenon DEF ScanEnds, EndScan
  <2> QED
    BY <1>2, <1>7, <2>1, EndMoves, Zenon
<1> QED
  BY <1>3, <1>4, <1>5, <1>6, <1>7, Steps, Zenon

(* A thread that is awake inside epoll_wait looks at the ready list.       *)
LEMMA StrandedStep ==
  ASSUME Types, HolderInv, QueueInv, NoStrandedWaiter, Next
  PROVE  NoStrandedWaiter'
<1> USE DEF Types, ThreadTypes
<1>1. ASSUME WakeUp(pc)
      PROVE  /\ \A t \in WaitThreads : \/ pc'[t] = pc[t]
                                       \/ pc[t] = "asleep" /\ pc'[t] = "woken"
             /\ \A t \in WaitThreads : pc[t] = "asleep" =>
                  \E u \in WaitThreads : pc'[u] = "woken"
  BY <1>1, WakeOne, Zenon DEF QueueInv
<1>2. ASSUME NEW u \in WaitThreads, pc'[u] \notin {"user", "asleep"}
      PROVE  NoStrandedWaiter'
  BY <1>2, Zenon DEF NoStrandedWaiter
<1>3. CASE WakeUp(pc)
  <2> SUFFICES ASSUME NEW t \in WaitThreads, pc'[t] = "asleep"
               PROVE  \E u \in WaitThreads : pc'[u] \notin {"user", "asleep"}
    BY Zenon DEF NoStrandedWaiter
  <2>1. \E u \in WaitThreads : pc'[u] = "woken"
    BY <1>1, <1>3, Zenon
  <2> QED
    BY <1>3, <2>1, Zenon
<1>4. CASE pc' = pc /\ (rdllist = <<>> => rdllist' = <<>>)
  BY <1>4, Zenon DEF NoStrandedWaiter
<1>5. CASE FileStep \/ CallbackStep \/ CtlStep \/ CtlLink \/ ep_insert_fails
  <2>1. ASSUME NEW f, Unregister(f), rdllist = <<>>
        PROVE  rdllist' = <<>>
    BY <2>1 DEF Unregister
  <2>2. CASE FileStep
    BY <1>4, <2>2, Zenon DEF FileStep, EventArrives, Consume, listVars
  <2>3. CASE CallbackStep
    BY <1>3, <1>4, <2>3, Zenon DEF CallbackStep, ep_poll_callback
  <2>4. CASE CtlStep
    BY <1>4, <2>1, <2>4, ZenonT(60) DEF CtlStep, epoll_ctl_add, epoll_ctl_mod,
       epoll_ctl_del,
       CtlPoll, listVars
  <2>5. CASE CtlLink
    BY <1>3, <1>4, <2>5, Zenon DEF CtlLink
  <2>6. CASE ep_insert_fails
    BY <1>4, <2>1, <2>6, Zenon DEF ep_insert_fails
  <2> QED
    BY <1>5, <2>2, <2>3, <2>4, <2>5, <2>6, ZenonT(30)
<1>6. ASSUME NEW t \in WaitThreads, Waits(t)
      PROVE  NoStrandedWaiter'
  <2>1. rdllist' = rdllist
    BY <1>6, WaitsAlone, Zenon
  <2>2. \A u \in WaitThreads \ {t} : pc'[u] = pc[u]
    BY <1>6, WaitsMoves, Zenon
  <2>3. CASE pc'[t] \notin {"asleep", "user"}
    BY <1>2, <2>3, Zenon
  <2>4. CASE rdllist = <<>>
    BY <2>1, <2>4, Zenon DEF NoStrandedWaiter
  <2>5. CASE pc[t] = "user" \/ (pc'[t] = "asleep" /\ pc[t] = "asleep")
    <3>1. pc'[t] = "asleep" => pc[t] = "asleep"
      BY <1>6, <2>5, WaitsMoves, Zenon
    <3> QED
      BY <2>1, <2>2, <2>3, <2>5, <3>1, Zenon DEF NoStrandedWaiter
  <2> QED
    BY <1>6, <2>3, <2>4, <2>5, WaitsMoves, Zenon
<1>7. ASSUME NEW t \in WaitThreads, BeginScan(t)
      PROVE  NoStrandedWaiter'
  <2>1. pc'[t] = "scan"
    BY <1>7, Zenon DEF BeginScan, GoTo
  <2> QED
    BY <1>2, <2>1, Zenon
<1>8. ASSUME NEW t \in WaitThreads, ep_send_events_proc(t)
      PROVE  NoStrandedWaiter'
  <2>1. pc'[t] = "scan"
    BY <1>8, ZenonT(30) DEF ep_send_events_proc, Report
  <2> QED
    BY <1>2, <2>1, Zenon
<1>9. ASSUME NEW t \in WaitThreads, pc[t] = "scan", ScanEnds(t)
      PROVE  NoStrandedWaiter'
  <2> SUFFICES ASSUME NEW u \in WaitThreads, pc'[u] = "asleep", rdllist' # <<>>
               PROVE  \E v \in WaitThreads : pc'[v] = "woken"
    BY <1>2, Zenon DEF NoStrandedWaiter
  <2>1. pc[u] = "asleep"
    BY <1>9, EndMoves, Zenon
  <2> QED
    BY <1>9, <2>1, EndMoves, Zenon DEF QueueInv
<1> QED
  BY <1>5, <1>6, <1>7, <1>8, <1>9, Steps, ZenonT(30)

-----------------------------------------------------------------------------
(* ONESHOT: an item that has reported once is disabled until epoll_ctl     *)
(* sets its mask again.                                                    *)
LEMMA ShotStep ==
  ASSUME Types, ListInv, ShotInv, Next
  PROVE  ShotInv'
<1> USE DEF Types, ItemTypes, Registered
<1>1. CASE UNCHANGED <<item, shots>>
  BY <1>1, ZenonT(30) DEF ShotInv
<1>2. FileStep \/ CallbackStep \/ CtlLink => UNCHANGED <<item, shots>>
  BY Zenon DEF FileStep, EventArrives, Consume, CallbackStep, ep_poll_callback, CtlLink,
     histVars
<1>3. ASSUME NEW f \in Files, NEW op, NEW mode, NEW events, CtlPoll(op, f, mode, events)
      PROVE  ShotInv'
  <2>1. /\ item' = [g \in Registered \cup {f} |->
                      IF g = f THEN [mode |-> mode, events |-> events \cup Always] ELSE item[g]]
        /\ shots' = [shots EXCEPT ![f] = 0]
    BY <1>3, Zenon DEF CtlPoll
  <2> SUFFICES ASSUME NEW g \in Registered', item'[g].mode = "ONESHOT"
               PROVE  shots'[g] = 0 \/ (shots'[g] = 1 /\ item'[g].events = {})
    BY Zenon DEF ShotInv
  <2>2. CASE g = f
    BY <2>1, <2>2, Zenon
  <2>3. CASE g # f
    <3>1. g \in Registered /\ item'[g] = item[g] /\ shots'[g] = shots[g]
      BY <2>1, <2>3, Zenon
    <3> QED
      BY <3>1, Zenon DEF ShotInv
  <2> QED
    BY <2>2, <2>3, Zenon
<1>4. ASSUME NEW f, Unregister(f)
      PROVE  ShotInv'
  <2>1. /\ item' = [g \in Registered \ {f} |-> item[g]]
        /\ shots' = [shots EXCEPT ![f] = 0]
    BY <1>4, Zenon DEF Unregister, Restrict
  <2>2. \A g \in Registered' : g \in Registered /\ item'[g] = item[g] /\ shots'[g] = shots[g]
    BY <2>1, Zenon
  <2> QED
    BY <2>2, Zenon DEF ShotInv
<1>5. CASE CtlStep
  BY <1>3, <1>4, <1>5, Zenon DEF CtlStep, epoll_ctl_add, epoll_ctl_mod, epoll_ctl_del
<1>6. CASE ep_insert_fails
  BY <1>4, <1>6, Zenon DEF ep_insert_fails
<1>7. ASSUME NEW t \in WaitThreads, ep_send_events_proc(t)
      PROVE  ShotInv'
  <2> DEFINE f == Head(txlist)
  <2>1. f \in Registered
    BY <1>7, TakeHead DEF ep_send_events_proc, ListTypes, ListInv
  <2>2. Report(t, f)
    BY <1>7, Zenon DEF ep_send_events_proc
  <2> HIDE DEF f
  <2>3. CASE UNCHANGED <<item, shots>>
    BY <1>1, <2>3, Zenon
  <2>4. CASE /\ ep_item_poll(f) # {} /\ item[f].mode = "ONESHOT"
             /\ item' = [item EXCEPT ![f].events = {}]
             /\ shots' = [shots EXCEPT ![f] = IF @ < 2 THEN @ + 1 ELSE 2]
    <3>1. item[f].events # {}
      BY <2>4, Zenon DEF ep_item_poll
    <3>2. shots[f] = 0
      BY <2>1, <2>4, <3>1, Zenon DEF ShotInv
    <3>3. shots'[f] = 1 /\ item'[f].events = {}
      BY <2>1, <2>4, <3>2
    <3>4. \A g \in Registered' : g # f =>
            g \in Registered /\ item'[g] = item[g] /\ shots'[g] = shots[g]
      BY <2>4, Zenon
    <3> QED
      BY <3>3, <3>4, Zenon DEF ShotInv
  <2> QED
    BY <2>2, <2>3, <2>4, ZenonT(30) DEF Report
<1>8. ASSUME NEW t \in WaitThreads, BeginScan(t) \/ ScanEnds(t)
      PROVE  UNCHANGED <<item, shots>>
  BY <1>8, Zenon DEF BeginScan, ScanEnds, EndScan, histVars
<1>9. ASSUME NEW t \in WaitThreads, Waits(t)
      PROVE  UNCHANGED <<item, shots>>
  BY <1>9, WaitsAlone, Zenon
<1> QED
  BY <1>1, <1>2, <1>5, <1>6, <1>7, <1>8, <1>9, Steps, Zenon

-----------------------------------------------------------------------------
(* An item goes behind the others, on a list it is not on.                 *)
LEMMA ListedOnce ==
  ASSUME ListTypes, ListInv, NEW f \in Registered, f \in Files, UNCHANGED <<item, txlist, ovflist>>,
         ~ep_is_linked(f), rdllist' = Append(rdllist, f)
  PROVE  ListInv' /\ Range(rdllist') = Range(rdllist) \cup {f}
<1>1. f \notin Range(rdllist) /\ f \notin Range(txlist)
  BY Zenon DEF ep_is_linked
<1>2. Range(rdllist') = Range(rdllist) \cup {f} /\ IsInjective(rdllist')
  BY <1>1, AddTail DEF ListTypes, ListInv
<1> QED
  BY <1>1, <1>2, Zenon DEF ListInv, Registered

(* epoll_ctl takes a removed item off the ready list.                      *)
LEMMA Unlisted ==
  ASSUME ListTypes, ListInv, NEW f, Unregister(f), UNCHANGED <<txlist, ovflist>>,
         txlist = <<>>, ovflist = <<>>
  PROVE  /\ ListInv'
         /\ Range(rdllist') = Range(rdllist) \ {f}
         /\ Range(txlist') = {} /\ Range(ovflist') = {}
         /\ Registered' = Registered \ {f}
<1>1. Range(rdllist') = Range(rdllist) \ {f} /\ IsInjective(rdllist')
  <2>1. ASSUME NEW i \in DOMAIN rdllist, rdllist[i] = f, rdllist' = Without(rdllist, i)
        PROVE  Range(rdllist') = Range(rdllist) \ {f} /\ IsInjective(rdllist')
    BY <2>1, Deleted, Zenon DEF ListTypes, ListInv
  <2>2. CASE f \notin Range(rdllist) /\ UNCHANGED rdllist
    BY <2>2, Zenon DEF ListInv
  <2> QED
    BY <2>1, <2>2, Zenon DEF Unregister
<1>2. Registered' = Registered \ {f}
  BY Zenon DEF Unregister, Registered, Restrict
<1>3. Range(txlist') = {} /\ Range(ovflist') = {} /\ IsInjective(txlist') /\ IsInjective(ovflist')
  BY EmptyList, Zenon
<1> QED
  BY <1>1, <1>2, <1>3, Zenon DEF ListInv

(* A scan puts an item back at the end of the ready list, or leaves it off.*)
LEMMA Scanned ==
  ASSUME Types, ListInv, NEW t \in WaitThreads, ep_send_events_proc(t)
  PROVE  /\ ListInv'
         /\ Head(txlist) \in Registered
         /\ Range(txlist') = Range(txlist) \ {Head(txlist)}
         /\ Range(rdllist') \in {Range(rdllist), Range(rdllist) \cup {Head(txlist)}}
         /\ Range(ovflist') = Range(ovflist) /\ Registered' = Registered
<1> DEFINE f == Head(txlist)
<1>1. /\ f \in Files /\ Range(txlist) = Range(Tail(txlist)) \cup {f}
      /\ IsInjective(Tail(txlist)) /\ f \notin Range(Tail(txlist))
  BY TakeHead, Zenon DEF ep_send_events_proc, Types, ListTypes, ListInv
<1>2. /\ txlist' = Tail(txlist) /\ UNCHANGED ovflist
      /\ rdllist' = rdllist \/ rdllist' = Append(rdllist, f)
  BY Zenon DEF ep_send_events_proc, Report
<1>3. Registered' = Registered
  BY Zenon DEF ep_send_events_proc, Report, Registered
<1> HIDE DEF f
<1>4. f \in Registered /\ f \notin Range(rdllist)
  BY <1>1, Zenon DEF ListInv
<1>5. /\ Range(rdllist') \in {Range(rdllist), Range(rdllist) \cup {f}}
      /\ IsInjective(rdllist')
  <2>1. rdllist \in Seq(Files) /\ IsInjective(rdllist)
    BY Zenon DEF Types, ListTypes, ListInv
  <2>2. /\ Range(Append(rdllist, f)) = Range(rdllist) \cup {f}
        /\ IsInjective(Append(rdllist, f))
    BY <1>1, <1>4, <2>1, AddTail
  <2> QED
    BY <1>2, <2>1, <2>2, ZenonT(30)
<1>6. Range(txlist') = Range(txlist) \ {f} /\ IsInjective(txlist')
  BY <1>1, <1>2, Zenon
<1>7. ListInv'
  BY <1>2, <1>3, <1>4, <1>5, <1>6, Zenon DEF ListInv
<1> QED
  BY <1>2, <1>3, <1>4, <1>5, <1>6, <1>7, Zenon DEF f

(* The end of a scan: everything is on the ready list.                     *)
LEMMA PutBack ==
  ASSUME Types, ListInv, NEW t \in WaitThreads, ScanEnds(t)
  PROVE  /\ ListInv'
         /\ Range(rdllist') = Range(rdllist) \cup Range(txlist) \cup Range(ovflist)
         /\ Registered' = Registered
<1> USE DEF Types, ListTypes
<1>1. PICK late \in InOrder(ovflist, Unlinked) : rdllist' = Requeued(late)
  BY Zenon DEF ScanEnds, EndScan
<1>2. txlist' = <<>> /\ ovflist' = <<>> /\ item' = item
  BY ZenonT(30) DEF ScanEnds, EndScan
<1>3. Unlinked \in SUBSET Files /\ Unlinked = Range(ovflist) \ (Range(rdllist) \cup Range(txlist))
  BY Splice DEF Unlinked, ep_is_linked, Range
<1>4. late \in Seq(Files) /\ Range(late) = Unlinked /\ IsInjective(late)
  BY <1>3, TakeOver, SMTT(30) DEF ListInv
<1>5. /\ txlist \o rdllist \in Seq(Files)
      /\ Range(txlist \o rdllist) = Range(txlist) \cup Range(rdllist)
      /\ IsInjective(txlist \o rdllist)
  BY Splice DEF ListInv
<1>6. /\ Range(rdllist') = Range(txlist) \cup Range(rdllist) \cup Unlinked
      /\ IsInjective(rdllist')
  <2>1. Range(txlist \o rdllist) \cap Range(late) = {}
    BY <1>3, <1>4, <1>5, Zenon
  <2> DEFINE u == txlist \o rdllist
  <2>2. rdllist' = u \o late
    BY <1>1, Zenon DEF Requeued
  <2>3. u \in Seq(Files) /\ IsInjective(u) /\ Range(u) \cap Range(late) = {}
    BY <1>5, <2>1, Zenon
  <2> HIDE DEF u
  <2>4. Range(u \o late) = Range(u) \cup Range(late) /\ IsInjective(u \o late)
    BY <1>4, <2>3, Splice
  <2> QED
    BY <1>4, <1>5, <2>2, <2>4, Zenon DEF u
<1>7. Range(txlist') = {} /\ Range(ovflist') = {} /\ IsInjective(txlist') /\ IsInjective(ovflist')
  BY <1>2, EmptyList, Zenon
<1>8. Range(rdllist') = Range(rdllist) \cup Range(txlist) \cup Range(ovflist)
  BY <1>3, <1>6, Zenon
<1> QED
  BY <1>2, <1>6, <1>7, <1>8, Zenon DEF ListInv, Registered

(* Every list holds registered items only, each of them once.              *)
LEMMA ListStep ==
  ASSUME Types, HolderInv, ListInv, Next
  PROVE  ListInv'
<1>1. CASE UNCHANGED <<rdllist, txlist, ovflist>> /\ Registered \subseteq Registered'
  BY <1>1, Zenon DEF ListInv
<1>2. CASE FileStep
  BY <1>1, <1>2, Zenon DEF FileStep, EventArrives, Consume, listVars, Registered
<1>3. CASE CallbackStep
  <2>1. PICK f \in Files, e \in Events, keyed \in BOOLEAN : ep_poll_callback(f, e, keyed)
    BY <1>3, Zenon DEF CallbackStep
  <2>2. item' = item /\ txlist' = txlist
    BY <2>1, Zenon DEF ep_poll_callback
  <2>3. CASE UNCHANGED <<rdllist, ovflist>>
    BY <1>1, <2>2, <2>3, Zenon DEF Registered
  <2>4. CASE /\ Wanted(f, e, keyed) /\ rdllist' = rdllist
             /\ f \notin Range(ovflist) /\ ovflist' = <<f>> \o ovflist
    <3>1. f \in Registered
      BY <2>4, Zenon DEF Wanted
    <3>2. <<f>> \in Seq(Files) /\ Range(<<f>>) = {f} /\ IsInjective(<<f>>)
      BY DEF Range, IsInjective
    <3>3. Range(ovflist') = Range(ovflist) \cup {f} /\ IsInjective(ovflist')
      <4> DEFINE u == <<f>>
      <4>1. /\ u \in Seq(Files) /\ Range(u) = {f} /\ IsInjective(u) /\ ovflist' = u \o ovflist
            /\ Range(u) \cap Range(ovflist) = {}
        BY <2>4, <3>2, Zenon
      <4>2. ovflist \in Seq(Files) /\ IsInjective(ovflist)
        BY Zenon DEF Types, ListTypes, ListInv
      <4> HIDE DEF u
      <4>3. Range(u \o ovflist) = Range(u) \cup Range(ovflist) /\ IsInjective(u \o ovflist)
        BY <4>1, <4>2, Splice, Zenon
      <4> QED
        BY <4>1, <4>3, Zenon
    <3> QED
      BY <2>2, <2>4, <3>1, <3>3, Zenon DEF ListInv, Registered
  <2>5. CASE /\ Wanted(f, e, keyed) /\ ovflist' = ovflist
             /\ ~ep_is_linked(f) /\ rdllist' = Append(rdllist, f)
    BY <2>2, <2>5, ListedOnce, Zenon DEF Wanted, Types
  <2> QED
    BY <2>1, <2>3, <2>4, <2>5, Zenon DEF ep_poll_callback
<1>4. CASE CtlStep
  <2>1. ASSUME NEW f \in Files, NEW op, NEW mode, NEW events, CtlPoll(op, f, mode, events)
        PROVE  ListInv'
    BY <1>1, <2>1, Zenon DEF CtlPoll, listVars, Registered
  <2>2. ASSUME NEW f \in Files, epoll_ctl_del(f)
        PROVE  ListInv'
    <3>1. txlist = <<>> /\ ovflist = <<>>
      BY <2>2, Zenon DEF epoll_ctl_del, HolderInv, Scanning
    <3> QED
      BY <2>2, <3>1, Unlisted, Zenon DEF epoll_ctl_del, Types
  <2> QED
    BY <1>4, <2>1, <2>2, ZenonT(30) DEF CtlStep, epoll_ctl_add, epoll_ctl_mod
<1>5. CASE CtlLink
  <2>1. ctl.file \in Files /\ ctl.file \in Registered
    BY <1>5, Zenon DEF CtlLink, HolderInv
  <2>2. UNCHANGED <<item, txlist, ovflist>>
    BY <1>5, Zenon DEF CtlLink
  <2>3. CASE rdllist' = rdllist
    BY <1>1, <2>2, <2>3, Zenon DEF Registered
  <2>4. CASE ~ep_is_linked(ctl.file) /\ rdllist' = Append(rdllist, ctl.file)
    BY <2>1, <2>2, <2>4, ListedOnce, Zenon DEF Types
  <2> QED
    BY <1>5, <2>3, <2>4, ZenonT(30) DEF CtlLink
<1>6. CASE ep_insert_fails
  <2>1. txlist = <<>> /\ ovflist = <<>>
    BY <1>6, Zenon DEF ep_insert_fails, HolderInv, Scanning
  <2> QED
    BY <1>6, <2>1, Unlisted, Zenon DEF ep_insert_fails, Types
<1>7. ASSUME NEW t \in WaitThreads, BeginScan(t)
      PROVE  ListInv'
  <2>1. txlist' = rdllist /\ rdllist' = <<>> /\ ovflist' = <<>> /\ item' = item
    BY <1>7, Zenon DEF BeginScan
  <2>2. Range(rdllist') = {} /\ Range(ovflist') = {} /\ IsInjective(rdllist') /\ IsInjective(ovflist')
    BY <2>1, EmptyList, Zenon
  <2> QED
    BY <2>1, <2>2, Zenon DEF ListInv, Registered
<1>8. ASSUME NEW t \in WaitThreads, Waits(t)
      PROVE  ListInv'
  BY <1>1, <1>8, WaitsAlone, Zenon DEF Registered
<1> QED
  BY <1>2, <1>3, <1>4, <1>5, <1>6, <1>7, <1>8, Steps, Scanned, PutBack, ZenonT(30)

-----------------------------------------------------------------------------
(* What is recorded as arrived is ready and asked for.                     *)
LEMMA FreshStep ==
  ASSUME Types, HolderInv, ListInv, FreshInv, Next
  PROVE  FreshInv'
<1> USE DEF Types, FileTypes, ItemTypes, Registered
<1>1. ASSUME fresh' \subseteq fresh, UNCHANGED <<ready, item>>
      PROVE  FreshInv'
  BY <1>1, Zenon DEF FreshInv
<1>2. CASE FileStep
  <2>1. PICK f \in Files, e \in Events : EventArrives(f, e) \/ Consume(f, e)
    BY <1>2, Zenon DEF FileStep
  <2>2. item' = item
    BY <2>1, ZenonT(30) DEF EventArrives, Consume
  <2>3. CASE EventArrives(f, e)
    <3>1. \A g \in Files : ready[g] \subseteq ready'[g]
      BY <2>3, Zenon DEF EventArrives
    <3>2. e \in ready'[f]
      BY <2>3, Zenon DEF EventArrives
    <3>3. fresh' = fresh \/ (fresh' = fresh \cup {<<f, e>>} /\ f \in Registered /\ e \in item[f].events)
      BY <2>3, Zenon DEF EventArrives
    <3> QED
      BY <2>2, <3>1, <3>2, <3>3, SMTT(30) DEF FreshInv
  <2>4. CASE Consume(f, e)
    <3>1. \A g \in Files, d \in Events : d \in ready[g] /\ <<g, d>> # <<f, e>> => d \in ready'[g]
      BY <2>4, Zenon DEF Consume
    <3>2. fresh' = fresh \ {<<f, e>>}
      BY <2>4, Zenon DEF Consume
    <3> QED
      BY <2>2, <3>1, <3>2, Zenon DEF FreshInv
  <2> QED
    BY <2>1, <2>3, <2>4, Zenon
<1>3. CASE CallbackStep \/ CtlLink
  <2>1. UNCHANGED <<ready, item, fresh>>
    BY <1>3, Zenon DEF CallbackStep, ep_poll_callback, CtlLink, fileVars, histVars
  <2> QED
    BY <1>1, <2>1, Zenon
<1>4. ASSUME NEW f \in Files, NEW op, NEW mode, NEW events, CtlPoll(op, f, mode, events)
      PROVE  FreshInv'
  <2>1. /\ item' = [g \in Registered \cup {f} |->
                      IF g = f THEN [mode |-> mode, events |-> events \cup Always] ELSE item[g]]
        /\ fresh' = NotFresh(f) \cup ({f} \X (ready[f] \cap (events \cup Always)))
    BY <1>4, Zenon DEF CtlPoll
  <2>2. ready' = ready
    BY <1>4, Zenon DEF CtlPoll, fileVars
  <2> SUFFICES ASSUME NEW g \in Files, NEW e \in Events, <<g, e>> \in fresh'
               PROVE  g \in Registered' /\ e \in ready'[g] \cap item'[g].events
    BY Zenon DEF FreshInv
  <2>3. CASE g = f
    BY <2>1, <2>2, <2>3, Zenon DEF NotFresh
  <2>4. CASE g # f
    <3>1. <<g, e>> \in fresh
      BY <2>1, <2>4, Zenon DEF NotFresh
    <3>2. g \in Registered /\ e \in ready[g] \cap item[g].events
      BY <3>1, Zenon DEF FreshInv
    <3> QED
      BY <2>1, <2>2, <2>4, <3>2, Zenon
  <2> QED
    BY <2>3, <2>4, Zenon
<1>5. ASSUME NEW f, Unregister(f), UNCHANGED ready
      PROVE  FreshInv'
  <2>1. item' = [g \in Registered \ {f} |-> item[g]] /\ fresh' = NotFresh(f)
    BY <1>5, Zenon DEF Unregister, Restrict
  <2>2. \A g, e : <<g, e>> \in fresh' => <<g, e>> \in fresh /\ g # f
    BY <2>1, Zenon DEF NotFresh
  <2> QED
    BY <1>5, <2>1, <2>2, Zenon DEF FreshInv
<1>6. CASE CtlStep
  <2>1. \A f \in Files : epoll_ctl_del(f) => Unregister(f) /\ UNCHANGED ready
    BY Zenon DEF epoll_ctl_del, fileVars
  <2> QED
    BY <1>4, <1>5, <1>6, <2>1, ZenonT(30) DEF CtlStep, epoll_ctl_add, epoll_ctl_mod
<1>7. CASE ep_insert_fails
  BY <1>5, <1>7, Zenon DEF ep_insert_fails, fileVars
<1>8. ASSUME NEW t \in WaitThreads, ep_send_events_proc(t)
      PROVE  FreshInv'
  <2> DEFINE f == Head(txlist)
  <2>1. Report(t, f)
    BY <1>8, Zenon DEF ep_send_events_proc
  <2> HIDE DEF f
  <2>2. /\ fresh' = NotFresh(f) /\ UNCHANGED ready
        /\ item' = item \/ item' = [item EXCEPT ![f].events = {}]
    BY <2>1, Zenon DEF Report, fileVars
  <2>3. \A g, e : <<g, e>> \in fresh' => <<g, e>> \in fresh /\ g # f
    BY <2>2, Zenon DEF NotFresh
  <2>4. Registered' = Registered /\ \A g \in Registered : g # f => item'[g] = item[g]
    BY <2>2, Zenon
  <2> QED
    BY <2>2, <2>3, <2>4, Zenon DEF FreshInv
<1>9. ASSUME NEW t \in WaitThreads, BeginScan(t) \/ ScanEnds(t)
      PROVE  FreshInv'
  <2>1. UNCHANGED <<ready, item, fresh>>
    BY <1>9, Zenon DEF BeginScan, ScanEnds, EndScan, fileVars, histVars
  <2> QED
    BY <1>1, <2>1, Zenon
<1>10. ASSUME NEW t \in WaitThreads, Waits(t)
       PROVE  FreshInv'
  BY <1>1, <1>10, WaitsAlone, Zenon
<1> QED
  BY <1>2, <1>3, <1>6, <1>7, <1>8, <1>9, <1>10, Steps, ZenonT(30)

(* Every event that is still to be reported stays accounted for.           *)
LEMMA DueStep ==
  ASSUME Types, HolderInv, ListInv, FreshInv, DueInv, Next
  PROVE  DueInv'
<1> USE DEF Types, FileTypes, ItemTypes, Registered
<1> SUFFICES ASSUME NEW f \in Files, NEW e \in Events, Due(f, e)'
             PROVE  Covered(f, e)'
  BY ZenonT(30) DEF DueInv
<1>1. Due(f, e) => Covered(f, e) /\ f \in Registered /\ e \in item[f].events
  BY Zenon DEF DueInv, FreshInv, Due
<1>2. \A t \in WaitThreads : t # Free /\ t # CtlThread
  BY ThreadsAssumption, Zenon DEF Free, CtlThread
<1>3. ASSUME UNCHANGED <<ready, item, fresh>>
      PROVE  Due(f, e)
  BY <1>3, ZenonT(30) DEF Due
<1>4. CASE FileStep
  <2>1. PICK g \in Files, d \in Events : EventArrives(g, d) \/ Consume(g, d)
    BY <1>4, ZenonT(30) DEF FileStep
  <2>2. UNCHANGED <<item, rdllist, txlist, ovflist, mtx, ctl>>
    BY <2>1, Zenon DEF EventArrives, Consume, listVars
  <2>3. CASE EventArrives(g, d) /\ f = g /\ e = d
    BY <2>3, Zenon DEF EventArrives, Covered
  <2>4. CASE EventArrives(g, d) /\ <<f, e>> # <<g, d>>
    <3>1. callbacks \subseteq callbacks' /\ (<<f, e>> \in fresh' => <<f, e>> \in fresh)
      BY <2>4, Zenon DEF EventArrives
    <3>2. e \in ready'[f] => e \in ready[f]
      BY <2>4, Zenon DEF EventArrives
    <3>3. Due(f, e)
      BY <2>2, <3>1, <3>2, Zenon DEF Due
    <3> QED
      BY <1>1, <2>2, <3>1, <3>3, Zenon DEF Covered, Listed
  <2>5. CASE Consume(g, d)
    <3>1. callbacks' = callbacks /\ (<<f, e>> \in fresh' => <<f, e>> \in fresh)
      BY <2>5, Zenon DEF Consume
    <3>2. e \in ready'[f] => e \in ready[f]
      BY <2>5, Zenon DEF Consume
    <3>3. Due(f, e)
      BY <2>2, <3>1, <3>2, Zenon DEF Due
    <3> QED
      BY <1>1, <2>2, <3>1, <3>3, Zenon DEF Covered, Listed
  <2> QED
    BY <2>1, <2>3, <2>4, <2>5, Zenon
<1>5. CASE CallbackStep
  <2>1. PICK g \in Files, d \in Events, keyed \in BOOLEAN : ep_poll_callback(g, d, keyed)
    BY <1>5, ZenonT(30) DEF CallbackStep
  <2>2. UNCHANGED <<ready, item, fresh, txlist, mtx, ctl>> /\ callbacks' = callbacks \ {<<g, d>>}
    BY <2>1, Zenon DEF ep_poll_callback, histVars
  <2>3. Due(f, e)
    BY <1>3, <2>2, Zenon
  <2>4. /\ rdllist' = rdllist \/ rdllist' = Append(rdllist, g)
        /\ ovflist' = ovflist \/ ovflist' = <<g>> \o ovflist
    BY <2>1, ZenonT(30) DEF ep_poll_callback
  <2>5. /\ Range(Append(rdllist, g)) = Range(rdllist) \cup {g}
        /\ Range(<<g>> \o ovflist) = Range(ovflist) \cup {g}
    <3> DEFINE u == <<g>>
    <3>1. u \in Seq(Files) /\ Range(u) = {g}
      BY DEF Range
    <3>2. rdllist \in Seq(Files) /\ ovflist \in Seq(Files)
      BY Zenon DEF ListTypes
    <3> HIDE DEF u
    <3>3. Range(u \o ovflist) = Range(u) \cup Range(ovflist)
      BY <3>1, <3>2, Splice, SMTT(30)
    <3>4. Range(Append(rdllist, g)) = Range(rdllist) \cup {g}
      BY <3>2, AddTail, SMTT(30)
    <3> QED
      BY <3>1, <3>3, <3>4, Zenon DEF u
  <2>6. Listed(f) => Listed(f)'
    <3>1. Range(rdllist) \subseteq Range(rdllist') /\ Range(ovflist) \subseteq Range(ovflist')
      BY <2>4, <2>5, Zenon
    <3> QED
      BY <2>2, <3>1, Zenon DEF Listed
  <2>7. CASE <<f, e>> = <<g, d>>
    <3>1. Wanted(g, d, keyed)
      BY <1>1, <2>3, <2>7, Zenon DEF Wanted
    <3>2. \/ ep_is_linked(g) /\ rdllist' = rdllist
          \/ rdllist' = Append(rdllist, g)
          \/ g \in Range(ovflist) /\ ovflist' = ovflist
          \/ ovflist' = <<g>> \o ovflist
      BY <2>1, <3>1, Zenon DEF ep_poll_callback
    <3>3. Listed(g)'
      BY <2>2, <2>5, <3>2, ZenonT(30) DEF Listed, ep_is_linked
    <3> QED
      BY <2>7, <3>3, Zenon DEF Covered
  <2>8. CASE <<f, e>> # <<g, d>>
    BY <1>1, <2>2, <2>3, <2>6, <2>8, Zenon DEF Covered
  <2> QED
    BY <2>7, <2>8, Zenon
<1>6. ASSUME NEW g \in Files, NEW op, NEW mode, NEW events, CtlPoll(op, g, mode, events)
      PROVE  Covered(f, e)'
  <2>1. /\ item' = [h \in Registered \cup {g} |->
                      IF h = g THEN [mode |-> mode, events |-> events \cup Always] ELSE item[h]]
        /\ fresh' = NotFresh(g) \cup ({g} \X (ready[g] \cap (events \cup Always)))
        /\ ctl' = [op |-> op, file |-> g, revents |-> ready[g] \cap (events \cup Always)]
        /\ mtx = Free /\ mtx' = CtlThread
    BY <1>6, Zenon DEF CtlPoll
  <2>2. UNCHANGED <<ready, callbacks, rdllist, txlist, ovflist>>
    BY <1>6, Zenon DEF CtlPoll, fileVars, listVars
  <2>3. CASE f = g
    <3>1. e \in ready[g] \cap (events \cup Always)
      BY <2>1, <2>2, <2>3, Zenon DEF Due, NotFresh
    <3> QED
      BY <2>1, <2>3, <3>1, Zenon DEF Covered
  <2>4. CASE f # g
    <3>1. Due(f, e)
      BY <2>1, <2>2, <2>4, Zenon DEF Due, NotFresh
    <3> QED
      BY <1>1, <2>1, <2>2, <3>1, Zenon DEF Covered, Listed, Free, CtlThread
  <2> QED
    BY <2>3, <2>4, Zenon
<1>7. ASSUME NEW g, Unregister(g), UNCHANGED <<ready, callbacks, txlist, ovflist>>,
             txlist = <<>>, ovflist = <<>>, mtx = CtlThread => ctl.file = g
      PROVE  Covered(f, e)'
  <2>1. item' = [h \in Registered \ {g} |-> item[h]] /\ fresh' = NotFresh(g)
    BY <1>7, Zenon DEF Unregister, Restrict
  <2>2. f # g /\ Due(f, e)
    BY <1>7, <2>1, Zenon DEF Due, NotFresh
  <2>3. Listed(f) => Listed(f)'
    <3>1. Range(rdllist') = Range(rdllist) \ {g}
      BY <1>7, Unlisted, Zenon
    <3>2. Range(txlist) = {} /\ Range(ovflist) = {}
      BY <1>7, EmptyList, Zenon
    <3> QED
      BY <2>2, <3>1, <3>2, Zenon DEF Listed
  <2> QED
    BY <1>1, <1>7, <2>2, <2>3, Zenon DEF Covered
<1>8. CASE CtlStep
  <2>1. ASSUME NEW g \in Files, epoll_ctl_del(g)
        PROVE  Covered(f, e)'
    <3>1. mtx = Free /\ Unregister(g) /\ UNCHANGED <<ready, callbacks, txlist, ovflist>>
      BY <2>1, Zenon DEF epoll_ctl_del, fileVars
    <3>2. txlist = <<>> /\ ovflist = <<>> /\ mtx # CtlThread
      BY <3>1, Zenon DEF HolderInv, Scanning, Free, CtlThread
    <3> QED
      BY <1>7, <3>1, <3>2, Zenon
  <2> QED
    BY <1>6, <1>8, <2>1, Zenon DEF CtlStep, epoll_ctl_add, epoll_ctl_mod
<1>9. CASE CtlLink
  <2>1. UNCHANGED <<ready, callbacks, item, fresh, txlist, ovflist>>
    BY <1>9, Zenon DEF CtlLink, fileVars, histVars
  <2>2. Due(f, e)
    BY <1>3, <2>1, ZenonT(30)
  <2>3. ctl.file \in Files
    BY <1>9, Zenon DEF CtlLink, HolderInv
  <2>4. Range(Append(rdllist, ctl.file)) = Range(rdllist) \cup {ctl.file}
    BY <2>3, AddTail, SMTT(30) DEF ListTypes
  <2>5. /\ Range(rdllist) \subseteq Range(rdllist')
        /\ ctl.revents # {} => ctl.file \in Range(rdllist') \cup Range(txlist)
    BY <1>9, <2>4, Zenon DEF CtlLink, ep_is_linked
  <2>6. Listed(f) \/ (ctl.file = f /\ e \in ctl.revents) => Listed(f)'
    BY <2>1, <2>5, Zenon DEF Listed
  <2> QED
    BY <1>1, <2>1, <2>2, <2>6, Zenon DEF Covered
<1>10. CASE ep_insert_fails
  <2>1. /\ mtx = CtlThread /\ Unregister(ctl.file)
        /\ UNCHANGED <<ready, callbacks, txlist, ovflist>>
    BY <1>10, Zenon DEF ep_insert_fails, fileVars
  <2>2. txlist = <<>> /\ ovflist = <<>>
    BY <2>1, Zenon DEF HolderInv, Scanning
  <2> QED
    BY <1>7, <2>1, <2>2, Zenon
<1>11. ASSUME NEW t \in WaitThreads, Waits(t)
       PROVE  Covered(f, e)'
  <2>1. UNCHANGED <<ready, callbacks, item, rdllist, txlist, ovflist, mtx, ctl, fresh>>
    BY <1>11, WaitsAlone, Zenon
  <2>2. Covered(f, e)
    BY <1>1, <1>3, <2>1, ZenonT(30)
  <2> QED
    BY <2>1, <2>2, ZenonT(30) DEF Covered, Listed
<1>12. ASSUME NEW t \in WaitThreads, BeginScan(t)
       PROVE  Covered(f, e)'
  <2>1. UNCHANGED <<ready, callbacks, item, fresh>> /\ mtx = Free /\ txlist' = rdllist
    BY <1>12, Zenon DEF BeginScan, fileVars, histVars
  <2>2. Covered(f, e)
    BY <1>1, <1>3, <2>1, ZenonT(30)
  <2>3. Range(txlist) = {} /\ Range(ovflist) = {} /\ mtx # CtlThread
    BY <2>1, EmptyList, Zenon DEF HolderInv, Scanning, Free, CtlThread
  <2>4. Listed(f) => Listed(f)'
    BY <2>1, <2>3, Zenon DEF Listed
  <2> QED
    BY <2>1, <2>2, <2>3, <2>4, Zenon DEF Covered
<1>13. ASSUME NEW t \in WaitThreads, ep_send_events_proc(t)
       PROVE  Covered(f, e)'
  <2> DEFINE h == Head(txlist)
  <2>1. Report(t, h) /\ mtx = t
    BY <1>13, Zenon DEF ep_send_events_proc, HolderInv
  <2>2. /\ h \in Registered /\ Range(txlist') = Range(txlist) \ {h}
        /\ Range(rdllist) \subseteq Range(rdllist') /\ Range(ovflist') = Range(ovflist)
    BY <1>13, Scanned, Zenon
  <2>3. h \in Files
    BY <2>2, Zenon
  <2> HIDE DEF h
  <2>4. /\ UNCHANGED <<ready, callbacks, mtx>> /\ fresh' = NotFresh(h)
        /\ item' = item \/ item' = [item EXCEPT ![h].events = {}]
    BY <2>1, Zenon DEF Report, fileVars
  <2>5. CASE f = h
    <3>1. <<f, e>> \notin fresh'
      BY <2>4, <2>5, Zenon DEF NotFresh
    <3>2. f \in Registered' /\ item'[f].mode = "LT" /\ e \in ready[f] \cap item'[f].events
      BY <2>4, <3>1, Zenon DEF Due
    <3>3. item' = item
      BY <2>2, <2>4, <2>5, <3>2, Zenon
    <3>4. item[h].mode = "LT" /\ ep_item_poll(h) # {}
      BY <2>5, <3>2, <3>3, Zenon DEF ep_item_poll
    <3>5. rdllist' = Append(rdllist, h)
      BY <2>1, <3>4, ZenonT(30) DEF Report
    <3>6. h \in Range(rdllist')
      BY <2>3, <3>5, AddTail DEF ListTypes
    <3> QED
      BY <2>5, <3>6, Zenon DEF Covered, Listed
  <2>6. CASE f # h
    <3>1. Due(f, e)
      <4>1. <<f, e>> \in fresh' => <<f, e>> \in fresh
        BY <2>4, Zenon DEF NotFresh
      <4>2. Registered' = Registered /\ (f \in Registered => item'[f] = item[f])
        BY <2>4, <2>6, Zenon
      <4> QED
        BY <2>4, <4>1, <4>2, Zenon DEF Due
    <3>2. Listed(f) => Listed(f)'
      BY <2>2, <2>6, Zenon DEF Listed
    <3> QED
      BY <1>1, <1>2, <2>1, <2>4, <3>1, <3>2, Zenon DEF Covered
  <2> QED
    BY <2>5, <2>6, Zenon
<1>14. ASSUME NEW t \in WaitThreads, pc[t] = "scan", ScanEnds(t)
       PROVE  Covered(f, e)'
  <2>1. UNCHANGED <<ready, callbacks, item, fresh>>
    BY <1>14, Zenon DEF ScanEnds, EndScan, fileVars, histVars
  <2>2. Covered(f, e)
    BY <1>1, <1>3, <2>1, ZenonT(30)
  <2>3. mtx # CtlThread
    BY <1>2, <1>14, Zenon DEF HolderInv
  <2>4. Listed(f) => Listed(f)'
    BY <1>14, PutBack, Zenon DEF Listed
  <2> QED
    BY <2>1, <2>2, <2>3, <2>4, Zenon DEF Covered
<1> QED
  BY <1>4, <1>5, <1>8, <1>9, <1>10, <1>11, <1>12, <1>13, <1>14, Steps, ZenonT(30)

-----------------------------------------------------------------------------
(* PollInv holds, with the types, in every state of every execution.       *)
LEMMA PollInductive == Spec => [](Types /\ PollInv)
<1>1. Init => Types /\ PollInv
  <2> SUFFICES ASSUME Init PROVE Types /\ PollInv
    BY Zenon
  <2> USE DEF Init
  <2>1. Registered = {}
    BY DEF Registered
  <2>2. FileTypes /\ ListTypes /\ ThreadTypes /\ CallTypes
    BY MaxEventsAssumption, SMTT(30) DEF FileTypes, ListTypes, ThreadTypes, CallTypes,
       Places
  <2>3. ItemTypes
    BY <2>1 DEF ItemTypes
  <2>4. /\ Range(rdllist) = {} /\ Range(txlist) = {} /\ Range(ovflist) = {} /\ Range(wq) = {}
        /\ IsInjective(rdllist) /\ IsInjective(txlist) /\ IsInjective(ovflist) /\ IsInjective(wq)
    BY EmptyList, ZenonT(30)
  <2>5. HolderInv
    BY ThreadsAssumption, Zenon DEF HolderInv, Free, CtlThread
  <2>6. QueueInv
    BY <2>4, Zenon DEF QueueInv
  <2>7. ListInv
    BY <2>1, <2>4, Zenon DEF ListInv
  <2>8. ShotInv /\ FreshInv /\ DueInv
    BY <2>1, Zenon DEF ShotInv, FreshInv, DueInv, Due
  <2>9. NoStrandedWaiter
    BY Zenon DEF NoStrandedWaiter
  <2> QED
    BY <2>2, <2>3, <2>5, <2>6, <2>7, <2>8, <2>9, ZenonT(30) DEF Types, PollInv
<1>2. Types /\ PollInv /\ [Next]_vars => Types' /\ PollInv'
  <2> SUFFICES ASSUME Types, PollInv, [Next]_vars
               PROVE  Types' /\ PollInv'
    BY Zenon
  <2>1. CASE Next
    BY <2>1, FileTypesStep, ItemTypesStep, ListTypesStep, ThreadTypesStep, CallTypesStep,
       HolderStep, QueueStep, ListStep, ShotStep, FreshStep, DueStep, StrandedStep, ZenonT(30)
       DEF Types, PollInv
  <2>2. CASE UNCHANGED vars
    <3>1. /\ UNCHANGED <<ready, callbacks, item, rdllist, txlist, ovflist, mtx, ctl, wq, pc>>
          /\ UNCHANGED <<timeout, timed_out, signal, eventcnt, fresh, shots>>
      BY <2>2, Zenon DEF vars, fileVars, listVars, callVars, histVars
    <3>2. Types'
      BY <3>1, Zenon DEF Types, FileTypes, ItemTypes, ListTypes, ThreadTypes, CallTypes,
         Registered
    <3>3. HolderInv' /\ QueueInv' /\ ListInv' /\ ShotInv' /\ NoStrandedWaiter'
      BY <3>1, Zenon DEF PollInv, HolderInv, QueueInv, ListInv, ShotInv, NoStrandedWaiter,
         Scanning, Registered
    <3>4. FreshInv' /\ DueInv'
      BY <3>1, Zenon DEF PollInv, FreshInv, DueInv, Due, Covered, Listed, Registered
    <3> QED
      BY <3>2, <3>3, <3>4, ZenonT(30) DEF PollInv
  <2> QED
    BY <2>1, <2>2, Zenon
<1> QED
  BY <1>1, <1>2, PTL DEF Spec

(* All variables keep their types; in particular ep_send_events_proc never *)
(* copies more than maxevents events.                                      *)
THEOREM PollTypes == Spec => []TypeOK
BY PollInductive, TypeParts, PTL

(* No event is lost between poll, the callback, a scan, an epoll_ctl and a *)
(* failed copy.  The invariant follows each event by itself: a file may    *)
(* have one event on its way through a callback and another one consumed.  *)
THEOREM EventTheorem == Spec => []NoLostEvent
<1>1. Types /\ PollInv => NoLostEvent
  <2> SUFFICES ASSUME Types, PollInv, NEW f \in Files, Pending(f)
               PROVE  \/ f \in Range(rdllist) \cup Range(txlist) \cup Range(ovflist)
                      \/ \E e \in ready[f] : <<f, e>> \in callbacks
                      \/ mtx = CtlThread /\ ctl.file = f
    BY Zenon DEF NoLostEvent
  <2>1. PICK e \in Events : Due(f, e)
    <3>1. CASE \E e \in Events : <<f, e>> \in fresh
      BY <3>1, Zenon DEF Due
    <3>2. CASE f \in Registered /\ item[f].mode = "LT" /\ ep_item_poll(f) # {}
      <4>1. PICK e : e \in ready[f] \cap item[f].events
        BY <3>2, Zenon DEF ep_item_poll
      <4>2. e \in Events
        BY <4>1, Zenon DEF Types, FileTypes
      <4> QED
        BY <3>2, <4>1, <4>2, ZenonT(30) DEF Due
    <3> QED
      BY <3>1, <3>2, Zenon DEF Pending
  <2>2. e \in ready[f] /\ Covered(f, e)
    BY <2>1, Zenon DEF PollInv, DueInv, FreshInv, Due
  <2> QED
    BY <2>2, Zenon DEF Covered, Listed
<1> QED
  BY <1>1, PollInductive, PTL

(* The exclusive wakeups of ep_poll_callback, ep_insert and                *)
(* ep_scan_ready_list leave no thread asleep next to a ready list that     *)
(* nobody looks at.                                                        *)
THEOREM WaiterTheorem == Spec => []NoStrandedWaiter
<1>1. PollInv => NoStrandedWaiter
  BY Zenon DEF PollInv
<1> QED
  BY <1>1, PollInductive, PTL

(* No list holds an item twice or one that was removed.                    *)
THEOREM ListsTheorem == Spec => []ListsSound
<1>1. Types /\ PollInv => ListsSound
  <2> SUFFICES ASSUME Types, PollInv PROVE ListsSound
    BY Zenon
  <2>1. /\ rdllist \in Seq(Files) /\ txlist \in Seq(Files) /\ ovflist \in Seq(Files)
        /\ ListInv
    BY Zenon DEF Types, ListTypes, PollInv
  <2> DEFINE u == txlist \o rdllist
  <2>2. /\ u \in Seq(Files) /\ IsInjective(u)
        /\ Range(u) = Range(txlist) \cup Range(rdllist)
    BY <2>1, Splice, SMTT(30) DEF ListInv
  <2> HIDE DEF u
  <2>3. Range(u \o ovflist) = Range(u) \cup Range(ovflist)
    BY <2>1, <2>2, Splice, SMTT(30)
  <2>4. Range(u \o ovflist) \subseteq Registered /\ IsInjective(ovflist)
    BY <2>1, <2>2, <2>3, Zenon DEF ListInv
  <2> QED
    BY <2>2, <2>4, Zenon DEF ListsSound, u
<1> QED
  BY <1>1, PollInductive, PTL

(* EPOLLONESHOT reports once until the next epoll_ctl.                     *)
THEOREM OneShotTheorem == Spec => []OneShot
<1>1. PollInv => OneShot
  BY DEF PollInv, ShotInv, OneShot
<1> QED
  BY <1>1, PollInductive, PTL
=============================================================================
