---------------------------- MODULE TimerQueue ------------------------------
(***************************************************************************)
(* muduo's TimerQueue with Timer and TimerId, driven by one loop thread IO *)
(* and by other threads that add and cancel timers.                        *)
(*                                                                         *)
(* Time is counted in units of 100 microseconds, the smallest delay that   *)
(* howMuchTimeFromNow returns.  The clock is the wall clock and may be     *)
(* stepped; the timerfd counts down on CLOCK_MONOTONIC, which may not.     *)
(* Times after Horizon are not told apart from Horizon.  The timestamp 0   *)
(* is Timestamp::invalid().                                                *)
(*                                                                         *)
(* A Timer* is an address of heap; new may return any free address, also   *)
(* one that an old TimerId still names.  The loop is seen through what     *)
(* module EventLoop establishes of it: functors run one at a time, in      *)
(* order, between the handlers of active channels.  User code of the loop  *)
(* thread runs inside a timer callback (running # NULL) or, while no timer *)
(* callback runs, inside some other handler.                               *)
(***************************************************************************)
EXTENDS Naturals, Sequences, Functions

CONSTANTS
  IO, Others,    \* the loop thread and the other threads
  Addrs,         \* addresses a Timer can have, a set of numbers
  Times,         \* expirations that callers ask for
  Intervals,     \* intervals that callers ask for; 0 is a one-shot timer
  Horizon,       \* bound of the clock
  MaxTimers,     \* bound of the number of timers created
  MaxPending,    \* bound of the length of the functor queue
  ClockSteps     \* bound of the number of times the wall clock is stepped

ASSUME ThreadsAssumption == IO \notin Others
ASSUME AddrsAssumption == Addrs \subseteq Nat \ {0}
ASSUME TimeAssumption ==
  /\ Horizon \in Nat \ {0}
  /\ Times \subseteq 0..Horizon
  /\ Intervals \subseteq Nat
ASSUME BoundsAssumption ==
  MaxTimers \in Nat /\ MaxPending \in Nat /\ ClockSteps \in Nat

VARIABLES
  heap,                   \* the Timers that exist, by address
  s_numCreated_,
  timers_,                \* set of entries <<expiration, timer>>
  activeTimers_,          \* set of pairs <<timer, sequence>>
  callingExpiredTimers_,
  cancelingTimers_,
  expired,                \* handleRead's local vector
  toRun,                  \* the part of expired whose callbacks have not run
  handleNow,              \* handleRead's local now
  running,                \* the Timer* whose callback runs, or NULL
  timerfdActive,          \* timerfdChannel_ is in activeChannels_
  fdRemaining,            \* time to the alarm of the timerfd; 0 is disarmed
  fdReadable,             \* the alarm has gone off and was not read
  now,                    \* Timestamp::now()
  steps,                  \* times the wall clock was stepped
  pendingFunctors_,       \* addTimerInLoop and cancelInLoop calls queued
  adding,                 \* the Timer* of a thread inside addTimer, or NULL
  ids,                    \* the TimerIds that addTimer has returned
  cancelled               \* history: timers in the loop's hands that
                          \* cancelInLoop was called for

queueVars == <<timers_, activeTimers_, heap>>
batchVars == <<callingExpiredTimers_, expired, toRun, handleNow, running>>
fdVars == <<fdRemaining, fdReadable>>
clockVars == <<now, steps>>
vars == <<queueVars, s_numCreated_, batchVars, cancelingTimers_, timerfdActive,
          fdVars, clockVars, pendingFunctors_, adding, ids, cancelled>>

NULL == 0
Timestamps == 0..Horizon
Sequences_ == 1..MaxTimers
Timer == [expiration : Timestamps, interval : Intervals, sequence : Sequences_]
Entry == Timestamps \X Addrs
ActiveTimer == Addrs \X Sequences_
Functor == [op : {"addTimerInLoop"}, timer : Addrs]
             \cup [op : {"cancelInLoop"}, id : ActiveTimer]

TypeOK ==
  /\ DOMAIN heap \subseteq Addrs
  /\ heap \in [DOMAIN heap -> Timer]
  /\ s_numCreated_ \in 0..MaxTimers
  /\ timers_ \subseteq Entry
  /\ activeTimers_ \subseteq ActiveTimer
  /\ callingExpiredTimers_ \in BOOLEAN
  /\ cancelingTimers_ \subseteq ActiveTimer
  /\ expired \subseteq Entry
  /\ toRun \subseteq expired
  /\ handleNow \in Timestamps
  /\ running \in Addrs \cup {NULL}
  /\ timerfdActive \in BOOLEAN
  /\ fdRemaining \in 0..Horizon
  /\ fdReadable \in BOOLEAN
  /\ now \in Timestamps
  /\ steps \in 0..ClockSteps
  /\ pendingFunctors_ \in Seq(Functor)
  /\ adding \in [Others -> Addrs \cup {NULL}]
  /\ ids \subseteq ActiveTimer
  /\ cancelled \subseteq ActiveTimer

Init ==
  /\ heap = <<>>
  /\ s_numCreated_ = 0
  /\ timers_ = {} /\ activeTimers_ = {}
  /\ callingExpiredTimers_ = FALSE
  /\ cancelingTimers_ = {}
  /\ expired = {} /\ toRun = {} /\ handleNow = 0 /\ running = NULL
  /\ timerfdActive = FALSE
  /\ fdRemaining = 0 /\ fdReadable = FALSE
  /\ now = 1 /\ steps = 0
  /\ pendingFunctors_ = <<>>
  /\ adding = [t \in Others |-> NULL]
  /\ ids = {}
  /\ cancelled = {}

-----------------------------------------------------------------------------
(* Time and the timerfd.                                                   *)

addTime(timestamp, interval) ==
  IF timestamp + interval < Horizon THEN timestamp + interval ELSE Horizon

\* Without the lower bound a due timer asks for a delay of 0, which disarms.
MutNoMinimumDelay(when) == IF when < now THEN 0 ELSE when - now

howMuchTimeFromNow(when) == IF when < now + 1 THEN 1 ELSE when - now

\* timerfd_settime also forgets an alarm that was not read.
resetTimerfd(when) ==
  /\ fdRemaining' = howMuchTimeFromNow(when)
  /\ fdReadable' = FALSE

Tick ==
  /\ now' = addTime(now, 1)
  /\ fdRemaining' = IF fdRemaining = 0 THEN 0 ELSE fdRemaining - 1
  /\ fdReadable' = (fdReadable \/ fdRemaining = 1)
  /\ UNCHANGED <<queueVars, s_numCreated_, batchVars, cancelingTimers_,
                 timerfdActive, steps, pendingFunctors_, adding, ids, cancelled>>

StepClock ==
  /\ steps < ClockSteps
  /\ now' \in 1..Horizon
  /\ steps' = steps + 1
  /\ UNCHANGED <<queueVars, s_numCreated_, batchVars, cancelingTimers_,
                 timerfdActive, fdVars, pendingFunctors_, adding, ids, cancelled>>

-----------------------------------------------------------------------------
(* The two containers.  timers holds entries, h the Timer objects.         *)

\* The heap after delete of the Timers at the addresses in as.
Delete(as) == Restrict(heap, DOMAIN heap \ as)

EntryOf(h, a) == <<h[a].expiration, a>>
ActiveOf(h, a) == <<a, h[a].sequence>>

ExistingIds == {ActiveOf(heap, a) : a \in DOMAIN heap}

\* addTimerInLoop calls that are queued, and the timers whose has run.
QueuedAdds == {i \in DOMAIN pendingFunctors_ :
                 pendingFunctors_[i].op = "addTimerInLoop"}
QueuedAddrs == {pendingFunctors_[i].timer : i \in QueuedAdds}
InLoopIds == {ActiveOf(heap, a) : a \in DOMAIN heap \ QueuedAddrs}

\* Resets the timerfd only when the queue was empty.
MutResetIfEmpty(h, a) == timers_ = {}

\* What insert(timer) returns; h is the heap that holds the timer.
earliestChanged(h, a) == \A e \in timers_ : h[a].expiration < e[1]

addTimerInLoop(h, a) ==
  /\ timers_' = timers_ \cup {EntryOf(h, a)}
  /\ activeTimers_' = activeTimers_ \cup {ActiveOf(h, a)}
  /\ IF earliestChanged(h, a)
     THEN resetTimerfd(h[a].expiration)
     ELSE UNCHANGED fdVars

\* Remembers no cancellation of a timer that is being handled.
MutForgetCanceling(id) ==
  /\ cancelled' = cancelled \cup ({id} \cap InLoopIds)
  /\ \/ /\ id \in activeTimers_
        /\ timers_' = timers_ \ {EntryOf(heap, id[1])}
        /\ heap' = Delete({id[1]})
        /\ activeTimers_' = activeTimers_ \ {id}
     \/ id \notin activeTimers_ /\ UNCHANGED queueVars
  /\ UNCHANGED cancelingTimers_

\* Looks the timer up by its address alone.
MutCancelByAddress(id) ==
  /\ cancelled' = cancelled \cup ({id} \cap InLoopIds)
  /\ \/ /\ id[1] \in DOMAIN heap /\ EntryOf(heap, id[1]) \in timers_ \cup expired
        /\ timers_' = timers_ \ {EntryOf(heap, id[1])}
        /\ heap' = Delete({id[1]})
        /\ activeTimers_' = activeTimers_ \ {ActiveOf(heap, id[1])}
     \/ /\ id[1] \notin DOMAIN heap
        /\ UNCHANGED queueVars
  /\ UNCHANGED cancelingTimers_

cancelInLoop(id) ==
  /\ cancelled' = cancelled \cup ({id} \cap InLoopIds)
  /\ \/ /\ id \in activeTimers_
        /\ timers_' = timers_ \ {EntryOf(heap, id[1])}
        /\ heap' = Delete({id[1]})
        /\ activeTimers_' = activeTimers_ \ {id}
        /\ UNCHANGED cancelingTimers_
     \/ /\ id \notin activeTimers_
        /\ cancelingTimers_' = IF callingExpiredTimers_
                               THEN cancelingTimers_ \cup {id}
                               ELSE cancelingTimers_
        /\ UNCHANGED queueVars

-----------------------------------------------------------------------------
(* addTimer and cancel.                                                    *)

InUserCode == running # NULL \/ ~callingExpiredTimers_

\* new Timer(cb, when, interval) at a free address a.
NewTimer(a, when, interval) ==
  [b \in DOMAIN heap \cup {a} |->
     IF b = a THEN [expiration |-> when, interval |-> interval,
                    sequence |-> s_numCreated_ + 1]
              ELSE heap[b]]

\* addTimer on the loop thread: runInLoop runs addTimerInLoop at once.
addTimerIO(a, when, interval) ==
  LET h == NewTimer(a, when, interval)
  IN  /\ InUserCode
      /\ s_numCreated_ < MaxTimers
      /\ a \notin DOMAIN heap
      /\ heap' = h
      /\ s_numCreated_' = s_numCreated_ + 1
      /\ addTimerInLoop(h, a)
      /\ ids' = ids \cup {ActiveOf(h, a)}
      /\ UNCHANGED <<batchVars, cancelingTimers_, timerfdActive, clockVars,
                     pendingFunctors_, adding, cancelled>>

\* addTimer on another thread, up to the end of runInLoop.
addTimer(t, a, when, interval) ==
  /\ adding[t] = NULL
  /\ s_numCreated_ < MaxTimers
  /\ Len(pendingFunctors_) < MaxPending
  /\ a \notin DOMAIN heap
  /\ heap' = NewTimer(a, when, interval)
  /\ s_numCreated_' = s_numCreated_ + 1
  /\ pendingFunctors_' =
       Append(pendingFunctors_, [op |-> "addTimerInLoop", timer |-> a])
  /\ adding' = [adding EXCEPT ![t] = a]
  /\ UNCHANGED <<timers_, activeTimers_, batchVars, cancelingTimers_,
                 timerfdActive, fdVars, clockVars, ids, cancelled>>

\* return TimerId(timer, timer->sequence()): the Timer may be deleted by now,
\* and then the sequence read is arbitrary.
addTimerReturns(t) ==
  /\ adding[t] # NULL
  /\ \E sequence \in Sequences_ :
       /\ adding[t] \in DOMAIN heap => sequence = heap[adding[t]].sequence
       /\ ids' = ids \cup {<<adding[t], sequence>>}
  /\ adding' = [adding EXCEPT ![t] = NULL]
  /\ UNCHANGED <<queueVars, s_numCreated_, batchVars, cancelingTimers_,
                 timerfdActive, fdVars, clockVars, pendingFunctors_, cancelled>>

cancelIO(id) ==
  /\ InUserCode
  /\ id \in ids
  /\ cancelInLoop(id)
  /\ UNCHANGED <<s_numCreated_, batchVars, timerfdActive, fdVars, clockVars,
                 pendingFunctors_, adding, ids>>

cancel(t, id) ==
  /\ adding[t] = NULL
  /\ id \in ids
  /\ Len(pendingFunctors_) < MaxPending
  /\ pendingFunctors_' =
       Append(pendingFunctors_, [op |-> "cancelInLoop", id |-> id])
  /\ UNCHANGED <<queueVars, s_numCreated_, batchVars, cancelingTimers_,
                 timerfdActive, fdVars, clockVars, adding, ids, cancelled>>

\* doPendingFunctors runs the next functor, no channel being active.
RunFunctor ==
  /\ ~callingExpiredTimers_ /\ ~timerfdActive
  /\ pendingFunctors_ # <<>>
  /\ LET f == Head(pendingFunctors_)
     IN  \/ /\ f.op = "addTimerInLoop"
            /\ addTimerInLoop(heap, f.timer)
            /\ UNCHANGED <<heap, cancelingTimers_, cancelled>>
         \/ /\ f.op = "cancelInLoop"
            /\ cancelInLoop(f.id)
            /\ UNCHANGED fdVars
  /\ pendingFunctors_' = Tail(pendingFunctors_)
  /\ UNCHANGED <<s_numCreated_, batchVars, timerfdActive, clockVars, adding, ids>>

-----------------------------------------------------------------------------
(* handleRead.                                                             *)

\* poll reports the timerfd.
PollTimerfd ==
  /\ ~callingExpiredTimers_ /\ ~timerfdActive
  /\ fdReadable
  /\ timerfdActive' = TRUE
  /\ UNCHANGED <<queueVars, s_numCreated_, batchVars, cancelingTimers_, fdVars,
                 clockVars, pendingFunctors_, adding, ids, cancelled>>

\* Takes timers that are due one unit later.
MutExpiredEarly == {e \in timers_ : e[1] <= now + 1}

getExpired == {e \in timers_ : e[1] <= now}

\* handleRead up to the loop over expired.
handleRead ==
  /\ timerfdActive /\ ~callingExpiredTimers_
  /\ timerfdActive' = FALSE
  /\ fdReadable' = FALSE
  /\ handleNow' = now
  /\ expired' = getExpired
  /\ toRun' = getExpired
  /\ timers_' = timers_ \ getExpired
  /\ activeTimers_' = activeTimers_ \ {ActiveOf(heap, e[2]) : e \in getExpired}
  /\ callingExpiredTimers_' = TRUE
  /\ cancelingTimers_' = {}
  /\ UNCHANGED <<heap, s_numCreated_, running, fdRemaining, clockVars,
                 pendingFunctors_, adding, ids, cancelled>>

\* it->second->run(), in the order of the set: expiration, then address.
Before(e, f) == e[1] < f[1] \/ (e[1] = f[1] /\ e[2] < f[2])

RunTimer(e) ==
  /\ callingExpiredTimers_ /\ running = NULL
  /\ e \in toRun
  /\ \A f \in toRun \ {e} : Before(e, f)
  /\ toRun' = toRun \ {e}
  /\ running' = e[2]
  /\ UNCHANGED <<queueVars, s_numCreated_, callingExpiredTimers_, expired,
                 handleNow, cancelingTimers_, timerfdActive, fdVars, clockVars,
                 pendingFunctors_, adding, ids, cancelled>>

CallbackReturns ==
  /\ running # NULL
  /\ running' = NULL
  /\ UNCHANGED <<queueVars, s_numCreated_, callingExpiredTimers_, expired, toRun,
                 handleNow, cancelingTimers_, timerfdActive, fdVars, clockVars,
                 pendingFunctors_, adding, ids, cancelled>>

\* The expired timers that reset(expired, now) restarts.
Restarted ==
  {e \in expired : /\ heap[e[2]].interval > 0
                   /\ ActiveOf(heap, e[2]) \notin cancelingTimers_}

\* Timer::restart(now) of a timer that repeats.
restart(a) ==
  [heap[a] EXCEPT !.expiration = addTime(handleNow, heap[a].interval)]

\* The end of handleRead: reset(expired, now).
reset ==
  LET again == {e[2] : e \in Restarted}
      gone == {e[2] : e \in expired} \ again
      h == [a \in DOMAIN Delete(gone) |->
              IF a \in again THEN restart(a) ELSE heap[a]]
      timers == timers_ \cup {EntryOf(h, a) : a \in again}
  IN  /\ callingExpiredTimers_ /\ running = NULL /\ toRun = {}
      /\ callingExpiredTimers_' = FALSE
      /\ heap' = h
      /\ timers_' = timers
      /\ activeTimers_' = activeTimers_ \cup {ActiveOf(h, a) : a \in again}
      /\ \/ \E e \in timers : /\ e[1] > 0
                              /\ \A f \in timers : e[1] <= f[1]
                              /\ resetTimerfd(e[1])
         \/ /\ \A e \in timers : \E f \in timers : f[1] = 0
            /\ UNCHANGED fdVars
      /\ expired' = {} /\ handleNow' = 0
      /\ UNCHANGED <<s_numCreated_, toRun, running, cancelingTimers_,
                     timerfdActive, clockVars, pendingFunctors_, adding, ids,
                     cancelled>>

-----------------------------------------------------------------------------
LoopStep ==
  \/ PollTimerfd
  \/ handleRead
  \/ \E e \in toRun : RunTimer(e)
  \/ CallbackReturns
  \/ reset

Next ==
  \/ Tick
  \/ StepClock
  \/ LoopStep
  \/ RunFunctor
  \/ \E a \in Addrs, when \in Times, interval \in Intervals :
       \/ addTimerIO(a, when, interval)
       \/ \E t \in Others : addTimer(t, a, when, interval)
  \/ \E t \in Others : addTimerReturns(t)
  \/ \E i \in ids : \/ cancelIO(i)
                    \/ \E t \in Others : cancel(t, i)

Spec == Init /\ [][Next]_vars

(***************************************************************************)
(* Time passes, the loop thread is not suspended and callbacks return.     *)
(* loop() calls doPendingFunctors once per iteration, so handling timers   *)
(* for ever cannot keep a functor from running: strong fairness.           *)
(***************************************************************************)
FairSpec ==
  Spec /\ WF_vars(Tick) /\ WF_vars(LoopStep) /\ SF_vars(RunFunctor)

-----------------------------------------------------------------------------
(* Every Timer that exists has exactly one owner: a queued addTimerInLoop, *)
(* the two containers together, or the batch that handleRead works on; and *)
(* no owner holds a deleted Timer or a stale key.  This is what every      *)
(* assert of TimerQueue.cc and every delete relies on.                     *)
OneOwner ==
  LET held == {e[2] : e \in timers_}
      batch == {e[2] : e \in expired}
  IN  /\ DOMAIN heap = QueuedAddrs \cup held \cup batch
      /\ QueuedAddrs \cap held = {}
      /\ batch \cap (QueuedAddrs \cup held) = {}
      /\ \A i, j \in QueuedAdds :
           i # j => pendingFunctors_[i].timer # pendingFunctors_[j].timer
      /\ \A e \in timers_ \cup expired : e = EntryOf(heap, e[2])
      /\ activeTimers_ = {ActiveOf(heap, a) : a \in held}

(* While timers are waiting and no handler is at work, an alarm is set, or *)
(* has gone off and will be handled: no timer is forgotten, not even when  *)
(* it is already due, when an earlier one is cancelled, or when the wall   *)
(* clock is stepped (addTimerInLoop, reset, howMuchTimeFromNow).           *)
AlarmPending ==
  timers_ # {} /\ ~callingExpiredTimers_ =>
    fdRemaining > 0 \/ fdReadable \/ timerfdActive

(* As long as nobody steps the wall clock the alarm is not later than the  *)
(* earliest expiration, or than the smallest delay if that is past.        *)
AlarmInTime ==
  steps = 0 /\ ~callingExpiredTimers_ /\ ~fdReadable /\ ~timerfdActive =>
    \A e \in timers_ : fdRemaining <= howMuchTimeFromNow(e[1])

(* A timer that cancelInLoop was called for, after its addTimerInLoop, is  *)
(* never in the queue again: also not when it cancels itself, is cancelled *)
(* by another timer of its batch, or when its address was used again.      *)
CancelSticks == activeTimers_ \cap cancelled = {}

(* A timer leaves the queue for one reason only: it is due, or it was      *)
(* cancelled under its own sequence.                                       *)
OnlyDueOrCancelled ==
  [][\A at \in activeTimers_ \ activeTimers_' :
       at \in cancelled' \/ heap[at[1]].expiration <= now]_vars

(* Every timer that addTimer created, on whichever thread, gets to run or  *)
(* is cancelled some day, whatever steps the wall clock makes.             *)
TimersFire ==
  \A id \in ActiveTimer :
    id \in ExistingIds ~>
      id \notin ExistingIds \/ \E e \in expired : e[2] = id[1]

(* What the comment on addTimer says, "must be thread safe": the Timer     *)
(* whose sequence addTimer returns exists until addTimer has read it.      *)
TimerOutlivesAddTimer ==
  \A t \in Others : adding[t] # NULL => adding[t] \in DOMAIN heap
=============================================================================
