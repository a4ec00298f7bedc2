-------------------------- MODULE TimerQueueProofs --------------------------
(***************************************************************************)
(* What TimerQueue promises, for every number of threads, timers, clock    *)
(* steps and addresses.                                                    *)
(***************************************************************************)
EXTENDS TimerQueue, TLAPS

-----------------------------------------------------------------------------
(* Sequences of functors.                                                  *)

(* Dropping the first functor moves the others down by one.                *)
LEMMA TailShifts ==
  ASSUME NEW S, NEW s \in Seq(S), s # <<>>
  PROVE  /\ Tail(s) \in Seq(S)
         /\ Head(s) = s[1] /\ Head(s) \in S
         /\ DOMAIN s = 1..Len(s) /\ Len(s) \in Nat \ {0}
         /\ DOMAIN Tail(s) = 1..(Len(s) - 1)
         /\ \A i \in 1..(Len(s) - 1) : Tail(s)[i] = s[i + 1]
  OBVIOUS

(* Queueing a functor adds it at the end.                                  *)
LEMMA AppendAdds ==
  ASSUME NEW S, NEW s \in Seq(S), NEW f \in S
  PROVE  /\ Append(s, f) \in Seq(S)
         /\ DOMAIN s = 1..Len(s) /\ Len(s) \in Nat
         /\ DOMAIN Append(s, f) = 1..(Len(s) + 1)
         /\ \A i \in 1..Len(s) : Append(s, f)[i] = s[i]
         /\ Append(s, f)[Len(s) + 1] = f
  OBVIOUS

-----------------------------------------------------------------------------
(* Timestamps stay within the horizon, and the timerfd is always armed     *)
(* with a delay (addTime, howMuchTimeFromNow).                             *)
LEMMA TimeBounds ==
  ASSUME TypeOK, NEW when \in Timestamps, NEW interval \in Intervals
  PROVE  /\ addTime(when, interval) \in Timestamps
         /\ interval > 0 => addTime(when, interval) > 0
         /\ howMuchTimeFromNow(when) \in 1..Horizon
<1>1. /\ Horizon \in Nat \ {0} /\ interval \in Nat
      /\ when \in 0..Horizon /\ now \in 0..Horizon
  BY TimeAssumption, Zenon DEF TypeOK, Timestamps
<1>2. addTime(when, interval) \in Timestamps /\ (interval > 0 => addTime(when, interval) > 0)
  BY <1>1 DEF addTime, Timestamps
<1>3. howMuchTimeFromNow(when) \in 1..Horizon
  BY <1>1 DEF howMuchTimeFromNow
<1> QED
  BY <1>2, <1>3, Zenon

(* delete takes Timers from the heap and leaves the others as they are.    *)
LEMMA DeleteRemoves ==
  ASSUME NEW as
  PROVE  /\ DOMAIN Delete(as) = DOMAIN heap \ as
         /\ \A a \in DOMAIN heap \ as : Delete(as)[a] = heap[a]
  BY Zenon DEF Delete, Restrict

(* new puts one Timer on the heap.                                         *)
LEMMA NewTimerAdds ==
  ASSUME TypeOK, s_numCreated_ < MaxTimers,
         NEW a \in Addrs \ DOMAIN heap, NEW when \in Times, NEW interval \in Intervals,
         NEW h, h = NewTimer(a, when, interval)
  PROVE  /\ DOMAIN h = DOMAIN heap \cup {a}
         /\ h \in [DOMAIN h -> Timer]
         /\ h[a].sequence = s_numCreated_ + 1
         /\ h[a].expiration = when
         /\ \A b \in DOMAIN heap : h[b] = heap[b]
  BY TimeAssumption, BoundsAssumption, SMTT(30)
     DEF TypeOK, NewTimer, Timer, Timestamps, Sequences_
(* The operations of the loop thread on the containers keep their types.   *)
LEMMA AddTypes ==
  ASSUME TypeOK, NEW h, DOMAIN h \subseteq Addrs, h \in [DOMAIN h -> Timer],
         NEW a \in DOMAIN h, addTimerInLoop(h, a)
  PROVE  /\ timers_' \subseteq Entry
         /\ activeTimers_' \subseteq ActiveTimer
         /\ fdRemaining' \in 0..Horizon
         /\ fdReadable' \in BOOLEAN
<1>1. h[a] \in Timer /\ a \in Addrs
  BY Zenon
<1>2. EntryOf(h, a) \in Entry /\ ActiveOf(h, a) \in ActiveTimer
  BY <1>1, Zenon DEF EntryOf, ActiveOf, Entry, ActiveTimer, Timer
<1>3. 1..Horizon \subseteq 0..Horizon
  OBVIOUS
<1>4. howMuchTimeFromNow(h[a].expiration) \in 0..Horizon
  BY <1>1, TimeAssumption, SMTT(30) DEF TypeOK, howMuchTimeFromNow, Timestamps, Timer
<1> QED
  BY <1>2, <1>4, Zenon DEF addTimerInLoop, resetTimerfd, TypeOK, fdVars

(* cancelInLoop keeps the heap and the sets that it changes well typed.    *)
LEMMA CancelTypes ==
  ASSUME TypeOK, NEW id \in ActiveTimer, cancelInLoop(id)
  PROVE  /\ DOMAIN heap' \subseteq Addrs
         /\ heap' \in [DOMAIN heap' -> Timer]
         /\ timers_' \subseteq Entry
         /\ activeTimers_' \subseteq ActiveTimer
         /\ cancelingTimers_' \subseteq ActiveTimer
         /\ cancelled' \subseteq ActiveTimer
<1>1. DOMAIN Delete({id[1]}) \subseteq Addrs
  BY DeleteRemoves, Zenon DEF TypeOK
<1>2. Delete({id[1]}) \in [DOMAIN Delete({id[1]}) -> Timer]
  BY Zenon DEF Delete, Restrict, TypeOK
<1> QED
  BY <1>1, <1>2, Zenon DEF cancelInLoop, TypeOK, queueVars

(* What reset does, in terms of the heap that it leaves.                   *)
LEMMA ResetEffect ==
  ASSUME reset
  PROVE  /\ callingExpiredTimers_ /\ toRun = {}
         /\ callingExpiredTimers_' = FALSE /\ expired' = {} /\ handleNow' = 0
         /\ timers_' = timers_ \cup {EntryOf(heap', e[2]) : e \in Restarted}
         /\ activeTimers_' = activeTimers_ \cup {ActiveOf(heap', e[2]) : e \in Restarted}
         /\ \/ \E e \in timers_' : e[1] > 0 /\ resetTimerfd(e[1])
            \/ /\ \A e \in timers_' : \E f \in timers_' : f[1] = 0
               /\ UNCHANGED fdVars
         /\ UNCHANGED <<s_numCreated_, toRun, running, cancelingTimers_, timerfdActive,
                        now, steps, pendingFunctors_, adding, ids, cancelled>>
<1>1. /\ timers_' = timers_ \cup {EntryOf(heap', e[2]) : e \in Restarted}
      /\ activeTimers_' = activeTimers_ \cup {ActiveOf(heap', e[2]) : e \in Restarted}
  BY Zenon DEF reset
<1>2. \/ \E e \in timers_' : e[1] > 0 /\ resetTimerfd(e[1])
      \/ /\ \A e \in timers_' : \E f \in timers_' : f[1] = 0
         /\ UNCHANGED fdVars
  BY Zenon DEF reset
<1> QED
  BY <1>1, <1>2, Zenon DEF reset, clockVars

(* What reset leaves on the heap.                                          *)
LEMMA ResetHeap ==
  ASSUME TypeOK, OneOwner, reset
  PROVE  /\ DOMAIN heap' = DOMAIN heap \ {e[2] : e \in expired \ Restarted}
         /\ \A e \in Restarted : e[2] \in DOMAIN heap'
         /\ heap' \in [DOMAIN heap' -> Timer]
         /\ \A e \in Restarted :
              /\ heap'[e[2]].expiration > 0
              /\ heap'[e[2]].sequence = heap[e[2]].sequence
         /\ \A a \in DOMAIN heap : a \notin {e[2] : e \in expired} => heap'[a] = heap[a]
<1> DEFINE again == {e[2] : e \in Restarted}
           gone == {e[2] : e \in expired} \ again
           h == [a \in DOMAIN Delete(gone) |->
                   IF a \in again THEN restart(a) ELSE heap[a]]
<1>1. heap' = h
  BY Zenon DEF reset
<1>2. \A e \in expired : e[2] \in DOMAIN heap /\ e = EntryOf(heap, e[2])
  BY Zenon DEF OneOwner
<1>3. Restarted \subseteq expired
  BY Zenon DEF Restarted
<1>4. gone = {e[2] : e \in expired \ Restarted}
  BY <1>2, <1>3, Zenon
<1>5. DOMAIN h = DOMAIN heap \ gone
  BY DeleteRemoves, Zenon
<1>6. \A e \in Restarted : e[2] \in DOMAIN h /\ h[e[2]] = restart(e[2])
  BY <1>2, <1>3, <1>5, Zenon
<1>7. ASSUME NEW a \in again
      PROVE  /\ restart(a) \in Timer
             /\ restart(a).expiration > 0
             /\ restart(a).sequence = heap[a].sequence
  <2>1. a \in DOMAIN heap /\ heap[a] \in Timer /\ heap[a].interval > 0
    BY <1>2, <1>7, Zenon DEF Restarted, TypeOK
  <2>2. heap[a].interval \in Intervals /\ handleNow \in Timestamps
    BY <2>1, Zenon DEF Timer, TypeOK
  <2>3. /\ addTime(handleNow, heap[a].interval) \in Timestamps
        /\ addTime(handleNow, heap[a].interval) > 0
    BY <2>1, <2>2, TimeBounds, Zenon
  <2> QED
    BY <2>1, <2>3, Zenon DEF restart, Timer
<1>8. \A a \in DOMAIN heap : a \notin again => heap[a] \in Timer
  BY Zenon DEF TypeOK
<1>9. h \in [DOMAIN h -> Timer]
  BY <1>5, <1>7, <1>8, Zenon
<1>10. \A a \in DOMAIN heap : a \notin {e[2] : e \in expired} => h[a] = heap[a]
  BY <1>3, <1>5, Zenon
<1>11. \A e \in Restarted :
         /\ e[2] \in DOMAIN h /\ h[e[2]].expiration > 0
         /\ h[e[2]].sequence = heap[e[2]].sequence
  <2> SUFFICES ASSUME NEW e \in Restarted
               PROVE  /\ e[2] \in DOMAIN h /\ h[e[2]].expiration > 0
                      /\ h[e[2]].sequence = heap[e[2]].sequence
    BY Zenon
  <2>1. e[2] \in again /\ e[2] \in DOMAIN h /\ h[e[2]] = restart(e[2])
    BY <1>6, Zenon
  <2> HIDE DEF again, h
  <2> QED
    BY <1>7, <2>1, Zenon
<1> HIDE DEF h, gone, again
<1> QED
  BY <1>1, <1>4, <1>5, <1>9, <1>10, <1>11, Zenon

-----------------------------------------------------------------------------
(* Every step keeps the types.                                             *)
LEMMA TypeInductive == TypeOK /\ OneOwner /\ [Next]_vars => TypeOK'
<1> SUFFICES ASSUME TypeOK, OneOwner, [Next]_vars PROVE TypeOK'
  BY Zenon
<1> USE DEF TypeOK, queueVars, batchVars, fdVars, clockVars
<1>1. CASE Tick
  <2>1. now' \in Timestamps
    BY <1>1, TimeAssumption DEF Tick, addTime, Timestamps
  <2>2. fdRemaining' \in 0..Horizon
    BY <1>1, TimeAssumption DEF Tick
  <2> QED
    BY <1>1, <2>1, <2>2, Zenon DEF Tick
<1>2. CASE StepClock
  BY <1>2, TimeAssumption, BoundsAssumption, SMTT(30) DEF StepClock, Timestamps
<1>3. CASE PollTimerfd
  BY <1>3, Zenon DEF PollTimerfd
<1>4. CASE handleRead
  BY <1>4, Zenon DEF handleRead, getExpired
<1>5. ASSUME NEW e \in toRun, RunTimer(e) PROVE TypeOK'
  BY <1>5, Zenon DEF RunTimer, Entry
<1>6. CASE CallbackReturns
  BY <1>6, Zenon DEF CallbackReturns
<1>7. CASE reset
  <2>1. /\ DOMAIN heap' \subseteq Addrs
        /\ heap' \in [DOMAIN heap' -> Timer]
        /\ \A e \in Restarted : e[2] \in DOMAIN heap'
    BY <1>7, ResetHeap, Zenon
  <2>2. \A e \in Restarted : /\ EntryOf(heap', e[2]) \in Entry
                             /\ ActiveOf(heap', e[2]) \in ActiveTimer
    BY <2>1, Zenon DEF EntryOf, ActiveOf, Entry, ActiveTimer, Timer
  <2>3. timers_' \subseteq Entry /\ activeTimers_' \subseteq ActiveTimer
    BY <1>7, <2>2, ResetEffect, Zenon
  <2>4. \A e \in timers_' : howMuchTimeFromNow(e[1]) \in 0..Horizon
    BY <2>3, TimeAssumption, SMTT(30) DEF howMuchTimeFromNow, Timestamps, Entry
  <2>5. fdRemaining' \in 0..Horizon /\ fdReadable' \in BOOLEAN
    BY <1>7, <2>4, ResetEffect, Zenon DEF resetTimerfd
  <2>6. 0 \in Timestamps
    BY TimeAssumption DEF Timestamps
  <2> QED
    BY <1>7, <2>1, <2>3, <2>5, <2>6, ResetEffect, Zenon
<1>8. CASE RunFunctor
  <2> DEFINE f == Head(pendingFunctors_)
  <2>1. /\ pendingFunctors_' \in Seq(Functor) /\ f \in Functor
        /\ f = pendingFunctors_[1] /\ 1 \in DOMAIN pendingFunctors_
    BY <1>8, TailShifts DEF RunFunctor
  <2>2. CASE f.op = "addTimerInLoop"
    <3>1. addTimerInLoop(heap, f.timer)
      BY <1>8, <2>2, Zenon DEF RunFunctor
    <3>2. f.timer \in DOMAIN heap
      BY <2>1, <2>2 DEF OneOwner, QueuedAddrs, QueuedAdds
    <3>3. UNCHANGED <<heap, cancelingTimers_, cancelled>>
      BY <1>8, <2>2, Zenon DEF RunFunctor
    <3> QED
      BY <1>8, <2>1, <3>1, <3>2, <3>3, AddTypes, Zenon DEF RunFunctor
  <2>3. CASE f.op = "cancelInLoop"
    <3>1. f.id \in ActiveTimer
      BY <2>1, <2>3, Zenon DEF Functor
    <3>2. cancelInLoop(f.id) /\ UNCHANGED fdVars
      BY <1>8, <2>3, Zenon DEF RunFunctor
    <3> QED
      BY <1>8, <2>1, <3>1, <3>2, CancelTypes, Zenon DEF RunFunctor
  <2> QED
    BY <1>8, <2>2, <2>3, Zenon DEF RunFunctor
<1>9. ASSUME NEW a \in Addrs, NEW when \in Times, NEW interval \in Intervals,
             addTimerIO(a, when, interval)
      PROVE  TypeOK'
  <2> DEFINE h == NewTimer(a, when, interval)
  <2>1. DOMAIN h = DOMAIN heap \cup {a} /\ h \in [DOMAIN h -> Timer]
    BY <1>9, NewTimerAdds, Zenon DEF addTimerIO
  <2>2. addTimerInLoop(h, a)
    BY <1>9, Zenon DEF addTimerIO
  <2>3. /\ timers_' \subseteq Entry /\ activeTimers_' \subseteq ActiveTimer
        /\ fdRemaining' \in 0..Horizon /\ fdReadable' \in BOOLEAN
    BY <2>1, <2>2, AddTypes, Zenon
  <2>4. ActiveOf(h, a) \in ActiveTimer
    BY <2>1, Zenon DEF ActiveOf, ActiveTimer, Timer
  <2> HIDE DEF h
  <2>5. heap' = h /\ ids' = ids \cup {ActiveOf(h, a)} /\ s_numCreated_' = s_numCreated_ + 1
    BY <1>9, Zenon DEF addTimerIO, h
  <2>6. s_numCreated_' \in 0..MaxTimers
    BY <1>9, <2>5, BoundsAssumption, SMTT(30) DEF addTimerIO
  <2> QED
    BY <1>9, <2>1, <2>3, <2>4, <2>5, <2>6, Zenon DEF addTimerIO
<1>10. ASSUME NEW a \in Addrs, NEW when \in Times, NEW interval \in Intervals,
              NEW t \in Others, addTimer(t, a, when, interval)
       PROVE  TypeOK'
  <2> DEFINE h == NewTimer(a, when, interval)
  <2>1. DOMAIN h = DOMAIN heap \cup {a} /\ h \in [DOMAIN h -> Timer]
    BY <1>10, NewTimerAdds, Zenon DEF addTimer
  <2>2. [op |-> "addTimerInLoop", timer |-> a] \in Functor
    BY Zenon DEF Functor
  <2>3. pendingFunctors_' \in Seq(Functor)
    BY <1>10, <2>2, AppendAdds, Zenon DEF addTimer
  <2>4. s_numCreated_' \in 0..MaxTimers
    BY <1>10, BoundsAssumption, SMTT(30) DEF addTimer
  <2> HIDE DEF h
  <2>5. heap' = h
    BY <1>10, Zenon DEF addTimer, h
  <2> QED
    BY <1>10, <2>1, <2>3, <2>4, <2>5, Zenon DEF addTimer
<1>11. ASSUME NEW t \in Others, addTimerReturns(t) PROVE TypeOK'
  BY <1>11 DEF addTimerReturns, ActiveTimer
<1>12. ASSUME NEW id \in ids, cancelIO(id) PROVE TypeOK'
  BY <1>12, CancelTypes, Zenon DEF cancelIO
<1>13. ASSUME NEW id \in ids, NEW t \in Others, cancel(t, id) PROVE TypeOK'
  <2>1. [op |-> "cancelInLoop", id |-> id] \in Functor
    BY Zenon DEF Functor
  <2> QED
    BY <1>13, <2>1, AppendAdds, Zenon DEF cancel
<1>14. CASE UNCHANGED vars
  BY <1>14, Zenon DEF vars
<1> QED
  BY <1>1, <1>2, <1>3, <1>4, <1>5, <1>6, <1>7, <1>8, <1>9, <1>10, <1>11, <1>12,
     <1>13, <1>14, Zenon DEF Next, LoopStep

-----------------------------------------------------------------------------
(* Every Timer has one owner.                                              *)

DistinctAdds ==
  \A i, j \in QueuedAdds : i # j => pendingFunctors_[i].timer # pendingFunctors_[j].timer

Held == {e[2] : e \in timers_}
Batch == {e[2] : e \in expired}

(* Handling is the only time when a batch exists.                          *)
BatchWhileCalling == ~callingExpiredTimers_ => expired = {}

(* Queueing addTimerInLoop for a Timer that is not queued, or any          *)
(* cancelInLoop.                                                           *)
LEMMA QueueAppend ==
  ASSUME TypeOK, DistinctAdds, NEW f \in Functor,
         pendingFunctors_' = Append(pendingFunctors_, f)
  PROVE  /\ f.op = "cancelInLoop" => QueuedAddrs' = QueuedAddrs /\ DistinctAdds'
         /\ f.op = "addTimerInLoop" /\ f.timer \notin QueuedAddrs =>
              QueuedAddrs' = QueuedAddrs \cup {f.timer} /\ DistinctAdds'
<1> DEFINE n == Len(pendingFunctors_)
<1>1. /\ n \in Nat /\ DOMAIN pendingFunctors_ = 1..n
      /\ DOMAIN pendingFunctors_' = 1..(n + 1)
      /\ \A i \in 1..n : pendingFunctors_'[i] = pendingFunctors_[i]
      /\ pendingFunctors_'[n + 1] = f
  BY AppendAdds DEF TypeOK
<1> HIDE DEF n
<1>2. \A i \in QueuedAdds : i \in 1..n /\ i \in QueuedAdds'
                            /\ pendingFunctors_'[i].timer = pendingFunctors_[i].timer
  BY <1>1 DEF QueuedAdds
<1>3. \A i \in QueuedAdds' : i \in QueuedAdds \/ (i = n + 1 /\ f.op = "addTimerInLoop")
  BY <1>1 DEF QueuedAdds
<1>4. f.op = "addTimerInLoop" => n + 1 \in QueuedAdds'
  BY <1>1 DEF QueuedAdds
<1>5. "cancelInLoop" # "addTimerInLoop"
  BY Zenon
<1> QED
  BY <1>1, <1>2, <1>3, <1>4, <1>5 DEF QueuedAddrs, DistinctAdds

(* Running the first functor.                                              *)
LEMMA QueueTail ==
  ASSUME TypeOK, DistinctAdds, pendingFunctors_ # <<>>,
         pendingFunctors_' = Tail(pendingFunctors_)
  PROVE  /\ DistinctAdds'
         /\ Head(pendingFunctors_) \in Functor
         /\ Head(pendingFunctors_).op = "cancelInLoop" => QueuedAddrs' = QueuedAddrs
         /\ Head(pendingFunctors_).op = "addTimerInLoop" =>
              /\ Head(pendingFunctors_).timer \in QueuedAddrs
              /\ QueuedAddrs' = QueuedAddrs \ {Head(pendingFunctors_).timer}
<1> DEFINE n == Len(pendingFunctors_)
           f == Head(pendingFunctors_)
<1>1. /\ n \in Nat \ {0} /\ DOMAIN pendingFunctors_ = 1..n
      /\ DOMAIN pendingFunctors_' = 1..(n - 1)
      /\ \A i \in 1..(n - 1) : pendingFunctors_'[i] = pendingFunctors_[i + 1]
      /\ f = pendingFunctors_[1] /\ f \in Functor
  BY TailShifts, Zenon DEF TypeOK
<1> HIDE DEF n, f
<1>2. \A i \in QueuedAdds' : /\ i \in Nat /\ i + 1 \in QueuedAdds /\ i + 1 # 1
                             /\ pendingFunctors_'[i].timer = pendingFunctors_[i + 1].timer
  BY <1>1 DEF QueuedAdds
<1>3. \A i \in QueuedAdds : i \in Nat /\ (i = 1 \/ (i - 1 \in QueuedAdds' /\ (i - 1) + 1 = i))
  BY <1>1 DEF QueuedAdds
<1>4. 1 \in QueuedAdds <=> f.op = "addTimerInLoop"
  BY <1>1 DEF QueuedAdds
<1>5. DistinctAdds'
  <2> SUFFICES ASSUME NEW i \in QueuedAdds', NEW j \in QueuedAdds', i # j
               PROVE  pendingFunctors_'[i].timer # pendingFunctors_'[j].timer
    BY Zenon DEF DistinctAdds
  <2>1. i + 1 \in QueuedAdds /\ j + 1 \in QueuedAdds /\ i + 1 # j + 1
    BY <1>2
  <2>2. pendingFunctors_[i + 1].timer # pendingFunctors_[j + 1].timer
    BY <2>1, Zenon DEF DistinctAdds
  <2> QED
    BY <1>2, <2>2, Zenon
<1>6. ASSUME NEW x \in QueuedAddrs'
      PROVE  \E i \in QueuedAdds : i # 1 /\ x = pendingFunctors_[i].timer
  <2>1. PICK j \in QueuedAdds' : x = pendingFunctors_'[j].timer
    BY Zenon DEF QueuedAddrs
  <2> QED
    BY <1>2, <2>1, Zenon
<1>7. ASSUME NEW i \in QueuedAdds, i # 1
      PROVE  pendingFunctors_[i].timer \in QueuedAddrs'
  <2>1. i - 1 \in QueuedAdds' /\ (i - 1) + 1 = i
    BY <1>3, <1>7, Zenon
  <2>2. pendingFunctors_'[i - 1].timer = pendingFunctors_[i].timer
    BY <1>2, <2>1, Zenon
  <2> QED
    BY <2>1, <2>2, Zenon DEF QueuedAddrs
<1>8. ASSUME f.op # "addTimerInLoop" PROVE QueuedAddrs' = QueuedAddrs
  <2>1. 1 \notin QueuedAdds
    BY <1>4, <1>8, Zenon
  <2>2. \A x \in QueuedAddrs : x \in QueuedAddrs'
    BY <1>7, <2>1, Zenon DEF QueuedAddrs
  <2>3. \A x \in QueuedAddrs' : x \in QueuedAddrs
    BY <1>6, Zenon DEF QueuedAddrs
  <2> QED
    BY <2>2, <2>3, Zenon
<1>9. ASSUME f.op = "addTimerInLoop"
      PROVE  f.timer \in QueuedAddrs /\ QueuedAddrs' = QueuedAddrs \ {f.timer}
  <2>1. f.timer = pendingFunctors_[1].timer /\ 1 \in QueuedAdds
    BY <1>1, <1>4, <1>9, Zenon
  <2>2. \A i \in QueuedAdds : i # 1 => pendingFunctors_[i].timer # f.timer
    BY <2>1, Zenon DEF DistinctAdds
  <2>3. \A x \in QueuedAddrs' : x \in QueuedAddrs /\ x # f.timer
    BY <1>6, <2>2, Zenon DEF QueuedAddrs
  <2>4. \A x \in QueuedAddrs : x \in QueuedAddrs' \/ x = f.timer
    BY <1>7, <2>1, Zenon DEF QueuedAddrs
  <2>5. f.timer \in QueuedAddrs
    BY <2>1, Zenon DEF QueuedAddrs
  <2> QED
    BY <2>3, <2>4, <2>5, Zenon
<1> QED
  BY <1>1, <1>5, <1>8, <1>9, Zenon DEF f

(* OneOwner in terms of the sets of addresses.                             *)
LEMMA OwnerSets ==
  OneOwner <=> /\ DOMAIN heap = QueuedAddrs \cup Held \cup Batch
               /\ QueuedAddrs \cap Held = {}
               /\ Batch \cap (QueuedAddrs \cup Held) = {}
               /\ DistinctAdds
               /\ \A e \in timers_ \cup expired : e = EntryOf(heap, e[2])
               /\ activeTimers_ = {ActiveOf(heap, a) : a \in Held}
  BY Zenon DEF OneOwner, Held, Batch, DistinctAdds

(* cancelInLoop keeps the owners, and a Timer that it deletes had none     *)
(* but the containers.                                                     *)
LEMMA CancelOwners ==
  ASSUME TypeOK, OneOwner, NEW id \in ActiveTimer, cancelInLoop(id),
         QueuedAddrs' = QueuedAddrs, DistinctAdds', expired' = expired
  PROVE  OneOwner'
<1>1. CASE id \notin activeTimers_
  <2>1. UNCHANGED <<timers_, activeTimers_, heap>>
    BY <1>1, Zenon DEF cancelInLoop, queueVars
  <2> QED
    BY <2>1, SMTT(30) DEF OneOwner, DistinctAdds, EntryOf, ActiveOf
<1>2. CASE id \in activeTimers_
  <2> DEFINE a == id[1]
  <2>1. a \in Held /\ id = ActiveOf(heap, a)
    BY <1>2, OwnerSets DEF ActiveOf
  <2>2. /\ timers_' = timers_ \ {EntryOf(heap, a)}
        /\ heap' = Delete({a})
        /\ activeTimers_' = activeTimers_ \ {id}
    BY <1>2, Zenon DEF cancelInLoop
  <2> HIDE DEF a
  <2>3. /\ DOMAIN heap' = DOMAIN heap \ {a}
        /\ \A b \in DOMAIN heap' : heap'[b] = heap[b]
    BY <2>2, DeleteRemoves, Zenon
  <2>4. \A e \in timers_ : e[2] = a <=> e = EntryOf(heap, a)
    BY OwnerSets, Zenon DEF EntryOf
  <2>5. Held' = Held \ {a}
    BY <2>2, <2>4, Zenon DEF Held
  <2>6. Batch' = Batch
    BY Zenon DEF Batch
  <2>7. a \notin QueuedAddrs /\ a \notin Batch
    BY <2>1, OwnerSets, Zenon
  <2>8. DOMAIN heap' = QueuedAddrs' \cup Held' \cup Batch'
    BY <2>3, <2>5, <2>6, <2>7, OwnerSets, Zenon
  <2>9. \A e \in timers_' \cup expired' : e = EntryOf(heap, e[2]) /\ e[2] \in DOMAIN heap'
    BY <2>2, <2>4, <2>6, <2>8, OwnerSets, Zenon DEF Held, Batch
  <2>10. \A e \in timers_' \cup expired' : e = EntryOf(heap', e[2])
    BY <2>3, <2>9, Zenon DEF EntryOf
  <2>11. \A b \in Held : b # a => ActiveOf(heap', b) = ActiveOf(heap, b) /\ ActiveOf(heap, b) # id
    BY <2>1, <2>3, OwnerSets, Zenon DEF ActiveOf
  <2>12. activeTimers_' = {ActiveOf(heap', b) : b \in Held'}
    BY <2>1, <2>2, <2>5, <2>11, OwnerSets, Zenon
  <2>13. QueuedAddrs' \cap Held' = {} /\ Batch' \cap (QueuedAddrs' \cup Held') = {}
    BY <2>5, <2>6, OwnerSets, Zenon
  <2> QED
    BY <2>8, <2>10, <2>12, <2>13, Zenon DEF OneOwner, Held, Batch, DistinctAdds
<1> QED
  BY <1>1, <1>2, Zenon

(* addTimerInLoop makes the containers the owner of a Timer without one.   *)
LEMMA AddOwners ==
  ASSUME NEW a, NEW others, addTimerInLoop(heap', a), a \notin others \cup Held \cup Batch,
         OneOwner, QueuedAddrs' = others, DistinctAdds', expired' = expired,
         DOMAIN heap' = others \cup Held \cup Batch \cup {a},
         others \cap Held = {}, Batch \cap others = {},
         \A b \in Held \cup Batch : heap'[b] = heap[b]
  PROVE  OneOwner'
<1>1. /\ timers_' = timers_ \cup {EntryOf(heap', a)}
      /\ activeTimers_' = activeTimers_ \cup {ActiveOf(heap', a)}
  BY Zenon DEF addTimerInLoop
<1>2. Held' = Held \cup {a} /\ Batch' = Batch
  <2>1. EntryOf(heap', a)[2] = a
    BY Zenon DEF EntryOf
  <2>2. Held' = Held \cup {a}
    BY <1>1, <2>1 DEF Held
  <2> QED
    BY <2>2, Zenon DEF Batch
<1>3. \A e \in timers_ \cup expired : e[2] \in Held \cup Batch
  BY Zenon DEF Held, Batch
<1>4. \A e \in timers_' \cup expired' : e = EntryOf(heap', e[2])
  BY <1>1, <1>3, OwnerSets DEF EntryOf
<1>5. \A b \in Held : ActiveOf(heap', b) = ActiveOf(heap, b)
  BY Zenon DEF ActiveOf
<1>6. activeTimers_' = {ActiveOf(heap', b) : b \in Held'}
  BY <1>1, <1>2, <1>5, OwnerSets
<1>7. Batch \cap Held = {}
  BY OwnerSets, Zenon
<1>8. /\ QueuedAddrs' \cap Held' = {} /\ Batch' \cap (QueuedAddrs' \cup Held') = {}
      /\ DOMAIN heap' = QueuedAddrs' \cup Held' \cup Batch'
  BY <1>2, <1>7, Zenon
<1> QED
  BY <1>4, <1>6, <1>8, Zenon DEF OneOwner, Held, Batch, DistinctAdds

(* Every step keeps one owner for every Timer.                             *)
LEMMA OwnerInductive ==
  TypeOK /\ OneOwner /\ BatchWhileCalling /\ [Next]_vars => OneOwner' /\ BatchWhileCalling'
<1> SUFFICES ASSUME TypeOK, OneOwner, BatchWhileCalling, [Next]_vars
             PROVE  OneOwner' /\ BatchWhileCalling'
  BY Zenon
<1> USE DEF BatchWhileCalling
<1>1. ASSUME UNCHANGED <<queueVars, expired, callingExpiredTimers_, pendingFunctors_>>
      PROVE  OneOwner' /\ BatchWhileCalling'
  <2>1. QueuedAdds' = QueuedAdds
    BY <1>1, Zenon DEF QueuedAdds
  <2>2. QueuedAddrs' = QueuedAddrs
    BY <1>1, <2>1, Zenon DEF QueuedAddrs
  <2>3. UNCHANGED <<timers_, activeTimers_, heap, expired, pendingFunctors_>>
    BY <1>1, Zenon DEF queueVars
  <2>4. OneOwner'
    BY <2>1, <2>2, <2>3 DEF OneOwner, EntryOf, ActiveOf
  <2> QED
    BY <1>1, <2>4, Zenon
<1>2. CASE Tick \/ StepClock \/ PollTimerfd \/ CallbackReturns \/ UNCHANGED vars
  BY <1>1, <1>2, Zenon DEF Tick, StepClock, PollTimerfd, CallbackReturns, batchVars, vars
<1>3. ASSUME NEW e \in toRun, RunTimer(e) PROVE OneOwner' /\ BatchWhileCalling'
  BY <1>1, <1>3, Zenon DEF RunTimer
<1>4. ASSUME NEW t \in Others, addTimerReturns(t) PROVE OneOwner' /\ BatchWhileCalling'
  BY <1>1, <1>4, Zenon DEF addTimerReturns, batchVars
<1>5. CASE handleRead
  <2>1. /\ expired' = getExpired /\ timers_' = timers_ \ getExpired /\ heap' = heap
        /\ activeTimers_' = activeTimers_ \ {ActiveOf(heap, e[2]) : e \in getExpired}
        /\ pendingFunctors_' = pendingFunctors_ /\ callingExpiredTimers_'
        /\ ~callingExpiredTimers_
    BY <1>5, Zenon DEF handleRead
  <2>2. expired = {} /\ Batch = {}
    BY <2>1, Zenon DEF Batch
  <2>3. getExpired \subseteq timers_
    BY Zenon DEF getExpired
  <2>4. \A e, f \in timers_ : e[2] = f[2] => e = f
    BY OwnerSets, Zenon
  <2>5. Held = Held' \cup Batch' /\ Batch' \cap Held' = {}
    BY <2>1, <2>3, <2>4, Zenon DEF Held, Batch
  <2>6. QueuedAdds' = QueuedAdds
    BY <2>1, Zenon DEF QueuedAdds
  <2>7. QueuedAddrs' = QueuedAddrs /\ DistinctAdds'
    BY <2>1, <2>6, OwnerSets, Zenon DEF QueuedAddrs, DistinctAdds
  <2>8. \A e \in timers_' \cup expired' : e = EntryOf(heap', e[2])
    BY <2>1, <2>3, OwnerSets, Zenon DEF EntryOf
  <2>9. \A a, b : ActiveOf(heap, a) = ActiveOf(heap, b) => a = b
    BY Zenon DEF ActiveOf
  <2>10. {ActiveOf(heap, e[2]) : e \in getExpired} = {ActiveOf(heap, a) : a \in Batch'}
    BY <2>1, Zenon DEF Batch
  <2>11. activeTimers_' = {ActiveOf(heap, a) : a \in Held'}
    BY <2>1, <2>5, <2>9, <2>10, OwnerSets
  <2>12. activeTimers_' = {ActiveOf(heap', a) : a \in Held'}
    BY <2>1, <2>11, Zenon DEF ActiveOf
  <2>13. DOMAIN heap' = QueuedAddrs' \cup Held' \cup Batch'
    BY <2>1, <2>2, <2>5, <2>7, OwnerSets, Zenon
  <2>14. QueuedAddrs' \cap Held' = {} /\ Batch' \cap (QueuedAddrs' \cup Held') = {}
    BY <2>5, <2>7, OwnerSets, Zenon
  <2>15. OneOwner'
    BY <2>7, <2>8, <2>12, <2>13, <2>14, Zenon DEF OneOwner, Held, Batch, DistinctAdds
  <2> QED
    BY <2>1, <2>15, Zenon
<1>6. CASE reset
  <2>1. Restarted \subseteq expired /\ \A e, f \in expired : e[2] = f[2] => e = f
    BY OwnerSets, Zenon DEF Restarted
  <2> DEFINE again == {e[2] : e \in Restarted}
             gone == {e[2] : e \in expired \ Restarted}
  <2>2. Batch = again \cup gone /\ again \cap gone = {}
    BY <2>1, Zenon DEF Batch
  <2>3. /\ timers_' = timers_ \cup {EntryOf(heap', a) : a \in again}
        /\ activeTimers_' = activeTimers_ \cup {ActiveOf(heap', a) : a \in again}
        /\ expired' = {} /\ pendingFunctors_' = pendingFunctors_
    BY <1>6, ResetEffect
  <2>4. /\ DOMAIN heap' = DOMAIN heap \ gone
        /\ \A a \in DOMAIN heap : a \notin Batch => heap'[a] = heap[a]
    BY <1>6, ResetHeap, Zenon DEF Batch
  <2> HIDE DEF again, gone
  <2>5. Held' = Held \cup again /\ Batch' = {}
    <3>1. \A a : EntryOf(heap', a)[2] = a
      BY Zenon DEF EntryOf
    <3>2. Held' = Held \cup again
      BY <2>3, <3>1 DEF Held
    <3> QED
      BY <2>3, <3>2, Zenon DEF Batch
  <2>6. \A b \in Held : heap'[b] = heap[b]
    BY <2>4, OwnerSets, Zenon
  <2>7. \A e \in timers_ : e = EntryOf(heap', e[2])
    BY <2>6, OwnerSets, Zenon DEF EntryOf, Held
  <2>8. \A e \in timers_' \cup expired' : e = EntryOf(heap', e[2])
    BY <2>3, <2>7 DEF EntryOf
  <2>9. \A b \in Held : ActiveOf(heap', b) = ActiveOf(heap, b)
    BY <2>6, Zenon DEF ActiveOf
  <2>10. activeTimers_' = {ActiveOf(heap', b) : b \in Held'}
    BY <2>3, <2>5, <2>9, OwnerSets, Zenon
  <2>11. QueuedAdds' = QueuedAdds
    BY <2>3, Zenon DEF QueuedAdds
  <2>12. QueuedAddrs' = QueuedAddrs /\ DistinctAdds'
    BY <2>3, <2>11, OwnerSets, Zenon DEF QueuedAddrs, DistinctAdds
  <2>13. /\ DOMAIN heap' = QueuedAddrs' \cup Held' \cup Batch'
         /\ QueuedAddrs' \cap Held' = {} /\ Batch' \cap (QueuedAddrs' \cup Held') = {}
    BY <2>2, <2>4, <2>5, <2>12, OwnerSets, Zenon
  <2>14. OneOwner'
    BY <2>8, <2>10, <2>12, <2>13, Zenon DEF OneOwner, Held, Batch, DistinctAdds
  <2> QED
    BY <2>3, <2>14, Zenon
<1>7. CASE RunFunctor
  <2> DEFINE f == Head(pendingFunctors_)
  <2>1. /\ pendingFunctors_ # <<>> /\ pendingFunctors_' = Tail(pendingFunctors_)
        /\ UNCHANGED <<expired, callingExpiredTimers_>>
    BY <1>7, Zenon DEF RunFunctor, batchVars
  <2>2. DistinctAdds
    BY OwnerSets, Zenon
  <2>3. CASE f.op = "addTimerInLoop"
    <3>1. addTimerInLoop(heap, f.timer) /\ heap' = heap
      BY <1>7, <2>3, Zenon DEF RunFunctor
    <3>2. /\ DistinctAdds' /\ f.timer \in QueuedAddrs
          /\ QueuedAddrs' = QueuedAddrs \ {f.timer}
      BY <2>1, <2>2, <2>3, QueueTail, Zenon
    <3> HIDE DEF f
    <3>3. addTimerInLoop(heap', f.timer)
      BY <3>1, Zenon DEF addTimerInLoop
    <3>4. OneOwner'
      <4> DEFINE others == QueuedAddrs \ {f.timer}
      <4>1. /\ f.timer \notin others \cup Held \cup Batch
            /\ DOMAIN heap' = others \cup Held \cup Batch \cup {f.timer}
            /\ others \cap Held = {} /\ Batch \cap others = {}
        BY <3>1, <3>2, OwnerSets, Zenon
      <4> HIDE DEF others
      <4>2. QueuedAddrs' = others
        BY <3>2, Zenon DEF others
      <4> QED
        BY <2>1, <3>1, <3>2, <3>3, <4>1, <4>2, AddOwners, Zenon
    <3> QED
      BY <2>1, <3>4, Zenon
  <2>4. CASE f.op = "cancelInLoop"
    <3>1. cancelInLoop(f.id)
      BY <1>7, <2>4, Zenon DEF RunFunctor
    <3>2. DistinctAdds' /\ QueuedAddrs' = QueuedAddrs /\ f \in Functor
      BY <2>1, <2>2, <2>4, QueueTail, Zenon
    <3>3. f.id \in ActiveTimer
      BY <2>4, <3>2, Zenon DEF Functor
    <3>4. OneOwner'
      BY <2>1, <3>1, <3>2, <3>3, CancelOwners, Zenon
    <3> QED
      BY <2>1, <3>4, Zenon
  <2> QED
    BY <1>7, <2>3, <2>4, Zenon DEF RunFunctor
<1>8. ASSUME NEW a \in Addrs, NEW when \in Times, NEW interval \in Intervals,
             addTimerIO(a, when, interval)
      PROVE  OneOwner' /\ BatchWhileCalling'
  <2>1. /\ heap' = NewTimer(a, when, interval) /\ a \in Addrs \ DOMAIN heap
        /\ s_numCreated_ < MaxTimers
        /\ addTimerInLoop(NewTimer(a, when, interval), a)
        /\ UNCHANGED <<expired, callingExpiredTimers_, pendingFunctors_>>
    BY <1>8, Zenon DEF addTimerIO, batchVars
  <2>2. DOMAIN heap' = DOMAIN heap \cup {a} /\ \A b \in DOMAIN heap : heap'[b] = heap[b]
    BY <2>1, NewTimerAdds
  <2>3. addTimerInLoop(heap', a)
    BY <2>1, Zenon
  <2>4. QueuedAdds' = QueuedAdds
    BY <2>1, Zenon DEF QueuedAdds
  <2>5. QueuedAddrs' = QueuedAddrs /\ DistinctAdds'
    BY <2>1, <2>4, OwnerSets, Zenon DEF QueuedAddrs, DistinctAdds
  <2>6. /\ a \notin QueuedAddrs \cup Held \cup Batch
        /\ DOMAIN heap' = QueuedAddrs \cup Held \cup Batch \cup {a}
        /\ QueuedAddrs \cap Held = {} /\ Batch \cap QueuedAddrs = {}
        /\ \A b \in Held \cup Batch : heap'[b] = heap[b]
    BY <2>1, <2>2, OwnerSets, Zenon
  <2>7. OneOwner'
    <3> DEFINE others == QueuedAddrs
    <3> HIDE DEF others
    <3> QED
      BY <2>1, <2>3, <2>5, <2>6, AddOwners, Zenon DEF others
  <2> QED
    BY <2>1, <2>7, Zenon
<1>9. ASSUME NEW a \in Addrs, NEW when \in Times, NEW interval \in Intervals,
             NEW t \in Others, addTimer(t, a, when, interval)
      PROVE  OneOwner' /\ BatchWhileCalling'
  <2> DEFINE f == [op |-> "addTimerInLoop", timer |-> a]
  <2>1. /\ a \in Addrs \ DOMAIN heap
        /\ pendingFunctors_' = Append(pendingFunctors_, f)
        /\ UNCHANGED <<expired, callingExpiredTimers_, timers_, activeTimers_>>
    BY <1>9, Zenon DEF addTimer, batchVars
  <2>2. DOMAIN heap' = DOMAIN heap \cup {a} /\ \A b \in DOMAIN heap : heap'[b] = heap[b]
    <3>1. /\ heap' = NewTimer(a, when, interval) /\ a \in Addrs \ DOMAIN heap
          /\ s_numCreated_ < MaxTimers
      BY <1>9, Zenon DEF addTimer
    <3> HIDE DEF f
    <3> QED
      BY <3>1, NewTimerAdds
  <2>3. f \in Functor /\ f.op = "addTimerInLoop" /\ f.timer = a
    BY Zenon DEF Functor
  <2> HIDE DEF f
  <2>4. a \notin QueuedAddrs \cup Held \cup Batch /\ DistinctAdds
    BY <2>1, OwnerSets, Zenon
  <2>5. QueuedAddrs' = QueuedAddrs \cup {a} /\ DistinctAdds'
    BY <2>1, <2>3, <2>4, QueueAppend, Zenon
  <2>6. Held' = Held /\ Batch' = Batch
    BY <2>1, Zenon DEF Held, Batch
  <2>7. \A b \in Held \cup Batch : heap'[b] = heap[b]
    BY <2>2, OwnerSets, Zenon
  <2>8. \A e \in timers_' \cup expired' : e = EntryOf(heap', e[2])
    BY <2>1, <2>7, OwnerSets DEF EntryOf, Held, Batch
  <2>9. \A b \in Held : ActiveOf(heap', b) = ActiveOf(heap, b)
    BY <2>7, Zenon DEF ActiveOf
  <2>10. activeTimers_' = {ActiveOf(heap', b) : b \in Held'}
    BY <2>1, <2>6, <2>9, OwnerSets, Zenon
  <2>11. /\ DOMAIN heap' = QueuedAddrs' \cup Held' \cup Batch'
         /\ QueuedAddrs' \cap Held' = {} /\ Batch' \cap (QueuedAddrs' \cup Held') = {}
    BY <2>2, <2>4, <2>5, <2>6, OwnerSets, SMTT(30)
  <2>12. OneOwner'
    BY <2>5, <2>8, <2>10, <2>11, Zenon DEF OneOwner, Held, Batch, DistinctAdds
  <2> QED
    BY <2>1, <2>12, Zenon
<1>10. ASSUME NEW id \in ids, cancelIO(id) PROVE OneOwner' /\ BatchWhileCalling'
  <2>1. /\ id \in ActiveTimer /\ cancelInLoop(id)
        /\ UNCHANGED <<expired, callingExpiredTimers_, pendingFunctors_>>
    BY <1>10, Zenon DEF cancelIO, batchVars, TypeOK
  <2>2. QueuedAdds' = QueuedAdds
    BY <2>1, Zenon DEF QueuedAdds
  <2>3. QueuedAddrs' = QueuedAddrs /\ DistinctAdds'
    BY <2>1, <2>2, OwnerSets, Zenon DEF QueuedAddrs, DistinctAdds
  <2>4. OneOwner'
    BY <2>1, <2>3, CancelOwners, Zenon
  <2> QED
    BY <2>1, <2>4, Zenon
<1>11. ASSUME NEW id \in ids, NEW t \in Others, cancel(t, id)
       PROVE  OneOwner' /\ BatchWhileCalling'
  <2> DEFINE f == [op |-> "cancelInLoop", id |-> id]
  <2>1. /\ pendingFunctors_' = Append(pendingFunctors_, f) /\ f.op = "cancelInLoop"
    BY <1>11, Zenon DEF cancel
  <2>2. UNCHANGED <<expired, callingExpiredTimers_, timers_, activeTimers_, heap>>
    BY <1>11, Zenon DEF cancel, batchVars, queueVars
  <2>3. f \in Functor
    BY Zenon DEF Functor, TypeOK
  <2> HIDE DEF f
  <2>4. QueuedAddrs' = QueuedAddrs /\ DistinctAdds'
    BY <2>1, <2>3, OwnerSets, QueueAppend, Zenon
  <2>5. Held' = Held /\ Batch' = Batch
    BY <2>2, Zenon DEF Held, Batch
  <2>6. /\ \A e \in timers_' \cup expired' : e = EntryOf(heap', e[2])
        /\ activeTimers_' = {ActiveOf(heap', a) : a \in Held'}
    BY <2>2, <2>5, OwnerSets, Zenon
  <2>7. OneOwner'
    BY <2>2, <2>4, <2>5, <2>6, OwnerSets, Zenon DEF OneOwner, Held, Batch, DistinctAdds
  <2> QED
    BY <2>2, <2>7, Zenon
<1> QED
  BY <1>2, <1>3, <1>4, <1>5, <1>6, <1>7, <1>8, <1>9, <1>10, <1>11, Zenon DEF Next, LoopStep

(* The initial state.                                                      *)
LEMMA InitOwner == Init => TypeOK /\ OneOwner /\ BatchWhileCalling
<1> SUFFICES ASSUME Init PROVE TypeOK /\ OneOwner /\ BatchWhileCalling
  BY Zenon
<1>1. heap = <<>> /\ DOMAIN heap = {} /\ heap \in [DOMAIN heap -> Timer]
  BY DEF Init
<1>2. TypeOK
  <2>1. now \in Timestamps /\ handleNow \in Timestamps /\ fdRemaining \in 0..Horizon
    BY TimeAssumption DEF Init, Timestamps
  <2>2. s_numCreated_ \in 0..MaxTimers /\ steps \in 0..ClockSteps
    BY BoundsAssumption DEF Init
  <2>3. pendingFunctors_ \in Seq(Functor)
    BY DEF Init
  <2> QED
    BY <1>1, <2>1, <2>2, <2>3, Zenon DEF Init, TypeOK
<1>3. QueuedAdds = {} /\ QueuedAddrs = {}
  BY DEF Init, QueuedAdds, QueuedAddrs
<1>4. OneOwner
  BY <1>1, <1>3, Zenon DEF Init, OneOwner
<1> QED
  BY <1>2, <1>4, Zenon DEF Init, BatchWhileCalling

(* TimerQueue never uses or deletes a Timer twice, and no assert of it     *)
(* about the two containers fails: every Timer has exactly one owner,      *)
(* whatever threads add and cancel, and whatever addresses new returns.    *)
THEOREM OwnerTheorem == Spec => [](TypeOK /\ OneOwner /\ BatchWhileCalling)
<1>1. TypeOK /\ OneOwner /\ BatchWhileCalling /\ [Next]_vars
        => TypeOK' /\ OneOwner' /\ BatchWhileCalling'
  BY TypeInductive, OwnerInductive, Zenon
<1> QED
  BY <1>1, InitOwner, PTL DEF Spec

-----------------------------------------------------------------------------
(* A timer leaves the queue when it is due or cancelled (getExpired,       *)
(* cancelInLoop).                                                          *)
LEMMA LeavingStep ==
  ASSUME TypeOK, OneOwner, [Next]_vars, NEW at \in activeTimers_ \ activeTimers_'
  PROVE  at \in cancelled' \/ heap[at[1]].expiration <= now
<1>1. PICK a \in Held : at = ActiveOf(heap, a)
  BY OwnerSets, Zenon
<1>2. at[1] = a /\ a \in DOMAIN heap \ QueuedAddrs
  BY <1>1, OwnerSets, Zenon DEF ActiveOf
<1>3. at \in InLoopIds
  BY <1>1, <1>2, Zenon DEF InLoopIds
<1>4. ASSUME NEW id, cancelInLoop(id) PROVE at \in cancelled'
  BY <1>3, <1>4, Zenon DEF cancelInLoop, queueVars
<1>5. CASE handleRead
  <2>1. PICK e \in getExpired : at = ActiveOf(heap, e[2])
    BY <1>5, Zenon DEF handleRead
  <2>2. e \in timers_ /\ e[1] <= now /\ e[2] = a
    BY <1>2, <2>1, Zenon DEF getExpired, ActiveOf
  <2>3. e[1] = heap[a].expiration
    BY <2>2, OwnerSets, SMTT(30) DEF EntryOf
  <2> QED
    BY <1>2, <2>2, <2>3, Zenon
<1>6. CASE RunFunctor
  BY <1>4, <1>6, Zenon DEF RunFunctor, addTimerInLoop
<1>7. ASSUME NEW id \in ids, cancelIO(id) PROVE at \in cancelled'
  BY <1>4, <1>7, Zenon DEF cancelIO
<1>8. CASE reset
  BY <1>8, ResetEffect, Zenon
<1>9. ASSUME NEW b \in Addrs, NEW when \in Times, NEW interval \in Intervals,
             addTimerIO(b, when, interval)
      PROVE  FALSE
  BY <1>9, Zenon DEF addTimerIO, addTimerInLoop
<1>10. ASSUME UNCHANGED activeTimers_ PROVE FALSE
  BY <1>10, Zenon
<1> QED
  BY <1>5, <1>6, <1>7, <1>8, <1>9, <1>10, Zenon
     DEF Next, LoopStep, Tick, StepClock, PollTimerfd, RunTimer, CallbackReturns, addTimer,
         addTimerReturns, cancel, queueVars, vars

(* No timer is dropped: those that leave the queue are due or cancelled    *)
(* under their own sequence.                                               *)
THEOREM LeavingTheorem == Spec => OnlyDueOrCancelled
<1>1. TypeOK /\ OneOwner /\ [Next]_vars
        => [\A at \in activeTimers_ \ activeTimers_' :
              at \in cancelled' \/ heap[at[1]].expiration <= now]_vars
  BY LeavingStep, Zenon
<1> QED
  BY <1>1, OwnerTheorem, PTL DEF Spec, OnlyDueOrCancelled

-----------------------------------------------------------------------------
(* A cancelled timer does not come back.                                   *)

(* What makes CancelSticks inductive: sequences are not used again, a      *)
(* timer cannot be cancelled before it is in the loop's hands, and         *)
(* handleRead remembers the cancellations of its batch.                    *)
CancelInv ==
  /\ CancelSticks
  /\ \A a \in QueuedAddrs : ActiveOf(heap, a) \notin cancelled
  /\ \A a \in Batch : ActiveOf(heap, a) \in cancelled => ActiveOf(heap, a) \in cancelingTimers_
  /\ \A id \in cancelled : id[2] <= s_numCreated_
  /\ \A a \in DOMAIN heap : heap[a].sequence <= s_numCreated_

(* cancelInLoop preserves CancelInv: a timer that it deletes is held by    *)
(* timers_, so no queued addTimerInLoop and no entry of the batch names    *)
(* it, and a timer of the batch gets into cancelingTimers_.                *)
LEMMA CancelStep ==
  ASSUME TypeOK, OneOwner, BatchWhileCalling, CancelInv, NEW id, cancelInLoop(id),
         QueuedAddrs' = QueuedAddrs, expired' = expired, s_numCreated_' = s_numCreated_
  PROVE  CancelInv'
<1>1. /\ DOMAIN heap' \subseteq DOMAIN heap
      /\ \A a \in DOMAIN heap' : heap'[a] = heap[a]
      /\ \A a \in QueuedAddrs \cup Batch : a \in DOMAIN heap'
  <2>1. CASE id \in activeTimers_
    <3>1. PICK a \in Held : id = ActiveOf(heap, a)
      BY <2>1, OwnerSets, Zenon
    <3>2. heap' = Delete({a})
      BY <2>1, <3>1, Zenon DEF cancelInLoop, ActiveOf
    <3>3. /\ DOMAIN heap' = DOMAIN heap \ {a}
          /\ \A b \in DOMAIN heap' : heap'[b] = heap[b]
      BY <3>2, DeleteRemoves, Zenon
    <3> QED
      BY <3>1, <3>3, OwnerSets, Zenon
  <2>2. CASE id \notin activeTimers_
    BY <2>2, OwnerSets, Zenon DEF cancelInLoop, queueVars
  <2> QED
    BY <2>1, <2>2, Zenon
<1>2. Batch' = Batch
  BY Zenon DEF Batch
<1>3. cancelled' = cancelled \cup ({id} \cap InLoopIds)
  BY Zenon DEF cancelInLoop
<1>4. \A a \in QueuedAddrs \cup Batch : ActiveOf(heap', a) = ActiveOf(heap, a)
  BY <1>1, Zenon DEF ActiveOf
<1>5. CancelSticks'
  <2>1. CASE id \in activeTimers_
    BY <1>3, <2>1, Zenon DEF cancelInLoop, CancelInv, CancelSticks
  <2>2. CASE id \notin activeTimers_
    BY <1>3, <2>2, Zenon DEF cancelInLoop, queueVars, CancelInv, CancelSticks
  <2> QED
    BY <2>1, <2>2, Zenon
<1>6. \A a \in QueuedAddrs' : ActiveOf(heap', a) \notin cancelled'
  <2> SUFFICES ASSUME NEW a \in QueuedAddrs PROVE ActiveOf(heap, a) \notin cancelled'
    BY <1>4, Zenon
  <2>1. ActiveOf(heap, a) \notin InLoopIds
    BY Zenon DEF InLoopIds, ActiveOf
  <2> QED
    BY <1>3, <2>1, Zenon DEF CancelInv
<1>7. \A a \in Batch' : ActiveOf(heap', a) \in cancelled' => ActiveOf(heap', a) \in cancelingTimers_'
  <2> SUFFICES ASSUME NEW a \in Batch, ActiveOf(heap, a) \in cancelled'
               PROVE  ActiveOf(heap, a) \in cancelingTimers_'
    BY <1>2, <1>4, Zenon
  <2>1. cancelingTimers_ \subseteq cancelingTimers_'
    BY Zenon DEF cancelInLoop
  <2>2. CASE ActiveOf(heap, a) \in cancelled
    BY <2>1, <2>2, Zenon DEF CancelInv
  <2>3. CASE ActiveOf(heap, a) = id
    <3>1. id \notin activeTimers_
      BY <2>3, OwnerSets, Zenon DEF ActiveOf
    <3>2. callingExpiredTimers_
      BY Zenon DEF BatchWhileCalling, Batch
    <3> QED
      BY <2>3, <3>1, <3>2, Zenon DEF cancelInLoop
  <2> QED
    BY <1>3, <2>2, <2>3, Zenon
<1>8. \A i \in cancelled' : i[2] <= s_numCreated_'
  BY <1>3 DEF CancelInv, InLoopIds, ActiveOf
<1>9. \A a \in DOMAIN heap' : heap'[a].sequence <= s_numCreated_'
  BY <1>1, Zenon DEF CancelInv
<1> QED
  BY <1>5, <1>6, <1>7, <1>8, <1>9, Zenon DEF CancelInv

(* Every step preserves CancelInv.  The one that matters is reset, which   *)
(* restarts only timers that are not in cancelingTimers_.                  *)
LEMMA CancelInductive ==
  TypeOK /\ OneOwner /\ BatchWhileCalling /\ CancelInv /\ [Next]_vars => CancelInv'
<1> SUFFICES ASSUME TypeOK, OneOwner, BatchWhileCalling, CancelInv, [Next]_vars
             PROVE  CancelInv'
  BY Zenon
<1>0. OneOwner'
  BY OwnerInductive, Zenon
<1>1. ASSUME UNCHANGED <<queueVars, expired, QueuedAddrs, cancelled, cancelingTimers_, s_numCreated_>>
      PROVE  CancelInv'
  BY <1>1, Zenon DEF CancelInv, CancelSticks, queueVars, Batch, ActiveOf
<1>2. pendingFunctors_' = pendingFunctors_ => QueuedAddrs' = QueuedAddrs
  <2>1. pendingFunctors_' = pendingFunctors_ => QueuedAdds' = QueuedAdds
    BY Zenon DEF QueuedAdds
  <2> QED
    BY <2>1, Zenon DEF QueuedAddrs
<1>3. CASE Tick \/ StepClock \/ PollTimerfd \/ CallbackReturns \/ UNCHANGED vars
  BY <1>1, <1>2, <1>3, Zenon DEF Tick, StepClock, PollTimerfd, CallbackReturns,
     batchVars, vars
<1>4. ASSUME NEW e \in toRun, RunTimer(e) PROVE CancelInv'
  BY <1>1, <1>2, <1>4, Zenon DEF RunTimer
<1>5. ASSUME NEW t \in Others, addTimerReturns(t) PROVE CancelInv'
  BY <1>1, <1>2, <1>5, Zenon DEF addTimerReturns, batchVars
<1>6. ASSUME NEW id \in ids, NEW t \in Others, cancel(t, id) PROVE CancelInv'
  <2> DEFINE f == [op |-> "cancelInLoop", id |-> id]
  <2>1. f \in Functor /\ f.op = "cancelInLoop"
    BY Zenon DEF Functor, TypeOK
  <2>2. pendingFunctors_' = Append(pendingFunctors_, f)
    BY <1>6, Zenon DEF cancel
  <2> HIDE DEF f
  <2>3. QueuedAddrs' = QueuedAddrs
    BY <2>1, <2>2, QueueAppend, OwnerSets, Zenon
  <2> QED
    BY <1>1, <1>6, <2>3, Zenon DEF cancel, batchVars
<1>7. ASSUME NEW id \in ids, cancelIO(id) PROVE CancelInv'
  BY <1>2, <1>7, CancelStep, Zenon DEF cancelIO, batchVars
<1>8. CASE handleRead
  <2>1. /\ heap' = heap /\ s_numCreated_' = s_numCreated_ /\ cancelled' = cancelled
        /\ activeTimers_' \subseteq activeTimers_ /\ expired' = getExpired
        /\ QueuedAddrs' = QueuedAddrs
    BY <1>2, <1>8, Zenon DEF handleRead
  <2>2. \A a \in Batch' : ActiveOf(heap, a) \in activeTimers_
    BY <2>1, OwnerSets, ZenonT(60) DEF Batch, Held, getExpired
  <2>3. \A a \in Batch' : ActiveOf(heap', a) \notin cancelled'
    BY <2>1, <2>2, Zenon DEF CancelInv, CancelSticks, ActiveOf
  <2> QED
    BY <2>1, <2>3, Zenon DEF CancelInv, CancelSticks, ActiveOf
<1>9. CASE reset
  <2>1. /\ s_numCreated_' = s_numCreated_ /\ cancelled' = cancelled
        /\ activeTimers_' = activeTimers_ \cup {ActiveOf(heap', e[2]) : e \in Restarted}
        /\ expired' = {} /\ QueuedAddrs' = QueuedAddrs
    BY <1>2, <1>9, ResetEffect, Zenon
  <2>2. \A e \in Restarted : /\ e[2] \in Batch /\ e[2] \in DOMAIN heap'
                             /\ ActiveOf(heap', e[2]) = ActiveOf(heap, e[2])
                             /\ ActiveOf(heap, e[2]) \notin cancelingTimers_
    BY <1>9, ResetHeap, Zenon DEF Restarted, Batch, ActiveOf
  <2>3. CancelSticks'
    BY <2>1, <2>2, Zenon DEF CancelInv, CancelSticks
  <2>4. \A a \in QueuedAddrs : heap'[a] = heap[a] /\ a \in DOMAIN heap'
    BY <1>0, <1>9, <2>1, ResetHeap, OwnerSets, Zenon DEF Batch, OneOwner
  <2>5. \A a \in DOMAIN heap' : heap'[a].sequence = heap[a].sequence /\ a \in DOMAIN heap
    BY <1>9, ResetHeap
  <2>6. Batch' = {}
    BY <2>1, Zenon DEF Batch
  <2> QED
    BY <2>1, <2>3, <2>4, <2>5, <2>6, Zenon DEF CancelInv, ActiveOf
<1>10. CASE RunFunctor
  <2> DEFINE f == Head(pendingFunctors_)
  <2>1. /\ pendingFunctors_ # <<>> /\ pendingFunctors_' = Tail(pendingFunctors_)
        /\ UNCHANGED <<expired, callingExpiredTimers_, s_numCreated_>>
    BY <1>10, Zenon DEF RunFunctor, batchVars
  <2>2. CASE f.op = "addTimerInLoop"
    <3>1. /\ addTimerInLoop(heap, f.timer)
          /\ UNCHANGED <<heap, cancelingTimers_, cancelled>>
      BY <1>10, <2>2, ZenonT(30) DEF RunFunctor
    <3>2. f.timer \in QueuedAddrs /\ QueuedAddrs' = QueuedAddrs \ {f.timer}
      BY <2>1, <2>2, QueueTail, OwnerSets, Zenon
    <3> HIDE DEF f
    <3>3. CancelSticks'
      BY <3>1, <3>2, Zenon DEF addTimerInLoop, CancelInv, CancelSticks
    <3> QED
      BY <2>1, <3>1, <3>2, <3>3, Zenon DEF CancelInv, Batch, ActiveOf
  <2>3. CASE f.op = "cancelInLoop"
    <3>1. cancelInLoop(f.id)
      BY <1>10, <2>3, Zenon DEF RunFunctor
    <3>2. QueuedAddrs' = QueuedAddrs
      BY <2>1, <2>3, QueueTail, OwnerSets, Zenon
    <3> QED
      BY <2>1, <3>1, <3>2, CancelStep, Zenon
  <2> QED
    BY <1>10, <2>2, <2>3, Zenon DEF RunFunctor
<1>11. ASSUME NEW a \in Addrs, NEW when \in Times, NEW interval \in Intervals,
              NEW h, h = NewTimer(a, when, interval), heap' = h,
              s_numCreated_ < MaxTimers, a \notin DOMAIN heap,
              s_numCreated_' = s_numCreated_ + 1,
              UNCHANGED <<expired, cancelingTimers_, cancelled>>,
              QueuedAddrs' \subseteq QueuedAddrs \cup {a},
              activeTimers_' \subseteq activeTimers_ \cup {ActiveOf(h, a)}
       PROVE  CancelInv'
  <2>1. /\ DOMAIN h = DOMAIN heap \cup {a}
        /\ h[a].sequence = s_numCreated_ + 1
        /\ \A b \in DOMAIN heap : h[b] = heap[b]
    BY <1>11, NewTimerAdds
  <2>2. s_numCreated_ \in Nat
    BY BoundsAssumption DEF TypeOK
  <2>3. ActiveOf(h, a) \notin cancelled
    BY <2>1, <2>2 DEF CancelInv, ActiveOf
  <2>4. \A b \in DOMAIN heap : ActiveOf(h, b) = ActiveOf(heap, b)
    BY <2>1, Zenon DEF ActiveOf
  <2>5. CancelSticks'
    BY <1>11, <2>3, Zenon DEF CancelInv, CancelSticks
  <2>6. \A b \in QueuedAddrs' : ActiveOf(heap', b) \notin cancelled'
    BY <1>11, <2>3, <2>4, OwnerSets, Zenon DEF CancelInv
  <2>7. Batch' = Batch
    BY <1>11, Zenon DEF Batch
  <2>8. \A b \in Batch' : ActiveOf(heap', b) \in cancelled' => ActiveOf(heap', b) \in cancelingTimers_'
    BY <1>11, <2>4, <2>7, OwnerSets, Zenon DEF CancelInv
  <2>9. \A b \in DOMAIN heap : heap[b].sequence \in Nat
    BY BoundsAssumption DEF TypeOK, Timer, Sequences_
  <2>10. \A b \in DOMAIN heap' : heap'[b].sequence <= s_numCreated_'
    <3>1. heap' = h /\ s_numCreated_' = s_numCreated_ + 1
      BY <1>11, Zenon
    <3>2. \A b \in DOMAIN heap : heap[b].sequence <= s_numCreated_
      BY Zenon DEF CancelInv
    <3>3. ASSUME NEW b \in DOMAIN heap PROVE h[b].sequence <= s_numCreated_ + 1
      BY <2>1, <2>2, <2>9, <3>2, SMTT(30)
    <3>4. h[a].sequence <= s_numCreated_ + 1
      <4>1. h[a].sequence = s_numCreated_ + 1
        BY <2>1, Zenon
      <4> QED
        BY <2>2, <4>1
    <3> QED
      BY <2>1, <3>1, <3>3, <3>4, Zenon
  <2>11. \A id \in cancelled : id[2] \in Nat
    BY BoundsAssumption DEF TypeOK, ActiveTimer, Sequences_
  <2>12. \A id \in cancelled' : id[2] <= s_numCreated_'
    <3>1. cancelled' = cancelled /\ s_numCreated_' = s_numCreated_ + 1
      BY <1>11, Zenon
    <3>2. \A id \in cancelled : id[2] <= s_numCreated_
      BY Zenon DEF CancelInv
    <3>3. ASSUME NEW id \in cancelled PROVE id[2] <= s_numCreated_ + 1
      BY <2>2, <2>11, <3>2, SMTT(30)
    <3> QED
      BY <3>1, <3>3, Zenon
  <2> QED
    BY <2>5, <2>6, <2>8, <2>10, <2>12, Zenon DEF CancelInv
<1>12. ASSUME NEW a \in Addrs, NEW when \in Times, NEW interval \in Intervals,
              addTimerIO(a, when, interval)
       PROVE  CancelInv'
  BY <1>2, <1>11, <1>12, ZenonT(30) DEF addTimerIO, addTimerInLoop, batchVars
<1>13. ASSUME NEW a \in Addrs, NEW when \in Times, NEW interval \in Intervals,
              NEW t \in Others, addTimer(t, a, when, interval)
       PROVE  CancelInv'
  <2> DEFINE f == [op |-> "addTimerInLoop", timer |-> a]
  <2>1. f \in Functor /\ f.op = "addTimerInLoop" /\ f.timer = a
    BY Zenon DEF Functor
  <2>2. pendingFunctors_' = Append(pendingFunctors_, f)
    BY <1>13, Zenon DEF addTimer
  <2> HIDE DEF f
  <2>3. a \notin QueuedAddrs
    BY <1>13, OwnerSets, Zenon DEF addTimer
  <2>4. QueuedAddrs' = QueuedAddrs \cup {a}
    BY <2>1, <2>2, <2>3, QueueAppend, OwnerSets, Zenon
  <2> QED
    BY <1>11, <1>13, <2>4, Zenon DEF addTimer, batchVars
<1> QED
  BY <1>3, <1>4, <1>5, <1>6, <1>7, <1>8, <1>9, <1>10, <1>12, <1>13, Zenon DEF Next, LoopStep

(* A timer that was cancelled in the loop is never queued again, by        *)
(* whatever thread and at whatever moment of handleRead it was cancelled.  *)
THEOREM CancelTheorem == Spec => []CancelSticks
<1>1. Init => CancelInv
  BY SMTT(30) DEF Init, CancelInv, CancelSticks, QueuedAdds, QueuedAddrs, Batch
<1>2. CancelInv => CancelSticks
  BY Zenon DEF CancelInv
<1> QED
  BY <1>1, <1>2, CancelInductive, OwnerTheorem, PTL DEF Spec

-----------------------------------------------------------------------------
(* An alarm is pending.                                                    *)

Alarm == fdRemaining > 0 \/ fdReadable \/ timerfdActive

(* What makes AlarmPending inductive: reset arms the timerfd for a valid   *)
(* expiration only, and a timer whose expiration is Timestamp::invalid(),  *)
(* added by a callback, has armed it itself.                               *)
AlarmInv == AlarmPending /\ (Alarm \/ \A e \in timers_ : e[1] # 0)

(* Arming the timerfd leaves an alarm, because delays are never 0.         *)
LEMMA Armed ==
  ASSUME TypeOK, NEW when \in Timestamps, resetTimerfd(when)
  PROVE  fdRemaining' > 0
<1>1. howMuchTimeFromNow(when) > 0
  BY TimeAssumption, SMTT(30) DEF TypeOK, howMuchTimeFromNow, Timestamps
<1> QED
  BY <1>1, Zenon DEF resetTimerfd

(* After addTimerInLoop an alarm is pending, if there was for the others.  *)
LEMMA AddAlarm ==
  ASSUME TypeOK, AlarmInv, NEW h, NEW a, h[a] \in Timer, addTimerInLoop(h, a),
         UNCHANGED <<callingExpiredTimers_, timerfdActive>>
  PROVE  AlarmInv'
<1>1. h[a].expiration \in Timestamps
  BY Zenon DEF Timer
<1>2. CASE earliestChanged(h, a)
  <2>1. fdRemaining' > 0
    BY <1>1, <1>2, Armed, Zenon DEF addTimerInLoop
  <2> QED
    BY <2>1, Zenon DEF AlarmInv, AlarmPending, Alarm
<1>3. CASE ~earliestChanged(h, a)
  <2>1. UNCHANGED fdVars /\ timers_' = timers_ \cup {EntryOf(h, a)}
    BY <1>3, Zenon DEF addTimerInLoop
  <2>2. PICK e \in timers_ : ~(h[a].expiration < e[1])
    BY <1>3, Zenon DEF earliestChanged
  <2>3. e[1] \in Nat /\ h[a].expiration \in Nat
    BY <1>1, TimeAssumption DEF TypeOK, Entry, Timestamps
  <2>4. h[a].expiration = 0 => e[1] = 0
    BY <2>2, <2>3
  <2>5. EntryOf(h, a)[1] = h[a].expiration
    BY Zenon DEF EntryOf
  <2>6. Alarm' = Alarm
    BY <2>1, Zenon DEF Alarm, fdVars
  <2>7. Alarm \/ \A g \in timers_' : g[1] # 0
    BY <2>1, <2>4, <2>5, Zenon DEF AlarmInv
  <2>8. ~callingExpiredTimers_ => Alarm
    BY <2>2, Zenon DEF AlarmInv, AlarmPending, Alarm
  <2> QED
    BY <2>6, <2>7, <2>8, Zenon DEF AlarmInv, AlarmPending, Alarm
<1> QED
  BY <1>2, <1>3, Zenon

(* A timer that reset restarts has a valid expiration: an invalid one that *)
(* is in the queue after reset was in it before.                           *)
LEMMA ResetValid ==
  ASSUME TypeOK, OneOwner, reset, NEW f \in timers_', f[1] = 0
  PROVE  f \in timers_
<1>1. \A e \in Restarted : EntryOf(heap', e[2])[1] > 0
  BY ResetHeap, Zenon DEF EntryOf
<1>2. timers_' = timers_ \cup {EntryOf(heap', e[2]) : e \in Restarted}
  BY ResetEffect, Zenon
<1>3. PICK e : f \in timers_ \/ (e \in Restarted /\ f = EntryOf(heap', e[2]))
  BY <1>2, Zenon
<1>4. \A e2 \in Restarted : f # EntryOf(heap', e2[2])
  BY <1>1
<1> QED
  BY <1>3, <1>4, Zenon

(* Every step preserves AlarmInv: who adds the earliest timer, and reset at *)
(* the end of handleRead, set the timerfd to a delay of at least one unit. *)
LEMMA AlarmInductive ==
  TypeOK /\ OneOwner /\ AlarmInv /\ [Next]_vars => AlarmInv'
<1> SUFFICES ASSUME TypeOK, OneOwner, AlarmInv, [Next]_vars PROVE AlarmInv'
  BY Zenon
<1>1. ASSUME timers_' \subseteq timers_, callingExpiredTimers_' = callingExpiredTimers_,
             Alarm => Alarm'
      PROVE  AlarmInv'
  BY <1>1, Zenon DEF AlarmInv, AlarmPending, Alarm
<1>2. ASSUME UNCHANGED <<timers_, callingExpiredTimers_, fdRemaining, fdReadable, timerfdActive>>
      PROVE  AlarmInv'
  BY <1>1, <1>2, Zenon DEF Alarm
<1>3. CASE Tick
  <2>1. fdRemaining \in Nat
    BY TimeAssumption DEF TypeOK
  <2>2. /\ fdReadable \/ fdRemaining = 1 => fdReadable'
        /\ timerfdActive' = timerfdActive
    BY <1>3, Zenon DEF Tick
  <2>3. fdRemaining > 0 /\ fdRemaining # 1 => fdRemaining' > 0
    BY <1>3, <2>1 DEF Tick
  <2>4. Alarm => Alarm'
    BY <2>2, <2>3, Zenon DEF Alarm
  <2> QED
    BY <1>1, <1>3, <2>4, Zenon DEF Tick, queueVars, batchVars
<1>4. CASE StepClock \/ CallbackReturns \/ UNCHANGED vars
  BY <1>2, <1>4, Zenon DEF StepClock, CallbackReturns, queueVars, batchVars, fdVars, vars
<1>5. CASE PollTimerfd
  BY <1>1, <1>5, Zenon DEF PollTimerfd, Alarm, queueVars, batchVars
<1>6. ASSUME NEW e \in toRun, RunTimer(e) PROVE AlarmInv'
  BY <1>2, <1>6, Zenon DEF RunTimer, queueVars, fdVars
<1>7. ASSUME NEW t \in Others, addTimerReturns(t) PROVE AlarmInv'
  BY <1>2, <1>7, Zenon DEF addTimerReturns, queueVars, batchVars, fdVars
<1>8. ASSUME NEW t \in Others, NEW id \in ids, cancel(t, id) PROVE AlarmInv'
  BY <1>2, <1>8, Zenon DEF cancel, queueVars, batchVars, fdVars
<1>9. ASSUME NEW t \in Others, NEW a \in Addrs, NEW when \in Times, NEW interval \in Intervals,
             addTimer(t, a, when, interval)
      PROVE  AlarmInv'
  BY <1>2, <1>9, Zenon DEF addTimer, batchVars, fdVars
<1>10. ASSUME NEW id, cancelInLoop(id) PROVE timers_' \subseteq timers_
  BY <1>10, Zenon DEF cancelInLoop, queueVars
<1>11. ASSUME NEW id \in ids, cancelIO(id) PROVE AlarmInv'
  BY <1>1, <1>10, <1>11, Zenon DEF cancelIO, batchVars, fdVars, Alarm
<1>12. CASE RunFunctor
  <2> DEFINE f == Head(pendingFunctors_)
  <2>1. UNCHANGED <<callingExpiredTimers_, timerfdActive>>
    BY <1>12, Zenon DEF RunFunctor, batchVars
  <2>2. CASE f.op = "addTimerInLoop"
    <3>1. addTimerInLoop(heap, f.timer) /\ pendingFunctors_ # <<>>
      BY <1>12, <2>2, Zenon DEF RunFunctor
    <3>2. f = pendingFunctors_[1] /\ 1 \in DOMAIN pendingFunctors_
      BY <3>1, TailShifts, SMTT(30) DEF TypeOK
    <3>3. f.timer \in DOMAIN heap
      BY <2>2, <3>2, Zenon DEF OneOwner, QueuedAddrs, QueuedAdds
    <3>4. heap[f.timer] \in Timer
      BY <3>3, Zenon DEF TypeOK
    <3> QED
      BY <2>1, <3>1, <3>4, AddAlarm, Zenon
  <2>3. CASE f.op = "cancelInLoop"
    <3>1. cancelInLoop(f.id) /\ UNCHANGED fdVars
      BY <1>12, <2>3, Zenon DEF RunFunctor
    <3> QED
      BY <1>1, <1>10, <2>1, <3>1, Zenon DEF fdVars, Alarm
  <2> QED
    BY <1>12, <2>2, <2>3, Zenon DEF RunFunctor
<1>13. ASSUME NEW a \in Addrs, NEW when \in Times, NEW interval \in Intervals,
              addTimerIO(a, when, interval)
       PROVE  AlarmInv'
  <2> DEFINE h == NewTimer(a, when, interval)
  <2>1. DOMAIN h = DOMAIN heap \cup {a} /\ h \in [DOMAIN h -> Timer]
    BY <1>13, NewTimerAdds, Zenon DEF addTimerIO
  <2>2. addTimerInLoop(h, a) /\ UNCHANGED <<callingExpiredTimers_, timerfdActive>>
    BY <1>13, Zenon DEF addTimerIO, batchVars
  <2> HIDE DEF h
  <2>3. h[a] \in Timer
    BY <2>1, Zenon
  <2> QED
    BY <2>2, <2>3, AddAlarm, Zenon
<1>14. CASE handleRead
  <2>1. callingExpiredTimers_' /\ timers_' = timers_ \ getExpired
    BY <1>14, Zenon DEF handleRead
  <2>2. 0 <= now
    BY TimeAssumption DEF TypeOK, Timestamps
  <2>3. \A e \in timers_' : e[1] # 0
    BY <2>1, <2>2, Zenon DEF getExpired
  <2> QED
    BY <2>1, <2>3, Zenon DEF AlarmInv, AlarmPending
<1>15. CASE reset
  <2>1. timers_' \subseteq Entry
    BY <1>15, TypeInductive, Zenon DEF TypeOK
  <2>2. CASE \E e \in timers_' : resetTimerfd(e[1])
    <3>1. fdRemaining' > 0
      BY <2>1, <2>2, Armed, Zenon DEF Entry
    <3> QED
      BY <3>1, Zenon DEF AlarmInv, AlarmPending, Alarm
  <2>3. CASE (\A e \in timers_' : \E f \in timers_' : f[1] = 0) /\ UNCHANGED fdVars
    <3>1. ASSUME NEW f \in timers_', f[1] = 0 PROVE f \in timers_
      BY <1>15, <3>1, ResetValid, Zenon
    <3>2. timers_' # {} => Alarm
      BY <2>3, <3>1, Zenon DEF AlarmInv
    <3>3. Alarm' = Alarm
      BY <1>15, <2>3, ResetEffect DEF Alarm, fdVars
    <3> QED
      BY <3>2, <3>3, Zenon DEF AlarmInv, AlarmPending, Alarm
  <2> QED
    BY <1>15, <2>2, <2>3, ResetEffect, Zenon
<1> QED
  BY <1>3, <1>4, <1>5, <1>6, <1>7, <1>8, <1>9, <1>11, <1>12, <1>13, <1>14, <1>15, Zenon
     DEF Next, LoopStep

(* Whenever timers wait and handleRead is not at work, the timerfd is      *)
(* armed or its alarm will be handled, whatever jumps the wall clock makes *)
(* (addTimerInLoop, reset, howMuchTimeFromNow).                            *)
THEOREM AlarmTheorem == Spec => []AlarmPending
<1>1. Init => AlarmInv
  BY Zenon DEF Init, AlarmInv, AlarmPending
<1>2. AlarmInv => AlarmPending
  BY Zenon DEF AlarmInv
<1> QED
  BY <1>1, <1>2, AlarmInductive, OwnerTheorem, PTL DEF Spec

-----------------------------------------------------------------------------
(* The alarm is in time.                                                   *)

(* While handleRead is at work, a timer with the invalid expiration 0 has  *)
(* been added by one of its callbacks, and the timerfd goes off within one *)
(* unit or has done so: reset leaves the timerfd alone in that case.       *)
InvalidArmed ==
  callingExpiredTimers_ => \A e \in timers_ : e[1] = 0 => fdRemaining <= 1

InTimeInv == AlarmInTime /\ InvalidArmed

(* howMuchTimeFromNow is positive, grows with the expiration, and is the   *)
(* smallest delay for an expiration that is due.                           *)
LEMMA DelayGrows ==
  ASSUME TypeOK
  PROVE  /\ \A w \in Timestamps : howMuchTimeFromNow(w) \in Nat \ {0}
         /\ \A v, w \in Timestamps :
              v <= w => howMuchTimeFromNow(v) <= howMuchTimeFromNow(w)
         /\ howMuchTimeFromNow(0) = 1
  BY TimeAssumption, SMTT(30) DEF TypeOK, howMuchTimeFromNow, Timestamps

(* The state that the two invariants talk about, with its types.           *)
LEMMA InTimeTypes ==
  ASSUME TypeOK
  PROVE  /\ \A e \in timers_ : e[1] \in Timestamps /\ e[1] \in Nat
         /\ fdRemaining \in Nat /\ steps \in Nat
         /\ callingExpiredTimers_ \in BOOLEAN /\ fdReadable \in BOOLEAN
         /\ timerfdActive \in BOOLEAN
  BY TimeAssumption, BoundsAssumption DEF TypeOK, Entry, Timestamps

(* addTimerInLoop sets the timerfd when the new timer is the earliest, and *)
(* otherwise the alarm for an earlier timer is early enough for it too.    *)
LEMMA AddInTime ==
  ASSUME TypeOK, InTimeInv, NEW h, NEW a, h[a] \in Timer, addTimerInLoop(h, a),
         UNCHANGED <<callingExpiredTimers_, timerfdActive, now, steps>>
  PROVE  InTimeInv'
<1> DEFINE x == h[a].expiration
<1>1. x \in Timestamps /\ x \in Nat
  BY TimeAssumption DEF Timer, Timestamps
<1>2. timers_' = timers_ \cup {EntryOf(h, a)} /\ EntryOf(h, a)[1] = x
  BY Zenon DEF addTimerInLoop, EntryOf
<1>3. ASSUME NEW w PROVE howMuchTimeFromNow(w)' = howMuchTimeFromNow(w)
  BY Zenon DEF howMuchTimeFromNow
<1> HIDE DEF x
<1>4. CASE earliestChanged(h, a)
  <2>1. fdRemaining' = howMuchTimeFromNow(x)
    BY <1>4, Zenon DEF addTimerInLoop, resetTimerfd, x
  <2>2. \A e \in timers_' : e[1] \in Timestamps /\ x <= e[1]
    BY <1>1, <1>2, <1>4, InTimeTypes DEF earliestChanged, x
  <2>3. \A e \in timers_' : fdRemaining' <= howMuchTimeFromNow(e[1])
    BY <1>1, <2>1, <2>2, DelayGrows, Zenon
  <2>4. \A e \in timers_' : e[1] = 0 => fdRemaining' <= 1
    BY <2>3, DelayGrows, Zenon
  <2> QED
    BY <1>3, <2>3, <2>4, Zenon DEF InTimeInv, AlarmInTime, InvalidArmed
<1>5. CASE ~earliestChanged(h, a)
  <2>1. fdRemaining' = fdRemaining /\ fdReadable' = fdReadable
    BY <1>5, Zenon DEF addTimerInLoop, fdVars
  <2>2. PICK f \in timers_ : ~(x < f[1])
    BY <1>5, Zenon DEF earliestChanged, x
  <2>3. f[1] <= x /\ f[1] \in Timestamps /\ f[1] \in Nat
    BY <1>1, <2>2, InTimeTypes
  <2>4. ASSUME \A e \in timers_ : fdRemaining <= howMuchTimeFromNow(e[1]),
               NEW e \in timers_'
        PROVE  fdRemaining' <= howMuchTimeFromNow(e[1])'
    <3>1. howMuchTimeFromNow(f[1]) <= howMuchTimeFromNow(x)
      BY <1>1, <2>3, DelayGrows, Zenon
    <3>2. fdRemaining <= howMuchTimeFromNow(x)
      BY <1>1, <2>2, <2>3, <2>4, <3>1, DelayGrows, InTimeTypes
    <3> QED
      BY <1>2, <1>3, <2>1, <2>4, <3>2, Zenon
  <2>5. AlarmInTime'
    BY <2>1, <2>4, Zenon DEF InTimeInv, AlarmInTime
  <2>6. ASSUME callingExpiredTimers_, NEW e \in timers_', e[1] = 0
        PROVE  fdRemaining' <= 1
    <3>1. e \in timers_ \/ f[1] = 0
      BY <1>1, <1>2, <2>3, <2>6
    <3> QED
      BY <2>1, <2>2, <2>6, <3>1, Zenon DEF InTimeInv, InvalidArmed
  <2> QED
    BY <2>5, <2>6, Zenon DEF InTimeInv, InvalidArmed
<1> QED
  BY <1>4, <1>5, Zenon

(* One unit of time brings the alarm and every expiration nearer alike.    *)
LEMMA TickInTime ==
  ASSUME TypeOK, InTimeInv, Tick
  PROVE  InTimeInv'
<1>1. UNCHANGED <<timers_, callingExpiredTimers_, timerfdActive, steps>>
  BY Zenon DEF Tick, queueVars, batchVars
<1>2. fdRemaining' = IF fdRemaining = 0 THEN 0 ELSE fdRemaining - 1
  BY Zenon DEF Tick
<1>3. fdReadable \/ fdRemaining = 1 => fdReadable'
  BY Zenon DEF Tick
<1>4. now \in Nat /\ now' \in Nat /\ now' <= now + 1
  BY TimeAssumption DEF Tick, addTime, TypeOK, Timestamps
<1>5. ASSUME NEW e \in timers_, fdRemaining <= howMuchTimeFromNow(e[1]), fdRemaining # 1
      PROVE  fdRemaining' <= howMuchTimeFromNow(e[1])'
  <2>1. howMuchTimeFromNow(e[1])' = IF e[1] < now' + 1 THEN 1 ELSE e[1] - now'
    BY Zenon DEF howMuchTimeFromNow
  <2> QED
    BY <1>1, <1>2, <1>4, <1>5, <2>1, InTimeTypes DEF howMuchTimeFromNow
<1>6. AlarmInTime'
  BY <1>1, <1>3, <1>5, Zenon DEF InTimeInv, AlarmInTime
<1>7. fdRemaining <= 1 => fdRemaining' <= 1
  BY <1>2, InTimeTypes
<1> QED
  BY <1>1, <1>6, <1>7, Zenon DEF InTimeInv, InvalidArmed

(* The end of handleRead sets the timerfd for the earliest expiration, or  *)
(* leaves it alone when that is invalid: then InvalidArmed says enough.    *)
LEMMA ResetInTime ==
  ASSUME TypeOK, OneOwner, InTimeInv, reset, TypeOK'
  PROVE  InTimeInv'
<1>1. callingExpiredTimers_ /\ ~callingExpiredTimers_' /\ now' = now
  BY Zenon DEF reset, clockVars
<1>2. \A e \in timers_' : e[1] \in Timestamps
  BY Zenon DEF TypeOK, Entry
<1>3. ASSUME NEW w PROVE howMuchTimeFromNow(w)' = howMuchTimeFromNow(w)
  BY <1>1, Zenon DEF howMuchTimeFromNow
<1>4. ASSUME NEW e \in timers_', resetTimerfd(e[1]), \A f \in timers_' : e[1] <= f[1]
      PROVE  \A f \in timers_' : fdRemaining' <= howMuchTimeFromNow(f[1])
  BY <1>2, <1>4, DelayGrows, Zenon DEF resetTimerfd
<1>5. ASSUME \A e \in timers_' : \E f \in timers_' : f[1] = 0, UNCHANGED fdVars
      PROVE  \A f \in timers_' : fdRemaining' <= howMuchTimeFromNow(f[1])
  <2>1. timers_' # {} => fdRemaining <= 1
    BY <1>1, <1>5, ResetValid, Zenon DEF InTimeInv, InvalidArmed
  <2>2. fdRemaining' = fdRemaining
    BY <1>5, Zenon DEF fdVars
  <2>3. \A f \in timers_' : 1 <= howMuchTimeFromNow(f[1])
    BY <1>2, DelayGrows
  <2> QED
    BY <1>2, <2>1, <2>2, <2>3, DelayGrows, InTimeTypes
<1>6. \A f \in timers_' : fdRemaining' <= howMuchTimeFromNow(f[1])
  BY <1>4, <1>5, Zenon DEF reset
<1> QED
  BY <1>1, <1>3, <1>6, Zenon DEF InTimeInv, AlarmInTime, InvalidArmed

(* Every step preserves InTimeInv: time brings alarm and expirations nearer *)
(* alike, a cancellation only removes timers, and whoever adds an earlier  *)
(* timer sets the alarm for it.                                            *)
LEMMA InTimeInductive ==
  TypeOK /\ TypeOK' /\ OneOwner /\ InTimeInv /\ [Next]_vars => InTimeInv'
<1> SUFFICES ASSUME TypeOK, TypeOK', OneOwner, InTimeInv, [Next]_vars PROVE InTimeInv'
  BY Zenon
<1>1. ASSUME timers_' \subseteq timers_,
             UNCHANGED <<callingExpiredTimers_, fdRemaining, fdReadable, timerfdActive, now, steps>>
      PROVE  InTimeInv'
  <2>1. ASSUME NEW w PROVE howMuchTimeFromNow(w)' = howMuchTimeFromNow(w)
    BY <1>1, Zenon DEF howMuchTimeFromNow
  <2> QED
    BY <1>1, <2>1, Zenon DEF InTimeInv, AlarmInTime, InvalidArmed
<1>2. CASE Tick
  BY <1>2, TickInTime, Zenon
<1>3. CASE StepClock
  <2>1. steps' # 0 /\ UNCHANGED <<timers_, callingExpiredTimers_, fdRemaining>>
    BY <1>3, InTimeTypes DEF StepClock, queueVars, batchVars, fdVars
  <2> QED
    BY <2>1, Zenon DEF InTimeInv, AlarmInTime, InvalidArmed
<1>4. CASE CallbackReturns \/ UNCHANGED vars
  BY <1>1, <1>4, Zenon DEF CallbackReturns, queueVars, fdVars, clockVars, batchVars, vars
<1>5. CASE PollTimerfd
  <2>1. timerfdActive' /\ UNCHANGED <<timers_, callingExpiredTimers_, fdRemaining>>
    BY <1>5, Zenon DEF PollTimerfd, queueVars, batchVars, fdVars
  <2> QED
    BY <2>1, Zenon DEF InTimeInv, AlarmInTime, InvalidArmed
<1>6. ASSUME NEW e \in toRun, RunTimer(e) PROVE InTimeInv'
  BY <1>1, <1>6, Zenon DEF RunTimer, queueVars, fdVars, clockVars
<1>7. ASSUME NEW t \in Others, addTimerReturns(t) PROVE InTimeInv'
  <2>1. UNCHANGED <<queueVars, batchVars, timerfdActive, fdVars, clockVars>>
    BY <1>7, Zenon DEF addTimerReturns
  <2> QED
    BY <1>1, <2>1, Zenon DEF queueVars, batchVars, fdVars, clockVars
<1>8. ASSUME NEW t \in Others, NEW id \in ids, cancel(t, id) PROVE InTimeInv'
  BY <1>1, <1>8, Zenon DEF cancel, queueVars, batchVars, fdVars, clockVars
<1>9. ASSUME NEW t \in Others, NEW a \in Addrs, NEW when \in Times, NEW interval \in Intervals,
             addTimer(t, a, when, interval)
      PROVE  InTimeInv'
  BY <1>1, <1>9, Zenon DEF addTimer, batchVars, fdVars, clockVars
<1>10. ASSUME NEW id, cancelInLoop(id) PROVE timers_' \subseteq timers_
  BY <1>10, Zenon DEF cancelInLoop, queueVars
<1>11. ASSUME NEW id \in ids, cancelIO(id) PROVE InTimeInv'
  BY <1>1, <1>10, <1>11, Zenon DEF cancelIO, batchVars, fdVars, clockVars
<1>12. CASE RunFunctor
  <2> DEFINE f == Head(pendingFunctors_)
  <2>1. UNCHANGED <<callingExpiredTimers_, timerfdActive, now, steps>>
    BY <1>12, Zenon DEF RunFunctor, batchVars, clockVars
  <2>2. CASE f.op = "addTimerInLoop"
    <3>1. addTimerInLoop(heap, f.timer) /\ pendingFunctors_ # <<>>
      BY <1>12, <2>2, Zenon DEF RunFunctor
    <3>2. f = pendingFunctors_[1] /\ 1 \in DOMAIN pendingFunctors_
      BY <3>1, TailShifts, SMTT(30) DEF TypeOK
    <3>3. f.timer \in DOMAIN heap
      BY <2>2, <3>2, Zenon DEF OneOwner, QueuedAddrs, QueuedAdds
    <3>4. heap[f.timer] \in Timer
      BY <3>3, Zenon DEF TypeOK
    <3> QED
      BY <2>1, <3>1, <3>4, AddInTime, Zenon
  <2>3. CASE f.op = "cancelInLoop"
    <3>1. cancelInLoop(f.id) /\ UNCHANGED fdVars
      BY <1>12, <2>3, Zenon DEF RunFunctor
    <3> QED
      BY <1>1, <1>10, <2>1, <3>1, Zenon DEF fdVars
  <2> QED
    BY <1>12, <2>2, <2>3, Zenon DEF RunFunctor
<1>13. ASSUME NEW a \in Addrs, NEW when \in Times, NEW interval \in Intervals,
              addTimerIO(a, when, interval)
       PROVE  InTimeInv'
  <2> DEFINE h == NewTimer(a, when, interval)
  <2>1. DOMAIN h = DOMAIN heap \cup {a} /\ h \in [DOMAIN h -> Timer]
    BY <1>13, NewTimerAdds, Zenon DEF addTimerIO
  <2>2. /\ addTimerInLoop(h, a)
        /\ UNCHANGED <<callingExpiredTimers_, timerfdActive, now, steps>>
    BY <1>13, Zenon DEF addTimerIO, batchVars, clockVars
  <2> HIDE DEF h
  <2>3. h[a] \in Timer
    BY <2>1, Zenon
  <2> QED
    BY <2>2, <2>3, AddInTime, Zenon
<1>14. CASE handleRead
  <2>1. callingExpiredTimers_' /\ timers_' = timers_ \ getExpired
    BY <1>14, Zenon DEF handleRead
  <2>2. 0 <= now
    BY TimeAssumption DEF TypeOK, Timestamps
  <2>3. \A e \in timers_' : e[1] # 0
    BY <2>1, <2>2, Zenon DEF getExpired
  <2> QED
    BY <2>1, <2>3, Zenon DEF InTimeInv, AlarmInTime, InvalidArmed
<1>15. CASE reset
  BY <1>15, ResetInTime, Zenon
<1> QED
  BY <1>2, <1>3, <1>4, <1>5, <1>6, <1>7, <1>8, <1>9, <1>11, <1>12, <1>13, <1>14, <1>15,
     Zenon DEF Next, LoopStep

(* As long as nobody steps the wall clock, the timerfd goes off no later   *)
(* than the earliest expiration, or after the smallest delay if that is    *)
(* past (addTimerInLoop, reset, howMuchTimeFromNow).                       *)
THEOREM InTimeTheorem == Spec => []AlarmInTime
<1>1. Init => InTimeInv
  BY Zenon DEF Init, InTimeInv, AlarmInTime, InvalidArmed
<1>2. InTimeInv => AlarmInTime
  BY Zenon DEF InTimeInv
<1> QED
  BY <1>1, <1>2, InTimeInductive, OwnerTheorem, PTL DEF Spec
=============================================================================
