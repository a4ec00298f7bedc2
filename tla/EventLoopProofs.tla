-------------------------- MODULE EventLoopProofs ---------------------------
(***************************************************************************)
(* Proofs about EventLoop, for any set of threads, functors and channels   *)
(* and any eventfd limit.                                                  *)
(***************************************************************************)
EXTENDS EventLoop, SequenceTheorems, TLAPS

(* The initial state of the EventLoop has the declared types.              *)
LEMMA InitTypeOK == Init => TypeOK
<1> SUFFICES ASSUME Init PROVE TypeOK
  BY Zenon
<1>1. wakeupFd \in 0..EventfdMax
  BY EventfdAssumption DEF Init
<1>2. <<>> \in Seq(Functors)
  OBVIOUS
<1>3. pc \in [Threads -> {"idle", "queued", "quit"}]
  BY Zenon DEF Init
<1> QED
  BY <1>1, <1>2, <1>3, Zenon DEF Init, TypeOK

(* Every step of the loop thread and of its callers keeps the types.       *)
LEMMA StepTypeOK == TypeOK /\ [Next]_vars => TypeOK'
<1> SUFFICES ASSUME TypeOK, [Next]_vars
             PROVE  TypeOK'
  BY Zenon
<1> USE EventfdAssumption DEF TypeOK, loopVars, wakeup
<1>1. CASE StartLoop
  BY <1>1, Zenon DEF StartLoop
<1>2. CASE PollTimeout
  BY <1>2, Zenon DEF PollTimeout
<1>3. CASE CheckQuit
  BY <1>3, Zenon DEF CheckQuit
<1>4. CASE Poll
  BY <1>4, Zenon DEF Poll
<1>5. CASE handleRead
  BY <1>5 DEF handleRead
<1>6. ASSUME NEW c \in Channels, handleEvent(c)
      PROVE  TypeOK'
  BY <1>6, Zenon DEF handleEvent
<1>7. CASE CallbackReturns
  BY <1>7, Zenon DEF CallbackReturns
<1>8. CASE EnterPendingFunctors
  BY <1>8, Zenon DEF EnterPendingFunctors
<1>9. CASE SwapFunctors
  BY <1>9, Zenon DEF SwapFunctors
<1>10. CASE CallFunctor
  BY <1>10 DEF CallFunctor
<1>11. CASE LeavePendingFunctors
  BY <1>11, Zenon DEF LeavePendingFunctors
<1>12. ASSUME NEW t \in Threads, NEW f \in Functors, queueInLoop(t, f)
       PROVE  TypeOK'
  BY <1>12 DEF queueInLoop
<1>13. ASSUME NEW t \in Threads, queueInLoopWakeup(t)
       PROVE  TypeOK'
  BY <1>13, SMTT(30) DEF queueInLoopWakeup
<1>14. ASSUME NEW t \in Threads, quit(t)
       PROVE  TypeOK'
  BY <1>14, Zenon DEF quit
<1>15. ASSUME NEW t \in Threads, quitWakeup(t)
       PROVE  TypeOK'
  BY <1>15 DEF quitWakeup
<1>16. CASE UNCHANGED vars
  BY <1>16, Zenon DEF vars
<1> QED
  BY <1>1, <1>2, <1>3, <1>4, <1>5, <1>6, <1>7, <1>8, <1>9, <1>10, <1>11, <1>12, <1>13,
     <1>14, <1>15, <1>16, Zenon DEF Next, LoopStep, Call, CallReturns

(* Every variable of EventLoop keeps its type: in particular the eventfd   *)
(* counter stays within its limit whatever wakeup() and handleRead do.     *)
THEOREM TypeCorrect == Spec => []TypeOK
BY InitTypeOK, StepTypeOK, PTL DEF Spec

-----------------------------------------------------------------------------
(* The control facts that the wakeup argument needs: the flag that         *)
(* queueInLoop reads is set exactly during doPendingFunctors, user code    *)
(* runs only under handle and call, the loop thread is inside an EventLoop *)
(* method only from user code, and the local vector is empty outside the   *)
(* loop that runs it.                                                      *)
ControlInv ==
  /\ callingPendingFunctors_ <=> lpc \in {"swap", "call"}
  /\ inCallback => lpc \in {"handle", "call"}
  /\ pc[IO] # "idle" => inCallback \/ (OutsideCalls /\ ~looping_)
  /\ lpc # "call" => functors = <<>>

(* A wakeup is there or on its way.                                        *)
Signalled ==
  \/ wakeupFd > 0
  \/ \E t \in Others : pc[t] = "queued"
  \/ pc[IO] = "queued" /\ callingPendingFunctors_

(* NoLostWakeup is not inductive: it has to hold at every place from which *)
(* the loop can reach poll without passing the swap of doPendingFunctors.  *)
WakeInv ==
  /\ TypeOK
  /\ ControlInv
  /\ ~OutsideCalls /\ pendingFunctors_ # <<>> /\ lpc \notin {"handle", "swap"}
       => Signalled
  /\ NoLostQuit
  /\ ReadableWhenHandled

(* WakeInv holds initially and every step of the loop thread, of a caller  *)
(* of queueInLoop and of a caller of quit preserves it.                    *)
LEMMA WakeInvInductive == Spec => []WakeInv
<1>1. Init => WakeInv
  <2> SUFFICES ASSUME Init PROVE WakeInv
    BY Zenon
  <2>1. ControlInv
    BY Zenon DEF Init, ControlInv, Threads, looping_
  <2>2. NoLostQuit /\ ReadableWhenHandled
    BY Zenon DEF Init, NoLostQuit, ReadableWhenHandled
  <2>3. TypeOK
    BY InitTypeOK, Zenon
  <2> QED
    BY <2>1, <2>2, <2>3, Zenon DEF Init, WakeInv
<1>2. WakeInv /\ [Next]_vars => WakeInv'
  <2> SUFFICES ASSUME WakeInv, [Next]_vars
               PROVE  WakeInv'
    BY Zenon
  <2>0. TypeOK'
    BY StepTypeOK, Zenon DEF WakeInv
  <2> USE <2>0, EventfdAssumption, ThreadsAssumption, ChannelsAssumption
      DEF WakeInv, ControlInv, Signalled, NoLostQuit, ReadableWhenHandled,
          TypeOK, Threads, loopVars, wakeup, looping_, InUserCode,
          isInLoopThread
  <2>1. CASE StartLoop
    BY <2>1, Zenon DEF StartLoop
  <2>2. CASE PollTimeout
    BY <2>2, Zenon DEF PollTimeout
  <2>3. CASE CheckQuit
    BY <2>3, Zenon DEF CheckQuit
  <2>4. CASE Poll
    BY <2>4, Zenon DEF Poll
  <2>5. CASE handleRead
    BY <2>5, Zenon DEF handleRead
  <2>6. ASSUME NEW c \in Channels, handleEvent(c)
        PROVE  WakeInv'
    BY <2>6, Zenon DEF handleEvent
  <2>7. CASE CallbackReturns
    BY <2>7, Zenon DEF CallbackReturns
  <2>8. CASE EnterPendingFunctors
    BY <2>8, Zenon DEF EnterPendingFunctors
  <2>9. CASE SwapFunctors
    BY <2>9, Zenon DEF SwapFunctors
  <2>10. CASE CallFunctor
    BY <2>10, Zenon DEF CallFunctor
  <2>11. CASE LeavePendingFunctors
    BY <2>11, Zenon DEF LeavePendingFunctors
  <2>12. ASSUME NEW t \in Threads, NEW f \in Functors, queueInLoop(t, f)
         PROVE  WakeInv'
    BY <2>12, Zenon DEF queueInLoop
  <2>13. ASSUME NEW t \in Threads, queueInLoopWakeup(t)
         PROVE  WakeInv'
    BY <2>13 DEF queueInLoopWakeup
  <2>14. ASSUME NEW t \in Threads, quit(t)
         PROVE  WakeInv'
    BY <2>14, Zenon DEF quit
  <2>15. ASSUME NEW t \in Threads, quitWakeup(t)
         PROVE  WakeInv'
    BY <2>15 DEF quitWakeup
  <2>16. CASE UNCHANGED vars
    BY <2>16, Zenon DEF vars
  <2> QED
    BY <2>1, <2>2, <2>3, <2>4, <2>5, <2>6, <2>7, <2>8, <2>9, <2>10, <2>11,
       <2>12, <2>13, <2>14, <2>15, <2>16, Zenon
    DEF Next, LoopStep, Call, CallReturns
<1> QED
  BY <1>1, <1>2, PTL DEF Spec

(* For every instance: the loop never blocks in poll on a queued functor   *)
(* unless its wakeup is there or coming (queueInLoop, doPendingFunctors),  *)
(* provided the loop thread queues nothing while loop() is not running.    *)
THEOREM NeverAsleepOnAFunctor ==
  ASSUME ~OutsideCalls
  PROVE  Spec => []NoLostWakeup
<1>1. WakeInv => NoLostWakeup
  BY Zenon DEF WakeInv, ControlInv, Signalled, NoLostWakeup
<1> QED
  BY <1>1, WakeInvInductive, PTL

(* For every instance: the loop never blocks in poll on a quit() that was  *)
(* called while it was running, unless the wakeup is there or coming.      *)
THEOREM NeverAsleepOnQuit == Spec => []NoLostQuit
<1>1. WakeInv => NoLostQuit
  BY Zenon DEF WakeInv
<1> QED
  BY <1>1, WakeInvInductive, PTL

(* For every instance: when EventLoop::handleRead runs, the eventfd still  *)
(* holds what poll saw, so the read returns eight bytes.                   *)
THEOREM HandlerFindsEventfdReadable == Spec => []ReadableWhenHandled
<1>1. WakeInv => ReadableWhenHandled
  BY Zenon DEF WakeInv
<1> QED
  BY <1>1, WakeInvInductive, PTL

-----------------------------------------------------------------------------
(* The order argument needs only that the vector swapped in is empty.      *)
OrderInv ==
  /\ TypeOK
  /\ lpc # "call" => functors = <<>>
  /\ FunctorsInOrder

(* Running the first functor of the local vector keeps the concatenation   *)
(* of executed, functors and pendingFunctors_ (CallFunctor).               *)
LEMMA MoveHead ==
  ASSUME NEW S, NEW e \in Seq(S), NEW s \in Seq(S), s # <<>>
  PROVE  Append(e, Head(s)) \o Tail(s) = e \o s
<1>1. Append(e, Head(s)) \o Tail(s) \in Seq(S) /\ e \o s \in Seq(S)
  OBVIOUS
<1>2. Len(Append(e, Head(s)) \o Tail(s)) = Len(e \o s)
  OBVIOUS
<1>3. \A i \in 1..Len(e \o s) : (Append(e, Head(s)) \o Tail(s))[i] = (e \o s)[i]
  OBVIOUS
<1> QED
  BY <1>1, <1>2, <1>3, SeqEqual, Zenon

(* Pushing at the end of pendingFunctors_ is pushing at the end of the     *)
(* concatenation (queueInLoop).                                            *)
LEMMA PushLast ==
  ASSUME NEW S, NEW a \in Seq(S), NEW p \in Seq(S), NEW f \in S
  PROVE  a \o Append(p, f) = Append(a \o p, f)
<1>1. a \o Append(p, f) \in Seq(S) /\ Append(a \o p, f) \in Seq(S)
  OBVIOUS
<1>2. Len(a \o Append(p, f)) = Len(Append(a \o p, f))
  OBVIOUS
<1>3. \A i \in 1..Len(Append(a \o p, f)) :
        (a \o Append(p, f))[i] = (Append(a \o p, f))[i]
  OBVIOUS
<1> QED
  BY <1>1, <1>2, <1>3, SeqEqual, Zenon

(* OrderInv is preserved by the three steps that move functors             *)
(* (queueInLoop, the swap, CallFunctor) and untouched by the others.       *)
LEMMA OrderInvInductive == Spec => []OrderInv
<1>1. Init => OrderInv
  <2> SUFFICES ASSUME Init PROVE OrderInv
    BY Zenon
  <2>1. <<>> \o <<>> \o <<>> = <<>>
    OBVIOUS
  <2> QED
    BY <2>1, InitTypeOK, Zenon DEF Init, OrderInv, FunctorsInOrder
<1>2. OrderInv /\ [Next]_vars => OrderInv'
  <2> SUFFICES ASSUME OrderInv, [Next]_vars
               PROVE  OrderInv'
    BY Zenon
  <2>0. TypeOK'
    BY StepTypeOK, Zenon DEF OrderInv
  <2>1. ASSUME NEW t \in Threads, NEW f \in Functors, queueInLoop(t, f)
        PROVE  OrderInv'
    <3>1. executed \o functors \in Seq(Functors) /\ pendingFunctors_ \in Seq(Functors)
      BY DEF OrderInv, TypeOK
    <3>2. (executed \o functors) \o Append(pendingFunctors_, f)
            = Append((executed \o functors) \o pendingFunctors_, f)
      BY <3>1, PushLast, SMTT(30)
    <3> QED
      BY <2>0, <2>1, <3>2, Zenon DEF queueInLoop, loopVars, OrderInv, FunctorsInOrder
  <2>2. CASE SwapFunctors
    <3>1. functors = <<>>
      BY <2>2, Zenon DEF SwapFunctors, OrderInv
    <3>2. /\ (executed \o <<>>) \o pendingFunctors_
              = (executed \o pendingFunctors_) \o <<>>
      BY ConcatEmptySeq DEF OrderInv, TypeOK
    <3> QED
      BY <2>0, <2>2, <3>1, <3>2, Zenon DEF SwapFunctors, OrderInv, FunctorsInOrder
  <2>3. CASE CallFunctor
    <3>1. Append(executed, Head(functors)) \o Tail(functors) = executed \o functors
      BY <2>3, MoveHead, Zenon DEF CallFunctor, OrderInv, TypeOK
    <3> QED
      BY <2>0, <2>3, <3>1, Zenon DEF CallFunctor, OrderInv, FunctorsInOrder
  <2>4. ASSUME UNCHANGED <<queued, executed, functors, pendingFunctors_>>,
               lpc' = "call" => lpc = "call",
               lpc = "call" /\ lpc' # "call" => functors = <<>>
        PROVE  OrderInv'
    BY <2>0, <2>4, Zenon DEF OrderInv, FunctorsInOrder
  <2> USE <2>4 DEF loopVars
  <2>5. CASE StartLoop
    BY <2>5, Zenon DEF StartLoop, looping_
  <2>6. CASE PollTimeout
    BY <2>6, Zenon DEF PollTimeout
  <2>7. CASE CheckQuit
    BY <2>7, Zenon DEF CheckQuit
  <2>8. CASE Poll
    BY <2>8, Zenon DEF Poll
  <2>9. CASE handleRead
    BY <2>9, Zenon DEF handleRead
  <2>10. ASSUME NEW c \in Channels, handleEvent(c)
         PROVE  OrderInv'
    BY <2>10, Zenon DEF handleEvent
  <2>11. CASE CallbackReturns
    BY <2>11, Zenon DEF CallbackReturns
  <2>12. CASE EnterPendingFunctors
    BY <2>12, Zenon DEF EnterPendingFunctors
  <2>13. CASE LeavePendingFunctors
    BY <2>13, Zenon DEF LeavePendingFunctors
  <2>14. ASSUME NEW t \in Threads, CallReturns(t) \/ quit(t)
         PROVE  OrderInv'
    BY <2>14, Zenon DEF CallReturns, queueInLoopWakeup, quitWakeup, quit
  <2>15. CASE UNCHANGED vars
    BY <2>15, Zenon DEF vars
  <2> QED
    BY <2>1, <2>2, <2>3, <2>5, <2>6, <2>7, <2>8, <2>9, <2>10, <2>11, <2>12, <2>13,
       <2>14, <2>15, Zenon DEF Next, LoopStep, Call
<1> QED
  BY <1>1, <1>2, PTL DEF Spec

(* For every instance: no functor handed to queueInLoop is lost, run twice *)
(* or overtaken by a later one.                                            *)
THEOREM NothingLostOrOvertaken == Spec => []FunctorsInOrder
<1>1. OrderInv => FunctorsInOrder
  BY Zenon DEF OrderInv
<1> QED
  BY <1>1, OrderInvInductive, PTL

(* The loop, with its lock, swap and eventfd, implements the abstract FIFO *)
(* executor: CallFunctor is Run, queueInLoop is Submit, and every other    *)
(* step leaves both histories alone.                                       *)
THEOREM Refinement == Spec => ImplementsFunctorQueue
<1>1. Init => FQ!Init
  BY Zenon DEF Init, FQ!Init
<1>2. OrderInv /\ [Next]_vars => [FQ!Next]_FQ!vars
  <2> SUFFICES ASSUME OrderInv, [Next]_vars
               PROVE  [FQ!Next]_FQ!vars
    BY Zenon
  <2>1. ASSUME NEW t \in Threads, NEW f \in Functors, queueInLoop(t, f)
        PROVE  FQ!Next
    BY <2>1, Zenon DEF queueInLoop, loopVars, FQ!Next, FQ!Submit
  <2>2. CASE CallFunctor
    <3>1. functors \in Seq(Functors) /\ functors # <<>>
      BY <2>2, Zenon DEF CallFunctor, OrderInv, TypeOK
    <3>2. Len(functors) > 0 /\ Head(functors) = functors[1]
      BY <3>1
    <3>3. executed \in Seq(Functors) /\ pendingFunctors_ \in Seq(Functors)
      BY Zenon DEF OrderInv, TypeOK
    <3>4. Len(executed) \in Nat /\ Len(functors) \in Nat /\ Len(pendingFunctors_) \in Nat
      BY <3>1, <3>3
    <3>5. executed \o functors \in Seq(Functors)
      BY <3>1, <3>3
    <3>6. /\ Len(executed \o functors) = Len(executed) + Len(functors)
          /\ (executed \o functors)[Len(executed) + 1] = functors[1]
      BY <3>1, <3>2, <3>3, <3>4
    <3>7. /\ Len((executed \o functors) \o pendingFunctors_) > Len(executed)
          /\ ((executed \o functors) \o pendingFunctors_)[Len(executed) + 1]
               = (executed \o functors)[Len(executed) + 1]
      BY <3>2, <3>3, <3>4, <3>5, <3>6
    <3>8. FQ!Run
      BY <2>2, <3>2, <3>6, <3>7, Zenon DEF CallFunctor, FQ!Run, OrderInv, FunctorsInOrder
    <3> QED
      BY <3>8, Zenon DEF FQ!Next
  <2>3. ASSUME UNCHANGED <<queued, executed>>
        PROVE  UNCHANGED FQ!vars
    BY <2>3, Zenon DEF FQ!vars
  <2> USE <2>3 DEF loopVars
  <2>4. CASE StartLoop \/ PollTimeout \/ CheckQuit \/ Poll \/ handleRead
    BY <2>4, Zenon DEF StartLoop, PollTimeout, CheckQuit, Poll, handleRead
  <2>5. ASSUME NEW c \in Channels, handleEvent(c)
        PROVE  UNCHANGED FQ!vars
    BY <2>5, Zenon DEF handleEvent
  <2>6. CASE CallbackReturns \/ EnterPendingFunctors \/ SwapFunctors \/ LeavePendingFunctors
    BY <2>6, Zenon DEF CallbackReturns, EnterPendingFunctors, SwapFunctors,
       LeavePendingFunctors
  <2>7. ASSUME NEW t \in Threads, CallReturns(t) \/ quit(t)
        PROVE  UNCHANGED FQ!vars
    BY <2>7, Zenon DEF CallReturns, queueInLoopWakeup, quitWakeup, quit
  <2>8. CASE UNCHANGED vars
    BY <2>8, Zenon DEF vars
  <2> QED
    BY <2>1, <2>2, <2>4, <2>5, <2>6, <2>7, <2>8, Zenon DEF Next, LoopStep, Call
<1> QED
  BY <1>1, <1>2, OrderInvInductive, PTL DEF Spec, FQ!Spec, ImplementsFunctorQueue
=============================================================================
