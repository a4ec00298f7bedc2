----------------------------- MODULE EventLoop ------------------------------
(***************************************************************************)
(* muduo's EventLoop: one reactor owned by thread IO, any number of other  *)
(* threads that hand it functors (queueInLoop) or ask it to stop (quit).   *)
(*                                                                         *)
(* The loop thread's control is lpc, one value per place of loop() and     *)
(* doPendingFunctors() at which another thread can interfere:              *)
(*   created  constructed, loop() not called yet                           *)
(*   top      at while (!quit_)                                            *)
(*   poll     blocked in Poller::poll                                      *)
(*   handle   in the for loop over activeChannels_                         *)
(*   swap     in doPendingFunctors, before the swap under mutex_           *)
(*   call     in the for loop over the local vector functors               *)
(*   stopped  loop() has returned                                          *)
(* inCallback is TRUE while user code runs on the loop thread, that is     *)
(* inside an event callback (lpc = handle) or a functor (lpc = call).      *)
(* pc[t] is what thread t is doing inside an EventLoop method:             *)
(*   queued   in queueInLoop, cb pushed, wakeup() not reached              *)
(*   quit     in quit, quit_ set, wakeup() not reached                     *)
(* The two histories queued and executed are not in the code.              *)
(***************************************************************************)
EXTENDS Naturals, Sequences, Functions

CONSTANTS
  IO,            \* the thread that owns the loop (threadId_)
  Others,        \* the other threads
  Functors,      \* one value per call of queueInLoop
  Channels,      \* channels whose callbacks are user code
  EventfdMax,    \* largest value of the eventfd counter
  OutsideCalls   \* may IO call queueInLoop while loop() is not running?

Threads == Others \cup {IO}

\* The channel of wakeupFd_.
wakeupChannel_ == "wakeupChannel"

ASSUME ThreadsAssumption == IO \notin Others
ASSUME ChannelsAssumption == wakeupChannel_ \notin Channels
ASSUME EventfdAssumption == EventfdMax \in Nat \ {0}
ASSUME OutsideCallsAssumption == OutsideCalls \in BOOLEAN

VARIABLES
  lpc,                      \* control of the loop thread
  inCallback,               \* user code is running on the loop thread
  quit_,
  callingPendingFunctors_,
  activeChannels_,          \* the part of the vector not yet handled
  pendingFunctors_,
  functors,                 \* doPendingFunctors's local vector, from i on
  wakeupFd,                 \* counter of the eventfd
  pc,                       \* control of each thread inside an API call
  quitAsked,                \* history: quit() called since the last loop exit
  queued, executed          \* histories

loopVars == <<lpc, inCallback, callingPendingFunctors_, activeChannels_,
              functors, executed>>
vars == <<lpc, inCallback, quit_, callingPendingFunctors_, activeChannels_,
          pendingFunctors_, functors, wakeupFd, pc, quitAsked, queued, executed>>

looping_ == lpc \notin {"created", "stopped"}

isInLoopThread(t) == t = IO

TypeOK ==
  /\ lpc \in {"created", "top", "poll", "handle", "swap", "call", "stopped"}
  /\ inCallback \in BOOLEAN
  /\ quit_ \in BOOLEAN
  /\ callingPendingFunctors_ \in BOOLEAN
  /\ activeChannels_ \in SUBSET (Channels \cup {wakeupChannel_})
  /\ pendingFunctors_ \in Seq(Functors)
  /\ functors \in Seq(Functors)
  /\ wakeupFd \in 0..EventfdMax
  /\ pc \in [Threads -> {"idle", "queued", "quit"}]
  /\ quitAsked \in BOOLEAN
  /\ queued \in Seq(Functors)
  /\ executed \in Seq(Functors)

Init ==
  /\ lpc = "created"
  /\ inCallback = FALSE
  /\ quit_ = FALSE
  /\ callingPendingFunctors_ = FALSE
  /\ activeChannels_ = {}
  /\ pendingFunctors_ = <<>>
  /\ functors = <<>>
  /\ wakeupFd = 0
  /\ pc = [t \in Threads |-> "idle"]
  /\ quitAsked = FALSE
  /\ queued = <<>>
  /\ executed = <<>>

-----------------------------------------------------------------------------
(* The eventfd.  It is non-blocking: a write that would take the counter   *)
(* past its maximum fails and leaves it as it is.                          *)

\* The Mut definitions of this project are single-fault variants of the
\* definition that follows them; nothing refers to them.
MutWakeupWritesNothing == UNCHANGED wakeupFd

wakeup ==
  wakeupFd' = IF wakeupFd < EventfdMax THEN wakeupFd + 1 ELSE wakeupFd

-----------------------------------------------------------------------------
(* Methods that any thread may call.  The loop thread calls them from user *)
(* code: from a callback, or while loop() is not running.  runInLoop is    *)
(* queueInLoop on another thread; on the loop thread it calls the functor  *)
(* at once, which is then part of the user code that called runInLoop.     *)

InUserCode(t) == isInLoopThread(t) => inCallback \/ ~looping_

\* The critical section of queueInLoop.
MutPushFront(t, f) ==
  /\ pc[t] = "idle"
  /\ InUserCode(t)
  /\ isInLoopThread(t) => looping_ \/ OutsideCalls
  /\ f \notin Range(queued)
  /\ pendingFunctors_' = <<f>> \o pendingFunctors_
  /\ queued' = Append(queued, f)
  /\ pc' = [pc EXCEPT ![t] = "queued"]
  /\ UNCHANGED <<loopVars, quit_, wakeupFd, quitAsked>>

queueInLoop(t, f) ==
  /\ pc[t] = "idle"
  /\ InUserCode(t)
  /\ isInLoopThread(t) => looping_ \/ OutsideCalls
  /\ f \notin Range(queued)
  /\ pendingFunctors_' = Append(pendingFunctors_, f)
  /\ queued' = Append(queued, f)
  /\ pc' = [pc EXCEPT ![t] = "queued"]
  /\ UNCHANGED <<loopVars, quit_, wakeupFd, quitAsked>>

\* Wakes the loop for other threads only.
MutWakeupOthersOnly(t) ==
  /\ pc[t] = "queued"
  /\ IF ~isInLoopThread(t) THEN wakeup ELSE UNCHANGED wakeupFd
  /\ pc' = [pc EXCEPT ![t] = "idle"]
  /\ UNCHANGED <<loopVars, quit_, pendingFunctors_, quitAsked, queued>>

\* The rest of queueInLoop.
queueInLoopWakeup(t) ==
  /\ pc[t] = "queued"
  /\ IF ~isInLoopThread(t) \/ callingPendingFunctors_
     THEN wakeup
     ELSE UNCHANGED wakeupFd
  /\ pc' = [pc EXCEPT ![t] = "idle"]
  /\ UNCHANGED <<loopVars, quit_, pendingFunctors_, quitAsked, queued>>

quit(t) ==
  /\ pc[t] = "idle"
  /\ InUserCode(t)
  /\ quit_' = TRUE
  /\ quitAsked' = TRUE
  /\ pc' = [pc EXCEPT ![t] = IF isInLoopThread(t) THEN "idle" ELSE "quit"]
  /\ UNCHANGED <<loopVars, pendingFunctors_, wakeupFd, queued>>

MutQuitNoWakeup(t) ==
  /\ pc[t] = "quit"
  /\ pc' = [pc EXCEPT ![t] = "idle"]
  /\ UNCHANGED <<loopVars, quit_, pendingFunctors_, wakeupFd, quitAsked, queued>>

quitWakeup(t) ==
  /\ pc[t] = "quit"
  /\ wakeup
  /\ pc' = [pc EXCEPT ![t] = "idle"]
  /\ UNCHANGED <<loopVars, quit_, pendingFunctors_, quitAsked, queued>>

-----------------------------------------------------------------------------
(* loop(), step by step.                                                   *)

StartLoop ==
  /\ ~looping_
  /\ pc[IO] = "idle"
  /\ lpc' = "top"
  /\ quit_' = FALSE
  /\ UNCHANGED <<inCallback, callingPendingFunctors_, activeChannels_,
                 pendingFunctors_, functors, wakeupFd, pc, quitAsked, queued,
                 executed>>

CheckQuit ==
  /\ lpc = "top"
  /\ lpc' = IF quit_ THEN "stopped" ELSE "poll"
  /\ quitAsked' = (quitAsked /\ ~quit_)
  /\ activeChannels_' = {}
  /\ UNCHANGED <<inCallback, quit_, callingPendingFunctors_, pendingFunctors_,
                 functors, wakeupFd, pc, queued, executed>>

\* poll returns the readable eventfd and any set of ready user channels.
Poll ==
  /\ lpc = "poll"
  /\ \E ready \in SUBSET Channels :
       activeChannels_' =
         ready \cup (IF wakeupFd > 0 THEN {wakeupChannel_} ELSE {})
  /\ activeChannels_' # {}
  /\ lpc' = "handle"
  /\ UNCHANGED <<inCallback, quit_, callingPendingFunctors_, pendingFunctors_,
                 functors, wakeupFd, pc, quitAsked, queued, executed>>

\* kPollTimeMs have gone by and nothing is ready.
PollTimeout ==
  /\ lpc = "poll"
  /\ wakeupFd = 0
  /\ activeChannels_' = {}
  /\ lpc' = "handle"
  /\ UNCHANGED <<inCallback, quit_, callingPendingFunctors_, pendingFunctors_,
                 functors, wakeupFd, pc, quitAsked, queued, executed>>

\* EventLoop::handleRead: a read of an eventfd resets its counter.
handleRead ==
  /\ lpc = "handle" /\ ~inCallback
  /\ wakeupChannel_ \in activeChannels_
  /\ activeChannels_' = activeChannels_ \ {wakeupChannel_}
  /\ wakeupFd' = 0
  /\ UNCHANGED <<lpc, inCallback, quit_, callingPendingFunctors_,
                 pendingFunctors_, functors, pc, quitAsked, queued, executed>>

\* Channel::handleEvent of a user channel: its callback starts.
handleEvent(c) ==
  /\ lpc = "handle" /\ ~inCallback
  /\ c \in activeChannels_
  /\ activeChannels_' = activeChannels_ \ {c}
  /\ inCallback' = TRUE
  /\ UNCHANGED <<lpc, quit_, callingPendingFunctors_, pendingFunctors_,
                 functors, wakeupFd, pc, quitAsked, queued, executed>>

\* The callback or functor that is running returns.
CallbackReturns ==
  /\ inCallback
  /\ pc[IO] = "idle"
  /\ inCallback' = FALSE
  /\ UNCHANGED <<lpc, quit_, callingPendingFunctors_, activeChannels_,
                 pendingFunctors_, functors, wakeupFd, pc, quitAsked, queued,
                 executed>>

\* The loop over activeChannels_ is over; doPendingFunctors begins.
EnterPendingFunctors ==
  /\ lpc = "handle" /\ ~inCallback
  /\ activeChannels_ = {}
  /\ callingPendingFunctors_' = TRUE
  /\ lpc' = "swap"
  /\ UNCHANGED <<inCallback, quit_, activeChannels_, pendingFunctors_,
                 functors, wakeupFd, pc, quitAsked, queued, executed>>

SwapFunctors ==
  /\ lpc = "swap"
  /\ functors' = pendingFunctors_
  /\ pendingFunctors_' = functors
  /\ lpc' = "call"
  /\ UNCHANGED <<inCallback, quit_, callingPendingFunctors_, activeChannels_,
                 wakeupFd, pc, quitAsked, queued, executed>>

CallFunctor ==
  /\ lpc = "call" /\ ~inCallback
  /\ functors # <<>>
  /\ executed' = Append(executed, Head(functors))
  /\ functors' = Tail(functors)
  /\ inCallback' = TRUE
  /\ UNCHANGED <<lpc, quit_, callingPendingFunctors_, activeChannels_,
                 pendingFunctors_, wakeupFd, pc, quitAsked, queued>>

LeavePendingFunctors ==
  /\ lpc = "call" /\ ~inCallback
  /\ functors = <<>>
  /\ callingPendingFunctors_' = FALSE
  /\ lpc' = "top"
  /\ UNCHANGED <<inCallback, quit_, activeChannels_, pendingFunctors_,
                 functors, wakeupFd, pc, quitAsked, queued, executed>>

-----------------------------------------------------------------------------
LoopStep ==
  \/ CheckQuit
  \/ Poll
  \/ handleRead
  \/ \E c \in Channels : handleEvent(c)
  \/ CallbackReturns
  \/ EnterPendingFunctors
  \/ SwapFunctors
  \/ CallFunctor
  \/ LeavePendingFunctors

Call(t) == quit(t) \/ \E f \in Functors : queueInLoop(t, f)

CallReturns(t) == queueInLoopWakeup(t) \/ quitWakeup(t)

Next ==
  \/ StartLoop
  \/ PollTimeout
  \/ LoopStep
  \/ \E t \in Threads : Call(t) \/ CallReturns(t)

Spec == Init /\ [][Next]_vars

(***************************************************************************)
(* Fairness: no thread is suspended for ever inside the library, callbacks *)
(* return, and a poll with a readable eventfd returns.  Nothing is assumed *)
(* about the poll timeout or about user channels becoming ready, so what   *)
(* is shown to happen does not wait for kPollTimeMs.  main() does call     *)
(* loop().                                                                 *)
(***************************************************************************)
PollWoken == wakeupFd > 0 /\ Poll

Fairness ==
  /\ WF_vars(StartLoop /\ lpc = "created")
  /\ WF_vars(LoopStep /\ lpc # "poll")
  /\ WF_vars(PollWoken)
  /\ \A t \in Threads : WF_vars(CallReturns(t))

FairSpec == Spec /\ Fairness

-----------------------------------------------------------------------------
(* The loop is never asleep on a functor: when it is blocked in poll with  *)
(* a functor pending, the eventfd is readable or the thread that pushed it *)
(* is about to make it so (queueInLoop, doPendingFunctors, wakeup).        *)
NoLostWakeup ==
  lpc = "poll" /\ pendingFunctors_ # <<>> =>
    wakeupFd > 0 \/ \E t \in Others : pc[t] = "queued"

(* The loop is never asleep on a quit(): when it is blocked in poll with   *)
(* quit_ set, the eventfd is readable or about to be written.              *)
NoLostQuit ==
  lpc = "poll" /\ quit_ => wakeupFd > 0 \/ \E t \in Others : pc[t] = "quit"

(* EventLoop::handleRead always finds its eight bytes: the eventfd that    *)
(* poll reported is still readable when its handler runs, because nothing  *)
(* but the handler reads it.                                               *)
ReadableWhenHandled == wakeupChannel_ \in activeChannels_ => wakeupFd > 0

(* Nothing queued is lost, run twice or overtaken: what was executed, what *)
(* doPendingFunctors still holds and what is pending make up what was      *)
(* queued, in this order.                                                  *)
FunctorsInOrder == queued = executed \o functors \o pendingFunctors_

FQ == INSTANCE FunctorQueue WITH queued <- queued, executed <- executed

(* EventLoop implements the abstract FIFO executor.                        *)
ImplementsFunctorQueue == FQ!Spec

(* A functor that was queued is run, unless the loop stops, without the    *)
(* help of the poll timeout.                                               *)
FunctorsRun ==
  \A f \in Functors :
    f \in Range(queued) ~> f \in Range(executed) \/ lpc = "stopped"

(* A running loop that is asked to quit leaves loop().                     *)
QuitStopsLoop == looping_ /\ quit_ ~> lpc = "stopped"

(* The comment on quit(): the flag takes effect the next time              *)
(* while (!quit_) is evaluated.                                            *)
QuitTakesEffect == lpc = "top" /\ quitAsked => quit_
=============================================================================
