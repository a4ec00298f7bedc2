--------------------------- MODULE TcpConnection ----------------------------
(***************************************************************************)
(* One TcpConnection with its Channel, the loop that handles it, the       *)
(* TcpServer on another loop that owns it, and other threads that hold a   *)
(* TcpConnectionPtr and call its methods.                                  *)
(*                                                                         *)
(* Both loops are the FIFO executors of FunctorQueue.  A handler runs in   *)
(* one step up to the user callback it makes, and goes on when that        *)
(* returns; other threads act in between.  A method that another thread    *)
(* calls tests state_, sets it and queues its functor in separate steps.   *)
(* The connection exists as long as something refers to it (Alive).  A     *)
(* failed assert, and the use of a freed object, end the program: failed.  *)
(***************************************************************************)
EXTENDS Naturals, Sequences

CONSTANTS
  Others,       \* threads other than the two loops
  OtherCalls,   \* what they may call
  Messages,     \* what is sent, numbered in the order of the calls to send
  Chunks,       \* parts of a message that one write may separate
  HighWaterMark,\* in chunks
  MaxPending    \* bound: a call is made only while fewer functors wait

ASSUME ChunksAssumption == Chunks \in Nat \ {0}
ASSUME MessagesAssumption == Messages \subseteq Nat
ASSUME CallsAssumption ==
  OtherCalls \subseteq {"send", "shutdown", "forceClose", "startRead", "stopRead"}

VARIABLES
  state_, reading_,
  events_,        \* of the Channel: subset of {"read", "write"}
  addedToLoop_,
  outputBuffer_,  \* a sequence of chunks
  pending,        \* pendingFunctors_ of the connection's loop
  delayed,        \* is a timer of forceCloseWithDelay set?
  lpc,            \* control of the loop, see UserCode
  revents_,       \* events of the Channel that are still to be handled
  call,           \* what each other thread is in the middle of
  holders,        \* other threads that hold a TcpConnectionPtr
  inMap,          \* is the connection in connections_?
  removals,       \* functors removeConnectionInLoop in the server's loop
  serverAlive,
  used,           \* messages that were passed to send
  sent,           \* the socket: chunks written,
  writeClosed,    \*   and is its write side shut down?
  accepted,       \* history: chunks that sendInLoop took on
  downs,          \* history: connectionCallback_ calls for the end, 2 for more
  crossed,        \* history: did a call cross the end of the connection?
  failed          \* asserts that failed, objects used after their end

socketVars == <<sent, writeClosed>>
bufferVars == <<outputBuffer_, accepted>>
channelVars == <<events_, addedToLoop_>>
serverVars == <<inMap, removals, serverAlive>>
otherVars == <<call, holders, used>>
vars == <<state_, reading_, channelVars, bufferVars, pending, delayed, lpc,
          revents_, otherVars, serverVars, socketVars, downs, crossed, failed>>

\* Functors bound to a TcpConnectionPtr; the others are bound to this.
Shared == {"connectEstablished", "connectDestroyed", "forceCloseInLoop", "callback"}
Unshared == {"sendInLoop", "shutdownInLoop", "startReadInLoop", "stopReadInLoop"}
\* In a user callback: message, write complete or high water mark; connection
\* up; connection down from handleClose or from connectDestroyed.
UserCode == {"message", "up", "down", "destroying"}
Data(m) == [i \in 1..Chunks |-> <<m, i>>]

Chunk == Messages \X (1..Chunks)
Functor == [op : (Shared \cup Unshared) \ {"sendInLoop"}]
             \cup [op : {"sendInLoop"}, msg : Messages]

TypeOK ==
  /\ state_ \in {"kConnecting", "kConnected", "kDisconnecting", "kDisconnected"}
  /\ reading_ \in BOOLEAN
  /\ events_ \subseteq {"read", "write"}
  /\ addedToLoop_ \in BOOLEAN
  /\ outputBuffer_ \in Seq(Chunk) /\ accepted \in Seq(Chunk) /\ sent \in Seq(Chunk)
  /\ pending \in Seq(Functor)
  /\ delayed \in BOOLEAN
  /\ lpc \in {"idle", "dispatch"} \cup UserCode
  /\ revents_ \subseteq {"hup", "err", "in", "out"}
  /\ call \in [Others -> {"none", "send", "shutdown", "forceClose",
                          "shutdownSet", "forceCloseSet"}]
  /\ holders \subseteq Others /\ used \subseteq Messages
  /\ inMap \in BOOLEAN /\ serverAlive \in BOOLEAN
  /\ removals \in Nat
  /\ writeClosed \in BOOLEAN
  /\ downs \in 0..2
  /\ crossed \in BOOLEAN

NewTcpConnection ==
  /\ state_ = "kConnecting" /\ reading_ = TRUE
  /\ outputBuffer_ = <<>> /\ accepted = <<>>

NewChannel == events_ = {} /\ addedToLoop_ = FALSE /\ revents_ = {}

\* newConnection has made the connection and handed it to its loop.
Init ==
  /\ NewTcpConnection /\ NewChannel
  /\ pending = <<[op |-> "connectEstablished"]>>
  /\ delayed = FALSE
  /\ lpc = "idle"
  /\ call = [t \in Others |-> "none"] /\ holders = {} /\ used = {}
  /\ inMap = TRUE /\ removals = 0 /\ serverAlive = TRUE
  /\ sent = <<>> /\ writeClosed = FALSE
  /\ downs = 0 /\ crossed = FALSE /\ failed = {}

-----------------------------------------------------------------------------
Open == state_ \in {"kConnected", "kDisconnecting"}

\* Somebody holds a TcpConnectionPtr.
Alive ==
  \/ inMap \/ removals > 0 \/ lpc # "idle" \/ holders # {}
  \/ \E i \in DOMAIN pending : pending[i].op \in Shared

\* The connection is disconnected, or its server is gone: a call that takes
\* effect now crosses the end of the connection.
Ending == state_ = "kDisconnected" \/ ~serverAlive

\* Bound: once a call has crossed the end, what is under way finishes and
\* nothing new begins.
Exploring == ~crossed

\* The message that is passed to send next.
First(m) == \A k \in Messages \ used : m <= k

\* Queues op behind queue, which is pending or its tail in a functor.
Queue(queue, op) == pending' = Append(queue, [op |-> op])

Fail(what) ==
  /\ failed' = failed \cup {what}
  /\ UNCHANGED <<state_, reading_, channelVars, bufferVars, pending, delayed, lpc,
                 revents_, otherVars, serverVars, socketVars, downs, crossed>>

\* connectionCallback_, when the connection is down.
DownCalled == downs' = IF downs < 2 THEN downs + 1 ELSE 2

\* Channel::update, with the events that the Channel shall have.
Update(events) == events_' = events /\ addedToLoop_' = TRUE

\* setState(kDisconnecting), in shutdown and forceClose.
SetDisconnecting ==
  /\ state_' = "kDisconnecting"
  /\ crossed' = (crossed \/ Ending)

\* Where the loop goes on when a handler is done and rest is to be handled.
Continue(rest) ==
  /\ revents_' = rest
  /\ lpc' = IF rest = {} THEN "idle" ELSE "dispatch"

\* handleClose up to the user callback; rest: events still to be handled.
handleClose(queue, rest) ==
  \/ /\ ~Open
     /\ Fail("handleClose")
  \/ /\ Open
     /\ state_' = "kDisconnected"
     /\ Update({})
     /\ lpc' = "down" /\ revents_' = rest
     /\ pending' = queue
     /\ DownCalled
     /\ crossed' = (crossed \/ ~serverAlive)
     /\ UNCHANGED <<reading_, bufferVars, delayed, otherVars, serverVars, socketVars,
                    failed>>

-----------------------------------------------------------------------------
(* Methods that run on the connection's loop.                              *)

\* Shuts the write side down although output is waiting.
MutShutdownAtOnce == writeClosed' = TRUE

shutdownInLoop == writeClosed' = (writeClosed \/ "write" \notin events_)

\* Writes directly although output is waiting.
MutWriteDirectly == TRUE

\* May sendInLoop try to write at once?
WriteDirectly == "write" \notin events_ /\ outputBuffer_ = <<>>

\* The functors that sendInLoop queues: write complete or high water mark.
SendCallbacks(remaining) ==
  LET oldLen == Len(outputBuffer_)
  IN  \/ remaining = 0
      \/ oldLen < HighWaterMark /\ oldLen + remaining >= HighWaterMark

\* Takes on message m, of which the socket takes the first n chunks now.
Accept(queue, m, n) ==
  /\ sent' = sent \o SubSeq(Data(m), 1, n)
  /\ outputBuffer_' = outputBuffer_ \o SubSeq(Data(m), n + 1, Chunks)
  /\ accepted' = accepted \o Data(m)
  /\ IF SendCallbacks(Chunks - n) THEN Queue(queue, "callback") ELSE pending' = queue
  /\ IF n = Chunks THEN UNCHANGED channelVars
     ELSE Update(events_ \cup {"write"})

sendInLoop(queue, m) ==
  /\ \/ /\ state_ # "kDisconnected" /\ WriteDirectly /\ ~writeClosed
        /\ \E n \in 0..Chunks : Accept(queue, m, n)
     \/ /\ state_ # "kDisconnected" /\ ~WriteDirectly
        /\ Accept(queue, m, 0)
     \/ \* given up: disconnected, or EPIPE or ECONNRESET
        /\ state_ = "kDisconnected" \/ WriteDirectly
        /\ pending' = queue
        /\ UNCHANGED <<sent, bufferVars, channelVars>>
  /\ UNCHANGED writeClosed

startReadInLoop ==
  IF ~reading_ \/ "read" \notin events_
  THEN Update(events_ \cup {"read"}) /\ reading_' = TRUE
  ELSE UNCHANGED <<channelVars, reading_>>

stopReadInLoop ==
  IF reading_ \/ "read" \in events_
  THEN Update(events_ \ {"read"}) /\ reading_' = FALSE
  ELSE UNCHANGED <<channelVars, reading_>>

-----------------------------------------------------------------------------
(* Functors, in the order in which they were queued.                       *)

CallFunctor(op) ==
  /\ lpc = "idle" /\ pending # <<>>
  /\ Head(pending).op = op

connectEstablished ==
  /\ CallFunctor("connectEstablished")
  /\ \/ /\ state_ # "kConnecting"
        /\ Fail("connectEstablished")
     \/ /\ state_ = "kConnecting"
        /\ state_' = "kConnected"
        /\ Update(events_ \cup {"read"})
        /\ lpc' = "up"
        /\ pending' = Tail(pending)
        /\ UNCHANGED <<reading_, bufferVars, delayed, revents_, otherVars, serverVars,
                       socketVars, downs, crossed, failed>>

\* Does not tell the loop.
MutKeepsChannel == UNCHANGED <<addedToLoop_, failed>>

\* Channel::remove.
RemoveChannel ==
  \/ /\ events_ # {}
     /\ failed' = failed \cup {"remove"}
     /\ UNCHANGED addedToLoop_
  \/ /\ events_ = {}
     /\ addedToLoop_' = FALSE
     /\ UNCHANGED failed

\* Tells the user also when handleClose has done so.
MutDownTwice ==
  /\ CallFunctor("connectDestroyed")
  /\ pending' = Tail(pending)
  /\ state_' = "kDisconnected"
  /\ Update({})
  /\ lpc' = "destroying"
  /\ DownCalled
  /\ UNCHANGED <<reading_, bufferVars, delayed, revents_, otherVars, serverVars,
                 socketVars, crossed, failed>>

connectDestroyed ==
  /\ CallFunctor("connectDestroyed")
  /\ pending' = Tail(pending)
  /\ \/ /\ state_ = "kConnected"
        /\ state_' = "kDisconnected"
        /\ Update({})
        /\ lpc' = "destroying"
        /\ DownCalled
        /\ UNCHANGED failed
     \/ /\ state_ # "kConnected"
        /\ RemoveChannel
        /\ UNCHANGED <<state_, events_, lpc, downs>>
  /\ UNCHANGED <<reading_, bufferVars, delayed, revents_, otherVars, serverVars,
                 socketVars, crossed>>

\* Closes whatever the state is.
MutCloseAnyway ==
  /\ CallFunctor("forceCloseInLoop")
  /\ handleClose(Tail(pending), {})

forceCloseInLoop ==
  /\ CallFunctor("forceCloseInLoop")
  /\ \/ /\ Open
        /\ handleClose(Tail(pending), {})
     \/ /\ ~Open
        /\ pending' = Tail(pending)
        /\ UNCHANGED <<state_, reading_, channelVars, bufferVars, delayed, lpc, revents_,
                       otherVars, serverVars, socketVars, downs, crossed, failed>>

\* A write complete or high water mark callback of the user.
UserFunctor ==
  /\ CallFunctor("callback")
  /\ lpc' = "message"
  /\ pending' = Tail(pending)
  /\ UNCHANGED <<state_, reading_, channelVars, bufferVars, delayed, revents_, otherVars,
                 serverVars, socketVars, downs, crossed, failed>>

\* The functors that another thread has bound to this.
UnsharedFunctor ==
  /\ \E op \in Unshared : CallFunctor(op)
  /\ \/ /\ ~Alive
        /\ Fail("freed")
     \/ /\ Alive
        /\ LET f == Head(pending)
           IN  \/ /\ f.op = "sendInLoop"
                  /\ sendInLoop(Tail(pending), f.msg)
                  /\ UNCHANGED <<reading_, crossed>>
               \/ /\ f.op = "shutdownInLoop"
                  /\ shutdownInLoop
                  /\ pending' = Tail(pending)
                  /\ UNCHANGED <<reading_, channelVars, bufferVars, sent, crossed>>
               \/ /\ f.op = "startReadInLoop" /\ startReadInLoop
                  /\ pending' = Tail(pending)
                  /\ crossed' = (crossed \/ Ending)
                  /\ UNCHANGED <<bufferVars, socketVars>>
               \/ /\ f.op = "stopReadInLoop" /\ stopReadInLoop
                  /\ pending' = Tail(pending)
                  /\ crossed' = (crossed \/ Ending)
                  /\ UNCHANGED <<bufferVars, socketVars>>
        /\ UNCHANGED <<state_, delayed, lpc, revents_, otherVars, serverVars, downs, failed>>

-----------------------------------------------------------------------------
(* Events of the Channel.  The poller is not in the repository: it reports *)
(* POLLHUP and POLLERR at any time, the others if the Channel asks for     *)
(* them, and nothing for a Channel without events.                         *)

Poll(revents) ==
  /\ Exploring /\ lpc = "idle" /\ addedToLoop_ /\ events_ # {}
  /\ Alive   \* tie_.lock()
  /\ revents # {}
  /\ "in" \in revents => "read" \in events_
  /\ "out" \in revents => "write" \in events_
  /\ Continue(revents)
  /\ UNCHANGED <<state_, reading_, channelVars, bufferVars, pending, delayed, otherVars,
                 serverVars, socketVars, downs, crossed, failed>>

\* handleEventWithGuard: the close, error, read and write callbacks in turn.
Turn(event, before) == lpc = "dispatch" /\ event \in revents_ /\ revents_ \cap before = {}

HandleHup ==
  /\ Turn("hup", {})
  /\ \/ /\ "in" \notin revents_
        /\ handleClose(pending, revents_ \ {"hup"})
     \/ /\ "in" \in revents_
        /\ Continue(revents_ \ {"hup"})
        /\ UNCHANGED <<state_, reading_, channelVars, bufferVars, pending, delayed,
                       otherVars, serverVars, socketVars, downs, crossed, failed>>

handleError ==
  /\ Turn("err", {"hup"})
  /\ Continue(revents_ \ {"err"})
  /\ UNCHANGED <<state_, reading_, channelVars, bufferVars, pending, delayed, otherVars,
                 serverVars, socketVars, downs, crossed, failed>>

\* readFd returns data, the end of the stream or an error.
handleRead ==
  /\ Turn("in", {"hup", "err"})
  /\ \/ handleClose(pending, revents_ \ {"in"})
     \/ /\ \/ lpc' = "message" /\ revents_' = revents_ \ {"in"}
           \/ Continue(revents_ \ {"in"})
        /\ UNCHANGED <<state_, reading_, channelVars, bufferVars, pending, delayed,
                       otherVars, serverVars, socketVars, downs, crossed, failed>>

\* Stops watching for writability after every write.
MutStopWriting(n) ==
  /\ sent' = sent \o SubSeq(outputBuffer_, 1, n)
  /\ outputBuffer_' = SubSeq(outputBuffer_, n + 1, Len(outputBuffer_))
  /\ Update(events_ \ {"write"})
  /\ UNCHANGED <<pending, writeClosed>>

\* Forgets the shutdown that waits for the output.
MutNoLateShutdown(n) ==
  /\ sent' = sent \o SubSeq(outputBuffer_, 1, n)
  /\ outputBuffer_' = SubSeq(outputBuffer_, n + 1, Len(outputBuffer_))
  /\ events_' = IF n = Len(outputBuffer_) THEN events_ \ {"write"} ELSE events_
  /\ UNCHANGED <<addedToLoop_, pending, writeClosed>>

\* The socket takes n chunks of the output.
Written(n) ==
  /\ sent' = sent \o SubSeq(outputBuffer_, 1, n)
  /\ outputBuffer_' = SubSeq(outputBuffer_, n + 1, Len(outputBuffer_))
  /\ IF n < Len(outputBuffer_) THEN UNCHANGED <<channelVars, pending, writeClosed>>
     ELSE /\ Update(events_ \ {"write"})
          /\ Queue(pending, "callback")
          /\ writeClosed' = (writeClosed \/ state_ = "kDisconnecting")

handleWrite ==
  /\ Turn("out", {"hup", "err", "in"})
  /\ Continue({})
  /\ \/ "write" \in events_ /\ \E n \in 1..Len(outputBuffer_) : Written(n)
     \/ UNCHANGED <<channelVars, outputBuffer_, pending, socketVars>>
  /\ UNCHANGED <<state_, reading_, accepted, delayed, otherVars, serverVars, downs,
                 crossed, failed>>

-----------------------------------------------------------------------------
(* User code on the connection's loop, in a callback.                      *)

InUserCode == lpc \in UserCode

UserSend(m) ==
  /\ Exploring /\ InUserCode /\ m \notin used /\ First(m)
  /\ state_ = "kConnected"
  /\ used' = used \cup {m}
  /\ sendInLoop(pending, m)
  /\ UNCHANGED <<state_, reading_, delayed, lpc, revents_, call, holders, serverVars,
                 downs, crossed, failed>>

UserShutdown ==
  /\ Exploring /\ InUserCode /\ state_ = "kConnected"
  /\ SetDisconnecting
  /\ shutdownInLoop
  /\ UNCHANGED <<reading_, channelVars, bufferVars, pending, delayed, lpc, revents_,
                 otherVars, serverVars, sent, downs, failed>>

UserForceClose ==
  /\ Exploring /\ InUserCode /\ Open /\ Len(pending) < MaxPending
  /\ SetDisconnecting
  /\ Queue(pending, "forceCloseInLoop")
  /\ UNCHANGED <<reading_, channelVars, bufferVars, delayed, lpc, revents_, otherVars,
                 serverVars, socketVars, downs, failed>>

forceCloseWithDelay ==
  /\ Exploring /\ InUserCode /\ Open
  /\ SetDisconnecting
  /\ delayed' = TRUE
  /\ UNCHANGED <<reading_, channelVars, bufferVars, pending, lpc, revents_, otherVars,
                 serverVars, socketVars, downs, failed>>

\* The weak callback of forceCloseWithDelay calls forceClose.
DelayOver ==
  /\ delayed /\ lpc = "idle" /\ Len(pending) < MaxPending
  /\ delayed' = FALSE
  /\ \/ Alive /\ Open /\ SetDisconnecting /\ Queue(pending, "forceCloseInLoop")
     \/ ~(Alive /\ Open) /\ UNCHANGED <<state_, crossed, pending>>
  /\ UNCHANGED <<reading_, channelVars, bufferVars, lpc, revents_, otherVars, serverVars,
                 socketVars, downs, failed>>

UserReads ==
  /\ Exploring /\ InUserCode
  /\ startReadInLoop \/ stopReadInLoop
  /\ crossed' = (crossed \/ Ending)
  /\ UNCHANGED <<state_, bufferVars, pending, delayed, lpc, revents_, otherVars,
                 serverVars, socketVars, downs, failed>>

\* The callback returns to the handler that made it.
UserReturns ==
  /\ InUserCode
  /\ \/ /\ lpc \in {"message", "up"}
        /\ UNCHANGED <<removals, addedToLoop_, failed>>
     \/ /\ lpc = "down"   \* closeCallback_, that is removeConnection
        /\ IF serverAlive THEN removals' = removals + 1 /\ UNCHANGED failed
           ELSE failed' = failed \cup {"server"} /\ UNCHANGED removals
        /\ UNCHANGED addedToLoop_
     \/ /\ lpc = "destroying"
        /\ RemoveChannel
        /\ UNCHANGED removals
  /\ Continue(revents_)
  /\ UNCHANGED <<state_, reading_, events_, bufferVars, pending, delayed, otherVars,
                 inMap, serverAlive, socketVars, downs, crossed>>

-----------------------------------------------------------------------------
(* Other threads.                                                          *)

\* A user callback gives thread t a TcpConnectionPtr.
Share(t) ==
  /\ Exploring /\ lpc \in {"up", "message"} /\ t \notin holders
  /\ holders' = holders \cup {t}
  /\ UNCHANGED <<state_, reading_, channelVars, bufferVars, pending, delayed, lpc,
                 revents_, call, used, serverVars, socketVars, downs, crossed, failed>>

Release(t) ==
  /\ t \in holders /\ call[t] = "none"
  /\ holders' = holders \ {t}
  /\ UNCHANGED <<state_, reading_, channelVars, bufferVars, pending, delayed, lpc,
                 revents_, call, used, serverVars, socketVars, downs, crossed, failed>>

\* The test of state_ at the head of send, shutdown and forceClose.
CallTests(t, op) ==
  /\ Exploring /\ op \in OtherCalls /\ t \in holders /\ call[t] = "none"
  /\ \/ op \in {"send", "shutdown"} /\ state_ = "kConnected"
     \/ op = "forceClose" /\ Open
  /\ Len(pending) < MaxPending
  /\ call' = [call EXCEPT ![t] = op]
  /\ UNCHANGED <<state_, reading_, channelVars, bufferVars, pending, delayed, lpc,
                 revents_, holders, used, serverVars, socketVars, downs, crossed, failed>>

CallSets(t) ==
  /\ call[t] \in {"shutdown", "forceClose"}
  /\ SetDisconnecting
  /\ call' = [call EXCEPT ![t] = IF @ = "shutdown" THEN "shutdownSet"
                                                   ELSE "forceCloseSet"]
  /\ UNCHANGED <<reading_, channelVars, bufferVars, pending, delayed, lpc, revents_,
                 holders, used, serverVars, socketVars, downs, failed>>

CallQueues(t) ==
  /\ \/ /\ call[t] = "send"
        /\ \E m \in Messages \ used :
             /\ First(m)
             /\ pending' = Append(pending, [op |-> "sendInLoop", msg |-> m])
             /\ used' = used \cup {m}
     \/ call[t] = "shutdownSet" /\ Queue(pending, "shutdownInLoop") /\ UNCHANGED used
     \/ call[t] = "forceCloseSet" /\ Queue(pending, "forceCloseInLoop") /\ UNCHANGED used
  /\ call' = [call EXCEPT ![t] = "none"]
  /\ crossed' = (crossed \/ Ending)
  /\ UNCHANGED <<state_, reading_, channelVars, bufferVars, delayed, lpc, revents_,
                 holders, serverVars, socketVars, downs, failed>>

\* startRead and stopRead test nothing.
CallReads(t, op) ==
  /\ Exploring /\ op \in OtherCalls /\ t \in holders /\ call[t] = "none"
  /\ Len(pending) < MaxPending
  /\ \/ op = "startRead" /\ Queue(pending, "startReadInLoop")
     \/ op = "stopRead" /\ Queue(pending, "stopReadInLoop")
  /\ crossed' = (crossed \/ Ending)
  /\ UNCHANGED <<state_, reading_, channelVars, bufferVars, delayed, lpc, revents_,
                 otherVars, serverVars, socketVars, downs, failed>>

-----------------------------------------------------------------------------
(* The server's loop.                                                      *)

removeConnectionInLoop ==
  /\ removals > 0
  /\ removals' = removals - 1
  /\ \/ /\ serverAlive /\ inMap
        /\ inMap' = FALSE
        /\ Queue(pending, "connectDestroyed")
        /\ UNCHANGED failed
     \/ /\ ~serverAlive \/ ~inMap
        /\ failed' = failed \cup {IF serverAlive THEN "removeConnection" ELSE "server"}
        /\ UNCHANGED <<inMap, pending>>
  /\ UNCHANGED <<state_, reading_, channelVars, bufferVars, delayed, lpc, revents_,
                 otherVars, serverAlive, socketVars, downs, crossed>>

\* ~TcpServer.
DestroyServer ==
  /\ Exploring /\ serverAlive
  /\ serverAlive' = FALSE
  /\ inMap' = FALSE
  /\ IF inMap THEN Queue(pending, "connectDestroyed") ELSE UNCHANGED pending
  /\ crossed' = (crossed \/ removals > 0
                         \/ (inMap /\ state_ \notin {"kConnecting", "kConnected"}))
  /\ UNCHANGED <<state_, reading_, channelVars, bufferVars, delayed, lpc, revents_,
                 otherVars, removals, socketVars, downs, failed>>

-----------------------------------------------------------------------------
FunctorStep ==
  \/ connectEstablished \/ connectDestroyed \/ forceCloseInLoop
  \/ UserFunctor \/ UnsharedFunctor

EventStep == HandleHup \/ handleError \/ handleRead \/ handleWrite

UserStep ==
  \/ \E m \in Messages : UserSend(m)
  \/ UserShutdown \/ UserForceClose \/ forceCloseWithDelay \/ UserReads

CallEnds(t) == CallSets(t) \/ CallQueues(t)

OtherStep(t) ==
  \/ Share(t) \/ Release(t) \/ CallEnds(t)
  \/ \E op \in OtherCalls : CallTests(t, op) \/ CallReads(t, op)

Next ==
  /\ failed = {}
  /\ \/ FunctorStep
     \/ \E revents \in SUBSET {"hup", "err", "in", "out"} : Poll(revents)
     \/ EventStep
     \/ UserStep
     \/ UserReturns
     \/ DelayOver
     \/ \E t \in Others : OtherStep(t)
     \/ removeConnectionInLoop
     \/ DestroyServer

Spec == Init /\ [][Next]_vars

(***************************************************************************)
(* Fairness: the loops run, callbacks return, timers fire, threads finish  *)
(* their calls, and a peer that reads makes the socket writable.           *)
(***************************************************************************)
Flush == handleWrite /\ outputBuffer_' # outputBuffer_

FairSpec ==
  /\ Spec
  /\ SF_vars(failed = {} /\ FunctorStep)
  /\ WF_vars(failed = {} /\ EventStep)
  /\ WF_vars(failed = {} /\ UserReturns)
  /\ SF_vars(failed = {} /\ DelayOver)
  /\ SF_vars(failed = {} /\ Poll({"out"}))
  /\ SF_vars(failed = {} /\ Flush)
  /\ \A t \in Others : WF_vars(failed = {} /\ CallEnds(t))

-----------------------------------------------------------------------------
(* What send accepted goes out in order, nothing twice and nothing left    *)
(* out: the socket and outputBuffer_ together hold it (sendInLoop,         *)
(* handleWrite).                                                           *)
OutputInOrder == sent \o outputBuffer_ = accepted

(* Output that waits is watched for: it cannot be forgotten while the      *)
(* connection is open, whatever stopRead and startRead do to the Channel   *)
(* (sendInLoop, handleWrite, stopReadInLoop).  A shutdown that crosses the *)
(* end sets a closed connection to kDisconnecting and is excepted.         *)
OutputWatched == Open /\ ~crossed /\ outputBuffer_ # <<>> => "write" \in events_

(* shutdown does not cut off what was accepted before: the write side is   *)
(* shut down with nothing left to write (shutdownInLoop, handleWrite), as  *)
(* long as the connection is open.                                         *)
ShutdownAfterOutput == Open /\ ~crossed /\ writeClosed => outputBuffer_ = <<>>

(* The asserts of handleClose, connectEstablished, Channel::remove and     *)
(* removeConnectionInLoop hold, and nothing is used after its end, though  *)
(* functors are bound to this: unless a call of another thread or the end  *)
(* of the server crosses the end of the connection.                        *)
AssertsHold == ~crossed => failed = {}

(* When the last TcpConnectionPtr is gone the asserts of the destructors   *)
(* of TcpConnection and Channel hold, and the user was told once that the  *)
(* connection is down.                                                     *)
GoneInOrder ==
  ~Alive /\ ~crossed => state_ = "kDisconnected" /\ ~addedToLoop_ /\ downs = 1

(* A connection that is being closed, by shutdown, forceClose or           *)
(* forceCloseWithDelay, shuts its write side down or is disconnected.      *)
ClosingEnds ==
  state_ = "kDisconnecting" ~> writeClosed \/ state_ = "kDisconnected" \/ crossed

(* What the assert in Channel::remove says: it is called for a Channel     *)
(* without events.                                                         *)
RemovedIdle == "remove" \notin failed

Destroying ==
  lpc = "destroying" \/ \E i \in DOMAIN pending : pending[i].op = "connectDestroyed"

life ==
  CASE ~Alive -> "freed"
    [] Alive /\ state_ = "kConnecting" -> "connecting"
    [] Alive /\ state_ = "kDisconnected" -> "disconnected"
    [] OTHER -> "connected"

owner == IF inMap THEN "map" ELSE IF Destroying THEN "destroy" ELSE "none"

asked == lpc = "down" \/ removals > 0

Life == INSTANCE ConnLife WITH registered <- addedToLoop_

(* The connection lives as TcpServer relies on it: established, then       *)
(* disconnected, erased, destroyed and freed, each once and on its loop    *)
(* (connectEstablished, handleClose, removeConnectionInLoop,               *)
(* connectDestroyed), whatever other threads call.                         *)
ImplementsConnLife == Life!Spec
=============================================================================
