------------------------- MODULE TcpConnectionProofs ------------------------
(***************************************************************************)
(* A TcpConnection, for any messages, any number of chunks, any high water *)
(* mark, any threads and bounds on what waits.  Its output: nothing that   *)
(* send accepted is lost, forgotten or cut off by shutdown.  Its end: the  *)
(* asserts on its way hold, it is freed in order, and it implements        *)
(* ConnLife, unless a call crosses the end.                                *)
(***************************************************************************)
EXTENDS TcpConnection, SequenceTheorems, TLAPS

(* What is known of the state that matters to the output.                  *)
Types ==
  /\ pending \in Seq(Functor)
  /\ sent \in Seq(Chunk) /\ outputBuffer_ \in Seq(Chunk) /\ accepted \in Seq(Chunk)

(* Not closed, and no call has crossed the end.                            *)
Usable == state_ # "kDisconnected" /\ ~crossed

(* The Channel watches for writability exactly while output waits, and a   *)
(* write side that is shut down has nothing waiting.                       *)
Watching ==
  /\ "write" \in events_ => outputBuffer_ # <<>>
  /\ Usable /\ outputBuffer_ # <<>> => "write" \in events_
  /\ Usable /\ writeClosed => outputBuffer_ = <<>>

OutputInv == Types /\ OutputInOrder /\ Watching

-----------------------------------------------------------------------------
(* Functors that carry no message may be queued.                           *)
LEMMA Queues ==
  ASSUME NEW q \in Seq(Functor), NEW op \in (Shared \cup Unshared) \ {"sendInLoop"}
  PROVE  Append(q, [op |-> op]) \in Seq(Functor)
<1>1. [op |-> op] \in Functor
  BY Zenon DEF Functor
<1> QED
  BY <1>1, AppendProperties, Zenon

(* Output joined in either order is the same.                              *)
LEMMA ChunksJoin == \A s, t, u \in Seq(Chunk) : (s \o t) \o u = s \o (t \o u)
  BY SMTT(30)

(* The chunks of a message, cut in two.                                    *)
LEMMA DataCut ==
  ASSUME NEW m \in Messages, NEW n \in 0..Chunks
  PROVE  /\ Data(m) \in Seq(Chunk) /\ Len(Data(m)) = Chunks
         /\ SubSeq(Data(m), 1, n) \in Seq(Chunk)
         /\ SubSeq(Data(m), n + 1, Chunks) \in Seq(Chunk)
         /\ SubSeq(Data(m), 1, n) \o SubSeq(Data(m), n + 1, Chunks) = Data(m)
         /\ n < Chunks => SubSeq(Data(m), n + 1, Chunks) # <<>>
         /\ n = Chunks => SubSeq(Data(m), n + 1, Chunks) = <<>>
<1>1. Data(m) \in Seq(Chunk) /\ Len(Data(m)) = Chunks
  BY ChunksAssumption DEF Data, Chunk
<1>2. \A i \in 1..Chunks : Data(m)[i] \in Chunk
  BY Zenon DEF Data, Chunk
<1>3. Chunks \in Nat \ {0} /\ n \in Int /\ n + 1 \in Int /\ 1 \in Int /\ Chunks \in Int
  BY ChunksAssumption
<1>4. (\A i \in 1..n : i \in 1..Chunks) /\ (\A i \in (n + 1)..Chunks : i \in 1..Chunks)
  BY <1>3
<1>5. SubSeq(Data(m), 1, n) \in Seq(Chunk)
  BY <1>2, <1>3, <1>4, SubSeqProperties, Zenon
<1>6. /\ SubSeq(Data(m), n + 1, Chunks) \in Seq(Chunk)
      /\ Len(SubSeq(Data(m), n + 1, Chunks)) = IF n + 1 <= Chunks THEN Chunks - (n + 1) + 1 ELSE 0
  BY <1>2, <1>3, <1>4, SubSeqProperties
<1>7. SubSeq(Data(m), 1, n) \o SubSeq(Data(m), n + 1, Chunks) = Data(m)
  <2>1. 1 \in 1..(Len(Data(m)) + 1) /\ n \in (1 - 1)..Len(Data(m)) /\ Chunks \in n..Len(Data(m))
    BY <1>1, <1>3
  <2>2. SubSeq(Data(m), 1, n) \o SubSeq(Data(m), n + 1, Chunks) = SubSeq(Data(m), 1, Chunks)
    BY <1>1, <2>1, ConcatAdjacentSubSeq, Zenon
  <2> QED
    BY <1>1, <2>2, SubSeqFull, Zenon
<1>8. n < Chunks => SubSeq(Data(m), n + 1, Chunks) # <<>>
  <2>1. n < Chunks => Len(SubSeq(Data(m), n + 1, Chunks)) # 0
    BY <1>3, <1>6
  <2>2. Len(<<>>) = 0
    BY EmptySeq, Zenon
  <2> QED
    BY <2>1, <2>2, Zenon
<1>9. n = Chunks => SubSeq(Data(m), n + 1, Chunks) = <<>>
  BY <1>3, SubSeqEmpty
<1> QED
  BY <1>1, <1>5, <1>6, <1>7, <1>8, <1>9, Zenon

-----------------------------------------------------------------------------
(* A step that leaves the output alone, and what is watched too, keeps     *)
(* OutputInv.                                                              *)
LEMMA Kept ==
  ASSUME OutputInv, pending' \in Seq(Functor), UNCHANGED <<outputBuffer_, accepted, sent>>,
         "write" \in events_' <=> "write" \in events_,
         Usable' => Usable,
         writeClosed' => writeClosed \/ "write" \notin events_
  PROVE  OutputInv'
<1>1. Types'
  BY Zenon DEF OutputInv, Types
<1>2. OutputInOrder'
  BY Zenon DEF OutputInv, OutputInOrder
<1>3. Watching'
  BY Zenon DEF OutputInv, Watching
<1> QED
  BY <1>1, <1>2, <1>3, Zenon DEF OutputInv

(* A step that closes the connection keeps OutputInv: the output that      *)
(* waits is given up.                                                      *)
LEMMA Closed ==
  ASSUME OutputInv, pending' \in Seq(Functor), UNCHANGED <<outputBuffer_, accepted, sent>>,
         events_' = {}, state_' = "kDisconnected"
  PROVE  OutputInv'
<1>1. Types'
  BY Zenon DEF OutputInv, Types
<1>2. OutputInOrder'
  BY Zenon DEF OutputInv, OutputInOrder
<1>3. Watching'
  BY Zenon DEF Watching, Usable
<1> QED
  BY <1>1, <1>2, <1>3, Zenon DEF OutputInv

(* handleClose keeps OutputInv.                                            *)
LEMMA CloseStep ==
  ASSUME OutputInv, NEW queue \in Seq(Functor), NEW rest, handleClose(queue, rest)
  PROVE  OutputInv'
<1> USE DEF bufferVars, socketVars, channelVars
<1>1. CASE Fail("handleClose")
  BY <1>1, Kept, Zenon DEF Fail, Usable, OutputInv, Types
<1>2. CASE ~Fail("handleClose")
  BY <1>2, Closed, Zenon DEF handleClose, Update
<1> QED
  BY <1>1, <1>2, Zenon

(* The part of a message that the socket takes at once and the rest, which *)
(* is kept, follow what was accepted before.                               *)
LEMMA AcceptStep ==
  ASSUME OutputInv, NEW queue \in Seq(Functor), NEW m \in Messages, NEW n \in 0..Chunks,
         Accept(queue, m, n), n = 0 \/ WriteDirectly,
         writeClosed => "write" \in events_ \/ outputBuffer_ # <<>>,
         UNCHANGED <<state_, crossed, writeClosed>>
  PROVE  OutputInv'
<1> DEFINE now == SubSeq(Data(m), 1, n)
           later == SubSeq(Data(m), n + 1, Chunks)
<1>1. /\ sent \in Seq(Chunk) /\ outputBuffer_ \in Seq(Chunk) /\ accepted \in Seq(Chunk)
      /\ sent \o outputBuffer_ = accepted
  BY Zenon DEF OutputInv, Types, OutputInOrder
<1>2. /\ Data(m) \in Seq(Chunk) /\ now \in Seq(Chunk) /\ later \in Seq(Chunk)
      /\ now \o later = Data(m)
      /\ n < Chunks => later # <<>>
      /\ n = Chunks => later = <<>>
  BY DataCut, Zenon
<1>3. /\ sent' = sent \o now /\ outputBuffer_' = outputBuffer_ \o later
      /\ accepted' = accepted \o Data(m)
  BY Zenon DEF Accept
<1>4. n = 0 => now = <<>>
  BY SubSeqEmpty
<1>5. events_' = IF n = Chunks THEN events_ ELSE events_ \cup {"write"}
  BY Zenon DEF Accept, channelVars, Update
<1>6. pending' \in Seq(Functor)
  <2>1. pending' = Append(queue, [op |-> "callback"]) \/ pending' = queue
    BY Zenon DEF Accept, Queue
  <2>2. "callback" \in (Shared \cup Unshared) \ {"sendInLoop"}
    BY Zenon DEF Shared
  <2> QED
    BY <2>1, <2>2, Queues, Zenon
<1> HIDE DEF now, later
<1>7. Types'
  BY <1>1, <1>2, <1>3, <1>6, ConcatProperties, Zenon DEF Types
<1>8. OutputInOrder'
  <2>1. CASE n = 0
    <3>1. now = <<>> /\ later = Data(m)
      BY <1>2, <1>4, <2>1, ConcatEmptySeq, Zenon
    <3>2. sent' = sent
      BY <1>1, <1>3, <3>1, ConcatEmptySeq, Zenon
    <3>3. accepted = sent \o outputBuffer_ /\ sent \in Seq(Chunk) /\ outputBuffer_ \in Seq(Chunk)
      BY <1>1, Zenon
    <3>4. Data(m) \in Seq(Chunk)
      BY <1>2, Zenon
    <3>5. accepted \o Data(m) = (sent \o outputBuffer_) \o Data(m)
      BY <3>3, Zenon
    <3>6. (sent \o outputBuffer_) \o Data(m) = sent \o (outputBuffer_ \o Data(m))
      BY <3>3, <3>4, ChunksJoin, Zenon
    <3>7. sent' \o outputBuffer_' = sent \o (outputBuffer_ \o Data(m))
      BY <1>3, <3>1, <3>2, Zenon
    <3> QED
      BY <1>3, <3>5, <3>6, <3>7, Zenon DEF OutputInOrder
  <2>2. CASE outputBuffer_ = <<>>
    <3>1. accepted = sent /\ outputBuffer_' = later
      BY <1>1, <1>2, <1>3, <2>2, ConcatEmptySeq, Zenon
    <3>2. sent' = sent \o now /\ sent \in Seq(Chunk)
      BY <1>1, <1>3, Zenon
    <3>3. now \in Seq(Chunk) /\ later \in Seq(Chunk)
      BY <1>2, Zenon
    <3>4. sent' \o later = (sent \o now) \o later
      BY <3>2, Zenon
    <3>5. (sent \o now) \o later = sent \o (now \o later)
      BY <3>2, <3>3, ChunksJoin, Zenon
    <3>6. sent \o (now \o later) = accepted'
      BY <1>2, <1>3, <3>1, Zenon
    <3> QED
      BY <3>1, <3>4, <3>5, <3>6, Zenon DEF OutputInOrder
  <2> QED
    BY <2>1, <2>2, Zenon DEF WriteDirectly
<1>9. Watching'
  <2>1. outputBuffer_' = <<>> <=> outputBuffer_ = <<>> /\ later = <<>>
    BY <1>1, <1>2, <1>3, ConcatEqualIffEmpty
  <2>2. n < Chunks \/ n = Chunks
    BY ChunksAssumption
  <2>3. CASE n = Chunks
    BY <1>2, <1>5, <2>1, <2>3, Zenon DEF OutputInv, Watching, Usable
  <2>4. CASE n < Chunks
    <3>1. outputBuffer_' # <<>> /\ "write" \in events_'
      BY <1>2, <1>5, <2>1, <2>4, Zenon
    <3>2. Usable => ~writeClosed
      BY Zenon DEF OutputInv, Watching
    <3> QED
      BY <3>1, <3>2, Zenon DEF Watching, Usable
  <2> QED
    BY <2>2, <2>3, <2>4, Zenon
<1> QED
  BY <1>7, <1>8, <1>9, Zenon DEF OutputInv

(* sendInLoop keeps OutputInv.                                             *)
LEMMA SendStep ==
  ASSUME OutputInv, NEW queue \in Seq(Functor), NEW m \in Messages,
         sendInLoop(queue, m), UNCHANGED <<state_, crossed>>
  PROVE  OutputInv'
<1>1. UNCHANGED writeClosed /\ Chunks \in Nat
  BY ChunksAssumption, Zenon DEF sendInLoop
<1>2. CASE WriteDirectly /\ ~writeClosed /\ \E n \in 0..Chunks : Accept(queue, m, n)
  BY <1>1, <1>2, AcceptStep, Zenon
<1>3. CASE ~WriteDirectly /\ Accept(queue, m, 0)
  <2>1. 0 \in 0..Chunks
    BY <1>1
  <2> QED
    BY <1>1, <1>3, <2>1, AcceptStep, Zenon DEF WriteDirectly
<1>4. CASE pending' = queue /\ UNCHANGED <<sent, bufferVars, channelVars>>
  BY <1>1, <1>4, Kept, Zenon DEF bufferVars, channelVars, Usable
<1> QED
  BY <1>2, <1>3, <1>4, Zenon DEF sendInLoop

(* What the socket takes of the output moves to its end.                   *)
LEMMA WrittenStep ==
  ASSUME OutputInv, NEW n \in 1..Len(outputBuffer_), Written(n), "write" \in events_,
         UNCHANGED <<state_, crossed, accepted>>
  PROVE  OutputInv'
<1> DEFINE len == Len(outputBuffer_)
           gone == SubSeq(outputBuffer_, 1, n)
           rest == SubSeq(outputBuffer_, n + 1, len)
<1>1. /\ sent \in Seq(Chunk) /\ outputBuffer_ \in Seq(Chunk) /\ accepted \in Seq(Chunk)
      /\ pending \in Seq(Functor) /\ sent \o outputBuffer_ = accepted
  BY Zenon DEF OutputInv, Types, OutputInOrder
<1>2. len \in Nat /\ \A i \in 1..len : outputBuffer_[i] \in Chunk
  BY <1>1, LenProperties, ElementOfSeq, Zenon
<1>3. sent' = sent \o gone /\ outputBuffer_' = rest
  BY Zenon DEF Written
<1>4. gone \o rest = outputBuffer_
  <2>1. 1 \in 1..(len + 1) /\ n \in (1 - 1)..len /\ len \in n..len
    BY <1>2
  <2>2. gone \o rest = SubSeq(outputBuffer_, 1, len)
    BY <1>1, <2>1, ConcatAdjacentSubSeq, Zenon
  <2> QED
    BY <1>1, <2>2, SubSeqFull, Zenon
<1>5. /\ gone \in Seq(Chunk)
      /\ rest \in Seq(Chunk) /\ Len(rest) = IF n + 1 <= len THEN len - (n + 1) + 1 ELSE 0
  <2> HIDE DEF len
  <2>1. /\ 1 \in Int /\ n \in Int /\ n + 1 \in Int /\ len \in Int
        /\ (\A i \in 1..n : i \in 1..len) /\ (\A i \in (n + 1)..len : i \in 1..len)
    BY <1>2 DEF len
  <2>2. gone \in Seq(Chunk)
    BY <1>2, <2>1, SubSeqProperties, Zenon
  <2>3. rest \in Seq(Chunk) /\ Len(rest) = IF n + 1 <= len THEN len - (n + 1) + 1 ELSE 0
    BY <1>2, <2>1, SubSeqProperties, Zenon
  <2> QED
    BY <2>2, <2>3, Zenon
<1>6. n = len => rest = <<>>
  BY <1>2, SubSeqEmpty
<1> HIDE DEF gone, rest
<1>7. n < len => rest # <<>>
  <2>1. n < len => Len(rest) # 0
    BY <1>2, <1>5
  <2>2. Len(<<>>) = 0
    BY EmptySeq, Zenon
  <2> QED
    BY <2>1, <2>2, Zenon
<1>8. pending' \in Seq(Functor)
  <2>1. pending' = Append(pending, [op |-> "callback"]) \/ pending' = pending
    BY Zenon DEF Written, Queue
  <2>2. "callback" \in (Shared \cup Unshared) \ {"sendInLoop"}
    BY Zenon DEF Shared
  <2> QED
    BY <1>1, <2>1, <2>2, Queues, Zenon
<1>9. Types'
  BY <1>1, <1>3, <1>5, <1>8, ConcatProperties, Zenon DEF Types
<1>10. OutputInOrder'
  <2>1. sent' \o outputBuffer_' = (sent \o gone) \o rest
    BY <1>3, Zenon
  <2>2. (sent \o gone) \o rest = sent \o (gone \o rest)
    <3>1. sent \in Seq(Chunk) /\ gone \in Seq(Chunk) /\ rest \in Seq(Chunk)
      BY <1>1, <1>5, Zenon
    <3> QED
      BY <3>1, ChunksJoin, ZenonT(60)
  <2>3. sent \o (gone \o rest) = accepted
    BY <1>1, <1>4, Zenon
  <2> QED
    BY <2>1, <2>2, <2>3, Zenon DEF OutputInOrder
<1>11. Watching'
  <2>1. CASE n < len
    <3>1. UNCHANGED <<events_, writeClosed>> /\ outputBuffer_' # <<>>
      BY <1>3, <1>7, <2>1, Zenon DEF Written, channelVars
    <3>2. outputBuffer_ # <<>>
      BY Zenon DEF OutputInv, Watching
    <3> QED
      BY <3>1, <3>2, Zenon DEF OutputInv, Watching, Usable
  <2>2. CASE n = len
    <3>1. events_' = events_ \ {"write"} /\ outputBuffer_' = <<>>
      BY <1>2, <1>3, <1>6, <2>2 DEF Written, Update
    <3> QED
      BY <3>1, Zenon DEF Watching
  <2> QED
    BY <1>2, <2>1, <2>2
<1> QED
  BY <1>9, <1>10, <1>11, Zenon DEF OutputInv

-----------------------------------------------------------------------------
(* setState(kDisconnecting) makes nothing usable that was closed.          *)
LEMMA SettingKeeps ==
  ASSUME SetDisconnecting
  PROVE  Usable' => Usable
BY Zenon DEF SetDisconnecting, Usable, Ending

(* The functors keep OutputInv.                                            *)
LEMMA OutputFunctors ==
  ASSUME OutputInv, FunctorStep
  PROVE  OutputInv'
<1> USE DEF bufferVars, socketVars, channelVars
<1>1. pending \in Seq(Functor) /\ pending # <<>>
  BY Zenon DEF FunctorStep, connectEstablished, connectDestroyed, forceCloseInLoop,
     UserFunctor,
         UnsharedFunctor, CallFunctor, OutputInv, Types
<1>2. Tail(pending) \in Seq(Functor) /\ Head(pending) \in Functor
  BY <1>1, HeadTailProperties, Zenon
<1>3. \A what : Fail(what) => OutputInv'
  BY <1>1, Kept DEF Fail, Usable
<1>4. CASE connectEstablished
  <2>1. CASE state_ # "kConnecting"
    BY <1>3, <1>4, <2>1, Zenon DEF connectEstablished
  <2>2. CASE state_ = "kConnecting"
    BY <1>2, <1>4, <2>2, Kept DEF connectEstablished, Usable, Update
  <2> QED
    BY <2>1, <2>2, Zenon
<1>5. CASE connectDestroyed
  <2>1. CASE state_ = "kConnected"
    BY <1>2, <1>5, <2>1, Closed, Zenon DEF connectDestroyed, Update
  <2>2. CASE state_ # "kConnected"
    BY <1>2, <1>5, <2>2, Kept, Zenon DEF connectDestroyed, Usable
  <2> QED
    BY <2>1, <2>2, Zenon
<1>6. CASE forceCloseInLoop
  <2>1. CASE Open
    BY <1>2, <1>6, <2>1, CloseStep, Zenon DEF forceCloseInLoop
  <2>2. CASE ~Open
    BY <1>2, <1>6, <2>2, Kept DEF forceCloseInLoop, Usable
  <2> QED
    BY <2>1, <2>2, Zenon
<1>7. CASE UserFunctor
  BY <1>2, <1>7, Kept, Zenon DEF UserFunctor, Usable
<1>8. CASE UnsharedFunctor
  <2>1. CASE ~Alive
    BY <1>3, <1>8, <2>1, Zenon DEF UnsharedFunctor
  <2>2. CASE Alive
    <3> DEFINE f == Head(pending)
    <3>1. /\ \/ f.op = "sendInLoop" /\ sendInLoop(Tail(pending), f.msg) /\ UNCHANGED crossed
             \/ /\ shutdownInLoop /\ pending' = Tail(pending)
                /\ UNCHANGED <<events_, outputBuffer_, accepted, sent, crossed>>
             \/ /\ startReadInLoop \/ stopReadInLoop
                /\ pending' = Tail(pending) /\ crossed' = (crossed \/ Ending)
                /\ UNCHANGED <<outputBuffer_, accepted, sent, writeClosed>>
          /\ UNCHANGED state_
      BY <1>8, <2>2, Zenon DEF UnsharedFunctor
    <3>2. CASE f.op = "sendInLoop" /\ sendInLoop(Tail(pending), f.msg) /\ UNCHANGED crossed
      <4>1. f.msg \in Messages
        BY <1>2, <3>2, Zenon DEF Functor
      <4> QED
        BY <1>2, <3>1, <3>2, <4>1, SendStep, Zenon
    <3>3. CASE /\ shutdownInLoop /\ pending' = Tail(pending)
               /\ UNCHANGED <<events_, outputBuffer_, accepted, sent, crossed>>
      BY <1>2, <3>1, <3>3, Kept, Zenon DEF shutdownInLoop, Usable
    <3>4. CASE /\ startReadInLoop \/ stopReadInLoop
               /\ pending' = Tail(pending) /\ crossed' = (crossed \/ Ending)
               /\ UNCHANGED <<outputBuffer_, accepted, sent, writeClosed>>
      <4>1. "write" \in events_' <=> "write" \in events_
        BY <3>4 DEF startReadInLoop, stopReadInLoop, Update
      <4>2. Usable' => Usable
        BY <3>1, <3>4, Zenon DEF Usable
      <4> QED
        BY <1>2, <3>4, <4>1, <4>2, Kept, Zenon
    <3> QED
      BY <3>1, <3>2, <3>3, <3>4, Zenon
  <2> QED
    BY <2>1, <2>2, Zenon
<1> QED
  BY <1>4, <1>5, <1>6, <1>7, <1>8, Zenon DEF FunctorStep

(* The events of the Channel keep OutputInv.                               *)
LEMMA OutputEvents ==
  ASSUME OutputInv, EventStep \/ \E revents \in SUBSET {"hup", "err", "in", "out"} : Poll(revents)
  PROVE  OutputInv'
<1> USE DEF bufferVars, socketVars, channelVars
<1>1. pending \in Seq(Functor)
  BY Zenon DEF OutputInv, Types
<1>2. UNCHANGED <<state_, crossed, outputBuffer_, accepted, events_, pending, sent, writeClosed>>
        => OutputInv'
  BY <1>1, Kept DEF Usable
<1>3. CASE \E revents \in SUBSET {"hup", "err", "in", "out"} : Poll(revents)
  BY <1>2, <1>3, Zenon DEF Poll
<1>4. CASE HandleHup
  <2>1. CASE handleClose(pending, revents_ \ {"hup"})
    BY <1>1, <2>1, CloseStep, Zenon
  <2> QED
    BY <1>2, <1>4, <2>1, Zenon DEF HandleHup
<1>5. CASE handleError
  BY <1>2, <1>5, Zenon DEF handleError
<1>6. CASE handleRead
  <2>1. CASE handleClose(pending, revents_ \ {"in"})
    BY <1>1, <2>1, CloseStep, Zenon
  <2> QED
    BY <1>2, <1>6, <2>1, Zenon DEF handleRead
<1>7. CASE handleWrite
  <2>1. UNCHANGED <<state_, crossed, accepted>>
    BY <1>7, Zenon DEF handleWrite
  <2>2. CASE "write" \in events_ /\ \E n \in 1..Len(outputBuffer_) : Written(n)
    BY <2>1, <2>2, WrittenStep, Zenon
  <2>3. CASE UNCHANGED <<channelVars, outputBuffer_, pending, socketVars>>
    BY <1>2, <2>1, <2>3, Zenon
  <2> QED
    BY <1>7, <2>2, <2>3, Zenon DEF handleWrite
<1> QED
  BY <1>3, <1>4, <1>5, <1>6, <1>7, Zenon DEF EventStep

(* User code on the loop keeps OutputInv.                                  *)
LEMMA OutputUser ==
  ASSUME OutputInv, UserStep \/ UserReturns \/ DelayOver
  PROVE  OutputInv'
<1> USE DEF bufferVars, socketVars, channelVars
<1>1. pending \in Seq(Functor)
  BY Zenon DEF OutputInv, Types
<1>2. Append(pending, [op |-> "forceCloseInLoop"]) \in Seq(Functor)
  <2>1. "forceCloseInLoop" \in (Shared \cup Unshared) \ {"sendInLoop"}
    BY Zenon DEF Shared
  <2> QED
    BY <1>1, <2>1, Queues, Zenon
<1>3. CASE \E m \in Messages : UserSend(m)
  BY <1>1, <1>3, SendStep, Zenon DEF UserSend
<1>4. CASE UserShutdown
  <2>1. UNCHANGED <<outputBuffer_, accepted, sent, events_, pending>> /\ shutdownInLoop
    BY <1>4, Zenon DEF UserShutdown
  <2>2. Usable' => Usable
    BY <1>4, SettingKeeps, Zenon DEF UserShutdown
  <2> QED
    BY <1>1, <2>1, <2>2, Kept, Zenon DEF shutdownInLoop
<1>5. CASE UserForceClose \/ forceCloseWithDelay
  <2>1. UNCHANGED <<outputBuffer_, accepted, sent, events_, writeClosed>> /\ pending' \in Seq(Functor)
    BY <1>1, <1>2, <1>5, Zenon DEF UserForceClose, forceCloseWithDelay, Queue
  <2>2. Usable' => Usable
    BY <1>5, SettingKeeps, Zenon DEF UserForceClose, forceCloseWithDelay
  <2> QED
    BY <2>1, <2>2, Kept, Zenon
<1>6. CASE UserReads
  <2>1. UNCHANGED <<outputBuffer_, accepted, sent, writeClosed, pending>>
    BY <1>6, Zenon DEF UserReads
  <2>2. Usable' => Usable
    BY <1>6, Zenon DEF UserReads, Usable
  <2>3. "write" \in events_' <=> "write" \in events_
    BY <1>6 DEF UserReads, startReadInLoop, stopReadInLoop, Update
  <2> QED
    BY <1>1, <2>1, <2>2, <2>3, Kept, Zenon
<1>7. CASE UserReturns
  BY <1>1, <1>7, Kept, Zenon DEF UserReturns, Usable
<1>8. CASE DelayOver
  <2>1. UNCHANGED <<outputBuffer_, accepted, sent, events_, writeClosed>> /\ pending' \in Seq(Functor)
    BY <1>1, <1>2, <1>8, Zenon DEF DelayOver, Queue
  <2>2. Usable' => Usable
    BY <1>8, SettingKeeps, Zenon DEF DelayOver, Usable
  <2> QED
    BY <2>1, <2>2, Kept, Zenon
<1> QED
  BY <1>3, <1>4, <1>5, <1>6, <1>7, <1>8, Zenon DEF UserStep

(* Other threads and the server keep OutputInv.                            *)
LEMMA OutputOthers ==
  ASSUME OutputInv,
         (\E t \in Others : OtherStep(t)) \/ removeConnectionInLoop \/ DestroyServer
  PROVE  OutputInv'
<1> USE DEF bufferVars, socketVars, channelVars
<1>1. pending \in Seq(Functor)
  BY Zenon DEF OutputInv, Types
<1>2. \A op \in (Shared \cup Unshared) \ {"sendInLoop"} : Append(pending, [op |-> op]) \in Seq(Functor)
  BY <1>1, Queues, Zenon
<1>3. {"shutdownInLoop", "forceCloseInLoop", "startReadInLoop", "stopReadInLoop", "connectDestroyed"}
        \subseteq (Shared \cup Unshared) \ {"sendInLoop"}
  BY Zenon DEF Shared, Unshared
<1>4. \A m \in Messages : Append(pending, [op |-> "sendInLoop", msg |-> m]) \in Seq(Functor)
  <2>1. \A m \in Messages : [op |-> "sendInLoop", msg |-> m] \in Functor
    BY Zenon DEF Functor
  <2> QED
    BY <1>1, <2>1, AppendProperties, Zenon
<1>5. ASSUME NEW t \in Others, OtherStep(t)
      PROVE  /\ UNCHANGED <<outputBuffer_, accepted, sent, events_, writeClosed>>
             /\ Usable' => Usable
             /\ pending' \in Seq(Functor)
  <2>1. CASE Share(t) \/ Release(t)
    BY <1>1, <2>1 DEF Share, Release, Usable
  <2>2. CASE CallSets(t)
    BY <1>1, <2>2, SettingKeeps, Zenon DEF CallSets
  <2>3. CASE CallQueues(t)
    <3>1. pending' \in Seq(Functor)
      BY <1>2, <1>3, <1>4, <2>3, Zenon DEF CallQueues, Queue
    <3> QED
      BY <2>3, <3>1, Zenon DEF CallQueues, Usable
  <2>4. CASE \E op \in OtherCalls : CallTests(t, op)
    BY <1>1, <2>4 DEF CallTests, Usable
  <2>5. CASE \E op \in OtherCalls : CallReads(t, op)
    <3>1. pending' \in Seq(Functor)
      BY <1>2, <1>3, <2>5, Zenon DEF CallReads, Queue
    <3> QED
      BY <2>5, <3>1, Zenon DEF CallReads, Usable
  <2> QED
    BY <1>5, <2>1, <2>2, <2>3, <2>4, <2>5, Zenon DEF OtherStep, CallEnds
<1>6. CASE \E t \in Others : OtherStep(t)
  BY <1>5, <1>6, Kept, Zenon
<1>7. CASE removeConnectionInLoop \/ DestroyServer
  <2>1. pending' \in Seq(Functor)
    BY <1>1, <1>2, <1>3, <1>7, Zenon DEF removeConnectionInLoop, DestroyServer, Queue
  <2>2. UNCHANGED <<outputBuffer_, accepted, sent, events_, writeClosed>> /\ (Usable' => Usable)
    <3>1. CASE removeConnectionInLoop
      BY <3>1, Zenon DEF removeConnectionInLoop, Usable
    <3>2. CASE DestroyServer
      <4>1. /\ UNCHANGED <<outputBuffer_, accepted, sent, events_, writeClosed, state_>>
            /\ crossed => crossed'
        BY <3>2, Zenon DEF DestroyServer
      <4> QED
        BY <4>1, Zenon DEF Usable
    <3> QED
      BY <1>7, <3>1, <3>2, Zenon
  <2> QED
    BY <2>1, <2>2, Kept, Zenon
<1> QED
  BY <1>6, <1>7, Zenon

(* OutputInv is an invariant.                                              *)
LEMMA OutputInductive == Spec => []OutputInv
<1>1. Init => OutputInv
  <2> SUFFICES ASSUME Init PROVE OutputInv
    BY Zenon
  <2>1. [op |-> "connectEstablished"] \in Functor
    BY Zenon DEF Functor, Shared
  <2>2. Types
    BY <2>1 DEF Init, NewTcpConnection, Types
  <2>3. OutputInOrder
    BY DEF Init, NewTcpConnection, OutputInOrder
  <2>4. Watching
    BY Zenon DEF Init, NewTcpConnection, NewChannel, Watching
  <2> QED
    BY <2>2, <2>3, <2>4, Zenon DEF OutputInv
<1>2. OutputInv /\ [Next]_vars => OutputInv'
  <2> SUFFICES ASSUME OutputInv, [Next]_vars PROVE OutputInv'
    BY Zenon
  <2>1. CASE Next
    BY <2>1, OutputFunctors, OutputEvents, OutputUser, OutputOthers, Zenon DEF Next
  <2>2. CASE UNCHANGED vars
    <3>1. UNCHANGED <<state_, crossed, outputBuffer_, accepted, events_, pending, sent, writeClosed>>
      BY <2>2, Zenon DEF vars, bufferVars, channelVars, socketVars
    <3> QED
      BY <3>1, Kept, Zenon DEF OutputInv, Types, Usable
  <2> QED
    BY <2>1, <2>2, Zenon
<1> QED
  BY <1>1, <1>2, PTL DEF Spec

(* The socket and outputBuffer_ together hold all that send accepted, in   *)
(* order and nothing twice, however the socket and the threads cut it up   *)
(* (sendInLoop, handleWrite).                                              *)
THEOREM OutputTheorem == Spec => []OutputInOrder
<1>1. OutputInv => OutputInOrder
  BY Zenon DEF OutputInv
<1> QED
  BY <1>1, OutputInductive, PTL

(* Output that waits is watched for as long as the connection is open,     *)
(* whatever startRead and stopRead do (sendInLoop, handleWrite).           *)
THEOREM WatchedTheorem == Spec => []OutputWatched
<1>1. OutputInv => OutputWatched
  BY Zenon DEF OutputInv, Watching, OutputWatched, Usable, Open
<1> QED
  BY <1>1, OutputInductive, PTL

(* The write side of an open connection is shut down only with nothing     *)
(* left to write (shutdownInLoop, handleWrite).                            *)
THEOREM ShutdownTheorem == Spec => []ShutdownAfterOutput
<1>1. OutputInv => ShutdownAfterOutput
  BY Zenon DEF OutputInv, Watching, ShutdownAfterOutput, Usable, Open
<1> QED
  BY <1>1, OutputInductive, PTL

-----------------------------------------------------------------------------
(* The types of what is neither output nor a flag.                         *)
Control ==
  /\ state_ \in {"kConnecting", "kConnected", "kDisconnecting", "kDisconnected"}
  /\ events_ \subseteq {"read", "write"}
  /\ lpc \in {"idle", "dispatch"} \cup UserCode
  /\ revents_ \subseteq {"hup", "err", "in", "out"}
  /\ call \in [Others -> {"none", "send", "shutdown", "forceClose",
                          "shutdownSet", "forceCloseSet"}]
  /\ holders \subseteq Others /\ used \subseteq Messages
  /\ removals \in Nat
  /\ downs \in 0..2

Flags ==
  /\ reading_ \in BOOLEAN /\ addedToLoop_ \in BOOLEAN /\ delayed \in BOOLEAN
  /\ inMap \in BOOLEAN /\ serverAlive \in BOOLEAN
  /\ writeClosed \in BOOLEAN /\ crossed \in BOOLEAN

(* The count of connectionCallback_ calls stops at 2.                      *)
LEMMA DownsCount ==
  ASSUME downs \in 0..2, DownCalled
  PROVE  downs' \in 0..2
<1>1. downs \in Nat /\ downs <= 2
  OBVIOUS
<1>2. downs' = downs + 1 \/ downs' = 2
  BY Zenon DEF DownCalled
<1>3. downs' = 2 \/ downs < 2
  BY Zenon DEF DownCalled
<1> QED
  BY <1>1, <1>2, <1>3

(* Every step keeps the types of what is neither output nor a flag.        *)
LEMMA ControlStep ==
  ASSUME Control, [Next]_vars
  PROVE  Control'
<1> USE DEF Control, channelVars, otherVars, serverVars, UserCode, Update, Fail,
            SetDisconnecting, Continue
<1>1. ASSUME NEW queue, NEW rest \in SUBSET {"hup", "err", "in", "out"}, handleClose(queue, rest)
      PROVE  Control'
  BY <1>1, DownsCount, Zenon DEF handleClose
<1>2. CASE connectEstablished
  BY <1>2, Zenon DEF connectEstablished
<1>3. CASE connectDestroyed
  BY <1>3, DownsCount, Zenon DEF connectDestroyed
<1>4. CASE forceCloseInLoop
  BY <1>1, <1>4, Zenon DEF forceCloseInLoop
<1>5. CASE UserFunctor
  BY <1>5, Zenon DEF UserFunctor
<1>6. ASSUME NEW queue, NEW m, sendInLoop(queue, m)
      PROVE  events_' \subseteq {"read", "write"}
  BY <1>6, Zenon DEF sendInLoop, Accept
<1>7. CASE UnsharedFunctor
  BY <1>6, <1>7, Zenon DEF UnsharedFunctor, startReadInLoop, stopReadInLoop
<1>8. CASE \E revents \in SUBSET {"hup", "err", "in", "out"} : Poll(revents)
  BY <1>8, Zenon DEF Poll
<1>9. CASE HandleHup
  BY <1>1, <1>9, Zenon DEF HandleHup
<1>10. CASE handleError
  BY <1>10, Zenon DEF handleError
<1>11. CASE handleRead
  BY <1>1, <1>11, Zenon DEF handleRead
<1>12. CASE handleWrite
  BY <1>12, Zenon DEF handleWrite, Written
<1>13. CASE \E m \in Messages : UserSend(m)
  BY <1>6, <1>13, Zenon DEF UserSend
<1>14. CASE UserShutdown \/ UserForceClose \/ forceCloseWithDelay
  BY <1>14, Zenon DEF UserShutdown, UserForceClose, forceCloseWithDelay
<1>15. CASE UserReads
  BY <1>15, ZenonT(30) DEF UserReads, startReadInLoop, stopReadInLoop
<1>16. CASE UserReturns
  BY <1>16 DEF UserReturns
<1>17. CASE DelayOver
  BY <1>17, Zenon DEF DelayOver
<1>18. ASSUME NEW t \in Others, OtherStep(t)
       PROVE  Control'
  <2>1. CASE Share(t) \/ Release(t)
    BY <2>1, Zenon DEF Share, Release
  <2>2. CASE CallSets(t)
    BY <2>2, Zenon DEF CallSets
  <2>3. CASE CallQueues(t)
    BY <2>3, ZenonT(30) DEF CallQueues
  <2>4. CASE \E op \in OtherCalls : CallTests(t, op)
    BY <2>4 DEF CallTests
  <2>5. CASE \E op \in OtherCalls : CallReads(t, op)
    BY <2>5, Zenon DEF CallReads
  <2> QED
    BY <1>18, <2>1, <2>2, <2>3, <2>4, <2>5, Zenon DEF OtherStep, CallEnds
<1>19. CASE removeConnectionInLoop
  BY <1>19 DEF removeConnectionInLoop
<1>20. CASE DestroyServer
  BY <1>20, Zenon DEF DestroyServer
<1>21. CASE UNCHANGED vars
  BY <1>21, Zenon DEF vars
<1> QED
  BY <1>2, <1>3, <1>4, <1>5, <1>7, <1>8, <1>9, <1>10, <1>11, <1>12, <1>13, <1>14, <1>15,
     <1>16, <1>17, <1>18, <1>19, <1>20, <1>21, ZenonT(30)
     DEF Next, FunctorStep, EventStep, UserStep

(* Every step keeps the flags Boolean.                                     *)
LEMMA FlagsStep ==
  ASSUME Flags, [Next]_vars
  PROVE  Flags'
<1> USE DEF Flags, channelVars, socketVars, serverVars, Update, Fail, SetDisconnecting, DownCalled
<1>1. ASSUME NEW queue, NEW rest, handleClose(queue, rest)
      PROVE  Flags'
  BY <1>1, Zenon DEF handleClose
<1>2. CASE FunctorStep
  <2>1. CASE connectEstablished \/ connectDestroyed \/ UserFunctor
    BY <2>1, ZenonT(30) DEF connectEstablished, connectDestroyed, UserFunctor, RemoveChannel
  <2>2. CASE forceCloseInLoop
    BY <1>1, <2>2, Zenon DEF forceCloseInLoop
  <2>3. CASE UnsharedFunctor
    BY <2>3, ZenonT(30) DEF UnsharedFunctor, sendInLoop, Accept, shutdownInLoop,
                            startReadInLoop, stopReadInLoop
  <2> QED
    BY <1>2, <2>1, <2>2, <2>3, Zenon DEF FunctorStep
<1>3. CASE EventStep \/ \E revents \in SUBSET {"hup", "err", "in", "out"} : Poll(revents)
  <2>1. CASE \E revents \in SUBSET {"hup", "err", "in", "out"} : Poll(revents)
    BY <2>1, Zenon DEF Poll
  <2>2. CASE HandleHup
    BY <1>1, <2>2, Zenon DEF HandleHup
  <2>3. CASE handleError
    BY <2>3, Zenon DEF handleError
  <2>4. CASE handleRead
    BY <1>1, <2>4, Zenon DEF handleRead
  <2>5. CASE handleWrite
    BY <2>5, Zenon DEF handleWrite, Written
  <2> QED
    BY <1>3, <2>1, <2>2, <2>3, <2>4, <2>5, Zenon DEF EventStep
<1>4. CASE UserStep
  <2>1. CASE \E m \in Messages : UserSend(m)
    BY <2>1, ZenonT(60) DEF UserSend, sendInLoop, Accept
  <2>2. CASE UserShutdown
    BY <2>2, Zenon DEF UserShutdown, shutdownInLoop
  <2>3. CASE UserForceClose \/ forceCloseWithDelay
    BY <2>3, Zenon DEF UserForceClose, forceCloseWithDelay
  <2>4. CASE UserReads
    BY <2>4, Zenon DEF UserReads, startReadInLoop, stopReadInLoop
  <2> QED
    BY <1>4, <2>1, <2>2, <2>3, <2>4, Zenon DEF UserStep
<1>5. CASE UserReturns \/ DelayOver
  BY <1>5, Zenon DEF UserReturns, DelayOver, RemoveChannel
<1>6. ASSUME NEW t \in Others, OtherStep(t)
      PROVE  Flags'
  <2>1. CASE Share(t) \/ Release(t)
    BY <2>1, Zenon DEF Share, Release
  <2>2. CASE CallEnds(t)
    BY <2>2, Zenon DEF CallEnds, CallSets, CallQueues
  <2>3. CASE \E op \in OtherCalls : CallTests(t, op) \/ CallReads(t, op)
    BY <2>3, Zenon DEF CallTests, CallReads
  <2> QED
    BY <1>6, <2>1, <2>2, <2>3, Zenon DEF OtherStep
<1>7. CASE removeConnectionInLoop \/ DestroyServer
  BY <1>7, Zenon DEF removeConnectionInLoop, DestroyServer
<1>8. CASE UNCHANGED vars
  BY <1>8, Zenon DEF vars
<1> QED
  BY <1>2, <1>3, <1>4, <1>5, <1>6, <1>7, <1>8, Zenon DEF Next

(* All variables keep their types: only the functors that the methods of   *)
(* TcpConnection and TcpServer bind are queued, and only chunks of the     *)
(* messages passed to send are buffered and written.                       *)
THEOREM ConnTypes == Spec => []TypeOK
<1>1. Init => Control
  BY DEF Init, NewTcpConnection, NewChannel, Control
<1>2. Init => Flags
  BY Zenon DEF Init, NewTcpConnection, NewChannel, Flags
<1>3. Control /\ [Next]_vars => Control'
  BY ControlStep, Zenon
<1>4. Flags /\ [Next]_vars => Flags'
  BY FlagsStep, Zenon
<1>5. Control /\ Flags /\ OutputInv => TypeOK
  BY Zenon DEF Control, Flags, OutputInv, Types, TypeOK
<1> QED
  BY <1>1, <1>2, <1>3, <1>4, <1>5, OutputInductive, PTL DEF Spec

-----------------------------------------------------------------------------
(* How a connection ends.                                                  *)

(* connectDestroyed waits in queue q.                                      *)
Destroys(q) == \E i \in DOMAIN q : q[i].op = "connectDestroyed"

(* The order in queue q: connectEstablished is first, connectDestroyed is  *)
(* there once and only when the server has let go, and then the functors   *)
(* that are bound to this come before it.                                  *)
QueueOK(q, connecting, mapped) ==
  /\ \A i \in DOMAIN q : q[i].op = "connectEstablished" => i = 1 /\ connecting
  /\ \A i, j \in DOMAIN q :
       q[i].op = "connectDestroyed" /\ q[j].op = "connectDestroyed" => i = j
  /\ mapped => ~Destroys(q)
  /\ \A i \in DOMAIN q : q[i].op \in Unshared =>
       mapped \/ \E j \in DOMAIN q : j > i /\ q[j].op = "connectDestroyed"

QueueInv == QueueOK(pending, state_ = "kConnecting", inMap)

(* Before connectEstablished.                                              *)
Unborn ==
  /\ pending # <<>> /\ Head(pending).op = "connectEstablished"
  /\ lpc = "idle" /\ holders = {} /\ events_ = {} /\ ~addedToLoop_ /\ ~delayed
  /\ downs = 0 /\ removals = 0
  /\ inMap \/ (Destroys(pending) /\ ~serverAlive)

(* Connected: the map holds the connection, or the server is gone and has  *)
(* queued connectDestroyed.                                                *)
Living ==
  /\ addedToLoop_ /\ downs = 0 /\ removals = 0
  /\ lpc \notin {"down", "destroying"}
  /\ inMap \/ (state_ = "kConnected" /\ Destroys(pending) /\ ~serverAlive)

(* On the way from handleClose to removeConnectionInLoop.                  *)
Erasing ==
  /\ inMap /\ addedToLoop_ /\ lpc # "destroying"
  /\ (lpc = "down" /\ removals = 0) \/ (lpc # "down" /\ removals = 1)

(* connectDestroyed waits, or has called the user.                         *)
Dying ==
  /\ ~inMap /\ addedToLoop_ /\ lpc # "down" /\ removals = 0
  /\ Destroys(pending) <=> lpc # "destroying"

(* connectDestroyed is over.                                               *)
Dead ==
  /\ ~inMap /\ ~addedToLoop_ /\ removals = 0
  /\ lpc \notin {"down", "destroying"} /\ ~Destroys(pending)

Ended ==
  /\ events_ = {} /\ downs = 1 /\ revents_ \cap {"hup", "in"} = {}
  /\ Erasing \/ Dying \/ Dead

Phases ==
  /\ failed = {}
  /\ inMap => serverAlive
  /\ state_ = "kConnecting" => Unborn
  /\ Open => Living
  /\ state_ = "kDisconnected" => Ended

Calls ==
  /\ \A t \in Others : call[t] # "none" => t \in holders
  /\ lpc = "idle" => revents_ = {}

LifeInv == Calls /\ (~crossed => QueueInv /\ Phases)

Typed == pending \in Seq(Functor) /\ Control

Before == Typed /\ Calls /\ QueueInv /\ Phases
After == QueueInv' /\ Phases'

-----------------------------------------------------------------------------
(* The functor that is called leaves the queue in order, and nothing in it *)
(* establishes the connection any more.                                    *)
LEMMA TailOK ==
  ASSUME NEW q \in Seq(Functor), q # <<>>, NEW c, NEW d, NEW m, QueueOK(q, c, m)
  PROVE  /\ QueueOK(Tail(q), d, m)
         /\ Destroys(Tail(q)) <=> Destroys(q) /\ Head(q).op # "connectDestroyed"
<1> DEFINE p == Tail(q)
<1>1. /\ Len(q) \in Nat /\ Len(q) >= 1 /\ DOMAIN q = 1..Len(q) /\ Head(q) = q[1]
      /\ DOMAIN p = 1..(Len(q) - 1)
      /\ \A i \in DOMAIN p : i + 1 \in DOMAIN q /\ p[i] = q[i + 1]
      /\ \A i \in DOMAIN q : i # 1 => i - 1 \in DOMAIN p /\ p[i - 1] = q[i]
  BY HeadTailProperties, EmptySeq
<1> HIDE DEF p
<1>2. Destroys(p) <=> Destroys(q) /\ Head(q).op # "connectDestroyed"
  <2>1. ASSUME Destroys(p)
        PROVE  Destroys(q) /\ Head(q).op # "connectDestroyed"
    <3>1. PICK i \in DOMAIN p : p[i].op = "connectDestroyed"
      BY <2>1, Zenon DEF Destroys
    <3>2. i + 1 \in DOMAIN q /\ q[i + 1].op = "connectDestroyed" /\ i + 1 # 1
      BY <1>1, <3>1
    <3> QED
      BY <1>1, <3>2 DEF Destroys, QueueOK
  <2>2. ASSUME Destroys(q), Head(q).op # "connectDestroyed"
        PROVE  Destroys(p)
    <3>1. PICK i \in DOMAIN q : q[i].op = "connectDestroyed"
      BY <2>2, Zenon DEF Destroys
    <3>2. i # 1
      BY <1>1, <2>2, <3>1, Zenon
    <3> QED
      BY <1>1, <3>1, <3>2 DEF Destroys
  <2> QED
    BY <2>1, <2>2, Zenon
<1>3. \A i \in DOMAIN p : p[i].op # "connectEstablished"
  <2> SUFFICES ASSUME NEW i \in DOMAIN p, p[i].op = "connectEstablished" PROVE FALSE
    BY Zenon
  <2>1. i + 1 \in DOMAIN q /\ q[i + 1].op = "connectEstablished" /\ i + 1 # 1
    BY <1>1
  <2> QED
    BY <2>1, Zenon DEF QueueOK
<1>4. ASSUME NEW i \in DOMAIN p, NEW j \in DOMAIN p,
             p[i].op = "connectDestroyed", p[j].op = "connectDestroyed"
      PROVE  i = j
  <2>1. /\ i \in Int /\ j \in Int /\ i + 1 \in DOMAIN q /\ j + 1 \in DOMAIN q
        /\ q[i + 1].op = "connectDestroyed" /\ q[j + 1].op = "connectDestroyed"
    BY <1>1, <1>4
  <2>2. i + 1 = j + 1
    BY <2>1, Zenon DEF QueueOK
  <2> QED
    BY <2>1, <2>2
<1>5. ASSUME NEW i \in DOMAIN p, p[i].op \in Unshared, ~m
      PROVE  \E j \in DOMAIN p : j > i /\ p[j].op = "connectDestroyed"
  <2>1. i \in Int /\ i >= 1 /\ i + 1 \in DOMAIN q /\ q[i + 1].op \in Unshared
    BY <1>1, <1>5
  <2>2. PICK k \in DOMAIN q : k > i + 1 /\ q[k].op = "connectDestroyed"
    BY <1>5, <2>1, Zenon DEF QueueOK
  <2>3. k \in Int /\ k # 1 /\ k - 1 > i
    BY <1>1, <2>1, <2>2
  <2> QED
    BY <1>1, <2>2, <2>3
<1>6. m => ~Destroys(p)
  BY <1>2, Zenon DEF QueueOK
<1>7. QueueOK(p, d, m)
  BY <1>3, <1>4, <1>5, <1>6, Zenon DEF QueueOK
<1> QED
  BY <1>2, <1>7, Zenon DEF p

(* What Append does to a queue, in terms of its positions.                 *)
LEMMA Appended ==
  ASSUME NEW q \in Seq(Functor), NEW f
  PROVE  LET p == Append(q, f)
         IN  /\ Len(q) \in Nat /\ DOMAIN q = 1..Len(q) /\ DOMAIN p = 1..(Len(q) + 1)
             /\ \A i \in DOMAIN q : i \in DOMAIN p /\ p[i] = q[i]
             /\ p[Len(q) + 1] = f
             /\ p # <<>>
             /\ q # <<>> => Head(p) = Head(q)
BY SMTT(30)

(* A functor that is queued leaves the queue in order: it is one that      *)
(* holds the connection, or the map holds it.                              *)
LEMMA AppendOK ==
  ASSUME NEW q \in Seq(Functor), NEW f, NEW c, NEW m, QueueOK(q, c, m),
         \/ f.op \in {"callback", "forceCloseInLoop"}
         \/ f.op \in Unshared /\ m
  PROVE  /\ QueueOK(Append(q, f), c, m)
         /\ Destroys(Append(q, f)) <=> Destroys(q)
<1> DEFINE p == Append(q, f)
<1>1. /\ Len(q) \in Nat /\ DOMAIN q = 1..Len(q) /\ DOMAIN p = 1..(Len(q) + 1)
      /\ \A i \in DOMAIN q : i \in DOMAIN p /\ p[i] = q[i]
      /\ p[Len(q) + 1] = f
  BY Appended
<1> HIDE DEF p
<1>2. /\ f.op # "connectEstablished" /\ f.op # "connectDestroyed"
      /\ f.op \in Unshared => m
  BY Zenon DEF Unshared
<1>3. \A i \in DOMAIN p : i \in DOMAIN q \/ i = Len(q) + 1
  BY <1>1
<1>4. Destroys(p) <=> Destroys(q)
  BY <1>1, <1>2, <1>3, Zenon DEF Destroys
<1>5. \A i \in DOMAIN p : p[i].op = "connectEstablished" => i = 1 /\ c
  BY <1>1, <1>2, <1>3, Zenon DEF QueueOK
<1>6. \A i, j \in DOMAIN p :
        p[i].op = "connectDestroyed" /\ p[j].op = "connectDestroyed" => i = j
  BY <1>1, <1>2, <1>3, Zenon DEF QueueOK
<1>7. \A i \in DOMAIN p : p[i].op \in Unshared =>
        m \/ \E j \in DOMAIN p : j > i /\ p[j].op = "connectDestroyed"
  <2> SUFFICES ASSUME NEW i \in DOMAIN p, p[i].op \in Unshared, ~m
               PROVE  \E j \in DOMAIN p : j > i /\ p[j].op = "connectDestroyed"
    BY Zenon
  <2>1. i \in DOMAIN q /\ q[i].op \in Unshared
    BY <1>1, <1>2, <1>3, Zenon
  <2>2. PICK j \in DOMAIN q : j > i /\ q[j].op = "connectDestroyed"
    BY <2>1, Zenon DEF QueueOK
  <2> QED
    BY <1>1, <2>2, Zenon
<1>8. QueueOK(p, c, m)
  BY <1>4, <1>5, <1>6, <1>7, Zenon DEF QueueOK
<1> QED
  BY <1>4, <1>8, Zenon DEF p

(* connectDestroyed is queued when the map lets go of the connection, and  *)
(* comes after all that is bound to this.                                  *)
LEMMA AppendDestroy ==
  ASSUME NEW q \in Seq(Functor), NEW f, NEW c, NEW m, QueueOK(q, c, m), m,
         f.op = "connectDestroyed"
  PROVE  QueueOK(Append(q, f), c, FALSE) /\ Destroys(Append(q, f))
<1> DEFINE p == Append(q, f)
<1>1. /\ Len(q) \in Nat /\ DOMAIN q = 1..Len(q) /\ DOMAIN p = 1..(Len(q) + 1)
      /\ \A i \in DOMAIN q : i \in DOMAIN p /\ p[i] = q[i]
      /\ p[Len(q) + 1] = f
  BY Appended
<1> HIDE DEF p
<1>2. \A i \in DOMAIN p : i = Len(q) + 1 \/ (i \in DOMAIN q /\ Len(q) + 1 > i)
  BY <1>1
<1>3. Len(q) + 1 \in DOMAIN p
  BY <1>1
<1>4. \A i \in DOMAIN q : q[i].op # "connectDestroyed"
  BY Zenon DEF QueueOK, Destroys
<1>5. Destroys(p)
  BY <1>1, <1>3, Zenon DEF Destroys
<1>6. \A i \in DOMAIN p : p[i].op = "connectEstablished" => i = 1 /\ c
  <2>1. "connectEstablished" # "connectDestroyed"
    BY Zenon
  <2> QED
    BY <1>1, <1>2, <2>1, Zenon DEF QueueOK
<1>7. \A i, j \in DOMAIN p :
        p[i].op = "connectDestroyed" /\ p[j].op = "connectDestroyed" => i = j
  BY <1>1, <1>2, <1>4, Zenon
<1>8. \A i \in DOMAIN p : p[i].op \in Unshared =>
        \E j \in DOMAIN p : j > i /\ p[j].op = "connectDestroyed"
  <2>1. "connectDestroyed" \notin Unshared
    BY Zenon DEF Unshared
  <2> QED
    BY <1>1, <1>2, <1>3, <2>1, Zenon
<1>9. QueueOK(p, c, FALSE)
  BY <1>5, <1>6, <1>7, <1>8, Zenon DEF QueueOK
<1> QED
  BY <1>5, <1>9, Zenon DEF p

-----------------------------------------------------------------------------
(* A step that neither begins nor ends a phase of the connection's life.   *)
StillLife ==
  /\ UNCHANGED <<inMap, serverAlive, removals, downs, failed>>
  /\ addedToLoop_' <=> addedToLoop_
  /\ state_ # "kConnecting"
  /\ state_' = state_ \/ (Open /\ state_' = "kDisconnecting" /\ serverAlive)
  /\ lpc' = lpc \/ {lpc, lpc'} \cap {"down", "destroying"} = {}
  /\ state_ = "kDisconnected" => events_' = {} /\ revents_' \subseteq revents_

QueueKept ==
  /\ QueueOK(pending', FALSE, inMap)
  /\ Destroys(pending') <=> Destroys(pending)

(* Such a step keeps the phases.                                           *)
LEMMA Quiet ==
  ASSUME Control, QueueInv, Phases, StillLife, QueueKept
  PROVE  QueueInv' /\ Phases'
<1>1. state_' # "kConnecting" /\ (Open' <=> Open)
  BY Zenon DEF StillLife, Open
<1>2. QueueInv'
  <2>1. inMap' = inMap /\ (state_' = "kConnecting" <=> FALSE)
    BY <1>1, Zenon DEF StillLife
  <2> QED
    BY <2>1, Zenon DEF QueueKept, QueueInv, QueueOK, Destroys
<1>3. Destroys(pending)' <=> Destroys(pending)
  BY Zenon DEF QueueKept, Destroys
<1>4. ASSUME Open PROVE Living'
  <2>1. Living
    BY <1>4, Zenon DEF Phases
  <2>2. lpc' \notin {"down", "destroying"}
    BY <2>1, Zenon DEF StillLife, Living
  <2>3. inMap' \/ (state_' = "kConnected" /\ Destroys(pending)' /\ ~serverAlive')
    BY <1>3, <1>4, <2>1, Zenon DEF StillLife, Living, Open
  <2> QED
    BY <2>1, <2>2, <2>3, Zenon DEF StillLife, Living
<1>5. ASSUME state_ = "kDisconnected" PROVE Ended'
  <2>1. Ended
    BY <1>5, Zenon DEF Phases
  <2>2. (lpc' = "down" <=> lpc = "down") /\ (lpc' = "destroying" <=> lpc = "destroying")
    BY Zenon DEF StillLife
  <2>3. events_' = {} /\ revents_' \cap {"hup", "in"} = {}
    BY <1>5, <2>1, Zenon DEF StillLife, Ended
  <2>4. (Erasing => Erasing') /\ (Dying => Dying') /\ (Dead => Dead')
    BY <1>3, <2>2, Zenon DEF StillLife, Erasing, Dying, Dead
  <2> QED
    BY <2>1, <2>3, <2>4, Zenon DEF StillLife, Ended
<1>6. state_' = "kDisconnected" => state_ = "kDisconnected"
  BY Zenon DEF StillLife
<1> QED
  BY <1>1, <1>2, <1>4, <1>5, <1>6, Zenon DEF Phases, StillLife

(* A connection that waits for connectEstablished sees that or the end of  *)
(* its server next.                                                        *)
LEMMA Unconnected ==
  ASSUME Calls, Phases, Next, ~connectEstablished, ~DestroyServer
  PROVE  state_ # "kConnecting"
<1> SUFFICES ASSUME Unborn PROVE FALSE
  BY Zenon DEF Phases
<1>1. /\ Head(pending).op = "connectEstablished" /\ lpc = "idle" /\ events_ = {}
      /\ ~delayed /\ removals = 0
  BY Zenon DEF Unborn
<1>2. \A t \in Others : t \notin holders /\ call[t] = "none"
  BY Zenon DEF Unborn, Calls
<1>3. ~FunctorStep
  BY <1>1, Zenon DEF FunctorStep, connectDestroyed, forceCloseInLoop, UserFunctor,
              UnsharedFunctor, CallFunctor, Unshared
<1>4. \A t \in Others : OtherStep(t) => FALSE
  BY <1>1, <1>2, Zenon DEF OtherStep, Share, Release, CallEnds, CallSets, CallQueues,
     CallTests,
                    CallReads
<1>5. ~EventStep /\ \A revents : ~Poll(revents)
  BY <1>1, Zenon DEF EventStep, HandleHup, handleError, handleRead, handleWrite, Turn, Poll
<1>6. ~UserStep /\ ~UserReturns
  BY <1>1, Zenon DEF UserStep, UserSend, UserShutdown, UserForceClose,
     forceCloseWithDelay, UserReads,
              UserReturns, InUserCode, UserCode
<1>7. ~DelayOver /\ ~removeConnectionInLoop
  BY <1>1 DEF DelayOver, removeConnectionInLoop
<1> QED
  BY <1>3, <1>4, <1>5, <1>6, <1>7, Zenon DEF Next

-----------------------------------------------------------------------------
(* A step that leaves pendingFunctors_ alone keeps its order.              *)
LEMMA QueueSame ==
  ASSUME QueueInv, state_ # "kConnecting", pending' = pending
  PROVE  QueueKept
BY Zenon DEF QueueInv, QueueKept, QueueOK, Destroys

(* The loop calls the functor at the front of pendingFunctors_             *)
(* (doPendingFunctors): the queue keeps its order.                         *)
LEMMA QueueTail ==
  ASSUME Typed, QueueInv, pending # <<>>, Head(pending).op # "connectDestroyed",
         \/ pending' = Tail(pending)
         \/ pending' = Append(Tail(pending), [op |-> "callback"])
  PROVE  QueueKept
<1>1. Tail(pending) \in Seq(Functor) /\ pending \in Seq(Functor)
  BY HeadTailProperties, Zenon DEF Typed
<1>2. /\ QueueOK(Tail(pending), FALSE, inMap)
      /\ Destroys(Tail(pending)) <=> Destroys(pending)
  BY <1>1, TailOK, Zenon DEF QueueInv
<1>3. CASE pending' = Tail(pending)
  BY <1>2, <1>3, Zenon DEF QueueKept
<1>4. CASE pending' = Append(Tail(pending), [op |-> "callback"])
  <2>1. /\ QueueOK(Append(Tail(pending), [op |-> "callback"]), FALSE, inMap)
        /\ Destroys(Append(Tail(pending), [op |-> "callback"])) <=> Destroys(Tail(pending))
    BY <1>1, <1>2, AppendOK, Zenon
  <2> QED
    BY <1>2, <1>4, <2>1, Zenon DEF QueueKept
<1> QED
  BY <1>3, <1>4, Zenon

(* A functor of the user's or of another thread is put at the back         *)
(* (queueInLoop): the queue keeps its order.                               *)
LEMMA QueueAppend ==
  ASSUME Typed, QueueInv, state_ # "kConnecting", NEW f, pending' = Append(pending, f),
         f.op \in {"callback", "forceCloseInLoop"} \/ (f.op \in Unshared /\ inMap)
  PROVE  QueueKept
<1>1. pending \in Seq(Functor) /\ QueueOK(pending, FALSE, inMap)
  BY Zenon DEF Typed, QueueInv, QueueOK
<1>2. QueueOK(Append(pending, f), FALSE, inMap)
      /\ (Destroys(Append(pending, f)) <=> Destroys(pending))
  BY <1>1, AppendOK, Zenon
<1> QED
  BY <1>2, Zenon DEF QueueKept

(* A functor that is bound to this is called only while the connection     *)
(* exists.                                                                 *)
LEMMA NotFreed ==
  ASSUME Typed, QueueInv, pending # <<>>, Head(pending).op \in Unshared
  PROVE  Alive
<1>1. 1 \in DOMAIN pending /\ Head(pending) = pending[1]
  BY HeadTailProperties, EmptySeq DEF Typed
<1>2. inMap \/ Destroys(pending)
  BY <1>1, Zenon DEF QueueInv, QueueOK, Destroys
<1>3. "connectDestroyed" \in Shared
  BY Zenon DEF Shared
<1> QED
  BY <1>2, <1>3, Zenon DEF Alive, Destroys

(* connectEstablished finds a connection that is connecting.               *)
LEMMA Establishes ==
  ASSUME Typed, QueueInv, pending # <<>>, Head(pending).op = "connectEstablished"
  PROVE  state_ = "kConnecting"
<1>1. 1 \in DOMAIN pending /\ Head(pending) = pending[1]
  BY HeadTailProperties, EmptySeq DEF Typed
<1> QED
  BY <1>1, Zenon DEF QueueInv, QueueOK

(* connectDestroyed is called when the map has let go of the connection.   *)
LEMMA Destroyed ==
  ASSUME Typed, QueueInv, pending # <<>>, Head(pending).op = "connectDestroyed"
  PROVE  Destroys(pending) /\ ~inMap
<1>1. 1 \in DOMAIN pending /\ Head(pending) = pending[1]
  BY HeadTailProperties, EmptySeq DEF Typed
<1>2. Destroys(pending)
  BY <1>1, Zenon DEF Destroys
<1> QED
  BY <1>2, Zenon DEF QueueInv, QueueOK

(* A call that does not cross the end meets a connection of the map.       *)
LEMMA NotEnding ==
  ASSUME Control, Phases, state_ # "kConnecting", ~Ending
  PROVE  Open /\ serverAlive /\ inMap
<1>1. Open /\ serverAlive
  BY Zenon DEF Control, Ending, Open
<1> QED
  BY <1>1, Zenon DEF Phases, Living

-----------------------------------------------------------------------------
(* sendInLoop takes the Channel only while the connection is open.         *)
LEMMA SendQuiet ==
  ASSUME Control, Phases, state_ # "kConnecting", NEW queue, NEW m, sendInLoop(queue, m)
  PROVE  /\ addedToLoop_' <=> addedToLoop_
         /\ state_ = "kDisconnected" => UNCHANGED events_
         /\ pending' = queue \/ pending' = Append(queue, [op |-> "callback"])
<1>1. CASE state_ = "kDisconnected"
  <2>1. pending' = queue /\ UNCHANGED channelVars
    BY <1>1, Zenon DEF sendInLoop
  <2> QED
    BY <2>1, Zenon DEF channelVars
<1>2. CASE state_ # "kDisconnected"
  <2>1. addedToLoop_
    BY <1>2, Zenon DEF Control, Open, Phases, Living
  <2>2. addedToLoop_' = TRUE \/ addedToLoop_' = addedToLoop_
    BY Zenon DEF sendInLoop, Accept, Update, channelVars, bufferVars
  <2>3. pending' = queue \/ pending' = Append(queue, [op |-> "callback"])
    BY Zenon DEF sendInLoop, Accept, Queue
  <2> QED
    BY <1>2, <2>1, <2>2, <2>3, Zenon
<1> QED
  BY <1>1, <1>2, Zenon

(* So do startReadInLoop and stopReadInLoop, when they do not cross the    *)
(* end.                                                                    *)
LEMMA ReadQuiet ==
  ASSUME Phases, Open, startReadInLoop \/ stopReadInLoop
  PROVE  addedToLoop_' <=> addedToLoop_
<1>1. addedToLoop_
  BY Zenon DEF Phases, Living
<1>2. addedToLoop_' = TRUE \/ addedToLoop_' = addedToLoop_
  BY Zenon DEF startReadInLoop, stopReadInLoop, Update, channelVars
<1> QED
  BY <1>1, <1>2, Zenon

(* handleClose ends the life in the map: the server is asked to erase the  *)
(* connection when the user callback returns.                              *)
LEMMA Closing ==
  ASSUME Control, QueueInv, Phases, ~crossed', Open, NEW queue, NEW rest,
         handleClose(queue, rest), rest \cap {"hup", "in"} = {},
         QueueOK(queue, FALSE, inMap)
  PROVE  After
<1>1. /\ state_' = "kDisconnected" /\ events_' = {} /\ addedToLoop_' = TRUE
      /\ lpc' = "down" /\ revents_' = rest /\ pending' = queue /\ DownCalled
      /\ crossed' = (crossed \/ ~serverAlive)
      /\ UNCHANGED <<inMap, removals, serverAlive, failed>>
  BY Zenon DEF handleClose, Update, serverVars
<1>2. Living /\ serverAlive /\ inMap /\ failed = {}
  BY <1>1, Zenon DEF Phases, Living
<1>3. downs' = 1 /\ removals' = 0
  <2>1. downs = 0 /\ removals = 0
    BY <1>2, Zenon DEF Living
  <2> QED
    BY <1>1, <2>1 DEF DownCalled
<1>4. QueueInv'
  BY <1>1, Zenon DEF QueueInv, QueueOK, Destroys
<1>5. Erasing'
  BY <1>1, <1>2, <1>3, Zenon DEF Erasing
<1>6. Ended'
  BY <1>1, <1>3, <1>5, Zenon DEF Ended
<1>7. ~Open' /\ state_' # "kConnecting"
  BY <1>1, Zenon DEF Open
<1> QED
  BY <1>1, <1>2, <1>4, <1>6, <1>7, Zenon DEF After, Phases

-----------------------------------------------------------------------------
(* connectEstablished begins the life.                                     *)
LEMMA LifeEstablished ==
  ASSUME Before, connectEstablished
  PROVE  After
<1>1. pending \in Seq(Functor) /\ pending # <<>> /\ Head(pending).op = "connectEstablished"
  BY Zenon DEF Before, Typed, connectEstablished, CallFunctor
<1>2. state_ = "kConnecting"
  BY <1>1, Establishes, Zenon DEF Before
<1>3. Unborn /\ failed = {} /\ (inMap => serverAlive)
  BY <1>2, Zenon DEF Before, Phases
<1>4. /\ state_' = "kConnected" /\ addedToLoop_' = TRUE /\ lpc' = "up"
      /\ pending' = Tail(pending)
      /\ UNCHANGED <<inMap, removals, serverAlive, downs, failed>>
  BY <1>2, Zenon DEF connectEstablished, Update, serverVars
<1>5. QueueKept
  BY <1>1, <1>4, QueueTail, Zenon DEF Before
<1>6. QueueInv'
  BY <1>4, <1>5, Zenon DEF QueueKept, QueueInv, QueueOK, Destroys
<1>7. Living'
  <2>1. Destroys(pending)' <=> Destroys(pending)
    BY <1>5, Zenon DEF QueueKept, Destroys
  <2>2. inMap' \/ (state_' = "kConnected" /\ Destroys(pending)' /\ ~serverAlive')
    BY <1>3, <1>4, <2>1, Zenon DEF Unborn
  <2>3. downs' = 0 /\ removals' = 0 /\ lpc' \notin {"down", "destroying"}
    BY <1>3, <1>4, Zenon DEF Unborn
  <2> QED
    BY <1>4, <2>2, <2>3, Zenon DEF Living
<1>8. state_' # "kConnecting" /\ state_' # "kDisconnected"
  BY <1>4, Zenon
<1> QED
  BY <1>3, <1>4, <1>6, <1>7, <1>8, Zenon DEF After, Phases

(* connectDestroyed ends it: at once, or with the user callback.           *)
LEMMA LifeDestroyed ==
  ASSUME Before, state_ # "kConnecting", connectDestroyed
  PROVE  After
<1>1. /\ pending \in Seq(Functor) /\ pending # <<>> /\ Head(pending).op = "connectDestroyed"
      /\ lpc = "idle" /\ pending' = Tail(pending)
      /\ UNCHANGED <<inMap, removals, serverAlive, revents_>>
  BY Zenon DEF Before, Typed, connectDestroyed, CallFunctor, serverVars
<1>2. ~inMap /\ Destroys(pending) /\ revents_ = {} /\ failed = {}
  BY <1>1, Destroyed, Zenon DEF Before, Calls, Phases
<1>3. QueueOK(pending', FALSE, inMap) /\ ~Destroys(pending')
  BY <1>1, TailOK, Zenon DEF Before, QueueInv
<1>4. CASE state_ = "kConnected"
  <2>1. Living
    BY <1>4, Zenon DEF Open, Before, Phases
  <2>2. /\ state_' = "kDisconnected" /\ events_' = {} /\ addedToLoop_' = TRUE
        /\ lpc' = "destroying" /\ DownCalled /\ failed' = failed
    BY <1>4, Zenon DEF connectDestroyed, Update
  <2>3. downs' = 1 /\ removals' = 0
    <3>1. downs = 0 /\ removals = 0
      BY <2>1, Zenon DEF Living
    <3> QED
      BY <1>1, <2>2, <3>1 DEF DownCalled
  <2>4. QueueInv'
    BY <1>1, <1>3, <2>2, Zenon DEF QueueInv, QueueOK, Destroys
  <2>5. Dying'
    BY <1>1, <1>2, <1>3, <2>2, <2>3, Zenon DEF Dying, Destroys
  <2>6. revents_' \cap {"hup", "in"} = {}
    BY <1>1, <1>2, Zenon
  <2>7. ~Open' /\ state_' # "kConnecting"
    BY <2>2, Zenon DEF Open
  <2> QED
    BY <1>1, <1>2, <2>2, <2>3, <2>4, <2>5, <2>6, <2>7, Zenon DEF After, Phases, Ended
<1>5. CASE state_ # "kConnected"
  <2>1. state_ = "kDisconnected"
    <3>1. state_ # "kDisconnecting"
      BY <1>2, <1>5, Zenon DEF Before, Phases, Open, Living
    <3> QED
      BY <1>5, <3>1, Zenon DEF Before, Typed, Control
  <2>2. Ended /\ Dying
    BY <1>2, <2>1, Zenon DEF Before, Phases, Ended, Erasing, Dead
  <2>3. /\ addedToLoop_' = FALSE /\ failed' = failed
        /\ UNCHANGED <<state_, events_, lpc, downs>>
    BY <1>5, <2>2, Zenon DEF connectDestroyed, RemoveChannel, Ended
  <2>4. QueueInv'
    BY <1>1, <1>3, <2>1, <2>3, Zenon DEF QueueInv, QueueOK, Destroys
  <2>5. Dead'
    <3>1. lpc' \notin {"down", "destroying"}
      BY <1>1, <2>3, Zenon
    <3> QED
      BY <1>1, <1>3, <2>2, <2>3, <3>1, Zenon DEF Dying, Dead, Destroys
  <2>6. Ended'
    BY <1>1, <2>2, <2>3, <2>5, Zenon DEF Ended
  <2>7. ~Open' /\ state_' # "kConnecting"
    BY <2>1, <2>3, Zenon DEF Open
  <2> QED
    BY <1>1, <1>2, <2>3, <2>4, <2>6, <2>7, Zenon DEF After, Phases
<1> QED
  BY <1>4, <1>5, Zenon

(* The other functors.                                                     *)
LEMMA LifeFunctors ==
  ASSUME Before, ~crossed', state_ # "kConnecting",
         forceCloseInLoop \/ UserFunctor \/ UnsharedFunctor
  PROVE  After
<1>1. /\ pending \in Seq(Functor) /\ pending # <<>> /\ lpc = "idle"
      /\ Head(pending).op \in {"forceCloseInLoop", "callback"} \cup Unshared
  BY Zenon DEF Before, Typed, forceCloseInLoop, UserFunctor, UnsharedFunctor, CallFunctor
<1>2. Head(pending).op # "connectDestroyed"
  BY <1>1, Zenon DEF Unshared
<1>3. QueueOK(Tail(pending), FALSE, inMap)
  BY <1>1, TailOK, Zenon DEF Before, QueueInv
<1>4. state_ = "kDisconnected" => events_ = {}
  BY Zenon DEF Before, Phases, Ended
<1>5. CASE forceCloseInLoop
  <2>1. CASE Open
    <3>1. handleClose(Tail(pending), {})
      BY <1>5, <2>1, Zenon DEF forceCloseInLoop
    <3>2. {} \cap {"hup", "in"} = {}
      BY Zenon
    <3> QED
      BY <1>3, <2>1, <3>1, <3>2, Closing, Zenon DEF Before, Typed
  <2>2. CASE ~Open
    <3>1. /\ pending' = Tail(pending)
          /\ UNCHANGED <<state_, events_, addedToLoop_, lpc, revents_, inMap, removals,
                         serverAlive, downs, failed>>
      BY <1>5, <2>2, Zenon DEF forceCloseInLoop, channelVars, serverVars
    <3>2. QueueKept
      BY <1>1, <1>2, <3>1, QueueTail, Zenon DEF Before
    <3>3. StillLife
      BY <1>4, <3>1, Zenon DEF StillLife
    <3> QED
      BY <3>2, <3>3, Quiet, Zenon DEF Before, Typed, After
  <2> QED
    BY <2>1, <2>2, Zenon
<1>6. CASE UserFunctor
  <2>1. /\ pending' = Tail(pending) /\ lpc' = "message"
        /\ UNCHANGED <<state_, events_, addedToLoop_, revents_, inMap, removals,
                       serverAlive, downs, failed>>
    BY <1>6, Zenon DEF UserFunctor, channelVars, serverVars
  <2>2. QueueKept
    BY <1>1, <1>2, <2>1, QueueTail, Zenon DEF Before
  <2>3. {lpc, lpc'} \cap {"down", "destroying"} = {}
    BY <1>1, <2>1, Zenon
  <2>4. StillLife
    BY <1>4, <2>1, <2>3, ZenonT(30) DEF StillLife
  <2> QED
    BY <2>2, <2>4, Quiet, Zenon DEF Before, Typed, After
<1>7. CASE UnsharedFunctor
  <2>1. Head(pending).op \in Unshared
    BY <1>7, Zenon DEF UnsharedFunctor, CallFunctor
  <2>2. Alive
    BY <1>1, <2>1, NotFreed, Zenon DEF Before
  <2>3. UNCHANGED <<state_, lpc, revents_, inMap, removals, serverAlive, downs, failed>>
    BY <1>7, <2>2, Zenon DEF UnsharedFunctor, serverVars
  <2>4. /\ addedToLoop_' <=> addedToLoop_
        /\ state_ = "kDisconnected" => events_' = {}
        /\ \/ pending' = Tail(pending)
           \/ pending' = Append(Tail(pending), [op |-> "callback"])
    <3>1. CASE sendInLoop(Tail(pending), Head(pending).msg)
      BY <1>4, <3>1, SendQuiet, Zenon DEF Before, Typed
    <3>2. CASE pending' = Tail(pending) /\ UNCHANGED channelVars
      BY <1>4, <3>2, Zenon DEF channelVars
    <3>3. CASE /\ startReadInLoop \/ stopReadInLoop
               /\ pending' = Tail(pending) /\ crossed' = (crossed \/ Ending)
      <4>1. Open
        BY <3>3, NotEnding, Zenon DEF Before, Typed
      <4> QED
        BY <3>3, <4>1, ReadQuiet, Zenon DEF Before, Open
    <3> QED
      BY <1>7, <2>2, <3>1, <3>2, <3>3, Zenon DEF UnsharedFunctor
  <2>5. QueueKept
    BY <1>1, <1>2, <2>4, QueueTail, Zenon DEF Before
  <2>6. StillLife
    BY <2>3, <2>4, Zenon DEF StillLife
  <2> QED
    BY <2>5, <2>6, Quiet, Zenon DEF Before, Typed, After
<1> QED
  BY <1>5, <1>6, <1>7, Zenon

(* The events of the Channel: one that may close the connection is still   *)
(* to be handled only while that is open.                                  *)
LEMMA LifeEvents ==
  ASSUME Before, ~crossed', state_ # "kConnecting",
         EventStep \/ \E revents \in SUBSET {"hup", "err", "in", "out"} : Poll(revents)
  PROVE  After
<1>1. state_ = "kDisconnected" => events_ = {} /\ revents_ \cap {"hup", "in"} = {}
  BY Zenon DEF Before, Phases, Ended
<1>2. QueueOK(pending, FALSE, inMap)
  BY Zenon DEF Before, QueueInv, QueueOK
<1>3. ASSUME pending' = pending,
             UNCHANGED <<state_, inMap, removals, serverAlive, downs, failed>>,
             addedToLoop_' <=> addedToLoop_,
             {lpc, lpc'} \cap {"down", "destroying"} = {},
             state_ = "kDisconnected" => events_' = {} /\ revents_' \subseteq revents_
      PROVE  After
  <2>1. QueueKept
    BY <1>3, QueueSame, Zenon DEF Before
  <2>2. StillLife
    BY <1>3, Zenon DEF StillLife
  <2> QED
    BY <2>1, <2>2, Quiet, Zenon DEF Before, Typed, After
<1>4. CASE \E revents \in SUBSET {"hup", "err", "in", "out"} : Poll(revents)
  <2>1. /\ pending' = pending /\ events_ # {} /\ lpc = "idle" /\ lpc' \in {"idle", "dispatch"}
        /\ UNCHANGED <<state_, addedToLoop_, inMap, removals, serverAlive, downs, failed>>
    BY <1>4, Zenon DEF Poll, Continue, channelVars, serverVars
  <2>2. state_ # "kDisconnected" /\ {lpc, lpc'} \cap {"down", "destroying"} = {}
    BY <1>1, <2>1, Zenon
  <2> QED
    BY <1>3, <2>1, <2>2, Zenon
<1>5. CASE HandleHup \/ handleError \/ handleRead
  <2>1. lpc = "dispatch"
    BY <1>5, Zenon DEF HandleHup, handleError, handleRead, Turn
  <2>2. CASE UNCHANGED pending /\ UNCHANGED <<state_, channelVars, serverVars, downs, failed>>
             /\ revents_' \subseteq revents_ /\ lpc' \in {"idle", "dispatch", "message"}
    <3>1. {lpc, lpc'} \cap {"down", "destroying"} = {}
      BY <2>1, <2>2, Zenon
    <3>2. UNCHANGED <<events_, addedToLoop_, inMap, removals, serverAlive>>
      BY <2>2, Zenon DEF channelVars, serverVars
    <3> QED
      BY <1>1, <1>3, <2>2, <3>1, <3>2, Zenon
  <2>3. CASE \E e \in {"hup", "in"} :
               /\ handleClose(pending, revents_ \ {e}) /\ e \in revents_
               /\ (revents_ \ {e}) \cap {"hup", "in"} = {}
    <3>1. PICK e \in {"hup", "in"} :
            /\ handleClose(pending, revents_ \ {e}) /\ e \in revents_
            /\ (revents_ \ {e}) \cap {"hup", "in"} = {}
      BY <2>3, Zenon
    <3>2. Open
      BY <1>1, <3>1, Zenon DEF Before, Typed, Control, Open
    <3> QED
      BY <1>2, <3>1, <3>2, Closing, Zenon DEF Before, Typed
  <2>4. CASE HandleHup
    <3>1. CASE "in" \notin revents_
      <4>1. handleClose(pending, revents_ \ {"hup"}) /\ "hup" \in revents_
        BY <2>4, <3>1, Zenon DEF HandleHup, Turn
      <4>2. (revents_ \ {"hup"}) \cap {"hup", "in"} = {}
        BY <3>1, Zenon
      <4> QED
        BY <2>3, <4>1, <4>2, Zenon
    <3>2. CASE "in" \in revents_
      BY <2>2, <2>4, <3>2, Zenon DEF HandleHup, Continue
    <3> QED
      BY <3>1, <3>2, Zenon
  <2>5. CASE handleError
    BY <2>2, <2>5, Zenon DEF handleError, Continue
  <2>6. CASE handleRead
    <3>1. CASE handleClose(pending, revents_ \ {"in"})
      <4>1. "in" \in revents_ /\ revents_ \cap {"hup", "err"} = {}
        BY <2>6, Zenon DEF handleRead, Turn
      <4>2. (revents_ \ {"in"}) \cap {"hup", "in"} = {}
        BY <4>1, Zenon
      <4> QED
        BY <2>3, <3>1, <4>1, <4>2, Zenon
    <3>2. CASE ~handleClose(pending, revents_ \ {"in"})
      BY <2>2, <2>6, <3>2, Zenon DEF handleRead, Continue
    <3> QED
      BY <3>1, <3>2, Zenon
  <2> QED
    BY <1>5, <2>4, <2>5, <2>6, Zenon
<1>6. CASE handleWrite
  <2>1. /\ lpc = "dispatch" /\ lpc' = "idle" /\ revents_' = {}
        /\ UNCHANGED <<state_, inMap, removals, serverAlive, downs, failed>>
    BY <1>6, Zenon DEF handleWrite, Turn, Continue, serverVars
  <2>2. {lpc, lpc'} \cap {"down", "destroying"} = {} /\ revents_' \subseteq revents_
    BY <2>1, Zenon
  <2>3. CASE UNCHANGED <<channelVars, outputBuffer_, pending, socketVars>>
    <3>1. UNCHANGED <<events_, addedToLoop_, pending>>
      BY <2>3, Zenon DEF channelVars
    <3> QED
      BY <1>1, <1>3, <2>1, <2>2, <3>1, Zenon
  <2>4. CASE "write" \in events_ /\ \E n \in 1..Len(outputBuffer_) : Written(n)
    <3>1. Open /\ state_ # "kDisconnected"
      BY <1>1, <2>4, Zenon DEF Before, Typed, Control, Open
    <3>2. addedToLoop_
      BY <3>1, Zenon DEF Before, Phases, Living
    <3>3. addedToLoop_' = addedToLoop_ \/ addedToLoop_' = TRUE
      BY <2>4, Zenon DEF Written, Update, channelVars
    <3>4. pending' = pending \/ pending' = Append(pending, [op |-> "callback"])
      BY <2>4, Zenon DEF Written, Queue
    <3>5. QueueKept
      <4>1. CASE pending' = pending
        BY <4>1, QueueSame, Zenon DEF Before
      <4>2. CASE pending' = Append(pending, [op |-> "callback"])
        BY <4>2, QueueAppend, Zenon DEF Before
      <4> QED
        BY <3>4, <4>1, <4>2, Zenon
    <3>6. StillLife
      BY <2>1, <2>2, <3>1, <3>2, <3>3, Zenon DEF StillLife
    <3> QED
      BY <3>5, <3>6, Quiet, Zenon DEF Before, Typed, After
  <2> QED
    BY <1>6, <2>3, <2>4, Zenon DEF handleWrite
<1> QED
  BY <1>4, <1>5, <1>6, Zenon DEF EventStep

(* User code on the loop, and the timer of forceCloseWithDelay.            *)
LEMMA LifeUser ==
  ASSUME Before, ~crossed', state_ # "kConnecting", UserStep \/ DelayOver
  PROVE  After
<1>1. state_ = "kDisconnected" => events_ = {}
  BY Zenon DEF Before, Phases, Ended
<1>2. UNCHANGED <<lpc, revents_, inMap, removals, serverAlive, downs, failed>>
  BY Zenon DEF UserStep, UserSend, UserShutdown, UserForceClose, forceCloseWithDelay,
     UserReads,
         DelayOver, serverVars
<1>3. ASSUME addedToLoop_' <=> addedToLoop_,
             state_' = state_ \/ (Open /\ state_' = "kDisconnecting" /\ serverAlive),
             state_ = "kDisconnected" => events_' = {},
             \/ pending' = pending
             \/ pending' = Append(pending, [op |-> "callback"])
             \/ pending' = Append(pending, [op |-> "forceCloseInLoop"])
      PROVE  After
  <2>1. QueueKept
    <3>1. CASE pending' = pending
      BY <3>1, QueueSame, Zenon DEF Before
    <3>2. CASE \E op \in {"callback", "forceCloseInLoop"} : pending' = Append(pending, [op |-> op])
      BY <3>2, QueueAppend, Zenon DEF Before
    <3> QED
      BY <1>3, <3>1, <3>2, Zenon
  <2>2. StillLife
    BY <1>2, <1>3, Zenon DEF StillLife
  <2> QED
    BY <2>1, <2>2, Quiet, Zenon DEF Before, Typed, After
<1>4. ASSUME SetDisconnecting
      PROVE  Open /\ state_' = "kDisconnecting" /\ serverAlive
  BY <1>4, NotEnding, Zenon DEF SetDisconnecting, Before, Typed
<1>5. CASE \E m \in Messages : UserSend(m)
  <2>1. PICK m \in Messages : UserSend(m)
    BY <1>5, Zenon
  <2>2. sendInLoop(pending, m) /\ state_' = state_
    BY <2>1, Zenon DEF UserSend
  <2>3. /\ addedToLoop_' <=> addedToLoop_
        /\ state_ = "kDisconnected" => UNCHANGED events_
        /\ pending' = pending \/ pending' = Append(pending, [op |-> "callback"])
    BY <2>2, SendQuiet, Zenon DEF Before, Typed
  <2> QED
    BY <1>1, <1>3, <2>2, <2>3, Zenon
<1>6. CASE UserShutdown \/ UserForceClose \/ forceCloseWithDelay
  <2>1. /\ SetDisconnecting /\ UNCHANGED channelVars
        /\ pending' = pending \/ pending' = Append(pending, [op |-> "forceCloseInLoop"])
    BY <1>6, Zenon DEF UserShutdown, UserForceClose, forceCloseWithDelay, Queue
  <2>2. UNCHANGED <<events_, addedToLoop_>>
    BY <2>1, Zenon DEF channelVars
  <2> QED
    BY <1>1, <1>3, <1>4, <2>1, <2>2, Zenon
<1>7. CASE UserReads
  <2>1. /\ startReadInLoop \/ stopReadInLoop
        /\ UNCHANGED <<state_, pending>> /\ ~Ending
    BY <1>7, Zenon DEF UserReads
  <2>2. Open
    BY <2>1, NotEnding, Zenon DEF Before, Typed
  <2>3. (addedToLoop_' <=> addedToLoop_) /\ state_ # "kDisconnected"
    BY <2>1, <2>2, ReadQuiet, Zenon DEF Before, Open
  <2> QED
    BY <1>3, <2>1, <2>3, Zenon
<1>8. CASE DelayOver
  <2>1. /\ UNCHANGED channelVars
        /\ \/ SetDisconnecting /\ pending' = Append(pending, [op |-> "forceCloseInLoop"])
           \/ UNCHANGED <<state_, pending>>
    BY <1>8, Zenon DEF DelayOver, Queue
  <2>2. UNCHANGED <<events_, addedToLoop_>>
    BY <2>1, Zenon DEF channelVars
  <2> QED
    BY <1>1, <1>3, <1>4, <2>1, <2>2, Zenon
<1> QED
  BY <1>5, <1>6, <1>7, <1>8, Zenon DEF UserStep

(* A user callback returns: handleClose asks the server to erase the       *)
(* connection, connectDestroyed removes the Channel.                       *)
LEMMA LifeReturns ==
  ASSUME Before, state_ # "kConnecting", UserReturns
  PROVE  After
<1>1. /\ lpc' \in {"idle", "dispatch"} /\ revents_' = revents_ /\ pending' = pending
      /\ UNCHANGED <<state_, events_, inMap, serverAlive, downs>>
  BY Zenon DEF UserReturns, Continue
<1>2. QueueKept /\ failed = {} /\ (inMap => serverAlive)
  BY <1>1, QueueSame, Zenon DEF Before, Phases
<1>3. QueueInv'
  BY <1>1, <1>2, Zenon DEF QueueKept, QueueInv, QueueOK, Destroys
<1>4. CASE lpc \in {"message", "up"}
  <2>1. UNCHANGED <<removals, addedToLoop_, failed>>
    BY <1>4, Zenon DEF UserReturns
  <2>2. {lpc, lpc'} \cap {"down", "destroying"} = {}
    BY <1>1, <1>4, Zenon
  <2>3. state_ = "kDisconnected" => events_ = {}
    BY Zenon DEF Before, Phases, Ended
  <2>4. StillLife
    BY <1>1, <2>1, <2>2, <2>3, Zenon DEF StillLife
  <2> QED
    BY <1>2, <2>4, Quiet, Zenon DEF Before, Typed, After
<1>5. ASSUME lpc \in {"down", "destroying"}
      PROVE  /\ state_ = "kDisconnected" /\ Ended /\ ~Open' /\ state_' # "kConnecting"
             /\ lpc = "down" => Erasing
             /\ lpc = "destroying" => Dying
  <2>1. ~Open
    BY <1>5, Zenon DEF Before, Phases, Living
  <2>2. state_ = "kDisconnected"
    BY <2>1, Zenon DEF Open, Before, Typed, Control
  <2>3. Ended
    BY <2>2, Zenon DEF Before, Phases
  <2>4. (lpc = "down" => Erasing) /\ (lpc = "destroying" => Dying)
    BY <1>5, <2>3, Zenon DEF Ended, Erasing, Dying, Dead
  <2>5. ~Open' /\ state_' # "kConnecting"
    BY <1>1, <2>2, Zenon DEF Open
  <2> QED
    BY <2>2, <2>3, <2>4, <2>5, Zenon
<1>6. CASE lpc = "down"
  <2>1. Erasing /\ Ended /\ ~Open' /\ state_' # "kConnecting"
    BY <1>5, <1>6, Zenon
  <2>2. removals' = removals + 1 /\ UNCHANGED <<failed, addedToLoop_>>
    BY <1>2, <1>6, <2>1, Zenon DEF Erasing, UserReturns
  <2>3. removals' = 1
    <3>1. removals = 0
      BY <1>6, <2>1, Zenon DEF Erasing
    <3> QED
      BY <2>2, <3>1
  <2>4. lpc' # "down" /\ lpc' # "destroying"
    BY <1>1, Zenon
  <2>5. Erasing'
    BY <1>1, <2>1, <2>2, <2>3, <2>4, Zenon DEF Erasing
  <2>6. Ended'
    BY <1>1, <2>1, <2>5, Zenon DEF Ended
  <2> QED
    BY <1>1, <1>2, <1>3, <2>1, <2>2, <2>6, Zenon DEF After, Phases
<1>7. CASE lpc = "destroying"
  <2>1. Dying /\ Ended /\ ~Open' /\ state_' # "kConnecting"
    BY <1>5, <1>7, Zenon
  <2>2. addedToLoop_' = FALSE /\ UNCHANGED <<failed, removals>>
    BY <1>7, <2>1, Zenon DEF Ended, UserReturns, RemoveChannel
  <2>3. lpc' \notin {"down", "destroying"}
    BY <1>1, Zenon
  <2>4. ~Destroys(pending)'
    BY <1>1, <1>7, <2>1, Zenon DEF Dying, Destroys
  <2>5. Dead'
    BY <1>1, <2>1, <2>2, <2>3, <2>4, Zenon DEF Dying, Dead
  <2>6. Ended'
    BY <1>1, <2>1, <2>5, Zenon DEF Ended
  <2> QED
    BY <1>1, <1>2, <1>3, <2>1, <2>2, <2>6, Zenon DEF After, Phases
<1> QED
  BY <1>4, <1>6, <1>7, Zenon DEF UserReturns, InUserCode, UserCode

(* Other threads: what they queue is bound to a connection that the map    *)
(* holds.                                                                  *)
LEMMA LifeOthers ==
  ASSUME Before, ~crossed', state_ # "kConnecting", NEW t \in Others, OtherStep(t)
  PROVE  After
<1>1. state_ = "kDisconnected" => events_ = {}
  BY Zenon DEF Before, Phases, Ended
<1>2. UNCHANGED <<events_, addedToLoop_, lpc, revents_, inMap, removals, serverAlive, downs, failed>>
  BY Zenon DEF OtherStep, Share, Release, CallEnds, CallSets, CallQueues, CallTests,
     CallReads,
         channelVars, serverVars
<1>3. ASSUME state_' = state_ \/ (Open /\ state_' = "kDisconnecting" /\ serverAlive), QueueKept
      PROVE  After
  <2>1. StillLife
    BY <1>1, <1>2, <1>3, Zenon DEF StillLife
  <2> QED
    BY <1>3, <2>1, Quiet, Zenon DEF Before, Typed, After
<1>4. CASE Share(t) \/ Release(t) \/ \E op \in OtherCalls : CallTests(t, op)
  <2>1. UNCHANGED <<state_, pending>>
    BY <1>4, Zenon DEF Share, Release, CallTests
  <2> QED
    BY <1>3, <2>1, QueueSame, Zenon DEF Before
<1>5. CASE CallSets(t)
  <2>1. SetDisconnecting /\ pending' = pending
    BY <1>5, Zenon DEF CallSets
  <2>2. Open /\ serverAlive
    BY <2>1, NotEnding, Zenon DEF SetDisconnecting, Before, Typed
  <2> QED
    BY <1>3, <2>1, <2>2, QueueSame, Zenon DEF SetDisconnecting, Before
<1>6. CASE CallQueues(t) \/ \E op \in OtherCalls : CallReads(t, op)
  <2>1. UNCHANGED state_ /\ ~Ending
    BY <1>6, Zenon DEF CallQueues, CallReads
  <2>2. inMap
    BY <2>1, NotEnding, Zenon DEF Before, Typed
  <2>3. PICK f : pending' = Append(pending, f) /\ f.op \in {"forceCloseInLoop"} \cup Unshared
    <3>1. CASE CallQueues(t)
      <4>1. \/ \E m : pending' = Append(pending, [op |-> "sendInLoop", msg |-> m])
            \/ \E op \in {"shutdownInLoop", "forceCloseInLoop"} :
                 pending' = Append(pending, [op |-> op])
        BY <3>1, Zenon DEF CallQueues, Queue
      <4>2. \A m : [op |-> "sendInLoop", msg |-> m].op \in Unshared
        BY Zenon DEF Unshared
      <4>3. \A op \in {"shutdownInLoop", "forceCloseInLoop"} :
              [op |-> op].op \in {"forceCloseInLoop"} \cup Unshared
        BY Zenon DEF Unshared
      <4> QED
        BY <4>1, <4>2, <4>3, Zenon
    <3>2. CASE \E op \in OtherCalls : CallReads(t, op)
      BY <3>2 DEF CallReads, Queue, Unshared
    <3> QED
      BY <1>6, <3>1, <3>2, Zenon
  <2>4. QueueKept
    BY <2>2, <2>3, QueueAppend, Zenon DEF Before
  <2> QED
    BY <1>3, <2>1, <2>4, Zenon
<1> QED
  BY <1>4, <1>5, <1>6, Zenon DEF OtherStep, CallEnds

(* The server erases a connection of its map, and has its loop destroy it. *)
LEMMA LifeErased ==
  ASSUME Before, state_ # "kConnecting", removeConnectionInLoop
  PROVE  After
<1>1. /\ removals > 0 /\ removals' = removals - 1
      /\ UNCHANGED <<state_, events_, addedToLoop_, lpc, revents_, serverAlive, downs>>
  BY Zenon DEF removeConnectionInLoop, channelVars
<1>2. state_ = "kDisconnected" /\ Ended
  BY <1>1 DEF Before, Typed, Control, Phases, Open, Living
<1>3. Erasing /\ removals = 1 /\ lpc # "down"
  BY <1>1, <1>2 DEF Ended, Erasing, Dying, Dead
<1>4. inMap /\ serverAlive /\ failed = {}
  BY <1>3, Zenon DEF Erasing, Before, Phases
<1>5. inMap' = FALSE /\ pending' = Append(pending, [op |-> "connectDestroyed"]) /\ failed' = failed
  BY <1>4, Zenon DEF removeConnectionInLoop, Queue
<1>6. removals' = 0
  BY <1>1, <1>3
<1>7. QueueOK(pending', state_ = "kConnecting", FALSE) /\ Destroys(pending')
  <2>1. [op |-> "connectDestroyed"].op = "connectDestroyed"
    BY Zenon
  <2> QED
    BY <1>4, <1>5, <2>1, AppendDestroy, Zenon DEF Before, Typed, QueueInv
<1>8. QueueInv'
  BY <1>1, <1>5, <1>7, Zenon DEF QueueInv, QueueOK, Destroys
<1>9. Dying'
  BY <1>1, <1>3, <1>5, <1>6, <1>7, Zenon DEF Erasing, Dying, Destroys
<1>10. Ended'
  BY <1>1, <1>2, <1>9, Zenon DEF Ended
<1>11. ~Open' /\ state_' # "kConnecting"
  BY <1>1, <1>2, Zenon DEF Open
<1> QED
  BY <1>4, <1>5, <1>8, <1>10, <1>11, Zenon DEF After, Phases

(* The server ends.                                                        *)
LEMMA LifeServerEnds ==
  ASSUME Before, ~crossed', DestroyServer
  PROVE  After
<1>1. /\ serverAlive /\ serverAlive' = FALSE /\ inMap' = FALSE
      /\ UNCHANGED <<state_, events_, addedToLoop_, lpc, revents_, removals, downs, failed,
                     holders, delayed>>
  BY Zenon DEF DestroyServer, channelVars, otherVars
<1>2. inMap => state_ \in {"kConnecting", "kConnected"}
  BY Zenon DEF DestroyServer
<1>3. failed' = {}
  BY <1>1, Zenon DEF Before, Phases
<1>4. CASE inMap
  <2>1. pending' = Append(pending, [op |-> "connectDestroyed"])
    BY <1>4, Zenon DEF DestroyServer, Queue
  <2>2. QueueOK(pending', state_ = "kConnecting", FALSE) /\ Destroys(pending')
    <3>1. [op |-> "connectDestroyed"].op = "connectDestroyed"
      BY Zenon
    <3> QED
      BY <1>4, <2>1, <3>1, AppendDestroy, Zenon DEF Before, Typed, QueueInv
  <2>3. QueueInv' /\ Destroys(pending)'
    BY <1>1, <2>2, Zenon DEF QueueInv, QueueOK, Destroys
  <2>4. ASSUME state_ = "kConnecting" PROVE Unborn'
    <3>1. Unborn
      BY <2>4, Zenon DEF Before, Phases
    <3>2. pending' # <<>> /\ Head(pending') = Head(pending)
      BY <2>1, <3>1, Appended DEF Before, Typed, Unborn
    <3> QED
      BY <1>1, <2>3, <3>1, <3>2, Zenon DEF Unborn
  <2>5. ASSUME state_ = "kConnected" PROVE Living'
    <3>1. Living
      BY <2>5, Zenon DEF Open, Before, Phases
    <3> QED
      BY <1>1, <2>3, <2>5, <3>1, Zenon DEF Living
  <2>6. state_' # "kDisconnected" /\ (Open' => state_ = "kConnected")
    BY <1>1, <1>2, <1>4, Zenon DEF Open
  <2> QED
    BY <1>1, <1>3, <2>3, <2>4, <2>5, <2>6, Zenon DEF After, Phases
<1>5. CASE ~inMap
  <2>1. pending' = pending
    BY <1>5, Zenon DEF DestroyServer
  <2>2. QueueInv' /\ (Destroys(pending)' <=> Destroys(pending))
    BY <1>1, <1>5, <2>1, Zenon DEF Before, QueueInv, QueueOK, Destroys
  <2>3. state_ = "kDisconnected"
    <3>1. state_ # "kConnecting"
      BY <1>1, <1>5, Zenon DEF Before, Phases, Unborn
    <3>2. ~Open
      BY <1>1, <1>5, Zenon DEF Before, Phases, Living
    <3> QED
      BY <3>1, <3>2, Zenon DEF Open, Before, Typed, Control
  <2>4. Ended
    BY <2>3, Zenon DEF Before, Phases
  <2>5. (Dying => Dying') /\ (Dead => Dead')
    BY <1>1, <2>2, Zenon DEF Dying, Dead
  <2>6. Ended'
    BY <1>1, <1>5, <2>4, <2>5, Zenon DEF Ended, Erasing
  <2>7. ~Open' /\ state_' # "kConnecting"
    BY <1>1, <2>3, Zenon DEF Open
  <2> QED
    BY <1>1, <1>3, <2>2, <2>6, <2>7, Zenon DEF After, Phases
<1> QED
  BY <1>4, <1>5, Zenon

-----------------------------------------------------------------------------
(* Threads hold the connection that they call, and a loop at rest has no   *)
(* event left to handle.                                                   *)
LEMMA CallsStep ==
  ASSUME Control, Calls, [Next]_vars
  PROVE  Calls'
<1> DEFINE Rest == lpc = "idle" => revents_ = {}
<1>1. \A t \in Others : (call'[t] # "none" => t \in holders')
  <2>1. CASE \E t \in Others : OtherStep(t)
    <3> SUFFICES ASSUME NEW t \in Others, NEW u \in Others, OtherStep(t), call'[u] # "none"
                 PROVE  u \in holders'
      BY <2>1, Zenon
    <3>1. call \in [Others -> {"none", "send", "shutdown", "forceClose",
                               "shutdownSet", "forceCloseSet"}]
      BY Zenon DEF Control
    <3>2. CASE Share(t)
      BY <3>2, Zenon DEF Share, Calls
    <3>3. CASE Release(t)
      BY <3>3, Zenon DEF Release, Calls
    <3>4. CASE CallEnds(t)
      BY <3>1, <3>4, Zenon DEF CallEnds, CallSets, CallQueues, Calls
    <3>5. CASE \E op \in OtherCalls : CallTests(t, op)
      BY <3>1, <3>5, Zenon DEF CallTests, Calls
    <3>6. CASE \E op \in OtherCalls : CallReads(t, op)
      BY <3>6, Zenon DEF CallReads, Calls, otherVars
    <3> QED
      BY <3>2, <3>3, <3>4, <3>5, <3>6, Zenon DEF OtherStep
  <2>2. CASE ~\E t \in Others : OtherStep(t)
    <3>1. UNCHANGED <<call, holders>>
      <4> USE DEF otherVars, Fail
      <4>1. \A queue, rest : handleClose(queue, rest) => UNCHANGED <<call, holders>>
        BY Zenon DEF handleClose
      <4>2. CASE FunctorStep
        BY <4>1, <4>2, Zenon DEF FunctorStep, connectEstablished, connectDestroyed,
                    forceCloseInLoop, UserFunctor, UnsharedFunctor
      <4>3. CASE EventStep \/ \E revents \in SUBSET {"hup", "err", "in", "out"} : Poll(revents)
        BY <4>1, <4>3, Zenon DEF EventStep, HandleHup, handleError, handleRead, handleWrite,
             Poll
      <4>4. CASE UserStep \/ UserReturns \/ DelayOver
        BY <4>4, Zenon DEF UserStep, UserSend, UserShutdown, UserForceClose,
           forceCloseWithDelay,
                    UserReads, UserReturns, DelayOver
      <4>5. CASE removeConnectionInLoop \/ DestroyServer
        BY <4>5, Zenon DEF removeConnectionInLoop, DestroyServer
      <4>6. CASE UNCHANGED vars
        BY <4>6, Zenon DEF vars
      <4> QED
        BY <2>2, <4>2, <4>3, <4>4, <4>5, <4>6, Zenon DEF Next
    <3> QED
      BY <3>1, Zenon DEF Calls
  <2> QED
    BY <2>1, <2>2, Zenon
<1>2. Rest'
  <2> USE DEF Fail, Continue
  <2>1. Rest
    BY Zenon DEF Calls
  <2>2. \A queue, rest : handleClose(queue, rest) => Rest'
    BY <2>1, Zenon DEF handleClose
  <2>3. CASE FunctorStep
    BY <2>1, <2>2, <2>3, Zenon DEF FunctorStep, connectEstablished, connectDestroyed,
                forceCloseInLoop, UserFunctor, UnsharedFunctor, CallFunctor
  <2>4. CASE EventStep \/ \E revents \in SUBSET {"hup", "err", "in", "out"} : Poll(revents)
    BY <2>1, <2>2, <2>4, ZenonT(30) DEF EventStep, HandleHup, handleError, handleRead,
         handleWrite, Poll
  <2>5. CASE UserStep \/ UserReturns \/ DelayOver
    BY <2>1, <2>5, Zenon DEF UserStep, UserSend, UserShutdown, UserForceClose,
       forceCloseWithDelay,
                UserReads, UserReturns, DelayOver
  <2>6. CASE removeConnectionInLoop \/ DestroyServer
    BY <2>1, <2>6, Zenon DEF removeConnectionInLoop, DestroyServer
  <2>7. CASE \E t \in Others : OtherStep(t)
    BY <2>1, <2>7, Zenon DEF OtherStep, Share, Release, CallEnds, CallSets, CallQueues,
         CallTests, CallReads
  <2>8. CASE UNCHANGED vars
    BY <2>1, <2>8, Zenon DEF vars
  <2> QED
    BY <2>3, <2>4, <2>5, <2>6, <2>7, <2>8, Zenon DEF Next
<1> QED
  BY <1>1, <1>2, Zenon DEF Calls

(* Nothing takes back that a call has crossed the end.                     *)
LEMMA CrossedStays ==
  ASSUME [Next]_vars, crossed
  PROVE  crossed'
<1> USE DEF Fail, SetDisconnecting
<1>1. \A queue, rest : handleClose(queue, rest) => crossed'
  BY Zenon DEF handleClose
<1>2. CASE FunctorStep
  <2>1. CASE UnsharedFunctor
    BY <2>1, Zenon DEF UnsharedFunctor
  <2> QED
    BY <1>1, <1>2, <2>1, Zenon DEF FunctorStep, connectEstablished, connectDestroyed,
       forceCloseInLoop, UserFunctor
<1>3. CASE EventStep
  BY <1>1, <1>3, Zenon DEF EventStep, HandleHup, handleError, handleRead, handleWrite
<1>4. CASE \E revents \in SUBSET {"hup", "err", "in", "out"} : Poll(revents)
  BY <1>4, Zenon DEF Poll
<1>5. CASE UserStep
  BY <1>5, Zenon DEF UserStep, UserSend, UserShutdown, UserForceClose, forceCloseWithDelay,
       UserReads
<1>6. CASE UserReturns \/ DelayOver
  BY <1>6, Zenon DEF UserReturns, DelayOver
<1>7. CASE \E t \in Others : OtherStep(t)
  <2>1. PICK t \in Others : OtherStep(t)
    BY <1>7, Zenon
  <2>2. CASE Share(t) \/ Release(t)
    BY <2>2, Zenon DEF Share, Release
  <2>3. CASE CallSets(t) \/ CallQueues(t)
    BY <2>3, Zenon DEF CallSets, CallQueues
  <2>4. CASE \E op \in OtherCalls : CallTests(t, op) \/ CallReads(t, op)
    BY <2>4, Zenon DEF CallTests, CallReads
  <2> QED
    BY <2>1, <2>2, <2>3, <2>4, Zenon DEF OtherStep, CallEnds
<1>8. CASE removeConnectionInLoop \/ DestroyServer
  BY <1>8, Zenon DEF removeConnectionInLoop, DestroyServer
<1>9. CASE UNCHANGED vars
  BY <1>9, Zenon DEF vars
<1> QED
  BY <1>2, <1>3, <1>4, <1>5, <1>6, <1>7, <1>8, <1>9, Zenon DEF Next

(* Every step keeps LifeInv.                                               *)
LEMMA LifeStep ==
  ASSUME Typed, LifeInv, [Next]_vars
  PROVE  LifeInv'
<1>1. Calls'
  BY CallsStep, Zenon DEF Typed, LifeInv
<1>2. ASSUME ~crossed' PROVE After
  <2>1. Before
    BY <1>2, CrossedStays, Zenon DEF Before, LifeInv
  <2>2. CASE connectEstablished
    BY <2>1, <2>2, LifeEstablished, Zenon
  <2>3. CASE DestroyServer
    BY <1>2, <2>1, <2>3, LifeServerEnds, Zenon
  <2>4. CASE Next /\ ~connectEstablished /\ ~DestroyServer
    <3>1. state_ # "kConnecting"
      BY <2>1, <2>4, Unconnected, Zenon DEF Before
    <3>2. CASE FunctorStep
      BY <1>2, <2>1, <2>4, <3>1, <3>2, LifeDestroyed, LifeFunctors, Zenon DEF FunctorStep
    <3>3. CASE EventStep \/ \E revents \in SUBSET {"hup", "err", "in", "out"} : Poll(revents)
      BY <1>2, <2>1, <3>1, <3>3, LifeEvents, Zenon
    <3>4. CASE UserStep \/ DelayOver
      BY <1>2, <2>1, <3>1, <3>4, LifeUser, Zenon
    <3>5. CASE UserReturns
      BY <2>1, <3>1, <3>5, LifeReturns, Zenon
    <3>6. CASE \E t \in Others : OtherStep(t)
      BY <1>2, <2>1, <3>1, <3>6, LifeOthers, Zenon
    <3>7. CASE removeConnectionInLoop
      BY <2>1, <3>1, <3>7, LifeErased, Zenon
    <3> QED
      BY <2>4, <3>2, <3>3, <3>4, <3>5, <3>6, <3>7, Zenon DEF Next
  <2>5. CASE UNCHANGED vars
    BY <2>1, <2>5, Zenon DEF vars, channelVars, serverVars, otherVars, Before, After,
       QueueInv,
         QueueOK, Destroys,
       Phases, Unborn, Open, Living, Ended, Erasing, Dying, Dead
  <2> QED
    BY <2>2, <2>3, <2>4, <2>5, Zenon
<1> QED
  BY <1>1, <1>2, Zenon DEF LifeInv, After

(* LifeInv is an invariant.                                                *)
LEMMA LifeInductive == Spec => [](Typed /\ LifeInv)
<1>1. TypeOK => Typed
  BY Zenon DEF TypeOK, Typed, Control
<1>2. Init => LifeInv
  <2> SUFFICES ASSUME Init PROVE LifeInv
    BY Zenon
  <2>1. /\ state_ = "kConnecting" /\ pending = <<[op |-> "connectEstablished"]>>
        /\ lpc = "idle" /\ holders = {} /\ events_ = {} /\ addedToLoop_ = FALSE
        /\ delayed = FALSE /\ downs = 0 /\ removals = 0 /\ inMap = TRUE /\ serverAlive = TRUE
        /\ failed = {} /\ revents_ = {} /\ call = [t \in Others |-> "none"]
    BY Zenon DEF Init, NewTcpConnection, NewChannel
  <2>2. Calls
    BY <2>1, Zenon DEF Calls
  <2>3. DOMAIN pending = {1} /\ pending[1].op = "connectEstablished" /\ pending # <<>>
        /\ Head(pending).op = "connectEstablished"
    BY <2>1
  <2>4. "connectEstablished" # "connectDestroyed" /\ "connectEstablished" \notin Unshared
    BY Zenon DEF Unshared
  <2>5. QueueInv
    BY <2>1, <2>3, <2>4, Zenon DEF QueueInv, QueueOK, Destroys
  <2>6. Phases
    <3>1. ~Open
      BY <2>1, Zenon DEF Open
    <3> QED
      BY <2>1, <2>3, <3>1, Zenon DEF Phases, Unborn
  <2> QED
    BY <2>2, <2>5, <2>6, Zenon DEF LifeInv
<1>3. Typed /\ LifeInv /\ [Next]_vars => LifeInv'
  BY LifeStep, Zenon
<1> QED
  BY <1>1, <1>2, <1>3, ConnTypes, PTL DEF Spec

(* The asserts of handleClose, connectEstablished, Channel::remove and     *)
(* removeConnectionInLoop hold, and no functor that is bound to this runs  *)
(* after the connection is freed, unless a call crosses its end.           *)
THEOREM AssertsTheorem == Spec => []AssertsHold
<1>1. LifeInv => AssertsHold
  BY Zenon DEF LifeInv, Phases, AssertsHold
<1> QED
  BY <1>1, LifeInductive, PTL

(* When the last TcpConnectionPtr is gone the connection is disconnected,  *)
(* the loop does not know its Channel and the user was told once           *)
(* (~TcpConnection, ~Channel).                                             *)
THEOREM GoneTheorem == Spec => []GoneInOrder
<1>1. Typed /\ LifeInv => GoneInOrder
  <2> SUFFICES ASSUME Typed, LifeInv, ~Alive, ~crossed
               PROVE  state_ = "kDisconnected" /\ ~addedToLoop_ /\ downs = 1
    BY Zenon DEF GoneInOrder
  <2>1. Phases /\ ~inMap /\ lpc = "idle"
    BY Zenon DEF LifeInv, Alive
  <2>2. ~Destroys(pending)
    <3>1. "connectDestroyed" \in Shared
      BY Zenon DEF Shared
    <3> QED
      BY <3>1, Zenon DEF Alive, Destroys
  <2>3. ~Unborn /\ ~Living
    BY <2>1, <2>2, Zenon DEF Unborn, Living
  <2>4. state_ = "kDisconnected"
    BY <2>1, <2>3, Zenon DEF Phases, Open, Typed, Control
  <2>5. Ended
    BY <2>1, <2>4, Zenon DEF Phases
  <2>6. Dead
    BY <2>1, <2>2, <2>5, Zenon DEF Ended, Erasing, Dying
  <2> QED
    BY <2>4, <2>5, <2>6, Zenon DEF Ended, Dead
<1> QED
  BY <1>1, LifeInductive, PTL

-----------------------------------------------------------------------------
(* What one step may change together.                                      *)
Moves ==
  /\ inMap' => inMap
  /\ state_' = "kConnecting" => state_ = "kConnecting"
  /\ state_ = "kConnecting" => state_' \in {"kConnecting", "kConnected"}
  /\ state_ = "kDisconnected" => state_' = "kDisconnected"
  /\ state_' = state_ \/ inMap' = inMap
  /\ (addedToLoop_' <=> addedToLoop_) \/ inMap' = inMap
  /\ state_ = "kDisconnected" /\ ~addedToLoop_ => ~addedToLoop_'

(* handleClose makes such a step.                                          *)
LEMMA CloseMoves ==
  ASSUME NEW queue, NEW rest, handleClose(queue, rest), Open
  PROVE  Moves
<1>1. state_' = "kDisconnected" /\ inMap' = inMap
  BY Zenon DEF handleClose, serverVars
<1>2. state_ # "kConnecting" /\ state_ # "kDisconnected"
  BY Zenon DEF Open
<1> QED
  BY <1>1, <1>2, Zenon DEF Moves

(* So does every quiet step.                                               *)
LEMMA QuietMoves ==
  ASSUME UNCHANGED <<state_, addedToLoop_, inMap>>
  PROVE  Moves
BY Zenon DEF Moves

(* Every step that does not cross the end makes such a step.               *)
LEMMA StepMoves ==
  ASSUME Before, Next, ~crossed'
  PROVE  Moves
<1>1. Typed /\ Control /\ QueueInv /\ Phases
  BY Zenon DEF Before, Typed
<1>2. state_ = "kDisconnected" => events_ = {}
  BY <1>1, Zenon DEF Phases, Ended
<1>3. CASE connectEstablished
  <2>1. state_ = "kConnecting"
    BY <1>1, <1>3, Establishes, Zenon DEF connectEstablished, CallFunctor
  <2>2. state_' = "kConnected" /\ inMap' = inMap
    BY <1>3, <2>1, Zenon DEF connectEstablished, serverVars
  <2> QED
    BY <2>1, <2>2, Zenon DEF Moves
<1>4. CASE DestroyServer
  BY <1>4, Zenon DEF DestroyServer, channelVars, Moves
<1>5. CASE removeConnectionInLoop
  <2>1. UNCHANGED <<state_, addedToLoop_>>
    BY <1>5, Zenon DEF removeConnectionInLoop, channelVars
  <2>2. inMap' => inMap
    BY <1>5, Zenon DEF removeConnectionInLoop
  <2> QED
    BY <2>1, <2>2, Zenon DEF Moves
<1>6. ASSUME state_ # "kConnecting", state_ # "kDisconnected", inMap' = inMap, state_' # "kConnecting"
      PROVE  Moves
  BY <1>6, Zenon DEF Moves
<1>7. CASE Next /\ ~connectEstablished /\ ~DestroyServer /\ ~removeConnectionInLoop
  <2>1. state_ # "kConnecting"
    BY <1>7, Unconnected, Zenon DEF Before
  <2>2. CASE connectDestroyed
    <3>1. inMap' = inMap /\ (state_' = state_ \/ state_' = "kDisconnected")
      BY <2>2, Zenon DEF connectDestroyed, serverVars
    <3>2. CASE state_ = "kDisconnected"
      <4>1. addedToLoop_' = FALSE /\ state_' = state_
        BY <1>2, <2>2, <3>2, ZenonT(30) DEF connectDestroyed, RemoveChannel
      <4> QED
        BY <3>1, <3>2, <4>1, Zenon DEF Moves
    <3> QED
      BY <1>6, <2>1, <3>1, <3>2, Zenon
  <2>3. CASE forceCloseInLoop \/ UserFunctor
    <3>1. CASE Open /\ handleClose(Tail(pending), {})
      BY <3>1, CloseMoves, Zenon
    <3> QED
      BY <2>3, <3>1, QuietMoves, Zenon DEF forceCloseInLoop, UserFunctor, channelVars,
         serverVars
  <2>4. CASE UnsharedFunctor
    <3>1. Alive
      BY <1>1, <2>4, NotFreed, Zenon DEF UnsharedFunctor, CallFunctor
    <3>2. UNCHANGED <<state_, inMap>>
      BY <2>4, <3>1, Zenon DEF UnsharedFunctor, serverVars
    <3>3. CASE state_ = "kDisconnected"
      <4>1. addedToLoop_' <=> addedToLoop_
        <5>1. CASE sendInLoop(Tail(pending), Head(pending).msg)
          BY <1>1, <2>1, <5>1, SendQuiet, Zenon
        <5>2. CASE UNCHANGED channelVars
          BY <5>2, Zenon DEF channelVars
        <5>3. ~Ending \/ ~(crossed' = (crossed \/ Ending))
          BY ZenonT(30)
        <5> QED
          BY <2>4, <3>1, <3>3, <5>1, <5>2, <5>3, ZenonT(30) DEF UnsharedFunctor, Ending
      <4> QED
        BY <3>2, <3>3, <4>1, Zenon DEF Moves
    <3> QED
      BY <1>6, <2>1, <3>2, <3>3, Zenon
  <2>5. CASE \E revents \in SUBSET {"hup", "err", "in", "out"} : Poll(revents)
    BY <2>5, QuietMoves, Zenon DEF Poll, channelVars, serverVars
  <2>6. CASE HandleHup \/ handleError \/ handleRead
    <3>1. CASE \E rest : handleClose(pending, rest)
      <4>1. PICK rest : handleClose(pending, rest)
        BY <3>1, Zenon
      <4>2. CASE Open
        BY <4>1, <4>2, CloseMoves, Zenon
      <4>3. CASE ~Open
        <5>1. UNCHANGED <<state_, addedToLoop_, inMap>>
          BY <4>1, <4>3, Zenon DEF handleClose, Fail, channelVars, serverVars
        <5> QED
          BY <5>1, QuietMoves, Zenon
      <4> QED
        BY <4>2, <4>3, Zenon
    <3>2. CASE UNCHANGED <<state_, addedToLoop_, inMap>>
      BY <3>2, QuietMoves, Zenon
    <3> QED
      BY <2>6, <3>1, <3>2, Zenon DEF HandleHup, handleError, handleRead, channelVars,
         serverVars
  <2>7. CASE handleWrite
    <3>1. UNCHANGED <<state_, inMap>>
      BY <2>7, Zenon DEF handleWrite, serverVars
    <3>2. state_ = "kDisconnected" => UNCHANGED addedToLoop_
      BY <1>2, <2>7, Zenon DEF handleWrite, channelVars
    <3> QED
      BY <1>6, <2>1, <3>1, <3>2, QuietMoves, Zenon
  <2>8. CASE UserStep \/ DelayOver
    <3>1. inMap' = inMap
      BY <2>8, Zenon DEF UserStep, UserSend, UserShutdown, UserForceClose,
         forceCloseWithDelay,
                  UserReads, DelayOver, serverVars
    <3>2. state_' = state_ \/ state_' = "kDisconnecting"
      BY <2>8, Zenon DEF UserStep, UserSend, UserShutdown, UserForceClose,
         forceCloseWithDelay,
                  UserReads, DelayOver, SetDisconnecting
    <3>3. ASSUME state_ = "kDisconnected"
          PROVE  UNCHANGED <<state_, addedToLoop_>>
      <4>1. Ending /\ ~Open
        BY <3>3, Zenon DEF Ending, Open
      <4>2. DelayOver
        BY <2>8, <3>3, <4>1, ZenonT(30) DEF UserStep, UserSend, UserShutdown,
           UserForceClose,
                  forceCloseWithDelay, UserReads
      <4> QED
        BY <4>1, <4>2, Zenon DEF DelayOver, channelVars
    <3> QED
      BY <1>6, <2>1, <3>1, <3>2, <3>3, QuietMoves, Zenon
  <2>9. CASE UserReturns
    <3>1. UNCHANGED <<state_, inMap>>
      BY <2>9, Zenon DEF UserReturns
    <3>2. addedToLoop_' => addedToLoop_
      BY <2>9, Zenon DEF UserReturns, RemoveChannel
    <3> QED
      BY <2>1, <3>1, <3>2, Zenon DEF Moves
  <2>10. CASE \E t \in Others : OtherStep(t)
    <3>1. UNCHANGED <<addedToLoop_, inMap>>
      BY <2>10, Zenon DEF OtherStep, Share, Release, CallEnds, CallSets, CallQueues,
         CallTests,
                   CallReads, channelVars, serverVars
    <3>2. state_' = state_ \/ (state_' = "kDisconnecting" /\ ~Ending)
      BY <2>10, ZenonT(30) DEF OtherStep, Share, Release, CallEnds, CallSets, CallQueues,
           CallTests, CallReads,
                   SetDisconnecting
    <3>3. state_ = "kDisconnected" => state_' = state_
      BY <3>2, Zenon DEF Ending
    <3> QED
      BY <1>6, <2>1, <3>1, <3>2, <3>3, QuietMoves, Zenon
  <2> QED
    BY <1>7, <2>2, <2>3, <2>4, <2>5, <2>6, <2>7, <2>8, <2>9, <2>10, ZenonT(30)
       DEF Next, FunctorStep, EventStep
<1> QED
  BY <1>3, <1>4, <1>5, <1>7, Zenon

(* A connection that is freed stays so: nothing is left that could refer   *)
(* to it again.                                                            *)
LEMMA NoRevival ==
  ASSUME Before, Next, ~Alive
  PROVE  ~Alive'
<1>1. /\ ~inMap /\ ~(removals > 0) /\ lpc = "idle" /\ holders = {}
      /\ \A i \in DOMAIN pending : pending[i].op \notin Shared
  BY Zenon DEF Alive
<1>2. pending = <<>>
  <2>1. pending \in Seq(Functor)
    BY Zenon DEF Before, Typed
  <2> SUFFICES ASSUME pending # <<>> PROVE FALSE
    BY Zenon
  <2>2. 1 \in DOMAIN pending /\ Head(pending) = pending[1] /\ Head(pending) \in Functor
    BY <2>1, HeadTailProperties, EmptySeq
  <2>3. Head(pending).op \in Shared \cup Unshared
    BY <2>2, Zenon DEF Functor, Unshared
  <2> QED
    BY <1>1, <2>2, <2>3, NotFreed, Zenon DEF Before
<1>3. ~FunctorStep /\ ~EventStep /\ ~UserStep /\ ~UserReturns /\ ~removeConnectionInLoop
      /\ \A revents : ~Poll(revents)
  BY <1>1, <1>2, ZenonT(30) DEF FunctorStep, connectEstablished, connectDestroyed,
       forceCloseInLoop,
     UserFunctor, UnsharedFunctor, CallFunctor, EventStep, HandleHup, handleError, handleRead,
     handleWrite, Turn, UserStep, UserSend, UserShutdown, UserForceClose, forceCloseWithDelay,
     UserReads, UserReturns, InUserCode, UserCode, removeConnectionInLoop, Poll
<1>4. \A t \in Others : ~OtherStep(t)
  <2>1. \A t \in Others : t \notin holders /\ call[t] = "none"
    BY <1>1, Zenon DEF Before, Calls
  <2> QED
    BY <1>1, <2>1, Zenon DEF OtherStep, Share, Release, CallEnds, CallSets, CallQueues,
         CallTests, CallReads
<1>5. /\ UNCHANGED <<removals, lpc, holders, pending>>
      /\ inMap' = FALSE \/ inMap' = inMap
  <2>1. CASE DelayOver
    BY <2>1, Zenon DEF DelayOver, otherVars, serverVars
  <2>2. CASE DestroyServer
    BY <1>1, <2>2, Zenon DEF DestroyServer, otherVars
  <2> QED
    BY <1>3, <1>4, <2>1, <2>2, ZenonT(30) DEF Next
<1> QED
  BY <1>1, <1>5, Zenon DEF Alive

(* The state of ConnLife in each phase.                                    *)
MapOK ==
  /\ state_ = "kConnecting" =>
       /\ life = "connecting" /\ asked = FALSE /\ addedToLoop_ = FALSE
       /\ owner = IF inMap THEN "map" ELSE "destroy"
  /\ Open =>
       /\ life = "connected" /\ asked = FALSE /\ addedToLoop_ = TRUE
       /\ owner = IF inMap THEN "map" ELSE "destroy"
  /\ state_ = "kDisconnected" =>
       /\ Erasing => /\ life = "disconnected" /\ asked = TRUE
                     /\ addedToLoop_ = TRUE /\ owner = "map"
       /\ Dying => /\ life = "disconnected" /\ asked = FALSE
                   /\ addedToLoop_ = TRUE /\ owner = "destroy"
       /\ Dead => /\ life = IF Alive THEN "disconnected" ELSE "freed"
                  /\ asked = FALSE /\ addedToLoop_ = FALSE /\ owner = "none"

(* It is that.                                                             *)
LEMMA Mapped ==
  ASSUME Typed, Flags, QueueInv, Phases
  PROVE  MapOK
<1>1. Destroys(pending) => Alive
  <2>1. "connectDestroyed" \in Shared
    BY Zenon DEF Shared
  <2> QED
    BY <2>1, Zenon DEF Destroys, Alive
<1>2. owner = IF inMap THEN "map"
              ELSE IF lpc = "destroying" \/ Destroys(pending) THEN "destroy" ELSE "none"
  BY Zenon DEF owner, Destroying, Destroys
<1>3. addedToLoop_ \in BOOLEAN /\ removals \in Nat
  BY Zenon DEF Flags, Typed, Control
<1>4. ASSUME state_ = "kConnecting"
      PROVE  /\ life = "connecting" /\ asked = FALSE /\ addedToLoop_ = FALSE
             /\ owner = IF inMap THEN "map" ELSE "destroy"
  <2>1. Unborn
    BY <1>4, Zenon DEF Phases
  <2>2. Alive
    BY <1>1, <2>1, Zenon DEF Unborn, Alive
  <2>3. life = "connecting"
    BY <1>4, <2>2, Zenon DEF life
  <2>4. asked = FALSE
    BY <1>3, <2>1 DEF asked, Unborn
  <2> QED
    BY <1>2, <1>3, <2>1, <2>3, <2>4, Zenon DEF Unborn
<1>5. ASSUME Open
      PROVE  /\ life = "connected" /\ asked = FALSE /\ addedToLoop_ = TRUE
             /\ owner = IF inMap THEN "map" ELSE "destroy"
  <2>1. Living
    BY <1>5, Zenon DEF Phases
  <2>2. Alive
    BY <1>1, <2>1, Zenon DEF Living, Alive
  <2>3. life = "connected"
    BY <1>5, <2>2, Zenon DEF life, Open
  <2>4. asked = FALSE
    BY <1>3, <2>1 DEF asked, Living
  <2> QED
    BY <1>2, <1>3, <2>1, <2>3, <2>4, Zenon DEF Living
<1>6. ASSUME state_ = "kDisconnected"
      PROVE  life = IF Alive THEN "disconnected" ELSE "freed"
  BY <1>6, Zenon DEF life
<1>7. ASSUME state_ = "kDisconnected", Erasing
      PROVE  life = "disconnected" /\ asked = TRUE /\ addedToLoop_ = TRUE /\ owner = "map"
  <2>1. Alive
    BY <1>7, Zenon DEF Erasing, Alive
  <2>2. asked = TRUE
    BY <1>7 DEF Erasing, asked
  <2> QED
    BY <1>2, <1>3, <1>6, <1>7, <2>1, <2>2, Zenon DEF Erasing
<1>8. ASSUME state_ = "kDisconnected", Dying
      PROVE  life = "disconnected" /\ asked = FALSE /\ addedToLoop_ = TRUE /\ owner = "destroy"
  <2>1. Alive
    BY <1>1, <1>8, Zenon DEF Dying, Alive
  <2>2. asked = FALSE
    BY <1>8 DEF Dying, asked
  <2> QED
    BY <1>2, <1>3, <1>6, <1>8, <2>1, <2>2, ZenonT(30) DEF Dying
<1>9. ASSUME state_ = "kDisconnected", Dead
      PROVE  asked = FALSE /\ addedToLoop_ = FALSE /\ owner = "none"
  <2>1. asked = FALSE
    BY <1>9 DEF Dead, asked
  <2>2. owner = "none"
    BY <1>2, <1>9, Zenon DEF Dead
  <2> QED
    BY <1>3, <1>9, <2>1, <2>2, Zenon DEF Dead
<1> QED
  BY <1>4, <1>5, <1>6, <1>7, <1>8, <1>9, Zenon DEF MapOK

(* Every step of TcpConnection is a step of ConnLife, or changes nothing   *)
(* of what that sees.                                                      *)
LEMMA LifeSimulates ==
  ASSUME Typed, Flags, LifeInv, ~crossed => MapOK,
         Typed', Flags', LifeInv', ~crossed' => MapOK',
         [Next]_vars
  PROVE  [Life!Next]_(Life!vars)
<1>1. CASE crossed'
  BY <1>1, Zenon DEF Life!Next
<1>2. CASE UNCHANGED vars
  <2>1. UNCHANGED <<state_, inMap, lpc, removals, holders, pending, addedToLoop_, crossed>>
    BY <1>2, Zenon DEF vars, serverVars, otherVars, channelVars
  <2>2. UNCHANGED <<life, owner, asked>>
    BY <2>1, ZenonT(30) DEF life, owner, asked, Alive, Destroying
  <2> QED
    BY <2>1, <2>2, ZenonT(30) DEF Life!vars
<1>3. CASE Next /\ ~crossed'
  <2>1. ~crossed /\ crossed' = crossed
    BY <1>3, CrossedStays, Zenon DEF Flags
  <2>2. Before /\ MapOK /\ MapOK' /\ Phases'
    BY <1>3, <2>1, Zenon DEF LifeInv, Before
  <2>3. Moves /\ (~Alive => ~Alive')
    BY <1>3, <2>2, StepMoves, NoRevival, Zenon
  <2>4. ASSUME Life!Step PROVE Life!Next
    BY <2>1, <2>4, Zenon DEF Life!Next
  <2>5. ASSUME UNCHANGED <<life, owner, asked, addedToLoop_>> PROVE UNCHANGED Life!vars
    BY <2>1, <2>5, Zenon DEF Life!vars
  <2>6. CASE state_ = "kConnecting" /\ state_' = "kConnecting"
    <3>1. /\ life = "connecting" /\ UNCHANGED <<life, asked, addedToLoop_>>
          /\ owner = IF inMap THEN "map" ELSE "destroy"
          /\ owner' = IF inMap' THEN "map" ELSE "destroy"
      BY <2>2, <2>6, Zenon DEF MapOK
    <3>2. owner' = owner \/ (owner = "map" /\ owner' = "destroy")
      BY <2>3, <3>1, Zenon DEF Moves
    <3> QED
      BY <2>4, <2>5, <3>1, <3>2, Zenon DEF Life!Step, Life!ServerEnds
  <2>7. CASE state_ = "kConnecting" /\ state_' = "kConnected"
    <3>1. Open' /\ inMap' = inMap
      BY <2>3, <2>7, Zenon DEF Open, Moves
    <3>2. /\ life = "connecting" /\ life' = "connected" /\ UNCHANGED <<owner, asked>>
          /\ owner # "none" /\ addedToLoop_' = TRUE
      BY <2>2, <2>7, <3>1, ZenonT(30) DEF MapOK
    <3> QED
      BY <2>4, <3>2, Zenon DEF Life!Step, Life!Establish
  <2>8. CASE Open /\ Open'
    <3>1. /\ life = "connected" /\ asked = FALSE /\ addedToLoop_ = TRUE
          /\ owner = IF inMap THEN "map" ELSE "destroy"
      BY <2>2, <2>8, Zenon DEF MapOK
    <3>2. /\ life' = "connected" /\ asked' = FALSE /\ addedToLoop_' = TRUE
          /\ owner' = IF inMap' THEN "map" ELSE "destroy"
      BY <2>2, <2>8, Zenon DEF MapOK
    <3>3. owner' = owner \/ (owner = "map" /\ owner' = "destroy")
      BY <2>3, <3>1, <3>2, Zenon DEF Moves
    <3>4. UNCHANGED <<life, asked, addedToLoop_>>
      BY <3>1, <3>2, Zenon
    <3> QED
      BY <2>4, <2>5, <3>1, <3>3, <3>4, Zenon DEF Life!Step, Life!ServerEnds
  <2>9. CASE Open /\ state_' = "kDisconnected"
    <3>1. inMap' = inMap /\ Ended'
      BY <2>2, <2>3, <2>9, Zenon DEF Open, Moves, Phases
    <3>2. /\ life = "connected" /\ asked = FALSE /\ addedToLoop_ = TRUE
          /\ owner = IF inMap THEN "map" ELSE "destroy"
      BY <2>2, <2>9, Zenon DEF MapOK
    <3>3. CASE Erasing'
      <4>1. owner = "map"
        BY <3>1, <3>2, <3>3, Zenon DEF Erasing
      <4>2. life' = "disconnected" /\ asked' = TRUE /\ addedToLoop_' = TRUE /\ owner' = "map"
        BY <2>2, <2>9, <3>3, Zenon DEF MapOK
      <4> QED
        BY <2>4, <3>2, <4>1, <4>2, Zenon DEF Life!Step, Life!Disconnect
    <3>4. CASE Dying'
      <4>1. owner = "destroy"
        BY <3>1, <3>2, <3>4, Zenon DEF Dying
      <4>2. life' = "disconnected" /\ asked' = FALSE /\ addedToLoop_' = TRUE /\ owner' = "destroy"
        BY <2>2, <2>9, <3>4, Zenon DEF MapOK
      <4> QED
        BY <2>4, <3>2, <4>1, <4>2, Zenon DEF Life!Step, Life!DisconnectLate
    <3>5. CASE Dead'
      <4>1. owner = "destroy"
        BY <3>1, <3>2, <3>5, ZenonT(30) DEF Dead
      <4>2. /\ life' \in {"disconnected", "freed"}
            /\ asked' = FALSE /\ addedToLoop_' = FALSE /\ owner' = "none"
        BY <2>2, <2>9, <3>5, Zenon DEF MapOK
      <4> QED
        BY <2>4, <3>2, <4>1, <4>2, Zenon DEF Life!Step, Life!Destroy
    <3> QED
      BY <3>1, <3>3, <3>4, <3>5, ZenonT(30) DEF Ended
  <2>10. CASE state_ = "kDisconnected" /\ state_' = "kDisconnected"
    <3>1. Ended /\ Ended'
      BY <2>2, <2>10, Zenon DEF Before, Phases
    <3>2. CASE Erasing
      <4>1. life = "disconnected" /\ asked = TRUE /\ addedToLoop_ = TRUE /\ owner = "map"
        BY <2>2, <2>10, <3>2, Zenon DEF MapOK
      <4>2. CASE Erasing'
        <5>1. life' = "disconnected" /\ asked' = TRUE /\ addedToLoop_' = TRUE /\ owner' = "map"
          BY <2>2, <2>10, <4>2, Zenon DEF MapOK
        <5> QED
          BY <2>5, <4>1, <5>1, Zenon
      <4>3. CASE Dying'
        <5>1. life' = "disconnected" /\ asked' = FALSE /\ addedToLoop_' = TRUE /\ owner' = "destroy"
          BY <2>2, <2>10, <4>3, Zenon DEF MapOK
        <5> QED
          BY <2>4, <4>1, <5>1, Zenon DEF Life!Step, Life!Erase
      <4>4. ~Dead'
        BY <2>3, <3>2, Zenon DEF Moves, Erasing, Dead
      <4> QED
        BY <3>1, <4>2, <4>3, <4>4, Zenon DEF Ended
    <3>3. CASE Dying
      <4>1. life = "disconnected" /\ asked = FALSE /\ addedToLoop_ = TRUE /\ owner = "destroy"
        BY <2>2, <2>10, <3>3, Zenon DEF MapOK
      <4>2. CASE Dying'
        <5>1. life' = "disconnected" /\ asked' = FALSE /\ addedToLoop_' = TRUE /\ owner' = "destroy"
          BY <2>2, <2>10, <4>2, Zenon DEF MapOK
        <5> QED
          BY <2>5, <4>1, <5>1, Zenon
      <4>3. CASE Dead'
        <5>1. /\ life' \in {"disconnected", "freed"}
              /\ asked' = FALSE /\ addedToLoop_' = FALSE /\ owner' = "none"
          BY <2>2, <2>10, <4>3, Zenon DEF MapOK
        <5>2. life \in {"connected", "disconnected"}
          BY <4>1, Zenon
        <5> QED
          BY <2>4, <4>1, <5>1, <5>2, ZenonT(30) DEF Life!Step, Life!Destroy
      <4>4. ~Erasing'
        BY <2>3, <3>3, Zenon DEF Moves, Erasing, Dying
      <4> QED
        BY <3>1, <4>2, <4>3, <4>4, Zenon DEF Ended
    <3>4. CASE Dead
      <4>1. Dead'
        BY <2>3, <2>10, <3>1, <3>4, Zenon DEF Moves, Ended, Erasing, Dying, Dead
      <4>2. /\ life = IF Alive THEN "disconnected" ELSE "freed"
            /\ life' = IF Alive' THEN "disconnected" ELSE "freed"
            /\ owner = "none" /\ UNCHANGED <<owner, asked, addedToLoop_>>
        BY <2>2, <2>10, <3>4, <4>1, Zenon DEF MapOK
      <4>3. life' = life \/ (life = "disconnected" /\ life' = "freed")
        BY <2>3, <4>2, Zenon
      <4> QED
        BY <2>4, <2>5, <4>2, <4>3, Zenon DEF Life!Step, Life!Free
    <3> QED
      BY <3>1, <3>2, <3>3, <3>4, Zenon DEF Ended
  <2> QED
    <3>1. Control /\ Control'
      BY Zenon DEF Typed
    <3> QED
      BY <2>3, <2>6, <2>7, <2>8, <2>9, <2>10, <3>1, Zenon DEF Control, Open, Moves
<1> QED
  BY <1>1, <1>2, <1>3, Zenon

(* TcpConnection implements ConnLife: it is established, disconnected,     *)
(* erased from the map, destroyed and freed in this order, whatever the    *)
(* other threads call, until one of them crosses the end.                  *)
THEOREM ConnLifeTheorem == Spec => ImplementsConnLife
<1>1. Init => Life!Init
  <2> SUFFICES ASSUME Init PROVE Life!Init
    BY Zenon
  <2>1. state_ = "kConnecting" /\ inMap /\ ~addedToLoop_ /\ crossed = FALSE
    BY Zenon DEF Init, NewTcpConnection, NewChannel
  <2>2. addedToLoop_ = FALSE /\ lpc = "idle" /\ removals = 0
    BY Zenon DEF Init, NewTcpConnection, NewChannel
  <2>3. Alive
    BY <2>1, Zenon DEF Alive
  <2>4. life = "connecting" /\ owner = "map" /\ asked = FALSE
    BY <2>1, <2>2, <2>3 DEF life, owner, asked
  <2> QED
    BY <2>1, <2>2, <2>4, Zenon DEF Life!Init
<1>2. Typed /\ Flags /\ LifeInv => (~crossed => MapOK)
  BY Mapped, Zenon DEF LifeInv
<1>3. /\ Typed /\ Flags /\ LifeInv /\ (~crossed => MapOK)
      /\ Typed' /\ Flags' /\ LifeInv' /\ (~crossed => MapOK)'
      /\ [Next]_vars
      => [Life!Next]_(Life!vars)
  BY LifeSimulates, Zenon
<1>4. Life!Init /\ [][Life!Next]_(Life!vars) => ImplementsConnLife
  BY Zenon DEF ImplementsConnLife, Life!Spec
<1>5. TypeOK => Flags
  BY Zenon DEF TypeOK, Flags
<1> QED
  BY <1>1, <1>2, <1>3, <1>4, <1>5, LifeInductive, ConnTypes, PTL DEF Spec
=============================================================================
