------------------------ MODULE TcpConnection_proofs ------------------------
(***************************************************************************)
(* Proofs about a connection for any number of threads that send and       *)
(* close, any number of messages, and writes that accept any part of one.  *)
(***************************************************************************)
EXTENDS TcpConnection, SequenceTheorems, TLAPS

Data == Seq(Bytes) \ {<<>>}

(* What the loop's queue holds for the connection: a message is not empty. *)
GoodQueue(queue) ==
  /\ queue \in Seq(Functors)
  /\ \A i \in 1 .. Len(queue) : queue[i][1] = "send" => queue[i][2] \in Data

(* A connection that newConnection has not established yet is untouched.   *)
Young ==
  state_ = "kConnecting" =>
    /\ ~reading /\ ~writing /\ ~inMap /\ ~destroyed
    /\ downs = 0 /\ outputBuffer_ = <<>> /\ pending = <<>>
    /\ \A t \in Threads : pc[t] = "idle"

Orderly == Young /\ OutputArmed /\ EndsOnce

IInv == TypeOK /\ GoodQueue(pending) /\ (~raced => Orderly)

-----------------------------------------------------------------------------
LEMMA ElementOf ==
  ASSUME NEW R, NEW s \in Seq(R)
  PROVE  Len(s) \in Nat /\ \A i \in 1 .. Len(s) : s[i] \in R
  OBVIOUS

LEMMA EndFunctor == <<"destroyed", <<>>>> \in Functors /\ <<"destroyed", <<>>>>[1] # "send"
  BY DEF Functors

LEMMA CloseFunctors ==
  ASSUME NEW op \in {"shutdown", "forceClose"}
  PROVE  <<op, <<>>>> \in Functors /\ <<op, <<>>>>[1] = op
  BY DEF Functors

LEMMA SendFunctor ==
  ASSUME NEW data \in Data
  PROVE  <<"send", data>> \in Functors
  BY DEF Functors, Data

(* Queueing a functor. *)
LEMMA Push ==
  ASSUME NEW queue, GoodQueue(queue), NEW f \in Functors, f[1] = "send" => f[2] \in Data
  PROVE  /\ GoodQueue(Append(queue, f))
         /\ NoEnd(queue) /\ f[1] # "destroyed" => NoEnd(Append(queue, f))
         /\ NoEnd(queue) /\ f[1] = "destroyed" => OneEnd(Append(queue, f))
         /\ OneEnd(queue) /\ f[1] # "destroyed" => OneEnd(Append(queue, f))
<1> DEFINE n == Len(queue)
           longer == Append(queue, f)
<1>1. queue \in Seq(Functors) /\ n \in Nat
  BY ElementOf DEF GoodQueue
<1>2. /\ longer \in Seq(Functors) /\ Len(longer) = n + 1
      /\ \A i \in 1 .. n : longer[i] = queue[i]
      /\ longer[n + 1] = f
  BY <1>1, AppendProperties
<1>3. \A i \in 1 .. n + 1 : i \in 1 .. n \/ i = n + 1
  BY <1>1
<1>4. \A i \in 1 .. n : queue[i][1] = "send" => queue[i][2] \in Data
  BY DEF GoodQueue
<1> HIDE DEF n, longer
<1>5. GoodQueue(longer)
  BY <1>2, <1>3, <1>4 DEF GoodQueue
<1>6. (NoEnd(queue) => \A i \in 1 .. n : queue[i][1] # "destroyed")
  BY DEF NoEnd, n
<1>7. NoEnd(queue) /\ f[1] # "destroyed" => NoEnd(longer)
  BY <1>2, <1>3, <1>6 DEF NoEnd
<1>8. NoEnd(queue) /\ f[1] = "destroyed" => OneEnd(longer)
  <2> SUFFICES ASSUME NoEnd(queue), f[1] = "destroyed"
               PROVE  \A i \in 1 .. n + 1 : longer[i][1] = "destroyed" <=> i = n + 1
    BY <1>1, <1>2 DEF OneEnd
  <2> QED BY <1>1, <1>2, <1>3, <1>6
<1>9. OneEnd(queue) /\ f[1] # "destroyed" => OneEnd(longer)
  <2> SUFFICES ASSUME OneEnd(queue), f[1] # "destroyed"
               PROVE  OneEnd(longer)
    OBVIOUS
  <2>1. PICK e \in 1 .. n : \A i \in 1 .. n : queue[i][1] = "destroyed" <=> i = e
    BY DEF OneEnd, n
  <2>2. \A i \in 1 .. n + 1 : longer[i][1] = "destroyed" <=> i = e
    BY <1>1, <1>2, <1>3, <2>1
  <2>3. e \in 1 .. n + 1
    BY <1>1
  <2>4. Len(longer) = n + 1
    BY <1>2
  <2>5. e \in 1 .. Len(longer)
    BY <2>3, <2>4
  <2>6. \A i \in 1 .. Len(longer) : longer[i][1] = "destroyed" <=> i = e
    BY <2>2, <2>4
  <2> QED BY <2>5, <2>6, Zenon DEF OneEnd
<1> QED BY <1>5, <1>7, <1>8, <1>9 DEF longer

(* The loop takes the first functor of the queue. *)
LEMMA Pop ==
  ASSUME NEW queue, GoodQueue(queue), queue # <<>>
  PROVE  /\ GoodQueue(Tail(queue))
         /\ Head(queue)[1] = "send" => Head(queue)[2] \in Data
         /\ NoEnd(queue) => NoEnd(Tail(queue)) /\ Head(queue)[1] # "destroyed"
         /\ OneEnd(queue) /\ Head(queue)[1] # "destroyed" => OneEnd(Tail(queue))
         /\ OneEnd(queue) /\ Head(queue)[1] = "destroyed" => NoEnd(Tail(queue))
<1> DEFINE n == Len(queue)
           rest == Tail(queue)
<1>1. queue \in Seq(Functors)
  BY DEF GoodQueue
<1>2. n \in Nat /\ n >= 1 /\ Head(queue) = queue[1]
  BY <1>1
<1>3. /\ rest \in Seq(Functors) /\ Len(rest) = n - 1
      /\ \A i \in 1 .. n - 1 : rest[i] = queue[i + 1]
  BY <1>1, HeadTailProperties
<1>4. \A i \in 1 .. n : queue[i][1] = "send" => queue[i][2] \in Data
  BY DEF GoodQueue
<1>5. NoEnd(queue) => \A i \in 1 .. n : queue[i][1] # "destroyed"
  BY DEF NoEnd
<1> HIDE DEF n, rest
<1>6. \A i \in 1 .. n - 1 : i + 1 \in 1 .. n /\ i + 1 # 1
  BY <1>2
<1>7. GoodQueue(rest)
  BY <1>3, <1>4, <1>6 DEF GoodQueue
<1>8. NoEnd(queue) => NoEnd(rest) /\ queue[1][1] # "destroyed"
  BY <1>2, <1>3, <1>5, <1>6 DEF NoEnd
<1>9. ASSUME OneEnd(queue) PROVE IF queue[1][1] = "destroyed" THEN NoEnd(rest) ELSE OneEnd(rest)
  <2>1. PICK e \in 1 .. n : \A i \in 1 .. n : queue[i][1] = "destroyed" <=> i = e
    BY <1>9 DEF OneEnd, n
  <2>2. CASE e = 1
    BY <1>2, <1>3, <1>6, <2>1, <2>2 DEF NoEnd
  <2>3. CASE e # 1
    <3>1. e - 1 \in 1 .. n - 1 /\ queue[1][1] # "destroyed"
      BY <1>2, <2>1, <2>3
    <3>2. \A i \in 1 .. n - 1 : rest[i][1] = "destroyed" <=> i + 1 = e
      BY <1>3, <1>6, <2>1
    <3>3. \A i \in 1 .. n - 1 : rest[i][1] = "destroyed" <=> i = e - 1
      BY <3>1, <3>2
    <3>4. Len(rest) = n - 1
      BY <1>3
    <3>5. e - 1 \in 1 .. Len(rest)
      BY <3>1, <3>4
    <3>6. \A i \in 1 .. Len(rest) : rest[i][1] = "destroyed" <=> i = e - 1
      BY <3>3, <3>4
    <3>7. OneEnd(rest)
      BY <3>5, <3>6, Zenon DEF OneEnd
    <3> QED BY <3>1, <3>7
  <2> QED BY <2>2, <2>3
<1>10. queue[1][1] = "send" => queue[1][2] \in Data
  BY <1>2, <1>4
<1> QED BY <1>2, <1>7, <1>8, <1>9, <1>10 DEF rest

-----------------------------------------------------------------------------
(* The types, Boolean variables apart.                                     *)
Flags ==
  /\ reading \in BOOLEAN /\ writing \in BOOLEAN /\ shutdownWrite \in BOOLEAN
  /\ inMap \in BOOLEAN /\ destroyed \in BOOLEAN /\ server \in BOOLEAN /\ raced \in BOOLEAN

Shapes ==
  /\ state_ \in {"kConnecting", "kConnected", "kDisconnecting", "kDisconnected"}
  /\ outputBuffer_ \in Seq(Bytes)
  /\ wire \in Seq(Bytes)
  /\ peer \in {"open", "closed", "reset", "gone"}
  /\ pending \in Seq(Functors)
  /\ pc \in [Threads -> {"idle", "send", "shutdown", "forceClose", "done"}]
  /\ sent \in [Senders -> Nat]
  /\ downs \in Nat

LEMMA Split == TypeOK <=> Flags /\ Shapes
  BY Zenon DEF TypeOK, Flags, Shapes

LEMMA SplitNext == Flags' /\ Shapes' => TypeOK'
  BY Zenon DEF TypeOK, Flags, Shapes

LEMMA Stutters == IInv /\ UNCHANGED vars => IInv'
<1> SUFFICES ASSUME IInv, UNCHANGED vars PROVE IInv'
  OBVIOUS
<1> USE DEF vars, Channel, Output, Callers, Life
<1>1. TypeOK'
  <2>1. Flags'
    BY Split, Zenon DEF IInv, Flags
  <2>2. Shapes'
    BY Split DEF IInv, Shapes
  <2> QED BY <2>1, <2>2, SplitNext
<1>2. GoodQueue(pending')
  BY DEF IInv
<1>3. ~raced' => Orderly'
  BY DEF IInv, Orderly, Young, OutputArmed, EndsOnce, Open
<1> QED BY <1>1, <1>2, <1>3 DEF IInv

-----------------------------------------------------------------------------
(* Sending.                                                                *)
LEMMA MessageData ==
  ASSUME NEW t \in Senders, sent[t] \in Nat
  PROVE  Message(t) \in Data
<1>1. <<t, 2 * sent[t] + 1>> \in Bytes /\ <<t, 2 * sent[t] + 2>> \in Bytes
  BY DEF Bytes
<1> QED BY <1>1 DEF Message, Data

LEMMA AcceptFacts ==
  ASSUME outputBuffer_ \in Seq(Bytes), wire \in Seq(Bytes),
         NEW data \in Data, NEW n \in 0 .. Len(data), Accept(data, n)
  PROVE  /\ outputBuffer_' \in Seq(Bytes) /\ wire' \in Seq(Bytes)
         /\ outputBuffer_' = <<>> <=> outputBuffer_ = <<>> /\ n = Len(data)
<1>1. data \in Seq(Bytes) /\ Len(data) \in Nat /\ n \in Nat
      /\ \A i \in 1 .. Len(data) : data[i] \in Bytes
  BY ElementOf DEF Data
<1> DEFINE done == SubSeq(data, 1, n)
           left == SubSeq(data, n + 1, Len(data))
<1>2. done \in Seq(Bytes)
  BY <1>1, SubSeqProperties
<1>3. /\ left \in Seq(Bytes)
      /\ Len(left) = IF n + 1 <= Len(data) THEN Len(data) - (n + 1) + 1 ELSE 0
  BY <1>1, SubSeqProperties
<1>4. Len(left) = 0 <=> n = Len(data)
  BY <1>1, <1>3
<1> HIDE DEF done, left
<1>5. wire' = wire \o done /\ outputBuffer_' = outputBuffer_ \o left
  BY DEF Accept, done, left
<1>6. wire' \in Seq(Bytes)
  BY <1>2, <1>5, ConcatProperties
<1>7. outputBuffer_' \in Seq(Bytes) /\ Len(outputBuffer_') = Len(outputBuffer_) + Len(left)
  BY <1>3, <1>5, ConcatProperties
<1>8. Len(outputBuffer_') = 0 <=> Len(outputBuffer_) = 0 /\ Len(left) = 0
  BY <1>3, <1>7
<1>9. /\ outputBuffer_' = <<>> <=> Len(outputBuffer_') = 0
      /\ outputBuffer_ = <<>> <=> Len(outputBuffer_) = 0
  BY <1>7
<1> QED BY <1>4, <1>6, <1>7, <1>8, <1>9

(* What a message does to the output, in a connection that is established. *)
LEMMA SendKeeps ==
  ASSUME TypeOK, NEW data \in Data, SendInLoop(data)
  PROVE  /\ outputBuffer_' \in Seq(Bytes) /\ wire' \in Seq(Bytes) /\ writing' \in BOOLEAN
         /\ (writing <=> outputBuffer_ # <<>>) => (writing' <=> outputBuffer_' # <<>>)
         /\ state_ = "kDisconnected" => UNCHANGED <<outputBuffer_, writing>>
<1>1. outputBuffer_ \in Seq(Bytes) /\ wire \in Seq(Bytes) /\ writing \in BOOLEAN
  BY DEF TypeOK
<1> DEFINE direct == ~writing /\ outputBuffer_ = <<>>
<1>2. CASE state_ = "kDisconnected" \/ (direct /\ Refuses)
  BY <1>1, <1>2 DEF SendInLoop, Output
<1>3. CASE ~(state_ = "kDisconnected" \/ (direct /\ Refuses))
  <2>1. PICK n \in IF direct THEN 0 .. Len(data) ELSE {0} :
          Accept(data, n) /\ writing' = (writing \/ n < Len(data))
    BY <1>3, Zenon DEF SendInLoop
  <2>2. Len(data) \in Nat \ {0}
    BY DEF Data
  <2>3. n \in 0 .. Len(data) /\ (~direct => n < Len(data))
    BY <2>1, <2>2
  <2>4. /\ outputBuffer_' \in Seq(Bytes) /\ wire' \in Seq(Bytes)
        /\ outputBuffer_' = <<>> <=> outputBuffer_ = <<>> /\ n = Len(data)
    BY <1>1, <2>1, <2>3, AcceptFacts
  <2>5. n < Len(data) <=> n # Len(data)
    BY <2>2, <2>3
  <2>6. (writing' <=> (writing \/ n # Len(data))) /\ writing' \in BOOLEAN
    BY <2>1, <2>5, Zenon
  <2> QED BY <1>3, <2>3, <2>4, <2>5, <2>6, Zenon
<1> QED BY <1>2, <1>3

-----------------------------------------------------------------------------
LEMMA InitInv == Init => IInv
<1> SUFFICES ASSUME Init PROVE IInv
  OBVIOUS
<1>1. TypeOK
  <2>1. Flags
    BY Zenon DEF Init, Flags
  <2>2. Shapes
    BY DEF Init, Shapes
  <2> QED BY <2>1, <2>2, Split
<1>2. GoodQueue(pending)
  BY DEF Init, GoodQueue
<1>3. Orderly
  BY DEF Init, Orderly, Young, OutputArmed, EndsOnce, Open
<1> QED BY <1>1, <1>2, <1>3 DEF IInv

-----------------------------------------------------------------------------
(* Steps that leave the queue and the output alone.                        *)
LEMMA NewConnectionKeeps == ASSUME IInv, NewConnection PROVE IInv'
<1> USE DEF NewConnection, Channel, Output, Callers, Life
<1>1. Flags'
  BY Split, Zenon DEF IInv, Flags
<1>2. Shapes'
  BY Split DEF IInv, Shapes
<1>3. GoodQueue(pending')
  BY DEF IInv
<1>4. ~raced' => Orderly'
  <2>1. ~raced => downs = 0 /\ ~writing /\ outputBuffer_ = <<>> /\ pending = <<>> /\ ~destroyed
    BY Zenon DEF IInv, Orderly, Young
  <2> QED BY <2>1 DEF Orderly, Young, OutputArmed, EndsOnce, Open, NoEnd
<1> QED BY <1>1, <1>2, <1>3, <1>4, SplitNext DEF IInv

LEMMA PeerKeeps == ASSUME IInv, PeerCloses \/ HandleReadError PROVE IInv'
<1> USE DEF PeerCloses, HandleReadError, Channel, Output, Callers, Life
<1>1. Flags'
  BY Split, Zenon DEF IInv, Flags
<1>2. Shapes'
  BY Split DEF IInv, Shapes
<1>3. GoodQueue(pending')
  BY DEF IInv
<1>4. ~raced' => Orderly'
  BY DEF IInv, Orderly, Young, OutputArmed, EndsOnce, Open
<1> QED BY <1>1, <1>2, <1>3, <1>4, SplitNext DEF IInv

LEMMA LoopShutdownKeeps == ASSUME IInv, LoopShutdown PROVE IInv'
<1> USE DEF LoopShutdown, Channel, Output, Callers, Life
<1>1. Flags'
  <2>1. shutdownWrite' \in BOOLEAN
    BY Zenon DEF ShutdownInLoop
  <2> QED BY <2>1, Split, Zenon DEF IInv, Flags
<1>2. Shapes'
  BY Split DEF IInv, Shapes
<1>3. GoodQueue(pending')
  BY DEF IInv
<1>4. ~raced' => Orderly'
  BY DEF IInv, Orderly, Young, OutputArmed, EndsOnce, Open
<1> QED BY <1>1, <1>2, <1>3, <1>4, SplitNext DEF IInv

(* The other threads' tests.                                               *)
LEMMA TestsKeep ==
  ASSUME IInv, NEW t \in Threads, TestSend(t) \/ TestShutdown(t) \/ TestForceClose(t)
  PROVE  IInv'
<1> USE DEF Channel, Output, Callers, Life
<1>1. PICK call \in {"send", "shutdown", "forceClose"} :
        pc' = [pc EXCEPT ![t] = call] /\ state_ # "kConnecting"
  BY DEF TestSend, TestShutdown, TestForceClose, Tests
<1>2. UNCHANGED <<state_, Channel, Output, shutdownWrite, peer, pending, sent, raced, Life>>
  BY DEF TestSend, TestShutdown, TestForceClose, Tests
<1>3. Flags'
  BY <1>2, Split, Zenon DEF IInv, Flags
<1>4. Shapes'
  BY <1>1, <1>2, Split DEF IInv, Shapes
<1>5. GoodQueue(pending')
  BY <1>2 DEF IInv
<1>6. ~raced' => Orderly'
  BY <1>1, <1>2 DEF IInv, Orderly, Young, OutputArmed, EndsOnce, Open
<1> QED BY <1>3, <1>4, <1>5, <1>6, SplitNext DEF IInv

-----------------------------------------------------------------------------
(* handleClose: the end is told once and queued once.                      *)
LEMMA HandleCloseKeeps ==
  ASSUME IInv, NEW queue, GoodQueue(queue), HandleClose(queue), UNCHANGED peer,
         ~raced => Open /\ NoEnd(queue)
  PROVE  IInv'
<1> USE DEF HandleClose, Output, Callers, Life
<1> DEFINE end == <<"destroyed", <<>>>>
<1>1. end \in Functors /\ end[1] = "destroyed" /\ end[1] # "send"
  BY EndFunctor
<1> HIDE DEF end
<1>2. pending' = Append(queue, end)
  BY DEF end
<1>3. GoodQueue(pending') /\ (NoEnd(queue) => OneEnd(pending'))
  BY <1>1, <1>2, Push
<1>4. Flags'
  BY Split, Zenon DEF IInv, Flags
<1>5. Shapes'
  BY <1>3, Split DEF IInv, Shapes, GoodQueue
<1>6. ~raced' => Orderly'
  <2>1. ~raced => Open /\ downs = 0 /\ ~destroyed
    BY DEF IInv, Orderly, EndsOnce
  <2> QED BY <1>3, <2>1 DEF Orderly, Young, OutputArmed, EndsOnce, Open
<1> QED BY <1>3, <1>4, <1>5, <1>6, SplitNext DEF IInv

LEMMA ReadClosedKeeps == ASSUME IInv, HandleReadClosed PROVE IInv'
<1>1. reading /\ HandleClose(pending) /\ UNCHANGED peer
  BY Zenon DEF HandleReadClosed
<1>2. ~raced => Open /\ NoEnd(pending)
  <2>1. state_ \in {"kConnecting", "kConnected", "kDisconnecting", "kDisconnected"}
    BY DEF IInv, TypeOK
  <2>2. ~raced => state_ # "kConnecting" /\ state_ # "kDisconnected"
    BY <1>1, Zenon DEF IInv, Orderly, Young, EndsOnce
  <2> QED BY <2>1, <2>2 DEF IInv, Orderly, EndsOnce, Open
<1> QED BY <1>1, <1>2, HandleCloseKeeps DEF IInv

(* The first functor of the queue is run.                                  *)
LEMMA Popped ==
  ASSUME IInv, pending # <<>>, NEW op, Head(pending)[1] = op
  PROVE  /\ GoodQueue(Tail(pending))
         /\ op = "send" => Head(pending)[2] \in Data
         /\ ~raced => state_ # "kConnecting"
         /\ ~raced /\ Open => NoEnd(Tail(pending)) /\ op # "destroyed"
         /\ ~raced /\ state_ = "kDisconnected" =>
              IF destroyed THEN NoEnd(Tail(pending)) /\ op # "destroyed"
              ELSE IF op = "destroyed" THEN NoEnd(Tail(pending)) ELSE OneEnd(Tail(pending))
<1>1. GoodQueue(pending)
  BY DEF IInv
<1>2. ~raced => state_ # "kConnecting"
  BY DEF IInv, Orderly, Young
<1>3. ~raced /\ Open => NoEnd(pending)
  BY Zenon DEF IInv, Orderly, EndsOnce
<1>4. ~raced /\ state_ = "kDisconnected" => IF destroyed THEN NoEnd(pending) ELSE OneEnd(pending)
  BY Zenon DEF IInv, Orderly, EndsOnce
<1>5. /\ GoodQueue(Tail(pending))
      /\ op = "send" => Head(pending)[2] \in Data
      /\ NoEnd(pending) => NoEnd(Tail(pending)) /\ op # "destroyed"
      /\ OneEnd(pending) /\ op # "destroyed" => OneEnd(Tail(pending))
      /\ OneEnd(pending) /\ op = "destroyed" => NoEnd(Tail(pending))
  BY <1>1, Pop
<1> QED BY <1>2, <1>3, <1>4, <1>5, Zenon

LEMMA RunForceCloseKeeps == ASSUME IInv, RunForceClose PROVE IInv'
<1>1. pending # <<>> /\ Head(pending)[1] = "forceClose" /\ UNCHANGED peer
  BY DEF RunForceClose
<1>2. CASE Open
  <2>1. HandleClose(Tail(pending))
    BY <1>2 DEF RunForceClose, Open
  <2>2. GoodQueue(Tail(pending)) /\ (~raced => NoEnd(Tail(pending)))
    BY <1>1, <1>2, Popped
  <2> QED BY <1>1, <1>2, <2>1, <2>2, HandleCloseKeeps
<1>3. CASE ~Open
  <2> USE DEF Channel, Output, Callers, Life
  <2>1. /\ pending' = Tail(pending)
        /\ UNCHANGED <<state_, Channel, Output, shutdownWrite, Callers, Life>>
    BY <1>3 DEF RunForceClose, Open
  <2>2. GoodQueue(pending')
    BY <1>1, <2>1, Popped
  <2>3. Flags'
    BY <2>1, Split, Zenon DEF IInv, Flags
  <2>4. Shapes'
    BY <1>1, <2>1, <2>2, Split DEF IInv, Shapes, GoodQueue
  <2>5. ~raced' => Orderly'
    <3>1. ~raced /\ state_ = "kDisconnected" =>
            IF destroyed THEN NoEnd(pending') ELSE OneEnd(pending')
      BY <1>1, <2>1, Popped
    <3>2. ~raced => state_ # "kConnecting"
      BY <1>1, Popped
    <3> QED BY <1>3, <2>1, <3>1, <3>2 DEF IInv, Orderly, Young, OutputArmed, EndsOnce, Open
  <2> QED BY <2>2, <2>3, <2>4, <2>5, SplitNext DEF IInv
<1> QED BY <1>2, <1>3

LEMMA RunShutdownKeeps == ASSUME IInv, RunShutdown PROVE IInv'
<1> USE DEF Channel, Output, Callers, Life
<1>1. pending # <<>> /\ Head(pending)[1] = "shutdown"
  BY DEF RunShutdown
<1>2. pending' = Tail(pending) /\ UNCHANGED <<state_, Channel, Output, peer, Callers, Life>>
  BY DEF RunShutdown
<1>3. GoodQueue(pending')
  BY <1>1, <1>2, Popped
<1>4. Flags'
  <2>1. shutdownWrite' \in BOOLEAN
    BY Zenon DEF RunShutdown, ShutdownInLoop
  <2> QED BY <1>2, <2>1, Split, Zenon DEF IInv, Flags
<1>5. Shapes'
  BY <1>2, <1>3, Split DEF IInv, Shapes, GoodQueue
<1>6. ~raced' => Orderly'
  <2>1. ~raced /\ state_ = "kDisconnected" =>
          IF destroyed THEN NoEnd(pending') ELSE OneEnd(pending')
    BY <1>1, <1>2, Popped
  <2>2. ~raced => state_ # "kConnecting"
    BY <1>1, Popped
  <2>3. ~raced /\ Open => NoEnd(pending')
    BY <1>1, <1>2, Popped
  <2> QED BY <1>2, <2>1, <2>2, <2>3 DEF IInv, Orderly, Young, OutputArmed, EndsOnce, Open
<1> QED BY <1>3, <1>4, <1>5, <1>6, SplitNext DEF IInv

LEMMA RunDestroyedKeeps == ASSUME IInv, RunDestroyed PROVE IInv'
<1> USE DEF Channel, Output, Callers, Life
<1>1. pending # <<>> /\ Head(pending)[1] = "destroyed"
  BY DEF RunDestroyed
<1>2. /\ pending' = Tail(pending)
      /\ UNCHANGED <<Output, shutdownWrite, peer, Callers, inMap, server>>
      /\ destroyed' = TRUE
  BY DEF RunDestroyed, ConnectDestroyed
<1>3. GoodQueue(pending')
  BY <1>1, <1>2, Popped
<1>4. Flags'
  <2>1. reading' \in BOOLEAN /\ writing' \in BOOLEAN
    BY Split, Zenon DEF IInv, Flags, RunDestroyed, ConnectDestroyed
  <2> QED BY <1>2, <2>1, Split, Zenon DEF IInv, Flags
<1>5. Shapes'
  <2>1. state_' \in {"kConnecting", "kConnected", "kDisconnecting", "kDisconnected"} /\ downs' \in Nat
    BY Split DEF IInv, Shapes, RunDestroyed, ConnectDestroyed
  <2> QED BY <1>2, <1>3, <2>1, Split DEF IInv, Shapes, GoodQueue
<1>6. ~raced' => Orderly'
  <2> SUFFICES ASSUME ~raced PROVE Orderly'
    BY <1>2
  <2>1. state_ = "kDisconnected" /\ NoEnd(pending')
    <3>1. state_ \in {"kConnecting", "kConnected", "kDisconnecting", "kDisconnected"}
      BY DEF IInv, TypeOK
    <3>2. state_ # "kConnecting" /\ ~Open
      BY <1>1, Popped
    <3>3. state_ = "kDisconnected"
      BY <3>1, <3>2 DEF Open
    <3> QED BY <1>1, <1>2, <3>3, Popped
  <2>2. UNCHANGED <<state_, Channel, downs>>
    BY <2>1 DEF RunDestroyed, ConnectDestroyed
  <2> QED BY <1>2, <2>1, <2>2 DEF IInv, Orderly, Young, OutputArmed, EndsOnce, Open
<1> QED BY <1>3, <1>4, <1>5, <1>6, SplitNext DEF IInv

-----------------------------------------------------------------------------
(* Output.                                                                 *)
LEMMA HandleWriteKeeps == ASSUME IInv, HandleWrite PROVE IInv'
<1> USE DEF Channel, Output, Callers, Life
<1>1. /\ writing
      /\ UNCHANGED <<state_, reading, peer, pending, Callers, Life>>
  BY DEF HandleWrite
<1>2. outputBuffer_ \in Seq(Bytes) /\ wire \in Seq(Bytes)
  BY DEF IInv, TypeOK
<1>3. PICK n \in 1 .. Len(outputBuffer_) :
        /\ wire' = wire \o SubSeq(outputBuffer_, 1, n)
        /\ outputBuffer_' = SubSeq(outputBuffer_, n + 1, Len(outputBuffer_))
        /\ writing' = (n < Len(outputBuffer_))
  BY Zenon DEF HandleWrite
<1>4. /\ outputBuffer_' \in Seq(Bytes) /\ wire' \in Seq(Bytes)
      /\ outputBuffer_' = <<>> <=> n = Len(outputBuffer_)
  <2> DEFINE done == SubSeq(outputBuffer_, 1, n)
             left == SubSeq(outputBuffer_, n + 1, Len(outputBuffer_))
  <2>1. /\ Len(outputBuffer_) \in Nat /\ n \in Nat /\ 1 <= n /\ n <= Len(outputBuffer_)
        /\ \A i \in 1 .. Len(outputBuffer_) : outputBuffer_[i] \in Bytes
    BY <1>2, ElementOf
  <2>2. done \in Seq(Bytes)
    BY <2>1, SubSeqProperties
  <2>3. left \in Seq(Bytes)
        /\ Len(left) = IF n + 1 <= Len(outputBuffer_) THEN Len(outputBuffer_) - (n + 1) + 1 ELSE 0
    BY <2>1, SubSeqProperties
  <2> HIDE DEF done, left
  <2>4. left = <<>> <=> Len(left) = 0
    BY <2>3
  <2>5. left = <<>> <=> n = Len(outputBuffer_)
    BY <2>1, <2>3, <2>4
  <2>6. wire' = wire \o done /\ outputBuffer_' = left
    BY <1>3 DEF done, left
  <2> QED BY <1>2, <2>2, <2>3, <2>5, <2>6, ConcatProperties
<1>5. writing' \in BOOLEAN /\ (writing' <=> outputBuffer_' # <<>>)
  <2>1. n < Len(outputBuffer_) <=> n # Len(outputBuffer_)
    BY <1>2, ElementOf
  <2>2. writing' = (n < Len(outputBuffer_))
    BY <1>3, Zenon
  <2>3. writing' \in BOOLEAN
    BY <2>2
  <2>4. writing' <=> n < Len(outputBuffer_)
    BY <2>2, Zenon
  <2> QED BY <1>4, <2>1, <2>3, <2>4, Zenon
<1>6. Flags'
  <2>1. shutdownWrite' \in BOOLEAN
    BY Zenon DEF HandleWrite
  <2> QED BY <1>1, <1>5, <2>1, Split, Zenon DEF IInv, Flags
<1>7. Shapes'
  BY <1>1, <1>4, Split DEF IInv, Shapes
<1>8. GoodQueue(pending')
  BY <1>1 DEF IInv
<1>9. ~raced' => Orderly'
  <2>1. ~raced => state_ # "kConnecting" /\ state_ # "kDisconnected"
    BY <1>1, Zenon DEF IInv, Orderly, Young, EndsOnce
  <2> QED BY <1>1, <1>5, <2>1 DEF IInv, Orderly, Young, OutputArmed, EndsOnce, Open
<1> QED BY <1>6, <1>7, <1>8, <1>9, SplitNext DEF IInv

(* A message is sent in the loop thread, by a callback or off the queue.   *)
LEMMA SentKeeps ==
  ASSUME IInv, NEW data \in Data, SendInLoop(data),
         UNCHANGED <<state_, reading, shutdownWrite, peer, pc, raced, Life>>,
         sent' \in [Senders -> Nat], GoodQueue(pending'),
         ~raced => state_ # "kConnecting",
         ~raced /\ Open => NoEnd(pending'),
         ~raced /\ state_ = "kDisconnected" =>
           IF destroyed THEN NoEnd(pending') ELSE OneEnd(pending')
  PROVE  IInv'
<1> USE DEF Life
<1>1. TypeOK
  BY DEF IInv
<1>2. /\ outputBuffer_' \in Seq(Bytes) /\ wire' \in Seq(Bytes) /\ writing' \in BOOLEAN
      /\ (writing <=> outputBuffer_ # <<>>) => (writing' <=> outputBuffer_' # <<>>)
      /\ state_ = "kDisconnected" => UNCHANGED <<outputBuffer_, writing>>
  BY <1>1, SendKeeps
<1>3. Flags'
  BY <1>2, Split, Zenon DEF IInv, Flags
<1>4. Shapes'
  BY <1>2, Split DEF IInv, Shapes, GoodQueue
<1>5. ~raced' => Orderly'
  <2> SUFFICES ASSUME ~raced PROVE Orderly'
    OBVIOUS
  <2>1. Young'
    BY DEF Young
  <2>2. OutputArmed'
    <3>1. Open => (writing <=> outputBuffer_ # <<>>)
      BY Zenon DEF IInv, Orderly, OutputArmed
    <3>2. Open' => Open
      BY DEF Open
    <3> QED BY <1>2, <3>1, <3>2, Zenon DEF OutputArmed
  <2>3. EndsOnce'
    BY <1>2 DEF IInv, Orderly, EndsOnce, Open
  <2> QED BY <2>1, <2>2, <2>3 DEF Orderly
<1> QED BY <1>3, <1>4, <1>5, SplitNext DEF IInv

LEMMA LoopSendKeeps == ASSUME IInv, LoopSend PROVE IInv'
<1>1. /\ state_ = "kConnected" /\ SendInLoop(Message(Loop))
      /\ sent' = [sent EXCEPT ![Loop] = @ + 1]
      /\ UNCHANGED <<state_, reading, shutdownWrite, peer, pending, pc, raced, Life>>
  BY DEF LoopSend
<1>2. sent \in [Senders -> Nat] /\ Loop \in Senders
  BY DEF IInv, TypeOK, Senders
<1>3. Message(Loop) \in Data /\ sent' \in [Senders -> Nat]
  BY <1>1, <1>2, MessageData
<1>4. GoodQueue(pending') /\ (~raced => NoEnd(pending'))
  BY <1>1 DEF IInv, Orderly, EndsOnce, Open
<1> QED BY <1>1, <1>3, <1>4, SentKeeps

LEMMA RunSendKeeps == ASSUME IInv, RunSend PROVE IInv'
<1>1. /\ pending # <<>> /\ Head(pending)[1] = "send" /\ SendInLoop(Head(pending)[2])
      /\ pending' = Tail(pending)
      /\ UNCHANGED <<state_, reading, shutdownWrite, peer, pc, sent, raced, Life>>
  BY DEF RunSend, Callers
<1>2. sent' \in [Senders -> Nat]
  BY <1>1 DEF IInv, TypeOK
<1>3. /\ GoodQueue(pending') /\ Head(pending)[2] \in Data
      /\ ~raced => state_ # "kConnecting"
      /\ ~raced /\ Open => NoEnd(pending')
      /\ ~raced /\ state_ = "kDisconnected" =>
           IF destroyed THEN NoEnd(pending') ELSE OneEnd(pending')
  BY <1>1, Popped
<1> QED BY <1>1, <1>2, <1>3, SentKeeps

-----------------------------------------------------------------------------
(* Queueing, in the loop thread and in others.                             *)
LEMMA LoopForceCloseKeeps == ASSUME IInv, LoopForceClose PROVE IInv'
<1> USE DEF Channel, Output, Callers, Life
<1> DEFINE close == <<"forceClose", <<>>>>
<1>1. /\ Open /\ state_' = "kDisconnecting" /\ pending' = Append(pending, close)
      /\ UNCHANGED <<Channel, Output, shutdownWrite, peer, Callers, Life>>
  BY DEF LoopForceClose, Open
<1>2. close \in Functors /\ close[1] = "forceClose"
  BY CloseFunctors
<1> HIDE DEF close
<1>3. GoodQueue(pending') /\ (NoEnd(pending) => NoEnd(pending'))
  BY <1>1, <1>2, Push DEF IInv
<1>4. Flags'
  BY <1>1, Split, Zenon DEF IInv, Flags
<1>5. Shapes'
  BY <1>1, <1>3, Split DEF IInv, Shapes, GoodQueue
<1>6. ~raced' => Orderly'
  BY <1>1, <1>3 DEF IInv, Orderly, Young, OutputArmed, EndsOnce, Open
<1> QED BY <1>3, <1>4, <1>5, <1>6, SplitNext DEF IInv

LEMMA QueueSendKeeps == ASSUME IInv, NEW t \in Threads, QueueSend(t) PROVE IInv'
<1> USE DEF Channel, Output, Callers, Life
<1> DEFINE f == <<"send", Message(t)>>
<1>1. /\ pc[t] = "send" /\ pc' = [pc EXCEPT ![t] = "idle"]
      /\ sent' = [sent EXCEPT ![t] = @ + 1]
      /\ pending' = Append(pending, f)
      /\ UNCHANGED <<state_, Channel, Output, shutdownWrite, peer, raced, Life>>
  BY DEF QueueSend
<1>2. sent \in [Senders -> Nat] /\ t \in Senders
  BY DEF IInv, TypeOK, Senders
<1>3. Message(t) \in Data
  BY <1>2, MessageData
<1>4. f \in Functors /\ f[1] = "send" /\ f[2] \in Data
  BY <1>3, SendFunctor
<1> HIDE DEF f
<1>5. /\ GoodQueue(pending')
      /\ NoEnd(pending) => NoEnd(pending')
      /\ OneEnd(pending) => OneEnd(pending')
  BY <1>1, <1>4, Push DEF IInv
<1>6. Flags'
  BY <1>1, Split, Zenon DEF IInv, Flags
<1>7. Shapes'
  BY <1>1, <1>2, <1>5, Split DEF IInv, Shapes, GoodQueue
<1>8. ~raced' => Orderly'
  <2>1. ~raced => state_ # "kConnecting"
    BY <1>1, Zenon DEF IInv, Orderly, Young
  <2> QED BY <1>1, <1>5, <2>1 DEF IInv, Orderly, Young, OutputArmed, EndsOnce, Open
<1> QED BY <1>5, <1>6, <1>7, <1>8, SplitNext DEF IInv

(* Another thread closes: what is left are the types.                      *)
LEMMA QueueCloseKeeps == ASSUME IInv, NEW t \in Threads, QueueClose(t) PROVE IInv'
<1> USE DEF Channel, Output, Callers, Life
<1> DEFINE f == <<pc[t], <<>>>>
<1>1. /\ pc[t] \in {"shutdown", "forceClose"}
      /\ pc' = [pc EXCEPT ![t] = "done"]
      /\ state_' = "kDisconnecting" /\ raced' = TRUE
      /\ pending' = Append(pending, f)
      /\ UNCHANGED <<Channel, Output, shutdownWrite, peer, sent, Life>>
  BY DEF QueueClose
<1>2. f \in Functors /\ f[1] # "send"
  BY <1>1, CloseFunctors
<1> HIDE DEF f
<1>3. GoodQueue(pending')
  BY <1>1, <1>2, Push DEF IInv
<1>4. Flags'
  BY <1>1, Split, Zenon DEF IInv, Flags
<1>5. Shapes'
  BY <1>1, <1>3, Split DEF IInv, Shapes, GoodQueue
<1> QED BY <1>1, <1>3, <1>4, <1>5, SplitNext DEF IInv

LEMMA ServerDestroyedKeeps == ASSUME IInv, ServerDestroyed PROVE IInv'
<1> USE DEF Channel, Output
<1>1. /\ raced' = TRUE /\ server' = FALSE /\ inMap' = FALSE /\ destroyed' = TRUE
      /\ UNCHANGED <<Output, shutdownWrite, peer, pending, pc, sent>>
  BY DEF ServerDestroyed, ConnectDestroyed
<1>2. Flags'
  <2>1. reading' \in BOOLEAN /\ writing' \in BOOLEAN
    BY Split, Zenon DEF IInv, Flags, ServerDestroyed, ConnectDestroyed
  <2> QED BY <1>1, <2>1, Split, Zenon DEF IInv, Flags
<1>3. Shapes'
  <2>1. state_' \in {"kConnecting", "kConnected", "kDisconnecting", "kDisconnected"} /\ downs' \in Nat
    BY Split DEF IInv, Shapes, ServerDestroyed, ConnectDestroyed
  <2> QED BY <1>1, <2>1, Split DEF IInv, Shapes
<1>4. GoodQueue(pending')
  BY <1>1 DEF IInv
<1> QED BY <1>1, <1>2, <1>3, <1>4, SplitNext DEF IInv

-----------------------------------------------------------------------------
LEMMA StepInv == IInv /\ [Next]_vars => IInv'
<1> SUFFICES ASSUME IInv, [Next]_vars PROVE IInv'
  OBVIOUS
<1>1. CASE LoopStep
  BY <1>1, NewConnectionKeeps, PeerKeeps, ReadClosedKeeps, HandleWriteKeeps, LoopSendKeeps,
     LoopShutdownKeeps, LoopForceCloseKeeps, RunSendKeeps, RunShutdownKeeps, RunForceCloseKeeps,
     RunDestroyedKeeps, Zenon DEF LoopStep
<1>2. CASE PeerCloses
  BY <1>2, PeerKeeps
<1>3. CASE ServerDestroyed
  BY <1>3, ServerDestroyedKeeps
<1>4. ASSUME NEW t \in Threads,
             \/ TestSend(t) \/ TestShutdown(t) \/ TestForceClose(t)
             \/ QueueSend(t) \/ QueueClose(t)
      PROVE  IInv'
  BY <1>4, TestsKeep, QueueSendKeeps, QueueCloseKeeps, Zenon
<1>5. CASE UNCHANGED vars
  BY <1>5, Stutters
<1> QED BY <1>1, <1>2, <1>3, <1>4, <1>5, Zenon DEF Next

LEMMA Invariant == Spec => []IInv
  BY InitInv, StepInv, PTL DEF Spec

(* TcpConnection.cc: whatever other threads do, the connection's state     *)
(* keeps its type.                                                         *)
THEOREM TcpConnectionTypeOK == Spec => []TypeOK
<1>1. IInv => TypeOK
  BY DEF IInv
<1> QED BY <1>1, Invariant, PTL

(* TcpConnection.cc, sendInLoop and handleWrite: whatever is sent and      *)
(* however little the kernel accepts of it, POLLOUT is asked for exactly   *)
(* while output waits.                                                     *)
THEOREM OutputArmedAlways == Spec => []OutputArmed
<1>1. IInv => OutputArmed
  BY DEF IInv, Orderly, OutputArmed
<1> QED BY <1>1, Invariant, PTL

(* TcpConnection.cc, handleClose and connectDestroyed: however the peer,   *)
(* errors, shutdown and forceClose meet, DOWN is told once, and the end is *)
(* queued once and done once.                                              *)
THEOREM EndsOnceAlways == Spec => []EndsOnce
<1>1. IInv => EndsOnce
  BY DEF IInv, Orderly, EndsOnce
<1> QED BY <1>1, Invariant, PTL

-----------------------------------------------------------------------------
(* The order of the stream.                                                *)
Msg(t, k) == << <<t, 2 * k + 1>>, <<t, 2 * k + 2>> >>

Send(t, k) == <<"send", Msg(t, k)>>

(* Every message of the queue was sent by some other thread; those of one  *)
(* thread are in order, and after all that left before; none left that was *)
(* not sent.                                                               *)
Posted(q, n) ==
  \A i \in 1 .. Len(q) : q[i][1] = "send" => \E t \in Threads, k \in Nat : k < n[t] /\ q[i] = Send(t, k)

Queueing(q) ==
  \A i, j \in 1 .. Len(q) : \A t \in Threads, k, l \in Nat :
    i < j /\ q[i] = Send(t, k) /\ q[j] = Send(t, l) => k < l

Ahead(S, q) ==
  \A i \in 1 .. Len(S), j \in 1 .. Len(q), k \in Nat : q[j] = Send(S[i][1], k) => S[i][2] <= 2 * k

Counted(S, n) == \A i \in 1 .. Len(S) : S[i][2] \in 1 .. 2 * n[S[i][1]]

(* What has left, what waits in the loop's queue and what a thread sends   *)
(* next are one ascending sequence for every thread.                       *)
Sound(S, q, n) ==
  /\ Ascending(S) /\ Whole(S) /\ Counted(S, n)
  /\ Posted(q, n) /\ Queueing(q) /\ Ahead(S, q)

(* Nothing is missing in that sequence: the last message of a thread, and  *)
(* the one before every message of the queue, has left or waits.           *)
Newest(S, q, n) ==
  \A t \in Senders :
    n[t] = 0 \/ Holds(S, <<t, 2 * n[t]>>) \/ \E i \in 1 .. Len(q) : q[i] = Send(t, n[t] - 1)

Linked(S, q) ==
  \A i \in 1 .. Len(q), t \in Threads, k \in Nat :
    q[i] = Send(t, k)
      => k = 0 \/ Holds(S, <<t, 2 * k>>) \/ \E j \in 1 .. i - 1 : q[j] = Send(t, k - 1)

Full(S, q, n) == Newest(S, q, n) /\ Linked(S, q)

(* sendInLoop drops what it is given.                                      *)
Deaf == state_ = "kDisconnected" \/ (~writing /\ outputBuffer_ = <<>> /\ Refuses)

LoopFlows == peer \notin {"reset", "gone"} => \A n \in 1 .. 2 * sent[Loop] : Holds(Stream, <<Loop, n>>)

(* While only the loop thread closes, shutdown() runs at once.             *)
ShutdownLate ==
  /\ \A i \in 1 .. Len(pending) : pending[i][1] # "shutdown"
  /\ shutdownWrite => state_ \in {"kDisconnecting", "kDisconnected"}

SInv ==
  /\ Sound(Stream, pending, sent)
  /\ ~raced => Gapless(Stream) /\ LoopFlows /\ ShutdownLate /\ (~Deaf => Full(Stream, pending, sent))
  /\ ShutdownFlushes

LEMMA SendInjective ==
  \A t, u : \A k, l \in Nat : Send(t, k) = Send(u, l) => t = u /\ k = l
<1> SUFFICES ASSUME NEW t, NEW u, NEW k \in Nat, NEW l \in Nat, Send(t, k) = Send(u, l)
             PROVE  t = u /\ k = l
  OBVIOUS
<1>1. Msg(t, k) = Msg(u, l)
  <2>1. Send(t, k)[2] = Msg(t, k) /\ Send(u, l)[2] = Msg(u, l)
    BY DEF Send
  <2> QED BY <2>1
<1>2. <<t, 2 * k + 1>> = <<u, 2 * l + 1>>
  <2>1. Msg(t, k)[1] = <<t, 2 * k + 1>> /\ Msg(u, l)[1] = <<u, 2 * l + 1>>
    BY DEF Msg
  <2> QED BY <1>1, <2>1
<1>3. 2 * k + 1 = 2 * l + 1
  BY <1>2
<1> QED BY <1>2, <1>3

LEMMA SendIsSend == \A t, k : Send(t, k)[1] = "send" /\ Send(t, k)[2] = Msg(t, k)
  BY DEF Send

LEMMA MsgBytes ==
  ASSUME NEW t \in Senders, NEW k \in Nat
  PROVE  /\ Msg(t, k) \in Seq(Bytes) /\ Len(Msg(t, k)) = 2
         /\ Msg(t, k)[1] = <<t, 2 * k + 1>> /\ Msg(t, k)[2] = <<t, 2 * k + 2>>
<1>1. <<t, 2 * k + 1>> \in Bytes /\ <<t, 2 * k + 2>> \in Bytes
  BY DEF Bytes
<1> QED BY <1>1 DEF Msg

(* A message comes to the end of a stream of which it is the next one.     *)
LEMMA AppendMsg ==
  ASSUME NEW S \in Seq(Bytes), NEW t \in Senders, NEW k \in Nat,
         Ascending(S), Whole(S),
         \A i \in 1 .. Len(S) : S[i][1] = t => S[i][2] <= 2 * k
  PROVE  /\ S \o Msg(t, k) \in Seq(Bytes)
         /\ Len(S \o Msg(t, k)) = Len(S) + 2
         /\ \A i \in 1 .. Len(S) : (S \o Msg(t, k))[i] = S[i]
         /\ (S \o Msg(t, k))[Len(S) + 1] = <<t, 2 * k + 1>>
         /\ (S \o Msg(t, k))[Len(S) + 2] = <<t, 2 * k + 2>>
         /\ Ascending(S \o Msg(t, k))
         /\ Whole(S \o Msg(t, k))
         /\ Gapless(S) /\ (k = 0 \/ Holds(S, <<t, 2 * k>>)) => Gapless(S \o Msg(t, k))
<1> DEFINE W == S \o Msg(t, k)
           p == Len(S)
           M == Msg(t, k)
<1>1. /\ p \in Nat /\ \A i \in 1 .. p : S[i] \in Bytes
  BY ElementOf
<1>2. M \in Seq(Bytes) /\ Len(M) = 2 /\ M[1] = <<t, 2 * k + 1>> /\ M[2] = <<t, 2 * k + 2>>
  BY MsgBytes
<1> HIDE DEF M
<1>3. /\ S \o M \in Seq(Bytes) /\ Len(S \o M) = p + 2
      /\ \A i \in 1 .. p + 2 : (S \o M)[i] = IF i <= p THEN S[i] ELSE M[i - p]
  <2>1. /\ S \o M \in Seq(Bytes) /\ Len(S \o M) = Len(S) + Len(M)
        /\ \A i \in 1 .. Len(S) + Len(M) : (S \o M)[i] = IF i <= Len(S) THEN S[i] ELSE M[i - Len(S)]
    BY <1>2, ConcatProperties
  <2>2. Len(M) = 2
    BY <1>2
  <2> QED BY <2>1, <2>2
<1>4. W = S \o M
  BY DEF M
<1> HIDE DEF W, p
<1>5. /\ W \in Seq(Bytes) /\ Len(W) = p + 2
      /\ \A i \in 1 .. p : W[i] = S[i]
      /\ W[p + 1] = <<t, 2 * k + 1>> /\ W[p + 2] = <<t, 2 * k + 2>>
  <2>1. W[p + 1] = M[1] /\ W[p + 2] = M[2]
    BY <1>1, <1>3, <1>4
  <2> QED BY <1>1, <1>2, <1>3, <1>4, <2>1
<1>6. \A i \in 1 .. p + 2 : i \in 1 .. p \/ i = p + 1 \/ i = p + 2
  BY <1>1
<1>7. /\ W[p + 1][1] = t /\ W[p + 1][2] = 2 * k + 1
      /\ W[p + 2][1] = t /\ W[p + 2][2] = 2 * k + 2
  BY <1>5
<1>8. \A i \in 1 .. p : S[i][2] \in Nat
  BY <1>1 DEF Bytes
<1>9. Ascending(W)
  <2> SUFFICES ASSUME NEW i \in 1 .. p + 2, NEW j \in 1 .. p + 2, i < j, W[i][1] = W[j][1]
               PROVE  W[i][2] < W[j][2]
    BY <1>5 DEF Ascending
  <2>1. CASE j \in 1 .. p
    <3>1. i \in 1 .. p
      BY <2>1, <1>1
    <3> QED BY <2>1, <3>1, <1>5 DEF Ascending, p
  <2>2. CASE i \in 1 .. p /\ (j = p + 1 \/ j = p + 2)
    <3>1. W[j][1] = t /\ W[j][2] \in {2 * k + 1, 2 * k + 2}
      BY <2>2, <1>7
    <3>2. S[i][1] = t /\ W[i] = S[i]
      BY <2>2, <3>1, <1>5
    <3>3. S[i][2] <= 2 * k /\ S[i][2] \in Nat
      BY <2>2, <3>2, <1>8 DEF p
    <3> QED BY <3>1, <3>2, <3>3
  <2>3. CASE i = p + 1 /\ j = p + 2
    BY <2>3, <1>7
  <2> QED BY <1>1, <1>6, <2>1, <2>2, <2>3
<1>10. Whole(W)
  <2> SUFFICES ASSUME NEW i \in 1 .. p + 2, W[i][2] % 2 = 1
               PROVE  i < p + 2 /\ W[i + 1] = <<W[i][1], W[i][2] + 1>>
    BY <1>5 DEF Whole
  <2>1. CASE i \in 1 .. p
    <3>1. W[i] = S[i]
      BY <2>1, <1>5
    <3>2. i < p /\ S[i + 1] = <<S[i][1], S[i][2] + 1>>
      BY <2>1, <3>1 DEF Whole, p
    <3>3. i + 1 \in 1 .. p
      BY <3>2, <1>1
    <3> QED BY <1>1, <3>1, <3>2, <3>3, <1>5
  <2>2. CASE i = p + 1
    <3>1. i + 1 = p + 2 /\ (2 * k + 1) + 1 = 2 * k + 2
      BY <2>2, <1>1
    <3> QED BY <2>2, <3>1, <1>1, <1>5, <1>7
  <2>3. CASE i = p + 2
    <3>1. (2 * k + 2) % 2 = 0
      OBVIOUS
    <3> QED BY <2>3, <3>1, <1>7
  <2> QED BY <1>6, <2>1, <2>2, <2>3
<1>11. ASSUME Gapless(S), k = 0 \/ Holds(S, <<t, 2 * k>>) PROVE Gapless(W)
  <2> SUFFICES ASSUME NEW i \in 1 .. p + 2, W[i][2] # 1
               PROVE  \E j \in 1 .. i - 1 : W[j] = <<W[i][1], W[i][2] - 1>>
    BY <1>5 DEF Gapless
  <2>1. CASE i \in 1 .. p
    <3>1. W[i] = S[i]
      BY <2>1, <1>5
    <3>2. PICK j \in 1 .. i - 1 : S[j] = <<S[i][1], S[i][2] - 1>>
      BY <1>11, <2>1, <3>1 DEF Gapless, p
    <3>3. j \in 1 .. p
      BY <2>1, <1>1
    <3>4. W[j] = <<W[i][1], W[i][2] - 1>>
      BY <3>1, <3>2, <3>3, <1>5
    <3> QED BY <3>4
  <2>2. CASE i = p + 1
    <3>1. W[i][1] = t /\ W[i][2] = 2 * k + 1 /\ k # 0
      BY <2>2, <1>7
    <3>2. PICK j \in 1 .. p : S[j] = <<t, 2 * k>>
      BY <1>11, <3>1 DEF Holds, p
    <3>3. j \in 1 .. i - 1 /\ W[j] = S[j]
      BY <2>2, <1>1, <1>5
    <3>4. W[i][2] - 1 = 2 * k
      BY <3>1
    <3>5. W[j] = <<W[i][1], W[i][2] - 1>>
      BY <3>1, <3>2, <3>3, <3>4
    <3> QED BY <3>3, <3>5
  <2>3. CASE i = p + 2
    <3>1. p + 1 \in 1 .. i - 1
      BY <2>3, <1>1
    <3>2. W[i][1] = t /\ W[i][2] - 1 = 2 * k + 1
      BY <2>3, <1>7
    <3>3. W[p + 1] = <<W[i][1], W[i][2] - 1>>
      BY <3>2, <1>5
    <3> QED BY <3>1, <3>3
  <2> QED BY <1>6, <2>1, <2>2, <2>3
<1> QED BY Zenon, <1>5, <1>9, <1>10, <1>11 DEF W, p

(* The queue gets longer, or shorter, by a functor that sends nothing.     *)
LEMMA PushOther ==
  ASSUME NEW S, NEW q \in Seq(Functors), NEW n, NEW f \in Functors, f[1] # "send"
  PROVE  /\ Sound(S, q, n) => Sound(S, Append(q, f), n)
         /\ Full(S, q, n) => Full(S, Append(q, f), n)
<1> DEFINE m == Len(q)
           r == Append(q, f)
<1>1. /\ m \in Nat /\ Len(r) = m + 1 /\ r[m + 1] = f
      /\ \A i \in 1 .. m : r[i] = q[i] /\ i \in 1 .. m + 1
      /\ \A i \in 1 .. m + 1 : i \in 1 .. m \/ i = m + 1
      /\ \A i \in 1 .. m : 1 .. i - 1 \subseteq 1 .. m
  BY ElementOf, AppendProperties
<1>2. \A t, k : f # Send(t, k)
  BY SendIsSend
<1> HIDE DEF r
<1>3. \A i \in 1 .. m + 1 : \A t, k : r[i] = Send(t, k) => i \in 1 .. m /\ q[i] = Send(t, k)
  BY <1>1, <1>2
<1>4. ASSUME Sound(S, q, n) PROVE Sound(S, r, n)
  <2>1. Posted(r, n)
    BY <1>1, <1>4 DEF Sound, Posted
  <2>2. Queueing(r)
    BY <1>1, <1>3, <1>4 DEF Sound, Queueing
  <2>3. Ahead(S, r)
    BY <1>1, <1>3, <1>4 DEF Sound, Ahead
  <2> QED BY <2>1, <2>2, <2>3, <1>4 DEF Sound
<1>5. ASSUME Full(S, q, n) PROVE Full(S, r, n)
  <2>1. Newest(S, r, n)
    BY <1>1, <1>5 DEF Full, Newest
  <2>2. Linked(S, r)
    <3> SUFFICES ASSUME NEW i \in 1 .. m + 1, NEW t \in Threads, NEW k \in Nat, r[i] = Send(t, k),
                        k # 0, ~Holds(S, <<t, 2 * k>>)
                 PROVE  \E j \in 1 .. i - 1 : r[j] = Send(t, k - 1)
      BY <1>1 DEF Linked
    <3>1. i \in 1 .. m /\ q[i] = Send(t, k)
      BY <1>3
    <3>2. PICK j \in 1 .. i - 1 : q[j] = Send(t, k - 1)
      BY <1>5, <3>1 DEF Full, Linked
    <3>3. j \in 1 .. m
      BY <1>1, <3>1
    <3> QED BY <1>1, <3>2, <3>3
  <2> QED BY <2>1, <2>2 DEF Full
<1> QED BY <1>4, <1>5 DEF r

(* The functor at the head of the queue is taken off it; if it sends a     *)
(* message, that is lost.                                                  *)
LEMMA PopDrop ==
  ASSUME NEW S, NEW q \in Seq(Functors), NEW n, q # <<>>
  PROVE  /\ Sound(S, q, n) => Sound(S, Tail(q), n)
         /\ Full(S, q, n) /\ Head(q)[1] # "send" => Full(S, Tail(q), n)
<1> DEFINE m == Len(q)
           r == Tail(q)
<1>1. /\ m \in Nat /\ m >= 1 /\ Len(r) = m - 1 /\ Head(q) = q[1]
      /\ \A i \in 1 .. m - 1 : r[i] = q[i + 1] /\ i + 1 \in 1 .. m
  BY HeadTailProperties
<1> HIDE DEF r
<1>2. \A i \in 1 .. m : i = 1 \/ (i - 1 \in 1 .. m - 1 /\ q[i] = r[i - 1])
  <2> SUFFICES ASSUME NEW i \in 1 .. m, i # 1 PROVE i - 1 \in 1 .. m - 1 /\ q[i] = r[i - 1]
    OBVIOUS
  <2>1. i - 1 \in 1 .. m - 1 /\ (i - 1) + 1 = i
    BY <1>1
  <2> QED BY <1>1, <2>1
<1>3. ASSUME Sound(S, q, n) PROVE Sound(S, r, n)
  <2>1. Posted(r, n)
    BY <1>1, <1>3 DEF Sound, Posted
  <2>2. Queueing(r)
    <3> SUFFICES ASSUME NEW i \in 1 .. m - 1, NEW j \in 1 .. m - 1, NEW t \in Threads,
                        NEW k \in Nat, NEW l \in Nat,
                        i < j, r[i] = Send(t, k), r[j] = Send(t, l)
                 PROVE  k < l
      BY <1>1 DEF Queueing
    <3>1. i + 1 < j + 1 /\ q[i + 1] = Send(t, k) /\ q[j + 1] = Send(t, l)
          /\ i + 1 \in 1 .. m /\ j + 1 \in 1 .. m
      BY <1>1
    <3> QED BY <3>1, <1>3 DEF Sound, Queueing
  <2>3. Ahead(S, r)
    BY <1>1, <1>3 DEF Sound, Ahead
  <2> QED BY <2>1, <2>2, <2>3, <1>3 DEF Sound
<1>4. ASSUME Full(S, q, n), q[1][1] # "send" PROVE Full(S, r, n)
  <2>1. \A t, k : q[1] # Send(t, k)
    BY <1>4, SendIsSend
  <2>2. Newest(S, r, n)
    <3> SUFFICES ASSUME NEW t \in Senders, n[t] # 0, ~Holds(S, <<t, 2 * n[t]>>)
                 PROVE  \E i \in 1 .. m - 1 : r[i] = Send(t, n[t] - 1)
      BY <1>1 DEF Newest
    <3>1. PICK i \in 1 .. m : q[i] = Send(t, n[t] - 1)
      BY <1>4 DEF Full, Newest
    <3> QED BY <3>1, <2>1, <1>2
  <2>3. Linked(S, r)
    <3> SUFFICES ASSUME NEW i \in 1 .. m - 1, NEW t \in Threads, NEW k \in Nat, r[i] = Send(t, k),
                        k # 0, ~Holds(S, <<t, 2 * k>>)
                 PROVE  \E j \in 1 .. i - 1 : r[j] = Send(t, k - 1)
      BY <1>1 DEF Linked
    <3>1. q[i + 1] = Send(t, k) /\ i + 1 \in 1 .. m
      BY <1>1
    <3>2. PICK j \in 1 .. (i + 1) - 1 : q[j] = Send(t, k - 1)
      BY <1>4, <3>1 DEF Full, Linked
    <3>3. j # 1 /\ j \in 1 .. m
      BY <1>1, <2>1, <3>2
    <3>4. j - 1 \in 1 .. i - 1 /\ r[j - 1] = q[j]
      BY <1>2, <3>2, <3>3
    <3> QED BY <3>2, <3>4
  <2> QED BY <2>2, <2>3 DEF Full
<1> QED BY <1>1, <1>3, <1>4 DEF r

(* A thread queues its next message.                                       *)
LEMMA PushSend ==
  ASSUME NEW S \in Seq(Bytes), NEW q \in Seq(Functors), NEW n \in [Senders -> Nat], NEW t \in Threads,
         Send(t, n[t]) \in Functors, Sound(S, q, n)
  PROVE  /\ Sound(S, Append(q, Send(t, n[t])), [n EXCEPT ![t] = @ + 1])
         /\ Full(S, q, n) => Full(S, Append(q, Send(t, n[t])), [n EXCEPT ![t] = @ + 1])
<1> DEFINE m == Len(q)
           r == Append(q, Send(t, n[t]))
           x == [n EXCEPT ![t] = @ + 1]
           p == Len(S)
<1>1. /\ m \in Nat /\ Len(r) = m + 1 /\ r[m + 1] = Send(t, n[t])
      /\ \A i \in 1 .. m : r[i] = q[i] /\ i \in 1 .. m + 1
      /\ \A i \in 1 .. m + 1 : i \in 1 .. m \/ i = m + 1
      /\ \A i \in 1 .. m : 1 .. i - 1 \subseteq 1 .. m
  BY ElementOf, AppendProperties
<1>2. /\ t \in Senders /\ n[t] \in Nat /\ x[t] = n[t] + 1
      /\ \A u \in Senders : n[u] \in Nat /\ x[u] \in Nat /\ n[u] <= x[u] /\ (u # t => x[u] = n[u])
  BY DEF Senders
<1>3. \A i \in 1 .. p : S[i][1] \in Senders /\ S[i][2] \in Nat
  BY ElementOf DEF Bytes
<1>4. Threads \subseteq Senders
  BY DEF Senders
<1> HIDE DEF r, x
<1>5. \A u : \A k \in Nat : Send(t, n[t]) = Send(u, k) => u = t /\ k = n[t]
  <2> SUFFICES ASSUME NEW u, NEW k \in Nat, Send(t, n[t]) = Send(u, k) PROVE u = t /\ k = n[t]
    OBVIOUS
  <2> QED BY <1>2, SendInjective
<1>6. Counted(S, x)
  BY <1>2, <1>3 DEF Sound, Counted
<1>7. Posted(r, x)
  <2> SUFFICES ASSUME NEW i \in 1 .. m + 1, r[i][1] = "send"
               PROVE  \E u \in Threads, k \in Nat : k < x[u] /\ r[i] = Send(u, k)
    BY <1>1 DEF Posted
  <2>1. CASE i \in 1 .. m
    <3>1. PICK u \in Threads, k \in Nat : k < n[u] /\ q[i] = Send(u, k)
      BY <1>1, <2>1 DEF Sound, Posted
    <3>2. k < x[u]
      BY <3>1, <1>2, <1>4
    <3> QED BY <1>1, <2>1, <3>1, <3>2
  <2>2. CASE i = m + 1
    BY <1>1, <1>2, <2>2
  <2> QED BY <1>1, <2>1, <2>2
<1>8. Queueing(r)
  <2> SUFFICES ASSUME NEW i \in 1 .. m + 1, NEW j \in 1 .. m + 1, NEW u \in Threads,
                      NEW k \in Nat, NEW l \in Nat, i < j, r[i] = Send(u, k), r[j] = Send(u, l)
               PROVE  k < l
    BY <1>1 DEF Queueing
  <2>1. i \in 1 .. m /\ q[i] = Send(u, k)
    BY <1>1
  <2>2. CASE j \in 1 .. m
    BY <1>1, <2>1, <2>2, SMTT(30) DEF Sound, Queueing
  <2>3. CASE j = m + 1
    <3>1. u = t /\ l = n[t]
      <4>1. Send(t, n[t]) = Send(u, l)
        BY <1>1, <2>3
      <4> QED BY Zenon, <1>5, <4>1
    <3>2. q[i][1] = "send"
      BY <2>1, SendIsSend
    <3>3. PICK v \in Threads, h \in Nat : h < n[v] /\ q[i] = Send(v, h)
      BY <2>1, <3>2 DEF Sound, Posted
    <3>4. v = u /\ h = k
      <4>1. Send(v, h) = Send(u, k)
        BY Zenon, <2>1, <3>3
      <4> QED BY <4>1, SendInjective
    <3> QED BY <3>1, <3>3, <3>4
  <2> QED BY <1>1, <2>2, <2>3
<1>9. Ahead(S, r)
  <2> SUFFICES ASSUME NEW i \in 1 .. p, NEW j \in 1 .. m + 1, NEW k \in Nat, r[j] = Send(S[i][1], k)
               PROVE  S[i][2] <= 2 * k
    BY <1>1 DEF Ahead
  <2>1. CASE j \in 1 .. m
    BY <1>1, <2>1 DEF Sound, Ahead
  <2>2. CASE j = m + 1
    <3>1. S[i][1] = t /\ k = n[t]
      <4>1. Send(t, n[t]) = Send(S[i][1], k)
        BY <1>1, <2>2
      <4> QED BY Zenon, <1>5, <4>1
    <3>2. S[i][2] \in 1 .. 2 * n[S[i][1]]
      BY DEF Sound, Counted
    <3> QED BY <3>1, <3>2, <1>2
  <2> QED BY <1>1, <2>1, <2>2
<1>10. ASSUME Full(S, q, n) PROVE Full(S, r, x)
  <2>1. Newest(S, r, x)
    <3> SUFFICES ASSUME NEW u \in Senders, x[u] # 0, ~Holds(S, <<u, 2 * x[u]>>)
                 PROVE  \E i \in 1 .. m + 1 : r[i] = Send(u, x[u] - 1)
      BY <1>1 DEF Newest
    <3>1. CASE u = t
      <4>1. x[u] - 1 = n[t]
        <5>1. x[u] = n[t] + 1 /\ n[t] \in Nat
          BY Zenon, <1>2, <3>1
        <5> QED BY <5>1
      <4>2. r[m + 1] = Send(u, x[u] - 1)
        BY Zenon, <1>1, <3>1, <4>1
      <4> QED BY <1>1, <4>2
    <3>2. CASE u # t
      BY <1>1, <1>2, <1>10, <3>2 DEF Full, Newest
    <3> QED BY <3>1, <3>2
  <2>2. Linked(S, r)
    <3> SUFFICES ASSUME NEW i \in 1 .. m + 1, NEW u \in Threads, NEW k \in Nat, r[i] = Send(u, k),
                        k # 0, ~Holds(S, <<u, 2 * k>>)
                 PROVE  \E j \in 1 .. i - 1 : r[j] = Send(u, k - 1)
      BY <1>1 DEF Linked
    <3>1. CASE i \in 1 .. m
      <4>1. PICK j \in 1 .. i - 1 : q[j] = Send(u, k - 1)
        BY <1>1, <1>10, <3>1 DEF Full, Linked
      <4> QED BY <1>1, <3>1, <4>1
    <3>2. CASE i = m + 1
      <4>1. u = t /\ k = n[t]
        <5>1. Send(t, n[t]) = Send(u, k)
          BY <1>1, <3>2
        <5> QED BY Zenon, <1>5, <5>1
      <4>2. PICK j \in 1 .. m : q[j] = Send(t, n[t] - 1)
        BY <1>2, <1>10, <4>1 DEF Full, Newest
      <4>3. r[j] = Send(u, k - 1) /\ j \in 1 .. i - 1
        BY <1>1, <3>2, <4>1, <4>2
      <4> QED BY <4>3
    <3> QED BY <1>1, <3>1, <3>2
  <2> QED BY <2>1, <2>2 DEF Full
<1>11. Sound(S, r, x)
  BY <1>6, <1>7, <1>8, <1>9 DEF Sound
<1> QED BY <1>10, <1>11 DEF r, x

(* The message at the head of the queue joins the stream.                  *)
LEMMA PopSend ==
  ASSUME NEW S \in Seq(Bytes), NEW q \in Seq(Functors), NEW n \in [Senders -> Nat],
         NEW t \in Threads, NEW k \in Nat, q # <<>>, Head(q) = Send(t, k), Sound(S, q, n)
  PROVE  /\ Sound(S \o Msg(t, k), Tail(q), n)
         /\ Full(S, q, n) /\ Gapless(S) => Full(S \o Msg(t, k), Tail(q), n) /\ Gapless(S \o Msg(t, k))
<1> DEFINE m == Len(q)
           r == Tail(q)
           p == Len(S)
           W == S \o Msg(t, k)
<1>1. /\ m \in Nat /\ m >= 1 /\ Len(r) = m - 1 /\ q[1] = Send(t, k)
      /\ \A i \in 1 .. m - 1 : r[i] = q[i + 1] /\ i + 1 \in 1 .. m
  BY HeadTailProperties
<1>2. Posted(r, n) /\ Queueing(r) /\ Ahead(S, r)
  BY PopDrop DEF Sound
<1>3. /\ p \in Nat /\ t \in Senders
      /\ \A i \in 1 .. p : S[i][1] \in Senders /\ S[i][2] \in Nat
  BY ElementOf DEF Bytes, Senders
<1>4. k < n[t] /\ n[t] \in Nat
  <2>1. PICK u \in Threads, h \in Nat : h < n[u] /\ q[1] = Send(u, h)
    BY <1>1, SendIsSend DEF Sound, Posted
  <2>2. u = t /\ h = k
    <3>1. Send(u, h) = Send(t, k)
      BY Zenon, <1>1, <2>1
    <3> QED BY <3>1, SendInjective
  <2> QED BY <2>1, <2>2, <1>3
<1>5. \A i \in 1 .. p : S[i][1] = t => S[i][2] <= 2 * k
  BY <1>1 DEF Sound, Ahead
<1>6. /\ Len(W) = p + 2
      /\ \A i \in 1 .. p : W[i] = S[i]
      /\ W[p + 1] = <<t, 2 * k + 1>> /\ W[p + 2] = <<t, 2 * k + 2>>
      /\ Ascending(W) /\ Whole(W)
      /\ Gapless(S) /\ (k = 0 \/ Holds(S, <<t, 2 * k>>)) => Gapless(W)
  BY <1>3, <1>5, AppendMsg DEF Sound
<1> HIDE DEF r, W
<1>7. \A i \in 1 .. p + 2 : i \in 1 .. p \/ i = p + 1 \/ i = p + 2
  BY <1>3
<1>8. /\ W[p + 1][1] = t /\ W[p + 1][2] = 2 * k + 1
      /\ W[p + 2][1] = t /\ W[p + 2][2] = 2 * k + 2
  BY <1>6
<1>9. Counted(W, n)
  <2> SUFFICES ASSUME NEW i \in 1 .. p + 2 PROVE W[i][2] \in 1 .. 2 * n[W[i][1]]
    BY <1>6 DEF Counted
  <2>1. CASE i \in 1 .. p
    BY <1>6, <2>1 DEF Sound, Counted
  <2>2. CASE i \in {p + 1, p + 2}
    BY <1>4, <1>8, <2>2, SMTT(30)
  <2> QED BY <1>7, <2>1, <2>2
<1>10. Ahead(W, r)
  <2> SUFFICES ASSUME NEW i \in 1 .. p + 2, NEW j \in 1 .. m - 1, NEW l \in Nat, r[j] = Send(W[i][1], l)
               PROVE  W[i][2] <= 2 * l
    BY <1>1, <1>6 DEF Ahead
  <2>1. CASE i \in 1 .. p
    BY <1>1, <1>2, <1>6, <2>1 DEF Ahead
  <2>2. CASE i \in {p + 1, p + 2}
    <3>1. q[j + 1] = Send(t, l) /\ 1 < j + 1 /\ j + 1 \in 1 .. m /\ 1 \in 1 .. m
      BY <1>1, <1>8, <2>2
    <3>2. k < l
      BY <1>1, <3>1 DEF Sound, Queueing
    <3>3. 2 * k + 2 <= 2 * l
      BY <3>2
    <3> QED BY <1>8, <2>2, <3>3
  <2> QED BY <1>7, <2>1, <2>2
<1>11. Sound(W, r, n)
  BY <1>2, <1>6, <1>9, <1>10 DEF Sound
<1>12. /\ \A b : Holds(S, b) => Holds(W, b)
       /\ Holds(W, <<t, 2 * k + 2>>)
  <2>1. \A i \in 1 .. p : i \in 1 .. p + 2
    BY <1>3
  <2>2. p + 2 \in 1 .. p + 2
    BY <1>3
  <2> QED BY <1>6, <2>1, <2>2 DEF Holds
<1>13. \A i \in 1 .. m : i = 1 \/ (i - 1 \in 1 .. m - 1 /\ q[i] = r[i - 1])
  <2> SUFFICES ASSUME NEW i \in 1 .. m, i # 1 PROVE i - 1 \in 1 .. m - 1 /\ q[i] = r[i - 1]
    OBVIOUS
  <2>1. i - 1 \in 1 .. m - 1 /\ (i - 1) + 1 = i
    BY <1>1
  <2> QED BY <1>1, <2>1
<1>14. \A u : \A l \in Nat : Send(t, k) = Send(u, l) => u = t /\ l = k
  <2> SUFFICES ASSUME NEW u, NEW l \in Nat, Send(t, k) = Send(u, l) PROVE u = t /\ l = k
    OBVIOUS
  <2> QED BY SendInjective
<1>15. ASSUME Full(S, q, n), Gapless(S) PROVE Full(W, r, n) /\ Gapless(W)
  <2>1. k = 0 \/ Holds(S, <<t, 2 * k>>)
    <3>1. 1 \in 1 .. m /\ 1 .. 1 - 1 = {}
      BY <1>1
    <3> QED BY <1>1, <1>15, <3>1 DEF Full, Linked
  <2>2. Newest(W, r, n)
    <3> SUFFICES ASSUME NEW u \in Senders, n[u] # 0, ~Holds(W, <<u, 2 * n[u]>>)
                 PROVE  \E i \in 1 .. m - 1 : r[i] = Send(u, n[u] - 1)
      BY <1>1 DEF Newest
    <3>1. ~Holds(S, <<u, 2 * n[u]>>)
      BY <1>12
    <3>2. PICK i \in 1 .. m : q[i] = Send(u, n[u] - 1)
      BY <1>15, <3>1 DEF Full, Newest
    <3>3. i # 1
      <4> SUFFICES ASSUME i = 1 PROVE FALSE
        OBVIOUS
      <4> DEFINE h == n[u]
      <4>1. h \in Nat /\ h # 0 /\ Send(t, k) = Send(u, h - 1)
        BY <1>1, <3>2
      <4> HIDE DEF h
      <4>2. u = t /\ h - 1 = k
        <5>1. h - 1 \in Nat
          BY <4>1
        <5> QED BY Zenon, <1>14, <4>1, <5>1
      <4>3. 2 * h = 2 * k + 2
        BY <4>1, <4>2
      <4> QED BY Zenon, <1>12, <4>2, <4>3 DEF h
    <3> QED BY <1>13, <3>2, <3>3
  <2>3. Linked(W, r)
    <3> SUFFICES ASSUME NEW i \in 1 .. m - 1, NEW u \in Threads, NEW l \in Nat, r[i] = Send(u, l),
                        l # 0, ~Holds(W, <<u, 2 * l>>)
                 PROVE  \E j \in 1 .. i - 1 : r[j] = Send(u, l - 1)
      BY <1>1 DEF Linked
    <3>1. ~Holds(S, <<u, 2 * l>>)
      BY <1>12
    <3>2. q[i + 1] = Send(u, l) /\ i + 1 \in 1 .. m
      BY <1>1
    <3>3. PICK j \in 1 .. (i + 1) - 1 : q[j] = Send(u, l - 1)
      BY <1>15, <3>1, <3>2 DEF Full, Linked
    <3>4. j # 1
      <4> SUFFICES ASSUME j = 1 PROVE FALSE
        OBVIOUS
      <4>1. l - 1 \in Nat
        OBVIOUS
      <4>2. u = t /\ l - 1 = k
        <5>1. Send(t, k) = Send(u, l - 1)
          BY <1>1, <3>3
        <5> QED BY Zenon, <1>14, <4>1, <5>1
      <4>3. 2 * l = 2 * k + 2
        BY <4>2
      <4> QED BY Zenon, <1>12, <4>2, <4>3
    <3>5. j \in 1 .. m
      BY <1>1, <3>3
    <3>6. r[j - 1] = Send(u, l - 1)
      BY <1>13, <3>3, <3>4, <3>5
    <3>7. j - 1 \in 1 .. i - 1
      BY <3>3, <3>4
    <3> QED BY <3>6, <3>7
  <2> QED BY <1>6, <1>15, <2>1, <2>2, <2>3 DEF Full
<1> QED BY <1>11, <1>15 DEF r, W

(* The loop thread's own message joins the stream at once, or is lost.     *)
LEMMA LoopSends ==
  ASSUME NEW S \in Seq(Bytes), NEW q \in Seq(Functors), NEW n \in [Senders -> Nat], Sound(S, q, n)
  PROVE  /\ Sound(S, q, [n EXCEPT ![Loop] = @ + 1])
         /\ Sound(S \o Msg(Loop, n[Loop]), q, [n EXCEPT ![Loop] = @ + 1])
         /\ Full(S, q, n) /\ Gapless(S)
               => /\ Full(S \o Msg(Loop, n[Loop]), q, [n EXCEPT ![Loop] = @ + 1])
                  /\ Gapless(S \o Msg(Loop, n[Loop]))
<1> DEFINE m == Len(q)
           p == Len(S)
           k == n[Loop]
           x == [n EXCEPT ![Loop] = @ + 1]
           W == S \o Msg(Loop, k)
<1>1. /\ Loop \in Senders /\ k \in Nat /\ x[Loop] = k + 1
      /\ \A u \in Senders : n[u] \in Nat /\ x[u] \in Nat /\ n[u] <= x[u] /\ (u # Loop => x[u] = n[u])
      /\ Threads \subseteq Senders /\ Loop \notin Threads
  BY TcpConnectionAssumption DEF Senders
<1>2. /\ p \in Nat /\ m \in Nat
      /\ \A i \in 1 .. p : S[i][1] \in Senders /\ S[i][2] \in Nat
  BY ElementOf DEF Bytes
<1>3. \A i \in 1 .. p : S[i][1] = Loop => S[i][2] <= 2 * k
  BY <1>1, <1>2 DEF Sound, Counted
<1>4. /\ Len(W) = p + 2
      /\ \A i \in 1 .. p : W[i] = S[i]
      /\ W[p + 1] = <<Loop, 2 * k + 1>> /\ W[p + 2] = <<Loop, 2 * k + 2>>
      /\ Ascending(W) /\ Whole(W)
      /\ Gapless(S) /\ (k = 0 \/ Holds(S, <<Loop, 2 * k>>)) => Gapless(W)
  <2> HIDE DEF k, x
  <2>1. Ascending(S) /\ Whole(S)
    BY DEF Sound
  <2> QED BY <1>1, <1>3, <2>1, AppendMsg, SMTT(30)
<1> HIDE DEF W, x, k
<1>5. \A i \in 1 .. p + 2 : i \in 1 .. p \/ i = p + 1 \/ i = p + 2
  BY <1>2
<1>6. /\ W[p + 1][1] = Loop /\ W[p + 1][2] = 2 * k + 1
      /\ W[p + 2][1] = Loop /\ W[p + 2][2] = 2 * k + 2
  BY <1>4
<1>7. \A i \in 1 .. m, l \in Nat : q[i] # Send(Loop, l)
  <2> SUFFICES ASSUME NEW i \in 1 .. m, NEW l \in Nat, q[i] = Send(Loop, l) PROVE FALSE
    OBVIOUS
  <2>1. q[i][1] = "send"
    BY SendIsSend
  <2>2. PICK u \in Threads, h \in Nat : h < n[u] /\ q[i] = Send(u, h)
    BY <2>1 DEF Sound, Posted
  <2>3. u = Loop
    BY <2>2, SendInjective
  <2> QED BY <1>1, <2>3
<1>8. Posted(q, x)
  <2> SUFFICES ASSUME NEW i \in 1 .. m, q[i][1] = "send"
               PROVE  \E u \in Threads, h \in Nat : h < x[u] /\ q[i] = Send(u, h)
    BY DEF Posted
  <2>1. PICK u \in Threads, h \in Nat : h < n[u] /\ q[i] = Send(u, h)
    BY DEF Sound, Posted
  <2>2. x[u] = n[u]
    BY <1>1
  <2> QED BY <2>1, <2>2
<1>9. Sound(S, q, x)
  <2>1. Counted(S, x)
    BY <1>1, <1>2 DEF Sound, Counted
  <2> QED BY <1>8, <2>1 DEF Sound
<1>10. Counted(W, x)
  <2> SUFFICES ASSUME NEW i \in 1 .. p + 2 PROVE W[i][2] \in 1 .. 2 * x[W[i][1]]
    BY <1>4 DEF Counted
  <2>1. CASE i \in 1 .. p
    BY <1>4, <1>9, <2>1 DEF Sound, Counted
  <2>2. CASE i \in {p + 1, p + 2}
    BY <1>1, <1>6, <2>2, SMTT(30)
  <2> QED BY <1>5, <2>1, <2>2
<1>11. Ahead(W, q)
  <2> SUFFICES ASSUME NEW i \in 1 .. p + 2, NEW j \in 1 .. m, NEW l \in Nat, q[j] = Send(W[i][1], l)
               PROVE  W[i][2] <= 2 * l
    BY <1>4 DEF Ahead
  <2>1. CASE i \in 1 .. p
    BY <1>4, <2>1 DEF Sound, Ahead
  <2>2. CASE i \in {p + 1, p + 2}
    BY <1>6, <1>7, <2>2
  <2> QED BY <1>5, <2>1, <2>2
<1>12. Sound(W, q, x)
  BY <1>4, <1>8, <1>10, <1>11 DEF Sound
<1>13. /\ \A b : Holds(S, b) => Holds(W, b)
       /\ Holds(W, <<Loop, 2 * k + 2>>)
  <2>1. \A i \in 1 .. p : i \in 1 .. p + 2
    BY <1>2
  <2>2. p + 2 \in 1 .. p + 2
    BY <1>2
  <2> QED BY <1>4, <2>1, <2>2 DEF Holds
<1>14. ASSUME Full(S, q, n), Gapless(S) PROVE Full(W, q, x) /\ Gapless(W)
  <2>1. k = 0 \/ Holds(S, <<Loop, 2 * k>>)
    <3> SUFFICES ASSUME k # 0, ~Holds(S, <<Loop, 2 * k>>) PROVE FALSE
      OBVIOUS
    <3>1. \E i \in 1 .. m : q[i] = Send(Loop, k - 1)
      BY <1>1, <1>14 DEF Full, Newest, k
    <3>2. k - 1 \in Nat
      BY <1>1
    <3> QED BY <1>7, <3>1, <3>2
  <2>2. Newest(W, q, x)
    <3> SUFFICES ASSUME NEW u \in Senders, x[u] # 0, ~Holds(W, <<u, 2 * x[u]>>)
                 PROVE  \E i \in 1 .. m : q[i] = Send(u, x[u] - 1)
      BY DEF Newest
    <3>1. u # Loop
      <4> SUFFICES ASSUME u = Loop PROVE FALSE
        OBVIOUS
      <4>1. 2 * x[u] = 2 * k + 2
        BY <1>1
      <4> QED BY Zenon, <1>13, <4>1
    <3>2. x[u] = n[u] /\ ~Holds(S, <<u, 2 * x[u]>>)
      BY <1>1, <1>13, <3>1
    <3> QED BY <1>14, <3>2 DEF Full, Newest
  <2>3. Linked(W, q)
    BY <1>13, <1>14 DEF Full, Linked
  <2> QED BY <1>4, <1>14, <2>1, <2>2, <2>3 DEF Full
<1> QED BY <1>9, <1>12, <1>14 DEF W, x, k

-----------------------------------------------------------------------------
(* What the steps do to the stream, the queue and the counters.            *)
LEMMA HoldsGrows ==
  ASSUME NEW S \in Seq(Bytes), NEW T \in Seq(Bytes)
  PROVE  \A b : Holds(S, b) => Holds(S \o T, b)
<1>1. /\ Len(S) \in Nat /\ Len(T) \in Nat /\ Len(S \o T) = Len(S) + Len(T)
      /\ \A i \in 1 .. Len(S) + Len(T) : (S \o T)[i] = IF i <= Len(S) THEN S[i] ELSE T[i - Len(S)]
  BY ConcatProperties, ElementOf
<1>2. \A i \in 1 .. Len(S) : i \in 1 .. Len(S) + Len(T) /\ (S \o T)[i] = S[i]
  BY <1>1
<1> QED BY <1>1, <1>2 DEF Holds

LEMMA ConcatBytes ==
  \A x, y, z \in Seq(Bytes) : (x \o y) \o z = x \o (y \o z)
  BY ConcatAssociative

LEMMA Halves ==
  ASSUME NEW data \in Seq(Bytes), NEW n \in 0 .. Len(data)
  PROVE  /\ SubSeq(data, 1, n) \in Seq(Bytes) /\ SubSeq(data, n + 1, Len(data)) \in Seq(Bytes)
         /\ SubSeq(data, 1, n) \o SubSeq(data, n + 1, Len(data)) = data
         /\ n = 0 => SubSeq(data, 1, n) = <<>> /\ SubSeq(data, n + 1, Len(data)) = data
         /\ n = Len(data) => SubSeq(data, n + 1, Len(data)) = <<>> /\ SubSeq(data, 1, n) = data
<1>1. Len(data) \in Nat /\ n \in Nat /\ n <= Len(data) /\ \A i \in 1 .. Len(data) : data[i] \in Bytes
  BY ElementOf
<1>2. SubSeq(data, 1, n) \in Seq(Bytes) /\ SubSeq(data, n + 1, Len(data)) \in Seq(Bytes)
  BY <1>1, SubSeqProperties
<1>3. SubSeq(data, 1, Len(data)) = data
  BY SubSeqFull
<1>4. SubSeq(data, 1, n) \o SubSeq(data, n + 1, Len(data)) = SubSeq(data, 1, Len(data))
  <2>1. 1 \in 1 .. Len(data) + 1 /\ n \in 1 - 1 .. Len(data) /\ Len(data) \in n .. Len(data)
    BY <1>1
  <2> QED BY <2>1, ConcatAdjacentSubSeq
<1>5. n = 0 => SubSeq(data, 1, n) = <<>> /\ SubSeq(data, n + 1, Len(data)) = data
  BY <1>3, SubSeqEmpty
<1>6. n = Len(data) => SubSeq(data, n + 1, Len(data)) = <<>>
  BY <1>1, SubSeqEmpty
<1> QED BY <1>2, <1>3, <1>4, <1>5, <1>6

(* A message that is not dropped joins the stream at its end, whatever the *)
(* kernel accepts of it.                                                   *)
LEMMA SendMoves ==
  ASSUME TypeOK, NEW data \in Data, SendInLoop(data)
  PROVE  /\ Deaf => UNCHANGED <<wire, outputBuffer_, writing>>
         /\ ~Deaf => Stream' = Stream \o data
         /\ \A b : Holds(wire, b) => Holds(wire', b)
<1>1. outputBuffer_ \in Seq(Bytes) /\ wire \in Seq(Bytes) /\ data \in Seq(Bytes)
  BY DEF TypeOK, Data
<1> DEFINE direct == ~writing /\ outputBuffer_ = <<>>
<1>2. CASE Deaf
  <2>1. UNCHANGED <<Output, writing>>
    BY <1>2, Zenon DEF SendInLoop, Deaf
  <2> QED BY <1>2, <2>1 DEF Output
<1>3. CASE ~Deaf
  <2>1. PICK n \in IF direct THEN 0 .. Len(data) ELSE {0} : Accept(data, n)
    BY <1>3, Zenon DEF SendInLoop, Deaf
  <2> DEFINE first == SubSeq(data, 1, n)
             second == SubSeq(data, n + 1, Len(data))
  <2>2. n \in 0 .. Len(data) /\ (~direct => n = 0)
    BY <1>1, <2>1, ElementOf
  <2>3. /\ first \in Seq(Bytes) /\ second \in Seq(Bytes) /\ first \o second = data
        /\ n = 0 => first = <<>> /\ second = data
    BY <1>1, <2>2, Halves
  <2>4. wire' = wire \o first /\ outputBuffer_' = outputBuffer_ \o second
    BY <2>1 DEF Accept
  <2> HIDE DEF first, second
  <2>5. Stream' = (wire \o first) \o (outputBuffer_ \o second)
    BY <2>4 DEF Stream
  <2>6. CASE direct
    <3>1. outputBuffer_ \o second = second /\ wire \o outputBuffer_ = wire
      BY <2>3, <2>6, <1>1, ConcatEmptySeq
    <3>2. (wire \o first) \o second = wire \o (first \o second)
      BY <1>1, <2>3, ConcatBytes, ZenonT(30)
    <3>3. Stream' = Stream \o data
      BY Zenon, <2>3, <2>5, <3>1, <3>2 DEF Stream
    <3>4. \A b : Holds(wire, b) => Holds(wire \o first, b)
      BY <1>1, <2>3, HoldsGrows
    <3> QED BY Zenon, <1>3, <2>4, <3>3, <3>4
  <2>7. CASE ~direct
    <3>1. first = <<>> /\ second = data
      BY <2>2, <2>3, <2>7
    <3>2. wire \o first = wire
      BY <1>1, <3>1, ConcatEmptySeq
    <3>3. wire \o (outputBuffer_ \o data) = (wire \o outputBuffer_) \o data
      BY <1>1, ConcatBytes, Zenon
    <3> QED BY <1>3, <2>4, <2>5, <3>1, <3>2, <3>3 DEF Stream
  <2> QED BY <2>6, <2>7
<1> QED BY <1>2, <1>3

(* handleWrite moves bytes within the stream.                              *)
LEMMA WriteMoves ==
  ASSUME TypeOK, HandleWrite
  PROVE  /\ Stream' = Stream
         /\ ~writing' => wire' = Stream
         /\ \A b : Holds(wire, b) => Holds(wire', b)
<1>1. outputBuffer_ \in Seq(Bytes) /\ wire \in Seq(Bytes)
  BY DEF TypeOK
<1>2. PICK n \in 1 .. Len(outputBuffer_) :
        /\ wire' = wire \o SubSeq(outputBuffer_, 1, n)
        /\ outputBuffer_' = SubSeq(outputBuffer_, n + 1, Len(outputBuffer_))
        /\ writing' = (n < Len(outputBuffer_))
  BY Zenon DEF HandleWrite
<1> DEFINE first == SubSeq(outputBuffer_, 1, n)
           second == SubSeq(outputBuffer_, n + 1, Len(outputBuffer_))
<1>3. n \in 0 .. Len(outputBuffer_)
  BY <1>1, ElementOf
<1>4. /\ first \in Seq(Bytes) /\ second \in Seq(Bytes) /\ first \o second = outputBuffer_
      /\ n = Len(outputBuffer_) => first = outputBuffer_
  BY <1>1, <1>3, Halves
<1>5. ~(n < Len(outputBuffer_)) => n = Len(outputBuffer_)
  BY <1>1, <1>3, ElementOf
<1>6. wire' = wire \o first /\ outputBuffer_' = second /\ (~writing' => n = Len(outputBuffer_))
  BY <1>2, <1>5, Zenon
<1> HIDE DEF first, second
<1>7. (wire \o first) \o second = wire \o (first \o second)
  BY <1>1, <1>4, ConcatBytes, Zenon
<1>8. Stream' = (wire \o first) \o second
  BY Zenon, <1>6 DEF Stream
<1>9. Stream' = Stream
  BY Zenon, <1>4, <1>7, <1>8 DEF Stream
<1>10. ~writing' => wire' = Stream
  BY Zenon, <1>4, <1>6 DEF Stream
<1>11. \A b : Holds(wire, b) => Holds(wire', b)
  <2>1. \A b : Holds(wire, b) => Holds(wire \o first, b)
    BY <1>1, <1>4, HoldsGrows
  <2> QED BY Zenon, <1>6, <2>1
<1> QED BY Zenon, <1>9, <1>10, <1>11

(* The steps, as the stream, the queue and the counters see them.          *)
Stays == UNCHANGED <<Stream, pending, sent>>

Queues ==
  /\ UNCHANGED <<Stream, sent>>
  /\ \E f \in Functors : f[1] # "send" /\ pending' = Append(pending, f)

Takes ==
  /\ UNCHANGED <<Stream, sent>>
  /\ pending # <<>> /\ Head(pending)[1] # "send"
  /\ \/ pending' = Tail(pending)
     \/ \E f \in Functors : f[1] # "send" /\ pending' = Append(Tail(pending), f)

Posts(t) ==
  /\ UNCHANGED Stream
  /\ Send(t, sent[t]) \in Functors
  /\ pending' = Append(pending, Send(t, sent[t]))
  /\ sent' = [sent EXCEPT ![t] = @ + 1]

Delivers(t, k) ==
  /\ UNCHANGED sent
  /\ pending # <<>> /\ Head(pending) = Send(t, k) /\ pending' = Tail(pending)
  /\ IF Deaf THEN Stream' = Stream ELSE Stream' = Stream \o Msg(t, k)

Speaks ==
  /\ UNCHANGED pending
  /\ sent' = [sent EXCEPT ![Loop] = @ + 1]
  /\ IF Deaf THEN Stream' = Stream ELSE Stream' = Stream \o Msg(Loop, sent[Loop])

Moves ==
  \/ Stays \/ Queues \/ Takes \/ Speaks
  \/ \E t \in Threads : Posts(t)
  \/ \E t \in Threads, k \in Nat : Delivers(t, k)

LEMMA MessageIsMsg == \A t : Message(t) = Msg(t, sent[t])
  BY DEF Message, Msg

LEMMA StepMoves ==
  ASSUME IInv, SInv, [Next]_vars
  PROVE  Moves
<1> USE DEF Channel, Output, Callers, Life
<1>1. CASE \/ NewConnection \/ PeerCloses \/ HandleReadError \/ LoopShutdown \/ ServerDestroyed
           \/ UNCHANGED vars
  BY <1>1 DEF NewConnection, PeerCloses, HandleReadError, LoopShutdown, ServerDestroyed, vars,
     Moves, Stays, Stream
<1>2. ASSUME NEW t \in Threads, TestSend(t) \/ TestShutdown(t) \/ TestForceClose(t) PROVE Moves
  BY <1>2 DEF TestSend, TestShutdown, TestForceClose, Tests, Moves, Stays, Stream
<1>3. CASE HandleReadClosed
  <2>1. UNCHANGED <<Stream, sent>> /\ pending' = Append(pending, <<"destroyed", <<>>>>)
    BY <1>3 DEF HandleReadClosed, HandleClose, Stream
  <2> QED BY <2>1, EndFunctor DEF Moves, Queues
<1>4. CASE LoopForceClose
  <2>1. UNCHANGED <<Stream, sent>> /\ pending' = Append(pending, <<"forceClose", <<>>>>)
    BY <1>4 DEF LoopForceClose, Stream
  <2>2. <<"forceClose", <<>>>> \in Functors /\ <<"forceClose", <<>>>>[1] # "send"
    BY CloseFunctors
  <2> QED BY <2>1, <2>2 DEF Moves, Queues
<1>5. ASSUME NEW t \in Threads, QueueClose(t) PROVE Moves
  <2>1. UNCHANGED <<Stream, sent>> /\ pending' = Append(pending, <<pc[t], <<>>>>)
        /\ pc[t] \in {"shutdown", "forceClose"}
    BY <1>5 DEF QueueClose, Stream
  <2>2. <<pc[t], <<>>>> \in Functors /\ <<pc[t], <<>>>>[1] # "send"
    BY <2>1, CloseFunctors
  <2> QED BY <2>1, <2>2 DEF Moves, Queues
<1>6. CASE HandleWrite
  <2>1. UNCHANGED <<Stream, pending, sent>>
    BY <1>6, WriteMoves DEF IInv, HandleWrite
  <2> QED BY <2>1 DEF Moves, Stays
<1>7. CASE RunShutdown \/ RunDestroyed
  <2>1. /\ UNCHANGED <<Stream, sent>> /\ pending # <<>> /\ Head(pending)[1] # "send"
        /\ pending' = Tail(pending)
    BY <1>7 DEF RunShutdown, RunDestroyed, Stream
  <2> QED BY <2>1 DEF Moves, Takes
<1>8. CASE RunForceClose
  <2>1. /\ UNCHANGED <<Stream, sent>> /\ pending # <<>> /\ Head(pending)[1] # "send"
        /\ pending' = Tail(pending) \/ pending' = Append(Tail(pending), <<"destroyed", <<>>>>)
    BY <1>8 DEF RunForceClose, HandleClose, Stream
  <2> QED BY <2>1, EndFunctor DEF Moves, Takes
<1>9. ASSUME NEW t \in Threads, QueueSend(t) PROVE Moves
  <2>1. /\ UNCHANGED Stream /\ sent' = [sent EXCEPT ![t] = @ + 1]
        /\ pending' = Append(pending, <<"send", Message(t)>>)
    BY <1>9 DEF QueueSend, Stream
  <2>2. <<"send", Message(t)>> = Send(t, sent[t])
    BY MessageIsMsg DEF Send
  <2>3. <<"send", Message(t)>> \in Functors
    <3>1. t \in Senders /\ sent[t] \in Nat
      BY DEF IInv, TypeOK, Senders
    <3> QED BY <3>1, MessageData, SendFunctor
  <2> QED BY <2>1, <2>2, <2>3 DEF Moves, Posts
<1>10. CASE RunSend
  <2>1. /\ pending # <<>> /\ Head(pending)[1] = "send" /\ pending' = Tail(pending) /\ UNCHANGED sent
        /\ SendInLoop(Head(pending)[2])
    BY <1>10 DEF RunSend
  <2>2. Head(pending)[2] \in Data
    BY <2>1, Popped
  <2>3. PICK t \in Threads, k \in Nat : Head(pending) = Send(t, k)
    <3>1. pending \in Seq(Functors)
      BY DEF IInv, TypeOK
    <3>2. Head(pending) = pending[1] /\ 1 \in 1 .. Len(pending)
      BY <2>1, <3>1
    <3> QED BY <2>1, <3>2 DEF SInv, Sound, Posted
  <2>4. Head(pending)[2] = Msg(t, k)
    BY <2>3, SendIsSend
  <2>5. IF Deaf THEN Stream' = Stream ELSE Stream' = Stream \o Head(pending)[2]
    <3>1. /\ Deaf => UNCHANGED <<wire, outputBuffer_, writing>>
          /\ ~Deaf => Stream' = Stream \o Head(pending)[2]
      BY <2>1, <2>2, SendMoves DEF IInv
    <3> QED BY <3>1 DEF Stream
  <2> QED BY <2>1, <2>3, <2>4, <2>5, Zenon DEF Moves, Delivers
<1>11. CASE LoopSend
  <2>1. UNCHANGED pending /\ sent' = [sent EXCEPT ![Loop] = @ + 1] /\ SendInLoop(Message(Loop))
    BY <1>11 DEF LoopSend
  <2>2. Message(Loop) \in Data
    BY MessageData DEF IInv, TypeOK, Senders
  <2>3. IF Deaf THEN Stream' = Stream ELSE Stream' = Stream \o Message(Loop)
    <3>1. /\ Deaf => UNCHANGED <<wire, outputBuffer_, writing>>
          /\ ~Deaf => Stream' = Stream \o Message(Loop)
      BY <2>1, <2>2, SendMoves DEF IInv
    <3> QED BY <3>1 DEF Stream
  <2> QED BY <2>1, <2>3, MessageIsMsg, Zenon DEF Moves, Speaks
<1> QED
  BY <1>1, <1>2, <1>3, <1>4, <1>5, <1>6, <1>7, <1>8, <1>9, <1>10, <1>11, Zenon DEF Next, LoopStep

-----------------------------------------------------------------------------
(* Once another thread has closed, or the server has gone, that is not     *)
(* forgotten; and until then a connection that drops what it is given goes *)
(* on dropping it.                                                         *)
LEMMA RacedStays == [Next]_vars /\ ~raced' => ~raced
<1> SUFFICES ASSUME [Next]_vars, ~raced' PROVE ~raced
  OBVIOUS
<1> USE DEF Channel, Output, Callers, Life
<1>1. CASE LoopStep \/ PeerCloses \/ UNCHANGED vars
  <2>1. UNCHANGED raced
    BY <1>1, Zenon DEF LoopStep, NewConnection, HandleReadError, HandleReadClosed, HandleWrite, LoopSend,
       LoopShutdown, LoopForceClose, RunSend, RunShutdown, RunForceClose, RunDestroyed, HandleClose,
       PeerCloses, vars
  <2> QED BY <2>1
<1>2. CASE ServerDestroyed
  BY <1>2 DEF ServerDestroyed
<1>3. ASSUME NEW t \in Threads,
             \/ TestSend(t) \/ TestShutdown(t) \/ TestForceClose(t)
             \/ QueueSend(t) \/ QueueClose(t)
      PROVE  ~raced
  BY <1>3, Zenon DEF TestSend, TestShutdown, TestForceClose, Tests, QueueSend, QueueClose
<1> QED BY <1>1, <1>2, <1>3, Zenon DEF Next

LEMMA DeafStays ==
  ASSUME IInv, SInv, [Next]_vars, ~raced', Deaf
  PROVE  Deaf'
<1> USE DEF Channel, Output, Callers, Life
<1>1. ~raced
  BY RacedStays
<1>2. ASSUME UNCHANGED <<state_, writing, outputBuffer_, shutdownWrite, peer>> PROVE Deaf'
  BY <1>2 DEF Deaf, Refuses
<1>3. CASE NewConnection
  BY <1>1, <1>3 DEF NewConnection, Deaf, Refuses
<1>4. CASE PeerCloses \/ HandleReadError
  BY <1>4 DEF PeerCloses, HandleReadError, Deaf, Refuses
<1>5. CASE HandleReadClosed
  BY <1>5 DEF HandleReadClosed, HandleClose, Deaf
<1>6. CASE HandleWrite
  <2>1. writing /\ ~Refuses /\ UNCHANGED state_
    BY <1>6 DEF HandleWrite
  <2> QED BY <2>1 DEF Deaf
<1>7. CASE LoopSend
  <2>1. UNCHANGED <<state_, shutdownWrite, peer>> /\ SendInLoop(Message(Loop))
    BY <1>7 DEF LoopSend
  <2>2. Message(Loop) \in Data
    BY MessageData DEF IInv, TypeOK, Senders
  <2>3. UNCHANGED <<outputBuffer_, writing>>
    BY <2>1, <2>2, SendMoves DEF IInv
  <2> QED BY <1>2, <2>1, <2>3
<1>8. CASE RunSend
  <2>1. UNCHANGED <<state_, shutdownWrite, peer>> /\ SendInLoop(Head(pending)[2])
        /\ pending # <<>> /\ Head(pending)[1] = "send"
    BY <1>8 DEF RunSend
  <2>2. Head(pending)[2] \in Data
    BY <2>1, Popped
  <2>3. UNCHANGED <<outputBuffer_, writing>>
    BY <2>1, <2>2, SendMoves DEF IInv
  <2> QED BY <1>2, <2>1, <2>3
<1>9. CASE LoopShutdown
  <2>1. /\ state_ = "kConnected" /\ UNCHANGED <<writing, outputBuffer_, peer>>
        /\ shutdownWrite => shutdownWrite'
    BY <1>9, Zenon DEF LoopShutdown, ShutdownInLoop
  <2> QED BY <2>1 DEF Deaf, Refuses
<1>10. CASE LoopForceClose
  <2>1. state_ # "kDisconnected" /\ UNCHANGED <<writing, outputBuffer_, peer, shutdownWrite>>
    BY <1>10 DEF LoopForceClose
  <2> QED BY <2>1 DEF Deaf, Refuses
<1>11. CASE RunShutdown
  <2>1. UNCHANGED <<state_, writing, outputBuffer_, peer>> /\ (shutdownWrite => shutdownWrite')
    BY <1>11, Zenon DEF RunShutdown, ShutdownInLoop
  <2> QED BY <2>1 DEF Deaf, Refuses
<1>12. CASE RunForceClose
  <2>1. state_' = "kDisconnected" \/ UNCHANGED <<state_, writing, outputBuffer_, shutdownWrite, peer>>
    BY <1>12, Zenon DEF RunForceClose, HandleClose
  <2> QED BY <1>2, <2>1 DEF Deaf
<1>13. CASE RunDestroyed
  <2>1. state_' = "kDisconnected" \/ UNCHANGED <<state_, writing, outputBuffer_, shutdownWrite, peer>>
    BY <1>13, Zenon DEF RunDestroyed, ConnectDestroyed
  <2> QED BY <1>2, <2>1 DEF Deaf
<1>14. CASE ServerDestroyed
  BY <1>14 DEF ServerDestroyed
<1>15. ASSUME NEW t \in Threads,
             \/ TestSend(t) \/ TestShutdown(t) \/ TestForceClose(t)
             \/ QueueSend(t)
      PROVE  Deaf'
  <2>1. UNCHANGED <<state_, writing, outputBuffer_, shutdownWrite, peer>>
    BY <1>15, Zenon DEF TestSend, TestShutdown, TestForceClose, Tests, QueueSend
  <2> QED BY <1>2, <2>1
<1>16. ASSUME NEW t \in Threads, QueueClose(t) PROVE FALSE
  BY <1>16, Zenon DEF QueueClose
<1>17. CASE UNCHANGED vars
  <2>1. UNCHANGED <<state_, writing, outputBuffer_, shutdownWrite, peer>>
    BY <1>17 DEF vars
  <2> QED BY <1>2, <2>1
<1> QED
  BY <1>3, <1>4, <1>5, <1>6, <1>7, <1>8, <1>9, <1>10, <1>11, <1>12, <1>13, <1>14, <1>15, <1>16, <1>17,
     Zenon DEF Next, LoopStep

(* The sequence of a thread's messages, through the queue and the stream.  *)
LEMMA SoundStep ==
  ASSUME IInv, SInv, [Next]_vars
  PROVE  /\ Sound(Stream', pending', sent')
         /\ ~raced' => Gapless(Stream')
         /\ ~raced' /\ ~Deaf' => Full(Stream', pending', sent')
<1> DEFINE S == Stream
           q == pending
           n == sent
           clean == ~raced' /\ ~Deaf'
<1>1. S \in Seq(Bytes) /\ q \in Seq(Functors) /\ n \in [Senders -> Nat]
  BY ConcatProperties DEF IInv, TypeOK, Stream
<1>2. /\ Sound(S, q, n)
      /\ ~raced' => Gapless(S)
      /\ clean => ~Deaf /\ Full(S, q, n) /\ Gapless(S)
  BY RacedStays, DeafStays DEF SInv
<1> HIDE DEF S, q, n, clean
<1>3. ASSUME NEW T, NEW r, NEW x,
             Stream' = T, pending' = r, sent' = x,
             Sound(T, r, x), clean => Full(T, r, x) /\ Gapless(T),
             T = S \/ (~raced' => Gapless(T))
      PROVE  /\ Sound(Stream', pending', sent')
             /\ ~raced' => Gapless(Stream')
             /\ ~raced' /\ ~Deaf' => Full(Stream', pending', sent')
  BY Zenon, <1>2, <1>3 DEF clean
<1>4. CASE Stays
  <2>1. Stream' = S /\ pending' = q /\ sent' = n
    BY <1>4 DEF Stays, S, q, n
  <2> QED BY Zenon, <1>2, <1>3, <2>1
<1>5. CASE Queues
  <2>1. PICK f \in Functors : f[1] # "send" /\ pending' = Append(q, f)
    BY <1>5 DEF Queues, q
  <2>2. Stream' = S /\ sent' = n
    BY <1>5 DEF Queues, S, n
  <2>3. Sound(S, Append(q, f), n) /\ (clean => Full(S, Append(q, f), n))
    BY <1>1, <1>2, <2>1, PushOther
  <2> QED BY Zenon, <1>2, <1>3, <2>1, <2>2, <2>3
<1>6. CASE Takes
  <2>1. Stream' = S /\ sent' = n /\ q # <<>> /\ Head(q)[1] # "send"
    BY <1>6 DEF Takes, S, q, n
  <2>2. Sound(S, Tail(q), n) /\ (clean => Full(S, Tail(q), n)) /\ Tail(q) \in Seq(Functors)
    BY <1>1, <1>2, <2>1, PopDrop, HeadTailProperties
  <2>3. CASE pending' = Tail(q)
    BY Zenon, <1>2, <1>3, <2>1, <2>2, <2>3
  <2>4. ASSUME NEW f \in Functors, f[1] # "send", pending' = Append(Tail(q), f)
        PROVE  /\ Sound(Stream', pending', sent')
               /\ ~raced' => Gapless(Stream')
               /\ ~raced' /\ ~Deaf' => Full(Stream', pending', sent')
    <3>1. Sound(S, Append(Tail(q), f), n) /\ (clean => Full(S, Append(Tail(q), f), n))
      BY <2>2, <2>4, PushOther
    <3> QED BY Zenon, <1>2, <1>3, <2>1, <2>4, <3>1
  <2> QED BY Zenon, <1>6, <2>3, <2>4 DEF Takes, q
<1>7. ASSUME NEW t \in Threads, Posts(t)
      PROVE  /\ Sound(Stream', pending', sent')
             /\ ~raced' => Gapless(Stream')
             /\ ~raced' /\ ~Deaf' => Full(Stream', pending', sent')
  <2>1. /\ Stream' = S /\ Send(t, n[t]) \in Functors
        /\ pending' = Append(q, Send(t, n[t])) /\ sent' = [n EXCEPT ![t] = @ + 1]
    BY <1>7 DEF Posts, S, q, n
  <2>2. /\ Sound(S, Append(q, Send(t, n[t])), [n EXCEPT ![t] = @ + 1])
        /\ clean => Full(S, Append(q, Send(t, n[t])), [n EXCEPT ![t] = @ + 1])
    BY <1>1, <1>2, <2>1, PushSend
  <2> QED BY Zenon, <1>2, <1>3, <2>1, <2>2
<1>8. ASSUME NEW t \in Threads, NEW k \in Nat, Delivers(t, k)
      PROVE  /\ Sound(Stream', pending', sent')
             /\ ~raced' => Gapless(Stream')
             /\ ~raced' /\ ~Deaf' => Full(Stream', pending', sent')
  <2>1. /\ sent' = n /\ q # <<>> /\ Head(q) = Send(t, k) /\ pending' = Tail(q)
        /\ IF Deaf THEN Stream' = S ELSE Stream' = S \o Msg(t, k)
    BY <1>8 DEF Delivers, S, q, n
  <2>2. CASE Deaf
    <3>1. Sound(S, Tail(q), n) /\ ~clean
      BY <1>1, <1>2, <2>1, <2>2, PopDrop
    <3> QED BY Zenon, <1>2, <1>3, <2>1, <2>2, <3>1
  <2>3. CASE ~Deaf
    <3>1. /\ Sound(S \o Msg(t, k), Tail(q), n)
          /\ Full(S, q, n) /\ Gapless(S) => Full(S \o Msg(t, k), Tail(q), n) /\ Gapless(S \o Msg(t, k))
      BY <1>1, <1>2, <2>1, PopSend
    <3>2. ~raced' => Full(S, q, n)
      BY <2>3, RacedStays DEF SInv, S, q, n
    <3> QED BY Zenon, <1>2, <1>3, <2>1, <2>3, <3>1, <3>2
  <2> QED BY Zenon, <2>2, <2>3
<1>9. CASE Speaks
  <2>1. /\ pending' = q /\ sent' = [n EXCEPT ![Loop] = @ + 1]
        /\ IF Deaf THEN Stream' = S ELSE Stream' = S \o Msg(Loop, n[Loop])
    BY <1>9 DEF Speaks, S, q, n
  <2>2. /\ Sound(S, q, [n EXCEPT ![Loop] = @ + 1])
        /\ Sound(S \o Msg(Loop, n[Loop]), q, [n EXCEPT ![Loop] = @ + 1])
        /\ Full(S, q, n) /\ Gapless(S)
             => /\ Full(S \o Msg(Loop, n[Loop]), q, [n EXCEPT ![Loop] = @ + 1])
                /\ Gapless(S \o Msg(Loop, n[Loop]))
    BY <1>1, <1>2, LoopSends
  <2>3. CASE Deaf
    BY Zenon, <1>2, <1>3, <2>1, <2>2, <2>3
  <2>4. CASE ~Deaf
    <3>1. ~raced' => Full(S, q, n)
      BY <2>4, RacedStays DEF SInv, S, q, n
    <3> QED BY Zenon, <1>2, <1>3, <2>1, <2>2, <2>4, <3>1
  <2> QED BY Zenon, <2>3, <2>4
<1>10. Moves
  BY StepMoves
<1> QED BY Zenon, <1>4, <1>5, <1>6, <1>7, <1>8, <1>9, <1>10 DEF Moves

(* While only the loop thread closes, shutdown() is not queued, and our FIN *)
(* is only sent once the connection is no longer open for sending.         *)
LEMMA LateStep ==
  ASSUME IInv, SInv, [Next]_vars, ~raced'
  PROVE  ShutdownLate'
<1> USE DEF Channel, Output, Callers, Life
<1> DEFINE Quiet(queue) == \A i \in 1 .. Len(queue) : queue[i][1] # "shutdown"
           Late == shutdownWrite => state_ \in {"kDisconnecting", "kDisconnected"}
<1>1. Quiet(pending) /\ Late /\ pending \in Seq(Functors)
  BY RacedStays DEF SInv, ShutdownLate, IInv, TypeOK
<1>2. Late'
  <2>1. ASSUME UNCHANGED <<shutdownWrite, state_>> PROVE Late'
    BY <1>1, <2>1
  <2>2. CASE NewConnection
    BY <1>1, <2>2 DEF NewConnection
  <2>3. CASE PeerCloses \/ HandleReadError \/ LoopSend \/ RunSend
    BY <2>1, <2>3, Zenon DEF PeerCloses, HandleReadError, LoopSend, RunSend
  <2>4. CASE HandleReadClosed \/ LoopShutdown \/ LoopForceClose
    BY <2>4 DEF HandleReadClosed, HandleClose, LoopShutdown, LoopForceClose
  <2>5. CASE HandleWrite
    <3>1. shutdownWrite' => state_ = "kDisconnecting"
      BY <2>5, Zenon DEF HandleWrite
    <3>2. UNCHANGED state_
      BY <2>5, Zenon DEF HandleWrite
    <3> QED BY <3>1, <3>2
  <2>6. CASE RunShutdown
    <3>1. pending # <<>> /\ Head(pending)[1] = "shutdown"
      BY <2>6 DEF RunShutdown
    <3>2. Head(pending) = pending[1] /\ 1 \in 1 .. Len(pending)
      BY <1>1, <3>1
    <3> QED BY <1>1, <3>1, <3>2
  <2>7. CASE RunForceClose
    <3>1. state_' = "kDisconnected" \/ UNCHANGED <<shutdownWrite, state_>>
      BY <2>7, Zenon DEF RunForceClose, HandleClose
    <3> QED BY <2>1, <3>1
  <2>8. CASE RunDestroyed
    <3>1. state_' = "kDisconnected" \/ UNCHANGED <<shutdownWrite, state_>>
      BY <2>8, Zenon DEF RunDestroyed, ConnectDestroyed
    <3> QED BY <2>1, <3>1
  <2>9. CASE ServerDestroyed
    BY <2>9 DEF ServerDestroyed
  <2>10. ASSUME NEW t \in Threads,
                \/ TestSend(t) \/ TestShutdown(t) \/ TestForceClose(t)
                \/ QueueSend(t) \/ QueueClose(t)
         PROVE  Late'
    BY <2>1, <2>10, Zenon DEF TestSend, TestShutdown, TestForceClose, Tests, QueueSend, QueueClose
  <2>11. CASE UNCHANGED vars
    <3>1. UNCHANGED <<shutdownWrite, state_>>
      BY <2>11 DEF vars
    <3> QED BY <2>1, <3>1
  <2> HIDE DEF Late
  <2> QED
    BY <2>2, <2>3, <2>4, <2>5, <2>6, <2>7, <2>8, <2>9, <2>10, <2>11, Zenon DEF Next, LoopStep
<1>3. Quiet(pending')
  <2>1. ASSUME NEW queue \in Seq(Functors), Quiet(queue), NEW f \in Functors, f[1] # "shutdown"
        PROVE  Quiet(Append(queue, f))
    <3>1. /\ Len(Append(queue, f)) = Len(queue) + 1 /\ Len(queue) \in Nat
          /\ \A i \in 1 .. Len(queue) : Append(queue, f)[i] = queue[i]
          /\ Append(queue, f)[Len(queue) + 1] = f
      BY AppendProperties, ElementOf
    <3>2. \A i \in 1 .. Len(queue) + 1 : i \in 1 .. Len(queue) \/ i = Len(queue) + 1
      BY <3>1
    <3> QED BY <2>1, <3>1, <3>2
  <2>2. pending # <<>> => Quiet(Tail(pending)) /\ Tail(pending) \in Seq(Functors)
    <3> SUFFICES ASSUME pending # <<>> PROVE Quiet(Tail(pending)) /\ Tail(pending) \in Seq(Functors)
      OBVIOUS
    <3>1. /\ Tail(pending) \in Seq(Functors) /\ Len(Tail(pending)) = Len(pending) - 1
          /\ \A i \in 1 .. Len(Tail(pending)) : Tail(pending)[i] = pending[i + 1]
      BY <1>1, HeadTailProperties
    <3>2. \A i \in 1 .. Len(Tail(pending)) : i + 1 \in 1 .. Len(pending)
      BY <1>1, <3>1
    <3> QED BY <1>1, <3>1, <3>2
  <2>3. <<"destroyed", <<>>>> \in Functors /\ <<"destroyed", <<>>>>[1] # "shutdown"
    BY DEF Functors
  <2>4. <<"forceClose", <<>>>> \in Functors /\ <<"forceClose", <<>>>>[1] # "shutdown"
    BY DEF Functors
  <2> HIDE DEF Quiet
  <2>5. CASE \/ NewConnection \/ PeerCloses \/ HandleReadError \/ HandleWrite \/ LoopSend \/ LoopShutdown
             \/ UNCHANGED vars
    <3>1. UNCHANGED pending
      BY <2>5, Zenon DEF NewConnection, PeerCloses, HandleReadError, HandleWrite, LoopSend, LoopShutdown, vars
    <3> QED BY <1>1, <3>1
  <2>6. CASE HandleReadClosed
    <3>1. pending' = Append(pending, <<"destroyed", <<>>>>)
      BY <2>6, Zenon DEF HandleReadClosed, HandleClose
    <3> QED BY <1>1, <2>1, <2>3, <3>1
  <2>7. CASE LoopForceClose
    <3>1. pending' = Append(pending, <<"forceClose", <<>>>>)
      BY <2>7, Zenon DEF LoopForceClose
    <3> QED BY <1>1, <2>1, <2>4, <3>1
  <2>8. CASE RunSend \/ RunShutdown \/ RunDestroyed
    <3>1. pending # <<>> /\ pending' = Tail(pending)
      BY <2>8, Zenon DEF RunSend, RunShutdown, RunDestroyed
    <3> QED BY <2>2, <3>1
  <2>9. CASE RunForceClose
    <3>1. pending # <<>>
          /\ (pending' = Tail(pending) \/ pending' = Append(Tail(pending), <<"destroyed", <<>>>>))
      BY <2>9, Zenon DEF RunForceClose, HandleClose
    <3> QED BY <2>1, <2>2, <2>3, <3>1
  <2>10. ASSUME NEW t \in Threads, TestSend(t) \/ TestShutdown(t) \/ TestForceClose(t) PROVE Quiet(pending')
    <3>1. UNCHANGED pending
      BY <2>10, Zenon DEF TestSend, TestShutdown, TestForceClose, Tests
    <3> QED BY <1>1, <3>1
  <2>11. ASSUME NEW t \in Threads, QueueSend(t) PROVE Quiet(pending')
    <3>1. pending' = Append(pending, <<"send", Message(t)>>)
      BY <2>11, Zenon DEF QueueSend
    <3>2. t \in Senders /\ sent[t] \in Nat
      BY DEF IInv, TypeOK, Senders
    <3>3. <<"send", Message(t)>> \in Functors /\ <<"send", Message(t)>>[1] # "shutdown"
      BY <3>2, MessageData, SendFunctor
    <3> QED BY <1>1, <2>1, <3>1, <3>3
  <2>12. CASE ServerDestroyed
    BY <2>12, Zenon DEF ServerDestroyed
  <2>13. ASSUME NEW t \in Threads, QueueClose(t) PROVE FALSE
    BY <2>13, Zenon DEF QueueClose
  <2> QED
    BY <2>5, <2>6, <2>7, <2>8, <2>9, <2>10, <2>11, <2>12, <2>13, Zenon DEF Next, LoopStep
<1> QED BY <1>2, <1>3 DEF ShutdownLate

(* Bytes neither leave the stream nor the wire again.                      *)
LEMMA BytesStay ==
  ASSUME IInv, SInv, [Next]_vars
  PROVE  /\ \A b : Holds(Stream, b) => Holds(Stream', b)
         /\ \A b : Holds(wire, b) => Holds(wire', b)
<1> USE DEF Channel, Output, Callers, Life
<1>1. \A b : Holds(Stream, b) => Holds(Stream', b)
  <2>1. Stream \in Seq(Bytes)
    BY ConcatProperties DEF IInv, TypeOK, Stream
  <2>2. ASSUME Stream' = Stream PROVE \A b : Holds(Stream, b) => Holds(Stream', b)
    BY Zenon, <2>2
  <2>3. ASSUME NEW t \in Threads, NEW k \in Nat, Stream' = Stream \o Msg(t, k)
        PROVE  \A b : Holds(Stream, b) => Holds(Stream', b)
    <3>1. Msg(t, k) \in Seq(Bytes)
      BY MsgBytes DEF Senders
    <3>2. \A b : Holds(Stream, b) => Holds(Stream \o Msg(t, k), b)
      BY <2>1, <3>1, HoldsGrows
    <3> QED BY Zenon, <2>3, <3>2
  <2>4. ASSUME Stream' = Stream \o Msg(Loop, sent[Loop])
        PROVE  \A b : Holds(Stream, b) => Holds(Stream', b)
    <3>1. Msg(Loop, sent[Loop]) \in Seq(Bytes)
      BY MsgBytes DEF Senders, IInv, TypeOK
    <3>2. \A b : Holds(Stream, b) => Holds(Stream \o Msg(Loop, sent[Loop]), b)
      BY <2>1, <3>1, HoldsGrows
    <3> QED BY Zenon, <2>4, <3>2
  <2>5. Stream' = Stream \/ Stream' = Stream \o Msg(Loop, sent[Loop])
          \/ \E t \in Threads, k \in Nat : Stream' = Stream \o Msg(t, k)
    BY StepMoves, Zenon DEF Moves, Stays, Queues, Takes, Posts, Delivers, Speaks
  <2> QED BY Zenon, <2>2, <2>3, <2>4, <2>5
<1>2. \A b : Holds(wire, b) => Holds(wire', b)
  <2>1. ASSUME UNCHANGED wire PROVE \A b : Holds(wire, b) => Holds(wire', b)
    BY Zenon, <2>1
  <2>2. CASE HandleWrite
    BY <2>2, WriteMoves DEF IInv
  <2>3. CASE LoopSend
    <3>1. Message(Loop) \in Data /\ SendInLoop(Message(Loop))
      BY <2>3, MessageData DEF LoopSend, IInv, TypeOK, Senders
    <3> QED BY <3>1, SendMoves DEF IInv
  <2>4. CASE RunSend
    <3>1. pending # <<>> /\ Head(pending)[1] = "send" /\ SendInLoop(Head(pending)[2])
      BY <2>4 DEF RunSend
    <3>2. Head(pending)[2] \in Data
      BY <3>1, Popped
    <3> QED BY <3>1, <3>2, SendMoves DEF IInv
  <2>5. CASE \/ NewConnection \/ PeerCloses \/ HandleReadError \/ HandleReadClosed \/ LoopShutdown
             \/ LoopForceClose \/ RunShutdown \/ RunForceClose \/ RunDestroyed \/ ServerDestroyed
             \/ UNCHANGED vars
    <3>1. UNCHANGED wire
      BY <2>5, Zenon DEF NewConnection, PeerCloses, HandleReadError, HandleReadClosed, HandleClose,
         LoopShutdown, LoopForceClose, RunShutdown, RunForceClose, RunDestroyed, ServerDestroyed, vars
    <3> QED BY <2>1, <3>1
  <2>6. ASSUME NEW t \in Threads,
               \/ TestSend(t) \/ TestShutdown(t) \/ TestForceClose(t)
               \/ QueueSend(t) \/ QueueClose(t)
        PROVE  \A b : Holds(wire, b) => Holds(wire', b)
    <3>1. UNCHANGED wire
      BY <2>6, Zenon DEF TestSend, TestShutdown, TestForceClose, Tests, QueueSend, QueueClose
    <3> QED BY <2>1, <3>1
  <2> QED BY <2>2, <2>3, <2>4, <2>5, <2>6, Zenon DEF Next, LoopStep
<1> QED BY <1>1, <1>2, Zenon

(* What the loop thread sent is in the stream while the peer listens.      *)
LEMMA LoopCounts ==
  ASSUME IInv, [Next]_vars
  PROVE  /\ LoopSend \/ sent'[Loop] = sent[Loop]
         /\ peer' \notin {"reset", "gone"} => peer \notin {"reset", "gone"}
<1> USE DEF Channel, Output, Callers, Life
<1>1. CASE \/ NewConnection \/ HandleReadClosed \/ HandleWrite \/ LoopShutdown \/ LoopForceClose
           \/ RunSend \/ RunShutdown \/ RunForceClose \/ RunDestroyed \/ ServerDestroyed
           \/ UNCHANGED vars
  <2>1. UNCHANGED <<sent, peer>>
    BY <1>1, Zenon DEF NewConnection, HandleReadClosed, HandleClose, HandleWrite, LoopShutdown,
       LoopForceClose, RunSend, RunShutdown, RunForceClose, RunDestroyed, ServerDestroyed, vars
  <2> QED BY <2>1
<1>2. CASE LoopSend
  BY <1>2 DEF LoopSend
<1>3. CASE PeerCloses \/ HandleReadError
  BY <1>3 DEF PeerCloses, HandleReadError
<1>4. ASSUME NEW t \in Threads, TestSend(t) \/ TestShutdown(t) \/ TestForceClose(t) \/ QueueClose(t)
      PROVE  UNCHANGED <<sent, peer>>
  BY <1>4, Zenon DEF TestSend, TestShutdown, TestForceClose, Tests, QueueClose
<1>5. ASSUME NEW t \in Threads, QueueSend(t)
      PROVE  sent'[Loop] = sent[Loop] /\ UNCHANGED peer
  <2>1. t # Loop /\ Loop \in Senders /\ sent \in [Senders -> Nat]
    BY TcpConnectionAssumption DEF Senders, IInv, TypeOK
  <2> QED BY <1>5, <2>1 DEF QueueSend
<1> QED BY <1>1, <1>2, <1>3, <1>4, <1>5, Zenon DEF Next, LoopStep

LEMMA FlowsStep ==
  ASSUME IInv, SInv, [Next]_vars, ~raced'
  PROVE  LoopFlows'
<1> DEFINE Good(p) == p \notin {"reset", "gone"}
<1> SUFFICES ASSUME Good(peer'), NEW n \in 1 .. 2 * sent'[Loop]
             PROVE  Holds(Stream', <<Loop, n>>)
  BY DEF LoopFlows
<1>1. Good(peer) /\ ~raced
  BY LoopCounts, RacedStays
<1>2. \A m \in 1 .. 2 * sent[Loop] : Holds(Stream, <<Loop, m>>)
  BY <1>1 DEF SInv, LoopFlows
<1>3. \A m \in 1 .. 2 * sent[Loop] : Holds(Stream', <<Loop, m>>)
  <2>1. \A b : Holds(Stream, b) => Holds(Stream', b)
    BY BytesStay
  <2> QED BY Zenon, <1>2, <2>1
<1>4. CASE sent'[Loop] = sent[Loop]
  BY <1>3, <1>4
<1>5. CASE LoopSend
  <2> DEFINE k == sent[Loop]
  <2>1. Loop \in Senders /\ k \in Nat /\ sent \in [Senders -> Nat]
    BY DEF IInv, TypeOK, Senders
  <2>2. sent'[Loop] = k + 1
    BY <1>5, <2>1 DEF LoopSend
  <2>3. SendInLoop(Message(Loop)) /\ Message(Loop) = Msg(Loop, k) /\ Message(Loop) \in Data
    BY <1>5, <2>1, MessageIsMsg, MessageData DEF LoopSend
  <2>4. ~Deaf
    <3>1. state_ = "kConnected"
      BY <1>5 DEF LoopSend
    <3>2. ~shutdownWrite
      BY <1>1, <3>1 DEF SInv, ShutdownLate
    <3> QED BY <1>1, <3>1, <3>2 DEF Deaf, Refuses
  <2>5. Stream' = Stream \o Msg(Loop, k)
    BY <2>3, <2>4, SendMoves DEF IInv
  <2>6. Stream \in Seq(Bytes)
    BY ConcatProperties DEF IInv, TypeOK, Stream
  <2> HIDE DEF k
  <2>7. /\ Msg(Loop, k) \in Seq(Bytes) /\ Len(Msg(Loop, k)) = 2
        /\ Msg(Loop, k)[1] = <<Loop, 2 * k + 1>> /\ Msg(Loop, k)[2] = <<Loop, 2 * k + 2>>
    BY <2>1, MsgBytes
  <2>8. /\ Len(Stream') = Len(Stream) + 2 /\ Len(Stream) \in Nat
        /\ Stream'[Len(Stream) + 1] = <<Loop, 2 * k + 1>>
        /\ Stream'[Len(Stream) + 2] = <<Loop, 2 * k + 2>>
    <3>1. ASSUME NEW S \in Seq(Bytes), NEW T \in Seq(Bytes), Len(T) = 2
          PROVE  /\ Len(S \o T) = Len(S) + 2 /\ Len(S) \in Nat
                 /\ (S \o T)[Len(S) + 1] = T[1] /\ (S \o T)[Len(S) + 2] = T[2]
      <4>1. /\ Len(S \o T) = Len(S) + Len(T)
            /\ \A i \in 1 .. Len(S) + Len(T) :
                 (S \o T)[i] = IF i <= Len(S) THEN S[i] ELSE T[i - Len(S)]
        BY ConcatProperties
      <4>2. /\ Len(S) \in Nat
            /\ \A i \in 1 .. Len(S) + 2 :
                 (S \o T)[i] = IF i <= Len(S) THEN S[i] ELSE T[i - Len(S)]
        BY <3>1, <4>1
      <4>3. (S \o T)[Len(S) + 1] = T[1] /\ (S \o T)[Len(S) + 2] = T[2]
        <5> DEFINE p == Len(S)
                   W == S \o T
        <5>1. p \in Nat /\ \A i \in 1 .. p + 2 : W[i] = IF i <= p THEN S[i] ELSE T[i - p]
          BY <4>2
        <5> HIDE DEF p, W
        <5>2. /\ p + 1 \in 1 .. p + 2 /\ ~(p + 1 <= p) /\ (p + 1) - p = 1
              /\ p + 2 \in 1 .. p + 2 /\ ~(p + 2 <= p) /\ (p + 2) - p = 2
          BY <5>1
        <5>3. W[p + 1] = T[1] /\ W[p + 2] = T[2]
          BY <5>1, <5>2
        <5> QED BY <5>3 DEF p, W
      <4> QED BY <3>1, <4>1, <4>2, <4>3
    <3> QED BY <2>5, <2>6, <2>7, <3>1
  <2>9. Holds(Stream', <<Loop, 2 * k + 1>>) /\ Holds(Stream', <<Loop, 2 * k + 2>>)
    <3>1. Len(Stream) + 1 \in 1 .. Len(Stream') /\ Len(Stream) + 2 \in 1 .. Len(Stream')
      BY <2>8
    <3> QED BY <2>8, <3>1 DEF Holds
  <2>10. n \in 1 .. 2 * k \/ n = 2 * k + 1 \/ n = 2 * k + 2
    BY <2>1, <2>2
  <2> QED BY <1>3, <2>9, <2>10 DEF k
<1> QED BY <1>4, <1>5, LoopCounts

(* The FIN goes out with the buffer empty, so that the wire is the stream. *)
LEMMA FlushStep ==
  ASSUME IInv, SInv, [Next]_vars
  PROVE  ShutdownFlushes'
<1> USE DEF Channel, Output, Callers, Life
<1> DEFINE Gone(bytes) == \A n \in 1 .. 2 * sent[Loop] : Holds(bytes, <<Loop, n>>)
<1> SUFFICES ASSUME ~raced', shutdownWrite', peer' \notin {"reset", "gone"}
             PROVE  \A n \in 1 .. 2 * sent'[Loop] : Holds(wire', <<Loop, n>>)
  BY DEF ShutdownFlushes
<1>1. ~raced /\ peer \notin {"reset", "gone"}
  BY LoopCounts, RacedStays
<1>2. Gone(Stream)
  BY <1>1 DEF SInv, LoopFlows
<1>3. CASE shutdownWrite
  <2>1. ~LoopSend
    BY <1>1, <1>3 DEF SInv, ShutdownLate, LoopSend
  <2>2. Gone(wire)
    BY <1>1, <1>3 DEF SInv, ShutdownFlushes
  <2>3. sent'[Loop] = sent[Loop]
    BY <2>1, LoopCounts
  <2>4. \A b : Holds(wire, b) => Holds(wire', b)
    BY BytesStay
  <2> QED BY Zenon, <2>2, <2>3, <2>4
<1>4. ASSUME ~shutdownWrite, UNCHANGED shutdownWrite PROVE FALSE
  BY <1>4
<1>5. CASE ~shutdownWrite /\ LoopShutdown
  <2>1. Open /\ ~writing /\ UNCHANGED <<wire, sent>>
    BY <1>5, Zenon DEF LoopShutdown, ShutdownInLoop, Open
  <2>2. outputBuffer_ = <<>>
    BY <1>1, <2>1 DEF IInv, Orderly, OutputArmed
  <2>3. Stream = wire
    BY <2>2, ConcatEmptySeq DEF Stream, IInv, TypeOK
  <2> QED BY Zenon, <1>2, <2>1, <2>3
<1>6. CASE HandleWrite
  <2>1. ~writing' /\ UNCHANGED sent
    BY <1>6, Zenon DEF HandleWrite
  <2>2. wire' = Stream
    BY <1>6, <2>1, WriteMoves DEF IInv
  <2> QED BY Zenon, <1>2, <2>1, <2>2
<1>7. CASE RunShutdown
  <2>1. pending # <<>> /\ Head(pending)[1] = "shutdown" /\ pending \in Seq(Functors)
    BY <1>7 DEF RunShutdown, IInv, TypeOK
  <2>2. Head(pending) = pending[1] /\ 1 \in 1 .. Len(pending)
    BY <2>1
  <2> QED BY <1>1, <2>1, <2>2 DEF SInv, ShutdownLate
<1>8. CASE \/ NewConnection \/ PeerCloses \/ HandleReadError \/ HandleReadClosed \/ LoopSend
           \/ LoopForceClose \/ RunSend \/ RunForceClose \/ RunDestroyed \/ ServerDestroyed
           \/ UNCHANGED vars
  <2>1. UNCHANGED shutdownWrite
    BY <1>8, Zenon DEF NewConnection, PeerCloses, HandleReadError, HandleReadClosed, HandleClose,
       LoopSend, LoopForceClose, RunSend, RunForceClose, RunDestroyed, ServerDestroyed, vars
  <2> QED BY <1>3, <1>4, <2>1
<1>9. ASSUME NEW t \in Threads,
             \/ TestSend(t) \/ TestShutdown(t) \/ TestForceClose(t)
             \/ QueueSend(t) \/ QueueClose(t)
      PROVE  UNCHANGED shutdownWrite
  BY <1>9, Zenon DEF TestSend, TestShutdown, TestForceClose, Tests, QueueSend, QueueClose
<1>10. CASE ~shutdownWrite
  BY Zenon, <1>4, <1>5, <1>6, <1>7, <1>8, <1>9, <1>10 DEF Next, LoopStep
<1> QED BY Zenon, <1>3, <1>10

LEMMA SInit == Init => SInv
<1> SUFFICES ASSUME Init PROVE SInv
  OBVIOUS
<1>1. Stream = <<>> /\ Len(Stream) = 0 /\ pending = <<>> /\ ~shutdownWrite /\ ~raced
  BY DEF Init, Stream
<1>2. Loop \in Senders /\ \A t \in Senders : sent[t] = 0
  BY DEF Init, Senders
<1>3. Sound(Stream, pending, sent)
  BY <1>1 DEF Sound, Ascending, Whole, Counted, Posted, Queueing, Ahead
<1>4. Gapless(Stream) /\ LoopFlows /\ ShutdownLate /\ ShutdownFlushes
  BY <1>1, <1>2 DEF Gapless, LoopFlows, ShutdownLate, ShutdownFlushes
<1>5. Full(Stream, pending, sent)
  BY <1>1, <1>2 DEF Full, Newest, Linked
<1> QED BY <1>3, <1>4, <1>5 DEF SInv

LEMMA SStep == IInv /\ SInv /\ [Next]_vars => SInv'
<1> SUFFICES ASSUME IInv, SInv, [Next]_vars PROVE SInv'
  OBVIOUS
<1>1. Sound(Stream', pending', sent') /\ ShutdownFlushes'
  BY SoundStep, FlushStep
<1>2. ~raced' => /\ Gapless(Stream') /\ LoopFlows' /\ ShutdownLate'
                 /\ ~Deaf' => Full(Stream', pending', sent')
  BY SoundStep, FlowsStep, LateStep
<1> QED BY <1>1, <1>2, Zenon DEF SInv

LEMMA StreamInvariant == Spec => []SInv
  BY SInit, SStep, Invariant, PTL DEF Spec

(* TcpConnection.cc, send, sendInLoop and handleWrite: however many        *)
(* threads send and however the kernel splits what it accepts, the bytes   *)
(* of a thread leave in order, once, and untorn; and with none missing     *)
(* before one that left, as long as only the loop thread closes.           *)
THEOREM StreamIntactAlways == Spec => []StreamIntact
<1>1. SInv => StreamIntact
  BY Zenon DEF SInv, Sound, StreamIntact
<1> QED BY <1>1, StreamInvariant, PTL

(* TcpConnection.cc, shutdown, shutdownInLoop and handleWrite: our FIN     *)
(* follows all that the loop thread sent before it.                        *)
THEOREM ShutdownFlushesAlways == Spec => []ShutdownFlushes
<1>1. SInv => ShutdownFlushes
  BY DEF SInv
<1> QED BY <1>1, StreamInvariant, PTL
===============================================================================
