----------------------------- MODULE TcpConnection -----------------------------
(***************************************************************************)
(* One muduo::net::TcpConnection of a TcpServer that has a single loop, as *)
(* every server of mdvrDataAccess has: its state, its output buffer, the   *)
(* two events of its channel, the functors queued for it, and its place in *)
(* the server's map.  A callback of the loop thread is one action.  send,  *)
(* shutdown and forceClose called by another thread test state_ without a  *)
(* lock, so the test and what follows it are two actions.                  *)
(***************************************************************************)
EXTENDS Naturals, Sequences

CONSTANTS
  Threads,     (* threads other than the loop's that hold the connection   *)
  Loop,        (* the loop thread, as a sender                             *)
  Closers,     (* those of Threads that also call shutdown or forceClose   *)
  ServerEnds,  (* ~TcpServer may run while the connection exists           *)
  MaxSends     (* bound on the messages of each of them                    *)

ASSUME TcpConnectionAssumption ==
  /\ Loop \notin Threads
  /\ Closers \subseteq Threads
  /\ ServerEnds \in BOOLEAN
  /\ MaxSends \in [Threads \cup {Loop} -> Nat]

Senders == Threads \cup {Loop}

VARIABLES
  state_,
  reading, writing,  (* the channel's two events                           *)
  outputBuffer_,     (* bytes: <<thread, number>>                          *)
  wire,              (* bytes the kernel accepted                          *)
  shutdownWrite,     (* our FIN follows wire                               *)
  peer,              (* "open", "closed" its side, "reset" the connection, *)
                     (* or is "gone" (reset, and the error was read)       *)
  pending,           (* this connection's functors in the loop's queue     *)
  pc,                (* what a thread has tested state_ for; "done" bounds  *)
                     (* its calls of shutdown and forceClose to one        *)
  sent,              (* messages each thread has sent                      *)
  downs,             (* calls of connectionCallback_ that said DOWN        *)
  inMap,             (* TcpServer::connections_ has the connection         *)
  destroyed,         (* connectDestroyed has run                           *)
  server,            (* the TcpServer exists                               *)
  raced              (* history: another thread's shutdown or forceClose   *)
                     (* wrote state_, or ~TcpServer has run                *)

Channel == <<reading, writing>>
Output == <<outputBuffer_, wire>>
Callers == <<pc, sent, raced>>
Life == <<downs, inMap, destroyed, server>>

vars == <<state_, Channel, Output, shutdownWrite, peer, pending, Callers, Life>>

Bytes == Senders \X Nat
Functors == {"shutdown", "forceClose", "destroyed"} \X {<<>>} \cup {"send"} \X Seq(Bytes)

TypeOK ==
  /\ state_ \in {"kConnecting", "kConnected", "kDisconnecting", "kDisconnected"}
  /\ reading \in BOOLEAN /\ writing \in BOOLEAN
  /\ outputBuffer_ \in Seq(Bytes)
  /\ wire \in Seq(Bytes)
  /\ shutdownWrite \in BOOLEAN
  /\ peer \in {"open", "closed", "reset", "gone"}
  /\ pending \in Seq(Functors)
  /\ pc \in [Threads -> {"idle", "send", "shutdown", "forceClose", "done"}]
  /\ sent \in [Senders -> Nat]
  /\ downs \in Nat
  /\ inMap \in BOOLEAN /\ destroyed \in BOOLEAN /\ server \in BOOLEAN /\ raced \in BOOLEAN

-----------------------------------------------------------------------------
Queued(op) == \E i \in 1 .. Len(pending) : pending[i][1] = op

Init ==
  /\ state_ = "kConnecting"
  /\ reading = FALSE /\ writing = FALSE
  /\ outputBuffer_ = <<>>
  /\ wire = <<>>
  /\ shutdownWrite = FALSE
  /\ peer = "open"
  /\ pending = <<>>
  /\ pc = [t \in Threads |-> "idle"]
  /\ sent = [t \in Senders |-> 0]
  /\ downs = 0
  /\ inMap = FALSE
  /\ destroyed = FALSE
  /\ server = TRUE
  /\ raced = FALSE

(* A message is two bytes, so that a write may accept half of it. *)
Message(t) == << <<t, 2 * sent[t] + 1>>, <<t, 2 * sent[t] + 2>> >>

(* The kernel refuses with EPIPE or ECONNRESET once the peer has reset the *)
(* connection or our side is shut down.                                    *)
Refuses == shutdownWrite \/ peer \in {"reset", "gone"}

(* The kernel accepts n bytes of data, the rest waits for POLLOUT. *)
Accept(data, n) ==
  /\ wire' = wire \o SubSeq(data, 1, n)
  /\ outputBuffer_' = outputBuffer_ \o SubSeq(data, n + 1, Len(data))

(* Mutant: a message is written directly although output is waiting. *)
SendInLoop_Overtakes(data) ==
  IF state_ = "kDisconnected" \/ Refuses
  THEN UNCHANGED <<Output, writing>>
  ELSE \E n \in 0 .. Len(data) : Accept(data, n) /\ writing' = (writing \/ n < Len(data))

(* Mutant: what is left of a message is buffered without asking for POLLOUT. *)
SendInLoop_NoPollOut(data) ==
  IF state_ = "kDisconnected" \/ (outputBuffer_ = <<>> /\ Refuses)
  THEN UNCHANGED <<Output, writing>>
  ELSE \E n \in IF outputBuffer_ # <<>> THEN {0} ELSE 0 .. Len(data) :
         Accept(data, n) /\ UNCHANGED writing

(* A message is written directly only when no output waits before it. *)
SendInLoop(data) ==
  LET direct == ~writing /\ outputBuffer_ = <<>>
  IN IF state_ = "kDisconnected" \/ (direct /\ Refuses)
     THEN UNCHANGED <<Output, writing>>
     ELSE \E n \in IF direct THEN 0 .. Len(data) ELSE {0} :
            Accept(data, n) /\ writing' = (writing \/ n < Len(data))

(* Mutant: the FIN does not wait for the output. *)
ShutdownInLoop_AtOnce == shutdownWrite' = TRUE

ShutdownInLoop == shutdownWrite' = (shutdownWrite \/ ~writing)

(* Mutant: the connection's end is not queued. *)
HandleClose_Forgets(queue) ==
  /\ state_' = "kDisconnected"
  /\ reading' = FALSE /\ writing' = FALSE
  /\ downs' = downs + 1
  /\ inMap' = FALSE
  /\ pending' = queue
  /\ UNCHANGED <<Output, shutdownWrite, Callers, destroyed, server>>

(* handleClose tells DOWN; closeCallback_ takes the connection out of the  *)
(* map (removeConnection, removeConnectionInLoop) and queues its end.      *)
HandleClose(queue) ==
  /\ state_' = "kDisconnected"
  /\ reading' = FALSE /\ writing' = FALSE
  /\ downs' = downs + 1
  /\ inMap' = FALSE
  /\ pending' = Append(queue, <<"destroyed", <<>>>>)
  /\ UNCHANGED <<Output, shutdownWrite, Callers, destroyed, server>>

(* connectDestroyed tells DOWN unless handleClose has done so. *)
ConnectDestroyed ==
  /\ IF state_ = "kConnected"
     THEN state_' = "kDisconnected" /\ reading' = FALSE /\ writing' = FALSE /\ downs' = downs + 1
     ELSE UNCHANGED <<state_, Channel, downs>>
  /\ destroyed' = TRUE

-----------------------------------------------------------------------------
(* The loop thread.  newConnection runs connectEstablished at once.        *)
NewConnection ==
  /\ server
  /\ state_ = "kConnecting"
  /\ state_' = "kConnected"
  /\ reading' = TRUE
  /\ inMap' = TRUE
  /\ UNCHANGED <<writing, Output, shutdownWrite, peer, pending, Callers, downs, destroyed, server>>

(* The peer shuts its side down or resets the connection. *)
PeerCloses ==
  /\ state_ # "kConnecting"
  /\ peer = "open"
  /\ peer' \in {"closed", "reset"}
  /\ UNCHANGED <<state_, Channel, Output, shutdownWrite, pending, Callers, Life>>

(* read() fails once: handleError only reports it. *)
HandleReadError ==
  /\ server /\ reading
  /\ peer = "reset"
  /\ peer' = "gone"
  /\ UNCHANGED <<state_, Channel, Output, shutdownWrite, pending, Callers, Life>>

HandleReadClosed ==
  /\ server /\ reading
  /\ peer \in {"closed", "gone"}
  /\ HandleClose(pending)
  /\ UNCHANGED peer

(* Mutant: the drained buffer does not let the held FIN go. *)
HandleWrite_NoFin ==
  /\ server /\ writing /\ ~Refuses
  /\ \E n \in 1 .. Len(outputBuffer_) :
       /\ wire' = wire \o SubSeq(outputBuffer_, 1, n)
       /\ outputBuffer_' = SubSeq(outputBuffer_, n + 1, Len(outputBuffer_))
       /\ writing' = (n < Len(outputBuffer_))
  /\ UNCHANGED <<shutdownWrite, state_, reading, peer, pending, Callers, Life>>

(* The kernel has room again; when the buffer is drained the FIN that      *)
(* shutdown() had to hold back goes out.                                   *)
HandleWrite ==
  /\ server /\ writing /\ ~Refuses
  /\ \E n \in 1 .. Len(outputBuffer_) :
       /\ wire' = wire \o SubSeq(outputBuffer_, 1, n)
       /\ outputBuffer_' = SubSeq(outputBuffer_, n + 1, Len(outputBuffer_))
       /\ writing' = (n < Len(outputBuffer_))
  /\ shutdownWrite' = (~writing' /\ state_ = "kDisconnecting")
  /\ UNCHANGED <<state_, reading, peer, pending, Callers, Life>>

(* What a callback of the server's user does with the connection. *)
LoopSend ==
  /\ server /\ state_ = "kConnected"
  /\ sent[Loop] < MaxSends[Loop]
  /\ sent' = [sent EXCEPT ![Loop] = @ + 1]
  /\ SendInLoop(Message(Loop))
  /\ UNCHANGED <<state_, reading, shutdownWrite, peer, pending, pc, raced, Life>>

LoopShutdown ==
  /\ server /\ state_ = "kConnected"
  /\ state_' = "kDisconnecting"
  /\ ShutdownInLoop
  /\ UNCHANGED <<Channel, Output, peer, pending, Callers, Life>>

LoopForceClose ==
  /\ server /\ state_ \in {"kConnected", "kDisconnecting"}
  /\ ~Queued("forceClose")  \* bounds the queue
  /\ state_' = "kDisconnecting"
  /\ pending' = Append(pending, <<"forceClose", <<>>>>)
  /\ UNCHANGED <<Channel, Output, shutdownWrite, peer, Callers, Life>>

(* doPendingFunctors comes to a functor of this connection. *)
RunSend ==
  /\ server /\ pending # <<>> /\ Head(pending)[1] = "send"
  /\ SendInLoop(Head(pending)[2])
  /\ pending' = Tail(pending)
  /\ UNCHANGED <<state_, reading, shutdownWrite, peer, Callers, Life>>

RunShutdown ==
  /\ server /\ pending # <<>> /\ Head(pending)[1] = "shutdown"
  /\ ShutdownInLoop
  /\ pending' = Tail(pending)
  /\ UNCHANGED <<state_, Channel, Output, peer, Callers, Life>>

RunForceClose ==
  /\ server /\ pending # <<>> /\ Head(pending)[1] = "forceClose"
  /\ IF state_ \in {"kConnected", "kDisconnecting"}
     THEN HandleClose(Tail(pending))
     ELSE /\ pending' = Tail(pending)
          /\ UNCHANGED <<state_, Channel, Output, shutdownWrite, Callers, Life>>
  /\ UNCHANGED peer

RunDestroyed ==
  /\ server /\ pending # <<>> /\ Head(pending)[1] = "destroyed"
  /\ ConnectDestroyed
  /\ pending' = Tail(pending)
  /\ UNCHANGED <<Output, shutdownWrite, peer, Callers, inMap, server>>

(* ~TcpServer, in the loop thread after loop() was left: it ends every     *)
(* connection of its map, and no functor runs any more.                    *)
ServerDestroyed ==
  /\ ServerEnds /\ server /\ inMap
  /\ server' = FALSE
  /\ inMap' = FALSE
  /\ raced' = TRUE
  /\ ConnectDestroyed
  /\ UNCHANGED <<Output, shutdownWrite, peer, pending, pc, sent>>

(* Another thread calls send, shutdown or forceClose. *)
Tests(t, call, states) ==
  /\ pc[t] = "idle"
  /\ state_ \in states
  /\ pc' = [pc EXCEPT ![t] = call]
  /\ UNCHANGED <<state_, Channel, Output, shutdownWrite, peer, pending, sent, raced, Life>>

TestSend(t) == sent[t] < MaxSends[t] /\ Tests(t, "send", {"kConnected"})
TestShutdown(t) == t \in Closers /\ Tests(t, "shutdown", {"kConnected"})
TestForceClose(t) == t \in Closers /\ Tests(t, "forceClose", {"kConnected", "kDisconnecting"})

QueueSend(t) ==
  /\ pc[t] = "send"
  /\ pc' = [pc EXCEPT ![t] = "idle"]
  /\ sent' = [sent EXCEPT ![t] = @ + 1]
  /\ pending' = Append(pending, <<"send", Message(t)>>)
  /\ UNCHANGED <<state_, Channel, Output, shutdownWrite, peer, raced, Life>>

QueueClose(t) ==
  /\ pc[t] \in {"shutdown", "forceClose"}
  /\ pc' = [pc EXCEPT ![t] = "done"]
  /\ state_' = "kDisconnecting"
  /\ raced' = TRUE
  /\ pending' = Append(pending, <<pc[t], <<>>>>)
  /\ UNCHANGED <<Channel, Output, shutdownWrite, peer, sent, Life>>

LoopStep ==
  \/ NewConnection \/ HandleReadError \/ HandleReadClosed \/ HandleWrite
  \/ LoopSend \/ LoopShutdown \/ LoopForceClose
  \/ RunSend \/ RunShutdown \/ RunForceClose \/ RunDestroyed

Next ==
  \/ LoopStep \/ PeerCloses \/ ServerDestroyed
  \/ \E t \in Threads :
       TestSend(t) \/ TestShutdown(t) \/ TestForceClose(t) \/ QueueSend(t) \/ QueueClose(t)

Spec == Init /\ [][Next]_vars

(* The loop turns, reads what the poller reports, and the peer keeps       *)
(* reading, so that POLLOUT comes again.                                   *)
FairSpec ==
  /\ Spec
  /\ WF_vars(HandleReadError) /\ WF_vars(HandleReadClosed) /\ WF_vars(HandleWrite)
  /\ WF_vars(RunSend) /\ WF_vars(RunShutdown) /\ WF_vars(RunForceClose) /\ WF_vars(RunDestroyed)

-----------------------------------------------------------------------------
Stream == wire \o outputBuffer_
Open == state_ \in {"kConnected", "kDisconnecting"}

Holds(bytes, b) == \E i \in 1 .. Len(bytes) : bytes[i] = b

(* No byte of a thread comes after a later one of it, and none twice. *)
Ascending(bytes) ==
  \A i, j \in 1 .. Len(bytes) :
    i < j /\ bytes[i][1] = bytes[j][1] => bytes[i][2] < bytes[j][2]

(* The second half of a message follows the first. *)
Whole(bytes) ==
  \A i \in 1 .. Len(bytes) :
    bytes[i][2] % 2 = 1 => i < Len(bytes) /\ bytes[i + 1] = <<bytes[i][1], bytes[i][2] + 1>>

(* Every byte of a thread but its first comes after the one before it. *)
Gapless(bytes) ==
  \A i \in 1 .. Len(bytes) :
    bytes[i][2] = 1 \/ \E j \in 1 .. i - 1 : bytes[j] = <<bytes[i][1], bytes[i][2] - 1>>

(* What leaves a connection is in order: no message of a thread overtakes  *)
(* an earlier one of it, none leaves twice, and none is torn by a message  *)
(* of another thread.  And none is missing before one that left, as long   *)
(* as only the loop thread closes.                                         *)
StreamIntact ==
  /\ Ascending(Stream)
  /\ Whole(Stream)
  /\ ~raced => Gapless(Stream)

(* While the connection is open the poller is asked for POLLOUT exactly    *)
(* while output waits: none is stuck, and none is polled for in vain.      *)
OutputArmed == ~raced /\ Open => (writing <=> outputBuffer_ # <<>>)

(* shutdown() cuts nothing off: when our FIN is sent, all the loop thread  *)
(* sent before has gone, unless the peer reset the connection.             *)
ShutdownFlushes ==
  ~raced /\ shutdownWrite /\ peer \notin {"reset", "gone"}
    => \A n \in 1 .. 2 * sent[Loop] : Holds(wire, <<Loop, n>>)

NoEnd(queue) == \A i \in 1 .. Len(queue) : queue[i][1] # "destroyed"

OneEnd(queue) ==
  \E e \in 1 .. Len(queue) : \A i \in 1 .. Len(queue) : queue[i][1] = "destroyed" <=> i = e

(* A connection that was told DOWN has left the server's map, and its end  *)
(* is queued once and then done; one that was not is in the map, and the   *)
(* poller watches it.                                                      *)
EndsOnce ==
  ~raced =>
    /\ state_ = "kDisconnected" =>
         /\ ~inMap /\ downs = 1 /\ ~reading /\ ~writing
         /\ IF destroyed THEN NoEnd(pending) ELSE OneEnd(pending)
    /\ Open => inMap /\ downs = 0 /\ reading /\ ~destroyed /\ NoEnd(pending)

(* A shutdown() goes through, or the connection ends; and a connection     *)
(* whose peer is gone ends.                                                *)
Ends ==
  []~raced =>
    /\ state_ = "kDisconnecting" ~> shutdownWrite \/ state_ = "kDisconnected"
    /\ peer # "open" ~> destroyed
===============================================================================
