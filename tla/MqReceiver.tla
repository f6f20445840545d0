------------------------------ MODULE MqReceiver ------------------------------
(***************************************************************************)
(* The MQ receiver thread: AMQPQueue::Consume reads frames off the link    *)
(* and puts messages together, onMessage filters them and hands what is    *)
(* left to the loop as functors, and the loop runs findMdvrConnectInLoop.  *)
(* Messages are consumed without acknowledgement from a queue that stays   *)
(* at the broker when the worker ends.                                     *)
(*                                                                         *)
(* Every message has two body frames: the header 99dc is in the first, the *)
(* '#' in the second.  Messages are numbered in the order of publication.  *)
(***************************************************************************)
EXTENDS Naturals, Sequences

CONSTANTS
  MaxMessages,  (* how many messages are published                         *)
  MaxFaults     (* how often the link is disturbed                         *)

VARIABLES
  kind,     (* of each message, see Kinds                                  *)
  next,     (* the next message the broker will send                       *)
  first,    (* the first message sent over the present link                *)
  wire,     (* the frames on the way to the worker                         *)
  link,     (* "up", "closed" by the broker for good, or "ended"           *)
  pc,       (* the frame the thread waits for, or "ended"                  *)
  cur,      (* the message being put together                              *)
  got,      (* how many of its body frames have come                       *)
  handed,   (* what this worker's thread handed to the loop                *)
  run,      (* how many of those the loop has run                          *)
  worker,   (* the worker runs                                             *)
  faults    (* how often the link was disturbed                            *)

input == <<wire, link>>
thread == <<pc, cur, got>>
loop == <<handed, run>>
vars == <<kind, next, first, input, thread, loop, worker, faults>>

(* "command": 99dc with an identity and '#'; "nobody": without identity;   *)
(* "open": without '#'; "alien": with another header.                      *)
Kinds == {"command", "nobody", "open", "alien"}
Numbers == 1 .. MaxMessages

(* "other" is a method the receiver knows nothing of: channel.close, or    *)
(* the basic.cancel of a broker that deleted the queue.                    *)
Frames == [type : {"deliver", "header", "body"}, msg : Numbers] \cup [type : {"other"}, msg : {0}]

TypeOK ==
  /\ kind \in [Numbers -> Kinds]
  /\ next \in 1 .. MaxMessages + 1 /\ first \in 1 .. MaxMessages + 1
  /\ wire \in Seq(Frames) /\ link \in {"up", "closed", "ended"}
  /\ pc \in {"method", "header", "body", "ended"}
  /\ cur \in 0 .. MaxMessages /\ got \in 0 .. 2
  /\ handed \in Seq([msg : Numbers, whole : BOOLEAN]) /\ run \in 0 .. Len(handed)
  /\ worker \in BOOLEAN /\ faults \in 0 .. MaxFaults

Init ==
  /\ kind \in [Numbers -> Kinds]
  /\ next = 1 /\ first = 1
  /\ wire = << >> /\ link = "up"
  /\ pc = "method" /\ cur = 0 /\ got = 0
  /\ handed = << >> /\ run = 0
  /\ worker = TRUE /\ faults = 0

-----------------------------------------------------------------------------
(* The broker. *)
Deliver ==
  /\ worker /\ link = "up" /\ next <= MaxMessages
  /\ LET Frame(t) == [type |-> t, msg |-> next]
     IN wire' = wire \o <<Frame("deliver"), Frame("header"), Frame("body"), Frame("body")>>
  /\ next' = next + 1
  /\ UNCHANGED <<kind, first, link, thread, loop, worker, faults>>

(* The broker ends the channel, between two frames, and sends no more. *)
OtherMethod ==
  /\ worker /\ link = "up" /\ faults < MaxFaults
  /\ \E n \in 0 .. Len(wire) :
       wire' = Append(SubSeq(wire, 1, n), [type |-> "other", msg |-> 0])
  /\ link' = "closed"
  /\ faults' = faults + 1
  /\ UNCHANGED <<kind, next, first, thread, loop, worker>>

(* The link breaks; what had not come by then never comes. *)
LinkEnds ==
  /\ worker /\ link # "ended" /\ faults < MaxFaults
  /\ link' = "ended"
  /\ \E n \in 0 .. Len(wire) : wire' = SubSeq(wire, 1, n)
  /\ faults' = faults + 1
  /\ UNCHANGED <<kind, next, first, thread, loop, worker>>

-----------------------------------------------------------------------------
(* The thread.  Each wait for a frame is a step. *)
Comes(type) == wire # << >> /\ Head(wire).type = type
Eof == wire = << >> /\ link = "ended"
Take == wire' = Tail(wire) /\ UNCHANGED link
Stays == UNCHANGED <<kind, next, first, loop, worker, faults>>

(* Whatever is no delivery is skipped. *)
WaitMethod ==
  /\ worker /\ pc = "method"
  /\ wire # << >>
  /\ IF Comes("deliver")
     THEN pc' = "header" /\ cur' = Head(wire).msg /\ got' = 0
     ELSE UNCHANGED thread
  /\ Take /\ Stays

WaitHeader ==
  /\ worker /\ pc = "header"
  /\ Comes("header")
  /\ pc' = "body"
  /\ Take /\ UNCHANGED <<cur, got>> /\ Stays

WaitBody ==
  /\ worker /\ pc = "body"
  /\ Comes("body") /\ got = 0
  /\ got' = 1
  /\ Take /\ UNCHANGED <<pc, cur>> /\ Stays

(* onMessage of a message of which this many parts have come.  setMessage  *)
(* allocates what came and no end of string, so what is taken for the      *)
(* message goes on with whatever lies behind it in memory: a message       *)
(* without '#' is dropped, unless there is one there.                      *)
OnMessage(parts) ==
  LET Hand(whole) == handed' = Append(handed, [msg |-> cur, whole |-> whole])
  IN CASE parts = 2 /\ kind[cur] \in {"command", "nobody"} -> Hand(TRUE)
       [] parts > 0 /\ kind[cur] = "alien" -> UNCHANGED handed
       [] OTHER -> UNCHANGED handed \/ Hand(FALSE)

(* Mutant: a message is given to onMessage without its last part. *)
MessageReceived_Early ==
  /\ worker /\ pc = "body"
  /\ \/ Comes("body") /\ got = 1 /\ Take /\ OnMessage(got)
     \/ Eof /\ UNCHANGED input /\ OnMessage(got)
  /\ got' = IF Eof THEN got ELSE 2
  /\ pc' = "method"
  /\ UNCHANGED <<kind, next, first, cur, run, worker, faults>>

(* Mutant: the thread leaves its loop after a message. *)
MessageReceived_Once ==
  /\ worker /\ pc = "body"
  /\ \/ Comes("body") /\ got = 1 /\ Take /\ got' = 2
     \/ Eof /\ UNCHANGED <<input, got>>
  /\ OnMessage(got')
  /\ pc' = "ended"
  /\ UNCHANGED <<kind, next, first, cur, run, worker, faults>>

(* The last part has come, or the link ended before it: the loop over the  *)
(* body is left either way, and onMessage is called.                       *)
MessageReceived ==
  /\ worker /\ pc = "body"
  /\ \/ Comes("body") /\ got = 1 /\ Take /\ got' = 2
     \/ Eof /\ UNCHANGED <<input, got>>
  /\ OnMessage(got')
  /\ pc' = "method"
  /\ UNCHANGED <<kind, next, first, cur, run, worker, faults>>

(* The link ends between two messages or before a header, or a frame of    *)
(* another type comes.  On the way out the message is deleted by the       *)
(* auto_ptr of sendConsumeCommand and again by ~AMQPQueue, which ends the  *)
(* process or leaves it running without a receiver.                        *)
ThreadEnds ==
  /\ worker
  /\ \/ pc \in {"method", "header"} /\ Eof
     \/ pc \in {"header", "body"} /\ wire # << >> /\ ~Comes(pc)
  /\ pc' = "ended"
  /\ worker' \in BOOLEAN
  /\ UNCHANGED <<kind, next, first, input, cur, got, loop, faults>>

-----------------------------------------------------------------------------
(* findMdvrConnectInLoop: split throws when there is no identity, and no   *)
(* one catches it before main.                                             *)
RunCommand ==
  /\ worker /\ run < Len(handed)
  /\ run' = run + 1
  /\ LET c == handed[run + 1]
     IN IF c.whole THEN worker' = (kind[c.msg] = "command") ELSE worker' \in BOOLEAN
  /\ UNCHANGED <<kind, next, first, input, thread, handed, faults>>

(* The next worker connects and consumes from the same queue. *)
Restart ==
  /\ ~worker
  /\ worker' = TRUE
  /\ first' = next
  /\ wire' = << >> /\ link' = "up"
  /\ pc' = "method" /\ cur' = 0 /\ got' = 0
  /\ handed' = << >> /\ run' = 0
  /\ UNCHANGED <<kind, next, faults>>

ThreadStep == WaitMethod \/ WaitHeader \/ WaitBody \/ MessageReceived \/ ThreadEnds

Next == Deliver \/ OtherMethod \/ LinkEnds \/ ThreadStep \/ RunCommand \/ Restart

Spec == Init /\ [][Next]_vars

(* The thread and the loop are scheduled, the broker sends, the monitor    *)
(* forks.                                                                  *)
FairSpec ==
  Spec /\ WF_vars(ThreadStep) /\ WF_vars(RunCommand) /\ WF_vars(Deliver) /\ WF_vars(Restart)

-----------------------------------------------------------------------------
(* Every well-formed message that has come whole was handed to the loop    *)
(* whole, once and in order.  Anything else handed to it was made of a     *)
(* message without '#', or of the one the link cut, and then it is last.   *)
CommandsIntact ==
  /\ \A j, k \in DOMAIN handed : j < k => handed[j].msg < handed[k].msg
  /\ \A k \in DOMAIN handed :
       ~handed[k].whole => kind[handed[k].msg] = "open" \/ (k = Len(handed) /\ link = "ended")
  /\ \A i \in first .. cur :
       kind[i] \in {"command", "nobody"} /\ (i < cur \/ (pc = "method" /\ got = 2))
         => \E k \in DOMAIN handed : handed[k] = [msg |-> i, whole |-> TRUE]

(* A command the broker sent is run by the loop, unless the link or the    *)
(* worker ends first; a broker that keeps the link reaches the loop with   *)
(* every command.                                                          *)
CommandsRun ==
  \A i \in Numbers :
    [](i \in first .. next - 1 /\ kind[i] = "command"
         => <>(~worker \/ link # "up" \/ \E k \in 1 .. run : handed[k].msg = i))
===============================================================================
