------------------------------ MODULE MCLibrary ------------------------------
(* Instances of LogFile, Buffer, EPollPoller and PollPoller for TLC.  The   *)
(* four share no state, so one run checks them side by side: in every      *)
(* behaviour one part takes all the steps, and the others stay as they     *)
(* were started.                                                           *)
EXTENDS LogFile

CONSTANTS Bytes, Fill, kCheapPrepend, kInitialSize, MaxContent, Channels, Events

ASSUME BufferAssumption ==
  /\ kCheapPrepend \in Nat /\ kInitialSize \in Nat /\ MaxContent \in Nat
  /\ Fill \in Bytes

VARIABLES
  part,
  buffer_, readerIndex_, writerIndex_, content, peak,
  events_, index_, channels_, interest, failed, active,
  pollEvents, pollIndex, pollChannels, pollfds_, pollActive

Input == INSTANCE Buffer

EPoll == INSTANCE EPollPoller

Poll ==
  INSTANCE PollPoller WITH
    events_ <- pollEvents, index_ <- pollIndex, channels_ <- pollChannels, active <- pollActive

buffer == <<buffer_, readerIndex_, writerIndex_, content, peak>>
epoll == <<events_, index_, channels_, interest, failed, active>>
poll == <<pollEvents, pollIndex, pollChannels, pollfds_, pollActive>>
all == <<part, vars, buffer, epoll, poll>>

MCInit ==
  /\ part \in {"log", "buffer", "epoll", "poll"}
  /\ part = "log" \/ clock = 1
  /\ Init /\ Input!Init /\ EPoll!Init /\ Poll!Init

InLog(A) == part = "log" /\ A /\ UNCHANGED <<part, buffer, epoll, poll>>
InBuffer(A) == part = "buffer" /\ A /\ UNCHANGED <<part, vars, epoll, poll>>
InEPoll(A) == part = "epoll" /\ A /\ UNCHANGED <<part, vars, buffer, poll>>
InPoll(A) == part = "poll" /\ A /\ UNCHANGED <<part, vars, buffer, epoll>>

MCNext ==
  \/ InLog(AppendUnlocked) \/ InLog(ClockTicks) \/ InLog(ClockSetBack)
  \/ \E data \in Input!Data :
       \/ InBuffer(Input!append(data)) \/ InBuffer(Input!readFd(data))
       \/ InBuffer(Input!prepend(data))
  \/ \E len \in 0 .. MaxContent :
       \/ InBuffer(Input!retrieve(len)) \/ InBuffer(Input!unwrite(len))
       \/ InBuffer(Input!shrink(len))
  \/ InEPoll(EPoll!Poll)
  \/ \E c \in Channels :
       \/ InEPoll(EPoll!Update(c)) \/ InEPoll(EPoll!Remove(c)) \/ InEPoll(EPoll!Handled(c))
  \/ InPoll(Poll!Poll)
  \/ \E c \in Channels :
       \/ InPoll(Poll!Update(c)) \/ InPoll(Poll!Remove(c)) \/ InPoll(Poll!Handled(c))

MCSpec == MCInit /\ [][MCNext]_all

-----------------------------------------------------------------------------
(* The content is exact, and the vector no larger than need be (Buffer).   *)
ContentExact == Input!ContentExact

(* epoll and poll are asked for what each channel asks for, and their      *)
(* lists are never used wrongly (EPollPoller, PollPoller).                 *)
ImplementPoller == EPoll!ImplementsPoller /\ Poll!ImplementsPoller
===============================================================================
