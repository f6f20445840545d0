----------------------------- MODULE EPollPoller -----------------------------
(***************************************************************************)
(* The poller over epoll, with the part of Channel that talks to it.  The  *)
(* kernel keeps the interest list; index_ of a channel says whether its    *)
(* descriptor is on it.  A channel stands for its file descriptor.         *)
(***************************************************************************)
EXTENDS Naturals

CONSTANTS
  Channels,  (* channels, each with a descriptor of its own                *)
  Events     (* kReadEvent and kWriteEvent                                 *)

VARIABLES
  events_,    (* of each channel: the events it is interested in           *)
  index_,     (* "kNew", "kAdded" or "kDeleted"                            *)
  channels_,  (* the poller's map, a set of channels                       *)
  interest,   (* the interest list: channels and their events              *)
  failed,     (* epoll_ctl failed                                          *)
  active      (* activeChannels_ not yet handled                           *)

vars == <<events_, index_, channels_, interest, failed, active>>

TypeOK ==
  /\ events_ \in [Channels -> SUBSET Events]
  /\ index_ \in [Channels -> {"kNew", "kAdded", "kDeleted"}]
  /\ channels_ \subseteq Channels /\ active \subseteq Channels
  /\ interest \in SUBSET [channel : Channels, events : SUBSET Events]
  /\ failed \in BOOLEAN

Init ==
  /\ events_ = [c \in Channels |-> {}]
  /\ index_ = [c \in Channels |-> "kNew"]
  /\ channels_ = {} /\ interest = {} /\ active = {}
  /\ failed = FALSE

-----------------------------------------------------------------------------
Listed(c) == {i \in interest : i.channel = c}
Item(c, events) == [channel |-> c, events |-> events]

(* epoll_ctl: adding what is listed, or changing or deleting what is not,  *)
(* is an error.                                                            *)
EpollAdd(c, events) ==
  /\ interest' = IF Listed(c) = {} THEN interest \cup {Item(c, events)} ELSE interest
  /\ failed' = (failed \/ Listed(c) # {})

EpollMod(c, events) ==
  /\ interest' = IF Listed(c) # {} THEN (interest \ Listed(c)) \cup {Item(c, events)} ELSE interest
  /\ failed' = (failed \/ Listed(c) = {})

EpollDel(c) ==
  /\ interest' = interest \ Listed(c)
  /\ failed' = (failed \/ Listed(c) = {})

UpdateChannel(c, events) ==
  IF index_[c] \in {"kNew", "kDeleted"}
  THEN /\ EpollAdd(c, events)
       /\ index_' = [index_ EXCEPT ![c] = "kAdded"]
       /\ channels_' = channels_ \cup {c}
  ELSE /\ IF events = {}
          THEN EpollDel(c) /\ index_' = [index_ EXCEPT ![c] = "kDeleted"]
          ELSE EpollMod(c, events) /\ UNCHANGED index_
       /\ UNCHANGED channels_

(* enableReading, disableWriting, disableAll and their kin.  No owner of a *)
(* channel turns off what is off: it would be listed, for its errors.      *)
Update(c) ==
  \E events \in SUBSET Events :
    /\ events # {} \/ events_[c] # {}
    /\ events_' = [events_ EXCEPT ![c] = events]
    /\ UpdateChannel(c, events)
    /\ UNCHANGED active

(* Channel::remove: asserts that the channel asks for nothing, and the     *)
(* loop that it is not still to be handled.                                *)
Remove(c) ==
  /\ c \in channels_ /\ events_[c] = {} /\ c \notin active
  /\ channels_' = channels_ \ {c}
  /\ IF index_[c] = "kAdded" THEN EpollDel(c) ELSE UNCHANGED <<interest, failed>>
  /\ index_' = [index_ EXCEPT ![c] = "kNew"]
  /\ UNCHANGED <<events_, active>>

(* epoll_wait and fillActiveChannels.  Errors are reported for whatever is *)
(* on the list.                                                            *)
Poll ==
  /\ active = {}
  /\ active' \in SUBSET {i.channel : i \in interest}
  /\ active' # {}
  /\ UNCHANGED <<events_, index_, channels_, interest, failed>>

(* The loop has handled a channel; what it did to channels are steps of    *)
(* their own.                                                              *)
Handled(c) ==
  /\ c \in active
  /\ active' = active \ {c}
  /\ UNCHANGED <<events_, index_, channels_, interest, failed>>

Next == Poll \/ \E c \in Channels : Update(c) \/ Remove(c) \/ Handled(c)

Spec == Init /\ [][Next]_vars

-----------------------------------------------------------------------------
Watched ==
  [c \in Channels |-> UNION {i.events : i \in Listed(c)}]

Abstract == INSTANCE Poller WITH watched <- Watched

(* What the kernel was told last about each channel is what the channel    *)
(* asks for, through every order of enabling, disabling and removing; a    *)
(* disabled channel is off the list, so that not even an error of its      *)
(* descriptor is reported; and epoll_ctl never fails.                      *)
ImplementsPoller ==
  /\ Abstract!Spec
  /\ [](~failed /\ Watched = events_)
===============================================================================
