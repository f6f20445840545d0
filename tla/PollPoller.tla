------------------------------ MODULE PollPoller ------------------------------
(***************************************************************************)
(* The poller over poll: pollfds_ is the list given to the kernel, index_  *)
(* of a channel its place on it.  A channel that asks for nothing keeps    *)
(* its place with a negative descriptor, which poll ignores; one that is   *)
(* removed gives its place to the last.                                    *)
(***************************************************************************)
EXTENDS Naturals, Sequences

SequenceOps == INSTANCE SequencesExt

CONSTANTS
  Channels,  (* channels, each with a descriptor of its own                *)
  Events     (* kReadEvent and kWriteEvent                                 *)

VARIABLES
  events_,   (* of each channel: the events it is interested in            *)
  index_,    (* of each channel: its place in pollfds_, 0 for none         *)
  channels_, (* the poller's map, a set of channels                        *)
  pollfds_,  (* the list: the channel, whether its descriptor is negated,  *)
             (* and the events                                             *)
  active     (* activeChannels_ not yet handled                            *)

vars == <<events_, index_, channels_, pollfds_, active>>

PollFds == [channel : Channels, negated : BOOLEAN, events : SUBSET Events]

TypeOK ==
  /\ events_ \in [Channels -> SUBSET Events]
  /\ pollfds_ \in Seq(PollFds)
  /\ index_ \in [Channels -> 0 .. Len(pollfds_)]
  /\ channels_ \subseteq Channels /\ active \subseteq Channels

Init ==
  /\ events_ = [c \in Channels |-> {}]
  /\ index_ = [c \in Channels |-> 0]
  /\ channels_ = {} /\ pollfds_ = <<>> /\ active = {}

-----------------------------------------------------------------------------
(* updateChannel.  Nothing turns a negated descriptor back. *)
UpdateChannel(c, events) ==
  IF index_[c] = 0
  THEN /\ pollfds_' = Append(pollfds_, [channel |-> c, negated |-> FALSE, events |-> events])
       /\ index_' = [index_ EXCEPT ![c] = Len(pollfds_')]
       /\ channels_' = channels_ \cup {c}
  ELSE /\ pollfds_' = [pollfds_ EXCEPT ![index_[c]].events = events,
                                       ![index_[c]].negated = @ \/ events = {}]
       /\ UNCHANGED <<index_, channels_>>

(* No owner of a channel turns off what it never turned on, or turns on a  *)
(* channel again that it had turned off: the timer queue, the acceptor and *)
(* the wakeup channel never disable theirs before the end, a connection    *)
(* disables its channel when it closes, a connector takes a new one.       *)
Update(c) ==
  \E events \in SUBSET Events :
    /\ IF events = {} THEN c \in channels_ ELSE c \in channels_ => events_[c] # {}
    /\ events_' = [events_ EXCEPT ![c] = events]
    /\ UpdateChannel(c, events)
    /\ UNCHANGED active

(* Mutant: the channel whose entry is moved is not told its new place. *)
RemoveChannel_Untold(c) ==
  /\ pollfds_' = SequenceOps!Front([pollfds_ EXCEPT ![index_[c]] = SequenceOps!Last(pollfds_)])
  /\ index_' = [index_ EXCEPT ![c] = 0]
  /\ channels_' = channels_ \ {c}

(* removeChannel: the last entry takes the place, and its channel is told. *)
(* index_ of the channel itself is left as it was, but the channel is not  *)
(* used again: 0 is that of the next channel of its descriptor.            *)
RemoveChannel(c) ==
  /\ pollfds_' = SequenceOps!Front([pollfds_ EXCEPT ![index_[c]] = SequenceOps!Last(pollfds_)])
  /\ index_' = [index_ EXCEPT ![SequenceOps!Last(pollfds_).channel] = index_[c], ![c] = 0]
  /\ channels_' = channels_ \ {c}

Remove(c) ==
  /\ c \in channels_ /\ events_[c] = {} /\ c \notin active
  /\ RemoveChannel(c)
  /\ UNCHANGED <<events_, active>>

(* poll and fillActiveChannels. *)
Poll ==
  /\ active = {}
  /\ active' \in SUBSET {p.channel : p \in {q \in SequenceOps!ToSet(pollfds_) : ~q.negated}}
  /\ active' # {}
  /\ UNCHANGED <<events_, index_, channels_, pollfds_>>

Handled(c) ==
  /\ c \in active
  /\ active' = active \ {c}
  /\ UNCHANGED <<events_, index_, channels_, pollfds_>>

Next == Poll \/ \E c \in Channels : Update(c) \/ Remove(c) \/ Handled(c)

Spec == Init /\ [][Next]_vars

-----------------------------------------------------------------------------
Watched ==
  [c \in Channels |->
     UNION {p.events : p \in {q \in SequenceOps!ToSet(pollfds_) : q.channel = c /\ ~q.negated}}]

Abstract == INSTANCE Poller WITH watched <- Watched

(* What poll is given is what each channel asks for, through every order   *)
(* of enabling, disabling and removing, however entries change places; the *)
(* place a channel remembers is its own, so no step changes the entry of   *)
(* another channel.                                                        *)
ImplementsPoller ==
  /\ Abstract!Spec
  /\ [](Watched = events_)
  /\ [](\A c \in channels_ : index_[c] \in DOMAIN pollfds_ /\ pollfds_[index_[c]].channel = c)
===============================================================================
