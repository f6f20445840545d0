-------------------------------- MODULE Poller --------------------------------
(***************************************************************************)
(* What a Poller promises its loop: it waits for exactly the events that   *)
(* each channel asked for, and reports a channel only when one of those    *)
(* has come; a channel that asks for nothing is not waited for at all.     *)
(***************************************************************************)
CONSTANTS Channels, Events

VARIABLES
  watched,   (* of each channel: the events the poller waits for           *)
  active     (* channels reported by the last poll and not yet handled     *)

vars == <<watched, active>>

Init == watched = [c \in Channels |-> {}] /\ active = {}

(* updateChannel, with the events the channel has now. *)
Update(c, events) ==
  /\ watched' = [watched EXCEPT ![c] = events]
  /\ UNCHANGED active

Poll ==
  /\ active = {}
  /\ active' \in SUBSET {c \in Channels : watched[c] # {}}
  /\ UNCHANGED watched

Handled(c) ==
  /\ c \in active
  /\ active' = active \ {c}
  /\ UNCHANGED watched

Next ==
  \/ Poll
  \/ \E c \in Channels : Handled(c) \/ \E events \in SUBSET Events : Update(c, events)

Spec == Init /\ [][Next]_vars
===============================================================================
