---------------------------- MODULE DevicePresence ----------------------------
(***************************************************************************)
(* What the signalling side promises the monitoring back end: a device     *)
(* comes online with a V1 event and goes offline with an A1 event, an A1   *)
(* is only ever about a device whose V1 was the last thing published, and  *)
(* while the broker takes what is published the back end's picture is the  *)
(* set of devices that are online.  Connections, contexts and the map do   *)
(* not appear here; MdvrRegistry is shown to implement this module.        *)
(***************************************************************************)
CONSTANT Ids

VARIABLES
  online,     (* devices a connection is registered for                    *)
  link,       (* "up", "silent" (swallows what is published) or "broken"   *)
  backend     (* the last event the back end has of a device               *)

vars == <<online, link, backend>>

Init ==
  /\ online = {}
  /\ link = "up"
  /\ backend = [id \in Ids |-> "none"]

Tell(id, event) ==
  backend' = IF link = "up" THEN [backend EXCEPT ![id] = event] ELSE backend

(* A device comes online, or repeats that it is. *)
Announce(id) ==
  /\ link # "broken"
  /\ online' = online \cup {id}
  /\ Tell(id, "V1")
  /\ UNCHANGED link

(* The device's registered connection is gone.  A broken link loses A1. *)
Withdraw(id) ==
  /\ id \in online
  /\ online' = online \ {id}
  /\ Tell(id, "A1")
  /\ UNCHANGED link

LinkDecays ==
  /\ \/ link = "up" /\ link' = "silent"
     \/ link # "broken" /\ link' = "broken"
  /\ UNCHANGED <<online, backend>>

(* The worker ends: nobody withdraws the devices it had announced. *)
Forget ==
  /\ online' = {}
  /\ backend' = [id \in Ids |-> IF backend[id] = "V1" THEN "stale" ELSE backend[id]]
  /\ UNCHANGED link

Reconnect ==
  /\ online = {}
  /\ \A id \in Ids : backend[id] # "V1"
  /\ link' = "up"
  /\ UNCHANGED <<online, backend>>

Next ==
  \/ \E id \in Ids : Announce(id) \/ Withdraw(id)
  \/ LinkDecays \/ Forget \/ Reconnect

Spec == Init /\ [][Next]_vars

(* The back end's picture is exact while the link is up. *)
BackendExact ==
  link = "up" => \A id \in Ids : id \in online <=> backend[id] = "V1"
===============================================================================
