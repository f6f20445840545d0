------------------------------- MODULE GpsFile -------------------------------
(***************************************************************************)
(* The GPS file server of the worker: a recorder connects, announces with  *)
(* V4 whose file it uploads, and sends the file's data; V4, the data and,  *)
(* when the connection ends, A4 are published for the identity.  Nothing   *)
(* keeps a connection from announcing a second identity: its context then  *)
(* names the last one it was bound to, and the map both.                   *)
(***************************************************************************)
EXTENDS Naturals

CONSTANTS
  Conns,  (* TcpConnection objects; a slot is reused after its object's end *)
  Ids,    (* device identities                                             *)
  NULL    (* no connection, or an empty context                            *)

VARIABLES
  state,                (* TcpConnection::state_; kConnecting before UP    *)
  context,              (* the identity last bound to the connection       *)
  g_GpsFileConnectMap,  (* identity -> connection, NULL where there is none *)
  ex_,                  (* the publishing link: "up", "silent" or "broken" *)
  backend               (* the last event published of an identity         *)

vars == <<state, context, g_GpsFileConnectMap, ex_, backend>>

TypeOK ==
  /\ state \in [Conns -> {"kConnecting", "kConnected", "kDisconnecting", "kDisconnected"}]
  /\ context \in [Conns -> Ids \cup {NULL}]
  /\ g_GpsFileConnectMap \in [Ids -> Conns \cup {NULL}]
  /\ ex_ \in {"up", "silent", "broken"}
  /\ backend \in [Ids -> {"none", "V4", "data", "A4", "stale"}]

-----------------------------------------------------------------------------
Init ==
  /\ state = [c \in Conns |-> "kConnecting"]
  /\ context = [c \in Conns |-> NULL]
  /\ g_GpsFileConnectMap = [id \in Ids |-> NULL]
  /\ ex_ = "up"
  /\ backend = [id \in Ids |-> "none"]

Reading(c) == state[c] \in {"kConnected", "kDisconnecting"}

(* The worker ends, by exit(0) or by an exception, and is started again.   *)
Exit ==
  /\ state' = [c \in Conns |-> "kConnecting"]
  /\ context' = [c \in Conns |-> NULL]
  /\ g_GpsFileConnectMap' = [id \in Ids |-> NULL]
  /\ ex_' = "up"
  /\ backend' = [id \in Ids |-> IF backend[id] \in {"V4", "data"} THEN "stale" ELSE backend[id]]

(* One publication.  A link the broker has dropped swallows what is written *)
(* until the kernel learns of it.                                           *)
Publish(id, event) ==
  backend' = IF ex_ = "up" THEN [backend EXCEPT ![id] = event] ELSE backend

(* send2MQ returns only when Publish does not throw. *)
Send2MQ(id, event) == ex_ # "broken" /\ Publish(id, event) /\ UNCHANGED ex_

LinkDecays ==
  /\ \/ ex_ = "up" /\ ex_' = "silent"
     \/ ex_ # "broken" /\ ex_' = "broken"
  /\ UNCHANGED <<state, context, g_GpsFileConnectMap, backend>>

ConnectionUp(c) ==
  /\ state[c] = "kConnecting"
  /\ state' = [state EXCEPT ![c] = "kConnected"]
  /\ UNCHANGED <<context, g_GpsFileConnectMap, ex_, backend>>

(* V4 takes the identity, whoever held it, and shuts the holder down,      *)
(* which does nothing to one that is down already.  The holder's own V4    *)
(* again changes neither the map nor the context.                          *)
V4(c, id) ==
  /\ Reading(c)
  /\ Send2MQ(id, "V4")
  /\ g_GpsFileConnectMap' = [g_GpsFileConnectMap EXCEPT ![id] = c]
  /\ LET holder == g_GpsFileConnectMap[id]
     IN /\ context' = IF holder = c THEN context ELSE [context EXCEPT ![c] = id]
        /\ state' = IF holder \notin {NULL, c} /\ state[holder] = "kConnected"
                    THEN [state EXCEPT ![holder] = "kDisconnecting"]
                    ELSE state

(* Data is published while the identity is in the map, whoever holds it,   *)
(* and is discarded otherwise.                                             *)
Data(c) ==
  /\ Reading(c)
  /\ context[c] # NULL
  /\ g_GpsFileConnectMap[context[c]] # NULL
  /\ Send2MQ(context[c], "data")
  /\ UNCHANGED <<state, context, g_GpsFileConnectMap>>

(* V4 or data over a broken link: send2MQ ends the process. *)
SendFails(c) == Reading(c) /\ ex_ = "broken"

(* Data of a connection without V4: any_cast of its empty context throws,  *)
(* and nothing catches it before main.                                     *)
DataTooEarly(c) == Reading(c) /\ context[c] = NULL

(* Mutant: the end of the upload is not published. *)
ConnectionDown_Silent(c) ==
  /\ Reading(c)
  /\ state' = [state EXCEPT ![c] = "kDisconnected"]
  /\ g_GpsFileConnectMap' = [id \in Ids |-> IF id = context[c] THEN NULL ELSE g_GpsFileConnectMap[id]]
  /\ UNCHANGED <<context, ex_, backend>>

(* DOWN erases the identity the connection was bound to last, whoever      *)
(* holds it by now, and publishes A4; other entries of the connection stay *)
(* and keep its object.  Unlike send2MQ, sendGpsFileOverCmd2MQ swallows    *)
(* the exception of a broken link.                                         *)
ConnectionDown(c) ==
  /\ Reading(c)
  /\ state' = [state EXCEPT ![c] = "kDisconnected"]
  /\ LET id == context[c]
     IN IF id # NULL /\ g_GpsFileConnectMap[id] # NULL
        THEN /\ g_GpsFileConnectMap' = [g_GpsFileConnectMap EXCEPT ![id] = NULL]
             /\ Publish(id, "A4")
        ELSE UNCHANGED <<g_GpsFileConnectMap, backend>>
  /\ UNCHANGED <<context, ex_>>

(* The object ends once no entry of the map holds it, and its slot may     *)
(* serve another connection.                                               *)
ConnectionFreed(c) ==
  /\ state[c] = "kDisconnected"
  /\ \A id \in Ids : g_GpsFileConnectMap[id] # c
  /\ state' = [state EXCEPT ![c] = "kConnecting"]
  /\ context' = [context EXCEPT ![c] = NULL]
  /\ UNCHANGED <<g_GpsFileConnectMap, ex_, backend>>

(* What the server does while the worker lives. *)
Next ==
  \/ LinkDecays
  \/ \E c \in Conns :
       \/ ConnectionUp(c) \/ Data(c) \/ ConnectionDown(c) \/ ConnectionFreed(c)
       \/ \E id \in Ids : V4(c, id)

-----------------------------------------------------------------------------
(* While the link works, an upload the back end takes for open has a       *)
(* connection that is still read, or one that was bound to another         *)
(* identity: when that one ends, only the other identity is reported.      *)
FinishReported ==
  \A id \in Ids :
    ex_ = "up" /\ backend[id] \in {"V4", "data"} =>
      LET c == g_GpsFileConnectMap[id]
      IN c # NULL /\ (Reading(c) \/ context[c] # id)

(* "GPS File Downing Finished!!": when the back end is told so, nothing of *)
(* this identity is still being uploaded.                                  *)
FinishedIsOver ==
  \A id \in Ids :
    backend[id] = "A4" => \A c \in Conns : state[c] = "kConnected" => context[c] # id
===============================================================================
