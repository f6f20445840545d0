----------------------------- MODULE VideoAccess -----------------------------
(***************************************************************************)
(* The video server of the worker.  Video back ends connect and send       *)
(* requests (C65, ...) for a recorder under a session number; a request    *)
(* opens a session, an entry of g_VedioConnectMap.  vedioConn_, the        *)
(* connection that came up last, gets what recorders report (V21 to V23    *)
(* and the answers to C39, C110 and C114).                                 *)
(***************************************************************************)
EXTENDS Naturals

CONSTANTS
  Conns,     (* TcpConnection objects of the video server                  *)
  Sessions,  (* recorder identity and session number, the map's keys       *)
  NULL       (* no connection, or an empty context                         *)

VARIABLES
  state,              (* TcpConnection::state_; kConnecting before UP      *)
  context3,           (* the session last bound to the connection          *)
  g_VedioConnectMap,  (* session -> connection, NULL where there is none   *)
  vedioConn_,
  online,             (* the recorder is in g_mdvrConnectMap               *)
  lost                (* a report went to a connection that is gone        *)

vars == <<state, context3, g_VedioConnectMap, vedioConn_, online, lost>>

TypeOK ==
  /\ state \in [Conns -> {"kConnecting", "kConnected", "kDisconnecting", "kDisconnected"}]
  /\ context3 \in [Conns -> Sessions \cup {NULL}]
  /\ g_VedioConnectMap \in [Sessions -> Conns \cup {NULL}]
  /\ vedioConn_ \in Conns \cup {NULL}
  /\ online \in BOOLEAN
  /\ lost \in BOOLEAN

-----------------------------------------------------------------------------
Init ==
  /\ state = [c \in Conns |-> "kConnecting"]
  /\ context3 = [c \in Conns |-> NULL]
  /\ g_VedioConnectMap = [s \in Sessions |-> NULL]
  /\ vedioConn_ = NULL
  /\ online = FALSE
  /\ lost = FALSE

Reading(c) == state[c] \in {"kConnected", "kDisconnecting"}

(* The signalling server registers the recorder or forgets it. *)
MdvrTurns ==
  /\ online' = ~online
  /\ UNCHANGED <<state, context3, g_VedioConnectMap, vedioConn_, lost>>

ConnectionUp(c) ==
  /\ state[c] = "kConnecting"
  /\ state' = [state EXCEPT ![c] = "kConnected"]
  /\ vedioConn_' = c
  /\ UNCHANGED <<context3, g_VedioConnectMap, online, lost>>

(* A request that opens a session is sent to the recorder. *)
RequestNew(c, s) ==
  /\ Reading(c)
  /\ online
  /\ g_VedioConnectMap[s] = NULL
  /\ g_VedioConnectMap' = [g_VedioConnectMap EXCEPT ![s] = c]
  /\ context3' = [context3 EXCEPT ![c] = s]
  /\ UNCHANGED <<state, vedioConn_, online, lost>>

(* A request for a session another connection holds takes the session over *)
(* and shuts that connection down; it is not sent to the recorder.         *)
RequestReplace(c, s) ==
  /\ Reading(c)
  /\ online
  /\ g_VedioConnectMap[s] \notin {NULL, c}
  /\ g_VedioConnectMap' = [g_VedioConnectMap EXCEPT ![s] = c]
  /\ context3' = [context3 EXCEPT ![c] = s]
  /\ LET holder == g_VedioConnectMap[s]
     IN state' = IF state[holder] = "kConnected"
                 THEN [state EXCEPT ![holder] = "kDisconnecting"]
                 ELSE state
  /\ UNCHANGED <<vedioConn_, online, lost>>

(* A recorder's report goes to vedioConn_, which sends only if connected. *)
Report ==
  /\ online
  /\ vedioConn_ # NULL
  /\ lost' = (lost \/ state[vedioConn_] # "kConnected")
  /\ UNCHANGED <<state, context3, g_VedioConnectMap, vedioConn_, online>>

(* Mutant: whoever goes down takes the session with it. *)
ConnectionDown_AnyHolder(c) ==
  /\ Reading(c)
  /\ state' = [state EXCEPT ![c] = "kDisconnected"]
  /\ g_VedioConnectMap' = [s \in Sessions |-> IF s = context3[c] THEN NULL ELSE g_VedioConnectMap[s]]
  /\ UNCHANGED <<context3, vedioConn_, online, lost>>

(* Mutant: only a connection that was not replaced gives its session up. *)
ConnectionDown_OnlyConnected(c) ==
  /\ Reading(c)
  /\ state' = [state EXCEPT ![c] = "kDisconnected"]
  /\ g_VedioConnectMap' =
       [s \in Sessions |-> IF s = context3[c] /\ g_VedioConnectMap[s] = c /\ state[c] = "kConnected"
                           THEN NULL ELSE g_VedioConnectMap[s]]
  /\ UNCHANGED <<context3, vedioConn_, online, lost>>

(* DOWN gives up the session the connection was bound to last, if it still *)
(* holds it.  vedioConn_ is left as it is.                                 *)
ConnectionDown(c) ==
  /\ Reading(c)
  /\ state' = [state EXCEPT ![c] = "kDisconnected"]
  /\ g_VedioConnectMap' =
       [s \in Sessions |-> IF s = context3[c] /\ g_VedioConnectMap[s] = c
                           THEN NULL ELSE g_VedioConnectMap[s]]
  /\ UNCHANGED <<context3, vedioConn_, online, lost>>

(* The object ends once neither the map nor vedioConn_ holds it, and its   *)
(* slot may serve another connection.                                      *)
ConnectionFreed(c) ==
  /\ state[c] = "kDisconnected"
  /\ vedioConn_ # c
  /\ \A s \in Sessions : g_VedioConnectMap[s] # c
  /\ state' = [state EXCEPT ![c] = "kConnecting"]
  /\ context3' = [context3 EXCEPT ![c] = NULL]
  /\ UNCHANGED <<g_VedioConnectMap, vedioConn_, online, lost>>

(* A request without its fields: split throws, and nothing catches it     *)
(* before main.                                                            *)
BadRequest(c) == Reading(c)

(* The worker ends and is started again.                                   *)
Exit ==
  /\ state' = [c \in Conns |-> "kConnecting"]
  /\ context3' = [c \in Conns |-> NULL]
  /\ g_VedioConnectMap' = [s \in Sessions |-> NULL]
  /\ vedioConn_' = NULL
  /\ online' = FALSE
  /\ lost' = FALSE

(* What the server does while the worker lives. *)
Next ==
  \/ MdvrTurns \/ Report
  \/ \E c \in Conns :
       \/ ConnectionUp(c) \/ ConnectionDown(c) \/ ConnectionFreed(c)
       \/ \E s \in Sessions : RequestNew(c, s) \/ RequestReplace(c, s)

-----------------------------------------------------------------------------
(* A session's connection lives, unless it was bound to another session    *)
(* after this one: no other entry outlasts the connection it names.        *)
NoStaleSession ==
  \A s \in Sessions :
    g_VedioConnectMap[s] # NULL /\ context3[g_VedioConnectMap[s]] = s
      => Reading(g_VedioConnectMap[s])

(* The late DOWN of a replaced connection does not take the session from   *)
(* the one that replaced it, and no two connected back ends share one.     *)
LiveSessionHolds ==
  \A c \in Conns :
    state[c] = "kConnected" /\ context3[c] # NULL => g_VedioConnectMap[context3[c]] = c

(* "if the video side is online", says the comment where a report is sent: *)
(* a report is lost only when no video connection is there to take it.     *)
ReportsReach == [][lost' /\ ~lost => \A c \in Conns : state[c] # "kConnected"]_vars
===============================================================================
