----------------------------- MODULE MdvrRegistry -----------------------------
(***************************************************************************)
(* The signalling side of one mdvrDataAccess worker: the connections its   *)
(* TcpServer accepts from vehicle recorders (MDVRs), the map               *)
(* g_mdvrConnectMap from device identities to connections, the V1 and A1   *)
(* events it publishes, and the commands the MQ receiver thread hands to   *)
(* the event loop.  One action is one callback of the loop thread, which   *)
(* runs every callback to its end before the next one, or one step of      *)
(* another thread or process.                                              *)
(***************************************************************************)
EXTENDS Naturals, Sequences

CONSTANTS
  Conns,        (* TcpConnection objects; a slot is reused after its object's end *)
  Ids,          (* device identities                                              *)
  NULL,         (* no connection, or a context that is still empty                *)
  MaxPending    (* bound on commands waiting in the loop's functor queue          *)

ASSUME RegistryAssumption ==
  /\ NULL \notin Conns
  /\ NULL \notin Ids
  /\ MaxPending \in Nat

VARIABLES
  state,            (* TcpConnection::state_ of every object                      *)
  context,          (* TcpConnection::context_: the identity last bound to it     *)
  g_mdvrConnectMap, (* identity -> connection, NULL where the map has no key      *)
  pending,          (* EventLoop::pendingFunctors_: identities commands are for   *)
  written,          (* the connection the last command went to, NULL if dropped   *)
  ex_,              (* the publishing link: "up", "silent" or "broken"            *)
  backend,          (* the last event the back end has of an identity             *)
  worker            (* the worker process                                         *)

vars == <<state, context, g_mdvrConnectMap, pending, written, ex_, backend, worker>>

TypeOK ==
  /\ state \in [Conns -> {"kConnecting", "kConnected", "kDisconnecting", "kDisconnected"}]
  /\ context \in [Conns -> Ids \cup {NULL}]
  /\ g_mdvrConnectMap \in [Ids -> Conns \cup {NULL}]
  /\ pending \in Seq(Ids)
  /\ written \in Conns \cup {NULL}
  /\ ex_ \in {"up", "silent", "broken"}
  /\ backend \in [Ids -> {"none", "V1", "A1", "stale"}]
  /\ worker \in {"running", "exited"}

-----------------------------------------------------------------------------
Registered(id) == g_mdvrConnectMap[id] # NULL

(* Messages are still read while kDisconnecting; handleClose stops reading. *)
Reading(c) == worker = "running" /\ state[c] \in {"kConnected", "kDisconnecting"}

(* One publication.  A link the broker has dropped swallows what is written *)
(* until the kernel learns of it; from then on Publish throws.              *)
Publish(id, event) ==
  backend' = IF ex_ = "up" THEN [backend EXCEPT ![id] = event] ELSE backend

(* Mutant: the replaced connection is not shut down. *)
AfterShutdown_Forgotten(c) == state[c]

(* shutdown() acts on a connection that is kConnected and on no other. *)
AfterShutdown(c) == IF state[c] = "kConnected" THEN "kDisconnecting" ELSE state[c]

(* exit(0): the kernel closes every connection and the map is gone; the    *)
(* back end keeps what it was told last.                                   *)
Exit ==
  /\ worker' = "exited"
  /\ state' = [c \in Conns |-> "kConnecting"]
  /\ context' = [c \in Conns |-> NULL]
  /\ g_mdvrConnectMap' = [id \in Ids |-> NULL]
  /\ pending' = <<>>
  /\ written' = NULL
  /\ backend' = [id \in Ids |-> IF backend[id] = "V1" THEN "stale" ELSE backend[id]]
  /\ UNCHANGED ex_

(* send2MQ and send3MQ: when Publish throws the process exits. *)
Send2MQ(id, event) == ex_ # "broken" /\ Publish(id, event)
Send2MQFails == ex_ = "broken" /\ Exit

-----------------------------------------------------------------------------
Init ==
  /\ state = [c \in Conns |-> "kConnecting"]
  /\ context = [c \in Conns |-> NULL]
  /\ g_mdvrConnectMap = [id \in Ids |-> NULL]
  /\ pending = <<>>
  /\ written = NULL
  /\ ex_ = "up"
  /\ backend = [id \in Ids |-> "none"]
  /\ worker = "running"

(* A connection is accepted: newConnection and connectEstablished run in   *)
(* one callback, for the servers have a single loop.                       *)
ConnectionUp(c) ==
  /\ worker = "running"
  /\ state[c] = "kConnecting"
  /\ state' = [state EXCEPT ![c] = "kConnected"]
  /\ UNCHANGED <<context, g_mdvrConnectMap, pending, written, ex_, backend, worker>>

(* V1 of an identity that is not in the map. *)
RegisterNew(c, id) ==
  /\ Reading(c)
  /\ ~Registered(id)
  /\ \/ Send2MQFails
     \/ /\ g_mdvrConnectMap' = [g_mdvrConnectMap EXCEPT ![id] = c]
        /\ context' = [context EXCEPT ![c] = id]
        /\ Send2MQ(id, "V1")
        /\ UNCHANGED <<state, pending, written, ex_, worker>>

(* Mutant: the replaced registration is reported offline. *)
RegisterReplace_SaysA1(c, id) ==
  /\ Reading(c)
  /\ Registered(id)
  /\ g_mdvrConnectMap[id] # c
  /\ state' = [state EXCEPT ![g_mdvrConnectMap[id]] = AfterShutdown(g_mdvrConnectMap[id])]
  /\ g_mdvrConnectMap' = [g_mdvrConnectMap EXCEPT ![id] = c]
  /\ context' = [context EXCEPT ![c] = id]
  /\ Publish(id, "A1")
  /\ UNCHANGED <<pending, written, ex_, worker>>

(* V1 of an identity another connection holds: that connection is shut     *)
(* down and replaced, and nothing is published.                            *)
RegisterReplace(c, id) ==
  /\ Reading(c)
  /\ Registered(id)
  /\ g_mdvrConnectMap[id] # c
  /\ state' = [state EXCEPT ![g_mdvrConnectMap[id]] = AfterShutdown(g_mdvrConnectMap[id])]
  /\ g_mdvrConnectMap' = [g_mdvrConnectMap EXCEPT ![id] = c]
  /\ context' = [context EXCEPT ![c] = id]
  /\ UNCHANGED <<pending, written, ex_, backend, worker>>

(* V1 repeated on the connection that holds the identity. *)
RegisterRepeat(c, id) ==
  /\ Reading(c)
  /\ g_mdvrConnectMap[id] = c
  /\ \/ Send2MQFails
     \/ /\ Send2MQ(id, "V1")
        /\ UNCHANGED <<state, context, g_mdvrConnectMap, pending, written, ex_, worker>>

(* Any other published report (V30, V39, alarms, V0 answers): it changes   *)
(* nothing here unless the link is broken.                                 *)
Report(c) == Reading(c) /\ Send2MQFails

(* Mutants: the entry of whichever connection holds the identity is taken; *)
(* a connection that was shut down leaves its entry behind.                *)
StillHolds_AnyHolder(c) == context[c] # NULL /\ g_mdvrConnectMap[context[c]] # NULL
StillHolds_OnlyConnected(c) ==
  context[c] # NULL /\ g_mdvrConnectMap[context[c]] = c /\ state[c] = "kConnected"

(* The map entry a closing connection takes with it. *)
StillHolds(c) == context[c] # NULL /\ g_mdvrConnectMap[context[c]] = c

(* handleClose, then onMdvrConnection on the way DOWN. *)
ConnectionDown(c) ==
  /\ Reading(c)
  /\ state' = [state EXCEPT ![c] = "kDisconnected"]
  /\ \/ /\ StillHolds(c)
        /\ g_mdvrConnectMap' = [g_mdvrConnectMap EXCEPT ![context[c]] = NULL]
        /\ Publish(context[c], "A1")
     \/ /\ ~StillHolds(c)
        /\ UNCHANGED <<g_mdvrConnectMap, backend>>
  /\ UNCHANGED <<context, pending, written, ex_, worker>>

(* The last reference to a closed connection goes: connectDestroyed has    *)
(* run and no map entry is left, so the object ends and closes its fd.     *)
ConnectionDestroyed(c) ==
  /\ state[c] = "kDisconnected"
  /\ \A id \in Ids : g_mdvrConnectMap[id] # c
  /\ state' = [state EXCEPT ![c] = "kConnecting"]
  /\ context' = [context EXCEPT ![c] = NULL]
  /\ written' = IF written = c THEN NULL ELSE written
  /\ UNCHANGED <<g_mdvrConnectMap, pending, ex_, backend, worker>>

(* onMessage, in the MQ receiver thread. *)
CommandArrives(id) ==
  /\ worker = "running"
  /\ Len(pending) < MaxPending
  /\ pending' = Append(pending, id)
  /\ UNCHANGED <<state, context, g_mdvrConnectMap, written, ex_, backend, worker>>

(* send() writes on a connection that is kConnected and on no other. *)
Target(id) ==
  IF Registered(id) /\ state[g_mdvrConnectMap[id]] = "kConnected"
  THEN g_mdvrConnectMap[id]
  ELSE NULL

(* findMdvrConnectInLoop, run by the loop as a pending functor. *)
CommandRuns ==
  /\ pending # <<>>
  /\ pending' = Tail(pending)
  /\ written' = Target(Head(pending))
  /\ UNCHANGED <<state, context, g_mdvrConnectMap, ex_, backend, worker>>

(* The broker goes away; the kernel may notice at once or later. *)
LinkDecays ==
  /\ worker = "running"
  /\ \/ ex_ = "up" /\ ex_' = "silent"
     \/ ex_ # "broken" /\ ex_' = "broken"
  /\ UNCHANGED <<state, context, g_mdvrConnectMap, pending, written, backend, worker>>

(* An exception no callback catches, or a signal, ends the worker. *)
WorkerDies == worker = "running" /\ Exit

(* The monitor forks a new worker, whose constructor opens a new link. *)
WorkerStarts ==
  /\ worker = "exited"
  /\ worker' = "running"
  /\ ex_' = "up"
  /\ UNCHANGED <<state, context, g_mdvrConnectMap, pending, written, backend>>

V1(c, id) == RegisterNew(c, id) \/ RegisterReplace(c, id) \/ RegisterRepeat(c, id)

Next ==
  \/ \E c \in Conns, id \in Ids : V1(c, id)
  \/ \E c \in Conns : ConnectionUp(c) \/ Report(c) \/ ConnectionDown(c) \/ ConnectionDestroyed(c)
  \/ \E id \in Ids : CommandArrives(id)
  \/ CommandRuns \/ LinkDecays \/ WorkerDies \/ WorkerStarts

Spec == Init /\ [][Next]_vars

-----------------------------------------------------------------------------
(* A connected device is reachable: a kConnected connection is the one the *)
(* map holds for the identity it carries.  So no two kConnected            *)
(* connections carry the same identity, whatever the order of V1s,         *)
(* replacements and disconnections was.                                    *)
LiveConnectionHolds ==
  \A c \in Conns :
    state[c] = "kConnected" /\ context[c] # NULL => g_mdvrConnectMap[context[c]] = c

(* A closed connection stays in the map only under an identity it          *)
(* announced before another one: as long as an entry and its connection's  *)
(* context agree, the connection is still being read.                      *)
NoStaleEntry ==
  \A id \in Ids :
    Registered(id) /\ context[g_mdvrConnectMap[id]] = id
      => state[g_mdvrConnectMap[id]] \in {"kConnected", "kDisconnecting"}

(* The back end's picture: while the link is up it believes exactly the    *)
(* devices in the map to be online, through silent replacements, late      *)
(* disconnections of replaced connections and worker restarts.             *)
PresenceAccurate ==
  ex_ = "up" => \A id \in Ids : Registered(id) <=> backend[id] = "V1"

(* What the three invariants above need to be inductive: an object no      *)
(* device has spoken on is in no map entry, and an exited worker has       *)
(* neither connections nor devices it still vouches for.                   *)
FreshUnmapped ==
  \A c \in Conns :
    /\ state[c] = "kConnecting" => context[c] = NULL
    /\ context[c] = NULL => \A id \in Ids : g_mdvrConnectMap[id] # c

ExitedIsEmpty ==
  worker = "exited" =>
    /\ \A c \in Conns : state[c] = "kConnecting"
    /\ \A id \in Ids : backend[id] # "V1"

RegistryInv ==
  LiveConnectionHolds /\ NoStaleEntry /\ PresenceAccurate /\ FreshUnmapped /\ ExitedIsEmpty

(* A command is never lost past a live registration: when the loop runs    *)
(* it, a kConnected connection that carries its identity gets it, and no   *)
(* other connection does.                                                  *)
CommandDelivery ==
  [][ \A c \in Conns :
        pending # <<>> /\ pending' = Tail(pending) /\ worker' = "running"
          /\ state[c] = "kConnected" /\ context[c] = Head(pending)
          => written' = c ]_<<pending, written>>

(* The registry implements what the back end was promised. *)
Presence ==
  INSTANCE DevicePresence WITH
    online <- {id \in Ids : Registered(id)},
    link <- ex_

ImplementsPresence == Presence!Spec
===============================================================================
