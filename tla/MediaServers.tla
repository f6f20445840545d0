----------------------------- MODULE MediaServers -----------------------------
(***************************************************************************)
(* The video server and the GPS file server of one worker.  They serve     *)
(* different connections in one loop and end together: what ends the       *)
(* process while one of them is called takes the other's connections,      *)
(* map and unpublished ends with it.                                       *)
(***************************************************************************)
EXTENDS Naturals

CONSTANTS
  VideoConns,  (* TcpConnection objects of the video server                *)
  GpsConns,    (* TcpConnection objects of the GPS file server             *)
  Sessions,    (* recorder identity and session number                     *)
  Ids,         (* identities that upload GPS files                         *)
  NULL         (* no connection, or an empty context                       *)

ASSUME MediaAssumption == NULL \notin VideoConns \cup GpsConns \cup Sessions \cup Ids

VARIABLES vstate, context3, g_VedioConnectMap, vedioConn_, online, lost
VARIABLES gstate, context, g_GpsFileConnectMap, ex_, backend

vvars == <<vstate, context3, g_VedioConnectMap, vedioConn_, online, lost>>
gvars == <<gstate, context, g_GpsFileConnectMap, ex_, backend>>
vars == <<vvars, gvars>>

Video == INSTANCE VideoAccess WITH Conns <- VideoConns, state <- vstate
Gps == INSTANCE GpsFile WITH Conns <- GpsConns, state <- gstate

TypeOK == Video!TypeOK /\ Gps!TypeOK

Init == Video!Init /\ Gps!Init

(* Any of the calls that nothing answers but the end of the process. *)
WorkerEnds ==
  /\ \/ \E c \in VideoConns : Video!BadRequest(c)
     \/ \E c \in GpsConns : Gps!SendFails(c) \/ Gps!DataTooEarly(c)
  /\ Video!Exit /\ Gps!Exit

Next ==
  \/ Video!Next /\ UNCHANGED gvars
  \/ Gps!Next /\ UNCHANGED vvars
  \/ WorkerEnds

Spec == Init /\ [][Next]_vars

-----------------------------------------------------------------------------
(* onVedioConnection: a session never outlives the connection it names,    *)
(* unless that connection went on to open another session.                 *)
NoStaleSession == Video!NoStaleSession

(* onVedioMessage and onVedioConnection: a connected back end keeps the    *)
(* session it opened last.                                                 *)
LiveSessionHolds == Video!LiveSessionHolds

(* onGpsFileConnection: an upload that lost its connection was reported    *)
(* finished, as long as the link takes what is published; except that a    *)
(* connection bound to a second identity reports only that one.            *)
FinishReported == Gps!FinishReported

(* cmdHandle.cc:258 takes a non-null vedioConn_ for "the video side is     *)
(* online": a report is lost only when no video connection could take it.  *)
ReportsReach == Video!ReportsReach

(* GpsFileServer.cc:36 logs "GPS File Downing Finished!!": when the back   *)
(* end is told so, no connected recorder still uploads for that identity.  *)
FinishedIsOver == Gps!FinishedIsOver
===============================================================================
