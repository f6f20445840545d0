------------------------- MODULE MediaServers_proofs -------------------------
(***************************************************************************)
(* Proofs about the video server and the GPS file server for any numbers   *)
(* of connections, sessions and identities.                                *)
(***************************************************************************)
EXTENDS MediaServers, TLAPS

(* A connection object that has not come up names no session yet. *)
Fresh == \A c \in VideoConns : vstate[c] = "kConnecting" => context3[c] = NULL

VideoInv ==
  /\ Video!TypeOK
  /\ Fresh
  /\ NoStaleSession
  /\ LiveSessionHolds

-----------------------------------------------------------------------------
LEMMA VideoInit == Video!Init => VideoInv
<1> SUFFICES ASSUME Video!Init PROVE VideoInv
  OBVIOUS
<1>1. Video!TypeOK
  <2>1. online \in BOOLEAN /\ lost \in BOOLEAN
    BY Zenon DEF Video!Init
  <2> QED BY <2>1 DEF Video!Init, Video!TypeOK
<1>2. Fresh
  BY DEF Video!Init, Fresh
<1>3. NoStaleSession
  BY DEF Video!Init, NoStaleSession, Video!NoStaleSession
<1>4. LiveSessionHolds
  BY DEF Video!Init, LiveSessionHolds, Video!LiveSessionHolds
<1> QED BY <1>1, <1>2, <1>3, <1>4 DEF VideoInv

(* The end of the worker leaves what a new one starts with. *)
LEMMA VideoExit == Video!Exit => VideoInv'
<1> SUFFICES ASSUME Video!Exit PROVE VideoInv'
  OBVIOUS
<1>1. Video!TypeOK'
  <2>1. online' \in BOOLEAN /\ lost' \in BOOLEAN
    BY Zenon DEF Video!Exit
  <2> QED BY <2>1 DEF Video!Exit, Video!TypeOK
<1>2. Fresh'
  BY DEF Video!Exit, Fresh
<1>3. NoStaleSession'
  BY DEF Video!Exit, NoStaleSession, Video!NoStaleSession
<1>4. LiveSessionHolds'
  BY DEF Video!Exit, LiveSessionHolds, Video!LiveSessionHolds
<1> QED BY <1>1, <1>2, <1>3, <1>4 DEF VideoInv

LEMMA VideoStutters == VideoInv /\ UNCHANGED vvars => VideoInv'
<1> SUFFICES ASSUME VideoInv, UNCHANGED vvars PROVE VideoInv'
  OBVIOUS
<1> USE DEF vvars, VideoInv
<1>1. Video!TypeOK'
  BY DEF Video!TypeOK
<1>2. Fresh'
  BY DEF Fresh
<1>3. NoStaleSession'
  BY DEF NoStaleSession, Video!NoStaleSession, Video!Reading
<1>4. LiveSessionHolds'
  BY DEF LiveSessionHolds, Video!LiveSessionHolds
<1> QED BY <1>1, <1>2, <1>3, <1>4

(* The steps of a living worker, one by one; what they do to the types of  *)
(* the Boolean variables is left to Zenon.                                 *)
LEMMA VideoStep == VideoInv /\ Video!Next => VideoInv'
<1> SUFFICES ASSUME VideoInv, Video!Next PROVE VideoInv'
  OBVIOUS
<1> USE MediaAssumption DEF VideoInv
<1>1. CASE Video!MdvrTurns
  <2>1. online' \in BOOLEAN /\ lost' \in BOOLEAN
    BY <1>1, Zenon DEF Video!MdvrTurns, Video!TypeOK
  <2>2. UNCHANGED <<vstate, context3, g_VedioConnectMap, vedioConn_>>
    BY <1>1 DEF Video!MdvrTurns
  <2>3. Video!TypeOK'
    BY <2>1, <2>2 DEF Video!TypeOK
  <2> QED BY <2>2, <2>3 DEF Fresh, NoStaleSession, LiveSessionHolds, Video!NoStaleSession,
             Video!LiveSessionHolds, Video!Reading
<1>2. CASE Video!Report
  <2>1. online' \in BOOLEAN /\ lost' \in BOOLEAN
    BY <1>2, Zenon DEF Video!Report, Video!TypeOK
  <2>2. UNCHANGED <<vstate, context3, g_VedioConnectMap, vedioConn_>>
    BY <1>2 DEF Video!Report
  <2>3. Video!TypeOK'
    BY <2>1, <2>2 DEF Video!TypeOK
  <2> QED BY <2>2, <2>3 DEF Fresh, NoStaleSession, LiveSessionHolds, Video!NoStaleSession,
             Video!LiveSessionHolds, Video!Reading
<1>3. ASSUME NEW c \in VideoConns, Video!ConnectionUp(c) PROVE VideoInv'
  <2> USE <1>3 DEF Video!ConnectionUp
  <2>1. Video!TypeOK'
    BY DEF Video!TypeOK
  <2>2. Fresh'
    BY DEF Fresh, Video!TypeOK
  <2>3. NoStaleSession'
    BY DEF NoStaleSession, Video!NoStaleSession, Video!Reading, Video!TypeOK
  <2>4. LiveSessionHolds'
    BY DEF LiveSessionHolds, Video!LiveSessionHolds, Fresh, Video!TypeOK
  <2> QED BY <2>1, <2>2, <2>3, <2>4
<1>4. ASSUME NEW c \in VideoConns, NEW s \in Sessions, Video!RequestNew(c, s) PROVE VideoInv'
  <2> USE <1>4 DEF Video!RequestNew, Video!Reading
  <2>1. Video!TypeOK'
    BY DEF Video!TypeOK
  <2>2. Fresh'
    BY DEF Fresh, Video!TypeOK
  <2>3. NoStaleSession'
    BY DEF NoStaleSession, Video!NoStaleSession, Video!TypeOK
  <2>4. LiveSessionHolds'
    BY DEF LiveSessionHolds, Video!LiveSessionHolds, Video!TypeOK
  <2> QED BY <2>1, <2>2, <2>3, <2>4
<1>5. ASSUME NEW c \in VideoConns, NEW s \in Sessions, Video!RequestReplace(c, s) PROVE VideoInv'
  <2> USE <1>5 DEF Video!RequestReplace, Video!Reading
  <2>1. Video!TypeOK'
    BY DEF Video!TypeOK
  <2>2. Fresh'
    BY DEF Fresh, Video!TypeOK
  <2>3. NoStaleSession'
    BY DEF NoStaleSession, Video!NoStaleSession, Video!TypeOK
  <2>4. LiveSessionHolds'
    BY DEF LiveSessionHolds, Video!LiveSessionHolds, Video!TypeOK
  <2> QED BY <2>1, <2>2, <2>3, <2>4
<1>6. ASSUME NEW c \in VideoConns, Video!ConnectionDown(c) PROVE VideoInv'
  <2> USE <1>6 DEF Video!ConnectionDown
  <2>1. Video!TypeOK'
    BY DEF Video!TypeOK
  <2>2. Fresh'
    BY DEF Fresh, Video!TypeOK
  <2>3. NoStaleSession'
    BY DEF NoStaleSession, Video!NoStaleSession, Video!Reading, Video!TypeOK
  <2>4. LiveSessionHolds'
    BY DEF LiveSessionHolds, Video!LiveSessionHolds, Video!TypeOK
  <2> QED BY <2>1, <2>2, <2>3, <2>4
<1>7. ASSUME NEW c \in VideoConns, Video!ConnectionFreed(c) PROVE VideoInv'
  <2> USE <1>7 DEF Video!ConnectionFreed
  <2>1. Video!TypeOK'
    BY DEF Video!TypeOK
  <2>2. Fresh'
    BY DEF Fresh, Video!TypeOK
  <2>3. NoStaleSession'
    BY DEF NoStaleSession, Video!NoStaleSession, Video!Reading, Video!TypeOK
  <2>4. LiveSessionHolds'
    BY DEF LiveSessionHolds, Video!LiveSessionHolds, Video!TypeOK
  <2> QED BY <2>1, <2>2, <2>3, <2>4
<1> QED BY <1>1, <1>2, <1>3, <1>4, <1>5, <1>6, <1>7 DEF Video!Next

-----------------------------------------------------------------------------
(* FinishReported rests on what the map alone keeps: an entry whose        *)
(* connection has ended was bound to another identity last.                *)
NoDeadUpload ==
  \A id \in Ids :
    LET c == g_GpsFileConnectMap[id]
    IN c # NULL => Gps!Reading(c) \/ context[c] # id

GpsInv == Gps!TypeOK /\ NoDeadUpload /\ FinishReported

LEMMA GpsInit == Gps!Init => GpsInv
  BY DEF Gps!Init, GpsInv, Gps!TypeOK, NoDeadUpload, FinishReported, Gps!FinishReported

LEMMA GpsExit == GpsInv /\ Gps!Exit => GpsInv'
  BY DEF Gps!Exit, GpsInv, Gps!TypeOK, NoDeadUpload, FinishReported, Gps!FinishReported

LEMMA GpsStutters == GpsInv /\ UNCHANGED gvars => GpsInv'
  BY DEF gvars, GpsInv, Gps!TypeOK, NoDeadUpload, FinishReported, Gps!FinishReported, Gps!Reading

LEMMA GpsStep == GpsInv /\ Gps!Next => GpsInv'
<1> SUFFICES ASSUME GpsInv, Gps!Next PROVE GpsInv'
  OBVIOUS
<1> USE MediaAssumption
        DEF GpsInv, Gps!TypeOK, NoDeadUpload, FinishReported, Gps!FinishReported, Gps!Reading
<1>1. CASE Gps!LinkDecays
  BY <1>1 DEF Gps!LinkDecays
<1>2. ASSUME NEW c \in GpsConns, Gps!ConnectionUp(c) PROVE GpsInv'
  BY <1>2 DEF Gps!ConnectionUp
<1>3. ASSUME NEW c \in GpsConns, Gps!Data(c) PROVE GpsInv'
  BY <1>3 DEF Gps!Data, Gps!Send2MQ, Gps!Publish
<1>4. ASSUME NEW c \in GpsConns, Gps!ConnectionDown(c) PROVE GpsInv'
  <2> USE <1>4 DEF Gps!ConnectionDown, Gps!Publish
  <2>1. Gps!TypeOK'
    OBVIOUS
  <2>2. NoDeadUpload'
    OBVIOUS
  <2>3. FinishReported'
    OBVIOUS
  <2> QED BY <2>1, <2>2, <2>3
<1>5. ASSUME NEW c \in GpsConns, Gps!ConnectionFreed(c) PROVE GpsInv'
  <2> USE <1>5 DEF Gps!ConnectionFreed
  <2>1. Gps!TypeOK'
    OBVIOUS
  <2>2. NoDeadUpload'
    OBVIOUS
  <2>3. FinishReported'
    OBVIOUS
  <2> QED BY <2>1, <2>2, <2>3
<1>6. ASSUME NEW c \in GpsConns, NEW id \in Ids, Gps!V4(c, id) PROVE GpsInv'
  <2> USE <1>6 DEF Gps!V4, Gps!Send2MQ, Gps!Publish
  <2>1. Gps!TypeOK'
    OBVIOUS
  <2>2. NoDeadUpload'
    OBVIOUS
  <2>3. FinishReported'
    OBVIOUS
  <2> QED BY <2>1, <2>2, <2>3
<1> QED BY <1>1, <1>2, <1>3, <1>4, <1>5, <1>6 DEF Gps!Next

-----------------------------------------------------------------------------
LEMMA Invariants == Spec => [](VideoInv /\ GpsInv)
<1>1. Init => VideoInv /\ GpsInv
  BY VideoInit, GpsInit DEF Init
<1>2. VideoInv /\ GpsInv /\ [Next]_vars => (VideoInv /\ GpsInv)'
  <2> SUFFICES ASSUME VideoInv, GpsInv, [Next]_vars PROVE VideoInv' /\ GpsInv'
    OBVIOUS
  <2>1. CASE Video!Next /\ UNCHANGED gvars
    BY <2>1, VideoStep, GpsStutters
  <2>2. CASE Gps!Next /\ UNCHANGED vvars
    BY <2>2, VideoStutters, GpsStep
  <2>3. CASE WorkerEnds
    BY <2>3, VideoExit, GpsExit DEF WorkerEnds
  <2>4. CASE UNCHANGED vars
    BY <2>4, VideoStutters, GpsStutters DEF vars
  <2> QED BY <2>1, <2>2, <2>3, <2>4 DEF Next
<1> QED BY <1>1, <1>2, PTL DEF Spec

(* vedioServer.cc: no session outlives the connection it names, unless the *)
(* connection opened another one after it; whatever ends the worker and    *)
(* whatever the file server does in between.                               *)
THEOREM NoStaleSessionAlways == Spec => []NoStaleSession
  BY Invariants, PTL DEF VideoInv

(* vedioServer.cc: the late end of a replaced connection never takes a     *)
(* session from the connection that replaced it.                           *)
THEOREM LiveSessionHoldsAlways == Spec => []LiveSessionHolds
  BY Invariants, PTL DEF VideoInv

(* GpsFileServer.cc: while the link works, an upload the back end takes    *)
(* for open has a connection that is read, or one bound to another         *)
(* identity last; any connection may announce any number of identities.    *)
THEOREM FinishReportedAlways == Spec => []FinishReported
  BY Invariants, PTL DEF GpsInv
===============================================================================
