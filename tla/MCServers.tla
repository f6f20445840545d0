------------------------------ MODULE MCServers ------------------------------
(* Instances of MdvrRegistry, IdleWheel, MdvrFraming and GpsFileFraming for *)
(* TLC: what the servers do with the recorders' connections, with what      *)
(* these send, and with recorders that send nothing.  The four share no     *)
(* state, so one run checks them side by side: in every behaviour one part  *)
(* takes all the steps, and the others stay as they were started.           *)
EXTENDS MdvrRegistry, TLC

CONSTANTS IdleSeconds, MaxFrames

ASSUME ServersAssumption == IdleSeconds \in Nat \ {0} /\ MaxFrames \in Nat

VARIABLES
  part,
  connectionBuckets_, wheelState, probed,
  stream, incoming, buf, active, bufIdx, length, acted, broke,
  file, fileIncoming, fileBuf, fileContext, filePublished, misread, fileWorker, open

Wheel == INSTANCE IdleWheel WITH state <- wheelState

Mdvr == INSTANCE MdvrFraming

GpsFile ==
  INSTANCE GpsFileFraming WITH
    stream <- file, incoming <- fileIncoming, buf <- fileBuf, context <- fileContext,
    published <- filePublished, worker <- fileWorker

wheel == <<connectionBuckets_, wheelState, probed>>
frames == <<stream, incoming, buf, active, bufIdx, length, acted, broke>>
upload == <<file, fileIncoming, fileBuf, fileContext, filePublished, misread, fileWorker, open>>
all == <<part, vars, wheel, frames, upload>>

MCInit ==
  /\ part \in {"registry", "wheel", "mdvr", "file"}
  /\ part = "mdvr" \/ stream = <<"heartbeat">>
  /\ part = "file" \/ file = <<"V4">>
  /\ Init /\ Wheel!Init /\ Mdvr!Init /\ GpsFile!Init

InRegistry(A) == part = "registry" /\ A /\ UNCHANGED <<part, wheel, frames, upload>>
InWheel(A) == part = "wheel" /\ A /\ UNCHANGED <<part, vars, frames, upload>>
InFrames(A) == part = "mdvr" /\ A /\ UNCHANGED <<part, vars, wheel, upload>>
InUpload(A) == part = "file" /\ A /\ UNCHANGED <<part, vars, wheel, frames>>

(* All parts but the registry end when what is sent has been read. *)
Ended == part # "registry" /\ UNCHANGED all

MCNext ==
  \/ \E c \in Conns, id \in Ids : InRegistry(V1(c, id))
  \/ \E c \in Conns :
       \/ InRegistry(ConnectionUp(c)) \/ InRegistry(Report(c))
       \/ InRegistry(ConnectionDown(c)) \/ InRegistry(ConnectionDestroyed(c))
  \/ \E id \in Ids : InRegistry(CommandArrives(id))
  \/ InRegistry(CommandRuns) \/ InRegistry(LinkDecays)
  \/ InRegistry(WorkerDies) \/ InRegistry(WorkerStarts)
  \/ InWheel(Wheel!OnTimer)
  \/ \E c \in Conns :
       \/ InWheel(Wheel!ConnectionUp(c)) \/ InWheel(Wheel!Message(c))
       \/ InWheel(Wheel!Shutdown(c)) \/ InWheel(Wheel!ConnectionDown(c))
  \/ InFrames(Mdvr!Deliver) \/ InFrames(Mdvr!Done) \/ InFrames(Mdvr!TooShort)
  \/ InFrames(Mdvr!Heartbeat) \/ InFrames(Mdvr!Command) \/ InFrames(Mdvr!Rejected)
  \/ InFrames(Mdvr!Partial) \/ InFrames(Mdvr!Discard)
  \/ \E bytes \in GpsFile!Reads :
       \/ InUpload(GpsFile!TooShort(bytes)) \/ InUpload(GpsFile!Rejected(bytes))
       \/ InUpload(GpsFile!Announce(bytes)) \/ InUpload(GpsFile!Partial(bytes))
       \/ InUpload(GpsFile!DataTooEarly(bytes)) \/ InUpload(GpsFile!Data(bytes))
  \/ InUpload(GpsFile!OtherDown) \/ InUpload(GpsFile!Down)
  \/ Ended

MCSpec == MCInit /\ [][MCNext]_all

(* Identities are interchangeable, and so are connection objects: safety   *)
(* runs may identify states that differ by a permutation of either.        *)
Symmetry == Permutations(Conns) \cup Permutations(Ids)

-----------------------------------------------------------------------------
(* However the stream is cut, the frames taken are a prefix of those sent, *)
(* and no byte is lost or taken twice (MdvrFraming).                       *)
CutIndependent == Mdvr!CutIndependent

(* No whole command waits for bytes that follow it (MdvrFraming).          *)
NothingWaits == Mdvr!NothingWaits

(* An announced upload is published in order and without a gap, until a    *)
(* read too short, bytes that read 99dc, or the loss of the identity       *)
(* (GpsFileFraming).                                                       *)
UploadExact == GpsFile!UploadExact

(* The wheel is one countdown per connection (IdleWheel).                  *)
ImplementsIdleTimer == Wheel!ImplementsIdleTimer
===============================================================================
