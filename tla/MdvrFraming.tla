----------------------------- MODULE MdvrFraming -----------------------------
(***************************************************************************)
(* How onMdvrMessage cuts the byte stream of a recorder into frames.  TCP  *)
(* delivers the stream in pieces cut anywhere; every delivery appends to   *)
(* the input buffer and calls the handler, which loops over the buffer.    *)
(* One iteration of that loop is one action.  Byte i of a frame of kind k  *)
(* is <<k, i>>: the parser looks at the first four bytes of a frame (the   *)
(* header) and at the last ('#').                                          *)
(***************************************************************************)
EXTENDS Naturals, Sequences, SequencesExt

CONSTANT MaxFrames  (* bound on the frames a recorder sends *)

HeaderLen == 4

(* "90dc"; "99dc...#" with a command that is handled; one that is rejected *)
(* with a domain_error; and bytes that begin with neither header.          *)
Length == [heartbeat |-> 4, command |-> 6, rejected |-> 6, garbage |-> 5]
Kinds == DOMAIN Length
Commands == {"command", "rejected"}

Frame(k) == [i \in 1 .. Length[k] |-> <<k, i>>]
Bytes(frames) == FlattenSeq([i \in 1 .. Len(frames) |-> Frame(frames[i])])

VARIABLES
  stream,    (* the frames the recorder sends                              *)
  incoming,  (* bytes of them not yet delivered                            *)
  buf,       (* the readable bytes of the input buffer                     *)
  active,    (* the handler's loop is running                              *)
  bufIdx, length,
  acted,     (* frames recognised so far, rejected ones included           *)
  broke      (* the last run of the handler ended with a break             *)

vars == <<stream, incoming, buf, active, bufIdx, length, acted, broke>>

TypeOK ==
  /\ stream \in Seq(Kinds) /\ Len(stream) <= MaxFrames
  /\ IsSuffix(incoming, Bytes(stream))
  /\ Len(buf) <= Len(Bytes(stream)) - Len(incoming)
  /\ active \in BOOLEAN /\ broke \in BOOLEAN
  /\ bufIdx \in 0 .. length
  /\ acted \in Seq(Kinds)

-----------------------------------------------------------------------------
Init ==
  /\ stream \in UNION {[1 .. n -> Kinds] : n \in 1 .. MaxFrames}
  /\ incoming = Bytes(stream)
  /\ buf = <<>>
  /\ active = FALSE
  /\ bufIdx = 0
  /\ length = 0
  /\ acted = <<>>
  /\ broke = FALSE

(* handleRead: some more bytes, then the handler. *)
Deliver ==
  /\ ~active
  /\ \E n \in 1 .. Len(incoming) :
       /\ buf' = buf \o SubSeq(incoming, 1, n)
       /\ incoming' = SubSeq(incoming, n + 1, Len(incoming))
  /\ active' = TRUE
  /\ bufIdx' = 0
  /\ length' = Len(buf')
  /\ broke' = FALSE
  /\ UNCHANGED <<stream, acted>>

Done ==
  /\ active
  /\ bufIdx >= length
  /\ active' = FALSE
  /\ UNCHANGED <<stream, incoming, buf, bufIdx, length, acted, broke>>

TooShort ==
  /\ active
  /\ bufIdx < length
  /\ length - bufIdx < HeaderLen
  /\ active' = FALSE
  /\ UNCHANGED <<stream, incoming, buf, bufIdx, length, acted, broke>>

(* retrieveAsString(4) takes a header of one of these kinds. *)
Header(kinds) ==
  /\ active
  /\ length - bufIdx >= HeaderLen
  /\ \E k \in kinds : SubSeq(buf, 1, HeaderLen) = SubSeq(Frame(k), 1, HeaderLen)

Rest == SubSeq(buf, HeaderLen + 1, Len(buf))

(* Mutant: the handler returns after a heartbeat. *)
Heartbeat_Returns ==
  /\ Header({"heartbeat"})
  /\ buf' = Rest
  /\ acted' = Append(acted, "heartbeat")
  /\ active' = FALSE
  /\ UNCHANGED <<stream, incoming, bufIdx, length, broke>>

Heartbeat ==
  /\ Header({"heartbeat"})
  /\ buf' = Rest
  /\ bufIdx' = bufIdx + HeaderLen
  /\ acted' = Append(acted, "heartbeat")
  /\ UNCHANGED <<stream, incoming, active, length, broke>>

(* std::find(st, st + end, '#') *)
IsEnd(b) == b[1] \in Commands /\ b[2] = Length[b[1]]
End == SelectInSeq(Rest, IsEnd)

TakeCommand ==
  /\ Header(Commands)
  /\ End # 0
  /\ buf' = SubSeq(Rest, End + 1, Len(Rest))
  /\ acted' = Append(acted, buf[1][1])

Command ==
  /\ TakeCommand
  /\ buf[1][1] = "command"
  /\ bufIdx' = bufIdx + HeaderLen + End
  /\ UNCHANGED <<stream, incoming, active, length, broke>>

(* The domain_error of the dispatch is caught around it and breaks the loop. *)
Rejected ==
  /\ TakeCommand
  /\ buf[1][1] = "rejected"
  /\ active' = FALSE
  /\ broke' = TRUE
  /\ UNCHANGED <<stream, incoming, bufIdx, length>>

(* Mutant: the header is not put back. *)
Partial_NotPrepended ==
  /\ Header(Commands)
  /\ End = 0
  /\ buf' = Rest
  /\ active' = FALSE
  /\ UNCHANGED <<stream, incoming, bufIdx, length, acted, broke>>

(* A command without its end: prepend("99dc", 4) puts the header back. *)
Partial ==
  /\ Header(Commands)
  /\ End = 0
  /\ buf' = SubSeq(buf, 1, HeaderLen) \o Rest
  /\ active' = FALSE
  /\ UNCHANGED <<stream, incoming, bufIdx, length, acted, broke>>

(* Any other four bytes: the whole buffer is discarded. *)
Discard ==
  /\ active
  /\ length - bufIdx >= HeaderLen
  /\ ~Header(Kinds \ {"garbage"})
  /\ buf' = <<>>
  /\ active' = FALSE
  /\ UNCHANGED <<stream, incoming, bufIdx, length, acted, broke>>

Next ==
  \/ Deliver \/ Done \/ TooShort \/ Heartbeat \/ Command \/ Rejected \/ Partial \/ Discard

Spec == Init /\ [][Next]_vars

-----------------------------------------------------------------------------
Clean == \A i \in 1 .. Len(stream) : stream[i] # "garbage"

(* However the stream is cut, what a well-formed stream is taken for is a  *)
(* prefix of its frames, and no byte is lost or taken twice.               *)
CutIndependent ==
  Clean => /\ IsPrefix(acted, stream)
           /\ Bytes(acted) \o buf \o incoming = Bytes(stream)

(* No command that has arrived waits in the buffer for later bytes, except *)
(* behind a rejected one.                                                  *)
NothingWaits ==
  Clean /\ ~active /\ ~broke /\ Len(acted) < Len(stream)
    => Len(buf) < Length[stream[Len(acted) + 1]]
===============================================================================
