----------------------------- MODULE GpsSentences -----------------------------
(***************************************************************************)
(* What the satellite server makes of the byte stream of a gateway.  A     *)
(* read is taken for one message: onGpsMessage empties the buffer, and     *)
(* gpsDataAnalysis drops what it was given or publishes one message.       *)
(*                                                                         *)
(* A sentence is cut into the parts the code tells apart: "$GPRMC," with   *)
(* IMEI and time, the status, the position up to its '*', the check sum;   *)
(* an Iridium message into its header and the two halves of its payload.   *)
(***************************************************************************)
EXTENDS Naturals, Sequences, SequencesExt

CONSTANT MaxSentences  (* bound on the sentences a gateway sends *)

(* A sentence with a position; one whose status is not A; an Iridium       *)
(* message; and one whose payload get_payload_text rejects.                *)
Parts == [fix |-> 4, void |-> 4, iridium |-> 3, invalid |-> 3]
Kinds == DOMAIN Parts
Iridium == {"iridium", "invalid"}

VARIABLES
  sent,       (* the sentences the gateway sends                           *)
  incoming,   (* parts <<sentence, part>> of them not yet delivered        *)
  published   (* messages published: what was read, and whose IMEI is the  *)
              (* key; 0 when the key is no IMEI at all                     *)

vars == <<sent, incoming, published>>

Sentence(i) == [part \in 1 .. Parts[sent[i]] |-> <<i, part>>]
All == FlattenSeq([i \in 1 .. Len(sent) |-> Sentence(i)])

TypeOK ==
  /\ sent \in Seq(Kinds) /\ Len(sent) <= MaxSentences
  /\ IsSuffix(incoming, All)
  /\ \A k \in DOMAIN published :
       published[k].read \in Seq(Range(All)) /\ published[k].key \in 0 .. Len(sent)

Init ==
  /\ sent \in UNION {[1 .. n -> Kinds] : n \in 1 .. MaxSentences}
  /\ incoming = All
  /\ published = <<>>

-----------------------------------------------------------------------------
First(read) == read[1][1]
Begins(read, kind) == read[1][2] = 1 /\ sent[First(read)] = kind
Message(read, key) == [read |-> read, key |-> key]

(* '$': the IMEI is field 2 and the status field 4, and each must be       *)
(* followed by a comma or split throws.  Nobody asks for more, neither for *)
(* the '*' nor for the end of the sentence.                                *)
SentenceMessages(read) ==
  IF Begins(read, "fix") /\ Len(read) >= 2 THEN {Message(read, First(read))} ELSE {}

(* 0x01: the elements are walked to the end of the read.  Of a payload cut *)
(* in two the missing half is read from whatever lies behind the string.   *)
(* A second message is taken for a header, in a place that is none; what   *)
(* comes of it depends on its bytes.                                       *)
IridiumMessages(read) ==
  IF ~Begins(read, "iridium") \/ Len(read) = 1 THEN {}
  ELSE IF Len(read) > 3 /\ sent[read[4][1]] \in Iridium THEN {Message(read, 0)}
  ELSE IF Len(read) <= 3 THEN {Message(read, First(read))} ELSE {}

(* Whether what is in those sets is published at all. *)
Certain(read) == Begins(read, "fix") \/ Begins(read, "void") \/ Len(read) = 3

(* One read: all there is in the buffer. *)
OnGpsMessage ==
  \E n \in 1 .. Len(incoming) :
    LET read == SubSeq(incoming, 1, n)
        messages == SentenceMessages(read) \cup IridiumMessages(read)
    IN /\ incoming' = SubSeq(incoming, n + 1, Len(incoming))
       /\ \/ \E m \in messages : published' = Append(published, m)
          \/ (messages = {} \/ ~Certain(read)) /\ UNCHANGED published
       /\ UNCHANGED sent

Spec == Init /\ [][OnGpsMessage]_vars

-----------------------------------------------------------------------------
(* GpsServer.cpp:8 gives the format of a sentence, from $GPRMC to *hh and  *)
(* the line's end: what is published is one such sentence.                 *)
WholeSentences ==
  \A k \in DOMAIN published :
    published[k].key # 0 => published[k].read = Sentence(published[k].key)
===============================================================================
