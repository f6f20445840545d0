---------------------------- MODULE GpsFileFraming ----------------------------
(***************************************************************************)
(* How onGpsFileMessage cuts the byte stream of an upload: a V4 announces  *)
(* the recorder, then come the bytes of its file.  Every read calls the    *)
(* handler once; it does not loop over the buffer.  Byte i of a frame of   *)
(* kind k is <<k, i>>; Char is what the handler sees of it: it looks at    *)
(* the first four bytes of whatever it finds and for the '#' that ends a   *)
(* V4, and a file's bytes may read like either.                            *)
(***************************************************************************)
EXTENDS Naturals, Sequences, SequencesExt

CONSTANT MaxFrames  (* bound on the frames a recorder sends *)

Header == <<"9", "9", "d", "c">>
HeaderLen == Len(Header)

(* A V4; a V4 without the fields its handler asks for; a block of a file;  *)
(* one with a NUL in it; and one that reads 99dc from its second byte on.  *)
Text == [V4 |-> <<"9", "9", "d", "c", "fields", "#">>,
         malformed |-> <<"9", "9", "d", "c", "field", "#">>,
         data |-> <<"byte", "byte", "byte", "byte", "byte">>,
         binary |-> <<"byte", "NUL", "byte", "byte", "byte">>,
         alike |-> <<"byte", "9", "9", "d", "c", "#">>]
Kinds == DOMAIN Text
Length == [k \in Kinds |-> Len(Text[k])]
Commands == {"V4", "malformed"}
FileKinds == {"data", "binary", "alike"}

Frame(k) == [i \in 1 .. Length[k] |-> <<k, i>>]
Bytes(frames) == FlattenSeq([i \in 1 .. Len(frames) |-> Frame(frames[i])])
Char(b) == Text[b[1]][b[2]]

VARIABLES
  stream,     (* the frames the recorder sends                             *)
  incoming,   (* bytes of them not yet delivered                           *)
  buf,        (* the readable bytes of the input buffer                    *)
  context,    (* "none"; "held" or "lost", whether the map has the         *)
              (* recorder the connection is bound to; or "other", bound to *)
              (* whatever identity the file's bytes named                  *)
  published,  (* the bytes published as the recorder's file                *)
  misread,    (* history: the file's bytes were taken for a command        *)
  worker,     (* the worker runs                                           *)
  open        (* the connection is not DOWN                                *)

vars == <<stream, incoming, buf, context, published, misread, worker, open>>

TypeOK ==
  /\ stream \in Seq(Kinds) /\ Len(stream) <= MaxFrames
  /\ IsSuffix(incoming, Bytes(stream))
  /\ context \in {"none", "held", "lost", "other"}
  /\ misread \in BOOLEAN /\ worker \in BOOLEAN /\ open \in BOOLEAN

Init ==
  /\ stream \in UNION {[1 .. n -> Kinds] : n \in 1 .. MaxFrames}
  /\ incoming = Bytes(stream)
  /\ buf = <<>>
  /\ context = "none"
  /\ published = <<>>
  /\ misread = FALSE
  /\ worker = TRUE /\ open = TRUE

-----------------------------------------------------------------------------
IsEnd(b) == Char(b) = "#"
IsNul(b) == Char(b) = "NUL"
IsCommand(bytes) ==
  Len(bytes) >= HeaderLen /\ \A i \in 1 .. HeaderLen : Char(bytes[i]) = Header[i]
End(bytes) == SelectInSeq(bytes, IsEnd)

(* Publish hands the bytes over as a C string: a NUL ends them. *)
Publishable(bytes) ==
  IF SelectInSeq(bytes, IsNul) = 0 THEN bytes ELSE SubSeq(bytes, 1, SelectInSeq(bytes, IsNul) - 1)

(* A read of some more bytes, which leaves these in the input buffer. *)
Read(bytes) ==
  /\ worker /\ open
  /\ \E n \in 1 .. Len(incoming) :
       /\ bytes = buf \o SubSeq(incoming, 1, n)
       /\ incoming' = SubSeq(incoming, n + 1, Len(incoming))
  /\ UNCHANGED <<stream, open>>

Reads == {buf \o SubSeq(incoming, 1, n) : n \in 1 .. Len(incoming)}

(* The worker ends in the middle of a call: what was read is lost.         *)
Dies(bytes) ==
  /\ worker' = FALSE
  /\ buf' = bytes
  /\ UNCHANGED <<context, published>>

(* retrieveAsString(4) asserts that there are four bytes. *)
TooShort(bytes) ==
  /\ Len(bytes) < HeaderLen
  /\ Read(bytes)
  /\ Dies(bytes)
  /\ UNCHANGED misread

(* A whole command, or what reads like one. *)
Command(bytes) ==
  /\ IsCommand(bytes) /\ End(bytes) # 0
  /\ Read(bytes)
  /\ misread' = (misread \/ bytes[1][1] \in FileKinds)

(* Without its fields split throws, and here no one catches it.            *)
Rejected(bytes) == bytes[1][1] # "V4" /\ Command(bytes) /\ Dies(bytes)

(* A V4 binds the connection to its recorder; one that was bound to        *)
(* another identity since stays so where the map has both, because the     *)
(* holder's own V4 binds nothing.  Bytes of the file that have the fields  *)
(* bind it to any identity, the recorder's own among them.                 *)
Bound(bytes) ==
  IF bytes[1][1] = "V4" /\ context # "other" THEN {"held"} ELSE {"held", "other"}

(* Mutant: the rest of the buffer goes with the command. *)
Announce_TakesAll(bytes) ==
  /\ bytes[1][1] # "malformed"
  /\ Command(bytes)
  /\ buf' = <<>>
  /\ context' \in Bound(bytes)
  /\ UNCHANGED <<published, worker>>

(* What came behind the command stays for the next read.                   *)
Announce(bytes) ==
  /\ bytes[1][1] # "malformed"
  /\ Command(bytes)
  /\ buf' = SubSeq(bytes, End(bytes) + 1, Len(bytes))
  /\ context' \in Bound(bytes)
  /\ UNCHANGED <<published, worker>>

(* Part of a command: the header is put back. *)
Partial(bytes) ==
  /\ IsCommand(bytes) /\ End(bytes) = 0
  /\ Read(bytes)
  /\ misread' = (misread \/ bytes[1][1] \in FileKinds)
  /\ buf' = bytes
  /\ UNCHANGED <<context, published, worker>>

(* Anything else is taken for data, all of it.  Without a V4 before it the *)
(* any_cast throws, and no one catches it.                                 *)
DataTooEarly(bytes) ==
  /\ Len(bytes) >= HeaderLen /\ ~IsCommand(bytes)
  /\ context = "none"
  /\ Read(bytes)
  /\ Dies(bytes)
  /\ UNCHANGED misread

(* Published under the identity the connection is bound to, while the map  *)
(* has it.                                                                 *)
Data(bytes) ==
  /\ Len(bytes) >= HeaderLen /\ ~IsCommand(bytes)
  /\ context # "none"
  /\ Read(bytes)
  /\ buf' = <<>>
  /\ published' = IF context = "held" THEN published \o Publishable(bytes) ELSE published
  /\ UNCHANGED <<context, misread, worker>>

(* The end of another connection of the same recorder erases its identity. *)
OtherDown ==
  /\ worker /\ context = "held"
  /\ context' = "lost"
  /\ UNCHANGED <<stream, incoming, buf, published, misread, worker, open>>

(* What the input buffer still holds goes with the connection. *)
Down ==
  /\ worker /\ open
  /\ open' = FALSE
  /\ UNCHANGED <<stream, incoming, buf, context, published, misread, worker>>

Next ==
  \/ \E bytes \in Reads :
       \/ TooShort(bytes) \/ Rejected(bytes) \/ Announce(bytes) \/ Partial(bytes)
       \/ DataTooEarly(bytes) \/ Data(bytes)
  \/ OtherDown \/ Down

Spec == Init /\ [][Next]_vars

-----------------------------------------------------------------------------
(* What becomes of the file of a recorder that announces itself once,      *)
(* first, however TCP cuts it.                                             *)
(* - Its bytes are taken for a command only if they read 99dc somewhere.   *)
(* Until that happens:                                                     *)
(* - the worker ends only by a read of fewer than four bytes, which is     *)
(*   lost with what is still to come;                                      *)
(* - before the V4 is taken nothing is published, and nothing is lost;     *)
(* - while the identity is held, every byte taken is published, in order,  *)
(*   up to the first NUL; behind one, the rest of each read is lost;       *)
(* - what waits in the buffer came in the read that ended the V4: nothing  *)
(*   but another read gets it published;                                   *)
(* - when the identity is lost, what was published is where the file       *)
(*   begins.                                                               *)
UploadExact ==
  stream[1] = "V4" /\ (\A i \in 2 .. Len(stream) : stream[i] \in FileKinds) =>
    LET file == Bytes(Tail(stream))
        taken == SubSeq(file, 1, Len(file) - Len(incoming) - Len(buf))
        whole == Publishable(taken) = taken
    IN /\ misread => \E i \in 2 .. Len(stream) : stream[i] = "alike"
       /\ ~misread =>
            /\ worker \/ Len(buf) < HeaderLen
            /\ context = "none" => published = <<>> /\ buf \o incoming = Bytes(stream)
            /\ context = "held" =>
                 /\ IsPrefix(Publishable(taken), published)
                 /\ whole => published = taken
                 /\ worker /\ published # <<>> => buf = <<>>
            /\ context = "lost" /\ whole => IsPrefix(published, taken)

(* Buffer.h:166 asserts len <= readableBytes(): the handler takes four     *)
(* bytes only where there are four.                                        *)
FourBytesThere == worker \/ Len(buf) >= HeaderLen
===============================================================================
