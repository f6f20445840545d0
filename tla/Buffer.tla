-------------------------------- MODULE Buffer --------------------------------
(***************************************************************************)
(* muduo::net::Buffer: a vector of bytes with two indices.  Bytes between  *)
(* readerIndex_ and writerIndex_ are the content, those before it can be   *)
(* prepended to, those after it can be written.  Byte i of the vector is   *)
(* buffer_[i + 1].                                                         *)
(***************************************************************************)
EXTENDS Naturals, Sequences

CONSTANTS
  Bytes,
  Fill,           (* the byte vector::resize fills with                    *)
  kCheapPrepend,
  kInitialSize,
  MaxContent      (* bound on the readable bytes                           *)

VARIABLES
  buffer_,
  readerIndex_,
  writerIndex_,
  content,  (* what the calls so far should have left in the buffer        *)
  peak      (* the most bytes ever held, or reserved by shrink             *)

vars == <<buffer_, readerIndex_, writerIndex_, content, peak>>

TypeOK ==
  /\ buffer_ \in Seq(Bytes)
  /\ readerIndex_ \in Nat
  /\ writerIndex_ \in Nat
  /\ content \in Seq(Bytes)
  /\ peak \in Nat

readableBytes == writerIndex_ - readerIndex_
writableBytes == Len(buffer_) - writerIndex_
prependableBytes == readerIndex_

-----------------------------------------------------------------------------
Init ==
  /\ buffer_ = [i \in 1 .. kCheapPrepend + kInitialSize |-> Fill]
  /\ readerIndex_ = kCheapPrepend
  /\ writerIndex_ = kCheapPrepend
  /\ content = <<>>
  /\ peak = 0

Larger(a, b) == IF a < b THEN b ELSE a

(* The vector with data copied to index at. *)
Copied(vec, at, data) ==
  [i \in 1 .. Len(vec) |-> IF at < i /\ i <= at + Len(data) THEN data[i - at] ELSE vec[i]]

Resized(vec, size) == [i \in 1 .. size |-> IF i <= Len(vec) THEN vec[i] ELSE Fill]

(* ensureWritableBytes and makeSpace, for a vector vec with indices r and w: *)
(* enough room, or the vector grows, or the content moves to the front.    *)
Fits(vec, w, len) == len <= Len(vec) - w
Grows(vec, r, w, len) == ~Fits(vec, w, len) /\ (Len(vec) - w) + r < len + kCheapPrepend

RoomyReader(vec, r, w, len) ==
  IF Fits(vec, w, len) \/ Grows(vec, r, w, len) THEN r ELSE kCheapPrepend

(* Mutant: makeSpace moves the bytes before the content. *)
Roomy_MovesStale(vec, r, w, len) ==
  IF Fits(vec, w, len) THEN vec
  ELSE IF Grows(vec, r, w, len) THEN Resized(vec, w + len)
  ELSE Copied(vec, kCheapPrepend, SubSeq(vec, r, w - 1))

Roomy(vec, r, w, len) ==
  IF Fits(vec, w, len) THEN vec
  ELSE IF Grows(vec, r, w, len) THEN Resized(vec, w + len)
  ELSE Copied(vec, kCheapPrepend, SubSeq(vec, r + 1, w))

(* append to the vector vec with indices r and w. *)
AppendTo(vec, r, w, data) ==
  LET first == RoomyReader(vec, r, w, Len(data))
      last == first + (w - r)
  IN /\ buffer_' = Copied(Roomy(vec, r, w, Len(data)), last, data)
     /\ readerIndex_' = first
     /\ writerIndex_' = last + Len(data)

Add(data) ==
  /\ Len(content) + Len(data) <= MaxContent
  /\ content' = content \o data
  /\ peak' = Larger(peak, Len(content'))

append(data) == Add(data) /\ AppendTo(buffer_, readerIndex_, writerIndex_, data)

(* readFd: readv fills the vector's end first, what does not fit is        *)
(* appended from the extra buffer.                                         *)
readFd(data) ==
  /\ Add(data)
  /\ IF Len(data) <= writableBytes
     THEN /\ buffer_' = Copied(buffer_, writerIndex_, data)
          /\ writerIndex_' = writerIndex_ + Len(data)
          /\ UNCHANGED readerIndex_
     ELSE AppendTo(Copied(buffer_, writerIndex_, SubSeq(data, 1, writableBytes)),
                   readerIndex_, Len(buffer_), SubSeq(data, writableBytes + 1, Len(data)))

(* retrieve: when nothing is left both indices go back. *)
retrieve(len) ==
  /\ len <= readableBytes
  /\ IF len < readableBytes
     THEN readerIndex_' = readerIndex_ + len /\ UNCHANGED writerIndex_
     ELSE readerIndex_' = kCheapPrepend /\ writerIndex_' = kCheapPrepend
  /\ content' = SubSeq(content, len + 1, Len(content))
  /\ UNCHANGED <<buffer_, peak>>

prepend(data) ==
  /\ Len(data) <= prependableBytes
  /\ Len(content) + Len(data) <= MaxContent
  /\ readerIndex_' = readerIndex_ - Len(data)
  /\ buffer_' = Copied(buffer_, readerIndex_', data)
  /\ content' = data \o content
  /\ peak' = Larger(peak, Len(content'))
  /\ UNCHANGED writerIndex_

(* unwrite takes bytes back at the end. *)
unwrite(len) ==
  /\ len <= readableBytes
  /\ writerIndex_' = writerIndex_ - len
  /\ content' = SubSeq(content, 1, Len(content) - len)
  /\ UNCHANGED <<buffer_, readerIndex_, peak>>

(* shrink: a new buffer with room for the content and a reserve. *)
shrink(reserve) ==
  LET fresh == [i \in 1 .. kCheapPrepend + kInitialSize |-> Fill]
      need == readableBytes + reserve
      roomy == IF need <= kInitialSize THEN fresh ELSE Resized(fresh, kCheapPrepend + need)
  IN /\ Len(content) + reserve <= MaxContent
     /\ buffer_' = Copied(roomy, kCheapPrepend, SubSeq(buffer_, readerIndex_ + 1, writerIndex_))
     /\ readerIndex_' = kCheapPrepend
     /\ writerIndex_' = kCheapPrepend + readableBytes
     /\ peak' = Larger(peak, Len(content) + reserve)
     /\ UNCHANGED content

Data == UNION {[1 .. n -> Bytes] : n \in 1 .. MaxContent}

Next ==
  \/ \E data \in Data : append(data) \/ readFd(data) \/ prepend(data)
  \/ \E len \in 0 .. MaxContent : retrieve(len) \/ unwrite(len) \/ shrink(len)

Spec == Init /\ [][Next]_vars

-----------------------------------------------------------------------------
(* The indices are ordered as in the picture of Buffer.h, and the readable *)
(* bytes are exactly those the calls put in and have not taken out,        *)
(* whatever was moved, resized or put back.  A buffer, which lives as long *)
(* as its connection, does not grow with the traffic, only with the most   *)
(* it ever held at one time.                                               *)
ContentExact ==
  /\ readerIndex_ <= writerIndex_ /\ writerIndex_ <= Len(buffer_)
  /\ SubSeq(buffer_, readerIndex_ + 1, writerIndex_) = content
  /\ Len(buffer_) <= kCheapPrepend + Larger(kInitialSize, 2 * peak)
===============================================================================
