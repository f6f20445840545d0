----------------------------- MODULE AsyncLogging -----------------------------
(***************************************************************************)
(* muduo::AsyncLogging: any thread appends lines to the current buffer     *)
(* under a mutex; one thread swaps the filled buffers out, writes them     *)
(* without the mutex and gives two of them back as spare buffers.  A line  *)
(* is the number of the append() that brought it, and has size one.        *)
(***************************************************************************)
EXTENDS Naturals, Sequences

CONSTANTS
  BufferLines,  (* lines a buffer holds                                    *)
  MaxBatch,     (* more buffers than this in one batch are dropped         *)
  MaxLines      (* bound on the lines appended                             *)

ASSUME AsyncLoggingAssumption ==
  /\ BufferLines \in Nat \ {0}
  /\ MaxBatch \in Nat \ {0, 1}
  /\ MaxLines \in Nat

VARIABLES
  currentBuffer_,
  nextBuffer_,     (* whether there is one; it is always empty             *)
  buffers_,        (* full buffers, oldest first                           *)
  running_,
  pc,              (* where threadFunc is                                  *)
  newBuffer1,      (* whether the back end holds its spare buffers         *)
  newBuffer2,
  buffersToWrite,
  i,               (* index of the next buffer to write                    *)
  file,            (* lines handed to the LogFile                          *)
  dropped,         (* lines thrown away because too many buffers waited    *)
  lines            (* lines appended so far                                *)

vars == <<currentBuffer_, nextBuffer_, buffers_, running_, pc, newBuffer1,
          newBuffer2, buffersToWrite, i, file, dropped, lines>>

Buffer == {b \in Seq(Nat) : Len(b) <= BufferLines}

TypeOK ==
  /\ currentBuffer_ \in Buffer
  /\ nextBuffer_ \in BOOLEAN
  /\ buffers_ \in Seq(Buffer)
  /\ running_ \in BOOLEAN
  /\ pc \in {"while", "lock", "wait", "write", "recycle", "ended"}
  /\ newBuffer1 \in BOOLEAN
  /\ newBuffer2 \in BOOLEAN
  /\ buffersToWrite \in Seq(Buffer)
  /\ i \in Nat
  /\ file \in Seq(Nat)
  /\ dropped \subseteq Nat
  /\ lines \in Nat

-----------------------------------------------------------------------------
(* start() has returned: the back end exists and has its two buffers. *)
Init ==
  /\ currentBuffer_ = <<>>
  /\ nextBuffer_ = TRUE
  /\ buffers_ = <<>>
  /\ running_ = TRUE
  /\ pc = "while"
  /\ newBuffer1 = TRUE
  /\ newBuffer2 = TRUE
  /\ buffersToWrite = <<>>
  /\ i = 1
  /\ file = <<>>
  /\ dropped = {}
  /\ lines = 0

(* The current buffer goes to the full ones and the spare one, or else a   *)
(* new one, takes its place.                                               *)
AppendFull ==
  /\ Len(currentBuffer_) = BufferLines
  /\ buffers_' = Append(buffers_, currentBuffer_)
  /\ nextBuffer_' = FALSE
  /\ currentBuffer_' = <<lines'>>

AppendRoom ==
  /\ Len(currentBuffer_) < BufferLines
  /\ currentBuffer_' = Append(currentBuffer_, lines')
  /\ UNCHANGED <<buffers_, nextBuffer_>>

(* append(), by any thread, under the mutex. *)
AppendLine ==
  /\ lines < MaxLines
  /\ lines' = lines + 1
  /\ AppendRoom \/ AppendFull
  /\ UNCHANGED <<running_, pc, newBuffer1, newBuffer2, buffersToWrite, i, file, dropped>>

While ==
  /\ pc = "while"
  /\ pc' = IF running_ THEN "lock" ELSE "ended"
  /\ UNCHANGED <<currentBuffer_, nextBuffer_, buffers_, running_, newBuffer1, newBuffer2,
                 buffersToWrite, i, file, dropped, lines>>

(* Mutant: the current buffer is put before those that are full. *)
Swap_CurrentFirst ==
  /\ pc' = "write"
  /\ buffersToWrite' = <<currentBuffer_>> \o buffers_
  /\ buffers_' = <<>>
  /\ currentBuffer_' = <<>>
  /\ newBuffer1' = FALSE
  /\ nextBuffer_' = TRUE
  /\ newBuffer2' = (newBuffer2 /\ nextBuffer_)
  /\ i' = 1

(* All buffers, the current one too, are taken; the spare ones replace     *)
(* currentBuffer_ and, if it was used, nextBuffer_.                        *)
Swap ==
  /\ pc' = "write"
  /\ buffersToWrite' = Append(buffers_, currentBuffer_)
  /\ buffers_' = <<>>
  /\ currentBuffer_' = <<>>
  /\ newBuffer1' = FALSE
  /\ nextBuffer_' = TRUE
  /\ newBuffer2' = (newBuffer2 /\ nextBuffer_)
  /\ i' = 1

Lock ==
  /\ pc = "lock"
  /\ \/ buffers_ # <<>> /\ Swap
     \/ /\ buffers_ = <<>>
        /\ pc' = "wait"
        /\ UNCHANGED <<currentBuffer_, nextBuffer_, buffers_, newBuffer1, newBuffer2, buffersToWrite, i>>
  /\ UNCHANGED <<running_, file, dropped, lines>>

(* Mutant: the wait has no time limit and goes on until a buffer is full. *)
Wake_OnlyNotified ==
  /\ pc = "wait"
  /\ buffers_ # <<>>
  /\ Swap
  /\ UNCHANGED <<running_, file, dropped, lines>>

(* waitForSeconds returns: a notify, the interval, or for no reason. *)
Wake ==
  /\ pc = "wait"
  /\ Swap
  /\ UNCHANGED <<running_, file, dropped, lines>>

Lines(buffer) == {buffer[k] : k \in 1 .. Len(buffer)}

(* Mutant: only one buffer of a batch that is too long is kept. *)
Kept_One == 1

(* Buffers kept of a batch that is too long. *)
Kept == 2

(* Too long a batch is cut before anything is written. *)
Drop ==
  /\ pc = "write" /\ i = 1
  /\ Len(buffersToWrite) > MaxBatch
  /\ buffersToWrite' = SubSeq(buffersToWrite, 1, Kept)
  /\ dropped' = dropped \cup UNION {Lines(buffersToWrite[k]) : k \in Kept + 1 .. Len(buffersToWrite)}
  /\ UNCHANGED <<currentBuffer_, nextBuffer_, buffers_, running_, pc, newBuffer1, newBuffer2, i, file, lines>>

Write ==
  /\ pc = "write"
  /\ Len(buffersToWrite) <= MaxBatch
  /\ i <= Len(buffersToWrite)
  /\ file' = file \o buffersToWrite[i]
  /\ i' = i + 1
  /\ pc' = IF i = Len(buffersToWrite) THEN "recycle" ELSE "write"
  /\ UNCHANGED <<currentBuffer_, nextBuffer_, buffers_, running_, newBuffer1, newBuffer2,
                 buffersToWrite, dropped, lines>>

(* Written buffers become the missing spare buffers, the rest is freed and *)
(* the file is flushed.                                                    *)
Recycle ==
  /\ pc = "recycle"
  /\ pc' = "while"
  /\ newBuffer1' = (newBuffer1 \/ Len(buffersToWrite) >= 1)
  /\ newBuffer2' = (newBuffer2 \/ Len(buffersToWrite) >= IF newBuffer1 THEN 1 ELSE 2)
  /\ buffersToWrite' = <<>>
  /\ i' = 1
  /\ UNCHANGED <<currentBuffer_, nextBuffer_, buffers_, running_, file, dropped, lines>>

(* stop(), before the join. *)
Stop ==
  /\ running_
  /\ running_' = FALSE
  /\ UNCHANGED <<currentBuffer_, nextBuffer_, buffers_, pc, newBuffer1, newBuffer2,
                 buffersToWrite, i, file, dropped, lines>>

Next == AppendLine \/ While \/ Lock \/ Wake \/ Drop \/ Write \/ Recycle \/ Stop

Spec == Init /\ [][Next]_vars

(* The back end's thread is scheduled, and its wait has a time limit. *)
Fairness ==
  /\ WF_vars(While) /\ WF_vars(Lock) /\ WF_vars(Wake)
  /\ WF_vars(Drop) /\ WF_vars(Write) /\ WF_vars(Recycle)

FairSpec == Spec /\ Fairness

-----------------------------------------------------------------------------
(* Whenever the back end begins a round it holds both spare buffers, as    *)
(* its asserts and the swap under the mutex demand.                        *)
SparesReady == pc \in {"while", "lock", "wait"} => newBuffer1 /\ newBuffer2

(* What SparesReady needs to be inductive: nextBuffer_ is only missing     *)
(* when a full buffer waits, so a batch that cost both spare buffers has   *)
(* two buffers to give back.                                               *)
SparesOwed ==
  /\ ~nextBuffer_ => buffers_ # <<>>
  /\ pc \in {"write", "recycle"} =>
       /\ Len(buffersToWrite) >= 1
       /\ newBuffer2 \/ Len(buffersToWrite) >= 2

(* The buffers of the batch that wait to be written. *)
Unwritten == IF pc = "write" THEN SubSeq(buffersToWrite, i, Len(buffersToWrite)) ELSE <<>>

(* Where the lines are, oldest first. *)
Trail == <<file>> \o Unwritten \o buffers_ \o <<currentBuffer_>>

AllLines(trail) == UNION {Lines(trail[k]) : k \in 1 .. Len(trail)}

Before(older, newer) == \A x \in older, y \in newer : x < y

Ascending(buffer) == \A m, n \in 1 .. Len(buffer) : m < n => buffer[m] < buffer[n]

InOrder(trail) ==
  /\ \A k \in 1 .. Len(trail) : Ascending(trail[k])
  /\ \A k, l \in 1 .. Len(trail) : k < l => Before(Lines(trail[k]), Lines(trail[l]))

(* No line is lost except by the drop, none is there twice, and the file   *)
(* has them in the order they were appended in.                            *)
LinesInOrder ==
  /\ dropped \cup AllLines(Trail) = 1 .. lines
  /\ InOrder(Trail)

(* Every line reaches the file or is dropped, unless the log is stopped.   *)
EventuallyWritten ==
  \A n \in 1 .. MaxLines : lines >= n ~> n \in Lines(file) \/ n \in dropped \/ ~running_

(* The thread stop() joins ends, although stop() notifies without the      *)
(* mutex, so that a back end that has just read running_ sleeps through    *)
(* it, and however many lines are still appended.                          *)
StopEnds == ~running_ ~> pc = "ended"
===============================================================================
