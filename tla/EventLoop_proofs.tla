-------------------------- MODULE EventLoop_proofs --------------------------
(***************************************************************************)
(* Proofs about EventLoop for any number of threads and functors.          *)
(***************************************************************************)
EXTENDS EventLoop, SequenceTheorems, TLAPS

(* Appending adds one element, and taking the head away removes none of    *)
(* the others.                                                             *)
LEMMA ElementsAppend ==
  ASSUME NEW S, NEW s \in Seq(S), NEW x
  PROVE  Elements(Append(s, x)) = Elements(s) \cup {x}
  BY DEF Elements

LEMMA ElementsEmpty == Elements(<<>>) = {}
  BY DEF Elements

(* The type of the Boolean variables, and of the others, is preserved by   *)
(* every step.                                                             *)
Flags ==
  /\ callingPendingFunctors_ \in BOOLEAN
  /\ quit_ \in BOOLEAN
  /\ wakeup \in BOOLEAN
  /\ active \in BOOLEAN

Data ==
  /\ pendingFunctors_ \in Seq(Nat)
  /\ functors \in Seq(Nat)
  /\ loopPc \in {"start", "while", "poll", "handle", "swap", "run", "left"}
  /\ pc \in [Threads -> {"idle", "waking"}]
  /\ queued \in Nat
  /\ last \in Nat
  /\ early \in SUBSET Nat

LEMMA TypeParts == TypeOK <=> Flags /\ Data
  BY Zenon DEF TypeOK, Flags, Data

LEMMA FlagsStep == Flags /\ [Next]_vars => Flags'
<1> SUFFICES ASSUME Flags, [Next]_vars PROVE Flags'
  OBVIOUS
<1> USE DEF Flags, OwnWakeup, PushBack
<1>1. CASE LoopStep
  <2>1. callingPendingFunctors_' \in BOOLEAN
    BY <1>1 DEF LoopStep, OwnerQueuesEarly, Loop, While, PollWakes, PollOther, PollReturns,
       HandleRead, CallbackQueues, CallbackQuits, BeginCalling, Swap, RunFunctor, EndCalling
  <2>2. quit_' \in BOOLEAN
    BY <1>1 DEF LoopStep, OwnerQueuesEarly, Loop, While, PollWakes, PollOther, PollReturns,
       HandleRead, CallbackQueues, CallbackQuits, BeginCalling, Swap, RunFunctor, EndCalling
  <2>3. wakeup' \in BOOLEAN
    BY <1>1 DEF LoopStep, OwnerQueuesEarly, Loop, While, PollWakes, PollOther, PollReturns,
       HandleRead, CallbackQueues, CallbackQuits, BeginCalling, Swap, RunFunctor, EndCalling
  <2>4. active' \in BOOLEAN
    BY <1>1 DEF LoopStep, OwnerQueuesEarly, Loop, While, PollWakes, PollOther, PollReturns,
       HandleRead, CallbackQueues, CallbackQuits, BeginCalling, Swap, RunFunctor, EndCalling
  <2> QED BY <2>1, <2>2, <2>3, <2>4
<1>2. ASSUME NEW t \in Threads, QueueInLoop(t) \/ Quit(t) \/ Wakeup(t) PROVE Flags'
  BY <1>2 DEF QueueInLoop, Quit, Wakeup
<1>3. CASE UNCHANGED vars
  BY <1>3 DEF vars
<1> QED BY <1>1, <1>2, <1>3 DEF Next

LEMMA DataStep == Data /\ [Next]_vars => Data'
<1> SUFFICES ASSUME Data, [Next]_vars PROVE Data'
  OBVIOUS
<1> USE EventLoopAssumption DEF Data, PushBack
<1>1. CASE OwnerQueuesEarly
  BY <1>1 DEF OwnerQueuesEarly
<1>2. CASE Loop \/ While
  BY <1>2 DEF Loop, While
<1>3. CASE PollWakes \/ PollOther \/ HandleRead
  BY <1>3 DEF PollWakes, PollOther, PollReturns, HandleRead
<1>4. CASE CallbackQueues
  BY <1>4 DEF CallbackQueues
<1>5. CASE CallbackQuits
  BY <1>5 DEF CallbackQuits
<1>6. CASE BeginCalling \/ Swap \/ EndCalling
  <2>1. CASE BeginCalling
    BY <2>1 DEF BeginCalling
  <2>2. CASE Swap
    <3>1. pendingFunctors_' \in Seq(Nat) /\ functors' \in Seq(Nat) /\ loopPc' = "run"
      BY <2>2 DEF Swap
    <3> QED BY <2>2, <3>1 DEF Swap
  <2>3. CASE EndCalling
    BY <2>3 DEF EndCalling
  <2> QED BY <1>6, <2>1, <2>2, <2>3
<1>7. CASE RunFunctor
  <2>1. last' \in Nat /\ functors' \in Seq(Nat)
    BY <1>7 DEF RunFunctor
  <2>2. queued' \in Nat /\ pendingFunctors_' \in Seq(Nat)
    <3>1. CASE PushBack
      BY <3>1
    <3>2. CASE UNCHANGED <<pendingFunctors_, queued, wakeup>>
      BY <3>2
    <3> QED BY Zenon, <1>7, <3>1, <3>2 DEF RunFunctor
  <2> QED BY <1>7, <2>1, <2>2 DEF RunFunctor
<1>8. ASSUME NEW t \in Threads, QueueInLoop(t) PROVE Data'
  BY <1>8 DEF QueueInLoop
<1>9. ASSUME NEW t \in Threads, Quit(t) \/ Wakeup(t) PROVE Data'
  BY <1>9 DEF Quit, Wakeup
<1>10. CASE UNCHANGED vars
  BY <1>10 DEF vars
<1> QED
  BY <1>1, <1>2, <1>3, <1>4, <1>5, <1>6, <1>7, <1>8, <1>9, <1>10 DEF Next, LoopStep

(* The state keeps its type.                                               *)
THEOREM EventLoopTypeOK == Spec => []TypeOK
<1>1. Init => Flags
  BY DEF Init, Flags
<1>2. Init => Data
  BY DEF Init, Data
<1> QED BY <1>1, <1>2, TypeParts, FlagsStep, DataStep, PTL DEF Spec

-----------------------------------------------------------------------------
LEMMA CallingFlagStep == TypeOK /\ CallingFlag /\ [Next]_vars => CallingFlag'
<1> SUFFICES ASSUME TypeOK, CallingFlag, [Next]_vars PROVE CallingFlag'
  OBVIOUS
<1> USE DEF TypeOK, CallingFlag
<1>1. CASE OwnerQueuesEarly \/ Loop \/ While
  BY <1>1 DEF OwnerQueuesEarly, Loop, While
<1>2. CASE PollWakes \/ PollOther \/ HandleRead \/ CallbackQueues \/ CallbackQuits
  BY <1>2 DEF PollWakes, PollOther, PollReturns, HandleRead, CallbackQueues, CallbackQuits
<1>3. CASE BeginCalling \/ Swap \/ EndCalling
  BY <1>3 DEF BeginCalling, Swap, EndCalling
<1>4. CASE RunFunctor
  BY <1>4 DEF RunFunctor
<1>5. ASSUME NEW t \in Threads, QueueInLoop(t) \/ Quit(t) \/ Wakeup(t) PROVE CallingFlag'
  BY <1>5 DEF QueueInLoop, Quit, Wakeup
<1>6. CASE UNCHANGED vars
  BY <1>6 DEF vars
<1> QED BY <1>1, <1>2, <1>3, <1>4, <1>5, <1>6 DEF Next, LoopStep

(* A thread that is between its push and its write still owes the wakeup.  *)
LEMMA WakeupOwedStep ==
  ASSUME TypeOK, CallingFlag, WakeupOwed, [Next]_vars
  PROVE  WakeupOwed'
<1> USE DEF WakeupOwed
<1>1. CASE OwnerQueuesEarly
  <2>1. Elements(pendingFunctors_') = Elements(pendingFunctors_) \cup {queued'}
    BY <1>1, ElementsAppend DEF OwnerQueuesEarly, PushBack, TypeOK
  <2>2. Waking => Waking'
    BY <1>1 DEF OwnerQueuesEarly, Waking
  <2> QED BY <1>1, <2>1, <2>2 DEF OwnerQueuesEarly, OwnWakeup
<1>2. CASE Loop \/ While
  BY <1>2 DEF Loop, While, Waking
<1>3. CASE PollWakes \/ PollOther \/ HandleRead \/ CallbackQueues \/ CallbackQuits \/ BeginCalling
  BY <1>3 DEF PollWakes, PollOther, PollReturns, HandleRead, CallbackQueues, CallbackQuits,
     BeginCalling
<1>4. CASE Swap
  BY <1>4, ElementsEmpty DEF Swap
<1>5. CASE RunFunctor
  <2>1. CASE PushBack /\ OwnWakeup
    BY <1>5, <2>1 DEF RunFunctor, OwnWakeup, CallingFlag, TypeOK
  <2>2. CASE UNCHANGED <<pendingFunctors_, queued, wakeup>>
    BY <1>5, <2>2 DEF RunFunctor, Waking
  <2> QED BY <1>5, <2>1, <2>2 DEF RunFunctor
<1>6. CASE EndCalling
  BY <1>6 DEF EndCalling, Waking
<1>7. ASSUME NEW t \in Threads, QueueInLoop(t) \/ Quit(t) PROVE WakeupOwed'
  <2>1. pc'[t] = "waking"
    BY <1>7 DEF QueueInLoop, Quit, TypeOK
  <2> QED BY <2>1 DEF Waking
<1>8. ASSUME NEW t \in Threads, Wakeup(t) PROVE WakeupOwed'
  BY <1>8 DEF Wakeup
<1>9. CASE UNCHANGED vars
  BY <1>9 DEF vars, Waking
<1> QED
  BY <1>1, <1>2, <1>3, <1>4, <1>5, <1>6, <1>7, <1>8, <1>9 DEF Next, LoopStep

LEMMA NoLostWakeupStep ==
  ASSUME TypeOK, WakeupOwed', NoLostWakeup, [Next]_vars
  PROVE  NoLostWakeup'
<1> SUFFICES ASSUME (loopPc = "poll")', quit_' PROVE (wakeup \/ Waking)'
  BY DEF NoLostWakeup, WakeupOwed
<1>1. CASE LoopStep
  BY <1>1 DEF LoopStep, OwnerQueuesEarly, Loop, While, PollWakes, PollOther, PollReturns,
     HandleRead, CallbackQueues, CallbackQuits, BeginCalling, Swap, RunFunctor, EndCalling
<1>2. ASSUME NEW t \in Threads, QueueInLoop(t) \/ Quit(t) PROVE Waking'
  BY <1>2 DEF QueueInLoop, Quit, TypeOK, Waking
<1>3. ASSUME NEW t \in Threads, Wakeup(t) PROVE wakeup'
  BY <1>3 DEF Wakeup
<1>4. CASE UNCHANGED vars
  BY <1>4 DEF vars, NoLostWakeup, Waking
<1> QED BY <1>1, <1>2, <1>3, <1>4 DEF Next

(* The loop never waits in the poller on work nobody will wake it for.     *)
THEOREM NoLostWakeupAlways == Spec => []NoLostWakeup
<1>1. Init => CallingFlag /\ WakeupOwed /\ NoLostWakeup
  BY ElementsEmpty DEF Init, CallingFlag, WakeupOwed, NoLostWakeup
<1>2. TypeOK /\ CallingFlag /\ WakeupOwed /\ NoLostWakeup /\ [Next]_vars
        => (CallingFlag /\ WakeupOwed /\ NoLostWakeup)'
  BY CallingFlagStep, WakeupOwedStep, NoLostWakeupStep
<1> QED BY <1>1, <1>2, EventLoopTypeOK, PTL DEF Spec
-----------------------------------------------------------------------------
(* Two halves of one queue: what is appended to the second half is         *)
(* appended to the whole, and the head of the first half is the head of    *)
(* the whole.                                                              *)
LEMMA AppendToWhole ==
  ASSUME NEW S, NEW s \in Seq(S), NEW t \in Seq(S), NEW x \in S
  PROVE  s \o Append(t, x) = Append(s \o t, x)
<1>1. Append(t, x) = t \o <<x>> /\ Append(s \o t, x) = (s \o t) \o <<x>>
  BY AppendIsConcat, ConcatProperties
<1>2. <<x>> \in Seq(S)
  OBVIOUS
<1> QED BY <1>1, <1>2, ConcatAssociative

LEMMA HeadOfWhole ==
  ASSUME NEW S, NEW s \in Seq(S), NEW t \in Seq(S), s # <<>>
  PROVE  /\ s \o t # <<>>
         /\ Head(s \o t) = Head(s)
         /\ Tail(s \o t) = Tail(s) \o t
         /\ Tail(s) \in Seq(S)
<1> DEFINE w == s \o t
           a == Tail(s)
<1>1. w \in Seq(S) /\ Len(w) = Len(s) + Len(t) /\ Len(s) \in Nat /\ Len(t) \in Nat
  BY ConcatProperties, LenProperties
<1>2. \A i \in 1 .. Len(s) + Len(t) : w[i] = IF i <= Len(s) THEN s[i] ELSE t[i - Len(s)]
  BY ConcatProperties
<1>3. Len(s) >= 1
  BY EmptySeq, <1>1
<1>4. w # <<>>
  BY <1>1, <1>3, EmptySeq
<1>5. Head(w) = w[1] /\ Head(s) = s[1]
  OBVIOUS
<1>6. a \in Seq(S) /\ Len(a) = Len(s) - 1 /\ \A i \in 1 .. Len(a) : a[i] = s[i + 1]
  BY HeadTailProperties
<1>7. /\ Tail(w) \in Seq(S) /\ Len(Tail(w)) = Len(w) - 1
      /\ \A i \in 1 .. Len(Tail(w)) : Tail(w)[i] = w[i + 1]
  BY <1>1, <1>4, HeadTailProperties
<1>8. /\ a \o t \in Seq(S) /\ Len(a \o t) = Len(a) + Len(t)
      /\ \A i \in 1 .. Len(a) + Len(t) : (a \o t)[i] = IF i <= Len(a) THEN a[i] ELSE t[i - Len(a)]
  BY <1>6, ConcatProperties
<1> HIDE DEF w, a
<1>9. Len(Tail(w)) = Len(a \o t)
  BY <1>1, <1>6, <1>7, <1>8
<1>10. ASSUME NEW i \in 1 .. Len(Tail(w)) PROVE Tail(w)[i] = (a \o t)[i]
  <2>1. i \in 1 .. Len(a) + Len(t) /\ i + 1 \in 1 .. Len(s) + Len(t) /\ Len(a) = Len(s) - 1
    BY <1>1, <1>3, <1>6, <1>7
  <2>2. Tail(w)[i] = w[i + 1]
    BY <1>7
  <2>3. CASE i <= Len(a)
    BY <2>1, <2>2, <2>3, <1>1, <1>2, <1>6, <1>8
  <2>4. CASE ~(i <= Len(a))
    <3>1. ~(i + 1 <= Len(s)) /\ (i + 1) - Len(s) = i - Len(a)
      BY <2>1, <2>4, <1>1
    <3> QED BY <2>1, <2>2, <2>4, <3>1, <1>2, <1>8
  <2> QED BY <2>3, <2>4
<1>11. Tail(w) = a \o t
  BY <1>7, <1>8, <1>9, <1>10, SeqEqual
<1> QED BY <1>1, <1>2, <1>3, <1>4, <1>5, <1>6, <1>11 DEF w, a

(* PushBack hands the next task to the abstract queue.                     *)
LEMMA PushBackSubmits ==
  ASSUME TypeOK, PushBack, UNCHANGED <<functors, last>>
  PROVE  Tasks!Submit
<1>1. queued' = queued + 1 /\ pendingFunctors_' = Append(pendingFunctors_, queued') /\ queued' \in Nat
  BY DEF PushBack, TypeOK
<1>2. functors' \o pendingFunctors_' = Append(functors \o pendingFunctors_, queued')
  BY <1>1, AppendToWhole, SMTT(30) DEF TypeOK
<1> QED BY <1>1, <1>2 DEF Tasks!Submit

(* A functor that runs is the head of the abstract queue, and what it      *)
(* queues goes to its end.                                                 *)
LEMMA RunFunctorRuns ==
  ASSUME TypeOK, RunFunctor
  PROVE  Tasks!Run
<1>1. /\ functors \in Seq(Nat) /\ pendingFunctors_ \in Seq(Nat) /\ functors # <<>>
      /\ functors' = Tail(functors) /\ last' = Head(functors)
  BY DEF TypeOK, RunFunctor
<1>2. /\ functors \o pendingFunctors_ # <<>>
      /\ Head(functors \o pendingFunctors_) = Head(functors)
      /\ Tail(functors \o pendingFunctors_) = functors' \o pendingFunctors_
      /\ functors' \in Seq(Nat)
  BY <1>1, HeadOfWhole
<1>3. CASE PushBack
  <2>1. queued' = queued + 1 /\ pendingFunctors_' = Append(pendingFunctors_, queued') /\ queued' \in Nat
    BY <1>3 DEF PushBack, TypeOK
  <2>2. functors' \o pendingFunctors_' = Append(functors' \o pendingFunctors_, queued')
    <3>1. functors' \in Seq(Nat) /\ pendingFunctors_ \in Seq(Nat) /\ queued' \in Nat
      BY <1>1, <1>2, <2>1
    <3>2. functors' \o Append(pendingFunctors_, queued') = Append(functors' \o pendingFunctors_, queued')
      BY <3>1, AppendToWhole
    <3> QED BY Zenon, <2>1, <3>2
  <2>3. functors' \o pendingFunctors_' = Append(Tail(functors \o pendingFunctors_), queued')
    BY Zenon, <1>2, <2>2
  <2> QED BY Zenon, <1>1, <1>2, <2>1, <2>3 DEF Tasks!Run
<1>4. CASE UNCHANGED <<pendingFunctors_, queued, wakeup>>
  BY <1>1, <1>2, <1>4 DEF Tasks!Run
<1> QED BY <1>3, <1>4 DEF RunFunctor

(* Every step of the loop and of the other threads is a step of the        *)
(* abstract queue, or leaves it as it is.                                  *)
LEMMA StepRefines ==
  ASSUME TypeOK, CallingFlag, [Next]_vars
  PROVE  [Tasks!Submit \/ Tasks!Run]_(Tasks!vars)
<1>1. CASE OwnerQueuesEarly \/ CallbackQueues
  BY <1>1, PushBackSubmits DEF OwnerQueuesEarly, CallbackQueues
<1>2. ASSUME NEW t \in Threads, QueueInLoop(t) PROVE Tasks!Submit
  BY <1>2, PushBackSubmits DEF QueueInLoop
<1>3. CASE RunFunctor
  BY <1>3, RunFunctorRuns
<1>4. CASE Swap
  <2>1. /\ functors = <<>> /\ functors' = pendingFunctors_ /\ pendingFunctors_' = <<>>
        /\ UNCHANGED <<queued, last>>
    BY <1>4 DEF Swap, CallingFlag
  <2>2. functors' \o pendingFunctors_' = functors \o pendingFunctors_
    BY <2>1, ConcatEmptySeq DEF TypeOK
  <2> QED BY <2>1, <2>2 DEF Tasks!vars
<1>5. CASE Loop \/ While \/ PollWakes \/ PollOther \/ HandleRead \/ CallbackQuits
             \/ BeginCalling \/ EndCalling
  <2>1. UNCHANGED <<functors, pendingFunctors_, queued, last>>
    BY <1>5 DEF Loop, While, PollWakes, PollOther, PollReturns, HandleRead, CallbackQuits,
       BeginCalling, EndCalling
  <2> QED BY <2>1 DEF Tasks!vars
<1>6. ASSUME NEW t \in Threads, Quit(t) \/ Wakeup(t) PROVE UNCHANGED Tasks!vars
  BY <1>6 DEF Quit, Wakeup, Tasks!vars
<1>7. CASE UNCHANGED vars
  BY <1>7 DEF vars, Tasks!vars
<1> QED BY <1>1, <1>2, <1>3, <1>4, <1>5, <1>6, <1>7 DEF Next, LoopStep

(* queueInLoop keeps its promise: the functors of all threads and of the   *)
(* callbacks run one at a time, each exactly once, in the order in which   *)
(* they were pushed, although each is pushed on one vector and run from    *)
(* another.                                                                *)
THEOREM LoopIsTaskQueue == Spec => ImplementsTaskQueue
<1>1. Init => CallingFlag /\ Tasks!Init
  <2>1. Init => (functors \o pendingFunctors_ = <<>>)
    BY ConcatEmptySeq, EmptySeq DEF Init
  <2> QED BY <2>1 DEF Init, CallingFlag, Tasks!Init
<1>2. TypeOK /\ CallingFlag /\ [Next]_vars
        => CallingFlag' /\ [Tasks!Submit \/ Tasks!Run]_(Tasks!vars)
  BY CallingFlagStep, StepRefines
<1> QED BY <1>1, <1>2, EventLoopTypeOK, PTL DEF Spec, ImplementsTaskQueue, Tasks!Spec
===============================================================================
