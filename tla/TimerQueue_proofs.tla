-------------------------- MODULE TimerQueue_proofs --------------------------
(***************************************************************************)
(* Proofs about TimerQueue for any number of threads, addresses, timers    *)
(* and intervals.                                                          *)
(***************************************************************************)
EXTENDS TimerQueue, TLAPS

(* The type in two parts, for the Boolean variable goes to another prover. *)
Sets ==
  /\ heap \in [Addrs -> Timer]
  /\ alive \subseteq Addrs
  /\ timers_ \subseteq Nat \X Addrs
  /\ activeTimers_ \subseteq Addrs \X Nat
  /\ cancelingTimers_ \subseteq Addrs \X Nat
  /\ expired \subseteq Addrs
  /\ unrun \subseteq expired

Rest ==
  /\ readAt \in Nat
  /\ timerfd_ \in Nat
  /\ now \in Nat \ {0}
  /\ numCreated_ \in Nat
  /\ pending \in Seq(Functor)
  /\ pc \in [Threads -> (Addrs \X Nat) \cup {NULL}]
  /\ ids \subseteq Addrs \X Nat
  /\ ran \subseteq Nat
  /\ cancelled \subseteq Nat
  /\ early \subseteq Nat

Flag == callingExpiredTimers_ \in BOOLEAN

LEMMA TypeParts == TypeOK <=> Sets /\ Rest /\ Flag
  BY Zenon DEF TypeOK, Sets, Rest, Flag

(* The id of the timer at an address. *)
LEMMA IdType ==
  ASSUME Sets, NEW a \in Addrs
  PROVE  /\ Id(a) \in Addrs \X Nat
         /\ heap[a].sequence \in Nat /\ heap[a].expiration \in Nat /\ heap[a].interval \in Nat
  BY DEF Sets, Id, Timer

LEMMA AddKeepsType ==
  ASSUME Sets, Rest, NEW a \in Addrs, NEW n \in Nat, NEW when \in Nat,
         AddTimerInLoop(a, n, when)
  PROVE  /\ timers_' \subseteq Nat \X Addrs
         /\ activeTimers_' \subseteq Addrs \X Nat
         /\ timerfd_' \in Nat
  BY DEF Sets, Rest, AddTimerInLoop, FiresAt

LEMMA CancelKeepsType ==
  ASSUME Sets, Rest, NEW id \in Addrs \X Nat, CancelInLoop(id)
  PROVE  /\ timers_' \subseteq timers_
         /\ activeTimers_' \subseteq activeTimers_
         /\ alive' \subseteq alive
         /\ cancelingTimers_' \subseteq Addrs \X Nat
         /\ cancelled' \subseteq Nat
         /\ early' \subseteq Nat
<1>1. id[2] \in Nat
  OBVIOUS
<1>2. cancelled' \subseteq Nat /\ early' \subseteq Nat
  BY <1>1 DEF CancelInLoop, Noted, Rest
<1> QED BY <1>2 DEF CancelInLoop, Sets

LEMMA NewKeepsType ==
  ASSUME Sets, Rest, NEW a \in Addrs, NEW when \in Nat, NEW interval \in Nat,
         NewTimer(a, when, interval)
  PROVE  /\ heap' \in [Addrs -> Timer]
         /\ alive' \subseteq Addrs
         /\ numCreated_' \in Nat
  BY DEF Sets, Rest, NewTimer, Timer

LEMMA LoopAddsKeepsType ==
  ASSUME Sets, Rest, LoopAdds
  PROVE  /\ heap' \in [Addrs -> Timer]
         /\ alive' \subseteq Addrs
         /\ numCreated_' \in Nat
         /\ timers_' \subseteq Nat \X Addrs
         /\ activeTimers_' \subseteq Addrs \X Nat
         /\ timerfd_' \in Nat
         /\ ids' \subseteq Addrs \X Nat
         /\ UNCHANGED <<cancelingTimers_, cancelled, early>>
<1>1. PICK a \in Addrs, when \in now .. MaxTime, interval \in Intervals :
        /\ NewTimer(a, when, interval)
        /\ AddTimerInLoop(a, numCreated_', when)
        /\ ids' = ids \cup {<<a, numCreated_'>>}
        /\ UNCHANGED <<cancelingTimers_, cancelled, early>>
  BY DEF LoopAdds
<1>2. when \in Nat /\ interval \in Nat
  BY TimerQueueAssumption DEF Rest
<1>3. heap' \in [Addrs -> Timer] /\ alive' \subseteq Addrs /\ numCreated_' \in Nat
  BY <1>1, <1>2, NewKeepsType
<1>4. timers_' \subseteq Nat \X Addrs /\ activeTimers_' \subseteq Addrs \X Nat /\ timerfd_' \in Nat
  BY <1>1, <1>2, <1>3, AddKeepsType
<1>5. ids' \subseteq Addrs \X Nat
  BY <1>1, <1>3 DEF Rest
<1> QED BY <1>1, <1>3, <1>4, <1>5

LEMMA LoopCancelsKeepsType ==
  ASSUME Sets, Rest, LoopCancels
  PROVE  /\ timers_' \subseteq Nat \X Addrs
         /\ activeTimers_' \subseteq Addrs \X Nat
         /\ alive' \subseteq Addrs
         /\ cancelingTimers_' \subseteq Addrs \X Nat
         /\ cancelled' \subseteq Nat
         /\ early' \subseteq Nat
         /\ UNCHANGED <<heap, timerfd_, numCreated_, ids>>
<1>1. PICK id \in ids : CancelInLoop(id) /\ UNCHANGED <<heap, timerfd_, numCreated_, ids>>
  BY DEF LoopCancels
<1>2. id \in Addrs \X Nat
  BY DEF Rest
<1>3. /\ timers_' \subseteq timers_ /\ activeTimers_' \subseteq activeTimers_ /\ alive' \subseteq alive
      /\ cancelingTimers_' \subseteq Addrs \X Nat /\ cancelled' \subseteq Nat /\ early' \subseteq Nat
  BY <1>1, <1>2, CancelKeepsType
<1> QED BY <1>1, <1>3 DEF Sets

LEMMA ResetKeepsType ==
  ASSUME Sets, Rest, Reset
  PROVE  Sets' /\ Rest'
<1>1. Again \subseteq Addrs
  BY DEF Again, Sets
<1>2. heap' \in [Addrs -> Timer]
  <2>1. ASSUME NEW a \in Addrs PROVE [heap[a] EXCEPT !.expiration = readAt + heap[a].interval] \in Timer
    <3>1. heap[a] \in Timer
      BY DEF Sets
    <3>2. readAt + heap[a].interval \in Nat
      BY IdType DEF Rest
    <3> QED BY <3>1, <3>2 DEF Timer
  <2>2. \A a \in Addrs : heap[a] \in Timer
    BY DEF Sets
  <2> QED BY <2>1, <2>2 DEF Reset
<1>3. timers_' \subseteq Nat \X Addrs
  <2>1. \A a \in Again : readAt + heap[a].interval \in Nat
    BY <1>1, IdType DEF Rest
  <2> QED BY <1>1, <2>1 DEF Reset, Sets
<1>4. activeTimers_' \subseteq Addrs \X Nat
  BY <1>1, IdType DEF Reset, Sets
<1>5. timerfd_' \in Nat
  BY <1>3 DEF Reset, Rest, FiresAt, Earliest_Exists
<1>6. alive' \subseteq Addrs /\ expired' = {} /\ unrun' = {} /\ cancelingTimers_' = cancelingTimers_
  BY DEF Reset, Sets
<1>7. Sets'
  BY <1>2, <1>3, <1>4, <1>6 DEF Sets
<1>8. Rest'
  BY <1>5 DEF Rest, Reset
<1> QED BY <1>7, <1>8

LEMMA PartsStep == Sets /\ Rest /\ [Next]_vars => Sets' /\ Rest'
<1> SUFFICES ASSUME Sets, Rest, [Next]_vars PROVE Sets' /\ Rest'
  OBVIOUS
<1>1. ASSUME NEW t \in Threads, NEW a \in Addrs, NEW when \in now .. MaxTime,
             NEW interval \in Intervals, AddTimer(t, a, when, interval)
      PROVE  Sets' /\ Rest'
  <2>1. when \in Nat /\ interval \in Nat
    BY TimerQueueAssumption DEF Rest
  <2>2. heap' \in [Addrs -> Timer] /\ alive' \subseteq Addrs /\ numCreated_' \in Nat
    BY <1>1, <2>1, NewKeepsType DEF AddTimer
  <2>3. <<"addTimerInLoop", <<a, numCreated_'>>>> \in Functor /\ <<a, numCreated_'>> \in Addrs \X Nat
    BY <2>2 DEF Functor
  <2>4. pending' \in Seq(Functor)
    BY <1>1, <2>3 DEF AddTimer, Rest
  <2>5. pc' \in [Threads -> (Addrs \X Nat) \cup {NULL}]
    BY <1>1, <2>3 DEF AddTimer, Rest
  <2>6. Sets'
    BY <1>1, <2>2 DEF AddTimer, Sets
  <2>7. Rest'
    BY <1>1, <2>2, <2>4, <2>5 DEF AddTimer, Rest
  <2> QED BY <2>6, <2>7
<1>2. ASSUME NEW t \in Threads, AddTimerReturns(t) PROVE Sets' /\ Rest'
  <2>1. pc[t] \in Addrs \X Nat
    BY <1>2 DEF AddTimerReturns, Rest
  <2>2. Id(pc[t][1]) \in Addrs \X Nat
    BY <2>1, IdType
  <2>3. pc' \in [Threads -> (Addrs \X Nat) \cup {NULL}]
    BY <1>2 DEF AddTimerReturns, Rest
  <2>4. Sets'
    BY <1>2 DEF AddTimerReturns, Sets
  <2>5. Rest'
    BY <1>2, <2>2, <2>3 DEF AddTimerReturns, Rest
  <2> QED BY <2>4, <2>5
<1>3. ASSUME NEW t \in Threads, NEW id \in ids, Cancel(t, id) PROVE Sets' /\ Rest'
  <2>1. <<"cancelInLoop", id>> \in Functor
    BY DEF Functor, Rest
  <2>2. pending' \in Seq(Functor)
    BY <1>3, <2>1 DEF Cancel, Rest
  <2>3. Sets'
    BY <1>3 DEF Cancel, Sets
  <2>4. Rest'
    BY <1>3, <2>2 DEF Cancel, Rest
  <2> QED BY <2>3, <2>4
<1>4. CASE RunFunctor
  <2> DEFINE id == Head(pending)[2]
  <2>1. id \in Addrs \X Nat /\ pending' \in Seq(Functor)
    BY <1>4 DEF RunFunctor, Rest, Functor
  <2>2. CASE Head(pending)[1] = "addTimerInLoop"
    <3>1. AddTimerInLoop(id[1], id[2], heap[id[1]].expiration) /\ UNCHANGED <<alive, cancelingTimers_, cancelled, early>>
      BY <1>4, <2>2 DEF RunFunctor
    <3>2. timers_' \subseteq Nat \X Addrs /\ activeTimers_' \subseteq Addrs \X Nat /\ timerfd_' \in Nat
      BY <2>1, <3>1, AddKeepsType, IdType
    <3>3. Sets'
      BY <1>4, <3>1, <3>2 DEF RunFunctor, Sets
    <3>4. Rest'
      BY <1>4, <2>1, <3>1, <3>2 DEF RunFunctor, Rest
    <3> QED BY <3>3, <3>4
  <2>3. CASE Head(pending)[1] = "cancelInLoop"
    <3>1. CancelInLoop(id) /\ UNCHANGED timerfd_
      BY <1>4, <2>3 DEF RunFunctor
    <3>2. /\ timers_' \subseteq timers_ /\ activeTimers_' \subseteq activeTimers_ /\ alive' \subseteq alive
          /\ cancelingTimers_' \subseteq Addrs \X Nat /\ cancelled' \subseteq Nat /\ early' \subseteq Nat
      BY <2>1, <3>1, CancelKeepsType
    <3>3. Sets'
      BY <1>4, <3>2 DEF RunFunctor, Sets
    <3>4. Rest'
      BY <1>4, <2>1, <3>1, <3>2 DEF RunFunctor, Rest
    <3> QED BY <3>3, <3>4
  <2> QED BY <1>4, <2>2, <2>3 DEF RunFunctor
<1>5. CASE OtherCallback
  <2>1. UNCHANGED <<expired, unrun, readAt, now, pending, pc, ran>>
    BY <1>5 DEF OtherCallback
  <2>2. CASE LoopAdds
    BY <2>1, <2>2, LoopAddsKeepsType DEF Sets, Rest
  <2>3. CASE LoopCancels
    BY <2>1, <2>3, LoopCancelsKeepsType DEF Sets, Rest
  <2> QED BY <1>5, <2>2, <2>3 DEF OtherCallback
<1>6. CASE HandleRead
  <2>1. expired' \subseteq Addrs
    BY <1>6 DEF HandleRead, Sets
  <2>2. timers_' \subseteq timers_ /\ activeTimers_' \subseteq activeTimers_
    BY <1>6 DEF HandleRead
  <2>3. Sets'
    BY <1>6, <2>1, <2>2 DEF HandleRead, Sets
  <2>4. Rest'
    BY <1>6 DEF HandleRead, Rest
  <2> QED BY <2>3, <2>4
<1>7. ASSUME NEW a \in Addrs, RunCallback(a) PROVE Sets' /\ Rest'
  <2>1. /\ UNCHANGED <<expired, readAt, now, pending, pc>>
        /\ unrun' \subseteq expired
        /\ ran' \subseteq Nat
    BY <1>7, IdType DEF RunCallback, Sets, Rest
  <2>2. CASE LoopAdds
    BY <2>1, <2>2, LoopAddsKeepsType DEF Sets, Rest
  <2>3. CASE LoopCancels
    BY <2>1, <2>3, LoopCancelsKeepsType DEF Sets, Rest
  <2>4. CASE UNCHANGED <<heap, alive, timers_, activeTimers_, cancelingTimers_, timerfd_, numCreated_, ids, cancelled, early>>
    BY <2>1, <2>4 DEF Sets, Rest
  <2> QED BY <1>7, <2>2, <2>3, <2>4 DEF RunCallback
<1>8. CASE Reset
  BY <1>8, ResetKeepsType
<1>9. CASE Tick
  BY <1>9 DEF Tick, Sets, Rest
<1>10. CASE UNCHANGED vars
  BY <1>10 DEF vars, Sets, Rest
<1> QED
  BY <1>1, <1>2, <1>3, <1>4, <1>5, <1>6, <1>7, <1>8, <1>9, <1>10 DEF Next

LEMMA FlagStep == Flag /\ [Next]_vars => Flag'
<1> SUFFICES ASSUME Flag, [Next]_vars PROVE Flag'
  OBVIOUS
<1> QED
  BY DEF Flag, Next, vars, AddTimer, AddTimerReturns, Cancel, RunFunctor, OtherCallback, HandleRead,
     RunCallback, Reset, Tick

(* The state keeps its type.                                               *)
THEOREM TimerQueueTypeOK == Spec => []TypeOK
<1>1. Init => Sets
  BY DEF Init, Sets, Timer
<1>2. Init => Rest
  BY DEF Init, Rest
<1>3. Init => Flag
  BY DEF Init, Flag
<1> QED BY <1>1, <1>2, <1>3, TypeParts, PartsStep, FlagStep, PTL DEF Spec

-----------------------------------------------------------------------------
(* The inductive invariant.                                                *)
TimersInv == SetsAgree /\ FunctorsFresh /\ BatchWhileCalling /\ NoLeak

(* Adding a timer that lives, is in no set and in no batch.                *)
LEMMA AddAgrees ==
  ASSUME Sets, Rest, SetsAgree,
         NEW a \in Addrs, NEW n \in Nat, NEW when \in Nat, AddTimerInLoop(a, n, when),
         heap'[a].sequence = n, heap'[a].expiration = when,
         \A b \in alive : heap'[b] = heap[b],
         alive \subseteq alive', a \in alive', a \notin expired, expired' = expired
  PROVE  SetsAgree'
<1>1. ASSUME NEW e \in timers_'
      PROVE  e[2] \in alive' /\ e[1] = heap'[e[2]].expiration /\ InActive(e[2])'
  <2>1. CASE e \in timers_
    BY <2>1 DEF SetsAgree, AddTimerInLoop, InActive, Id
  <2>2. CASE e = <<when, a>>
    BY <2>2 DEF AddTimerInLoop, InActive, Id
  <2> QED BY <2>1, <2>2 DEF AddTimerInLoop
<1>2. ASSUME NEW id \in activeTimers_'
      PROVE  id[1] \in alive' /\ id[2] = heap'[id[1]].sequence /\ InTimers(id[1])'
  <2>1. CASE id \in activeTimers_
    BY <2>1 DEF SetsAgree, AddTimerInLoop, InTimers
  <2>2. CASE id = <<a, n>>
    BY <2>2 DEF AddTimerInLoop, InTimers
  <2> QED BY <2>1, <2>2 DEF AddTimerInLoop
<1>3. ASSUME NEW b \in expired' PROVE b \in alive' /\ ~InActive(b)'
  BY DEF SetsAgree, AddTimerInLoop, InActive, Id
<1> QED BY <1>1, <1>2, <1>3 DEF SetsAgree

(* Cancelling deletes a timer of the sets, or none.                        *)
LEMMA CancelAgrees ==
  ASSUME Sets, SetsAgree, NEW id \in Addrs \X Nat, CancelInLoop(id),
         heap' = heap, expired' = expired
  PROVE  /\ SetsAgree'
         /\ \A a \in Addrs : InActive(a)' => InActive(a)
         /\ \A a \in alive \ alive' : InActive(a)
         /\ \A a \in alive' : InActive(a) => InActive(a)'
         /\ alive' \subseteq alive
<1>1. CASE id \in activeTimers_
  <2>1. /\ timers_' = timers_ \ {<<heap[id[1]].expiration, id[1]>>}
        /\ activeTimers_' = activeTimers_ \ {id}
        /\ alive' = alive \ {id[1]}
    BY <1>1 DEF CancelInLoop
  <2>2. id = Id(id[1]) /\ InActive(id[1]) /\ id[1] \in Addrs
    BY <1>1 DEF SetsAgree, Id, InActive
  <2>3. ASSUME NEW e \in timers_'
        PROVE  e[2] \in alive' /\ e[1] = heap'[e[2]].expiration /\ InActive(e[2])'
    <3>1. e \in timers_ /\ e[2] \in alive /\ e[1] = heap[e[2]].expiration /\ Id(e[2]) \in activeTimers_
      BY <2>1 DEF SetsAgree, InActive
    <3>2. e = <<e[1], e[2]>>
      BY <3>1 DEF Sets
    <3>3. e[2] # id[1]
      BY <2>1, <3>1, <3>2
    <3>4. Id(e[2]) # id
      BY <3>3 DEF Id
    <3> QED BY <2>1, <3>1, <3>3, <3>4 DEF InActive, Id
  <2>4. ASSUME NEW j \in activeTimers_'
        PROVE  j[1] \in alive' /\ j[2] = heap'[j[1]].sequence /\ InTimers(j[1])'
    <3>1. j \in activeTimers_ /\ j # id /\ j[1] \in alive /\ j[2] = heap[j[1]].sequence /\ InTimers(j[1])
      BY <2>1 DEF SetsAgree
    <3>2. j = <<j[1], j[2]>>
      BY <3>1 DEF Sets
    <3>3. j[1] # id[1]
      BY <2>2, <3>1, <3>2 DEF Id
    <3> QED BY <2>1, <3>1, <3>3 DEF InTimers
  <2>5. ASSUME NEW b \in expired' PROVE b \in alive' /\ ~InActive(b)'
    BY <2>1, <2>2 DEF SetsAgree, InActive, Id
  <2>6. SetsAgree'
    BY <2>3, <2>4, <2>5 DEF SetsAgree
  <2>7. \A a \in Addrs : InActive(a)' => InActive(a)
    BY <2>1 DEF InActive, Id
  <2>8. \A a \in alive' : InActive(a) => InActive(a)'
    BY <2>1, <2>2 DEF InActive, Id
  <2> QED BY <2>1, <2>2, <2>6, <2>7, <2>8
<1>2. CASE id \notin activeTimers_
  <2>1. UNCHANGED <<timers_, activeTimers_, alive>>
    BY <1>2 DEF CancelInLoop
  <2> QED BY <2>1 DEF SetsAgree, InActive, InTimers, Id
<1> QED BY <1>1, <1>2

(* A callback of the loop adds a timer.                                    *)
LEMMA LoopAddsInv ==
  ASSUME Sets, Rest, TimersInv, LoopAdds, UNCHANGED <<pending, expired, callingExpiredTimers_>>
  PROVE  TimersInv'
<1>1. PICK a \in Addrs, when \in now .. MaxTime, interval \in Intervals :
        NewTimer(a, when, interval) /\ AddTimerInLoop(a, numCreated_', when)
  BY DEF LoopAdds
<1>2. when \in Nat /\ interval \in Nat /\ numCreated_' \in Nat
  BY <1>1, TimerQueueAssumption DEF Rest, NewTimer
<1>3. /\ a \notin alive
      /\ heap'[a].sequence = numCreated_' /\ heap'[a].expiration = when
      /\ \A b \in Addrs : b # a => heap'[b] = heap[b]
      /\ alive' = alive \cup {a}
  BY <1>1 DEF NewTimer, Sets
<1>4. \A b \in alive : heap'[b] = heap[b] /\ b # a
  BY <1>3 DEF Sets
<1>5. a \notin expired
  BY <1>3 DEF TimersInv, SetsAgree
<1>6. SetsAgree'
  BY <1>1, <1>2, <1>3, <1>4, <1>5, AddAgrees DEF TimersInv
<1>7. /\ \A b \in alive : InActive(b)' <=> InActive(b)
      /\ InActive(a)'
  BY <1>1, <1>3, <1>4 DEF InActive, Id, AddTimerInLoop
<1>8. FunctorsFresh'
  BY <1>3, <1>4, <1>7 DEF TimersInv, FunctorsFresh
<1>9. NoLeak'
  BY <1>3, <1>4, <1>7 DEF TimersInv, NoLeak, AddQueued, Id
<1> QED BY <1>6, <1>8, <1>9 DEF TimersInv, BatchWhileCalling

(* A callback of the loop cancels a timer.                                 *)
LEMMA LoopCancelsInv ==
  ASSUME Sets, Rest, TimersInv, LoopCancels, UNCHANGED <<pending, expired, callingExpiredTimers_>>
  PROVE  TimersInv'
<1>1. PICK id \in ids : CancelInLoop(id) /\ UNCHANGED <<heap, timerfd_, numCreated_, ids>>
  BY DEF LoopCancels
<1>2. /\ SetsAgree'
      /\ \A a \in Addrs : InActive(a)' => InActive(a)
      /\ \A a \in alive \ alive' : InActive(a)
      /\ \A a \in alive' : InActive(a) => InActive(a)'
      /\ alive' \subseteq alive
  BY <1>1, CancelAgrees DEF TimersInv, Rest
<1>3. FunctorsFresh'
  BY <1>1, <1>2 DEF TimersInv, FunctorsFresh, Sets
<1>4. NoLeak'
  BY <1>1, <1>2 DEF TimersInv, NoLeak, AddQueued, Id
<1> QED BY <1>2, <1>3, <1>4 DEF TimersInv, BatchWhileCalling

(* A thread's addTimer queues a timer nothing else knows yet.              *)
LEMMA AddTimerInv ==
  ASSUME Sets, Rest, TimersInv,
         NEW t \in Threads, NEW a \in Addrs, NEW when \in now .. MaxTime, NEW interval \in Intervals,
         AddTimer(t, a, when, interval)
  PROVE  TimersInv'
<1> DEFINE f == <<"addTimerInLoop", <<a, numCreated_'>>>>
<1>1. /\ a \notin alive
      /\ heap'[a].sequence = numCreated_'
      /\ \A b \in Addrs : b # a => heap'[b] = heap[b]
      /\ alive' = alive \cup {a}
      /\ pending' = Append(pending, f)
      /\ UNCHANGED <<timers_, activeTimers_, expired, callingExpiredTimers_>>
  BY DEF AddTimer, NewTimer, Sets
<1>2. \A b \in alive : heap'[b] = heap[b] /\ b # a
  BY <1>1 DEF Sets
<1>3. a \notin expired
  BY <1>1 DEF TimersInv, SetsAgree
<1>4. SetsAgree'
  BY <1>1, <1>2 DEF TimersInv, SetsAgree, InActive, InTimers, Id
<1>5. (\A b \in alive : InActive(b)' <=> InActive(b)) /\ ~InActive(a)'
  BY <1>1, <1>2 DEF TimersInv, SetsAgree, InActive, Id
<1>6. /\ Len(pending') = Len(pending) + 1
      /\ pending'[Len(pending) + 1] = f
      /\ \A i \in 1 .. Len(pending) : pending'[i] = pending[i]
      /\ Len(pending) \in Nat
  BY <1>1 DEF Rest
<1>7. \A i \in 1 .. Len(pending) : pending[i] # f
  BY <1>1 DEF TimersInv, FunctorsFresh
<1>8. FunctorsFresh'
  <2> SUFFICES ASSUME NEW i \in 1 .. Len(pending'), pending'[i][1] = "addTimerInLoop"
               PROVE  /\ pending'[i][2][1] \in alive' \ expired'
                      /\ pending'[i][2][2] = heap'[pending'[i][2][1]].sequence
                      /\ <<pending'[i][2][1], heap'[pending'[i][2][1]].sequence>> \notin activeTimers_'
                      /\ \A j \in 1 .. Len(pending') : pending'[j] = pending'[i] => j = i
    BY DEF FunctorsFresh, InActive, Id
  <2>1. CASE i = Len(pending) + 1
    <3>1. pending'[i] = f /\ f[2][1] = a /\ f[2][2] = numCreated_'
      BY <1>6, <2>1
    <3>2. \A j \in 1 .. Len(pending') : pending'[j] = pending'[i] => j = i
      BY <1>6, <1>7, <2>1, <3>1
    <3> QED BY <1>1, <1>3, <1>5, <3>1, <3>2 DEF InActive, Id
  <2>2. CASE i \in 1 .. Len(pending)
    <3>1. pending'[i] = pending[i] /\ pending[i] # f
      BY <1>6, <1>7, <2>2
    <3>2. /\ pending[i][2][1] \in alive \ expired
          /\ pending[i][2][2] = heap[pending[i][2][1]].sequence
          /\ ~InActive(pending[i][2][1])
          /\ \A j \in 1 .. Len(pending) : pending[j] = pending[i] => j = i
      BY <2>2, <3>1 DEF TimersInv, FunctorsFresh
    <3>3. \A j \in 1 .. Len(pending') : pending'[j] = pending'[i] => j = i
      BY <1>6, <3>1, <3>2
    <3> QED BY <1>1, <1>2, <1>5, <3>1, <3>2, <3>3 DEF InActive, Id
  <2> QED BY <1>6, <2>1, <2>2
<1>9. NoLeak'
  <2> SUFFICES ASSUME NEW b \in alive' PROVE (InActive(b) \/ b \in expired \/ AddQueued(Id(b)))'
    BY DEF NoLeak
  <2>1. CASE b = a
    BY <1>1, <1>6, <2>1 DEF AddQueued, Id
  <2>2. CASE b \in alive
    <3>1. Id(b)' = Id(b)
      BY <1>2, <2>2 DEF Id
    <3>2. AddQueued(Id(b)) => AddQueued(Id(b))'
      BY <1>6, <3>1 DEF AddQueued
    <3> QED BY <1>1, <1>5, <2>2, <3>2 DEF TimersInv, NoLeak
  <2> QED BY <1>1, <2>1, <2>2
<1> QED BY <1>1, <1>4, <1>8, <1>9 DEF TimersInv, BatchWhileCalling

LEMMA CancelInv ==
  ASSUME Sets, Rest, TimersInv, NEW t \in Threads, NEW id \in ids, Cancel(t, id)
  PROVE  TimersInv'
<1> DEFINE f == <<"cancelInLoop", id>>
<1>1. /\ Len(pending') = Len(pending) + 1
      /\ pending'[Len(pending) + 1] = f
      /\ \A i \in 1 .. Len(pending) : pending'[i] = pending[i]
      /\ Len(pending) \in Nat
  BY DEF Cancel, Rest
<1>2. UNCHANGED <<heap, alive, timers_, activeTimers_, expired, callingExpiredTimers_>>
  BY DEF Cancel
<1>3. f[1] # "addTimerInLoop"
  OBVIOUS
<1>4. SetsAgree' /\ BatchWhileCalling'
  BY <1>2 DEF TimersInv, SetsAgree, BatchWhileCalling, InActive, InTimers, Id
<1>5. FunctorsFresh'
  <2> SUFFICES ASSUME NEW i \in 1 .. Len(pending'), pending'[i][1] = "addTimerInLoop"
               PROVE  /\ pending'[i][2][1] \in alive' \ expired'
                      /\ pending'[i][2][2] = heap'[pending'[i][2][1]].sequence
                      /\ <<pending'[i][2][1], heap'[pending'[i][2][1]].sequence>> \notin activeTimers_'
                      /\ \A j \in 1 .. Len(pending') : pending'[j] = pending'[i] => j = i
    BY DEF FunctorsFresh, InActive, Id
  <2>1. i \in 1 .. Len(pending) /\ pending'[i] = pending[i] /\ pending[i] # f
    BY <1>1, <1>3
  <2>2. /\ pending[i][2][1] \in alive \ expired
        /\ pending[i][2][2] = heap[pending[i][2][1]].sequence
        /\ ~InActive(pending[i][2][1])
        /\ \A j \in 1 .. Len(pending) : pending[j] = pending[i] => j = i
    BY <2>1 DEF TimersInv, FunctorsFresh
  <2> QED BY <1>1, <1>2, <2>1, <2>2 DEF InActive, Id
<1>6. NoLeak'
  <2>1. \A x : AddQueued(x) => AddQueued(x)'
    BY <1>1 DEF AddQueued
  <2> QED BY <1>2, <2>1 DEF TimersInv, NoLeak, InActive, Id
<1> QED BY <1>4, <1>5, <1>6 DEF TimersInv

(* The loop takes the first functor.                                       *)
LEMMA RunFunctorInv ==
  ASSUME Sets, Rest, TimersInv, RunFunctor
  PROVE  TimersInv'
<1> DEFINE first == pending[1]
           id == first[2]
<1>1. /\ Len(pending) \in Nat \ {0}
      /\ Len(pending') = Len(pending) - 1
      /\ \A i \in 1 .. Len(pending') : pending'[i] = pending[i + 1] /\ i + 1 \in 1 .. Len(pending)
      /\ Head(pending) = first
      /\ first \in Functor
  BY DEF RunFunctor, Rest
<1>2. id \in Addrs \X Nat
  BY <1>1 DEF Functor
<1>3. UNCHANGED <<heap, expired, callingExpiredTimers_>> /\ ~callingExpiredTimers_
  BY DEF RunFunctor
<1>4. \A j \in 1 .. Len(pending) : j # 1 => j - 1 \in 1 .. Len(pending') /\ pending'[j - 1] = pending[j]
  BY <1>1
<1>5. CASE first[1] = "addTimerInLoop"
  <2>1. AddTimerInLoop(id[1], id[2], heap[id[1]].expiration) /\ alive' = alive
    BY <1>1, <1>5 DEF RunFunctor
  <2>2. /\ id[1] \in alive \ expired
        /\ id[2] = heap[id[1]].sequence
        /\ ~InActive(id[1])
        /\ \A j \in 1 .. Len(pending) : pending[j] = first => j = 1
    BY <1>1, <1>5 DEF TimersInv, FunctorsFresh
  <2>3. heap[id[1]].expiration \in Nat /\ id[1] \in Addrs /\ id[2] \in Nat
    BY <1>2, IdType
  <2>4. SetsAgree'
    BY <1>3, <2>1, <2>2, <2>3, AddAgrees DEF TimersInv
  <2>5. \A b \in Addrs : InActive(b)' <=> InActive(b) \/ b = id[1]
    <3>1. activeTimers_' = activeTimers_ \cup {<<id[1], id[2]>>} /\ heap' = heap
      BY <1>3, <2>1 DEF AddTimerInLoop
    <3>2. \A b \in Addrs : Id(b) = <<id[1], id[2]>> <=> b = id[1]
      BY <2>2 DEF Id
    <3> QED BY <3>1, <3>2 DEF InActive, Id
  <2>6. \A i \in 1 .. Len(pending') : pending'[i][1] = "addTimerInLoop" => pending'[i][2][1] # id[1]
    <3> SUFFICES ASSUME NEW i \in 1 .. Len(pending'), pending'[i][1] = "addTimerInLoop",
                        pending'[i][2][1] = id[1]
                 PROVE  FALSE
      OBVIOUS
    <3>1. pending'[i] = pending[i + 1] /\ i + 1 \in 1 .. Len(pending)
      BY <1>1
    <3>2. pending[i + 1] \in Functor
      BY <3>1 DEF Rest
    <3>3. pending[i + 1][2][2] = heap[id[1]].sequence
      BY <3>1 DEF TimersInv, FunctorsFresh
    <3>4. pending[i + 1] = first
      BY <1>1, <1>5, <2>2, <3>1, <3>2, <3>3, SMTT(30) DEF Functor
    <3> QED BY <2>2, <3>1, <3>4
  <2>7. FunctorsFresh'
    <3> SUFFICES ASSUME NEW i \in 1 .. Len(pending'), pending'[i][1] = "addTimerInLoop"
                 PROVE  /\ pending'[i][2][1] \in alive' \ expired'
                        /\ pending'[i][2][2] = heap'[pending'[i][2][1]].sequence
                        /\ <<pending'[i][2][1], heap'[pending'[i][2][1]].sequence>> \notin activeTimers_'
                        /\ \A j \in 1 .. Len(pending') : pending'[j] = pending'[i] => j = i
      BY DEF FunctorsFresh, InActive, Id
    <3>1. pending'[i] = pending[i + 1] /\ i + 1 \in 1 .. Len(pending)
      BY <1>1
    <3>2. /\ pending[i + 1][2][1] \in alive \ expired
          /\ pending[i + 1][2][2] = heap[pending[i + 1][2][1]].sequence
          /\ ~InActive(pending[i + 1][2][1])
          /\ \A j \in 1 .. Len(pending) : pending[j] = pending[i + 1] => j = i + 1
      BY <3>1 DEF TimersInv, FunctorsFresh
    <3>3. \A j \in 1 .. Len(pending') : pending'[j] = pending'[i] => j = i
      BY <1>1, <3>1, <3>2
    <3>4. <<pending'[i][2][1], heap'[pending'[i][2][1]].sequence>> \notin activeTimers_'
      <4>1. pending[i + 1][2][1] \in Addrs /\ pending[i + 1][2][1] # id[1]
        BY <2>6, <3>1, <3>2 DEF Sets
      <4> QED BY <2>5, <3>1, <3>2, <4>1 DEF InActive, Id
    <3> QED BY <1>3, <2>1, <3>1, <3>2, <3>3, <3>4
  <2>8. NoLeak'
    <3> SUFFICES ASSUME NEW b \in alive' PROVE (InActive(b) \/ b \in expired \/ AddQueued(Id(b)))'
      BY DEF NoLeak
    <3>1. b \in alive /\ b \in Addrs
      BY <2>1 DEF Sets
    <3>2. CASE InActive(b) \/ b = id[1]
      BY <2>5, <3>1, <3>2
    <3>3. CASE b \in expired
      BY <1>3, <3>3
    <3>4. CASE AddQueued(Id(b)) /\ b # id[1]
      <4>1. PICK j \in 1 .. Len(pending) : pending[j] = <<"addTimerInLoop", Id(b)>>
        BY <3>4 DEF AddQueued
      <4>2. j # 1
        BY <3>4, <4>1 DEF Id
      <4> QED BY <1>3, <1>4, <4>1, <4>2 DEF AddQueued, Id
    <3> QED BY <3>1, <3>2, <3>3, <3>4 DEF TimersInv, NoLeak
  <2> QED BY <1>3, <2>4, <2>7, <2>8 DEF TimersInv, BatchWhileCalling
<1>6. CASE first[1] = "cancelInLoop"
  <2>1. CancelInLoop(id)
    BY <1>1, <1>6 DEF RunFunctor
  <2>2. /\ SetsAgree'
        /\ \A a \in Addrs : InActive(a)' => InActive(a)
        /\ \A a \in alive \ alive' : InActive(a)
        /\ \A a \in alive' : InActive(a) => InActive(a)'
        /\ alive' \subseteq alive
    BY <1>2, <1>3, <2>1, CancelAgrees DEF TimersInv
  <2>3. FunctorsFresh'
    <3> SUFFICES ASSUME NEW i \in 1 .. Len(pending'), pending'[i][1] = "addTimerInLoop"
                 PROVE  /\ pending'[i][2][1] \in alive' \ expired'
                        /\ pending'[i][2][2] = heap'[pending'[i][2][1]].sequence
                        /\ <<pending'[i][2][1], heap'[pending'[i][2][1]].sequence>> \notin activeTimers_'
                        /\ \A j \in 1 .. Len(pending') : pending'[j] = pending'[i] => j = i
      BY DEF FunctorsFresh, InActive, Id
    <3>1. pending'[i] = pending[i + 1] /\ i + 1 \in 1 .. Len(pending)
      BY <1>1
    <3>2. /\ pending[i + 1][2][1] \in alive \ expired
          /\ pending[i + 1][2][2] = heap[pending[i + 1][2][1]].sequence
          /\ ~InActive(pending[i + 1][2][1])
          /\ \A j \in 1 .. Len(pending) : pending[j] = pending[i + 1] => j = i + 1
      BY <3>1 DEF TimersInv, FunctorsFresh
    <3>3. \A j \in 1 .. Len(pending') : pending'[j] = pending'[i] => j = i
      BY <1>1, <3>1, <3>2
    <3>4. pending[i + 1][2][1] \in Addrs /\ pending[i + 1][2][1] \in alive'
      BY <2>2, <3>2 DEF Sets
    <3>5. <<pending[i + 1][2][1], heap[pending[i + 1][2][1]].sequence>> \notin activeTimers_'
      BY <2>1, <3>2 DEF InActive, Id, CancelInLoop
    <3> QED BY <1>3, <3>1, <3>2, <3>3, <3>4, <3>5 DEF InActive, Id
  <2>4. NoLeak'
    <3> SUFFICES ASSUME NEW b \in alive' PROVE (InActive(b) \/ b \in expired \/ AddQueued(Id(b)))'
      BY DEF NoLeak
    <3>1. CASE AddQueued(Id(b))
      <4>1. PICK j \in 1 .. Len(pending) : pending[j] = <<"addTimerInLoop", Id(b)>>
        BY <3>1 DEF AddQueued
      <4>2. j # 1
        BY <1>6, <4>1
      <4> QED BY <1>3, <1>4, <4>1, <4>2 DEF AddQueued, Id
    <3> QED BY <1>3, <2>2, <3>1 DEF TimersInv, NoLeak
  <2> QED BY <1>3, <2>2, <2>3, <2>4 DEF TimersInv, BatchWhileCalling
<1> QED BY <1>1, <1>5, <1>6 DEF RunFunctor

(* The expired timers move from the sets to the batch.                     *)
LEMMA HandleReadInv ==
  ASSUME Sets, TimersInv, HandleRead
  PROVE  TimersInv'
<1>1. /\ UNCHANGED <<heap, alive, pending>>
      /\ callingExpiredTimers_' = TRUE
      /\ expired = {}
      /\ expired' = {e[2] : e \in {x \in timers_ : Due(x)}}
      /\ timers_' = {e \in timers_ : ~Due(e)}
      /\ activeTimers_' = {id \in activeTimers_ : id[1] \notin expired'}
  BY DEF HandleRead, TimersInv, BatchWhileCalling
<1>2. \A e \in timers_ : e = <<heap[e[2]].expiration, e[2]>> /\ e[2] \in alive /\ InActive(e[2])
  BY DEF Sets, TimersInv, SetsAgree
<1>3. \A a \in Addrs : a \in expired' <=> InTimers(a) /\ Due(<<heap[a].expiration, a>>)
  <2>1. ASSUME NEW a \in Addrs, a \in expired' PROVE InTimers(a) /\ Due(<<heap[a].expiration, a>>)
    <3>1. PICK e \in timers_ : Due(e) /\ a = e[2]
      BY <1>1, <2>1
    <3>2. e = <<heap[a].expiration, a>>
      BY <1>2, <3>1
    <3> QED BY <3>1, <3>2 DEF InTimers
  <2>2. ASSUME NEW a \in Addrs, InTimers(a), Due(<<heap[a].expiration, a>>) PROVE a \in expired'
    BY <1>1, <2>2 DEF InTimers
  <2> QED BY <2>1, <2>2
<1>4. expired' \subseteq alive
  BY <1>1, <1>2
<1>5. \A a \in Addrs : InActive(a)' <=> InActive(a) /\ a \notin expired'
  BY <1>1 DEF InActive, Id
<1>6. SetsAgree'
  <2>1. ASSUME NEW e \in timers_'
        PROVE  e[2] \in alive' /\ e[1] = heap'[e[2]].expiration /\ InActive(e[2])'
    <3>1. e \in timers_ /\ ~Due(e)
      BY <1>1
    <3>2. e = <<heap[e[2]].expiration, e[2]>> /\ e[2] \in alive /\ e[2] \in Addrs /\ InActive(e[2])
      BY <1>2, <3>1 DEF Sets
    <3>3. e[2] \notin expired'
      BY <1>3, <3>1, <3>2
    <3>4. InActive(e[2])'
      BY <1>1, <3>2, <3>3 DEF InActive, Id
    <3>5. e[1] = heap[e[2]].expiration
      BY <3>2
    <3> QED BY <1>1, <3>2, <3>4, <3>5
  <2>2. ASSUME NEW id \in activeTimers_'
        PROVE  id[1] \in alive' /\ id[2] = heap'[id[1]].sequence /\ InTimers(id[1])'
    <3>1. /\ id \in activeTimers_ /\ id[1] \notin expired' /\ id[1] \in alive
          /\ id[2] = heap[id[1]].sequence /\ InTimers(id[1])
      BY <1>1 DEF TimersInv, SetsAgree
    <3>2. ~Due(<<heap[id[1]].expiration, id[1]>>)
      BY <1>3, <3>1 DEF Sets
    <3>3. InTimers(id[1])'
      BY <1>1, <3>1, <3>2 DEF InTimers
    <3> QED BY <1>1, <3>1, <3>3
  <2>3. ASSUME NEW b \in expired' PROVE b \in alive' /\ ~InActive(b)'
    BY <1>1, <1>4 DEF InActive, Id
  <2> QED BY <2>1, <2>2, <2>3 DEF SetsAgree
<1>7. FunctorsFresh'
  <2>1. \A a \in expired' : InActive(a)
    BY <1>1, <1>2
  <2>2. activeTimers_' \subseteq activeTimers_
    BY <1>1
  <2> QED BY <1>1, <2>1, <2>2 DEF TimersInv, FunctorsFresh, InActive, Id
<1>8. NoLeak'
  BY <1>1, <1>5 DEF TimersInv, NoLeak, AddQueued, Id, Sets
<1> QED BY <1>1, <1>6, <1>7, <1>8 DEF TimersInv, BatchWhileCalling

(* The batch is queued again or deleted.                                   *)
LEMMA ResetInv ==
  ASSUME Sets, Rest, TimersInv, Reset
  PROVE  TimersInv'
<1>1. /\ expired' = {} /\ pending' = pending
      /\ alive' = alive \ (expired \ Again)
      /\ timers_' = timers_ \cup {<<readAt + heap[a].interval, a>> : a \in Again}
      /\ activeTimers_' = activeTimers_ \cup {Id(a) : a \in Again}
  BY DEF Reset, Finished
<1>2. /\ Again \subseteq expired /\ Again \subseteq alive /\ Again \subseteq Addrs
      /\ \A a \in expired : a \in alive /\ ~InActive(a)
  BY DEF Again, TimersInv, SetsAgree, Sets
<1>3. /\ \A a \in Addrs \ Again : heap'[a] = heap[a]
      /\ \A a \in Again : heap'[a].expiration = readAt + heap[a].interval
      /\ \A a \in Addrs : heap'[a].sequence = heap[a].sequence
  <2>1. \A a \in Addrs : heap'[a] = IF a \in Again THEN [heap[a] EXCEPT !.expiration = readAt + heap[a].interval] ELSE heap[a]
    BY DEF Reset
  <2>2. \A a \in Addrs : heap[a] \in Timer
    BY DEF Sets
  <2> QED BY <1>2, <2>1, <2>2 DEF Timer
<1>4. \A a \in Addrs : InActive(a)' <=> InActive(a) \/ a \in Again
  <2>1. \A a, b \in Addrs : Id(a) = Id(b) <=> a = b
    BY DEF Id
  <2>2. \A a \in Addrs : <<a, heap'[a].sequence>> = Id(a)
    BY <1>3 DEF Id
  <2> QED BY <1>1, <1>2, <2>1, <2>2 DEF InActive, Id
<1>5. SetsAgree'
  <2>1. ASSUME NEW e \in timers_'
        PROVE  e[2] \in alive' /\ e[1] = heap'[e[2]].expiration /\ InActive(e[2])'
    <3>1. CASE e \in timers_
      <4>1. e[2] \in alive /\ e[1] = heap[e[2]].expiration /\ InActive(e[2]) /\ e[2] \in Addrs
        BY <3>1 DEF TimersInv, SetsAgree, Sets
      <4>2. e[2] \notin expired
        BY <1>2, <4>1
      <4>3. InActive(e[2])'
        BY <1>1, <1>3, <4>1 DEF InActive, Id
      <4> QED BY <1>1, <1>2, <1>3, <4>1, <4>2, <4>3
    <3>2. ASSUME NEW a \in Again, e = <<readAt + heap[a].interval, a>>
          PROVE  e[2] \in alive' /\ e[1] = heap'[e[2]].expiration /\ InActive(e[2])'
      <4>1. InActive(a)'
        BY <1>2, <1>4
      <4> QED BY <1>1, <1>2, <1>3, <3>2, <4>1 DEF InActive, Id
    <3> QED BY <1>1, <3>1, <3>2
  <2>2. ASSUME NEW id \in activeTimers_'
        PROVE  id[1] \in alive' /\ id[2] = heap'[id[1]].sequence /\ InTimers(id[1])'
    <3>1. CASE id \in activeTimers_
      <4>1. id[1] \in alive /\ id[2] = heap[id[1]].sequence /\ InTimers(id[1]) /\ id[1] \in Addrs
        BY <3>1 DEF TimersInv, SetsAgree, Sets
      <4>2. id = Id(id[1])
        BY <3>1, <4>1 DEF Id, Sets
      <4>3. id[1] \notin expired
        BY <1>2, <3>1, <4>2 DEF InActive
      <4> QED BY <1>1, <1>2, <1>3, <4>1, <4>3 DEF InTimers
    <3>2. ASSUME NEW a \in Again, id = Id(a)
          PROVE  id[1] \in alive' /\ id[2] = heap'[id[1]].sequence /\ InTimers(id[1])'
      BY <1>1, <1>2, <1>3, <3>2 DEF InTimers, Id
    <3> QED BY <1>1, <3>1, <3>2
  <2> QED BY <1>1, <2>1, <2>2 DEF SetsAgree
<1>6. FunctorsFresh'
  <2> SUFFICES ASSUME NEW i \in 1 .. Len(pending), pending[i][1] = "addTimerInLoop"
               PROVE  /\ pending[i][2][1] \in alive' \ expired'
                      /\ pending[i][2][2] = heap'[pending[i][2][1]].sequence
                      /\ <<pending[i][2][1], heap'[pending[i][2][1]].sequence>> \notin activeTimers_'
                      /\ \A j \in 1 .. Len(pending) : pending[j] = pending[i] => j = i
    BY <1>1 DEF FunctorsFresh, InActive, Id
  <2> DEFINE a == pending[i][2][1]
  <2>1. /\ a \in alive \ expired /\ a \in Addrs
        /\ pending[i][2][2] = heap[a].sequence
        /\ Id(a) \notin activeTimers_
        /\ \A j \in 1 .. Len(pending) : pending[j] = pending[i] => j = i
    BY DEF TimersInv, FunctorsFresh, Sets, InActive
  <2>2. \A b \in Again : Id(b) # Id(a)
    BY <1>2, <2>1 DEF Id
  <2>3. <<a, heap'[a].sequence>> = Id(a)
    BY <1>3, <2>1 DEF Id
  <2> QED BY <1>1, <1>3, <2>1, <2>2, <2>3
<1>7. NoLeak'
  <2> SUFFICES ASSUME NEW b \in alive' PROVE InActive(b)' \/ AddQueued(Id(b))'
    BY DEF NoLeak
  <2>1. b \in alive /\ b \in Addrs /\ (b \in expired => b \in Again)
    BY <1>1 DEF Sets
  <2>2. InActive(b) \/ b \in Again \/ AddQueued(Id(b))
    BY <2>1 DEF TimersInv, NoLeak
  <2>3. AddQueued(Id(b)) => AddQueued(Id(b))'
    BY <1>1, <1>3, <2>1 DEF AddQueued, Id
  <2>4. InActive(b) \/ b \in Again => InActive(b)'
    BY <1>1, <1>3, <2>1 DEF InActive, Id
  <2> QED BY <2>2, <2>3, <2>4
<1> QED BY <1>1, <1>5, <1>6, <1>7 DEF TimersInv, BatchWhileCalling

LEMMA TimersInvStep == Sets /\ Rest /\ TimersInv /\ [Next]_vars => TimersInv'
<1> SUFFICES ASSUME Sets, Rest, TimersInv, [Next]_vars PROVE TimersInv'
  OBVIOUS
<1>1. ASSUME NEW t \in Threads, NEW a \in Addrs, NEW when \in now .. MaxTime,
             NEW interval \in Intervals, AddTimer(t, a, when, interval)
      PROVE  TimersInv'
  BY <1>1, AddTimerInv
<1>2. CASE UNCHANGED <<heap, alive, timers_, activeTimers_, expired, pending, callingExpiredTimers_>>
  BY <1>2 DEF TimersInv, SetsAgree, FunctorsFresh, BatchWhileCalling, NoLeak, AddQueued, InActive,
     InTimers, Id
<1>3. ASSUME NEW t \in Threads, AddTimerReturns(t) PROVE TimersInv'
  BY <1>2, <1>3 DEF AddTimerReturns
<1>4. ASSUME NEW t \in Threads, NEW id \in ids, Cancel(t, id) PROVE TimersInv'
  BY <1>4, CancelInv
<1>5. CASE RunFunctor
  BY <1>5, RunFunctorInv
<1>6. CASE OtherCallback
  BY <1>6, LoopAddsInv, LoopCancelsInv DEF OtherCallback
<1>7. CASE HandleRead
  BY <1>7, HandleReadInv
<1>8. ASSUME NEW a \in Addrs, RunCallback(a) PROVE TimersInv'
  BY <1>2, <1>8, LoopAddsInv, LoopCancelsInv DEF RunCallback
<1>9. CASE Reset
  BY <1>9, ResetInv
<1>10. CASE Tick \/ UNCHANGED vars
  BY <1>2, <1>10 DEF Tick, vars
<1> QED BY <1>1, <1>3, <1>4, <1>5, <1>6, <1>7, <1>8, <1>9, <1>10 DEF Next

LEMMA TimersInvInit == Init => TimersInv
  BY DEF Init, TimersInv, SetsAgree, FunctorsFresh, BatchWhileCalling, NoLeak

(* The sets of timers and the objects agree, and no timer in them, in a    *)
(* batch or on its way to the loop has been deleted.                       *)
THEOREM SetsAgreeAlways == Spec => []SetsAgree
<1>1. Init => Sets
  BY DEF Init, Sets, Timer
<1>2. Init => Rest
  BY DEF Init, Rest
<1>3. TimersInv => SetsAgree
  BY DEF TimersInv
<1> QED BY <1>1, <1>2, <1>3, PartsStep, TimersInvInit, TimersInvStep, PTL DEF Spec

(* No Timer object is lost: what is not deleted can still run.             *)
THEOREM NoLeakAlways == Spec => []NoLeak
<1>1. Init => Sets
  BY DEF Init, Sets, Timer
<1>2. Init => Rest
  BY DEF Init, Rest
<1>3. TimersInv => NoLeak
  BY DEF TimersInv
<1> QED BY <1>1, <1>2, <1>3, PartsStep, TimersInvInit, TimersInvStep, PTL DEF Spec

-----------------------------------------------------------------------------
(* Adding the earliest timer arms the descriptor for it; adding a later    *)
(* one leaves it armed for one that is due before.                         *)
LEMMA AddArmed ==
  ASSUME Sets, Rest, TimerfdArmed, NEW a \in Addrs, NEW n \in Nat, NEW when \in Nat,
         AddTimerInLoop(a, n, when), UNCHANGED <<now, callingExpiredTimers_>>
  PROVE  TimerfdArmed'
<1> SUFFICES ASSUME NEW e \in timers_', ~callingExpiredTimers_
             PROVE  timerfd_' # 0 /\ timerfd_' <= FiresAt(e[1])'
  BY DEF TimerfdArmed
<1>1. e[1] \in Nat /\ (e \in timers_ \/ e[1] = when)
  BY DEF AddTimerInLoop, Sets
<1>2. FiresAt(e[1])' = FiresAt(e[1])
  BY DEF FiresAt
<1>3. CASE \A f \in timers_ : when < f[1]
  BY <1>1, <1>2, <1>3 DEF AddTimerInLoop, FiresAt, Rest
<1>4. ASSUME NEW f \in timers_, ~(when < f[1])
      PROVE  timerfd_' # 0 /\ timerfd_' <= FiresAt(e[1])'
  <2>1. timerfd_' = timerfd_ /\ f[1] \in Nat
    BY <1>4 DEF AddTimerInLoop, Sets
  <2>2. timerfd_ # 0 /\ timerfd_ <= FiresAt(f[1]) /\ (e \in timers_ => timerfd_ <= FiresAt(e[1]))
    BY DEF TimerfdArmed
  <2> QED BY <1>1, <1>2, <1>4, <2>1, <2>2 DEF FiresAt, Rest
<1> QED BY <1>3, <1>4

LEMMA TimerfdArmedStep == Sets /\ Rest /\ TimerfdArmed /\ [Next]_vars => TimerfdArmed'
<1> SUFFICES ASSUME Sets, Rest, TimerfdArmed, [Next]_vars PROVE TimerfdArmed'
  OBVIOUS
<1>1. CASE timers_' \subseteq timers_ /\ UNCHANGED <<timerfd_, now, callingExpiredTimers_>>
  BY <1>1 DEF TimerfdArmed, FiresAt
<1>2. CASE UNCHANGED <<timers_, timerfd_, now, callingExpiredTimers_>>
  BY <1>1, <1>2
<1>3. ASSUME NEW id, CancelInLoop(id), UNCHANGED <<timerfd_, now, callingExpiredTimers_>>
      PROVE  TimerfdArmed'
  BY <1>1, <1>3 DEF CancelInLoop
<1>4. ASSUME LoopAdds, UNCHANGED <<now, callingExpiredTimers_>> PROVE TimerfdArmed'
  <2>1. PICK a \in Addrs, when \in now .. MaxTime, interval \in Intervals :
          NewTimer(a, when, interval) /\ AddTimerInLoop(a, numCreated_', when)
    BY <1>4 DEF LoopAdds
  <2>2. when \in Nat /\ numCreated_' \in Nat
    BY <2>1, TimerQueueAssumption DEF Rest, NewTimer
  <2> QED BY <1>4, <2>1, <2>2, AddArmed
<1>5. ASSUME LoopCancels, UNCHANGED <<now, callingExpiredTimers_>> PROVE TimerfdArmed'
  BY <1>3, <1>5 DEF LoopCancels
<1>6. CASE RunFunctor
  <2>1. Head(pending) \in Functor
    BY <1>6 DEF RunFunctor, Rest
  <2>2. Head(pending)[2] \in Addrs \X Nat
    BY <2>1 DEF Functor
  <2>3. heap[Head(pending)[2][1]].expiration \in Nat
    BY <2>2, IdType
  <2> QED BY <1>3, <1>6, <2>2, <2>3, AddArmed DEF RunFunctor
<1>7. CASE OtherCallback
  BY <1>4, <1>5, <1>7 DEF OtherCallback
<1>8. ASSUME NEW a \in Addrs, RunCallback(a) PROVE TimerfdArmed'
  BY <1>2, <1>4, <1>5, <1>8 DEF RunCallback
<1>9. CASE HandleRead
  BY <1>9 DEF HandleRead, TimerfdArmed
<1>10. CASE Reset
  <2> SUFFICES ASSUME NEW f \in timers_' PROVE timerfd_' # 0 /\ timerfd_' <= FiresAt(f[1])'
    BY DEF TimerfdArmed
  <2>1. Sets'
    BY <1>10, ResetKeepsType
  <2>2. PICK e \in timers_' : (\A g \in timers_' : e[1] <= g[1]) /\ timerfd_' = FiresAt(e[1])
    BY <1>10 DEF Reset, Earliest_Exists
  <2>3. e[1] \in Nat /\ f[1] \in Nat /\ e[1] <= f[1] /\ now' = now
    BY <1>10, <2>1, <2>2 DEF Sets, Reset
  <2> QED BY <2>2, <2>3 DEF FiresAt, Rest
<1>11. CASE Tick
  <2>1. now' = now + 1 /\ UNCHANGED <<timers_, timerfd_, callingExpiredTimers_>>
    BY <1>11 DEF Tick
  <2>2. \A e \in timers_ : e[1] \in Nat
    BY DEF Sets
  <2> QED BY <2>1, <2>2 DEF TimerfdArmed, FiresAt, Rest
<1> QED
  BY <1>2, <1>6, <1>7, <1>8, <1>9, <1>10, <1>11
  DEF Next, vars, AddTimer, AddTimerReturns, Cancel

(* No timer is forgotten: between two calls of handleRead the descriptor   *)
(* fires no later than the earliest timer is due.                          *)
THEOREM TimerfdArmedAlways == Spec => []TimerfdArmed
<1>1. Init => Sets
  BY DEF Init, Sets, Timer
<1>2. Init => Rest
  BY DEF Init, Rest
<1>3. Init => TimerfdArmed
  BY DEF Init, TimerfdArmed
<1> QED BY <1>1, <1>2, <1>3, PartsStep, TimerfdArmedStep, PTL DEF Spec

-----------------------------------------------------------------------------
(* Sequence numbers.  An address may be used again, a number is not.       *)
Distinct ==
  /\ \A a \in alive : heap[a].sequence # 0
  /\ \A a \in Addrs : heap[a].sequence <= numCreated_
  /\ \A a, b \in Addrs : heap[a].sequence = heap[b].sequence /\ heap[a].sequence # 0 => a = b

(* A TimerId names the one address its number was given to.                *)
Names(id) ==
  /\ id[2] \in 1 .. numCreated_
  /\ \A a \in Addrs : heap[a].sequence = id[2] => a = id[1]

Known ==
  /\ \A id \in ids : Names(id)
  /\ \A t \in Threads : pc[t] # NULL => heap[pc[t][1]].sequence # 0
  /\ \A n \in ran \cup cancelled : n <= numCreated_
  /\ \A i \in 1 .. Len(pending) : pending[i][1] = "cancelInLoop" => pending[i][2] \in ids

(* The timers of a batch are due, and those that ran are noted.            *)
Batch ==
  /\ \A a \in expired : heap[a].expiration <= now
  /\ \A a \in expired \ unrun : heap[a].sequence \in ran

(* A timer that has run and does not repeat waits for its deletion, and so *)
(* does one that was cancelled after it had been added.                    *)
OnceOnly ==
  \A a \in alive : heap[a].interval = 0 /\ heap[a].sequence \in ran => a \in expired \ unrun

Remembered ==
  \A a \in alive :
    heap[a].sequence \in cancelled \ early => a \in expired /\ Id(a) \in cancelingTimers_

RunsInv == Distinct /\ Known /\ Batch /\ OnceOnly /\ Remembered

(* What a step does to the objects: it makes one, or it changes no number  *)
(* and no interval.                                                        *)
Creates(a) ==
  /\ a \in Addrs \ alive
  /\ alive' = alive \cup {a}
  /\ numCreated_' = numCreated_ + 1
  /\ heap'[a].sequence = numCreated_ + 1
  /\ \A b \in Addrs \ {a} : heap'[b] = heap[b]

Keeps ==
  /\ alive' \subseteq alive
  /\ numCreated_' = numCreated_
  /\ \A b \in Addrs : heap'[b].sequence = heap[b].sequence /\ heap'[b].interval = heap[b].interval

LEMMA NewCreates ==
  ASSUME Sets, Rest, NEW a, NEW when, NEW interval, NewTimer(a, when, interval)
  PROVE  Creates(a)
  BY DEF Sets, Rest, NewTimer, Creates

LEMMA LoopCreates ==
  ASSUME Sets, Rest, LoopAdds
  PROVE  /\ \E a \in Addrs : Creates(a) /\ ids' = ids \cup {<<a, numCreated_ + 1>>}
         /\ UNCHANGED <<cancelingTimers_, cancelled, early>>
<1>1. PICK a \in Addrs, when \in now .. MaxTime, interval \in Intervals :
        /\ NewTimer(a, when, interval)
        /\ ids' = ids \cup {<<a, numCreated_'>>}
        /\ UNCHANGED <<cancelingTimers_, cancelled, early>>
  BY DEF LoopAdds
<1>2. Creates(a)
  BY <1>1, NewCreates
<1>3. numCreated_' = numCreated_ + 1
  BY <1>2 DEF Creates
<1> QED BY <1>1, <1>2, <1>3

LEMMA CancelKeeps ==
  ASSUME NEW id, CancelInLoop(id), UNCHANGED <<heap, numCreated_>>
  PROVE  Keeps
  BY DEF CancelInLoop, Keeps

LEMMA LoopCancelsKeeps == ASSUME LoopCancels PROVE Keeps
<1>1. PICK id \in ids : CancelInLoop(id) /\ UNCHANGED <<heap, timerfd_, numCreated_, ids>>
  BY DEF LoopCancels
<1> QED BY <1>1, CancelKeeps

LEMMA HeapStep == Sets /\ Rest /\ [Next]_vars => Keeps \/ \E a \in Addrs : Creates(a)
<1> SUFFICES ASSUME Sets, Rest, [Next]_vars PROVE Keeps \/ \E a \in Addrs : Creates(a)
  OBVIOUS
<1>1. ASSUME NEW t \in Threads, NEW a \in Addrs, NEW when \in now .. MaxTime,
             NEW interval \in Intervals, AddTimer(t, a, when, interval)
      PROVE  Creates(a)
  BY <1>1, NewCreates DEF AddTimer
<1>2. ASSUME UNCHANGED <<heap, alive, numCreated_>> PROVE Keeps
  BY <1>2 DEF Keeps
<1>3. ASSUME NEW t \in Threads, AddTimerReturns(t) \/ \E id \in ids : Cancel(t, id) PROVE Keeps
  BY <1>2, <1>3 DEF AddTimerReturns, Cancel
<1>4. CASE RunFunctor
  <2>1. CASE UNCHANGED alive
    BY <1>2, <1>4, <2>1 DEF RunFunctor
  <2>2. CASE CancelInLoop(Head(pending)[2])
    BY <1>4, <2>2, CancelKeeps DEF RunFunctor
  <2> QED BY <1>4, <2>1, <2>2 DEF RunFunctor
<1>5. CASE OtherCallback
  BY <1>5, LoopCreates, LoopCancelsKeeps DEF OtherCallback
<1>6. CASE HandleRead \/ Tick \/ UNCHANGED vars
  BY <1>2, <1>6 DEF HandleRead, Tick, vars
<1>7. ASSUME NEW a \in Addrs, RunCallback(a) PROVE Keeps \/ \E b \in Addrs : Creates(b)
  BY <1>2, <1>7, LoopCreates, LoopCancelsKeeps DEF RunCallback
<1>8. CASE Reset
  <2>1. \A b \in Addrs : heap[b] = [heap[b] EXCEPT !.expiration = heap[b].expiration] /\ heap[b] \in Timer
    BY DEF Sets, Timer
  <2>2. \A b \in Addrs : \/ heap'[b] = heap[b]
                        \/ heap'[b] = [heap[b] EXCEPT !.expiration = readAt + heap[b].interval]
    BY <1>8 DEF Reset
  <2>3. \A b \in Addrs : heap'[b].sequence = heap[b].sequence /\ heap'[b].interval = heap[b].interval
    BY <2>1, <2>2 DEF Timer
  <2> QED BY <1>8, <2>3 DEF Reset, Keeps
<1> QED BY <1>1, <1>3, <1>4, <1>5, <1>6, <1>7, <1>8 DEF Next

LEMMA DistinctStep == Sets /\ Rest /\ Distinct /\ [Next]_vars => Distinct'
<1> SUFFICES ASSUME Sets, Rest, Distinct, [Next]_vars PROVE Distinct'
  OBVIOUS
<1>1. /\ alive \subseteq Addrs /\ numCreated_ \in Nat
      /\ \A a \in Addrs : heap[a].sequence \in Nat
  BY DEF Sets, Rest, Timer
<1>2. CASE Keeps
  BY <1>1, <1>2 DEF Keeps, Distinct
<1>3. ASSUME NEW a \in Addrs, Creates(a) PROVE Distinct'
  <2>1. \A b \in Addrs : b # a => heap'[b].sequence = heap[b].sequence /\ heap[b].sequence <= numCreated_
    BY <1>3 DEF Creates, Distinct
  <2>2. heap'[a].sequence = numCreated_ + 1 /\ numCreated_' = numCreated_ + 1 /\ alive' = alive \cup {a}
    BY <1>3 DEF Creates
  <2>3. \A b \in Addrs : heap'[b].sequence <= numCreated_'
    BY <1>1, <2>1, <2>2
  <2>4. \A b \in alive' : heap'[b].sequence # 0
    BY <1>1, <2>1, <2>2 DEF Distinct
  <2>5. \A b, c \in Addrs : heap'[b].sequence = heap'[c].sequence /\ heap'[b].sequence # 0 => b = c
    BY <1>1, <2>1, <2>2 DEF Distinct
  <2> QED BY <2>3, <2>4, <2>5 DEF Distinct
<1> QED BY <1>2, <1>3, HeapStep

LEMMA NumbersStay ==
  ASSUME Sets, Rest, Distinct, [Next]_vars
  PROVE  /\ numCreated_ \in Nat /\ numCreated_' \in Nat /\ numCreated_ <= numCreated_'
         /\ \A a \in Addrs : heap[a].sequence # 0 => heap'[a].sequence # 0
         /\ \A id : Names(id) => Names(id)'
<1>1. /\ alive \subseteq Addrs /\ numCreated_ \in Nat
      /\ \A a \in Addrs : heap[a].sequence \in Nat
  BY DEF Sets, Rest, Timer
<1>2. CASE Keeps
  BY <1>1, <1>2 DEF Keeps, Names
<1>3. ASSUME NEW a \in Addrs, Creates(a)
      PROVE  /\ numCreated_' = numCreated_ + 1
             /\ \A b \in Addrs : heap[b].sequence # 0 => heap'[b].sequence # 0
             /\ \A id : Names(id) => Names(id)'
  <2>1. \A b \in Addrs : b # a => heap'[b].sequence = heap[b].sequence
    BY <1>3 DEF Creates
  <2>2. heap'[a].sequence = numCreated_ + 1 /\ numCreated_' = numCreated_ + 1
    BY <1>3 DEF Creates
  <2>3. ASSUME NEW id, Names(id) PROVE Names(id)'
    <3>1. id[2] \in 1 .. numCreated_ /\ \A b \in Addrs : heap[b].sequence = id[2] => b = id[1]
      BY <2>3 DEF Names
    <3>2. id[2] # numCreated_ + 1 /\ id[2] \in 1 .. numCreated_'
      BY <1>1, <2>2, <3>1
    <3>3. \A b \in Addrs : heap'[b].sequence = id[2] => b = id[1]
      BY <2>1, <2>2, <3>1, <3>2
    <3> QED BY <3>2, <3>3 DEF Names
  <2> QED BY <1>1, <2>1, <2>2, <2>3
<1> QED BY <1>1, <1>2, <1>3, HeapStep DEF Keeps

LEMMA KnownIdsStep ==
  ASSUME Sets, Rest, Distinct, Known, [Next]_vars
  PROVE  ids \subseteq ids' /\ \A id \in ids' : Names(id)'
<1>1. \A id \in ids : Names(id)'
  BY NumbersStay DEF Known
<1>2. CASE UNCHANGED ids
  BY <1>1, <1>2
<1>3. Distinct'
  BY DistinctStep
<1>4. CASE LoopAdds
  <2>1. PICK a \in Addrs : Creates(a) /\ ids' = ids \cup {<<a, numCreated_ + 1>>}
    BY <1>4, LoopCreates
  <2>2. /\ heap'[a].sequence = numCreated_ + 1 /\ numCreated_' = numCreated_ + 1
        /\ numCreated_ \in Nat
    BY <2>1 DEF Creates, Rest
  <2>3. \A b \in Addrs : heap'[b].sequence = numCreated_ + 1 => b = a
    BY <1>3, <2>2 DEF Distinct
  <2>4. ASSUME NEW id, id = <<a, numCreated_ + 1>> PROVE Names(id)'
    <3>1. id[1] = a /\ id[2] = numCreated_ + 1 /\ id[2] \in 1 .. numCreated_'
      BY <2>2, <2>4
    <3> QED BY <2>3, <3>1 DEF Names
  <2> QED BY <1>1, <2>1, <2>4
<1>5. ASSUME NEW t \in Threads, AddTimerReturns(t)
      PROVE  ids \subseteq ids' /\ \A id \in ids' : Names(id)'
  <2> DEFINE a == pc[t][1]
  <2>1. ids' = ids \cup {Id(a)} /\ pc[t] # NULL /\ UNCHANGED <<heap, numCreated_>>
    BY <1>5 DEF AddTimerReturns
  <2>2. a \in Addrs /\ heap[a].sequence # 0
    BY <2>1 DEF Rest, Known
  <2>3. heap[a].sequence \in 1 .. numCreated_
    BY <2>2 DEF Distinct, Sets, Rest, Timer
  <2>4. \A b \in Addrs : heap[b].sequence = heap[a].sequence => b = a
    BY <2>2 DEF Distinct
  <2>5. Names(Id(a))
    BY <2>3, <2>4 DEF Names, Id
  <2>6. \A id : Names(id) => Names(id)'
    BY NumbersStay
  <2>7. ASSUME NEW id \in ids' PROVE Names(id)'
    BY <1>1, <2>1, <2>5, <2>6
  <2> QED BY <2>1, <2>7
<1>6. CASE RunFunctor \/ HandleRead \/ Reset \/ Tick \/ UNCHANGED vars
  BY <1>2, <1>6 DEF RunFunctor, HandleRead, Reset, Tick, vars
<1>7. CASE LoopCancels
  BY <1>2, <1>7 DEF LoopCancels
<1>8. CASE OtherCallback
  BY <1>4, <1>7, <1>8 DEF OtherCallback
<1>9. ASSUME NEW a \in Addrs, RunCallback(a)
      PROVE  ids \subseteq ids' /\ \A id \in ids' : Names(id)'
  BY <1>2, <1>4, <1>7, <1>9 DEF RunCallback
<1>10. ASSUME NEW t \in Threads, NEW a \in Addrs, NEW when \in now .. MaxTime,
              NEW interval \in Intervals, AddTimer(t, a, when, interval)
       PROVE  UNCHANGED ids
  BY <1>10 DEF AddTimer
<1>11. ASSUME NEW t \in Threads, NEW id \in ids, Cancel(t, id) PROVE UNCHANGED ids
  BY <1>11 DEF Cancel
<1> QED BY <1>2, <1>5, <1>6, <1>8, <1>9, <1>10, <1>11 DEF Next

(* What a cancel that runs was called with.                                *)
LEMMA CancelsKnown ==
  ASSUME Sets, Rest, Known, RunFunctor
  PROVE  \/ /\ AddTimerInLoop(Head(pending)[2][1], Head(pending)[2][2], heap[Head(pending)[2][1]].expiration)
            /\ UNCHANGED <<alive, cancelingTimers_, cancelled, early>>
         \/ Head(pending)[2] \in ids /\ CancelInLoop(Head(pending)[2])
<1>1. Head(pending) = pending[1] /\ 1 \in 1 .. Len(pending)
  BY DEF RunFunctor, Rest
<1> QED BY <1>1 DEF RunFunctor, Known

LEMMA KnownStep ==
  ASSUME Sets, Rest, Distinct, Known, [Next]_vars
  PROVE  Known'
<1>1. ids \subseteq ids' /\ \A id \in ids' : Names(id)'
  BY KnownIdsStep
<1>2. /\ numCreated_ \in Nat /\ numCreated_' \in Nat /\ numCreated_ <= numCreated_'
      /\ \A a \in Addrs : heap[a].sequence # 0 => heap'[a].sequence # 0
  BY NumbersStay
<1>3. \A t \in Threads : pc'[t] # NULL => heap'[pc'[t][1]].sequence # 0
  <2>1. CASE UNCHANGED pc
    BY <1>2, <2>1 DEF Known, Rest
  <2>2. ASSUME NEW t \in Threads, NEW a \in Addrs, NEW when \in now .. MaxTime,
               NEW interval \in Intervals, AddTimer(t, a, when, interval)
        PROVE  \A u \in Threads : pc'[u] # NULL => heap'[pc'[u][1]].sequence # 0
    <3>1. heap'[a].sequence = numCreated_ + 1
      BY <2>2, NewCreates DEF AddTimer, Creates
    <3>2. pc'[t] = <<a, numCreated_'>> /\ \A u \in Threads : u # t => pc'[u] = pc[u]
      BY <2>2 DEF AddTimer, Rest
    <3> QED BY <1>2, <3>1, <3>2 DEF Known, Rest
  <2>3. ASSUME NEW t \in Threads, AddTimerReturns(t)
        PROVE  \A u \in Threads : pc'[u] # NULL => heap'[pc'[u][1]].sequence # 0
    <3>1. pc'[t] = NULL /\ \A u \in Threads : u # t => pc'[u] = pc[u]
      BY <2>3 DEF AddTimerReturns, Rest
    <3> QED BY <1>2, <3>1 DEF Known, Rest
  <2>4. ASSUME NEW t \in Threads, NEW id \in ids, Cancel(t, id) PROVE UNCHANGED pc
    BY <2>4 DEF Cancel
  <2>5. ASSUME NEW a \in Addrs, RunCallback(a) PROVE UNCHANGED pc
    BY <2>5 DEF RunCallback
  <2> QED BY <2>1, <2>2, <2>3, <2>4, <2>5
          DEF Next, RunFunctor, OtherCallback, HandleRead, Reset, Tick, vars
<1>4. \A n \in ran' \cup cancelled' : n <= numCreated_'
  <2>1. ran \subseteq Nat /\ cancelled \subseteq Nat /\ \A n \in ran \cup cancelled : n <= numCreated_'
    BY <1>2 DEF Known, Rest
  <2>2. ASSUME NEW id \in ids, CancelInLoop(id) PROVE \A n \in cancelled' : n <= numCreated_'
    <3>1. id[2] <= numCreated_'
      BY <1>1 DEF Names
    <3> QED BY <2>1, <2>2, <3>1 DEF CancelInLoop, Noted
  <2>3. ASSUME LoopAdds \/ LoopCancels PROVE \A n \in cancelled' : n <= numCreated_'
    <3>1. LoopAdds => UNCHANGED cancelled
      BY LoopCreates
    <3>2. LoopCancels => \E id \in ids : CancelInLoop(id)
      BY DEF LoopCancels
    <3> QED BY <2>1, <2>2, <2>3, <3>1, <3>2
  <2>4. CASE RunFunctor
    <3>1. UNCHANGED ran /\ (UNCHANGED cancelled \/ (Head(pending)[2] \in ids /\ CancelInLoop(Head(pending)[2])))
      BY <2>4, CancelsKnown DEF RunFunctor
    <3> QED BY <2>1, <2>2, <3>1
  <2>5. CASE OtherCallback
    BY <2>1, <2>3, <2>5 DEF OtherCallback
  <2>6. ASSUME NEW a \in Addrs, RunCallback(a) PROVE \A n \in ran' \cup cancelled' : n <= numCreated_'
    <3>1. ran' = ran \cup {heap[a].sequence} /\ (LoopAdds \/ LoopCancels \/ UNCHANGED cancelled)
      BY <2>6 DEF RunCallback
    <3>2. heap[a].sequence <= numCreated_ /\ heap[a].sequence \in Nat
      BY DEF Distinct, Sets, Timer
    <3>3. \A n \in cancelled' : n <= numCreated_'
      BY <2>1, <2>3, <3>1, LoopCreates DEF LoopCancels
    <3> QED BY <1>2, <2>1, <3>1, <3>2, <3>3
  <2>7. ASSUME NEW t \in Threads, NEW a \in Addrs, NEW when \in now .. MaxTime,
               NEW interval \in Intervals, AddTimer(t, a, when, interval)
        PROVE  UNCHANGED <<ran, cancelled>>
    BY <2>7 DEF AddTimer
  <2>8. ASSUME NEW t \in Threads, AddTimerReturns(t) \/ \E id \in ids : Cancel(t, id)
        PROVE  UNCHANGED <<ran, cancelled>>
    BY <2>8 DEF AddTimerReturns, Cancel
  <2>9. CASE HandleRead \/ Reset \/ Tick \/ UNCHANGED vars
    BY <2>1, <2>9 DEF HandleRead, Reset, Tick, vars
  <2> QED BY <2>1, <2>4, <2>5, <2>6, <2>7, <2>8, <2>9 DEF Next
<1>5. \A i \in 1 .. Len(pending') : pending'[i][1] = "cancelInLoop" => pending'[i][2] \in ids'
  <2>1. pending \in Seq(Functor) /\ Len(pending) \in Nat
    BY DEF Rest
  <2>2. \A i \in 1 .. Len(pending) : pending[i][1] = "cancelInLoop" => pending[i][2] \in ids'
    BY <1>1 DEF Known
  <2>3. CASE UNCHANGED pending
    BY <2>2, <2>3
  <2>4. CASE RunFunctor
    <3>1. pending' = Tail(pending) /\ pending # <<>>
      BY <2>4 DEF RunFunctor
    <3>2. /\ Len(pending') = Len(pending) - 1
          /\ \A i \in 1 .. Len(pending) - 1 : pending'[i] = pending[i + 1] /\ i + 1 \in 1 .. Len(pending)
      BY <2>1, <3>1
    <3> QED BY <2>2, <3>2
  <2>5. ASSUME NEW f \in Functor, pending' = Append(pending, f),
               f[1] = "cancelInLoop" => f[2] \in ids'
        PROVE  \A i \in 1 .. Len(pending') : pending'[i][1] = "cancelInLoop" => pending'[i][2] \in ids'
    <3>1. /\ Len(pending') = Len(pending) + 1 /\ pending'[Len(pending) + 1] = f
          /\ \A i \in 1 .. Len(pending) : pending'[i] = pending[i]
      BY <2>1, <2>5
    <3>2. \A i \in 1 .. Len(pending) + 1 : i \in 1 .. Len(pending) \/ i = Len(pending) + 1
      BY <2>1
    <3> QED BY <2>2, <2>5, <3>1, <3>2
  <2>6. ASSUME NEW t \in Threads, NEW a \in Addrs, NEW when \in now .. MaxTime,
               NEW interval \in Intervals, AddTimer(t, a, when, interval)
        PROVE  \A i \in 1 .. Len(pending') : pending'[i][1] = "cancelInLoop" => pending'[i][2] \in ids'
    <3> DEFINE f == <<"addTimerInLoop", <<a, numCreated_'>>>>
    <3>1. f \in Functor /\ f[1] # "cancelInLoop"
      BY <1>2 DEF Functor
    <3>2. pending' = Append(pending, f)
      BY <2>6 DEF AddTimer
    <3> HIDE DEF f
    <3> QED BY <2>5, <3>1, <3>2
  <2>7. ASSUME NEW t \in Threads, NEW id \in ids, Cancel(t, id)
        PROVE  \A i \in 1 .. Len(pending') : pending'[i][1] = "cancelInLoop" => pending'[i][2] \in ids'
    <3> DEFINE f == <<"cancelInLoop", id>>
    <3>1. f \in Functor /\ f[2] \in ids'
      BY <1>1 DEF Functor, Rest
    <3>2. pending' = Append(pending, f)
      BY <2>7 DEF Cancel
    <3> HIDE DEF f
    <3> QED BY <2>5, <3>1, <3>2
  <2>8. ASSUME NEW t \in Threads, AddTimerReturns(t) PROVE UNCHANGED pending
    BY <2>8 DEF AddTimerReturns
  <2>9. ASSUME NEW a \in Addrs, RunCallback(a) PROVE UNCHANGED pending
    BY <2>9 DEF RunCallback
  <2> QED BY <2>3, <2>4, <2>6, <2>7, <2>8, <2>9
          DEF Next, OtherCallback, HandleRead, Reset, Tick, vars
<1> QED BY <1>1, <1>3, <1>4, <1>5 DEF Known

(* What a step does to the batch.                                          *)
LEMMA BatchSteps ==
  ASSUME Sets, Rest, [Next]_vars
  PROVE  /\ Reset \/ UNCHANGED heap \/ \E a \in Addrs : Creates(a)
         /\ now \in Nat /\ now' \in Nat /\ now <= now'
         /\ \/ HandleRead
            \/ Reset
            \/ UNCHANGED <<expired, unrun, ran>>
            \/ \E a \in Addrs : RunCallback(a)
<1>1. CASE HandleRead \/ Reset \/ Tick \/ UNCHANGED vars
  BY <1>1 DEF HandleRead, Reset, Tick, vars, Rest
<1>2. ASSUME NEW t \in Threads, NEW a \in Addrs, NEW when \in now .. MaxTime,
             NEW interval \in Intervals, AddTimer(t, a, when, interval)
      PROVE  Creates(a) /\ UNCHANGED <<expired, unrun, ran, now>>
  BY <1>2, NewCreates DEF AddTimer
<1>3. ASSUME NEW t \in Threads, AddTimerReturns(t) \/ \E id \in ids : Cancel(t, id)
      PROVE  UNCHANGED <<heap, expired, unrun, ran, now>>
  BY <1>3 DEF AddTimerReturns, Cancel
<1>4. CASE RunFunctor
  BY <1>4 DEF RunFunctor, Rest
<1>5. CASE OtherCallback
  BY <1>5, LoopCreates DEF OtherCallback, LoopCancels, Rest
<1>6. ASSUME NEW a \in Addrs, RunCallback(a)
      PROVE  (UNCHANGED heap \/ \E b \in Addrs : Creates(b)) /\ UNCHANGED now
  BY <1>6, LoopCreates DEF RunCallback, LoopCancels
<1>7. now \in Nat
  BY DEF Rest
<1> QED BY <1>1, <1>2, <1>3, <1>4, <1>5, <1>6, <1>7 DEF Next

LEMMA RunsCallback ==
  ASSUME NEW a, RunCallback(a)
  PROVE  /\ a \in unrun /\ unrun' = unrun \ {a} /\ ran' = ran \cup {heap[a].sequence}
         /\ UNCHANGED expired
  BY DEF RunCallback

LEMMA BatchStep ==
  ASSUME Sets, Rest, TimersInv, RunsInv, [Next]_vars
  PROVE  Batch'
<1>1. \A a \in expired : a \in alive /\ a \in Addrs /\ heap[a].expiration <= now
  BY DEF TimersInv, SetsAgree, RunsInv, Batch, Sets
<1>2. \A a \in expired \ unrun : heap[a].sequence \in ran
  BY DEF RunsInv, Batch
<1>3. now \in Nat /\ now' \in Nat /\ now <= now' /\ \A a \in Addrs : heap[a].expiration \in Nat
  BY BatchSteps DEF Sets, Timer
<1>4. CASE Reset
  BY <1>4 DEF Reset, Batch
<1>5. ASSUME ~Reset PROVE \A a \in expired : heap'[a] = heap[a]
  <2>1. UNCHANGED heap \/ \E b \in Addrs : Creates(b)
    BY <1>5, BatchSteps
  <2> QED BY <1>1, <2>1 DEF Creates
<1>6. CASE HandleRead
  <2>1. UNCHANGED <<heap, now>> /\ unrun' = expired' /\ expired' = {e[2] : e \in {x \in timers_ : Due(x)}}
    BY <1>6 DEF HandleRead
  <2>2. \A e \in timers_ : Due(e) => heap[e[2]].expiration <= now
    BY DEF TimersInv, SetsAgree, Due
  <2> QED BY <2>1, <2>2 DEF Batch
<1>7. CASE ~Reset /\ UNCHANGED <<expired, unrun, ran>>
  BY <1>1, <1>2, <1>3, <1>5, <1>7 DEF Batch
<1>8. ASSUME NEW a \in Addrs, RunCallback(a), ~Reset PROVE Batch'
  <2>1. a \in unrun /\ unrun' = unrun \ {a} /\ ran' = ran \cup {heap[a].sequence} /\ expired' = expired
    BY <1>8, RunsCallback
  <2>2. \A b \in expired : heap'[b] = heap[b]
    BY <1>5, <1>8
  <2> QED BY <1>1, <1>2, <1>3, <2>1, <2>2 DEF Batch
<1> QED BY <1>4, <1>6, <1>7, <1>8, BatchSteps

LEMMA OnceOnlyStep ==
  ASSUME Sets, Rest, TimersInv, RunsInv, [Next]_vars
  PROVE  OnceOnly'
<1> SUFFICES ASSUME NEW b \in alive', heap'[b].interval = 0, heap'[b].sequence \in ran'
             PROVE  b \in expired' \ unrun'
  BY DEF OnceOnly
<1>1. /\ alive \subseteq Addrs /\ unrun \subseteq expired /\ numCreated_ \in Nat
      /\ \A a \in Addrs : heap[a].sequence \in Nat /\ heap[a].sequence <= numCreated_
      /\ \A n \in ran : n <= numCreated_
      /\ ran \subseteq Nat
  BY DEF Sets, Rest, Timer, RunsInv, Distinct, Known
<1>2. b \in alive /\ heap'[b].sequence = heap[b].sequence /\ heap'[b].interval = heap[b].interval
  <2>1. CASE Keeps
    BY <1>1, <2>1 DEF Keeps
  <2>2. ASSUME NEW a \in Addrs, Creates(a), b # a
        PROVE  b \in alive /\ heap'[b].sequence = heap[b].sequence /\ heap'[b].interval = heap[b].interval
    BY <1>1, <2>2 DEF Creates
  <2>3. ASSUME Creates(b) PROVE FALSE
    <3>1. heap'[b].sequence = numCreated_ + 1
      BY <2>3 DEF Creates
    <3>2. ran' \subseteq ran \cup {heap[a].sequence : a \in Addrs}
      BY BatchSteps, RunsCallback DEF HandleRead, Reset
    <3>3. \A n \in ran' : n <= numCreated_
      BY <1>1, <3>2
    <3> QED BY <1>1, <3>1, <3>3
  <2> QED BY <2>1, <2>2, <2>3, HeapStep
<1>3. heap[b].sequence \in ran => b \in expired \ unrun
  BY <1>2 DEF RunsInv, OnceOnly
<1>4. CASE UNCHANGED <<expired, unrun, ran>>
  BY <1>2, <1>3, <1>4
<1>5. CASE HandleRead
  <2>1. expired = {} /\ ran' = ran
    BY <1>5 DEF HandleRead, TimersInv, BatchWhileCalling
  <2> QED BY <1>2, <1>3, <2>1
<1>6. CASE Reset
  <2>1. ran' = ran /\ alive' = alive \ (expired \ Again)
    BY <1>6 DEF Reset, Finished
  <2>2. b \in expired /\ b \notin Again
    <3>1. b \in expired
      BY <1>2, <1>3, <2>1
    <3>2. heap[b].interval = 0
      BY <1>2
    <3>3. b \notin Again
      BY <3>2 DEF Again
    <3> QED BY <3>1, <3>3
  <2> QED BY <2>1, <2>2
<1>7. ASSUME NEW a \in Addrs, RunCallback(a) PROVE b \in expired' \ unrun'
  <2>1. a \in unrun /\ unrun' = unrun \ {a} /\ ran' = ran \cup {heap[a].sequence} /\ expired' = expired
    BY <1>7, RunsCallback
  <2>2. CASE heap[b].sequence = heap[a].sequence
    <3>1. b \in Addrs /\ heap[b].sequence # 0
      BY <1>1, <1>2 DEF RunsInv, Distinct
    <3>2. b = a
      BY <2>2, <3>1 DEF RunsInv, Distinct
    <3> QED BY <1>1, <2>1, <3>2
  <2>3. CASE heap[b].sequence \in ran
    BY <1>3, <2>1, <2>3
  <2> QED BY <1>2, <2>1, <2>2, <2>3
<1> QED BY <1>4, <1>5, <1>6, <1>7, BatchSteps

(* A cancel of a timer that lives: it is deleted, or noted for reset, or   *)
(* it came before the timer.                                               *)
LEMMA CancelRemembers ==
  ASSUME Sets, Rest, TimersInv, RunsInv, NEW id \in ids, CancelInLoop(id),
         UNCHANGED <<heap, expired>>
  PROVE  Remembered'
<1> SUFFICES ASSUME NEW b \in alive', heap[b].sequence \in cancelled' \ early'
             PROVE  b \in expired /\ Id(b) \in cancelingTimers_'
  BY DEF Remembered, Id
<1>1. /\ alive' \subseteq alive /\ alive \subseteq Addrs /\ cancelingTimers_ \subseteq cancelingTimers_'
      /\ cancelled' = cancelled \cup {id[2]}
      /\ early' = IF AddQueued(id) THEN early \cup {id[2]} ELSE early \ {id[2]}
  BY DEF CancelInLoop, Noted, Sets
<1>2. CASE heap[b].sequence # id[2]
  BY <1>1, <1>2 DEF RunsInv, Remembered
<1>3. CASE heap[b].sequence = id[2]
  <2>1. b = id[1] /\ id = <<id[1], id[2]>>
    BY <1>1, <1>3 DEF RunsInv, Known, Names, Rest
  <2>2. Id(b) = id
    BY <1>3, <2>1 DEF Id
  <2>3. id \notin activeTimers_
    BY <2>1 DEF CancelInLoop
  <2>4. ~AddQueued(Id(b))
    BY <1>1, <1>3, <2>2
  <2>5. b \in expired
    BY <1>1, <2>2, <2>3, <2>4 DEF TimersInv, NoLeak, InActive
  <2>6. callingExpiredTimers_
    BY <2>5 DEF TimersInv, BatchWhileCalling
  <2>7. id \in cancelingTimers_'
    BY <2>3, <2>6 DEF CancelInLoop
  <2> QED BY <2>2, <2>5, <2>7
<1> QED BY <1>2, <1>3

LEMMA CreateRemembers ==
  ASSUME Sets, Rest, TimersInv, RunsInv, NEW a, Creates(a),
         UNCHANGED <<cancelled, early, cancelingTimers_, expired>>
  PROVE  Remembered'
<1> SUFFICES ASSUME NEW b \in alive', heap'[b].sequence \in cancelled \ early
             PROVE  b \in expired /\ <<b, heap'[b].sequence>> \in cancelingTimers_
  BY DEF Remembered, Id
<1>1. heap'[a].sequence \notin cancelled
  BY DEF Creates, RunsInv, Known, Rest
<1>2. b \in alive /\ heap'[b] = heap[b]
  BY <1>1 DEF Creates, Sets
<1> QED BY <1>2 DEF RunsInv, Remembered, Id

LEMMA RememberedStep ==
  ASSUME Sets, Rest, TimersInv, RunsInv, [Next]_vars
  PROVE  Remembered'
<1>1. ASSUME UNCHANGED <<heap, alive, expired, cancelled, early, cancelingTimers_>> PROVE Remembered'
  BY <1>1 DEF RunsInv, Remembered, Id
<1>2. ASSUME LoopAdds \/ LoopCancels, UNCHANGED expired PROVE Remembered'
  BY <1>2, LoopCreates, CreateRemembers, CancelRemembers DEF LoopCancels
<1>3. ASSUME NEW t \in Threads, NEW a \in Addrs, NEW when \in now .. MaxTime,
             NEW interval \in Intervals, AddTimer(t, a, when, interval)
      PROVE  Remembered'
  BY <1>3, NewCreates, CreateRemembers DEF AddTimer
<1>4. ASSUME NEW t \in Threads, AddTimerReturns(t) \/ \E id \in ids : Cancel(t, id) PROVE Remembered'
  BY <1>1, <1>4 DEF AddTimerReturns, Cancel
<1>5. CASE RunFunctor
  <2>1. UNCHANGED <<heap, expired>>
    BY <1>5 DEF RunFunctor
  <2> QED BY <1>1, <1>5, <2>1, CancelsKnown, CancelRemembers DEF RunsInv
<1>6. CASE OtherCallback
  BY <1>2, <1>6 DEF OtherCallback
<1>7. ASSUME NEW a \in Addrs, RunCallback(a) PROVE Remembered'
  BY <1>1, <1>2, <1>7 DEF RunCallback
<1>8. CASE HandleRead
  <2>1. expired = {} /\ UNCHANGED <<heap, alive, cancelled, early>>
    BY <1>8 DEF HandleRead, TimersInv, BatchWhileCalling
  <2> QED BY <2>1 DEF RunsInv, Remembered
<1>9. CASE Reset
  <2>1. /\ alive' = alive \ (expired \ Again) /\ UNCHANGED <<cancelled, early>>
        /\ \A b \in Addrs : heap'[b].sequence = heap[b].sequence
    <3>1. Keeps \/ \E a \in Addrs : Creates(a)
      BY HeapStep
    <3>2. numCreated_' = numCreated_ /\ numCreated_ \in Nat
      BY <1>9 DEF Reset, Rest
    <3>3. Keeps
      BY <3>1, <3>2 DEF Creates
    <3> QED BY <1>9, <3>3 DEF Reset, Finished, Keeps
  <2>2. \A b \in alive' : heap'[b].sequence \notin cancelled \ early
    <3> SUFFICES ASSUME NEW b \in alive', heap'[b].sequence \in cancelled \ early PROVE FALSE
      OBVIOUS
    <3>1. b \in alive /\ heap[b].sequence \in cancelled \ early
      BY <2>1 DEF Sets
    <3>2. b \in expired /\ Id(b) \in cancelingTimers_
      BY <3>1 DEF RunsInv, Remembered
    <3>3. b \notin Again
      BY <3>2 DEF Again
    <3> QED BY <2>1, <3>2, <3>3
  <2> QED BY <2>1, <2>2 DEF Remembered
<1>10. CASE Tick \/ UNCHANGED vars
  BY <1>1, <1>10 DEF Tick, vars
<1> QED BY <1>3, <1>4, <1>5, <1>6, <1>7, <1>8, <1>9, <1>10 DEF Next

LEMMA RunsInvInit == Init => RunsInv
  BY DEF Init, RunsInv, Distinct, Known, Batch, OnceOnly, Remembered

LEMMA RunsInvStep == Sets /\ Rest /\ TimersInv /\ RunsInv /\ [Next]_vars => RunsInv'
<1> SUFFICES ASSUME Sets, Rest, TimersInv, RunsInv, [Next]_vars PROVE RunsInv'
  OBVIOUS
<1>1. Distinct' /\ Known'
  BY DistinctStep, KnownStep DEF RunsInv
<1> QED BY <1>1, BatchStep, OnceOnlyStep, RememberedStep DEF RunsInv

LEMMA RunsInvariant == Spec => [](Sets /\ Rest /\ TimersInv /\ RunsInv)
<1>1. Init => Sets
  BY DEF Init, Sets, Timer
<1>2. Init => Rest
  BY DEF Init, Rest
<1> QED BY <1>1, <1>2, PartsStep, TimersInvInit, TimersInvStep, RunsInvInit, RunsInvStep, PTL DEF Spec

LEMMA RunsStep ==
  ASSUME Sets, Rest, TimersInv, RunsInv
  PROVE  \A a \in unrun :
           /\ heap[a].expiration <= now
           /\ heap[a].interval = 0 => heap[a].sequence \notin ran
           /\ heap[a].sequence \in cancelled \ early => Id(a) \in cancelingTimers_
<1>1. \A a \in unrun : a \in expired /\ a \in alive
  BY DEF TimersInv, SetsAgree, Sets
<1> QED BY <1>1 DEF RunsInv, Batch, OnceOnly, Remembered

LEMMA DropsStep ==
  ASSUME Sets, Rest, TimersInv, RunsInv, [Next]_vars
  PROVE  \A a \in alive \ alive' : heap[a].sequence \in ran \/ heap[a].sequence \in cancelled'
<1> DEFINE Right == \A a \in alive \ alive' : heap[a].sequence \in ran \/ heap[a].sequence \in cancelled'
<1>1. ASSUME NEW id, CancelInLoop(id) PROVE Right
  <2>1. ASSUME NEW a \in alive \ alive' PROVE a = id[1] /\ id \in activeTimers_
    BY <1>1, <2>1 DEF CancelInLoop
  <2>2. ASSUME NEW a \in alive \ alive' PROVE heap[a].sequence = id[2]
    BY <2>1, <2>2 DEF TimersInv, SetsAgree
  <2> QED BY <1>1, <2>2 DEF CancelInLoop, Noted
<1>2. ASSUME alive \subseteq alive' PROVE Right
  BY <1>2
<1>3. LoopAdds \/ LoopCancels => Right
  BY <1>1, <1>2, LoopCreates DEF LoopCancels, Creates
<1>4. ASSUME NEW t \in Threads, NEW a \in Addrs, NEW when \in now .. MaxTime,
             NEW interval \in Intervals, AddTimer(t, a, when, interval)
      PROVE  Right
  BY <1>2, <1>4, NewCreates DEF AddTimer, Creates
<1>5. ASSUME NEW t \in Threads, AddTimerReturns(t) \/ \E id \in ids : Cancel(t, id) PROVE Right
  BY <1>2, <1>5 DEF AddTimerReturns, Cancel
<1>6. CASE RunFunctor
  BY <1>1, <1>2, <1>6 DEF RunFunctor
<1>7. CASE OtherCallback
  BY <1>3, <1>7 DEF OtherCallback
<1>8. ASSUME NEW a \in Addrs, RunCallback(a) PROVE Right
  BY <1>2, <1>3, <1>8 DEF RunCallback
<1>9. CASE HandleRead \/ Tick \/ UNCHANGED vars
  BY <1>2, <1>9 DEF HandleRead, Tick, vars
<1>10. CASE Reset
  <2>1. unrun = {} /\ alive' = alive \ (expired \ Again)
    BY <1>10 DEF Reset, Finished
  <2> QED BY <2>1 DEF RunsInv, Batch
<1> QED BY <1>4, <1>5, <1>6, <1>7, <1>8, <1>9, <1>10 DEF Next

(* TimerQueue.cc, handleRead, getExpired and cancelInLoop: however timers  *)
(* are added, cancelled and their memory used again, by callbacks and by   *)
(* other threads, a callback runs in time, once if it does not repeat, and *)
(* in no batch after the one in which it was cancelled.                    *)
THEOREM RunsRightlyAlways == Spec => RunsRightly
<1>1. Sets /\ Rest /\ TimersInv /\ RunsInv /\ [Next]_vars
        => [ \A a \in unrun \ unrun' :
               /\ heap[a].expiration <= now
               /\ heap[a].interval = 0 => heap[a].sequence \notin ran
               /\ heap[a].sequence \in cancelled \ early => Id(a) \in cancelingTimers_ ]_vars
  BY RunsStep
<1> QED BY <1>1, RunsInvariant, PTL DEF Spec, RunsRightly

(* TimerQueue.cc, cancelInLoop and reset: a timer is deleted only for      *)
(* having run or for having been cancelled itself.                         *)
THEOREM DroppedRightlyAlways == Spec => DroppedRightly
<1>1. Sets /\ Rest /\ TimersInv /\ RunsInv /\ [Next]_vars
        => [ \A a \in alive \ alive' : heap[a].sequence \in ran \/ heap[a].sequence \in cancelled' ]_vars
  BY DropsStep
<1> QED BY <1>1, RunsInvariant, PTL DEF Spec, DroppedRightly
===============================================================================
