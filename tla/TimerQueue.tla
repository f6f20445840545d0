------------------------------ MODULE TimerQueue ------------------------------
(***************************************************************************)
(* muduo::net::TimerQueue: the timers of a loop and the one timerfd armed  *)
(* for the earliest of them.  Timer objects are raw pointers: what is      *)
(* freed may be allocated again, so an address names different timers over *)
(* time and a TimerId carries a sequence number besides.  addTimer and     *)
(* cancel may be called from any thread and are carried to the loop as     *)
(* functors; a timer's callback calls them in the loop itself.             *)
(***************************************************************************)
EXTENDS Naturals, Sequences

CONSTANTS
  Threads,     (* threads other than the loop's own                        *)
  Addrs,       (* addresses new Timer may return                           *)
  Intervals,   (* intervals asked for, 0 for a timer that runs once        *)
  NULL,
  MaxTime,     (* bound on the clock and on the times asked for            *)
  MaxTimers,   (* bound on the timers ever created                         *)
  MaxPending   (* bound on the functors queued for the loop                *)

ASSUME TimerQueueAssumption ==
  /\ Intervals \subseteq Nat
  /\ MaxTime \in Nat \ {0}
  /\ MaxTimers \in Nat
  /\ MaxPending \in Nat
  /\ NULL \notin Addrs \X Nat

VARIABLES
  heap,                  (* sequence_, expiration_ and interval_ at an     *)
                         (* address; freed memory keeps its last values    *)
  alive,                 (* addresses of Timer objects not deleted         *)
  timers_,               (* set of <<expiration, address>>                 *)
  activeTimers_,         (* set of <<address, sequence>>                   *)
  cancelingTimers_,
  callingExpiredTimers_,
  expired,               (* addresses getExpired moved out                 *)
  unrun,                 (* those of them whose callback has not run yet   *)
  readAt,                (* handleRead's Timestamp now                     *)
  timerfd_,              (* when the descriptor fires, 0 if disarmed       *)
  now,                   (* the clock                                      *)
  numCreated_,           (* Timer::s_numCreated_                           *)
  pending,               (* addTimerInLoop and cancelInLoop functors       *)
  pc,                    (* per thread: NULL, or <<address, sequence>> of  *)
                         (* the timer its addTimer has created and queued  *)
  ids,                   (* TimerIds addTimer has returned                 *)
  ran,                   (* sequence numbers of the timers that have run   *)
  cancelled,             (* sequence numbers cancelInLoop was called with  *)
  early                  (* those of them whose addTimerInLoop had not run *)

vars == <<heap, alive, timers_, activeTimers_, cancelingTimers_,
          callingExpiredTimers_, expired, unrun, readAt, timerfd_, now,
          numCreated_, pending, pc, ids, ran, cancelled, early>>

Timer == [sequence : Nat, expiration : Nat, interval : Nat]
Functor == {"addTimerInLoop", "cancelInLoop"} \X (Addrs \X Nat)

TypeOK ==
  /\ heap \in [Addrs -> Timer]
  /\ alive \subseteq Addrs
  /\ timers_ \subseteq Nat \X Addrs
  /\ activeTimers_ \subseteq Addrs \X Nat
  /\ cancelingTimers_ \subseteq Addrs \X Nat
  /\ callingExpiredTimers_ \in BOOLEAN
  /\ expired \subseteq Addrs
  /\ unrun \subseteq expired
  /\ readAt \in Nat
  /\ timerfd_ \in Nat
  /\ now \in Nat \ {0}
  /\ numCreated_ \in Nat
  /\ pending \in Seq(Functor)
  /\ pc \in [Threads -> (Addrs \X Nat) \cup {NULL}]
  /\ ids \subseteq Addrs \X Nat
  /\ ran \subseteq Nat
  /\ cancelled \subseteq Nat
  /\ early \subseteq Nat

-----------------------------------------------------------------------------
Init ==
  /\ heap = [a \in Addrs |-> [sequence |-> 0, expiration |-> 0, interval |-> 0]]
  /\ alive = {}
  /\ timers_ = {}
  /\ activeTimers_ = {}
  /\ cancelingTimers_ = {}
  /\ callingExpiredTimers_ = FALSE
  /\ expired = {}
  /\ unrun = {}
  /\ readAt = 1
  /\ timerfd_ = 0
  /\ now = 1
  /\ numCreated_ = 0
  /\ pending = <<>>
  /\ pc = [t \in Threads |-> NULL]
  /\ ids = {}
  /\ ran = {}
  /\ cancelled = {}
  /\ early = {}

Id(a) == <<a, heap[a].sequence>>

(* howMuchTimeFromNow: a time that has passed fires at once. *)
FiresAt(when) == IF when < now THEN now ELSE when

(* new Timer at a free address. *)
NewTimer(a, when, interval) ==
  /\ a \in Addrs \ alive
  /\ numCreated_ < MaxTimers
  /\ numCreated_' = numCreated_ + 1
  /\ heap' = [heap EXCEPT ![a] = [sequence |-> numCreated_', expiration |-> when, interval |-> interval]]
  /\ alive' = alive \cup {a}

(* addTimerInLoop, with insert: the timerfd is armed again when the new    *)
(* timer is the earliest.                                                  *)
AddTimerInLoop(a, sequence, expiration) ==
  /\ timers_' = timers_ \cup {<<expiration, a>>}
  /\ activeTimers_' = activeTimers_ \cup {<<a, sequence>>}
  /\ timerfd_' = IF \A e \in timers_ : expiration < e[1] THEN FiresAt(expiration) ELSE timerfd_

AddQueued(id) == \E i \in 1 .. Len(pending) : pending[i] = <<"addTimerInLoop", id>>

(* History: the cancel, and whether it came before the timer was added. *)
Noted(id) ==
  /\ cancelled' = cancelled \cup {id[2]}
  /\ early' = IF AddQueued(id) THEN early \cup {id[2]} ELSE early \ {id[2]}

(* Mutant: the timer is found by its address. *)
CancelInLoop_ByAddress(id) ==
  /\ Noted(id)
  /\ IF \E active \in activeTimers_ : active[1] = id[1]
     THEN /\ timers_' = timers_ \ {<<heap[id[1]].expiration, id[1]>>}
          /\ activeTimers_' = activeTimers_ \ {Id(id[1])}
          /\ alive' = alive \ {id[1]}
          /\ UNCHANGED cancelingTimers_
     ELSE /\ cancelingTimers_' =
               IF callingExpiredTimers_ THEN cancelingTimers_ \cup {id} ELSE cancelingTimers_
          /\ UNCHANGED <<timers_, activeTimers_, alive>>

(* Mutant: a timer that is being called is not remembered as cancelled. *)
CancelInLoop_NotWhileCalling(id) ==
  /\ Noted(id)
  /\ IF id \in activeTimers_
     THEN /\ timers_' = timers_ \ {<<heap[id[1]].expiration, id[1]>>}
          /\ activeTimers_' = activeTimers_ \ {id}
          /\ alive' = alive \ {id[1]}
          /\ UNCHANGED cancelingTimers_
     ELSE UNCHANGED <<timers_, activeTimers_, alive, cancelingTimers_>>

(* Mutant: a timer that is being called is deleted at once. *)
CancelInLoop_DeletesCalled(id) ==
  /\ Noted(id)
  /\ timers_' = timers_ \ {<<heap[id[1]].expiration, id[1]>>}
  /\ activeTimers_' = activeTimers_ \ {id}
  /\ alive' = IF id = Id(id[1]) THEN alive \ {id[1]} ELSE alive
  /\ UNCHANGED cancelingTimers_

(* cancelInLoop: an active timer is deleted; one that is being called is   *)
(* only noted; of any other nothing is known.                              *)
CancelInLoop(id) ==
  /\ Noted(id)
  /\ IF id \in activeTimers_
     THEN /\ timers_' = timers_ \ {<<heap[id[1]].expiration, id[1]>>}
          /\ activeTimers_' = activeTimers_ \ {id}
          /\ alive' = alive \ {id[1]}
          /\ UNCHANGED cancelingTimers_
     ELSE /\ cancelingTimers_' =
               IF callingExpiredTimers_ THEN cancelingTimers_ \cup {id} ELSE cancelingTimers_
          /\ UNCHANGED <<timers_, activeTimers_, alive>>

(* addTimer by another thread: the functor is queued, and the TimerId is   *)
(* made afterwards, from what the object then holds.                       *)
AddTimer(t, a, when, interval) ==
  /\ pc[t] = NULL
  /\ Len(pending) < MaxPending
  /\ NewTimer(a, when, interval)
  /\ pending' = Append(pending, <<"addTimerInLoop", <<a, numCreated_'>>>>)
  /\ pc' = [pc EXCEPT ![t] = <<a, numCreated_'>>]
  /\ UNCHANGED <<timers_, activeTimers_, cancelingTimers_, callingExpiredTimers_, expired, unrun,
                 readAt, timerfd_, now, ids, ran, cancelled, early>>

AddTimerReturns(t) ==
  /\ pc[t] # NULL
  /\ ids' = ids \cup {Id(pc[t][1])}
  /\ pc' = [pc EXCEPT ![t] = NULL]
  /\ UNCHANGED <<heap, alive, timers_, activeTimers_, cancelingTimers_, callingExpiredTimers_,
                 expired, unrun, readAt, timerfd_, now, numCreated_, pending, ran, cancelled, early>>

Cancel(t, id) ==
  /\ pc[t] = NULL
  /\ Len(pending) < MaxPending
  /\ id \in ids
  /\ pending' = Append(pending, <<"cancelInLoop", id>>)
  /\ UNCHANGED <<heap, alive, timers_, activeTimers_, cancelingTimers_, callingExpiredTimers_,
                 expired, unrun, readAt, timerfd_, now, numCreated_, pc, ids, ran, cancelled, early>>

(* The loop runs a functor (between two calls of handleRead). *)
RunFunctor ==
  /\ ~callingExpiredTimers_
  /\ pending # <<>>
  /\ pending' = Tail(pending)
  /\ LET id == Head(pending)[2] IN
     \/ /\ Head(pending)[1] = "addTimerInLoop"
        /\ AddTimerInLoop(id[1], id[2], heap[id[1]].expiration)
        /\ UNCHANGED <<alive, cancelingTimers_, cancelled, early>>
     \/ /\ Head(pending)[1] = "cancelInLoop"
        /\ CancelInLoop(id)
        /\ UNCHANGED timerfd_
  /\ UNCHANGED <<heap, callingExpiredTimers_, expired, unrun, readAt, now, numCreated_, pc, ids, ran>>

(* Mutant: timers due at this very moment stay. *)
Due_Before(e) == e[1] < now

(* getExpired takes what lies before <<now, UINTPTR_MAX>>. *)
Due(e) == e[1] <= now

HandleRead ==
  /\ ~callingExpiredTimers_
  /\ timerfd_ # 0 /\ timerfd_ <= now
  /\ timerfd_' = 0
  /\ readAt' = now
  /\ expired' = {e[2] : e \in {x \in timers_ : Due(x)}}
  /\ unrun' = expired'
  /\ timers_' = {e \in timers_ : ~Due(e)}
  /\ activeTimers_' = {id \in activeTimers_ : id[1] \notin expired'}
  /\ callingExpiredTimers_' = TRUE
  /\ cancelingTimers_' = {}
  /\ UNCHANGED <<heap, alive, now, numCreated_, pending, pc, ids, ran, cancelled, early>>

(* addTimer and cancel called in the loop thread act at once. *)
LoopAdds ==
  \E a \in Addrs, when \in now .. MaxTime, interval \in Intervals :
    /\ NewTimer(a, when, interval)
    /\ AddTimerInLoop(a, numCreated_', when)
    /\ ids' = ids \cup {<<a, numCreated_'>>}
    /\ UNCHANGED <<cancelingTimers_, cancelled, early>>

LoopCancels ==
  \E id \in ids :
    /\ CancelInLoop(id)
    /\ UNCHANGED <<heap, timerfd_, numCreated_, ids>>

(* Any other callback of the loop adds or cancels a timer. *)
OtherCallback ==
  /\ ~callingExpiredTimers_
  /\ LoopAdds \/ LoopCancels
  /\ UNCHANGED <<callingExpiredTimers_, expired, unrun, readAt, now, pending, pc, ran>>

(* The callback of the next expired timer runs.  It may add or cancel a    *)
(* timer, itself included.                                                 *)
RunCallback(a) ==
  /\ a \in unrun
  /\ \A b \in unrun : heap[a].expiration <= heap[b].expiration
  /\ unrun' = unrun \ {a}
  /\ ran' = ran \cup {heap[a].sequence}
  /\ \/ LoopAdds
     \/ LoopCancels
     \/ UNCHANGED <<heap, alive, timers_, activeTimers_, cancelingTimers_, timerfd_, numCreated_, ids, cancelled, early>>
  /\ UNCHANGED <<callingExpiredTimers_, expired, readAt, now, pending, pc>>

(* The expired timers that go on: repeating ones nobody cancelled. *)
Again == {a \in expired : heap[a].interval > 0 /\ Id(a) \notin cancelingTimers_}

(* Mutant: a repeating timer that was cancelled is not deleted. *)
Finished_OneShot == {a \in expired : heap[a].interval = 0}

Finished == expired \ Again

(* Mutant: the descriptor is armed only if something was inserted again. *)
Earliest_OfAgain(entries) == Again # {}

Earliest_Exists(entries) == entries # {}

(* reset: the others are deleted, and the timerfd is armed for the         *)
(* earliest timer there is.                                                *)
Reset ==
  /\ callingExpiredTimers_
  /\ unrun = {}
  /\ callingExpiredTimers_' = FALSE
  /\ expired' = {}
  /\ heap' = [a \in Addrs |->
                IF a \in Again THEN [heap[a] EXCEPT !.expiration = readAt + heap[a].interval] ELSE heap[a]]
  /\ timers_' = timers_ \cup {<<readAt + heap[a].interval, a>> : a \in Again}
  /\ activeTimers_' = activeTimers_ \cup {Id(a) : a \in Again}
  /\ alive' = alive \ Finished
  /\ IF Earliest_Exists(timers_')
     THEN \E e \in timers_' : (\A f \in timers_' : e[1] <= f[1]) /\ timerfd_' = FiresAt(e[1])
     ELSE UNCHANGED timerfd_
  /\ UNCHANGED <<cancelingTimers_, unrun, readAt, now, numCreated_, pending, pc, ids, ran, cancelled, early>>

(* Time passes. *)
Tick ==
  /\ now < MaxTime
  /\ now' = now + 1
  /\ UNCHANGED <<heap, alive, timers_, activeTimers_, cancelingTimers_, callingExpiredTimers_,
                 expired, unrun, readAt, timerfd_, numCreated_, pending, pc, ids, ran, cancelled, early>>

Next ==
  \/ \E t \in Threads, a \in Addrs, when \in now .. MaxTime, interval \in Intervals :
       AddTimer(t, a, when, interval)
  \/ \E t \in Threads : AddTimerReturns(t) \/ \E id \in ids : Cancel(t, id)
  \/ RunFunctor \/ OtherCallback \/ HandleRead \/ (\E a \in Addrs : RunCallback(a)) \/ Reset
  \/ Tick

Spec == Init /\ [][Next]_vars

(* The clock and the loop go on. *)
Fairness ==
  /\ WF_vars(RunFunctor) /\ WF_vars(HandleRead) /\ WF_vars(Reset) /\ WF_vars(Tick)
  /\ \A a \in Addrs : WF_vars(RunCallback(a))

FairSpec == Spec /\ Fairness

-----------------------------------------------------------------------------
(* The two sets describe the same timers, each under the expiration its    *)
(* object holds, which is what the asserts n == 1 of cancelInLoop and      *)
(* getExpired rely on; nothing in them or in a batch has been deleted, and *)
(* a batch and the sets have no timer in common.                           *)
InTimers(a) == <<heap[a].expiration, a>> \in timers_
InActive(a) == Id(a) \in activeTimers_

SetsAgree ==
  /\ \A e \in timers_ : e[2] \in alive /\ e[1] = heap[e[2]].expiration /\ InActive(e[2])
  /\ \A id \in activeTimers_ : id[1] \in alive /\ id[2] = heap[id[1]].sequence /\ InTimers(id[1])
  /\ \A a \in expired : a \in alive /\ ~InActive(a)

(* What they need to be inductive: a timer on its way to the loop is       *)
(* queued once, alive, and nowhere else; a batch exists while it is called.*)
FunctorsFresh ==
  \A i \in 1 .. Len(pending) : pending[i][1] = "addTimerInLoop" =>
    /\ pending[i][2][1] \in alive \ expired
    /\ pending[i][2][2] = heap[pending[i][2][1]].sequence
    /\ ~InActive(pending[i][2][1])
    /\ \A j \in 1 .. Len(pending) : pending[j] = pending[i] => j = i

BatchWhileCalling == ~callingExpiredTimers_ => expired = {}

(* No timer is forgotten: between two calls of handleRead the descriptor   *)
(* fires no later than the earliest timer is due.                          *)
TimerfdArmed ==
  \A e \in timers_ :
    ~callingExpiredTimers_ => timerfd_ # 0 /\ timerfd_ <= FiresAt(e[1])

(* Every object that lives is reachable: it is queued, or in the batch, or *)
(* on its way to the loop.  Timers are deleted by hand.                    *)
NoLeak ==
  \A a \in alive :
    InActive(a) \/ a \in expired \/ AddQueued(Id(a))

(* A callback runs in time, once if it does not repeat, and in no batch    *)
(* after the one in which it was cancelled.                                *)
RunsRightly ==
  [][ \A a \in unrun \ unrun' :
        /\ heap[a].expiration <= now
        /\ heap[a].interval = 0 => heap[a].sequence \notin ran
        /\ heap[a].sequence \in cancelled \ early => Id(a) \in cancelingTimers_ ]_vars

(* A timer is dropped only for having run or for having been cancelled     *)
(* itself, not for another timer's sake.                                   *)
DroppedRightly ==
  [][ \A a \in alive \ alive' : heap[a].sequence \in ran \/ heap[a].sequence \in cancelled' ]_vars

(* Every timer runs in the end, unless it is cancelled. *)
EveryTimerRuns ==
  \A n \in 1 .. MaxTimers : numCreated_ >= n ~> n \in ran \/ n \in cancelled \ early
===============================================================================
