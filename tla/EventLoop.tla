------------------------------ MODULE EventLoop ------------------------------
(***************************************************************************)
(* muduo::net::EventLoop: one thread alternates between waiting in the     *)
(* poller, handling the channels that are ready and running the functors   *)
(* other threads (or its own callbacks) queued.  The mutex protects        *)
(* pendingFunctors_ only; the decision to write the eventfd is taken after *)
(* it is released, so the steps of queueInLoop and quit are separate.      *)
(***************************************************************************)
EXTENDS Naturals, Sequences

CONSTANTS
  Threads,      (* threads other than the loop's own                       *)
  MaxFunctors   (* bound on the functors ever queued                       *)

ASSUME EventLoopAssumption == MaxFunctors \in Nat

VARIABLES
  pendingFunctors_,         (* functors queued, oldest first, numbered     *)
  functors,                 (* the batch doPendingFunctors swapped out     *)
  callingPendingFunctors_,
  quit_,
  wakeup,                   (* the eventfd's counter is not zero           *)
  active,                   (* the poller reported the eventfd             *)
  loopPc,                   (* where the loop thread is                    *)
  pc,                       (* other threads: "idle", or "waking" between  *)
                            (* the store and the write of the eventfd      *)
  queued,                   (* number of functors ever queued              *)
  last,                     (* the functor that ran last                   *)
  early                     (* functors the owner queued before loop()     *)

vars == <<pendingFunctors_, functors, callingPendingFunctors_, quit_, wakeup,
          active, loopPc, pc, queued, last, early>>

TypeOK ==
  /\ pendingFunctors_ \in Seq(Nat)
  /\ functors \in Seq(Nat)
  /\ callingPendingFunctors_ \in BOOLEAN
  /\ quit_ \in BOOLEAN
  /\ wakeup \in BOOLEAN
  /\ active \in BOOLEAN
  /\ loopPc \in {"start", "while", "poll", "handle", "swap", "run", "left"}
  /\ pc \in [Threads -> {"idle", "waking"}]
  /\ queued \in Nat
  /\ last \in Nat
  /\ early \in SUBSET Nat

-----------------------------------------------------------------------------
Init ==
  /\ pendingFunctors_ = <<>>
  /\ functors = <<>>
  /\ callingPendingFunctors_ = FALSE
  /\ quit_ = FALSE
  /\ wakeup = FALSE
  /\ active = FALSE
  /\ loopPc = "start"
  /\ pc = [t \in Threads |-> "idle"]
  /\ queued = 0
  /\ last = 0
  /\ early = {}

(* push_back under the mutex. *)
PushBack ==
  /\ queued < MaxFunctors
  /\ queued' = queued + 1
  /\ pendingFunctors_' = Append(pendingFunctors_, queued')

(* Mutant: only other threads write the eventfd. *)
OwnWakeup_Never == UNCHANGED wakeup

(* The loop thread's own queueInLoop: it writes the eventfd only while the *)
(* pending functors are being called.                                      *)
OwnWakeup == wakeup' = (wakeup \/ callingPendingFunctors_)

(* The owner queues before it enters loop(). *)
OwnerQueuesEarly ==
  /\ loopPc = "start"
  /\ PushBack
  /\ OwnWakeup
  /\ early' = early \cup {queued'}
  /\ UNCHANGED <<functors, callingPendingFunctors_, quit_, active, loopPc, pc, last>>

(* loop() begins, forgetting a quit() that came before. *)
Loop ==
  /\ loopPc = "start"
  /\ loopPc' = "while"
  /\ quit_' = FALSE
  /\ UNCHANGED <<pendingFunctors_, functors, callingPendingFunctors_, wakeup, active, pc, queued, last, early>>

While ==
  /\ loopPc = "while"
  /\ loopPc' = IF quit_ THEN "left" ELSE "poll"
  /\ UNCHANGED <<pendingFunctors_, functors, callingPendingFunctors_, quit_, wakeup, active, pc, queued, last, early>>

(* poll() returns, reporting the eventfd if it is readable. *)
PollReturns ==
  /\ loopPc = "poll"
  /\ loopPc' = "handle"
  /\ active' = wakeup
  /\ UNCHANGED <<pendingFunctors_, functors, callingPendingFunctors_, quit_, wakeup, pc, queued, last, early>>

(* It returns because of the eventfd, or because of another descriptor or  *)
(* the time limit.                                                         *)
PollWakes == wakeup /\ PollReturns
PollOther == ~wakeup /\ PollReturns

(* The wakeup channel's callback reads the counter back to zero. *)
HandleRead ==
  /\ loopPc = "handle"
  /\ active
  /\ active' = FALSE
  /\ wakeup' = FALSE
  /\ UNCHANGED <<pendingFunctors_, functors, callingPendingFunctors_, quit_, loopPc, pc, queued, last, early>>

(* Another channel's callback queues a functor or ends the loop. *)
CallbackQueues ==
  /\ loopPc = "handle"
  /\ PushBack
  /\ OwnWakeup
  /\ UNCHANGED <<functors, callingPendingFunctors_, quit_, active, loopPc, pc, last, early>>

CallbackQuits ==
  /\ loopPc = "handle"
  /\ quit_' = TRUE
  /\ UNCHANGED <<pendingFunctors_, functors, callingPendingFunctors_, wakeup, active, loopPc, pc, queued, last, early>>

(* doPendingFunctors: the flag is raised before the batch is taken. *)
BeginCalling ==
  /\ loopPc = "handle"
  /\ ~active
  /\ loopPc' = "swap"
  /\ callingPendingFunctors_' = TRUE
  /\ UNCHANGED <<pendingFunctors_, functors, quit_, wakeup, active, pc, queued, last, early>>

Swap ==
  /\ loopPc = "swap"
  /\ loopPc' = "run"
  /\ functors' = pendingFunctors_
  /\ pendingFunctors_' = <<>>
  /\ UNCHANGED <<callingPendingFunctors_, quit_, wakeup, active, pc, queued, last, early>>

(* Mutant: the batch is run from its end. *)
RunFunctor_NewestFirst ==
  /\ loopPc = "run"
  /\ functors # <<>>
  /\ functors' = SubSeq(functors, 1, Len(functors) - 1)
  /\ last' = functors[Len(functors)]
  /\ UNCHANGED <<pendingFunctors_, queued, wakeup, quit_>>
  /\ UNCHANGED <<callingPendingFunctors_, active, loopPc, pc, early>>

(* One functor of the batch runs; it may queue another one, or quit. *)
RunFunctor ==
  /\ loopPc = "run"
  /\ functors # <<>>
  /\ functors' = Tail(functors)
  /\ last' = Head(functors)
  /\ \/ PushBack /\ OwnWakeup /\ UNCHANGED quit_
     \/ quit_' \in {quit_, TRUE} /\ UNCHANGED <<pendingFunctors_, queued, wakeup>>
  /\ UNCHANGED <<callingPendingFunctors_, active, loopPc, pc, early>>

EndCalling ==
  /\ loopPc = "run"
  /\ functors = <<>>
  /\ loopPc' = "while"
  /\ callingPendingFunctors_' = FALSE
  /\ UNCHANGED <<pendingFunctors_, functors, quit_, wakeup, active, pc, queued, last, early>>

(* queueInLoop by another thread: the push, then the wakeup. *)
QueueInLoop(t) ==
  /\ pc[t] = "idle"
  /\ PushBack
  /\ pc' = [pc EXCEPT ![t] = "waking"]
  /\ UNCHANGED <<functors, callingPendingFunctors_, quit_, wakeup, active, loopPc, last, early>>

(* Mutant: quit() does not wake the loop. *)
Quit_Silent(t) ==
  /\ pc[t] = "idle"
  /\ quit_' = TRUE
  /\ UNCHANGED <<pendingFunctors_, functors, callingPendingFunctors_, wakeup, active, loopPc, pc, queued, last, early>>

(* quit() by another thread: the store, then the wakeup. *)
Quit(t) ==
  /\ pc[t] = "idle"
  /\ quit_' = TRUE
  /\ pc' = [pc EXCEPT ![t] = "waking"]
  /\ UNCHANGED <<pendingFunctors_, functors, callingPendingFunctors_, wakeup, active, loopPc, queued, last, early>>

Wakeup(t) ==
  /\ pc[t] = "waking"
  /\ wakeup' = TRUE
  /\ pc' = [pc EXCEPT ![t] = "idle"]
  /\ UNCHANGED <<pendingFunctors_, functors, callingPendingFunctors_, quit_, active, loopPc, queued, last, early>>

LoopStep ==
  \/ OwnerQueuesEarly \/ Loop \/ While \/ PollWakes \/ PollOther
  \/ HandleRead \/ CallbackQueues \/ CallbackQuits
  \/ BeginCalling \/ Swap \/ RunFunctor \/ EndCalling

Next == LoopStep \/ \E t \in Threads : QueueInLoop(t) \/ Quit(t) \/ Wakeup(t)

Spec == Init /\ [][Next]_vars

(* The loop thread and a thread in the middle of a call keep going.  No    *)
(* fairness is given to PollOther: what is promised may not wait for the   *)
(* ten seconds of kPollTimeMs or for traffic on some other descriptor.     *)
Fairness ==
  /\ WF_vars(Loop) /\ WF_vars(While) /\ WF_vars(PollWakes) /\ WF_vars(HandleRead)
  /\ WF_vars(BeginCalling) /\ WF_vars(Swap) /\ WF_vars(RunFunctor) /\ WF_vars(EndCalling)
  /\ \A t \in Threads : WF_vars(Wakeup(t))

FairSpec == Spec /\ Fairness

-----------------------------------------------------------------------------
Waking == \E t \in Threads : pc[t] = "waking"
Elements(s) == {s[i] : i \in 1 .. Len(s)}

(* The loop never sleeps on work: while it waits in the poller with a      *)
(* functor queued (other than by its owner before loop()), or with quit_   *)
(* set, the eventfd is readable or some thread is about to make it so.     *)
NoLostWakeup ==
  loopPc = "poll" /\ (quit_ \/ Elements(pendingFunctors_) \ early # {}) => wakeup \/ Waking

(* What NoLostWakeup needs to be inductive: the flag is up exactly while a *)
(* batch is taken and run, a batch exists only while it is run, and from   *)
(* the swap to the next return of poll() a queued functor implies a wakeup.*)
CallingFlag ==
  /\ callingPendingFunctors_ <=> loopPc \in {"swap", "run"}
  /\ loopPc # "run" => functors = <<>>

WakeupOwed ==
  loopPc \in {"start", "run", "while", "poll"} /\ Elements(pendingFunctors_) \ early # {}
    => wakeup \/ Waking

(* A functor queued once the loop exists is run although nothing else      *)
(* happens on the loop's descriptors, unless the loop is told to quit.     *)
EventuallyRun ==
  \A n \in 1 .. MaxFunctors :
    queued >= n /\ n \notin early ~> last >= n \/ quit_

(* quit(), by a callback or by another thread, ends a loop that has begun. *)
QuitEndsLoop == quit_ /\ loopPc # "start" ~> loopPc = "left"

(* The loop implements a queue of tasks. *)
Tasks ==
  INSTANCE TaskQueue WITH
    waiting <- functors \o pendingFunctors_,
    submitted <- queued

ImplementsTaskQueue == Tasks!Spec
===============================================================================
