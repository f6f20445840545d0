------------------------------ MODULE TaskQueue ------------------------------
(***************************************************************************)
(* What queueInLoop promises: callbacks handed to a loop run one at a      *)
(* time, each exactly once, in the order they were handed over.  Tasks are *)
(* numbered in that order.                                                 *)
(***************************************************************************)
EXTENDS Naturals, Sequences

VARIABLES
  waiting,    (* tasks handed over and not yet run, oldest first           *)
  submitted,  (* how many tasks were ever handed over                      *)
  last        (* the task that ran last, 0 at the beginning                *)

vars == <<waiting, submitted, last>>

Init == waiting = <<>> /\ submitted = 0 /\ last = 0

Submit ==
  /\ submitted' = submitted + 1
  /\ waiting' = Append(waiting, submitted')
  /\ UNCHANGED last

(* A task runs; it may hand over another one. *)
Run ==
  /\ waiting # <<>>
  /\ last' = Head(waiting)
  /\ \/ waiting' = Tail(waiting) /\ UNCHANGED submitted
     \/ /\ submitted' = submitted + 1
        /\ waiting' = Append(Tail(waiting), submitted')

Spec == Init /\ [][Submit \/ Run]_vars
===============================================================================
