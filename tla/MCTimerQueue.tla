----------------------------- MODULE MCTimerQueue -----------------------------
(* Small instances of TimerQueue for TLC. *)
EXTENDS TimerQueue
===============================================================================
