------------------------------ MODULE IdleTimer ------------------------------
(***************************************************************************)
(* What the wheel of connection buckets promises: every connection has one *)
(* countdown of IdleSeconds ticks, which each of its messages restarts     *)
(* until it has run out.  A connection that is still connected when its    *)
(* countdown runs out is probed.                                           *)
(***************************************************************************)
EXTENDS Naturals

CONSTANTS Conns, IdleSeconds

VARIABLES
  left,       (* ticks until the countdown runs out, 0 when there is none  *)
  connected,
  probed

vars == <<left, connected, probed>>

Init ==
  /\ left = [c \in Conns |-> 0]
  /\ connected = {}
  /\ probed = {}

Start(c) ==
  /\ c \notin connected
  /\ left' = [left EXCEPT ![c] = IdleSeconds]
  /\ connected' = connected \cup {c}
  /\ UNCHANGED probed

Restart(c) ==
  /\ left[c] > 0
  /\ left' = [left EXCEPT ![c] = IdleSeconds]
  /\ UNCHANGED <<connected, probed>>

Stop(c) ==
  /\ connected' = connected \ {c}
  /\ UNCHANGED <<left, probed>>

Tick ==
  /\ left' = [c \in Conns |-> IF left[c] = 0 THEN 0 ELSE left[c] - 1]
  /\ probed' = probed \cup {c \in connected : left[c] = 1}
  /\ UNCHANGED connected

Next == Tick \/ \E c \in Conns : Start(c) \/ Restart(c) \/ Stop(c)

Spec == Init /\ [][Next]_vars
===============================================================================
