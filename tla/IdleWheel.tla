------------------------------ MODULE IdleWheel ------------------------------
(***************************************************************************)
(* The idle detection of the signalling server: a circular buffer of       *)
(* IdleSeconds buckets of shared pointers to Entry objects, one Entry per  *)
(* connection.  A message puts one more pointer into the newest bucket; a  *)
(* timer overwrites the oldest bucket every second.  ~Entry, which runs    *)
(* with the last pointer, sends "90dc" to a connection that still lives.   *)
(***************************************************************************)
EXTENDS Naturals, Sequences

CONSTANTS
  Conns,        (* TcpConnection objects                                   *)
  IdleSeconds   (* the configured number of buckets                        *)

VARIABLES
  connectionBuckets_,  (* oldest first: whose Entry each bucket points to  *)
  state,               (* TcpConnection::state_                            *)
  probed               (* connections that were sent the loop-back "90dc"  *)

vars == <<connectionBuckets_, state, probed>>

TypeOK ==
  /\ connectionBuckets_ \in [1 .. IdleSeconds -> SUBSET Conns]
  /\ state \in [Conns -> {"kConnecting", "kConnected", "kDisconnecting", "kDisconnected"}]
  /\ probed \subseteq Conns

-----------------------------------------------------------------------------
(* The constructor resizes the buffer to its capacity. *)
Init ==
  /\ connectionBuckets_ = [i \in 1 .. IdleSeconds |-> {}]
  /\ state = [c \in Conns |-> "kConnecting"]
  /\ probed = {}

(* connectionBuckets_.back().insert(entry) *)
InsertBack(c) ==
  connectionBuckets_' = [connectionBuckets_ EXCEPT ![IdleSeconds] = @ \cup {c}]

(* weakEntry.lock() finds the Entry while some bucket points to it. *)
EntryExists(c) == \E i \in 1 .. IdleSeconds : c \in connectionBuckets_[i]

ConnectionUp(c) ==
  /\ state[c] = "kConnecting"
  /\ state' = [state EXCEPT ![c] = "kConnected"]
  /\ InsertBack(c)
  /\ UNCHANGED probed

(* onMdvrMessage: an Entry that has been destroyed is not made again. *)
Message(c) ==
  /\ state[c] \in {"kConnected", "kDisconnecting"}
  /\ IF EntryExists(c) THEN InsertBack(c) ELSE UNCHANGED connectionBuckets_
  /\ UNCHANGED <<state, probed>>

(* Its registration is replaced: cmdRegister shuts the connection down. *)
Shutdown(c) ==
  /\ state[c] = "kConnected"
  /\ state' = [state EXCEPT ![c] = "kDisconnecting"]
  /\ UNCHANGED <<connectionBuckets_, probed>>

(* The connection goes DOWN; its Entry stays in the buckets. *)
ConnectionDown(c) ==
  /\ state[c] \in {"kConnected", "kDisconnecting"}
  /\ state' = [state EXCEPT ![c] = "kDisconnected"]
  /\ UNCHANGED <<connectionBuckets_, probed>>

(* Mutant: leaving the oldest bucket destroys an Entry others point to. *)
Destroyed_Shared == connectionBuckets_[1]

(* The entries the overwritten bucket held the last pointer to. *)
Destroyed ==
  {c \in connectionBuckets_[1] : \A i \in 2 .. IdleSeconds : c \notin connectionBuckets_[i]}

(* onTimer: push_back on the full buffer overwrites the oldest bucket. *)
OnTimer ==
  /\ connectionBuckets_' =
       [i \in 1 .. IdleSeconds |-> IF i < IdleSeconds THEN connectionBuckets_[i + 1] ELSE {}]
  /\ probed' = probed \cup {c \in Destroyed : state[c] = "kConnected"}
  /\ UNCHANGED state

Next ==
  \/ OnTimer
  \/ \E c \in Conns : ConnectionUp(c) \/ Message(c) \/ Shutdown(c) \/ ConnectionDown(c)

Spec == Init /\ [][Next]_vars

-----------------------------------------------------------------------------
(* The ticks until the last pointer to an Entry is overwritten. *)
Left(c) ==
  IF EntryExists(c)
  THEN CHOOSE i \in 1 .. IdleSeconds :
         /\ c \in connectionBuckets_[i]
         /\ \A j \in i + 1 .. IdleSeconds : c \notin connectionBuckets_[j]
  ELSE 0

Timer ==
  INSTANCE IdleTimer WITH
    left <- [c \in Conns |-> Left(c)],
    connected <- {c \in Conns : state[c] = "kConnected"}

(* However the pointers to its Entry are spread over the buckets, a        *)
(* connection is probed when IdleSeconds ticks have passed since its last  *)
(* message, neither before nor later, unless it has gone DOWN: the wheel   *)
(* implements one countdown per connection.                                *)
ImplementsIdleTimer == Timer!Spec
===============================================================================
