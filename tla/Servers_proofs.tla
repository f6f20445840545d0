--------------------------- MODULE Servers_proofs ---------------------------
(***************************************************************************)
(* Proofs about the servers' dealings with recorders: the registry of the  *)
(* signalling server (MdvrRegistry), the wheel that closes its silent      *)
(* connections (IdleWheel), and the framing of what recorders send         *)
(* (MdvrFraming, GpsFileFraming), for every value of the constants: any    *)
(* connections, identities and wheel, and streams of any length cut        *)
(* anywhere.                                                               *)
(***************************************************************************)
EXTENDS MCServers, SequencesExt, SequenceTheorems, WellFoundedInduction, TLAPS

(* The initial state is well typed. *)
LEMMA InitType == Init => TypeOK
  BY RegistryAssumption DEF Init, TypeOK

(* Every callback of the loop thread, the MQ thread and the monitor keeps  *)
(* every variable in its type.                                             *)
LEMMA NextType == TypeOK /\ [Next]_vars => TypeOK'
<1> SUFFICES ASSUME TypeOK, [Next]_vars PROVE TypeOK'
  OBVIOUS
<1> USE RegistryAssumption DEF TypeOK
<1>1. ASSUME Exit PROVE TypeOK'
  BY <1>1 DEF Exit
<1>2. ASSUME NEW c \in Conns, NEW id \in Ids, V1(c, id) PROVE TypeOK'
  <2>1. CASE RegisterNew(c, id)
    BY <1>1, <2>1 DEF RegisterNew, Send2MQFails, Send2MQ, Publish
  <2>2. CASE RegisterReplace(c, id)
    BY <2>2 DEF RegisterReplace, AfterShutdown, Registered
  <2>3. CASE RegisterRepeat(c, id)
    BY <1>1, <2>3 DEF RegisterRepeat, Send2MQFails, Send2MQ, Publish
  <2> QED BY <1>2, <2>1, <2>2, <2>3 DEF V1
<1>3. ASSUME NEW c \in Conns, ConnectionUp(c) PROVE TypeOK'
  BY <1>3 DEF ConnectionUp
<1>4. ASSUME NEW c \in Conns, Report(c) PROVE TypeOK'
  BY <1>1, <1>4 DEF Report, Send2MQFails
<1>5. ASSUME NEW c \in Conns, ConnectionDown(c) PROVE TypeOK'
  BY <1>5 DEF ConnectionDown, StillHolds, Publish
<1>6. ASSUME NEW c \in Conns, ConnectionDestroyed(c) PROVE TypeOK'
  BY <1>6 DEF ConnectionDestroyed
<1>7. ASSUME NEW id \in Ids, CommandArrives(id) PROVE TypeOK'
  BY <1>7 DEF CommandArrives
<1>8. CASE CommandRuns
  <2>1. Head(pending) \in Ids /\ Tail(pending) \in Seq(Ids)
    BY <1>8 DEF CommandRuns
  <2>2. Target(Head(pending)) \in Conns \cup {NULL}
    BY <2>1 DEF Target
  <2> QED BY <1>8, <2>1, <2>2 DEF CommandRuns
<1>9. CASE LinkDecays
  BY <1>9 DEF LinkDecays
<1>10. CASE WorkerDies
  BY <1>1, <1>10 DEF WorkerDies
<1>11. CASE WorkerStarts
  BY <1>11 DEF WorkerStarts
<1>12. CASE UNCHANGED vars
  BY <1>12 DEF vars
<1> QED
  BY <1>2, <1>3, <1>4, <1>5, <1>6, <1>7, <1>8, <1>9, <1>10, <1>11, <1>12 DEF Next

(* The registry's variables keep their types in every reachable state. *)
THEOREM RegistryTypeOK == Spec => []TypeOK
  BY InitType, NextType, PTL DEF Spec

-----------------------------------------------------------------------------
LEMMA InitInv == Init => RegistryInv
  BY RegistryAssumption DEF Init, RegistryInv, LiveConnectionHolds, NoStaleEntry,
     PresenceAccurate, FreshUnmapped, ExitedIsEmpty, Registered

(* The end of the process empties the map and leaves no device vouched for. *)
LEMMA ExitInv == TypeOK /\ RegistryInv /\ Exit => RegistryInv'
  BY RegistryAssumption DEF TypeOK, Exit, RegistryInv, LiveConnectionHolds, NoStaleEntry,
     PresenceAccurate, FreshUnmapped, ExitedIsEmpty, Registered

(* The three ways a V1 is taken: a new device, a device that came back on  *)
(* another connection, and a device that repeats itself.                   *)
LEMMA RegisterInv ==
  ASSUME NEW c \in Conns, NEW id \in Ids, TypeOK, RegistryInv, V1(c, id)
  PROVE  RegistryInv'
<1> USE RegistryAssumption DEF TypeOK, RegistryInv, Registered, Reading
<1>1. CASE RegisterNew(c, id)
  <2>1. CASE Send2MQFails
    BY <2>1, ExitInv DEF Send2MQFails
  <2>2. CASE ~Send2MQFails
    <3>1. LiveConnectionHolds'
      BY <1>1, <2>2 DEF RegisterNew, LiveConnectionHolds, Send2MQ, Publish
    <3>2. NoStaleEntry'
      BY <1>1, <2>2 DEF RegisterNew, NoStaleEntry, Send2MQ, Publish
    <3>3. PresenceAccurate'
      BY <1>1, <2>2 DEF RegisterNew, PresenceAccurate, Send2MQ, Publish
    <3>4. FreshUnmapped' /\ ExitedIsEmpty'
      BY <1>1, <2>2 DEF RegisterNew, FreshUnmapped, ExitedIsEmpty, Send2MQ, Publish
    <3> QED BY <3>1, <3>2, <3>3, <3>4
  <2> QED BY <2>1, <2>2
<1>2. CASE RegisterReplace(c, id)
  <2>1. LiveConnectionHolds'
    BY <1>2 DEF RegisterReplace, LiveConnectionHolds, AfterShutdown
  <2>2. NoStaleEntry'
    BY <1>2 DEF RegisterReplace, NoStaleEntry, AfterShutdown
  <2>3. PresenceAccurate'
    BY <1>2 DEF RegisterReplace, PresenceAccurate
  <2>4. FreshUnmapped' /\ ExitedIsEmpty'
    BY <1>2 DEF RegisterReplace, FreshUnmapped, ExitedIsEmpty, AfterShutdown
  <2> QED BY <2>1, <2>2, <2>3, <2>4
<1>3. CASE RegisterRepeat(c, id)
  <2>1. CASE Send2MQFails
    BY <2>1, ExitInv DEF Send2MQFails
  <2>2. CASE ~Send2MQFails
    BY <1>3, <2>2 DEF RegisterRepeat, LiveConnectionHolds, NoStaleEntry,
       PresenceAccurate, FreshUnmapped, ExitedIsEmpty, Send2MQ, Publish
  <2> QED BY <2>1, <2>2
<1> QED BY <1>1, <1>2, <1>3 DEF V1

(* A disconnect removes the entry only when it is this connection's own. *)
LEMMA DownInv ==
  ASSUME NEW c \in Conns, TypeOK, RegistryInv, ConnectionDown(c)
  PROVE  RegistryInv'
<1> USE RegistryAssumption DEF TypeOK, RegistryInv, Registered, Reading, ConnectionDown, StillHolds
<1>1. LiveConnectionHolds'
  BY DEF LiveConnectionHolds
<1>2. NoStaleEntry'
  BY DEF NoStaleEntry
<1>3. PresenceAccurate'
  BY DEF PresenceAccurate, Publish
<1>4. FreshUnmapped' /\ ExitedIsEmpty'
  BY DEF FreshUnmapped, ExitedIsEmpty
<1> QED BY <1>1, <1>2, <1>3, <1>4

LEMMA NextInv == TypeOK /\ RegistryInv /\ [Next]_vars => RegistryInv'
<1> SUFFICES ASSUME TypeOK, RegistryInv, [Next]_vars PROVE RegistryInv'
  OBVIOUS
<1>1. ASSUME NEW c \in Conns, NEW id \in Ids, V1(c, id) PROVE RegistryInv'
  BY <1>1, RegisterInv
<1>2. ASSUME NEW c \in Conns, ConnectionDown(c) PROVE RegistryInv'
  BY <1>2, DownInv
<1>3. ASSUME NEW c \in Conns, Report(c) PROVE RegistryInv'
  BY <1>3, ExitInv DEF Report, Send2MQFails
<1>4. CASE WorkerDies
  BY <1>4, ExitInv DEF WorkerDies
<1> USE RegistryAssumption DEF TypeOK, RegistryInv, LiveConnectionHolds, NoStaleEntry,
        PresenceAccurate, FreshUnmapped, ExitedIsEmpty, Registered
<1>5. ASSUME NEW c \in Conns, ConnectionUp(c) PROVE RegistryInv'
  BY <1>5 DEF ConnectionUp
<1>6. ASSUME NEW c \in Conns, ConnectionDestroyed(c) PROVE RegistryInv'
  BY <1>6 DEF ConnectionDestroyed
<1>7. ASSUME NEW id \in Ids, CommandArrives(id) PROVE RegistryInv'
  BY <1>7 DEF CommandArrives
<1>8. CASE CommandRuns
  BY <1>8 DEF CommandRuns
<1>9. CASE LinkDecays
  BY <1>9 DEF LinkDecays
<1>10. CASE WorkerStarts
  BY <1>10 DEF WorkerStarts
<1>11. CASE UNCHANGED vars
  BY <1>11 DEF vars
<1> QED
  BY <1>1, <1>2, <1>3, <1>4, <1>5, <1>6, <1>7, <1>8, <1>9, <1>10, <1>11 DEF Next

LEMMA RegistryInvariant == Spec => [](TypeOK /\ RegistryInv)
  BY InitType, NextType, InitInv, NextInv, PTL DEF Spec

(* Every connected device is the one the map holds for its identity, in    *)
(* every order of registrations, replacements, disconnects and restarts.   *)
THEOREM LiveConnectionHoldsAlways == Spec => []LiveConnectionHolds
<1>1. RegistryInv => LiveConnectionHolds
  BY DEF RegistryInv
<1> QED BY <1>1, RegistryInvariant, PTL

(* The map keeps a closed connection only under an identity it gave up.     *)
THEOREM NoStaleEntryAlways == Spec => []NoStaleEntry
<1>1. RegistryInv => NoStaleEntry
  BY DEF RegistryInv
<1> QED BY <1>1, RegistryInvariant, PTL

(* While the publishing link is up, the back end's picture is the map.     *)
THEOREM PresenceAccurateAlways == Spec => []PresenceAccurate
<1>1. RegistryInv => PresenceAccurate
  BY DEF RegistryInv
<1> QED BY <1>1, RegistryInvariant, PTL

-----------------------------------------------------------------------------
(* A command the loop runs goes to the live registered connection.         *)
LEMMA CommandStep ==
  ASSUME TypeOK, RegistryInv, [Next]_vars, NEW c \in Conns,
         pending # <<>>, pending' = Tail(pending), worker' = "running",
         state[c] = "kConnected", context[c] = Head(pending)
  PROVE  written' = c
<1> USE RegistryAssumption DEF TypeOK
<1>1. pending' # pending
  OBVIOUS
<1>2. worker = "exited" => state[c] = "kConnecting"
  BY DEF RegistryInv, ExitedIsEmpty
<1>3. ~Exit
  BY DEF Exit
<1>4. \A id \in Ids : ~CommandArrives(id)
  <2> SUFFICES ASSUME NEW id \in Ids, CommandArrives(id) PROVE FALSE
    OBVIOUS
  <2>1. Len(Append(pending, id)) = Len(pending) + 1 /\ Len(Tail(pending)) = Len(pending) - 1
    OBVIOUS
  <2> QED BY <2>1 DEF CommandArrives
<1>5. CommandRuns
  BY <1>1, <1>3, <1>4 DEF Next, vars, V1, RegisterNew, RegisterReplace, RegisterRepeat,
     Send2MQFails, ConnectionUp, Report, ConnectionDown, ConnectionDestroyed, LinkDecays,
     WorkerDies, WorkerStarts
<1>6. Head(pending) \in Ids
  OBVIOUS
<1>7. g_mdvrConnectMap[Head(pending)] = c
  BY <1>6 DEF RegistryInv, LiveConnectionHolds
<1> QED BY <1>5, <1>6, <1>7 DEF CommandRuns, Target, Registered

(* No command is lost past a live registration. *)
THEOREM CommandDeliveryAlways == Spec => CommandDelivery
<1>1. TypeOK /\ RegistryInv /\ [Next]_vars =>
        [\A c \in Conns :
           pending # <<>> /\ pending' = Tail(pending) /\ worker' = "running"
             /\ state[c] = "kConnected" /\ context[c] = Head(pending)
             => written' = c]_<<pending, written>>
  BY CommandStep
<1> QED BY <1>1, RegistryInvariant, PTL DEF Spec, CommandDelivery

-----------------------------------------------------------------------------
(* Every step of the registry is a step of DevicePresence or changes       *)
(* nothing that module speaks of.                                          *)
LEMMA PresenceStep ==
  ASSUME TypeOK, RegistryInv, [Next]_vars
  PROVE  [Presence!Next]_(Presence!vars)
<1> USE RegistryAssumption DEF TypeOK, Registered, Presence!vars
<1>1. ASSUME Exit PROVE Presence!Forget
  BY <1>1 DEF Exit, Presence!Forget
<1>2. ASSUME NEW c \in Conns, NEW id \in Ids, V1(c, id) PROVE [Presence!Next]_(Presence!vars)
  <2>1. CASE Exit
    BY <1>1, <2>1 DEF Presence!Next
  <2>2. CASE RegisterNew(c, id) /\ ~Exit
    <3>1. Presence!Announce(id)
      BY <2>2 DEF RegisterNew, Send2MQFails, Send2MQ, Publish, Presence!Announce, Presence!Tell
    <3> QED BY <3>1 DEF Presence!Next
  <2>3. CASE RegisterReplace(c, id)
    BY <2>3 DEF RegisterReplace
  <2>4. CASE RegisterRepeat(c, id) /\ ~Exit
    <3>1. Presence!Announce(id)
      BY <2>4 DEF RegisterRepeat, Send2MQFails, Send2MQ, Publish, Presence!Announce, Presence!Tell
    <3> QED BY <3>1 DEF Presence!Next
  <2> QED BY <1>2, <2>1, <2>2, <2>3, <2>4 DEF V1
<1>3. ASSUME NEW c \in Conns, ConnectionDown(c) PROVE [Presence!Next]_(Presence!vars)
  <2>1. CASE StillHolds(c)
    <3>1. PICK id \in Ids : id = context[c]
      BY <2>1 DEF StillHolds
    <3>2. Presence!Withdraw(id)
      BY <1>3, <2>1, <3>1 DEF ConnectionDown, StillHolds, Publish, Presence!Withdraw, Presence!Tell
    <3> QED BY <3>2 DEF Presence!Next
  <2>2. CASE ~StillHolds(c)
    BY <1>3, <2>2 DEF ConnectionDown
  <2> QED BY <2>1, <2>2
<1>4. ASSUME NEW c \in Conns, Report(c) PROVE Presence!Next
  BY <1>1, <1>4 DEF Report, Send2MQFails, Presence!Next
<1>5. ASSUME WorkerDies PROVE Presence!Next
  BY <1>1, <1>5 DEF WorkerDies, Presence!Next
<1>6. ASSUME WorkerStarts PROVE Presence!Next
  <2>1. \A id \in Ids : g_mdvrConnectMap[id] = NULL
    BY <1>6 DEF WorkerStarts, RegistryInv, FreshUnmapped, ExitedIsEmpty
  <2>2. Presence!Reconnect
    BY <1>6, <2>1 DEF WorkerStarts, RegistryInv, ExitedIsEmpty, Presence!Reconnect
  <2> QED BY <2>2 DEF Presence!Next
<1>7. ASSUME LinkDecays PROVE Presence!Next
  BY <1>7 DEF LinkDecays, Presence!LinkDecays, Presence!Next
<1>8. ASSUME NEW c \in Conns, ConnectionUp(c) \/ ConnectionDestroyed(c)
      PROVE UNCHANGED Presence!vars
  BY <1>8 DEF ConnectionUp, ConnectionDestroyed
<1>9. ASSUME NEW id \in Ids, CommandArrives(id) PROVE UNCHANGED Presence!vars
  BY <1>9 DEF CommandArrives
<1>10. ASSUME CommandRuns \/ UNCHANGED vars PROVE UNCHANGED Presence!vars
  BY <1>10 DEF CommandRuns, vars
<1> QED
  BY <1>2, <1>3, <1>4, <1>5, <1>6, <1>7, <1>8, <1>9, <1>10 DEF Next

(* The registry implements the promise made to the back end. *)
THEOREM RegistryImplementsPresence == Spec => ImplementsPresence
<1>1. Init => Presence!Init
  BY DEF Init, Registered, Presence!Init
<1> QED
  BY <1>1, PresenceStep, RegistryInvariant, PTL DEF Spec, ImplementsPresence, Presence!Spec
-----------------------------------------------------------------------------
(* The same server watches its connections for silence (IdleWheel).        *)
(* The configured number of buckets.                                       *)
WheelSize == IdleSeconds \in Nat \ {0}

(* Left and EntryExists of any contents of the buckets. *)
Youngest(b, c, i) ==
  /\ i \in 1 .. IdleSeconds
  /\ c \in b[i]
  /\ \A j \in i + 1 .. IdleSeconds : c \notin b[j]

Held(b, c) == \E i \in 1 .. IdleSeconds : c \in b[i]

LeftIn(b, c) == IF Held(b, c) THEN CHOOSE i \in 1 .. IdleSeconds :
                                     /\ c \in b[i]
                                     /\ \A j \in i + 1 .. IdleSeconds : c \notin b[j]
                              ELSE 0

LEMMA LeftYoungest ==
  ASSUME WheelSize, NEW b, NEW c, NEW i, Youngest(b, c, i)
  PROVE  LeftIn(b, c) = i
<1> USE DEF WheelSize
<1> DEFINE P(k) == c \in b[k] /\ \A j \in k + 1 .. IdleSeconds : c \notin b[j]
<1>1. i \in 1 .. IdleSeconds /\ P(i)
  BY DEF Youngest
<1>2. \A k \in 1 .. IdleSeconds : P(k) => k = i
  BY <1>1
<1>3. (CHOOSE k \in 1 .. IdleSeconds : P(k)) = i
  <2> HIDE DEF P
  <2> QED BY <1>1, <1>2
<1>4. Held(b, c)
  BY <1>1 DEF Held
<1> QED BY <1>3, <1>4 DEF LeftIn

(* A wheel whose every entry has a youngest bucket: this is what makes     *)
(* Left meaningful, and every step keeps it.                               *)
Ordered == \A c \in Conns : Wheel!EntryExists(c) => \E i : Youngest(connectionBuckets_, c, i)

WheelInv == WheelSize /\ Wheel!TypeOK /\ Ordered

(* What the next state's buckets mean for a connection. *)
LEMMA LeftNow ==
  /\ \A c : Wheel!EntryExists(c) <=> Held(connectionBuckets_, c)
  /\ \A c : Wheel!Left(c) = LeftIn(connectionBuckets_, c)
  BY DEF Wheel!EntryExists, Held, Wheel!Left, LeftIn

LEMMA LeftNext ==
  /\ \A c : Wheel!EntryExists(c)' <=> Held(connectionBuckets_', c)
  /\ \A c : Wheel!Left(c)' = LeftIn(connectionBuckets_', c)
  BY DEF Wheel!EntryExists, Held, Wheel!Left, LeftIn

LEMMA LeftRange ==
  ASSUME WheelSize, NEW b, NEW c, Held(b, c) => \E i : Youngest(b, c, i)
  PROVE  /\ LeftIn(b, c) \in 0 .. IdleSeconds
         /\ LeftIn(b, c) = 0 <=> ~Held(b, c)
         /\ Held(b, c) => Youngest(b, c, LeftIn(b, c))
<1> USE DEF WheelSize
<1>1. CASE Held(b, c)
  <2>1. PICK i : Youngest(b, c, i)
    BY <1>1
  <2>2. LeftIn(b, c) = i
    BY <2>1, LeftYoungest
  <2>3. i \in 1 .. IdleSeconds
    BY <2>1 DEF Youngest
  <2> QED BY <1>1, <2>1, <2>2, <2>3
<1>2. CASE ~Held(b, c)
  BY <1>2 DEF LeftIn
<1> QED BY <1>1, <1>2

(* A pointer in the newest bucket gives an entry all its ticks, and leaves *)
(* the other entries alone.                                                *)
LEMMA Inserted ==
  ASSUME WheelInv, NEW c \in Conns, Wheel!InsertBack(c)
  PROVE  /\ Youngest(connectionBuckets_', c, IdleSeconds)
         /\ \A d \in Conns \ {c} : Held(connectionBuckets_', d) <=> Held(connectionBuckets_, d)
         /\ \A d \in Conns \ {c} : \A i : Youngest(connectionBuckets_', d, i)
                                            <=> Youngest(connectionBuckets_, d, i)
<1> USE DEF WheelSize, WheelInv, Wheel!TypeOK, Wheel!InsertBack
<1>1. \A i \in 1 .. IdleSeconds : \A d \in Conns \ {c} :
        d \in connectionBuckets_'[i] <=> d \in connectionBuckets_[i]
  OBVIOUS
<1>2. c \in connectionBuckets_'[IdleSeconds]
  OBVIOUS
<1>3. Youngest(connectionBuckets_', c, IdleSeconds)
  BY <1>2 DEF Youngest
<1>4. \A d \in Conns \ {c} : Held(connectionBuckets_', d) <=> Held(connectionBuckets_, d)
  BY <1>1 DEF Held
<1>5. ASSUME NEW d \in Conns \ {c}, NEW i
      PROVE  Youngest(connectionBuckets_', d, i) <=> Youngest(connectionBuckets_, d, i)
  <2>1. CASE i \in 1 .. IdleSeconds
    <3>1. \A j \in i + 1 .. IdleSeconds : j \in 1 .. IdleSeconds
      BY <2>1
    <3> QED BY <1>1, <2>1, <3>1 DEF Youngest
  <2>2. CASE i \notin 1 .. IdleSeconds
    BY <2>2 DEF Youngest
  <2> QED BY <2>1, <2>2
<1> QED BY <1>3, <1>4, <1>5

LEMMA InsertedLeft ==
  ASSUME WheelInv, NEW c \in Conns, Wheel!InsertBack(c)
  PROVE  /\ Ordered'
         /\ [d \in Conns |-> Wheel!Left(d)]' = [[d \in Conns |-> Wheel!Left(d)] EXCEPT ![c] = IdleSeconds]
<1>0. WheelSize
  BY DEF WheelInv
<1>1. ASSUME NEW d \in Conns \ {c}
      PROVE  LeftIn(connectionBuckets_', d) = LeftIn(connectionBuckets_, d)
  <2>1. CASE Held(connectionBuckets_, d)
    <3>1. PICK i : Youngest(connectionBuckets_, d, i)
      BY <2>1, LeftNow DEF WheelInv, Ordered
    <3>2. Youngest(connectionBuckets_', d, i)
      BY <3>1, Inserted
    <3> QED BY <1>0, <3>1, <3>2, LeftYoungest
  <2>2. CASE ~Held(connectionBuckets_, d)
    BY <2>2, Inserted DEF LeftIn
  <2> QED BY <2>1, <2>2
<1>2. LeftIn(connectionBuckets_', c) = IdleSeconds
  BY <1>0, Inserted, LeftYoungest
<1>3. ASSUME NEW d \in Conns, Wheel!EntryExists(d)' PROVE \E i : Youngest(connectionBuckets_', d, i)
  BY <1>3, Inserted, LeftNow, LeftNext DEF WheelInv, Ordered
<1>4. Ordered'
  BY <1>3 DEF Ordered
<1>5. \A d \in Conns : Wheel!Left(d)' = IF d = c THEN IdleSeconds ELSE Wheel!Left(d)
  BY <1>1, <1>2, LeftNow, LeftNext
<1> QED BY <1>4, <1>5

(* The tick takes one from every countdown, and destroys the entries that  *)
(* had one left.                                                           *)
LEMMA Ticked ==
  ASSUME WheelInv, Wheel!OnTimer
  PROVE  /\ Ordered'
         /\ \A c \in Conns : Wheel!Left(c) \in 0 .. IdleSeconds
         /\ \A c \in Conns : Wheel!Left(c)' = IF Wheel!Left(c) = 0 THEN 0 ELSE Wheel!Left(c) - 1
         /\ \A c \in Conns : c \in Wheel!Destroyed <=> Wheel!Left(c) = 1
<1> USE DEF WheelInv, WheelSize
<1>1. \A i \in 1 .. IdleSeconds : \A c :
        c \in connectionBuckets_'[i] <=> i < IdleSeconds /\ c \in connectionBuckets_[i + 1]
  BY DEF Wheel!OnTimer
<1>2. ASSUME NEW c \in Conns
      PROVE  /\ Held(connectionBuckets_, c) => Youngest(connectionBuckets_, c, Wheel!Left(c))
             /\ Wheel!Left(c) = 0 <=> ~Held(connectionBuckets_, c)
             /\ Wheel!Left(c) \in 0 .. IdleSeconds
  BY LeftRange, LeftNow DEF WheelInv, Ordered
<1>3. ASSUME NEW c \in Conns, ~Held(connectionBuckets_, c)
      PROVE  ~Held(connectionBuckets_', c)
  BY <1>1, <1>3 DEF Held
<1>4. ASSUME NEW c \in Conns, Held(connectionBuckets_, c), Wheel!Left(c) = 1
      PROVE  ~Held(connectionBuckets_', c) /\ c \in Wheel!Destroyed
  <2>1. \A j \in 2 .. IdleSeconds : c \notin connectionBuckets_[j]
    BY <1>2, <1>4 DEF Youngest
  <2>2. c \in connectionBuckets_[1]
    BY <1>2, <1>4 DEF Youngest
  <2>3. ~Held(connectionBuckets_', c)
    BY <1>1, <2>1 DEF Held
  <2> QED BY <2>1, <2>2, <2>3 DEF Wheel!Destroyed
<1>5. ASSUME NEW c \in Conns, Held(connectionBuckets_, c), Wheel!Left(c) # 1
      PROVE  /\ Youngest(connectionBuckets_', c, Wheel!Left(c) - 1)
             /\ c \notin Wheel!Destroyed
  <2>1. Wheel!Left(c) \in 2 .. IdleSeconds /\ c \in connectionBuckets_[Wheel!Left(c)]
    BY <1>2, <1>5 DEF Youngest
  <2>2. \A j \in Wheel!Left(c) + 1 .. IdleSeconds : c \notin connectionBuckets_[j]
    BY <1>2, <1>5 DEF Youngest
  <2>3. c \in connectionBuckets_'[Wheel!Left(c) - 1]
    BY <1>1, <2>1
  <2>4. \A j \in (Wheel!Left(c) - 1) + 1 .. IdleSeconds : c \notin connectionBuckets_'[j]
    <3> SUFFICES ASSUME NEW j \in (Wheel!Left(c) - 1) + 1 .. IdleSeconds, c \in connectionBuckets_'[j]
                 PROVE  FALSE
      OBVIOUS
    <3>1. j \in 1 .. IdleSeconds /\ j >= Wheel!Left(c)
      BY <2>1
    <3>2. j < IdleSeconds /\ c \in connectionBuckets_[j + 1]
      BY <1>1, <3>1
    <3>3. j + 1 \in Wheel!Left(c) + 1 .. IdleSeconds
      BY <2>1, <3>1, <3>2
    <3> QED BY <2>2, <3>2, <3>3
  <2> QED BY <2>1, <2>3, <2>4 DEF Youngest, Wheel!Destroyed
<1>6. ASSUME NEW c \in Conns
      PROVE  Wheel!Left(c)' = IF Wheel!Left(c) = 0 THEN 0 ELSE Wheel!Left(c) - 1
  <2>1. CASE ~Held(connectionBuckets_, c)
    <3>1. LeftIn(connectionBuckets_', c) = 0
      BY <1>3, <2>1 DEF LeftIn
    <3> QED BY <1>2, <2>1, <3>1, LeftNext
  <2>2. CASE Held(connectionBuckets_, c) /\ Wheel!Left(c) = 1
    <3>1. LeftIn(connectionBuckets_', c) = 0
      BY <1>4, <2>2 DEF LeftIn
    <3> QED BY <2>2, <3>1, LeftNext
  <2>3. CASE Held(connectionBuckets_, c) /\ Wheel!Left(c) # 1
    <3>1. LeftIn(connectionBuckets_', c) = Wheel!Left(c) - 1
      BY <1>5, <2>3, LeftYoungest
    <3> QED BY <1>2, <2>3, <3>1, LeftNext
  <2> QED BY <2>1, <2>2, <2>3
<1>7. ASSUME NEW c \in Conns, Wheel!EntryExists(c)' PROVE \E i : Youngest(connectionBuckets_', c, i)
  <2>1. Held(connectionBuckets_', c)
    BY <1>7, LeftNext
  <2> QED BY <1>3, <1>4, <1>5, <2>1
<1>8. ASSUME NEW c \in Conns PROVE c \in Wheel!Destroyed <=> Wheel!Left(c) = 1
  <2>1. CASE ~Held(connectionBuckets_, c)
    BY <1>2, <2>1 DEF Wheel!Destroyed, Held
  <2>2. CASE Held(connectionBuckets_, c)
    BY <1>4, <1>5, <2>2
  <2> QED BY <2>1, <2>2
<1>9. Ordered'
  BY <1>7 DEF Ordered
<1> QED BY <1>2, <1>6, <1>8, <1>9

-----------------------------------------------------------------------------
LEMMA WheelType == WheelSize /\ Wheel!TypeOK /\ [Wheel!Next]_(Wheel!vars) => Wheel!TypeOK'
<1> SUFFICES ASSUME WheelSize, Wheel!TypeOK, [Wheel!Next]_(Wheel!vars) PROVE Wheel!TypeOK'
  OBVIOUS
<1> USE DEF WheelSize, Wheel!TypeOK
<1>1. CASE Wheel!OnTimer
  BY <1>1 DEF Wheel!OnTimer, Wheel!Destroyed
<1>2. ASSUME NEW c \in Conns, Wheel!ConnectionUp(c) \/ Wheel!Message(c) PROVE Wheel!TypeOK'
  BY <1>2 DEF Wheel!ConnectionUp, Wheel!Message, Wheel!InsertBack
<1>3. ASSUME NEW c \in Conns, Wheel!Shutdown(c) \/ Wheel!ConnectionDown(c) PROVE Wheel!TypeOK'
  BY <1>3 DEF Wheel!Shutdown, Wheel!ConnectionDown
<1>4. CASE UNCHANGED Wheel!vars
  BY <1>4 DEF Wheel!vars
<1> QED BY <1>1, <1>2, <1>3, <1>4 DEF Wheel!Next

LEMMA WheelStarts == WheelSize /\ Wheel!Init => WheelInv
<1> SUFFICES ASSUME WheelSize, Wheel!Init PROVE WheelInv
  OBVIOUS
<1>1. Wheel!TypeOK
  BY DEF Wheel!Init, Wheel!TypeOK
<1>2. Ordered
  BY DEF Wheel!Init, Ordered, Wheel!EntryExists
<1> QED BY <1>1, <1>2 DEF WheelInv

LEMMA BucketsStay ==
  ASSUME UNCHANGED connectionBuckets_
  PROVE  /\ Ordered => Ordered'
         /\ [c \in Conns |-> Wheel!Left(c)]' = [c \in Conns |-> Wheel!Left(c)]
<1>1. \A c : Wheel!Left(c)' = Wheel!Left(c)
  BY LeftNow, LeftNext
<1>2. \A c : Wheel!EntryExists(c)' <=> Wheel!EntryExists(c)
  BY LeftNow, LeftNext
<1>3. Ordered => Ordered'
  BY <1>2 DEF Ordered
<1> QED BY <1>1, <1>3

LEMMA WheelStep == WheelInv /\ [Wheel!Next]_(Wheel!vars) => WheelInv'
<1> SUFFICES ASSUME WheelInv, [Wheel!Next]_(Wheel!vars) PROVE WheelInv'
  OBVIOUS
<1>1. Wheel!TypeOK'
  BY WheelType DEF WheelInv
<1>2. Ordered'
  <2>1. CASE Wheel!OnTimer
    BY <2>1, Ticked
  <2>2. ASSUME NEW c \in Conns, Wheel!ConnectionUp(c) PROVE Ordered'
    BY <2>2, InsertedLeft DEF Wheel!ConnectionUp
  <2>3. ASSUME NEW c \in Conns, Wheel!Message(c) PROVE Ordered'
    <3>1. CASE Wheel!EntryExists(c)
      BY <2>3, <3>1, InsertedLeft DEF Wheel!Message
    <3>2. CASE ~Wheel!EntryExists(c)
      BY <2>3, <3>2, BucketsStay DEF Wheel!Message, WheelInv
    <3> QED BY <3>1, <3>2
  <2>4. CASE UNCHANGED connectionBuckets_
    BY <2>4, BucketsStay DEF WheelInv
  <2> QED BY <2>1, <2>2, <2>3, <2>4 DEF Wheel!Next, Wheel!vars, Wheel!Shutdown, Wheel!ConnectionDown
<1> QED BY <1>1, <1>2 DEF WheelInv

-----------------------------------------------------------------------------
LEMMA CountdownStarts == Wheel!Init => Wheel!Timer!Init
<1> SUFFICES ASSUME Wheel!Init PROVE Wheel!Timer!Init
  OBVIOUS
<1>1. \A c \in Conns : Wheel!Left(c) = 0
  BY DEF Wheel!Init, Wheel!Left, Wheel!EntryExists
<1> QED BY <1>1 DEF Wheel!Init, Wheel!Timer!Init

LEMMA CountdownSteps == WheelInv /\ [Wheel!Next]_(Wheel!vars) => [Wheel!Timer!Next]_(Wheel!Timer!vars)
<1> SUFFICES ASSUME WheelInv, [Wheel!Next]_(Wheel!vars) PROVE [Wheel!Timer!Next]_(Wheel!Timer!vars)
  OBVIOUS
<1> DEFINE left == [c \in Conns |-> Wheel!Left(c)]
           connected == {c \in Conns : wheelState[c] = "kConnected"}
<1>1. CASE Wheel!OnTimer
  <2>1. left' = [c \in Conns |-> IF left[c] = 0 THEN 0 ELSE left[c] - 1]
    BY <1>1, Ticked
  <2>2. probed' = probed \cup {c \in connected : left[c] = 1}
    <3>1. Wheel!Destroyed \subseteq Conns
      BY DEF WheelSize, WheelInv, Wheel!TypeOK, Wheel!Destroyed
    <3> QED BY <1>1, <3>1, Ticked DEF Wheel!OnTimer
  <2>3. connected' = connected
    BY <1>1 DEF Wheel!OnTimer
  <2> QED BY <2>1, <2>2, <2>3 DEF Wheel!Timer!Next, Wheel!Timer!Tick
<1>2. ASSUME NEW c \in Conns, Wheel!ConnectionUp(c) PROVE Wheel!Timer!Start(c)
  <2>1. left' = [left EXCEPT ![c] = IdleSeconds]
    BY <1>2, InsertedLeft DEF Wheel!ConnectionUp
  <2>2. c \notin connected /\ connected' = connected \cup {c}
    BY <1>2 DEF Wheel!ConnectionUp, WheelInv, Wheel!TypeOK
  <2> QED BY <1>2, <2>1, <2>2 DEF Wheel!Timer!Start, Wheel!ConnectionUp
<1>3. ASSUME NEW c \in Conns, Wheel!Message(c) PROVE Wheel!Timer!Restart(c) \/ UNCHANGED Wheel!Timer!vars
  <2>1. connected' = connected /\ probed' = probed
    BY <1>3 DEF Wheel!Message
  <2>2. CASE Wheel!EntryExists(c)
    <3>1. left' = [left EXCEPT ![c] = IdleSeconds]
      BY <1>3, <2>2, InsertedLeft DEF Wheel!Message
    <3>2. left[c] > 0
      BY <2>2, LeftNow, LeftRange DEF WheelSize, WheelInv, Ordered
    <3> QED BY <2>1, <3>1, <3>2 DEF Wheel!Timer!Restart
  <2>3. CASE ~Wheel!EntryExists(c)
    BY <1>3, <2>1, <2>3, BucketsStay DEF Wheel!Message, Wheel!Timer!vars
  <2> QED BY <2>2, <2>3
<1>4. ASSUME NEW c \in Conns, Wheel!Shutdown(c) \/ Wheel!ConnectionDown(c) PROVE Wheel!Timer!Stop(c)
  <2>1. left' = left
    BY <1>4, BucketsStay DEF Wheel!Shutdown, Wheel!ConnectionDown
  <2>2. connected' = connected \ {c} /\ probed' = probed
    BY <1>4 DEF Wheel!Shutdown, Wheel!ConnectionDown, WheelInv, Wheel!TypeOK
  <2> QED BY <2>1, <2>2 DEF Wheel!Timer!Stop
<1>5. CASE UNCHANGED Wheel!vars
  BY <1>5, BucketsStay DEF Wheel!vars, Wheel!Timer!vars
<1> QED BY <1>1, <1>2, <1>3, <1>4, <1>5 DEF Wheel!Next, Wheel!Timer!Next

(* mdvrServer.h, ~Entry and onTimer: for any connections and any number of *)
(* seconds, the buckets of shared pointers probe a connection exactly when *)
(* its own countdown, restarted by each of its messages, runs out.         *)
THEOREM WheelIsCountdown == Wheel!Spec => ImplementsIdleTimer
<1> WheelSize
  BY ServersAssumption DEF WheelSize
<1>1. Wheel!Spec => []WheelInv
  BY WheelStarts, WheelStep, PTL DEF Wheel!Spec
<1>2. Wheel!Spec => Wheel!Timer!Spec
  BY <1>1, CountdownStarts, CountdownSteps, PTL DEF Wheel!Spec, Wheel!Timer!Spec
<1> QED BY <1>2 DEF ImplementsIdleTimer, Wheel!ImplementsIdleTimer

(* A set of numbers that is not empty has a least element.                 *)
LEMMA LeastNumber ==
  ASSUME NEW T, T \subseteq Nat, T # {}
  PROVE  \E n \in T : \A k \in T : n <= k
<1>1. \E x \in T : \A y \in T : ~ (<<y, x>> \in OpToRel(<, Nat))
  BY NatLessThanWellFounded, WFMin
<1>2. PICK x \in T : \A y \in T : ~ (<<y, x>> \in OpToRel(<, Nat))
  BY <1>1
<1>3. ASSUME NEW y \in T PROVE x <= y
  <2>1. x \in Nat /\ y \in Nat
    OBVIOUS
  <2>2. ~ (<<y, x>> \in OpToRel(<, Nat))
    BY <1>2
  <2>3. <<y, x>> \in Nat \X Nat /\ <<y, x>>[1] = y /\ <<y, x>>[2] = x
    BY <2>1
  <2>4. ~ (y < x)
    BY <2>2, <2>3 DEF OpToRel
  <2> QED BY <2>1, <2>4
<1> QED BY <1>2, <1>3

(* Induction over a set of numbers, which stands for the predicate.        *)
LEMMA NatSetInduction ==
  ASSUME NEW T, 0 \in T, \A n \in Nat : n \in T => n + 1 \in T
  PROVE  Nat \subseteq T
<1> DEFINE Rest == Nat \ T
<1> SUFFICES ASSUME Rest # {} PROVE FALSE
  OBVIOUS
<1>1. PICK n \in Rest : \A k \in Rest : n <= k
  <2>1. Rest \subseteq Nat
    OBVIOUS
  <2> HIDE DEF Rest
  <2> QED BY <2>1, LeastNumber
<1>2. n \in Nat /\ n # 0
  OBVIOUS
<1>3. n - 1 \in Nat /\ (n - 1) + 1 = n /\ ~(n <= n - 1)
  BY <1>2
<1>4. n - 1 \in T
  BY <1>1, <1>3
<1> QED BY <1>3, <1>4

LEMMA IsSequence ==
  ASSUME NEW S, NEW n \in Nat, NEW f \in [1 .. n -> S]
  PROVE  f \in Seq(S) /\ Len(f) = n
  OBVIOUS

LEMMA FlattenExists ==
  ASSUME NEW s
  PROVE  \A n \in Nat : \E g : g = [i \in 1 .. n |-> IF i = 1 THEN s[i] ELSE g[i - 1] \o s[i]]
<1> DEFINE Solves(g, n) == g = [i \in 1 .. n |-> IF i = 1 THEN s[i] ELSE g[i - 1] \o s[i]]
           T == {n \in Nat : \E g : Solves(g, n)}
<1>1. 0 \in T
  <2> DEFINE g == [i \in 1 .. 0 |-> 0]
  <2>1. g = [i \in 1 .. 0 |-> IF i = 1 THEN s[i] ELSE g[i - 1] \o s[i]]
    OBVIOUS
  <2> HIDE DEF g
  <2> QED BY <2>1
<1>2. ASSUME NEW n \in Nat, n \in T PROVE n + 1 \in T
  <2>1. PICK g : Solves(g, n)
    BY <1>2
  <2> DEFINE m == n + 1
             h == [i \in 1 .. m |-> IF i = 1 THEN s[i] ELSE g[i - 1] \o s[i]]
  <2>2. ASSUME NEW i \in 1 .. m, i # 1 PROVE h[i - 1] = g[i - 1]
    <3>1. i - 1 \in 1 .. n /\ i - 1 \in 1 .. m
      BY <2>2
    <3>2. g[i - 1] = IF i - 1 = 1 THEN s[i - 1] ELSE g[(i - 1) - 1] \o s[i - 1]
      BY <2>1, <3>1
    <3> QED BY <3>1, <3>2
  <2>3. h = [i \in 1 .. m |-> IF i = 1 THEN s[i] ELSE h[i - 1] \o s[i]]
    <3>1. \A i \in 1 .. m : (IF i = 1 THEN s[i] ELSE g[i - 1] \o s[i]) = (IF i = 1 THEN s[i] ELSE h[i - 1] \o s[i])
      BY <2>2
    <3> QED BY <3>1
  <2>4. Solves(h, m)
    <3> HIDE DEF h
    <3> QED BY <2>3
  <2> HIDE DEF h, Solves
  <2> QED BY <2>4
<1>3. Nat \subseteq T
  <2> HIDE DEF T
  <2> QED BY <1>1, <1>2, NatSetInduction
<1> QED BY <1>3

(* The recursive function of FlattenSeq is what its definition says.       *)
LEMMA FlattenFunction ==
  ASSUME NEW s, NEW n \in Nat, Len(s) = n, n # 0
  PROVE  \E g : /\ g = [i \in 1 .. n |-> IF i = 1 THEN s[i] ELSE g[i - 1] \o s[i]]
                /\ FlattenSeq(s) = g[n]
<1> DEFINE f == CHOOSE g : g = [i \in 1 .. n |-> IF i = 1 THEN s[i] ELSE g[i - 1] \o s[i]]
<1>1. f = [i \in 1 .. n |-> IF i = 1 THEN s[i] ELSE f[i - 1] \o s[i]]
  <2>1. \E g : g = [i \in 1 .. n |-> IF i = 1 THEN s[i] ELSE g[i - 1] \o s[i]]
    BY FlattenExists
  <2> QED BY <2>1
<1>2. FlattenSeq(s) = f[n]
  BY DEF FlattenSeq
<1> HIDE DEF f
<1> QED BY <1>1, <1>2

LEMMA FlattenEmpty == FlattenSeq(<<>>) = <<>>
  BY DEF FlattenSeq

(* What it is for a longer sequence goes on from the shorter.              *)
LEMMA FlattenAppend ==
  ASSUME NEW S, NEW s \in Seq(Seq(S)), NEW x \in Seq(S)
  PROVE  FlattenSeq(Append(s, x)) = FlattenSeq(s) \o x
<1> DEFINE n == Len(s)
           m == n + 1
           t == Append(s, x)
<1>1. n \in Nat /\ Len(t) = m /\ m \in Nat /\ m # 0 /\ t[m] = x /\ \A i \in 1 .. n : t[i] = s[i]
  OBVIOUS
<1> HIDE DEF t, n, m
<1>2. PICK h : h = [i \in 1 .. m |-> IF i = 1 THEN t[i] ELSE h[i - 1] \o t[i]] /\ FlattenSeq(t) = h[m]
  BY <1>1, FlattenFunction
<1>3. CASE n = 0
  <2>1. m = 1 /\ s = <<>>
    BY <1>1, <1>3 DEF n, m
  <2>2. FlattenSeq(t) = x
    BY <1>1, <1>2, <2>1
  <2> QED BY <2>1, <2>2, FlattenEmpty DEF t
<1>4. CASE n # 0
  <2>1. PICK g : g = [i \in 1 .. n |-> IF i = 1 THEN s[i] ELSE g[i - 1] \o s[i]] /\ FlattenSeq(s) = g[n]
    BY <1>1, <1>4, FlattenFunction DEF n
  <2> DEFINE T == {k \in Nat : k \in 1 .. n => h[k] = g[k]}
  <2>2. 0 \in T
    OBVIOUS
  <2>3. ASSUME NEW k \in Nat, k \in T PROVE k + 1 \in T
    <3>1. SUFFICES ASSUME k + 1 \in 1 .. n PROVE h[k + 1] = g[k + 1]
      OBVIOUS
    <3>2. k + 1 \in 1 .. m /\ t[k + 1] = s[k + 1] /\ (k + 1) - 1 = k
      BY <1>1, <3>1 DEF m
    <3>3. h[k + 1] = IF k + 1 = 1 THEN t[k + 1] ELSE h[(k + 1) - 1] \o t[k + 1]
      BY <1>2, <3>2
    <3>4. g[k + 1] = IF k + 1 = 1 THEN s[k + 1] ELSE g[(k + 1) - 1] \o s[k + 1]
      BY <2>1, <3>1
    <3>5. k = 0 \/ h[k] = g[k]
      BY <1>1, <2>3, <3>1
    <3> QED BY <3>2, <3>3, <3>4, <3>5
  <2>4. Nat \subseteq T
    <3> HIDE DEF T
    <3> QED BY <2>2, <2>3, NatSetInduction
  <2>5. h[n] = g[n]
    BY <1>1, <1>4, <2>4
  <2>6. h[m] = h[n] \o t[m]
    <3>1. m \in 1 .. m /\ m # 1 /\ m - 1 = n
      BY <1>1, <1>4 DEF m
    <3>2. h[m] = IF m = 1 THEN t[m] ELSE h[m - 1] \o t[m]
      BY <1>2, <3>1
    <3> QED BY <3>1, <3>2
  <2> QED BY <1>1, <1>2, <2>1, <2>5, <2>6 DEF t
<1> QED BY <1>3, <1>4

(* Induction over sequences, for a set of them.                            *)
LEMMA SeqSetInduction ==
  ASSUME NEW S, NEW T, <<>> \in T,
         \A s \in Seq(S) : \A x \in S : s \in T => Append(s, x) \in T
  PROVE  Seq(S) \subseteq T
<1> DEFINE N == {n \in Nat : \A s \in Seq(S) : Len(s) = n => s \in T}
<1>1. 0 \in N
  OBVIOUS
<1>2. ASSUME NEW n \in Nat, n \in N PROVE n + 1 \in N
  <2>1. SUFFICES ASSUME NEW s \in Seq(S), Len(s) = n + 1 PROVE s \in T
    OBVIOUS
  <2> DEFINE front == SubSeq(s, 1, n)
             last == s[n + 1]
  <2>2. front \in Seq(S) /\ Len(front) = n /\ last \in S /\ \A i \in 1 .. n : front[i] = s[i]
    BY <2>1
  <2>3. s = Append(front, last)
    <3> DEFINE u == Append(front, last)
    <3>1. u \in Seq(S) /\ Len(u) = Len(s) /\ \A i \in 1 .. Len(s) : s[i] = u[i]
      BY <2>1, <2>2
    <3> HIDE DEF u
    <3>2. s = u
      BY <3>1, SeqEqual
    <3> QED BY <3>2 DEF u
  <2>4. front \in T
    BY <1>2, <2>2
  <2> HIDE DEF front, last
  <2> QED BY <2>2, <2>3, <2>4
<1>3. Nat \subseteq N
  <2> HIDE DEF N
  <2> QED BY <1>1, <1>2, NatSetInduction
<1>4. ASSUME NEW s \in Seq(S) PROVE s \in T
  <2>1. Len(s) \in Nat
    OBVIOUS
  <2>2. Len(s) \in N
    BY <1>3, <2>1
  <2> QED BY <2>2
<1> QED BY <1>4

LEMMA FlattenType ==
  ASSUME NEW S
  PROVE  \A s \in Seq(Seq(S)) : FlattenSeq(s) \in Seq(S)
<1> DEFINE T == {s \in Seq(Seq(S)) : FlattenSeq(s) \in Seq(S)}
<1>1. <<>> \in T
  <2>1. <<>> \in Seq(Seq(S)) /\ <<>> \in Seq(S)
    OBVIOUS
  <2> QED BY <2>1, FlattenEmpty
<1>2. ASSUME NEW s \in Seq(Seq(S)), NEW x \in Seq(S), s \in T PROVE Append(s, x) \in T
  <2>1. FlattenSeq(Append(s, x)) = FlattenSeq(s) \o x
    BY FlattenAppend
  <2>2. FlattenSeq(s) \in Seq(S)
    BY <1>2
  <2>3. FlattenSeq(s) \o x \in Seq(S) /\ Append(s, x) \in Seq(Seq(S))
    BY <2>2
  <2> QED BY <2>1, <2>3
<1>3. Seq(Seq(S)) \subseteq T
  <2> HIDE DEF T
  <2> QED BY <1>1, <1>2, SeqSetInduction
<1> QED BY <1>3

(* The flattening of two sequences joined.                                 *)
LEMMA FlattenConcat ==
  ASSUME NEW S, NEW s \in Seq(Seq(S))
  PROVE  \A t \in Seq(Seq(S)) : FlattenSeq(s \o t) = FlattenSeq(s) \o FlattenSeq(t)
<1> DEFINE T == {t \in Seq(Seq(S)) : FlattenSeq(s \o t) = FlattenSeq(s) \o FlattenSeq(t)}
<1>0. FlattenSeq(s) \in Seq(S)
  BY FlattenType
<1>1. <<>> \in T
  <2>1. s \o <<>> = s /\ FlattenSeq(s) \o <<>> = FlattenSeq(s) /\ <<>> \in Seq(Seq(S))
    BY <1>0
  <2> QED BY <2>1, FlattenEmpty
<1>2. ASSUME NEW t \in Seq(Seq(S)), NEW x \in Seq(S), t \in T PROVE Append(t, x) \in T
  <2>1. s \o Append(t, x) = Append(s \o t, x) /\ s \o t \in Seq(Seq(S)) /\ Append(t, x) \in Seq(Seq(S))
    <3>1. s \o t \in Seq(Seq(S)) /\ Append(t, x) \in Seq(Seq(S))
      OBVIOUS
    <3> DEFINE l == s \o Append(t, x)
               r == Append(s \o t, x)
    <3>2. l \in Seq(Seq(S)) /\ r \in Seq(Seq(S)) /\ Len(l) = Len(r) /\ \A i \in 1 .. Len(l) : l[i] = r[i]
      OBVIOUS
    <3> HIDE DEF l, r
    <3>3. l = r
      BY <3>2, SeqEqual
    <3> QED BY <3>1, <3>3 DEF l, r
  <2>2. FlattenSeq(Append(s \o t, x)) = FlattenSeq(s \o t) \o x
    BY <2>1, FlattenAppend
  <2>3. FlattenSeq(Append(t, x)) = FlattenSeq(t) \o x /\ FlattenSeq(t) \in Seq(S)
    BY FlattenAppend, FlattenType
  <2>4. (FlattenSeq(s) \o FlattenSeq(t)) \o x = FlattenSeq(s) \o (FlattenSeq(t) \o x)
    BY <1>0, <2>3, ConcatAssociative
  <2>5. FlattenSeq(s \o t) = FlattenSeq(s) \o FlattenSeq(t)
    BY <1>2
  <2> QED BY <2>1, <2>2, <2>3, <2>4, <2>5
<1>3. Seq(Seq(S)) \subseteq T
  <2> HIDE DEF T
  <2> QED BY <1>1, <1>2, SeqSetInduction
<1> QED BY <1>3

LEMMA PartFacts ==
  ASSUME NEW S, NEW s \in Seq(S), NEW a \in Nat, NEW b \in Nat, a <= b, b <= Len(s)
  PROVE  /\ SubSeq(s, a + 1, b) \in Seq(S) /\ Len(SubSeq(s, a + 1, b)) = b - a
         /\ \A i \in 1 .. b - a : SubSeq(s, a + 1, b)[i] = s[a + i]
<1>1. Len(SubSeq(s, a + 1, b)) = b - a /\ Len(s) \in Nat
  OBVIOUS
<1>2. SubSeq(s, a + 1, b) \in Seq(S)
  OBVIOUS
<1>3. ASSUME NEW i \in 1 .. b - a PROVE SubSeq(s, a + 1, b)[i] = s[a + i]
  <2>1. SubSeq(s, a + 1, b)[i] = s[(a + 1) + i - 1]
    BY <1>1
  <2>2. (a + 1) + i - 1 = a + i
    OBVIOUS
  <2> QED BY <2>1, <2>2
<1> QED BY <1>1, <1>2, <1>3

-----------------------------------------------------------------------------
(* Streams of frames, for frames of any kinds K and lengths L.             *)
BytesOf(K) == K \X Nat
FrameOf(L, k) == [i \in 1 .. L[k] |-> <<k, i>>]
Joined(L, s) == FlattenSeq([i \in 1 .. Len(s) |-> FrameOf(L, s[i])])

LEMMA JoinParts ==
  ASSUME NEW S, NEW s \in Seq(S), NEW t \in Seq(S)
  PROVE  /\ s \o t \in Seq(S) /\ Len(s \o t) = Len(s) + Len(t)
         /\ Len(s) \in Nat /\ Len(t) \in Nat
         /\ \A i \in 1 .. Len(s) : (s \o t)[i] = s[i]
         /\ \A i \in 1 .. Len(t) : (s \o t)[Len(s) + i] = t[i]
  OBVIOUS

LEMMA FrameType ==
  ASSUME NEW K, NEW L \in [K -> Nat], NEW k \in K
  PROVE  /\ FrameOf(L, k) \in Seq(BytesOf(K)) /\ Len(FrameOf(L, k)) = L[k]
         /\ \A i \in 1 .. L[k] : FrameOf(L, k)[i] = <<k, i>>
<1> DEFINE n == L[k]
           f == [i \in 1 .. n |-> <<k, i>>]
<1>1. n \in Nat
  OBVIOUS
<1>2. f \in [1 .. n -> BytesOf(K)]
  BY DEF BytesOf
<1>3. f \in Seq(BytesOf(K)) /\ Len(f) = n
  <2> HIDE DEF f, n
  <2> QED BY <1>1, <1>2, IsSequence
<1> QED BY <1>3 DEF FrameOf

IsFrame(K, L, k) ==
  /\ FrameOf(L, k) \in Seq(BytesOf(K)) /\ Len(FrameOf(L, k)) = L[k]
  /\ \A i \in 1 .. L[k] : FrameOf(L, k)[i] = <<k, i>>

LEMMA FrameIs ==
  ASSUME NEW K, NEW L \in [K -> Nat], NEW k \in K
  PROVE  IsFrame(K, L, k)
BY FrameType DEF IsFrame

LEMMA FramesType ==
  ASSUME NEW K, NEW L \in [K -> Nat], NEW s \in Seq(K)
  PROVE  /\ [i \in 1 .. Len(s) |-> FrameOf(L, s[i])] \in Seq(Seq(BytesOf(K)))
         /\ Len([i \in 1 .. Len(s) |-> FrameOf(L, s[i])]) = Len(s)
<1> DEFINE n == Len(s)
           f == [i \in 1 .. n |-> FrameOf(L, s[i])]
<1>1. n \in Nat
  OBVIOUS
<1>2. f \in [1 .. n -> Seq(BytesOf(K))]
  <2>1. ASSUME NEW i \in 1 .. n PROVE FrameOf(L, s[i]) \in Seq(BytesOf(K))
    <3>1. s[i] \in K
      OBVIOUS
    <3> QED BY <3>1, FrameType
  <2> QED BY <2>1
<1>3. f \in Seq(Seq(BytesOf(K))) /\ Len(f) = n
  <2> HIDE DEF f, n
  <2> QED BY <1>1, <1>2, IsSequence
<1> QED BY <1>3

LEMMA JoinedType ==
  ASSUME NEW K, NEW L \in [K -> Nat], NEW s \in Seq(K)
  PROVE  Joined(L, s) \in Seq(BytesOf(K))
<1> DEFINE f == [i \in 1 .. Len(s) |-> FrameOf(L, s[i])]
<1>1. f \in Seq(Seq(BytesOf(K)))
  BY FramesType
<1> HIDE DEF f
<1>2. FlattenSeq(f) \in Seq(BytesOf(K))
  BY <1>1, FlattenType
<1> QED BY <1>2 DEF Joined, f

LEMMA JoinedEmpty ==
  ASSUME NEW L
  PROVE  Joined(L, <<>>) = <<>>
<1>1. [i \in 1 .. Len(<<>>) |-> FrameOf(L, <<>>[i])] = <<>>
  OBVIOUS
<1> QED BY <1>1, FlattenEmpty DEF Joined

LEMMA JoinedConcat ==
  ASSUME NEW K, NEW L \in [K -> Nat], NEW s \in Seq(K), NEW t \in Seq(K)
  PROVE  Joined(L, s \o t) = Joined(L, s) \o Joined(L, t)
<1> DEFINE F(u) == [i \in 1 .. Len(u) |-> FrameOf(L, u[i])]
           B == Seq(BytesOf(K))
<1>1. s \o t \in Seq(K) /\ Len(s \o t) = Len(s) + Len(t)
      /\ \A i \in 1 .. Len(s) + Len(t) : (s \o t)[i] = IF i <= Len(s) THEN s[i] ELSE t[i - Len(s)]
  OBVIOUS
<1>2. /\ F(s \o t) \in Seq(B) /\ F(s) \in Seq(B) /\ F(t) \in Seq(B)
      /\ Len(F(s \o t)) = Len(s) + Len(t) /\ Len(F(s)) = Len(s) /\ Len(F(t)) = Len(t)
  <2>1. F(s) \in Seq(B) /\ Len(F(s)) = Len(s)
    BY FramesType
  <2>2. F(t) \in Seq(B) /\ Len(F(t)) = Len(t)
    BY FramesType
  <2>3. F(s \o t) \in Seq(B) /\ Len(F(s \o t)) = Len(s \o t)
    BY <1>1, FramesType
  <2> HIDE DEF F
  <2> QED BY <1>1, <2>1, <2>2, <2>3
<1>3. F(s \o t) = F(s) \o F(t)
  <2> DEFINE l == F(s \o t)
             a == F(s)
             b == F(t)
             r == a \o b
  <2>0. Len(s) \in Nat /\ Len(t) \in Nat
    OBVIOUS
  <2>1. ASSUME NEW i \in 1 .. Len(s) + Len(t) PROVE l[i] = IF i <= Len(s) THEN a[i] ELSE b[i - Len(s)]
    <3>1. l[i] = FrameOf(L, (s \o t)[i])
      BY <1>1
    <3>2. CASE i <= Len(s)
      <4>1. i \in 1 .. Len(s)
        BY <2>0, <3>2
      <4>2. a[i] = FrameOf(L, s[i])
        BY <4>1
      <4>3. (s \o t)[i] = s[i]
        BY <1>1, <3>2
      <4> QED BY <3>1, <3>2, <4>2, <4>3
    <3>3. CASE ~(i <= Len(s))
      <4>1. i - Len(s) \in 1 .. Len(t)
        BY <2>0, <3>3
      <4>2. b[i - Len(s)] = FrameOf(L, t[i - Len(s)])
        BY <4>1
      <4>3. (s \o t)[i] = t[i - Len(s)]
        BY <1>1, <3>3
      <4> QED BY <3>1, <3>3, <4>2, <4>3
    <3> QED BY <3>2, <3>3
  <2> HIDE DEF l, a, b
  <2>2. l \in Seq(B) /\ a \in Seq(B) /\ b \in Seq(B) /\ Len(l) = Len(s) + Len(t) /\ Len(a) = Len(s) /\ Len(b) = Len(t)
    BY <1>2 DEF l, a, b
  <2> HIDE DEF F, B
  <2>3. r \in Seq(B) /\ Len(r) = Len(a) + Len(b)
        /\ \A i \in 1 .. Len(a) + Len(b) : r[i] = IF i <= Len(a) THEN a[i] ELSE b[i - Len(a)]
    BY <2>2
  <2> HIDE DEF r
  <2>4. Len(l) = Len(r) /\ \A i \in 1 .. Len(l) : l[i] = r[i]
    BY <2>1, <2>2, <2>3
  <2>5. l = r
    BY <2>2, <2>3, <2>4, SeqEqual
  <2> QED BY <2>5 DEF l, r, a, b
<1>4. FlattenSeq(F(s) \o F(t)) = FlattenSeq(F(s)) \o FlattenSeq(F(t))
  <2> HIDE DEF F
  <2> QED BY <1>2, FlattenConcat
<1> QED BY <1>3, <1>4 DEF Joined

LEMMA JoinedOne ==
  ASSUME NEW K, NEW L \in [K -> Nat], NEW k \in K
  PROVE  Joined(L, <<k>>) = FrameOf(L, k)
<1> DEFINE f == FrameOf(L, k)
<1>1. f \in Seq(BytesOf(K))
  BY FrameType
<1>2. [i \in 1 .. Len(<<k>>) |-> FrameOf(L, <<k>>[i])] = <<f>>
  OBVIOUS
<1> HIDE DEF f
<1>3. <<f>> = Append(<<>>, f) /\ <<>> \in Seq(Seq(BytesOf(K))) /\ <<>> \o f = f
  BY <1>1
<1>4. FlattenSeq(Append(<<>>, f)) = FlattenSeq(<<>>) \o f
  BY <1>1, <1>3, FlattenAppend
<1>5. FlattenSeq(<<f>>) = f
  BY <1>3, <1>4, FlattenEmpty
<1> QED BY <1>2, <1>5 DEF Joined, f

(* Two ways to cut one sequence in two: what the first part has of the     *)
(* other's first part, and what is left of it after that.                  *)
CutsAgree(S, b, later, f, t) ==
  b \o later = f \o t
  => /\ \A i \in 1 .. Len(b) : i <= Len(f) => b[i] = f[i]
     /\ Len(b) >= Len(f) => /\ SubSeq(b, Len(f) + 1, Len(b)) \in Seq(S)
                            /\ SubSeq(b, Len(f) + 1, Len(b)) \o later = t

LEMMA TwoCuts ==
  ASSUME NEW S, NEW b \in Seq(S), NEW later \in Seq(S), NEW f \in Seq(S), NEW t \in Seq(S)
  PROVE  CutsAgree(S, b, later, f, t)
<1>0. PICK whole : whole = b \o later
  OBVIOUS
<1>a. ASSUME whole = f \o t
      PROVE  /\ \A i \in 1 .. Len(b) : i <= Len(f) => b[i] = f[i]
             /\ Len(b) >= Len(f) => /\ SubSeq(b, Len(f) + 1, Len(b)) \in Seq(S)
                                    /\ SubSeq(b, Len(f) + 1, Len(b)) \o later = t
  <2>1. /\ \A i \in 1 .. Len(b) : whole[i] = b[i]
        /\ \A i \in 1 .. Len(later) : whole[Len(b) + i] = later[i]
        /\ Len(whole) = Len(b) + Len(later)
        /\ \A i \in 1 .. Len(f) : whole[i] = f[i]
        /\ \A i \in 1 .. Len(t) : whole[Len(f) + i] = t[i]
        /\ Len(whole) = Len(f) + Len(t)
    <3>1. /\ \A i \in 1 .. Len(b) : (b \o later)[i] = b[i]
          /\ \A i \in 1 .. Len(later) : (b \o later)[Len(b) + i] = later[i]
          /\ Len(b \o later) = Len(b) + Len(later)
      BY JoinParts
    <3>2. /\ \A i \in 1 .. Len(f) : (f \o t)[i] = f[i]
          /\ \A i \in 1 .. Len(t) : (f \o t)[Len(f) + i] = t[i]
          /\ Len(f \o t) = Len(f) + Len(t)
      BY JoinParts
    <3> QED BY <1>0, <1>a, <3>1, <3>2
  <2>2. Len(b) \in Nat /\ Len(later) \in Nat /\ Len(f) \in Nat /\ Len(t) \in Nat
    OBVIOUS
  <2>3. ASSUME NEW i \in 1 .. Len(b), i <= Len(f) PROVE b[i] = f[i]
    <3>1. i \in 1 .. Len(f)
      BY <2>2, <2>3
    <3> QED BY <2>1, <3>1
  <2>4. ASSUME Len(b) >= Len(f)
        PROVE  /\ SubSeq(b, Len(f) + 1, Len(b)) \in Seq(S)
               /\ SubSeq(b, Len(f) + 1, Len(b)) \o later = t
    <3>1. PICK m \in Nat : Len(b) = Len(f) + m
      <4>1. Len(b) - Len(f) \in Nat /\ Len(b) = Len(f) + (Len(b) - Len(f))
        BY <2>2, <2>4
      <4> QED BY <4>1
    <3>2. PICK c \in Seq(S) : c = SubSeq(b, Len(f) + 1, Len(b)) /\ Len(c) = m /\ \A i \in 1 .. m : c[i] = b[Len(f) + i]
      <4>1. /\ SubSeq(b, Len(f) + 1, Len(b)) \in Seq(S) /\ Len(SubSeq(b, Len(f) + 1, Len(b))) = Len(b) - Len(f)
            /\ \A i \in 1 .. Len(b) - Len(f) : SubSeq(b, Len(f) + 1, Len(b))[i] = b[Len(f) + i]
        BY <2>2, <2>4, PartFacts
      <4>2. Len(b) - Len(f) = m
        BY <2>2, <3>1
      <4> QED BY <4>1, <4>2
    <3>3. PICK r \in Seq(S) : /\ r = c \o later /\ Len(r) = m + Len(later)
                              /\ \A i \in 1 .. m : r[i] = c[i]
                              /\ \A i \in 1 .. Len(later) : r[m + i] = later[i]
      <4>1. /\ c \o later \in Seq(S) /\ Len(c \o later) = Len(c) + Len(later)
            /\ \A i \in 1 .. Len(c) : (c \o later)[i] = c[i]
            /\ \A i \in 1 .. Len(later) : (c \o later)[Len(c) + i] = later[i]
        BY JoinParts
      <4> QED BY <3>2, <4>1
    <3>4. Len(r) = Len(t)
      BY <2>1, <2>2, <3>1, <3>3
    <3>5. ASSUME NEW i \in 1 .. Len(r) PROVE r[i] = t[i]
      <4>1. whole[Len(f) + i] = t[i] /\ i \in 1 .. m + Len(later)
        BY <2>1, <3>3, <3>4
      <4>2. CASE i <= m
        <5>1. i \in 1 .. m /\ Len(f) + i \in 1 .. Len(b)
          BY <2>2, <3>1, <4>1, <4>2
        <5> QED BY <2>1, <3>2, <3>3, <4>1, <5>1
      <4>3. CASE ~(i <= m)
        <5>1. PICK j \in 1 .. Len(later) : i = m + j
          <6>1. i - m \in 1 .. Len(later) /\ i = m + (i - m)
            BY <2>2, <3>1, <4>1, <4>3
          <6> QED BY <6>1
        <5>2. Len(f) + i = Len(b) + j
          BY <2>2, <3>1, <5>1
        <5> QED BY <2>1, <3>3, <4>1, <5>1, <5>2
      <4> QED BY <4>2, <4>3
    <3>6. r = t
      BY <3>3, <3>4, <3>5, SeqEqual
    <3> QED BY <3>2, <3>3, <3>6
  <2> QED BY <2>3, <2>4
<1> QED BY <1>0, <1>a DEF CutsAgree

(* The bytes of a first frame, taken from a buffer. *)
FirstTaken(K, L, k, tail, b, later) ==
  /\ \A i \in 1 .. Len(b) : i <= L[k] => b[i] = <<k, i>>
  /\ Len(b) >= L[k] => /\ SubSeq(b, L[k] + 1, Len(b)) \in Seq(BytesOf(K))
                       /\ SubSeq(b, L[k] + 1, Len(b)) \o later = Joined(L, tail)

LEMMA TakeFrame ==
  ASSUME NEW K, NEW L \in [K -> Nat], NEW k \in K, NEW tail \in Seq(K),
         NEW b \in Seq(BytesOf(K)), NEW later \in Seq(BytesOf(K))
  PROVE  b \o later = FrameOf(L, k) \o Joined(L, tail) => FirstTaken(K, L, k, tail, b, later)
<1>1. L[k] \in Nat /\ Len(b) \in Nat
  OBVIOUS
<1>2. PICK f : f = FrameOf(L, k)
  OBVIOUS
<1>3. PICK t : t = Joined(L, tail)
  OBVIOUS
<1>4. f \in Seq(BytesOf(K)) /\ Len(f) = L[k] /\ \A i \in 1 .. L[k] : f[i] = <<k, i>>
  <2>1. IsFrame(K, L, k)
    BY FrameIs
  <2> QED BY <1>2, <2>1 DEF IsFrame
<1>5. t \in Seq(BytesOf(K))
  BY <1>3, JoinedType
<1>6. CutsAgree(BytesOf(K), b, later, f, t)
  BY <1>4, <1>5, TwoCuts
<1>7. ASSUME b \o later = f \o t
      PROVE  /\ \A i \in 1 .. Len(b) : i <= L[k] => b[i] = <<k, i>>
             /\ Len(b) >= L[k] => /\ SubSeq(b, L[k] + 1, Len(b)) \in Seq(BytesOf(K))
                                  /\ SubSeq(b, L[k] + 1, Len(b)) \o later = t
  <2>1. /\ \A i \in 1 .. Len(b) : i <= Len(f) => b[i] = f[i]
        /\ Len(b) >= Len(f) => /\ SubSeq(b, Len(f) + 1, Len(b)) \in Seq(BytesOf(K))
                               /\ SubSeq(b, Len(f) + 1, Len(b)) \o later = t
    BY <1>6, <1>7 DEF CutsAgree
  <2>2. ASSUME NEW i \in 1 .. Len(b), i <= L[k] PROVE i \in 1 .. L[k]
    BY <1>1, <2>2
  <2> QED BY <1>4, <2>1, <2>2
<1> QED BY <1>2, <1>3, <1>7 DEF FirstTaken

LEMMA JoinedFirst ==
  ASSUME NEW K, NEW L \in [K -> Nat], NEW k \in K, NEW tail \in Seq(K)
  PROVE  Joined(L, <<k>> \o tail) = FrameOf(L, k) \o Joined(L, tail)
<1>1. <<k>> \in Seq(K)
  OBVIOUS
<1>2. Joined(L, <<k>> \o tail) = Joined(L, <<k>>) \o Joined(L, tail)
  BY <1>1, JoinedConcat
<1> QED BY <1>2, JoinedOne

(* A buffer that is not empty begins with the first frame that was not     *)
(* taken, or with a part of it; a whole frame can be taken.                *)
LEMMA FirstFrame ==
  ASSUME NEW K, NEW L \in [K -> Nat], NEW rest \in Seq(K),
         NEW b \in Seq(BytesOf(K)), NEW later \in Seq(BytesOf(K))
  PROVE  b \o later = Joined(L, rest) /\ Len(b) >= 1
         => \E k \in K, tail \in Seq(K) : rest = <<k>> \o tail /\ FirstTaken(K, L, k, tail, b, later)
<1>1. CASE rest = <<>>
  <2>1. Joined(L, rest) = <<>>
    BY <1>1, JoinedEmpty
  <2>2. Len(b \o later) = Len(b) + Len(later) /\ Len(b) \in Nat /\ Len(later) \in Nat
    OBVIOUS
  <2>3. Len(b) >= 1 => b \o later # <<>>
    BY <2>2
  <2> QED BY <2>1, <2>3
<1>2. CASE rest # <<>>
  <2>1. PICK k \in K, tail \in Seq(K) : rest = <<k>> \o tail
    <3>1. Head(rest) \in K /\ Tail(rest) \in Seq(K) /\ rest = <<Head(rest)>> \o Tail(rest)
      BY <1>2
    <3> QED BY <3>1
  <2>2. Joined(L, rest) = FrameOf(L, k) \o Joined(L, tail)
    BY <2>1, JoinedFirst
  <2>3. b \o later = FrameOf(L, k) \o Joined(L, tail) => FirstTaken(K, L, k, tail, b, later)
    BY TakeFrame
  <2> QED BY <2>1, <2>2, <2>3
<1> QED BY <1>1, <1>2
-----------------------------------------------------------------------------
(* The pieces a stream is cut into.                                        *)
LEMMA CutInTwo ==
  ASSUME NEW S, NEW s \in Seq(S), NEW n \in 0 .. Len(s)
  PROVE  /\ SubSeq(s, 1, n) \in Seq(S) /\ Len(SubSeq(s, 1, n)) = n
         /\ SubSeq(s, n + 1, Len(s)) \in Seq(S) /\ Len(SubSeq(s, n + 1, Len(s))) = Len(s) - n
         /\ SubSeq(s, 1, n) \o SubSeq(s, n + 1, Len(s)) = s
<1>1. n \in Nat /\ n <= Len(s) /\ Len(s) \in Nat /\ 0 \in Nat /\ 0 <= n
  OBVIOUS
<1>2. SubSeq(s, 0 + 1, n) \in Seq(S) /\ Len(SubSeq(s, 0 + 1, n)) = n - 0
  BY <1>1, PartFacts
<1>3. SubSeq(s, n + 1, Len(s)) \in Seq(S) /\ Len(SubSeq(s, n + 1, Len(s))) = Len(s) - n
  BY <1>1, PartFacts
<1>4. SubSeq(s, 1, n) \o SubSeq(s, n + 1, Len(s)) = SubSeq(s, 1, Len(s))
  <2>1. 1 \in 1 .. Len(s) + 1 /\ n \in 1 - 1 .. Len(s) /\ Len(s) \in n .. Len(s)
    BY <1>1
  <2> QED BY <2>1, ConcatAdjacentSubSeq
<1>5. SubSeq(s, 1, Len(s)) = s
  BY SubSeqFull
<1>6. 0 + 1 = 1 /\ n - 0 = n
  BY <1>1
<1>7. SubSeq(s, 1, n) \in Seq(S) /\ Len(SubSeq(s, 1, n)) = n
  BY <1>2, <1>6
<1> QED BY <1>3, <1>4, <1>5, <1>7

Regrouped(S, b, x, y) == b \o x \in Seq(S) /\ (b \o x) \o y = b \o (x \o y)

LEMMA Regroup ==
  ASSUME NEW S, NEW b \in Seq(S), NEW x \in Seq(S), NEW y \in Seq(S)
  PROVE  Regrouped(S, b, x, y)
BY ConcatAssociative, SMTT(30) DEF Regrouped

LEMMA Delivered ==
  ASSUME NEW S, NEW b \in Seq(S), NEW s \in Seq(S), NEW n \in 1 .. Len(s)
  PROVE  /\ b \o SubSeq(s, 1, n) \in Seq(S) /\ SubSeq(s, n + 1, Len(s)) \in Seq(S)
         /\ (b \o SubSeq(s, 1, n)) \o SubSeq(s, n + 1, Len(s)) = b \o s
<1>1. n \in 0 .. Len(s)
  OBVIOUS
<1>2. PICK x \in Seq(S), y \in Seq(S) :
        x = SubSeq(s, 1, n) /\ y = SubSeq(s, n + 1, Len(s)) /\ x \o y = s
  <2>1. /\ SubSeq(s, 1, n) \in Seq(S) /\ SubSeq(s, n + 1, Len(s)) \in Seq(S)
        /\ SubSeq(s, 1, n) \o SubSeq(s, n + 1, Len(s)) = s
    BY <1>1, CutInTwo
  <2> QED BY <2>1
<1>3. Regrouped(S, b, x, y)
  BY Regroup
<1>4. b \o x \in Seq(S) /\ (b \o x) \o y = b \o s
  BY <1>2, <1>3 DEF Regrouped
<1> QED BY <1>2, <1>4

LEMMA AppendRest ==
  ASSUME NEW S, NEW a \in Seq(S), NEW t \in Seq(S), NEW k \in S
  PROVE  /\ Append(a, k) \in Seq(S)
         /\ Append(a, k) \o t = a \o (<<k>> \o t)
<1>1. <<k>> \in Seq(S) /\ Append(a, k) = a \o <<k>>
  OBVIOUS
<1>2. (a \o <<k>>) \o t = a \o (<<k>> \o t)
  BY <1>1, ConcatAssociative
<1> QED BY <1>1, <1>2

LEMMA DropTwice ==
  ASSUME NEW S, NEW s \in Seq(S), NEW a \in Nat, NEW c \in Nat, a + c <= Len(s)
  PROVE  SubSeq(SubSeq(s, a + 1, Len(s)), c + 1, Len(SubSeq(s, a + 1, Len(s)))) = SubSeq(s, a + c + 1, Len(s))
<1>0. Len(s) \in Nat /\ a <= Len(s)
  OBVIOUS
<1>1. PICK r \in Seq(S) : /\ r = SubSeq(s, a + 1, Len(s)) /\ Len(r) = Len(s) - a
                          /\ \A i \in 1 .. Len(s) - a : r[i] = s[a + i]
  <2>1. /\ SubSeq(s, a + 1, Len(s)) \in Seq(S) /\ Len(SubSeq(s, a + 1, Len(s))) = Len(s) - a
        /\ \A i \in 1 .. Len(s) - a : SubSeq(s, a + 1, Len(s))[i] = s[a + i]
    BY <1>0, PartFacts
  <2> QED BY <2>1
<1>2. PICK p \in Seq(S) : /\ p = SubSeq(r, c + 1, Len(r)) /\ Len(p) = Len(r) - c
                          /\ \A i \in 1 .. Len(r) - c : p[i] = r[c + i]
  <2>0. c <= Len(r) /\ Len(r) \in Nat
    BY <1>0, <1>1
  <2>1. /\ SubSeq(r, c + 1, Len(r)) \in Seq(S) /\ Len(SubSeq(r, c + 1, Len(r))) = Len(r) - c
        /\ \A i \in 1 .. Len(r) - c : SubSeq(r, c + 1, Len(r))[i] = r[c + i]
    BY <2>0, PartFacts
  <2> QED BY <2>1
<1>3. PICK m \in Nat : m = a + c
  OBVIOUS
<1>4. PICK q \in Seq(S) : /\ q = SubSeq(s, m + 1, Len(s)) /\ Len(q) = Len(s) - m
                          /\ \A i \in 1 .. Len(s) - m : q[i] = s[m + i]
  <2>1. /\ SubSeq(s, m + 1, Len(s)) \in Seq(S) /\ Len(SubSeq(s, m + 1, Len(s))) = Len(s) - m
        /\ \A i \in 1 .. Len(s) - m : SubSeq(s, m + 1, Len(s))[i] = s[m + i]
    BY <1>0, <1>3, PartFacts
  <2> QED BY <2>1
<1>5. Len(p) = Len(q) /\ Len(p) = Len(s) - m
  BY <1>0, <1>1, <1>2, <1>3, <1>4
<1>6. ASSUME NEW i \in 1 .. Len(p) PROVE p[i] = q[i]
  <2>1. i \in 1 .. Len(r) - c /\ i \in 1 .. Len(s) - m
    BY <1>0, <1>1, <1>2, <1>5
  <2>2. c + i \in 1 .. Len(s) - a /\ a + (c + i) = m + i
    BY <1>0, <1>3, <2>1
  <2>3. r[c + i] = s[a + (c + i)]
    BY <1>1, <2>2
  <2> QED BY <1>2, <1>4, <2>1, <2>2, <2>3
<1>7. p = q
  BY <1>5, <1>6, SeqEqual
<1> QED BY <1>1, <1>2, <1>3, <1>4, <1>7

LEMMA PrefixOfConcat ==
  ASSUME NEW S, NEW a \in Seq(S), NEW t \in Seq(S)
  PROVE  IsPrefix(a, a \o t)
<1>1. Len(a \o t) = Len(a) + Len(t) /\ Len(a) \in Nat /\ Len(t) \in Nat
  OBVIOUS
<1>2. Len(a) <= Len(a \o t)
  BY <1>1
<1>3. SubSeq(a \o t, 1, Len(a)) = SubSeq(a, 1, Len(a))
  <2>1. CASE Len(a) = 0
    <3>1. SubSeq(a \o t, 1, 0) = <<>> /\ SubSeq(a, 1, 0) = <<>>
      BY SubSeqEmpty
    <3> QED BY <2>1, <3>1
  <2>2. CASE Len(a) # 0
    <3>1. 1 \in 1 .. Len(a) /\ Len(a) \in 1 .. Len(a)
      BY <1>1, <2>2
    <3> QED BY <3>1, SubSeqOfConcat1
  <2> QED BY <2>1, <2>2
<1> QED BY <1>2, <1>3 DEF IsPrefix

-----------------------------------------------------------------------------
(* The signalling server's frames.                                         *)
LEMMA MdvrKinds ==
  /\ Mdvr!Kinds = {"heartbeat", "command", "rejected", "garbage"}
  /\ Mdvr!Length \in [Mdvr!Kinds -> Nat]
  /\ Mdvr!Length["heartbeat"] = 4 /\ Mdvr!Length["command"] = 6
  /\ Mdvr!Length["rejected"] = 6 /\ Mdvr!Length["garbage"] = 5
  /\ Mdvr!Commands = {"command", "rejected"}
BY DEF Mdvr!Kinds, Mdvr!Length, Mdvr!Commands

LEMMA MdvrBytes ==
  ASSUME NEW s
  PROVE  Mdvr!Bytes(s) = Joined(Mdvr!Length, s)
BY DEF Mdvr!Bytes, Mdvr!Frame, Mdvr!FlattenSeq, Joined, FrameOf, FlattenSeq

(* The frames before those that are left have been taken, and what is in   *)
(* the buffer or on its way are the bytes of those that are left.          *)
Left(a, b, later) ==
  /\ a \in Seq(Mdvr!Kinds)
  /\ b \in Seq(BytesOf(Mdvr!Kinds)) /\ later \in Seq(BytesOf(Mdvr!Kinds))
  /\ \E rest \in Seq(Mdvr!Kinds) : stream = a \o rest /\ b \o later = Joined(Mdvr!Length, rest)

FrameInv ==
  /\ stream \in Seq(Mdvr!Kinds)
  /\ Mdvr!Clean => bufIdx \in Nat /\ length \in Nat
  /\ Mdvr!Clean => Left(acted, buf, incoming)
  /\ Mdvr!Clean /\ active => length = bufIdx + Len(buf)
  /\ Mdvr!NothingWaits

(* The buffer begins with a frame of this kind, or with a part of one.     *)
BeginsWith(k) ==
  /\ \A i \in 1 .. Len(buf) : i <= Mdvr!Length[k] => buf[i] = <<k, i>>
  /\ Len(acted) < Len(stream) /\ stream[Len(acted) + 1] = k
  /\ Len(buf) >= Mdvr!Length[k]
     => Left(Append(acted, k), SubSeq(buf, Mdvr!Length[k] + 1, Len(buf)), incoming)

LEMMA BufferBegins ==
  ASSUME stream \in Seq(Mdvr!Kinds), Mdvr!Clean, Left(acted, buf, incoming), Len(buf) >= 1
  PROVE  \E k \in Mdvr!Kinds \ {"garbage"} : BeginsWith(k)
<1>1. PICK rest \in Seq(Mdvr!Kinds) : stream = acted \o rest /\ buf \o incoming = Joined(Mdvr!Length, rest)
  BY DEF Left
<1>2. PICK k \in Mdvr!Kinds, tail \in Seq(Mdvr!Kinds) :
        rest = <<k>> \o tail /\ FirstTaken(Mdvr!Kinds, Mdvr!Length, k, tail, buf, incoming)
  <2>1. Mdvr!Length \in [Mdvr!Kinds -> Nat] /\ buf \in Seq(BytesOf(Mdvr!Kinds)) /\ incoming \in Seq(BytesOf(Mdvr!Kinds))
    BY MdvrKinds DEF Left
  <2> QED BY <1>1, <2>1, FirstFrame
<1>3. /\ acted \in Seq(Mdvr!Kinds) /\ Append(acted, k) \in Seq(Mdvr!Kinds)
      /\ stream = Append(acted, k) \o tail
  <2>1. acted \in Seq(Mdvr!Kinds)
    BY DEF Left
  <2>2. Append(acted, k) \in Seq(Mdvr!Kinds) /\ Append(acted, k) \o tail = acted \o (<<k>> \o tail)
    BY <2>1, AppendRest
  <2> QED BY <1>1, <1>2, <2>1, <2>2
<1>4. Len(acted) < Len(stream) /\ Len(acted) + 1 \in 1 .. Len(stream) /\ stream[Len(acted) + 1] = k
  <2>1. PICK a \in Seq(Mdvr!Kinds) : a = Append(acted, k) /\ Len(a) = Len(acted) + 1 /\ a[Len(acted) + 1] = k
    <3>1. Len(Append(acted, k)) = Len(acted) + 1 /\ Append(acted, k)[Len(acted) + 1] = k
      BY <1>3
    <3> QED BY <1>3, <3>1
  <2>2. stream = a \o tail /\ Len(acted) \in Nat
    BY <1>3, <2>1
  <2>3. /\ Len(a \o tail) = Len(a) + Len(tail) /\ Len(a) \in Nat /\ Len(tail) \in Nat
        /\ \A i \in 1 .. Len(a) : (a \o tail)[i] = a[i]
    BY JoinParts
  <2>4. Len(acted) + 1 \in 1 .. Len(a)
    BY <2>1, <2>2
  <2> QED BY <2>1, <2>2, <2>3, <2>4
<1>5. k # "garbage"
  BY <1>4 DEF Mdvr!Clean
<1>6. Left(Append(acted, k), SubSeq(buf, Mdvr!Length[k] + 1, Len(buf)), incoming)
      \/ ~ (Len(buf) >= Mdvr!Length[k])
  BY <1>2, <1>3 DEF Left, FirstTaken
<1>7. \A i \in 1 .. Len(buf) : i <= Mdvr!Length[k] => buf[i] = <<k, i>>
  BY <1>2 DEF FirstTaken
<1>8. BeginsWith(k)
  BY <1>4, <1>6, <1>7 DEF BeginsWith
<1> QED BY <1>5, <1>8

LEMMA FourBytes ==
  ASSUME NEW S, NEW s \in Seq(S), Len(s) >= 4
  PROVE  \E h \in Seq(S) : h = SubSeq(s, 1, 4) /\ Len(h) = 4 /\ \A i \in 1 .. 4 : h[i] = s[i]
<1>1. 4 \in 0 .. Len(s) /\ 0 + 1 = 1 /\ 4 - 0 = 4 /\ 0 \in Nat /\ 4 \in Nat /\ 0 <= 4 /\ 4 <= Len(s)
  OBVIOUS
<1>2. SubSeq(s, 1, 4) \in Seq(S) /\ Len(SubSeq(s, 1, 4)) = 4
  BY <1>1, CutInTwo
<1>3. \A i \in 1 .. 4 - 0 : SubSeq(s, 0 + 1, 4)[i] = s[0 + i]
  BY <1>1, PartFacts
<1>4. ASSUME NEW i \in 1 .. 4 PROVE SubSeq(s, 1, 4)[i] = s[i]
  <2>1. 0 + i = i /\ i \in 1 .. 4 - 0
    OBVIOUS
  <2>2. SubSeq(s, 0 + 1, 4)[i] = s[0 + i]
    BY <1>3, <2>1
  <2> QED BY <1>1, <2>1, <2>2
<1> QED BY <1>2, <1>4

(* A buffer of four bytes or more shows the kind of its first frame.       *)
LEMMA HeaderIs ==
  ASSUME NEW k \in Mdvr!Kinds, buf \in Seq(BytesOf(Mdvr!Kinds)), Len(buf) >= 4, BeginsWith(k)
  PROVE  \A j \in Mdvr!Kinds : SubSeq(buf, 1, 4) = SubSeq(Mdvr!Frame(j), 1, 4) <=> j = k
<1>1. ASSUME NEW j \in Mdvr!Kinds
      PROVE  \E h \in Seq(BytesOf(Mdvr!Kinds)) :
               h = SubSeq(Mdvr!Frame(j), 1, 4) /\ Len(h) = 4 /\ \A i \in 1 .. 4 : h[i] = <<j, i>>
  <2>1. PICK f \in Seq(BytesOf(Mdvr!Kinds)) : f = Mdvr!Frame(j) /\ Len(f) = Mdvr!Length[j]
                                              /\ \A i \in 1 .. Mdvr!Length[j] : f[i] = <<j, i>>
    <3>1. IsFrame(Mdvr!Kinds, Mdvr!Length, j)
      BY MdvrKinds, FrameIs
    <3>2. FrameOf(Mdvr!Length, j) = Mdvr!Frame(j)
      BY DEF FrameOf, Mdvr!Frame
    <3> QED BY <3>1, <3>2 DEF IsFrame
  <2>2. Mdvr!Length[j] \in Nat /\ Mdvr!Length[j] >= 4
    BY MdvrKinds
  <2>3. PICK h \in Seq(BytesOf(Mdvr!Kinds)) : h = SubSeq(f, 1, 4) /\ Len(h) = 4 /\ \A i \in 1 .. 4 : h[i] = f[i]
    <3>1. Len(f) >= 4
      BY <2>1, <2>2
    <3> QED BY <3>1, FourBytes
  <2>4. \A i \in 1 .. 4 : i \in 1 .. Mdvr!Length[j]
    BY <2>2
  <2>5. \A i \in 1 .. 4 : h[i] = <<j, i>>
    BY <2>1, <2>3, <2>4
  <2> QED BY <2>1, <2>3, <2>5
<1>2. \E h \in Seq(BytesOf(Mdvr!Kinds)) :
        h = SubSeq(buf, 1, 4) /\ Len(h) = 4 /\ \A i \in 1 .. 4 : h[i] = <<k, i>>
  <2>1. Len(buf) \in Nat /\ Mdvr!Length[k] \in Nat /\ Mdvr!Length[k] >= 4
    BY MdvrKinds
  <2>2. PICK h \in Seq(BytesOf(Mdvr!Kinds)) : h = SubSeq(buf, 1, 4) /\ Len(h) = 4 /\ \A i \in 1 .. 4 : h[i] = buf[i]
    BY FourBytes
  <2>3. \A i \in 1 .. 4 : i \in 1 .. Len(buf) /\ i <= Mdvr!Length[k]
    BY <2>1
  <2>4. \A i \in 1 .. 4 : buf[i] = <<k, i>>
    BY <2>3 DEF BeginsWith
  <2> QED BY <2>2, <2>4
<1>3. ASSUME NEW j \in Mdvr!Kinds, SubSeq(buf, 1, 4) = SubSeq(Mdvr!Frame(j), 1, 4) PROVE j = k
  <2>1. PICK h : h = SubSeq(buf, 1, 4) /\ h[1] = <<k, 1>>
    <3>1. 1 \in 1 .. 4
      OBVIOUS
    <3> QED BY <1>2, <3>1
  <2>2. PICK g : g = SubSeq(Mdvr!Frame(j), 1, 4) /\ g[1] = <<j, 1>>
    <3>1. 1 \in 1 .. 4
      OBVIOUS
    <3> QED BY <1>1, <3>1
  <2> QED BY <1>3, <2>1, <2>2
<1>4. SubSeq(buf, 1, 4) = SubSeq(Mdvr!Frame(k), 1, 4)
  <2>1. PICK h \in Seq(BytesOf(Mdvr!Kinds)) : h = SubSeq(buf, 1, 4) /\ Len(h) = 4 /\ \A i \in 1 .. 4 : h[i] = <<k, i>>
    BY <1>2
  <2>2. PICK g \in Seq(BytesOf(Mdvr!Kinds)) : g = SubSeq(Mdvr!Frame(k), 1, 4) /\ Len(g) = 4 /\ \A i \in 1 .. 4 : g[i] = <<k, i>>
    BY <1>1
  <2>3. Len(h) = Len(g) /\ \A i \in 1 .. Len(h) : h[i] = g[i]
    BY <2>1, <2>2
  <2>4. h = g
    BY <2>3, SeqEqual
  <2> QED BY <2>1, <2>2, <2>4
<1> QED BY <1>3, <1>4

(* The end of a command is found once the whole of it is there.            *)
LEMMA EndIs ==
  ASSUME NEW k \in Mdvr!Commands, buf \in Seq(BytesOf(Mdvr!Kinds)), Len(buf) >= 4, BeginsWith(k)
  PROVE  /\ Mdvr!Rest \in Seq(BytesOf(Mdvr!Kinds)) /\ Len(Mdvr!Rest) = Len(buf) - 4
         /\ Len(buf) < 6 => Mdvr!End = 0
         /\ Len(buf) >= 6 => Mdvr!End = 2
<1>0. Mdvr!Length[k] = 6 /\ Len(buf) \in Nat /\ Mdvr!HeaderLen = 4
  BY MdvrKinds DEF Mdvr!HeaderLen
<1>1. PICK r \in Seq(BytesOf(Mdvr!Kinds)) : /\ r = Mdvr!Rest /\ Len(r) = Len(buf) - 4
                                            /\ \A i \in 1 .. Len(buf) - 4 : r[i] = buf[4 + i]
  <2>1. /\ SubSeq(buf, 4 + 1, Len(buf)) \in Seq(BytesOf(Mdvr!Kinds)) /\ Len(SubSeq(buf, 4 + 1, Len(buf))) = Len(buf) - 4
        /\ \A i \in 1 .. Len(buf) - 4 : SubSeq(buf, 4 + 1, Len(buf))[i] = buf[4 + i]
    <3>1. 4 \in Nat /\ 4 <= Len(buf) /\ Len(buf) <= Len(buf)
      BY <1>0
    <3> QED BY <1>0, <3>1, PartFacts
  <2>2. Mdvr!Rest = SubSeq(buf, 4 + 1, Len(buf))
    BY DEF Mdvr!Rest, Mdvr!HeaderLen
  <2> QED BY <2>1, <2>2
<1>2. PICK I : I = {i \in 1 .. Len(r) : r[i][1] \in Mdvr!Commands /\ r[i][2] = Mdvr!Length[r[i][1]]}
  OBVIOUS
<1>3. Mdvr!End = IF I # {} THEN CHOOSE x \in I : \A y \in I : x <= y ELSE 0
  BY <1>1, <1>2 DEF Mdvr!End, Mdvr!SelectInSeq, Mdvr!IsEnd, Mdvr!Min, Min
<1>4. ASSUME NEW i \in 1 .. Len(r), 4 + i <= 6 PROVE r[i] = <<k, 4 + i>>
  <2>1. 4 + i \in 1 .. Len(buf) /\ i \in 1 .. Len(buf) - 4
    BY <1>0, <1>1
  <2>2. buf[4 + i] = <<k, 4 + i>>
    BY <1>0, <1>4, <2>1 DEF BeginsWith
  <2> QED BY <1>1, <2>1, <2>2
<1>5. ASSUME NEW i \in 1 .. Len(r), 4 + i <= 6 PROVE i \in I <=> i = 2
  <2>1. r[i][1] = k /\ r[i][2] = 4 + i
    BY <1>4, <1>5
  <2>2. i \in I <=> 4 + i = 6
    BY <1>0, <1>2, <2>1
  <2> QED BY <2>2
<1>6. ASSUME Len(buf) < 6 PROVE Mdvr!End = 0
  <2>1. ASSUME NEW i \in 1 .. Len(r) PROVE i # 2 /\ 4 + i <= 6
    BY <1>0, <1>1, <1>6
  <2>2. I = {}
    BY <1>2, <1>5, <2>1
  <2> QED BY <1>3, <2>2
<1>7. ASSUME Len(buf) >= 6 PROVE Mdvr!End = 2
  <2>1. 2 \in 1 .. Len(r) /\ 4 + 2 <= 6
    BY <1>0, <1>1, <1>7
  <2>2. 2 \in I
    BY <1>5, <2>1
  <2>3. ASSUME NEW i \in I PROVE 2 <= i
    <3>1. i \in 1 .. Len(r) /\ i \in Nat
      BY <1>2
    <3>2. i < 2 => i = 1 /\ 4 + i <= 6
      BY <3>1
    <3> QED BY <1>5, <3>1, <3>2
  <2>4. ASSUME NEW x \in I, \A y \in I : x <= y PROVE x = 2
    <3>1. x \in Nat /\ 2 <= x
      BY <1>2, <2>3
    <3>2. x <= 2
      BY <2>2, <2>4
    <3> QED BY <3>1, <3>2
  <2>5. (CHOOSE x \in I : \A y \in I : x <= y) = 2
    BY <2>2, <2>3, <2>4
  <2> QED BY <1>3, <2>2, <2>5
<1> QED BY <1>1, <1>6, <1>7

LEMMA FrameInit ==
  ASSUME Mdvr!Init
  PROVE  FrameInv
<1>1. stream \in Seq(Mdvr!Kinds) /\ buf = <<>> /\ acted = <<>> /\ bufIdx = 0 /\ length = 0 /\ Len(stream) \in Nat
  <2>1. PICK n \in 1 .. MaxFrames : stream \in [1 .. n -> Mdvr!Kinds]
    BY DEF Mdvr!Init
  <2>2. n \in Nat
    BY ServersAssumption DEF ServersAssumption
  <2> QED BY <2>1, <2>2, IsSequence DEF Mdvr!Init
<1>2. incoming = Joined(Mdvr!Length, stream)
  BY MdvrBytes DEF Mdvr!Init
<1>3. incoming \in Seq(BytesOf(Mdvr!Kinds))
  BY <1>1, <1>2, MdvrKinds, JoinedType
<1>4. <<>> \o stream = stream /\ <<>> \o incoming = incoming
  BY <1>1, <1>3
<1>5. Left(acted, buf, incoming)
  BY <1>1, <1>2, <1>3, <1>4 DEF Left
<1>6. Mdvr!NothingWaits
  <2> SUFFICES ASSUME Len(acted) < Len(stream) PROVE Len(buf) < Mdvr!Length[stream[Len(acted) + 1]]
    BY DEF Mdvr!NothingWaits
  <2>1. Len(acted) + 1 \in 1 .. Len(stream) /\ Len(buf) = 0
    BY <1>1
  <2>2. stream[Len(acted) + 1] \in Mdvr!Kinds
    BY <1>1, <2>1
  <2> QED BY <2>1, <2>2, MdvrKinds
<1>7. active = FALSE
  BY DEF Mdvr!Init
<1> QED BY <1>1, <1>5, <1>6, <1>7 DEF FrameInv

LEMMA FrameDeliver ==
  ASSUME FrameInv, Mdvr!Deliver
  PROVE  FrameInv'
<1>1. PICK n \in 1 .. Len(incoming) : /\ buf' = buf \o SubSeq(incoming, 1, n)
                                      /\ incoming' = SubSeq(incoming, n + 1, Len(incoming))
  BY DEF Mdvr!Deliver
<1>2. active' = TRUE /\ bufIdx' = 0 /\ length' = Len(buf') /\ stream' = stream /\ acted' = acted
  BY DEF Mdvr!Deliver
<1>3. Mdvr!Clean' <=> Mdvr!Clean
  BY <1>2 DEF Mdvr!Clean
<1>4. ASSUME Mdvr!Clean PROVE Left(acted, buf, incoming)' /\ Len(buf') \in Nat
  <2>1. Left(acted, buf, incoming)
    BY <1>4 DEF FrameInv
  <2>2. /\ buf' \in Seq(BytesOf(Mdvr!Kinds)) /\ incoming' \in Seq(BytesOf(Mdvr!Kinds))
        /\ buf' \o incoming' = buf \o incoming
    <3>1. buf \in Seq(BytesOf(Mdvr!Kinds)) /\ incoming \in Seq(BytesOf(Mdvr!Kinds))
      BY <2>1 DEF Left
    <3>2. /\ buf \o SubSeq(incoming, 1, n) \in Seq(BytesOf(Mdvr!Kinds))
          /\ SubSeq(incoming, n + 1, Len(incoming)) \in Seq(BytesOf(Mdvr!Kinds))
          /\ (buf \o SubSeq(incoming, 1, n)) \o SubSeq(incoming, n + 1, Len(incoming)) = buf \o incoming
      BY <3>1, Delivered, ZenonT(30)
    <3> QED BY <1>1, <3>2
  <2>3. PICK rest \in Seq(Mdvr!Kinds) : stream = acted \o rest /\ buf \o incoming = Joined(Mdvr!Length, rest)
    BY <2>1 DEF Left
  <2>4. stream' = acted' \o rest /\ buf' \o incoming' = Joined(Mdvr!Length, rest)
    BY <1>2, <2>2, <2>3
  <2>5. acted' \in Seq(Mdvr!Kinds)
    BY <1>2, <2>1 DEF Left
  <2>6. Left(acted, buf, incoming)'
    BY <2>2, <2>4, <2>5 DEF Left
  <2>7. Len(buf') \in Nat
    BY <2>2
  <2> QED BY <2>6, <2>7
<1> QED BY <1>2, <1>3, <1>4 DEF FrameInv, Mdvr!NothingWaits

(* A wait between two runs of the handler for a frame that is not whole.   *)
LEMMA WaitsForMore ==
  ASSUME NEW k \in Mdvr!Kinds, BeginsWith(k), Len(buf) < Mdvr!Length[k]
  PROVE  Len(buf) < Mdvr!Length[stream[Len(acted) + 1]]
BY DEF BeginsWith

LEMMA FrameStays ==
  ASSUME FrameInv, UNCHANGED <<stream, acted, buf, incoming, bufIdx, length>>, active' = FALSE,
         Mdvr!Clean /\ Len(acted) < Len(stream) => Len(buf) < Mdvr!Length[stream[Len(acted) + 1]]
  PROVE  FrameInv'
<1>1. Mdvr!Clean' <=> Mdvr!Clean
  BY DEF Mdvr!Clean
<1>2. Mdvr!NothingWaits'
  BY <1>1 DEF Mdvr!NothingWaits
<1>3. Left(acted, buf, incoming)' <=> Left(acted, buf, incoming)
  BY DEF Left
<1> QED BY <1>1, <1>2, <1>3 DEF FrameInv

LEMMA FrameDone ==
  ASSUME FrameInv, Mdvr!Done
  PROVE  FrameInv'
<1>1. ASSUME Mdvr!Clean, Len(acted) < Len(stream) PROVE Len(buf) < Mdvr!Length[stream[Len(acted) + 1]]
  <2>1. buf \in Seq(BytesOf(Mdvr!Kinds)) /\ acted \in Seq(Mdvr!Kinds) /\ stream \in Seq(Mdvr!Kinds)
    BY <1>1 DEF FrameInv, Left
  <2>2. Len(buf) = 0
    <3>1. bufIdx \in Nat /\ length \in Nat /\ length = bufIdx + Len(buf) /\ bufIdx >= length /\ Len(buf) \in Nat
      BY <1>1, <2>1 DEF FrameInv, Mdvr!Done
    <3> QED BY <3>1
  <2>3. Len(acted) \in Nat /\ Len(stream) \in Nat
    BY <2>1
  <2>4. Len(acted) + 1 \in 1 .. Len(stream)
    BY <1>1, <2>3
  <2>5. stream[Len(acted) + 1] \in Mdvr!Kinds
    BY <2>1, <2>4
  <2> QED BY <2>2, <2>5, MdvrKinds
<1> QED BY <1>1, FrameStays DEF Mdvr!Done

LEMMA FrameTooShort ==
  ASSUME FrameInv, Mdvr!TooShort
  PROVE  FrameInv'
<1>1. ASSUME Mdvr!Clean, Len(acted) < Len(stream) PROVE Len(buf) < Mdvr!Length[stream[Len(acted) + 1]]
  <2>1. buf \in Seq(BytesOf(Mdvr!Kinds)) /\ acted \in Seq(Mdvr!Kinds) /\ stream \in Seq(Mdvr!Kinds)
    BY <1>1 DEF FrameInv, Left
  <2>2. Len(buf) < 4
    <3>1. bufIdx \in Nat /\ length \in Nat /\ length = bufIdx + Len(buf) /\ length - bufIdx < 4 /\ Len(buf) \in Nat
      BY <1>1, <2>1 DEF FrameInv, Mdvr!TooShort, Mdvr!HeaderLen
    <3> QED BY <3>1
  <2>3. Len(acted) \in Nat /\ Len(stream) \in Nat /\ Len(buf) \in Nat
    BY <2>1
  <2>4. Len(acted) + 1 \in 1 .. Len(stream)
    BY <1>1, <2>3
  <2>5. stream[Len(acted) + 1] \in Mdvr!Kinds
    BY <2>1, <2>4
  <2> QED BY <2>2, <2>3, <2>5, MdvrKinds
<1> QED BY <1>1, FrameStays DEF Mdvr!TooShort

(* What a header of these kinds tells of the frame the buffer begins with. *)
LEMMA HeaderTells ==
  ASSUME NEW kinds \in SUBSET Mdvr!Kinds, FrameInv, Mdvr!Clean, Mdvr!Header(kinds)
  PROVE  /\ buf \in Seq(BytesOf(Mdvr!Kinds)) /\ acted \in Seq(Mdvr!Kinds)
         /\ Len(buf) \in Nat /\ Len(buf) >= 4
         /\ \E k \in kinds : BeginsWith(k)
<1>1. /\ buf \in Seq(BytesOf(Mdvr!Kinds)) /\ acted \in Seq(Mdvr!Kinds) /\ stream \in Seq(Mdvr!Kinds)
      /\ Left(acted, buf, incoming)
  BY DEF FrameInv, Left
<1>2. Len(buf) \in Nat /\ Len(buf) >= 4
  <2>1. bufIdx \in Nat /\ length \in Nat /\ length = bufIdx + Len(buf) /\ length - bufIdx >= 4 /\ Len(buf) \in Nat
    BY <1>1 DEF FrameInv, Mdvr!Header, Mdvr!HeaderLen
  <2> QED BY <2>1
<1>3. PICK k \in Mdvr!Kinds \ {"garbage"} : BeginsWith(k)
  <2>1. Len(buf) >= 1
    BY <1>2
  <2> QED BY <1>1, <2>1, BufferBegins
<1>4. \A j \in Mdvr!Kinds : SubSeq(buf, 1, 4) = SubSeq(Mdvr!Frame(j), 1, 4) <=> j = k
  BY <1>1, <1>2, <1>3, HeaderIs
<1>5. k \in kinds
  BY <1>4 DEF Mdvr!Header, Mdvr!HeaderLen
<1> QED BY <1>1, <1>2, <1>3, <1>5

LEMMA FrameHeartbeat ==
  ASSUME FrameInv, Mdvr!Heartbeat
  PROVE  FrameInv'
<1>1. /\ stream' = stream /\ incoming' = incoming /\ length' = length /\ active' = TRUE
      /\ buf' = Mdvr!Rest /\ bufIdx' = bufIdx + 4 /\ acted' = Append(acted, "heartbeat")
  BY DEF Mdvr!Heartbeat, Mdvr!Header, Mdvr!HeaderLen
<1>2. Mdvr!Clean' <=> Mdvr!Clean
  BY <1>1 DEF Mdvr!Clean
<1>3. ASSUME Mdvr!Clean
      PROVE  bufIdx' \in Nat /\ length' \in Nat /\ Left(acted, buf, incoming)' /\ length' = bufIdx' + Len(buf')
  <2>1. /\ buf \in Seq(BytesOf(Mdvr!Kinds)) /\ acted \in Seq(Mdvr!Kinds)
        /\ Len(buf) \in Nat /\ Len(buf) >= 4 /\ BeginsWith("heartbeat")
    <3>1. {"heartbeat"} \in SUBSET Mdvr!Kinds /\ Mdvr!Header({"heartbeat"})
      BY MdvrKinds DEF Mdvr!Heartbeat
    <3> QED BY <1>3, <3>1, HeaderTells
  <2>2. Mdvr!Rest = SubSeq(buf, Mdvr!Length["heartbeat"] + 1, Len(buf))
    BY MdvrKinds DEF Mdvr!Rest, Mdvr!HeaderLen
  <2>3. Left(Append(acted, "heartbeat"), Mdvr!Rest, incoming)
    BY <2>1, <2>2, MdvrKinds DEF BeginsWith
  <2>4. Len(Mdvr!Rest) = Len(buf) - 4
    <3>1. 4 \in Nat /\ 4 <= Len(buf) /\ Len(buf) <= Len(buf)
      BY <2>1
    <3>2. Len(SubSeq(buf, 4 + 1, Len(buf))) = Len(buf) - 4
      BY <2>1, <3>1, PartFacts, ZenonT(30)
    <3> QED BY <3>2 DEF Mdvr!Rest, Mdvr!HeaderLen
  <2>5. bufIdx \in Nat /\ length \in Nat /\ length = bufIdx + Len(buf)
    BY <1>3 DEF FrameInv, Mdvr!Heartbeat, Mdvr!Header
  <2>6. length = (bufIdx + 4) + (Len(buf) - 4) /\ bufIdx + 4 \in Nat
    BY <2>1, <2>5
  <2>7. Left(acted, buf, incoming)'
    BY <1>1, <2>3 DEF Left
  <2> QED BY <1>1, <2>4, <2>5, <2>6, <2>7
<1>4. Mdvr!NothingWaits'
  BY <1>1 DEF Mdvr!NothingWaits
<1>5. stream' \in Seq(Mdvr!Kinds)
  BY <1>1 DEF FrameInv
<1> QED BY <1>2, <1>3, <1>4, <1>5 DEF FrameInv

(* A whole command: its kind is the one the action reads, and the bytes    *)
(* behind its end stay.                                                    *)
LEMMA CommandTaken ==
  ASSUME FrameInv, Mdvr!Clean, Mdvr!TakeCommand, UNCHANGED <<stream, incoming>>
  PROVE  /\ Left(acted, buf, incoming)'
         /\ Mdvr!End = 2 /\ Len(buf) \in Nat /\ Len(buf) >= 6 /\ Len(buf') = Len(buf) - 6
<1>1. /\ buf \in Seq(BytesOf(Mdvr!Kinds)) /\ acted \in Seq(Mdvr!Kinds)
      /\ Len(buf) \in Nat /\ Len(buf) >= 4 /\ \E k \in Mdvr!Commands : BeginsWith(k)
  <2>1. Mdvr!Commands \in SUBSET Mdvr!Kinds /\ Mdvr!Header(Mdvr!Commands)
    BY MdvrKinds DEF Mdvr!TakeCommand
  <2> QED BY <2>1, HeaderTells
<1>2. PICK k \in Mdvr!Commands : BeginsWith(k)
  BY <1>1
<1>3. /\ Mdvr!Rest \in Seq(BytesOf(Mdvr!Kinds)) /\ Len(Mdvr!Rest) = Len(buf) - 4
      /\ Len(buf) < 6 => Mdvr!End = 0
      /\ Len(buf) >= 6 => Mdvr!End = 2
  BY <1>1, <1>2, EndIs
<1>4. Mdvr!End = 2 /\ Len(buf) >= 6
  BY <1>1, <1>3 DEF Mdvr!TakeCommand
<1>5. SubSeq(Mdvr!Rest, Mdvr!End + 1, Len(Mdvr!Rest)) = SubSeq(buf, 7, Len(buf))
  <2>1. 4 \in Nat /\ 2 \in Nat /\ 4 + 2 <= Len(buf)
    BY <1>1, <1>4
  <2>2. SubSeq(SubSeq(buf, 4 + 1, Len(buf)), 2 + 1, Len(SubSeq(buf, 4 + 1, Len(buf)))) = SubSeq(buf, 4 + 2 + 1, Len(buf))
    BY <1>1, <2>1, DropTwice
  <2>3. 4 + 2 + 1 = 7
    OBVIOUS
  <2> QED BY <1>4, <2>2, <2>3 DEF Mdvr!Rest, Mdvr!HeaderLen
<1>6. Len(SubSeq(buf, 7, Len(buf))) = Len(buf) - 6
  <2>1. 6 \in Nat /\ 6 <= Len(buf) /\ Len(buf) <= Len(buf)
    BY <1>1, <1>4
  <2>2. Len(SubSeq(buf, 6 + 1, Len(buf))) = Len(buf) - 6
    BY <1>1, <2>1, PartFacts, ZenonT(30)
  <2> QED BY <2>2
<1>7. Mdvr!Length[k] = 6 /\ Mdvr!Length[k] + 1 = 7
  BY MdvrKinds
<1>8. buf[1][1] = k
  <2>1. 1 \in 1 .. Len(buf) /\ 1 <= 6
    BY <1>1
  <2>2. buf[1] = <<k, 1>>
    BY <1>2, <1>7, <2>1 DEF BeginsWith
  <2> QED BY <2>2
<1>9. acted' = Append(acted, k) /\ buf' = SubSeq(buf, 7, Len(buf))
  BY <1>5, <1>8 DEF Mdvr!TakeCommand
<1>10. Left(Append(acted, k), SubSeq(buf, 7, Len(buf)), incoming)
  BY <1>2, <1>4, <1>7 DEF BeginsWith
<1>11. Left(acted, buf, incoming)'
  BY <1>9, <1>10 DEF Left
<1> QED BY <1>1, <1>4, <1>6, <1>9, <1>11

LEMMA FrameCommand ==
  ASSUME FrameInv, Mdvr!Command
  PROVE  FrameInv'
<1>1. /\ stream' = stream /\ incoming' = incoming /\ length' = length /\ active' = TRUE /\ active = TRUE
      /\ bufIdx' = bufIdx + 4 + Mdvr!End
  BY DEF Mdvr!Command, Mdvr!TakeCommand, Mdvr!Header, Mdvr!HeaderLen
<1>2. Mdvr!Clean' <=> Mdvr!Clean
  BY <1>1 DEF Mdvr!Clean
<1>3. ASSUME Mdvr!Clean
      PROVE  bufIdx' \in Nat /\ length' \in Nat /\ Left(acted, buf, incoming)' /\ length' = bufIdx' + Len(buf')
  <2>1. /\ Left(acted, buf, incoming)'
        /\ Mdvr!End = 2 /\ Len(buf) \in Nat /\ Len(buf) >= 6 /\ Len(buf') = Len(buf) - 6
    BY <1>1, <1>3, CommandTaken DEF Mdvr!Command
  <2>2. bufIdx \in Nat /\ length \in Nat /\ length = bufIdx + Len(buf)
    BY <1>1, <1>3 DEF FrameInv
  <2>3. length = (bufIdx + 4 + 2) + (Len(buf) - 6) /\ bufIdx + 4 + 2 \in Nat
    BY <2>1, <2>2
  <2>4. bufIdx' = bufIdx + 4 + 2
    BY <1>1, <2>1
  <2> QED BY <1>1, <2>1, <2>2, <2>3, <2>4
<1>4. Mdvr!NothingWaits'
  BY <1>1 DEF Mdvr!NothingWaits
<1>5. stream' \in Seq(Mdvr!Kinds)
  BY <1>1 DEF FrameInv
<1> QED BY <1>2, <1>3, <1>4, <1>5 DEF FrameInv

LEMMA FrameRejected ==
  ASSUME FrameInv, Mdvr!Rejected
  PROVE  FrameInv'
<1>1. /\ stream' = stream /\ incoming' = incoming /\ length' = length /\ active' = FALSE /\ broke' = TRUE
      /\ bufIdx' = bufIdx
  BY DEF Mdvr!Rejected
<1>2. Mdvr!Clean' <=> Mdvr!Clean
  BY <1>1 DEF Mdvr!Clean
<1>3. ASSUME Mdvr!Clean PROVE bufIdx' \in Nat /\ length' \in Nat /\ Left(acted, buf, incoming)'
  <2>1. Left(acted, buf, incoming)'
    BY <1>1, <1>3, CommandTaken DEF Mdvr!Rejected
  <2> QED BY <1>1, <1>3, <2>1 DEF FrameInv
<1>4. Mdvr!NothingWaits'
  BY <1>1 DEF Mdvr!NothingWaits
<1>5. stream' \in Seq(Mdvr!Kinds)
  BY <1>1 DEF FrameInv
<1> QED BY <1>1, <1>2, <1>3, <1>4, <1>5 DEF FrameInv

LEMMA FramePartial ==
  ASSUME FrameInv, Mdvr!Partial
  PROVE  FrameInv'
<1>1. /\ UNCHANGED <<stream, acted, incoming, bufIdx, length>> /\ active' = FALSE
      /\ buf' = SubSeq(buf, 1, 4) \o SubSeq(buf, 4 + 1, Len(buf))
  BY DEF Mdvr!Partial, Mdvr!Rest, Mdvr!HeaderLen
<1>2. Mdvr!Clean' <=> Mdvr!Clean
  BY <1>1 DEF Mdvr!Clean
<1>3. ASSUME Mdvr!Clean
      PROVE  /\ buf' = buf
             /\ Len(buf) < Mdvr!Length[stream[Len(acted) + 1]]
  <2>1. /\ buf \in Seq(BytesOf(Mdvr!Kinds)) /\ acted \in Seq(Mdvr!Kinds)
        /\ Len(buf) \in Nat /\ Len(buf) >= 4 /\ \E k \in Mdvr!Commands : BeginsWith(k)
    <3>1. Mdvr!Commands \in SUBSET Mdvr!Kinds /\ Mdvr!Header(Mdvr!Commands)
      BY MdvrKinds DEF Mdvr!Partial
    <3> QED BY <1>3, <3>1, HeaderTells
  <2>2. PICK k \in Mdvr!Commands : BeginsWith(k)
    BY <2>1
  <2>3. /\ Len(buf) < 6 => Mdvr!End = 0
        /\ Len(buf) >= 6 => Mdvr!End = 2
    BY <2>1, <2>2, EndIs
  <2>4. Len(buf) < 6 /\ Mdvr!Length[k] = 6 /\ k \in Mdvr!Kinds
    BY <2>1, <2>3, MdvrKinds DEF Mdvr!Partial
  <2>5. Len(buf) < Mdvr!Length[stream[Len(acted) + 1]]
    BY <2>2, <2>4, WaitsForMore
  <2>6. 4 \in 0 .. Len(buf)
    BY <2>1
  <2>7. SubSeq(buf, 1, 4) \o SubSeq(buf, 4 + 1, Len(buf)) = buf
    BY <2>1, <2>6, CutInTwo
  <2> QED BY <1>1, <2>5, <2>7
<1>4. ASSUME Mdvr!Clean PROVE bufIdx' \in Nat /\ length' \in Nat /\ Left(acted, buf, incoming)'
  <2>1. Left(acted, buf, incoming) /\ bufIdx \in Nat /\ length \in Nat
    BY <1>4 DEF FrameInv
  <2>2. Left(acted, buf, incoming)'
    BY <1>1, <1>3, <1>4, <2>1 DEF Left
  <2> QED BY <1>1, <2>1, <2>2
<1>5. Mdvr!NothingWaits'
  BY <1>1, <1>2, <1>3 DEF Mdvr!NothingWaits
<1>6. stream' \in Seq(Mdvr!Kinds)
  BY <1>1 DEF FrameInv
<1> QED BY <1>1, <1>2, <1>4, <1>5, <1>6 DEF FrameInv

(* A well-formed stream is never discarded.                                *)
LEMMA FrameDiscard ==
  ASSUME FrameInv, Mdvr!Discard
  PROVE  FrameInv'
<1>1. /\ stream' = stream /\ acted' = acted /\ active' = FALSE
      /\ active = TRUE /\ length - bufIdx >= 4 /\ ~ Mdvr!Header(Mdvr!Kinds \ {"garbage"})
  BY DEF Mdvr!Discard, Mdvr!HeaderLen
<1>2. Mdvr!Clean' <=> Mdvr!Clean
  BY <1>1 DEF Mdvr!Clean
<1>3. ~ Mdvr!Clean
  <2> SUFFICES ASSUME Mdvr!Clean PROVE FALSE
    OBVIOUS
  <2>1. /\ buf \in Seq(BytesOf(Mdvr!Kinds)) /\ acted \in Seq(Mdvr!Kinds) /\ stream \in Seq(Mdvr!Kinds)
        /\ Left(acted, buf, incoming)
    BY DEF FrameInv, Left
  <2>2. Len(buf) \in Nat /\ Len(buf) >= 4
    <3>1. bufIdx \in Nat /\ length \in Nat /\ length = bufIdx + Len(buf) /\ Len(buf) \in Nat
      BY <1>1, <2>1 DEF FrameInv
    <3> QED BY <1>1, <3>1
  <2>3. PICK k \in Mdvr!Kinds \ {"garbage"} : BeginsWith(k)
    <3>1. Len(buf) >= 1
      BY <2>2
    <3> QED BY <2>1, <3>1, BufferBegins
  <2>4. SubSeq(buf, 1, 4) = SubSeq(Mdvr!Frame(k), 1, 4)
    <3>1. \A j \in Mdvr!Kinds : SubSeq(buf, 1, 4) = SubSeq(Mdvr!Frame(j), 1, 4) <=> j = k
      BY <2>1, <2>2, <2>3, HeaderIs
    <3> QED BY <3>1
  <2>5. active
    BY <1>1
  <2> QED BY <1>1, <2>3, <2>4, <2>5 DEF Mdvr!Header, Mdvr!HeaderLen
<1>4. stream' \in Seq(Mdvr!Kinds)
  BY <1>1 DEF FrameInv
<1> QED BY <1>2, <1>3, <1>4 DEF FrameInv, Mdvr!NothingWaits

LEMMA FrameInductive ==
  ASSUME FrameInv, [Mdvr!Next]_Mdvr!vars
  PROVE  FrameInv'
<1>1. CASE UNCHANGED Mdvr!vars
  <2>1. UNCHANGED <<stream, acted, buf, incoming, bufIdx, length, active, broke>>
    BY <1>1 DEF Mdvr!vars
  <2>2. Mdvr!Clean' <=> Mdvr!Clean
    BY <2>1 DEF Mdvr!Clean
  <2>3. Left(acted, buf, incoming)' <=> Left(acted, buf, incoming)
    BY <2>1 DEF Left
  <2> QED BY <2>1, <2>2, <2>3 DEF FrameInv, Mdvr!NothingWaits
<1>2. CASE Mdvr!Deliver
  BY <1>2, FrameDeliver
<1>3. CASE Mdvr!Done
  BY <1>3, FrameDone
<1>4. CASE Mdvr!TooShort
  BY <1>4, FrameTooShort
<1>5. CASE Mdvr!Heartbeat
  BY <1>5, FrameHeartbeat
<1>6. CASE Mdvr!Command
  BY <1>6, FrameCommand
<1>7. CASE Mdvr!Rejected
  BY <1>7, FrameRejected
<1>8. CASE Mdvr!Partial
  BY <1>8, FramePartial
<1>9. CASE Mdvr!Discard
  BY <1>9, FrameDiscard
<1> QED BY <1>1, <1>2, <1>3, <1>4, <1>5, <1>6, <1>7, <1>8, <1>9 DEF Mdvr!Next

LEMMA FramesCut ==
  ASSUME FrameInv
  PROVE  CutIndependent /\ NothingWaits
<1>1. ASSUME Mdvr!Clean
      PROVE  IsPrefix(acted, stream) /\ Mdvr!Bytes(acted) \o buf \o incoming = Mdvr!Bytes(stream)
  <2>1. PICK rest \in Seq(Mdvr!Kinds) : stream = acted \o rest /\ buf \o incoming = Joined(Mdvr!Length, rest)
    BY <1>1 DEF FrameInv, Left
  <2>2. /\ acted \in Seq(Mdvr!Kinds) /\ buf \in Seq(BytesOf(Mdvr!Kinds)) /\ incoming \in Seq(BytesOf(Mdvr!Kinds))
    BY <1>1 DEF FrameInv, Left
  <2>3. IsPrefix(acted, acted \o rest)
    BY <2>2, PrefixOfConcat
  <2>4. Joined(Mdvr!Length, acted \o rest) = Joined(Mdvr!Length, acted) \o Joined(Mdvr!Length, rest)
    BY <2>2, MdvrKinds, JoinedConcat, SMTT(30)
  <2>5. PICK a \in Seq(BytesOf(Mdvr!Kinds)) : a = Joined(Mdvr!Length, acted)
    BY <2>2, MdvrKinds, JoinedType
  <2>6. Regrouped(BytesOf(Mdvr!Kinds), a, buf, incoming)
    BY <2>2, Regroup
  <2>7. (a \o buf) \o incoming = Joined(Mdvr!Length, stream)
    BY <2>1, <2>4, <2>5, <2>6 DEF Regrouped
  <2> QED BY <2>1, <2>3, <2>5, <2>7, MdvrBytes
<1>2. Mdvr!IsPrefix(acted, stream) <=> IsPrefix(acted, stream)
  BY DEF Mdvr!IsPrefix, IsPrefix
<1>3. Mdvr!CutIndependent
  BY <1>1, <1>2 DEF Mdvr!CutIndependent
<1> QED BY <1>3 DEF CutIndependent, NothingWaits, FrameInv

(* However a recorder's stream is cut, what the signalling server takes    *)
(* from it is a prefix of the frames sent, and no byte is lost or taken    *)
(* twice (onMdvrMessage).                                                  *)
THEOREM CutIndependentAlways == Mdvr!Spec => []CutIndependent
<1>1. Mdvr!Init => FrameInv
  BY FrameInit
<1>2. FrameInv /\ [Mdvr!Next]_Mdvr!vars => FrameInv'
  BY FrameInductive
<1>3. FrameInv => CutIndependent
  BY FramesCut
<1> QED BY <1>1, <1>2, <1>3, PTL DEF Mdvr!Spec

(* No whole command waits in the buffer for bytes that follow it           *)
(* (onMdvrMessage's loop).                                                 *)
THEOREM NothingWaitsAlways == Mdvr!Spec => []NothingWaits
<1>1. Mdvr!Init => FrameInv
  BY FrameInit
<1>2. FrameInv /\ [Mdvr!Next]_Mdvr!vars => FrameInv'
  BY FrameInductive
<1>3. FrameInv => NothingWaits
  BY FramesCut
<1> QED BY <1>1, <1>2, <1>3, PTL DEF Mdvr!Spec

(* The least number of a set, as SelectInSeq takes it.                     *)
LEMMA LeastIs ==
  ASSUME NEW I, I \subseteq Nat, I # {}
  PROVE  \E n \in I : n = GpsFile!Min(I) /\ \A y \in I : n <= y
<1>1. \E n \in I : \A y \in I : n <= y
  BY LeastNumber
<1>2. GpsFile!Min(I) = CHOOSE x \in I : \A y \in I : x <= y
  BY DEF GpsFile!Min
<1> QED BY <1>1, <1>2

-----------------------------------------------------------------------------
(* What is published of a read.                                            *)
NoNul(b) == \A i \in 1 .. Len(b) : ~ GpsFile!IsNul(b[i])
NulAt(b, n) == n \in 1 .. Len(b) /\ GpsFile!IsNul(b[n]) /\ \A j \in 1 .. n - 1 : ~ GpsFile!IsNul(b[j])

LEMMA PublishableIs ==
  ASSUME NEW S, NEW b \in Seq(S)
  PROVE  \/ NoNul(b) /\ GpsFile!Publishable(b) = b
         \/ \E n \in 1 .. Len(b) : NulAt(b, n) /\ GpsFile!Publishable(b) = SubSeq(b, 1, n - 1)
<1>0. Len(b) \in Nat
  OBVIOUS
<1>1. PICK I : I = {i \in 1 .. Len(b) : GpsFile!IsNul(b[i])}
  OBVIOUS
<1>2. GpsFile!SelectInSeq(b, GpsFile!IsNul) = IF I # {} THEN GpsFile!Min(I) ELSE 0
  BY <1>1 DEF GpsFile!SelectInSeq
<1>3. CASE I = {}
  <2>1. NoNul(b)
    BY <1>1, <1>3 DEF NoNul
  <2>2. GpsFile!Publishable(b) = b
    BY <1>2, <1>3 DEF GpsFile!Publishable
  <2> QED BY <2>1, <2>2
<1>4. CASE I # {}
  <2>1. I \subseteq Nat
    BY <1>1
  <2>2. PICK n \in I : n = GpsFile!Min(I) /\ \A y \in I : n <= y
    BY <1>4, <2>1, LeastIs
  <2>3. n \in 1 .. Len(b) /\ GpsFile!IsNul(b[n]) /\ n # 0
    BY <1>1
  <2>4. ASSUME NEW j \in 1 .. n - 1 PROVE ~ GpsFile!IsNul(b[j])
    <3>1. j \in 1 .. Len(b) /\ ~(n <= j)
      BY <1>0, <2>3
    <3> QED BY <1>1, <2>2, <3>1
  <2>5. GpsFile!Publishable(b) = SubSeq(b, 1, n - 1)
    BY <1>2, <1>4, <2>2, <2>3 DEF GpsFile!Publishable
  <2> QED BY <2>3, <2>4, <2>5 DEF NulAt
<1> QED BY <1>3, <1>4

LEMMA NulOnce ==
  ASSUME NEW b, NEW n, NEW m, NulAt(b, n), NulAt(b, m), Len(b) \in Nat
  PROVE  n = m
<1>1. n \in Nat /\ m \in Nat /\ n >= 1 /\ m >= 1
  BY DEF NulAt
<1>2. n < m => n \in 1 .. m - 1
  BY <1>1
<1>3. m < n => m \in 1 .. n - 1
  BY <1>1
<1>4. ~(n < m) /\ ~(m < n)
  BY <1>2, <1>3 DEF NulAt
<1> QED BY <1>1, <1>4

(* The first part of a sequence goes on to be that of a longer one.        *)
LEMMA PartOfLonger ==
  ASSUME NEW S, NEW a \in Seq(S), NEW b \in Seq(S), NEW n \in 0 .. Len(a)
  PROVE  SubSeq(a \o b, 1, n) = SubSeq(a, 1, n)
<1>1. CASE n = 0
  <2>1. SubSeq(a \o b, 1, 0) = <<>> /\ SubSeq(a, 1, 0) = <<>>
    BY SubSeqEmpty
  <2> QED BY <1>1, <2>1
<1>2. CASE n # 0
  <2>1. 1 \in 1 .. Len(a) /\ n \in 1 .. Len(a)
    BY <1>2
  <2> QED BY <2>1, SubSeqOfConcat1
<1> QED BY <1>1, <1>2

LEMMA PartBeyond ==
  ASSUME NEW S, NEW a \in Seq(S), NEW b \in Seq(S), NEW n \in 0 .. Len(b)
  PROVE  SubSeq(a \o b, 1, Len(a) + n) = a \o SubSeq(b, 1, n)
<1>1. PICK x \in Seq(S), y \in Seq(S) : x = SubSeq(b, 1, n) /\ y = SubSeq(b, n + 1, Len(b)) /\ x \o y = b /\ Len(x) = n
  <2>1. /\ SubSeq(b, 1, n) \in Seq(S) /\ SubSeq(b, n + 1, Len(b)) \in Seq(S) /\ Len(SubSeq(b, 1, n)) = n
        /\ SubSeq(b, 1, n) \o SubSeq(b, n + 1, Len(b)) = b
    BY CutInTwo
  <2> QED BY <2>1
<1>2. Regrouped(S, a, x, y)
  BY Regroup
<1>3. PICK z \in Seq(S) : z = a \o x /\ Len(z) = Len(a) + n /\ z \o y = a \o b
  <2>1. Len(a \o x) = Len(a) + Len(x)
    OBVIOUS
  <2> QED BY <1>1, <1>2, <2>1 DEF Regrouped
<1>4. SubSeq(z \o y, 1, Len(z)) = SubSeq(z, 1, Len(z))
  <2>1. Len(z) \in 0 .. Len(z)
    OBVIOUS
  <2> QED BY <2>1, PartOfLonger
<1>5. SubSeq(z, 1, Len(z)) = z
  BY SubSeqFull
<1> QED BY <1>1, <1>3, <1>4, <1>5

LEMMA PublishableOfTwo ==
  ASSUME NEW S, NEW a \in Seq(S), NEW b \in Seq(S)
  PROVE  /\ GpsFile!Publishable(b) \in Seq(S)
         /\ \/ GpsFile!Publishable(a) = a /\ GpsFile!Publishable(a \o b) = a \o GpsFile!Publishable(b)
            \/ GpsFile!Publishable(a \o b) = GpsFile!Publishable(a) /\ GpsFile!Publishable(a \o b) # a \o b
<1>0. /\ a \o b \in Seq(S) /\ Len(a \o b) = Len(a) + Len(b) /\ Len(a) \in Nat /\ Len(b) \in Nat
      /\ \A i \in 1 .. Len(a) : (a \o b)[i] = a[i]
      /\ \A i \in 1 .. Len(b) : (a \o b)[Len(a) + i] = b[i]
  BY JoinParts
<1>1. PICK w \in Seq(S) : /\ w = a \o b /\ Len(w) = Len(a) + Len(b)
                          /\ \A i \in 1 .. Len(a) : w[i] = a[i]
                          /\ \A i \in 1 .. Len(b) : w[Len(a) + i] = b[i]
  BY <1>0
<1>2. GpsFile!Publishable(b) \in Seq(S)
  <2>1. CASE GpsFile!Publishable(b) = b
    BY <2>1
  <2>2. ASSUME NEW n \in 1 .. Len(b), GpsFile!Publishable(b) = SubSeq(b, 1, n - 1) PROVE GpsFile!Publishable(b) \in Seq(S)
    <3>1. n - 1 \in 0 .. Len(b)
      OBVIOUS
    <3> QED BY <2>2, <3>1, CutInTwo
  <2> QED BY <2>1, <2>2, PublishableIs
<1>3. ASSUME NEW n \in 1 .. Len(a), NulAt(a, n), GpsFile!Publishable(a) = SubSeq(a, 1, n - 1)
      PROVE  GpsFile!Publishable(w) = GpsFile!Publishable(a) /\ GpsFile!Publishable(w) # w
  <2>1. NulAt(w, n)
    <3>1. n \in 1 .. Len(w) /\ \A j \in 1 .. n - 1 : j \in 1 .. Len(a)
      BY <1>0, <1>1
    <3> QED BY <1>1, <1>3, <3>1 DEF NulAt
  <2>2. ~ NoNul(w)
    BY <2>1 DEF NulAt, NoNul
  <2>3. PICK m \in 1 .. Len(w) : NulAt(w, m) /\ GpsFile!Publishable(w) = SubSeq(w, 1, m - 1)
    BY <2>2, PublishableIs
  <2>4. m = n
    BY <2>1, <2>3, NulOnce
  <2>5. n - 1 \in 0 .. Len(a) /\ n - 1 \in 0 .. Len(w)
    BY <1>0, <1>1
  <2>6. SubSeq(w, 1, n - 1) = SubSeq(a, 1, n - 1)
    BY <1>1, <2>5, PartOfLonger
  <2>7. Len(SubSeq(w, 1, n - 1)) = n - 1 /\ n - 1 # Len(w)
    <3>1. Len(SubSeq(w, 1, n - 1)) = n - 1
      BY <2>5, CutInTwo
    <3> QED BY <1>0, <1>1, <3>1
  <2> QED BY <1>3, <2>3, <2>4, <2>6, <2>7
<1>4. ASSUME NoNul(a), NoNul(b), GpsFile!Publishable(b) = b PROVE GpsFile!Publishable(w) = a \o GpsFile!Publishable(b)
  <2>1. ASSUME NEW i \in 1 .. Len(w) PROVE ~ GpsFile!IsNul(w[i])
    <3>1. CASE i \in 1 .. Len(a)
      BY <1>1, <1>4, <3>1 DEF NoNul
    <3>2. CASE i \notin 1 .. Len(a)
      <4>1. PICK j \in 1 .. Len(b) : i = Len(a) + j
        <5>1. i - Len(a) \in 1 .. Len(b) /\ i = Len(a) + (i - Len(a))
          BY <1>0, <1>1, <3>2
        <5> QED BY <5>1
      <4> QED BY <1>1, <1>4, <4>1 DEF NoNul
    <3> QED BY <3>1, <3>2
  <2>2. NoNul(w)
    BY <2>1 DEF NoNul
  <2>3. ~ \E n : NulAt(w, n)
    BY <2>2 DEF NulAt, NoNul
  <2>4. GpsFile!Publishable(w) = w
    BY <2>3, PublishableIs
  <2> QED BY <1>1, <1>4, <2>4
<1>5. ASSUME NoNul(a), NEW m \in 1 .. Len(b), NulAt(b, m), GpsFile!Publishable(b) = SubSeq(b, 1, m - 1)
      PROVE  GpsFile!Publishable(w) = a \o GpsFile!Publishable(b)
  <2>1. ASSUME NEW i \in 1 .. (Len(a) + m) - 1 PROVE ~ GpsFile!IsNul(w[i])
    <3>1. CASE i \in 1 .. Len(a)
      BY <1>1, <1>5, <3>1 DEF NoNul
    <3>2. CASE i \notin 1 .. Len(a)
      <4>1. PICK j \in 1 .. m - 1 : i = Len(a) + j
        <5>1. i - Len(a) \in 1 .. m - 1 /\ i = Len(a) + (i - Len(a))
          BY <1>0, <3>2
        <5> QED BY <5>1
      <4>2. j \in 1 .. Len(b)
        BY <1>0
      <4> QED BY <1>1, <1>5, <4>1, <4>2 DEF NulAt
    <3> QED BY <3>1, <3>2
  <2>2. NulAt(w, Len(a) + m)
    <3>1. Len(a) + m \in 1 .. Len(w)
      BY <1>0, <1>1
    <3> QED BY <1>1, <1>5, <2>1, <3>1 DEF NulAt
  <2>3. ~ NoNul(w)
    BY <2>2 DEF NulAt, NoNul
  <2>4. PICK n \in 1 .. Len(w) : NulAt(w, n) /\ GpsFile!Publishable(w) = SubSeq(w, 1, n - 1)
    BY <2>3, PublishableIs
  <2>5. n = Len(a) + m
    BY <2>2, <2>4, NulOnce
  <2>6. n - 1 = Len(a) + (m - 1) /\ m - 1 \in 0 .. Len(b)
    BY <1>0, <2>5
  <2>7. SubSeq(a \o b, 1, Len(a) + (m - 1)) = a \o SubSeq(b, 1, m - 1)
    BY <2>6, PartBeyond
  <2> QED BY <1>1, <1>5, <2>4, <2>6, <2>7
<1>6. CASE NoNul(a) /\ GpsFile!Publishable(a) = a
  <2>1. GpsFile!Publishable(w) = a \o GpsFile!Publishable(b)
    BY <1>4, <1>5, <1>6, PublishableIs
  <2> QED BY <1>1, <1>2, <1>6, <2>1
<1>7. CASE \E n \in 1 .. Len(a) : NulAt(a, n) /\ GpsFile!Publishable(a) = SubSeq(a, 1, n - 1)
  BY <1>1, <1>2, <1>3, <1>7
<1> QED BY <1>6, <1>7, PublishableIs
-----------------------------------------------------------------------------
(* The file server's frames.                                               *)
LEMMA FileFrames ==
  /\ GpsFile!Kinds = {"V4", "malformed", "data", "binary", "alike"}
  /\ GpsFile!Length \in [GpsFile!Kinds -> Nat]
  /\ GpsFile!Length["V4"] = 6 /\ GpsFile!Length["malformed"] = 6
  /\ GpsFile!Length["data"] = 5 /\ GpsFile!Length["binary"] = 5 /\ GpsFile!Length["alike"] = 6
  /\ GpsFile!Commands = {"V4", "malformed"}
  /\ GpsFile!FileKinds = {"data", "binary", "alike"}
  /\ GpsFile!HeaderLen = 4
<1>1. GpsFile!HeaderLen = 4
  BY DEF GpsFile!Header, GpsFile!HeaderLen
<1>2. GpsFile!Kinds = {"V4", "malformed", "data", "binary", "alike"}
  BY DEF GpsFile!Kinds, GpsFile!Text
<1>3. /\ Len(GpsFile!Text["V4"]) = 6 /\ Len(GpsFile!Text["malformed"]) = 6 /\ Len(GpsFile!Text["data"]) = 5
      /\ Len(GpsFile!Text["binary"]) = 5 /\ Len(GpsFile!Text["alike"]) = 6
  BY DEF GpsFile!Text
<1>4. ASSUME NEW k \in GpsFile!Kinds PROVE GpsFile!Length[k] = Len(GpsFile!Text[k])
  BY DEF GpsFile!Length
<1>5. /\ GpsFile!Length["V4"] = 6 /\ GpsFile!Length["malformed"] = 6
      /\ GpsFile!Length["data"] = 5 /\ GpsFile!Length["binary"] = 5 /\ GpsFile!Length["alike"] = 6
  BY <1>2, <1>3, <1>4
<1>6. \A k \in GpsFile!Kinds : GpsFile!Length[k] \in Nat
  BY <1>2, <1>5
<1>7. GpsFile!Length \in [GpsFile!Kinds -> Nat]
  <2>1. GpsFile!Length = [k \in GpsFile!Kinds |-> GpsFile!Length[k]]
    BY DEF GpsFile!Length
  <2> QED BY <1>6, <2>1
<1> QED BY <1>1, <1>2, <1>5, <1>7 DEF GpsFile!Commands, GpsFile!FileKinds

(* What the handler sees of a V4, and where a file's bytes can look like   *)
(* the header of one.                                                      *)
LEMMA CharsOfV4 ==
  /\ \A i \in 1 .. 4 : GpsFile!Char(<<"V4", i>>) = GpsFile!Header[i]
  /\ \A i \in 1 .. 6 : GpsFile!IsEnd(<<"V4", i>>) <=> i = 6
<1>1. GpsFile!Text["V4"] = <<"9", "9", "d", "c", "fields", "#">>
  BY DEF GpsFile!Text
<1>2. ASSUME NEW i \in 1 .. 6 PROVE GpsFile!Char(<<"V4", i>>) = <<"9", "9", "d", "c", "fields", "#">>[i]
  BY <1>1 DEF GpsFile!Char
<1>3. ASSUME NEW i \in 1 .. 4 PROVE GpsFile!Char(<<"V4", i>>) = GpsFile!Header[i]
  <2>1. i = 1 \/ i = 2 \/ i = 3 \/ i = 4
    OBVIOUS
  <2> QED BY <1>2, <2>1 DEF GpsFile!Header
<1>4. ASSUME NEW i \in 1 .. 6 PROVE GpsFile!IsEnd(<<"V4", i>>) <=> i = 6
  <2>1. i = 1 \/ i = 2 \/ i = 3 \/ i = 4 \/ i = 5 \/ i = 6
    OBVIOUS
  <2> QED BY <1>2, <2>1 DEF GpsFile!IsEnd
<1> QED BY <1>3, <1>4

LEMMA PlainCharsAreNoHeader ==
  ASSUME NEW k \in {"data", "binary"}, NEW i \in 1 .. 5
  PROVE  GpsFile!Char(<<k, i>>) # "9"
<1>1. /\ GpsFile!Text["data"] = <<"byte", "byte", "byte", "byte", "byte">>
      /\ GpsFile!Text["binary"] = <<"byte", "NUL", "byte", "byte", "byte">>
  BY DEF GpsFile!Text
<1>2. i = 1 \/ i = 2 \/ i = 3 \/ i = 4 \/ i = 5
  OBVIOUS
<1>3. GpsFile!Text["data"][i] # "9" /\ GpsFile!Text["binary"][i] # "9"
  BY <1>1, <1>2
<1> QED BY <1>3 DEF GpsFile!Char

LEMMA FileBytes ==
  ASSUME NEW s
  PROVE  GpsFile!Bytes(s) = Joined(GpsFile!Length, s)
BY DEF GpsFile!Bytes, GpsFile!Frame, GpsFile!FlattenSeq, Joined, FrameOf, FlattenSeq

(* A stream of the kind the property is about: a V4, then a file.          *)
Uploads == file[1] = "V4" /\ \A i \in 2 .. Len(file) : file[i] \in GpsFile!FileKinds

(* The kinds of the file's blocks, and the bytes of such blocks.           *)
Blocks == {file[i] : i \in 2 .. Len(file)}
BlockBytes == {b \in BytesOf(Blocks) : b[2] \in 1 .. GpsFile!Length[b[1]]}

LEMMA BlocksAreBytes ==
  ASSUME NEW s \in Seq(Blocks), Blocks \subseteq GpsFile!Kinds
  PROVE  Joined(GpsFile!Length, s) \in Seq(BlockBytes)
<1> DEFINE F == [i \in 1 .. Len(s) |-> FrameOf(GpsFile!Length, s[i])]
<1>1. ASSUME NEW k \in Blocks PROVE FrameOf(GpsFile!Length, k) \in Seq(BlockBytes)
  <2>1. GpsFile!Length[k] \in Nat
    BY <1>1, FileFrames
  <2>2. PICK n \in Nat : n = GpsFile!Length[k]
    BY <2>1
  <2>3. ASSUME NEW i \in 1 .. n PROVE <<k, i>> \in BlockBytes
    <3>1. i \in Nat
      BY <2>2
    <3> QED BY <1>1, <2>2, <3>1 DEF BlockBytes, BytesOf
  <2>4. [i \in 1 .. n |-> <<k, i>>] \in [1 .. n -> BlockBytes]
    BY <2>3
  <2>5. [i \in 1 .. n |-> <<k, i>>] \in Seq(BlockBytes)
    BY <2>2, <2>4, IsSequence
  <2> QED BY <2>2, <2>5 DEF FrameOf
<1>2. F \in [1 .. Len(s) -> Seq(BlockBytes)] /\ Len(s) \in Nat
  <2>1. ASSUME NEW i \in 1 .. Len(s) PROVE FrameOf(GpsFile!Length, s[i]) \in Seq(BlockBytes)
    <3>1. s[i] \in Blocks
      OBVIOUS
    <3> QED BY <1>1, <3>1
  <2> QED BY <2>1
<1> HIDE DEF F
<1>3. F \in Seq(Seq(BlockBytes))
  BY <1>2, IsSequence
<1>4. FlattenSeq(F) \in Seq(BlockBytes)
  BY <1>3, FlattenType
<1> QED BY <1>4 DEF Joined, F

LEMMA TailIsFile ==
  ASSUME file \in Seq(GpsFile!Kinds), Len(file) >= 1, Uploads
  PROVE  /\ Tail(file) \in Seq(GpsFile!Kinds)
         /\ file = <<"V4">> \o Tail(file)
         /\ Joined(GpsFile!Length, Tail(file)) \in Seq(BlockBytes)
<1>1. file # <<>> /\ Len(file) \in Nat
  OBVIOUS
<1>2. /\ Tail(file) \in Seq(GpsFile!Kinds) /\ Len(Tail(file)) = Len(file) - 1
      /\ \A i \in 1 .. Len(Tail(file)) : Tail(file)[i] = file[i + 1]
      /\ Head(file) = file[1] /\ file = <<Head(file)>> \o Tail(file)
  <2>1. /\ Tail(file) \in Seq(GpsFile!Kinds) /\ Len(Tail(file)) = Len(file) - 1
        /\ \A i \in 1 .. Len(Tail(file)) : Tail(file)[i] = file[i + 1]
    BY <1>1, HeadTailProperties
  <2>2. Head(file) = file[1] /\ file = <<Head(file)>> \o Tail(file)
    BY <1>1
  <2> QED BY <2>1, <2>2
<1>3. PICK t : t = Tail(file)
  OBVIOUS
<1>4. ASSUME NEW i \in 1 .. Len(t) PROVE t[i] \in Blocks
  <2>1. i + 1 \in 2 .. Len(file)
    BY <1>1, <1>2, <1>3
  <2> QED BY <1>2, <1>3, <2>1 DEF Blocks
<1>5. t \in [1 .. Len(t) -> Blocks] /\ Len(t) \in Nat
  <2>1. t \in Seq(GpsFile!Kinds)
    BY <1>2, <1>3
  <2>2. t = [i \in 1 .. Len(t) |-> t[i]] /\ Len(t) \in Nat
    BY <2>1
  <2> QED BY <1>4, <2>2
<1>6. t \in Seq(Blocks)
  BY <1>5, IsSequence
<1>7. Blocks \subseteq GpsFile!Kinds
  BY FileFrames DEF Uploads, Blocks
<1> QED BY <1>2, <1>3, <1>6, <1>7, BlocksAreBytes DEF Uploads

(* The two parts of a sequence of S are sequences of S.                    *)
LEMMA PartsAreIn ==
  ASSUME NEW S, NEW T, NEW a \in Seq(T), NEW b \in Seq(T), a \o b \in Seq(S)
  PROVE  a \in Seq(S) /\ b \in Seq(S)
<1>1. PICK w \in Seq(S) : /\ w = a \o b /\ Len(w) = Len(a) + Len(b)
                          /\ \A i \in 1 .. Len(a) : w[i] = a[i]
                          /\ \A i \in 1 .. Len(b) : w[Len(a) + i] = b[i]
  <2>1. /\ Len(a \o b) = Len(a) + Len(b)
        /\ \A i \in 1 .. Len(a) : (a \o b)[i] = a[i]
        /\ \A i \in 1 .. Len(b) : (a \o b)[Len(a) + i] = b[i]
    BY JoinParts
  <2> QED BY <2>1
<1>2. Len(a) \in Nat /\ Len(b) \in Nat
  OBVIOUS
<1>3. ASSUME NEW i \in 1 .. Len(a) PROVE a[i] \in S
  <2>1. i \in 1 .. Len(w)
    BY <1>1, <1>2
  <2> QED BY <1>1, <2>1
<1>4. ASSUME NEW i \in 1 .. Len(b) PROVE b[i] \in S
  <2>1. Len(a) + i \in 1 .. Len(w)
    BY <1>1, <1>2
  <2>2. w[Len(a) + i] \in S
    BY <2>1
  <2> QED BY <1>1, <2>2
<1>5. a = [i \in 1 .. Len(a) |-> a[i]] /\ b = [i \in 1 .. Len(b) |-> b[i]]
  OBVIOUS
<1>6. a \in [1 .. Len(a) -> S] /\ b \in [1 .. Len(b) -> S]
  BY <1>3, <1>4, <1>5
<1> QED BY <1>2, <1>6, IsSequence

(* Bytes of a file are no V4's; they are taken for one only where the file *)
(* reads 99dc.                                                             *)
LEMMA FileReadsAlike ==
  ASSUME Uploads, NEW bytes \in Seq(BlockBytes), GpsFile!IsCommand(bytes)
  PROVE  /\ bytes[1][1] \in GpsFile!FileKinds
         /\ \E i \in 2 .. Len(file) : file[i] = "alike"
<1>1. Len(bytes) >= 4 /\ GpsFile!Char(bytes[1]) = "9"
  <2>1. 1 \in 1 .. 4 /\ GpsFile!Header[1] = "9" /\ GpsFile!HeaderLen = 4
    BY FileFrames DEF GpsFile!Header
  <2> QED BY <2>1 DEF GpsFile!IsCommand
<1>2. bytes[1] \in BlockBytes
  <2>1. 1 \in 1 .. Len(bytes)
    BY <1>1
  <2> QED BY <2>1
<1>3. PICK k \in Blocks, n \in Nat : bytes[1] = <<k, n>> /\ n \in 1 .. GpsFile!Length[k]
  BY <1>2 DEF BlockBytes, BytesOf
<1>4. PICK i \in 2 .. Len(file) : k = file[i]
  BY DEF Blocks
<1>5. k \in {"data", "binary", "alike"}
  BY <1>4, FileFrames DEF Uploads
<1>6. k = "alike"
  <2> SUFFICES ASSUME k \in {"data", "binary"} PROVE FALSE
    BY <1>5
  <2>1. n \in 1 .. 5
    BY <1>3, FileFrames
  <2>2. GpsFile!Char(<<k, n>>) # "9"
    BY <2>1, PlainCharsAreNoHeader
  <2> QED BY <1>1, <1>3, <2>2
<1>7. bytes[1][1] = "alike" /\ file[i] = "alike"
  BY <1>3, <1>4, <1>6
<1>8. "alike" \in GpsFile!FileKinds
  BY FileFrames
<1> QED BY <1>7, <1>8

-----------------------------------------------------------------------------
(* Of the bytes taken for data, what stands before the first NUL has been  *)
(* published, and everything when there is none.                           *)
Published(taken, all_) ==
  /\ IsPrefix(GpsFile!Publishable(taken), all_)
  /\ GpsFile!Publishable(taken) = taken => all_ = taken

(* What was published begins the file, as long as it has no NUL.           *)
Begins(taken, published_) == GpsFile!Publishable(taken) = taken => IsPrefix(published_, taken)

(* The bytes that are still to come follow those that were taken.          *)
Uploading(taken, b, later, context_, published_, worker_) ==
  /\ taken \o (b \o later) = Joined(GpsFile!Length, Tail(file))
  /\ context_ = "held" => Published(taken, published_) /\ (worker_ /\ published_ # <<>> => b = <<>>)
  /\ Begins(taken, published_)

(* An upload none of whose bytes were taken for a command.                 *)
Undisturbed(b, later, context_, published_, worker_) ==
  /\ b \in Seq(BytesOf(GpsFile!Kinds)) /\ later \in Seq(BytesOf(GpsFile!Kinds))
  /\ published_ \in Seq(BytesOf(GpsFile!Kinds))
  /\ worker_ \/ Len(b) < 4
  /\ context_ # "other"
  /\ context_ = "none" => published_ = <<>> /\ b \o later = Joined(GpsFile!Length, file)
  /\ context_ # "none" => \E taken \in Seq(BytesOf(GpsFile!Kinds)) :
                            Uploading(taken, b, later, context_, published_, worker_)

Alike == \E i \in 2 .. Len(file) : file[i] = "alike"

UploadInv ==
  /\ file \in Seq(GpsFile!Kinds) /\ Len(file) >= 1
  /\ fileContext \in {"none", "held", "lost", "other"}
  /\ Uploads /\ misread => Alike
  /\ Uploads /\ ~misread => Undisturbed(fileBuf, fileIncoming, fileContext, filePublished, fileWorker)

LEMMA PrefixLonger ==
  ASSUME NEW S, NEW p \in Seq(S), NEW q \in Seq(S), NEW r \in Seq(S), IsPrefix(p, q)
  PROVE  IsPrefix(p, q \o r)
<1>1. Len(q \o r) = Len(q) + Len(r) /\ Len(q) \in Nat /\ Len(r) \in Nat /\ Len(p) \in Nat /\ Len(p) <= Len(q)
  BY DEF IsPrefix
<1>2. Len(p) \in 0 .. Len(q) /\ Len(p) <= Len(q \o r)
  BY <1>1
<1>3. SubSeq(q \o r, 1, Len(p)) = SubSeq(q, 1, Len(p))
  BY <1>2, PartOfLonger
<1> QED BY <1>2, <1>3 DEF IsPrefix

(* Another read is published.                                              *)
LEMMA PublishedMore ==
  ASSUME NEW S, NEW t \in Seq(S), NEW p \in Seq(S), NEW b \in Seq(S), Published(t, p)
  PROVE  Published(t \o b, p \o GpsFile!Publishable(b))
<1>1. GpsFile!Publishable(b) \in Seq(S) /\ GpsFile!Publishable(t) \in Seq(S)
  BY PublishableOfTwo
<1>2. CASE GpsFile!Publishable(t) = t /\ GpsFile!Publishable(t \o b) = t \o GpsFile!Publishable(b)
  <2>1. p = t
    BY <1>2 DEF Published
  <2>2. PICK q \in Seq(S) : q = t \o GpsFile!Publishable(b)
    <3>1. PICK r \in Seq(S) : r = GpsFile!Publishable(b)
      BY <1>1
    <3>2. t \o r \in Seq(S)
      OBVIOUS
    <3> QED BY <3>1, <3>2
  <2>3. IsPrefix(q, q)
    <3>1. Len(q) \in Nat
      OBVIOUS
    <3> QED BY <3>1 DEF IsPrefix
  <2> QED BY <1>2, <2>1, <2>2, <2>3 DEF Published
<1>3. CASE GpsFile!Publishable(t \o b) = GpsFile!Publishable(t) /\ GpsFile!Publishable(t \o b) # t \o b
  <2>1. PICK q \in Seq(S) : q = GpsFile!Publishable(t) /\ IsPrefix(q, p)
    BY <1>1 DEF Published
  <2>2. PICK r \in Seq(S) : r = GpsFile!Publishable(b)
    BY <1>1
  <2>3. IsPrefix(q, p \o r)
    BY <2>1, PrefixLonger
  <2> QED BY <1>3, <2>1, <2>2, <2>3 DEF Published
<1> QED BY <1>2, <1>3, PublishableOfTwo

LEMMA ReadIs ==
  ASSUME NEW bytes, GpsFile!Read(bytes),
         fileBuf \in Seq(BytesOf(GpsFile!Kinds)), fileIncoming \in Seq(BytesOf(GpsFile!Kinds))
  PROVE  /\ bytes \in Seq(BytesOf(GpsFile!Kinds)) /\ fileIncoming' \in Seq(BytesOf(GpsFile!Kinds))
         /\ bytes \o fileIncoming' = fileBuf \o fileIncoming
         /\ Len(bytes) \in Nat /\ Len(bytes) >= 1
<1>1. PICK n \in 1 .. Len(fileIncoming) : /\ bytes = fileBuf \o SubSeq(fileIncoming, 1, n)
                                          /\ fileIncoming' = SubSeq(fileIncoming, n + 1, Len(fileIncoming))
  BY DEF GpsFile!Read
<1>2. /\ fileBuf \o SubSeq(fileIncoming, 1, n) \in Seq(BytesOf(GpsFile!Kinds))
      /\ SubSeq(fileIncoming, n + 1, Len(fileIncoming)) \in Seq(BytesOf(GpsFile!Kinds))
      /\ (fileBuf \o SubSeq(fileIncoming, 1, n)) \o SubSeq(fileIncoming, n + 1, Len(fileIncoming)) = fileBuf \o fileIncoming
  BY Delivered, ZenonT(30)
<1>3. Len(bytes) >= 1 /\ Len(bytes) \in Nat
  <2>1. n \in 0 .. Len(fileIncoming) /\ n >= 1
    OBVIOUS
  <2>2. PICK x \in Seq(BytesOf(GpsFile!Kinds)) : x = SubSeq(fileIncoming, 1, n) /\ Len(x) = n
    <3>1. SubSeq(fileIncoming, 1, n) \in Seq(BytesOf(GpsFile!Kinds)) /\ Len(SubSeq(fileIncoming, 1, n)) = n
      BY <2>1, CutInTwo
    <3> QED BY <3>1
  <2>3. Len(fileBuf \o x) = Len(fileBuf) + Len(x) /\ Len(fileBuf) \in Nat
    OBVIOUS
  <2> QED BY <1>1, <2>1, <2>2, <2>3
<1> QED BY <1>1, <1>2, <1>3

(* Until a V4 was taken, what is in the buffer begins with it.             *)
V4Taken(bytes, later) ==
  /\ Len(bytes) >= 4 => GpsFile!IsCommand(bytes)
  /\ bytes[1][1] = "V4"
  /\ Len(bytes) < 6 => GpsFile!End(bytes) = 0
  /\ Len(bytes) >= 6 => /\ GpsFile!End(bytes) = 6
                        /\ SubSeq(bytes, 7, Len(bytes)) \in Seq(BytesOf(GpsFile!Kinds))
                        /\ SubSeq(bytes, 7, Len(bytes)) \o later = Joined(GpsFile!Length, Tail(file))

LEMMA V4First ==
  ASSUME file \in Seq(GpsFile!Kinds), Len(file) >= 1, Uploads,
         NEW bytes \in Seq(BytesOf(GpsFile!Kinds)), NEW later \in Seq(BytesOf(GpsFile!Kinds)),
         bytes \o later = Joined(GpsFile!Length, file), Len(bytes) >= 1
  PROVE  V4Taken(bytes, later)
<1>1. Tail(file) \in Seq(GpsFile!Kinds) /\ file = <<"V4">> \o Tail(file)
  BY TailIsFile
<1>2. GpsFile!Length["V4"] = 6 /\ "V4" \in GpsFile!Kinds /\ "V4" \in GpsFile!Commands
      /\ GpsFile!Length \in [GpsFile!Kinds -> Nat] /\ Len(bytes) \in Nat
  BY FileFrames
<1>3. Joined(GpsFile!Length, file) = FrameOf(GpsFile!Length, "V4") \o Joined(GpsFile!Length, Tail(file))
  <2>1. PICK tail \in Seq(GpsFile!Kinds) : tail = Tail(file) /\ file = <<"V4">> \o tail
    BY <1>1
  <2>2. PICK L \in [GpsFile!Kinds -> Nat] : L = GpsFile!Length
    BY <1>2
  <2>3. Joined(L, <<"V4">> \o tail) = FrameOf(L, "V4") \o Joined(L, tail)
    BY <1>2, JoinedFirst
  <2> QED BY <2>1, <2>2, <2>3
<1>4. FirstTaken(GpsFile!Kinds, GpsFile!Length, "V4", Tail(file), bytes, later)
  BY <1>1, <1>2, <1>3, TakeFrame
<1>5. ASSUME NEW i \in 1 .. Len(bytes), i <= 6 PROVE bytes[i] = <<"V4", i>>
  BY <1>2, <1>4, <1>5 DEF FirstTaken
<1>6. bytes[1][1] = "V4"
  <2>1. 1 \in 1 .. Len(bytes) /\ 1 <= 6
    BY <1>2
  <2>2. bytes[1] = <<"V4", 1>>
    BY <1>5, <2>1
  <2> QED BY <2>2
<1>7. ASSUME Len(bytes) >= 4 PROVE GpsFile!IsCommand(bytes)
  <2>1. ASSUME NEW i \in 1 .. 4 PROVE GpsFile!Char(bytes[i]) = GpsFile!Header[i]
    <3>1. i \in 1 .. Len(bytes) /\ i <= 6
      BY <1>2, <1>7
    <3>2. bytes[i] = <<"V4", i>>
      BY <1>5, <3>1
    <3> QED BY <3>2, CharsOfV4
  <2> QED BY <1>7, <2>1, FileFrames DEF GpsFile!IsCommand
<1>8. PICK I : I = {i \in 1 .. Len(bytes) : GpsFile!IsEnd(bytes[i])}
  OBVIOUS
<1>9. GpsFile!End(bytes) = IF I # {} THEN GpsFile!Min(I) ELSE 0
  BY <1>8 DEF GpsFile!End, GpsFile!SelectInSeq
<1>10. ASSUME NEW i \in 1 .. Len(bytes), i <= 6 PROVE i \in I <=> i = 6
  <2>1. bytes[i] = <<"V4", i>> /\ i \in 1 .. 6
    BY <1>2, <1>5, <1>10
  <2> QED BY <1>8, <2>1, CharsOfV4
<1>11. ASSUME Len(bytes) < 6 PROVE GpsFile!End(bytes) = 0
  <2>1. ASSUME NEW i \in 1 .. Len(bytes) PROVE i # 6 /\ i <= 6
    BY <1>2, <1>11
  <2>2. I = {}
    BY <1>8, <1>10, <2>1
  <2> QED BY <1>9, <2>2
<1>12. ASSUME Len(bytes) >= 6 PROVE GpsFile!End(bytes) = 6
  <2>1. 6 \in 1 .. Len(bytes) /\ 6 <= 6
    BY <1>2, <1>12
  <2>2. 6 \in I /\ I \subseteq Nat /\ I # {}
    <3>1. 6 \in I
      BY <1>10, <2>1
    <3>2. I \subseteq 1 .. Len(bytes)
      BY ONLY <1>8
    <3>3. 1 .. Len(bytes) \subseteq Nat
      BY ONLY SMT
    <3> QED BY ONLY <3>1, <3>2, <3>3
  <2>3. PICK n \in I : n = GpsFile!Min(I) /\ \A y \in I : n <= y
    BY <2>2, LeastIs
  <2>4. n <= 6 /\ n \in 1 .. Len(bytes)
    BY <1>8, <2>2, <2>3
  <2>5. n = 6
    BY <1>10, <2>4
  <2> QED BY <1>9, <2>2, <2>3, <2>5
<1>13. ASSUME Len(bytes) >= 6
       PROVE  /\ SubSeq(bytes, 7, Len(bytes)) \in Seq(BytesOf(GpsFile!Kinds))
              /\ SubSeq(bytes, 7, Len(bytes)) \o later = Joined(GpsFile!Length, Tail(file))
  <2>1. GpsFile!Length["V4"] + 1 = 7 /\ Len(bytes) >= GpsFile!Length["V4"]
    BY <1>2, <1>13
  <2> QED BY <1>4, <2>1 DEF FirstTaken
<1> QED BY <1>6, <1>7, <1>11, <1>12, <1>13 DEF V4Taken

LEMMA UploadInit ==
  ASSUME GpsFile!Init
  PROVE  UploadInv
<1>1. file \in Seq(GpsFile!Kinds) /\ Len(file) >= 1
  <2>1. PICK n \in 1 .. MaxFrames : file \in [1 .. n -> GpsFile!Kinds]
    BY DEF GpsFile!Init
  <2>2. n \in Nat /\ n >= 1
    BY ServersAssumption DEF ServersAssumption
  <2>3. file \in Seq(GpsFile!Kinds) /\ Len(file) = n
    BY <2>1, <2>2, IsSequence
  <2> QED BY <2>2, <2>3
<1>2. fileBuf = <<>> /\ fileContext = "none" /\ filePublished = <<>>
  BY DEF GpsFile!Init
<1>3. fileIncoming = Joined(GpsFile!Length, file)
  BY FileBytes DEF GpsFile!Init
<1>4. fileIncoming \in Seq(BytesOf(GpsFile!Kinds))
  BY <1>1, <1>3, FileFrames, JoinedType
<1>5. fileBuf \o fileIncoming = Joined(GpsFile!Length, file) /\ fileBuf \in Seq(BytesOf(GpsFile!Kinds))
      /\ filePublished \in Seq(BytesOf(GpsFile!Kinds))
  BY <1>2, <1>3, <1>4
<1>6. fileWorker /\ ~misread
  BY Zenon DEF GpsFile!Init
<1>7. Undisturbed(fileBuf, fileIncoming, fileContext, filePublished, fileWorker)
  BY <1>2, <1>4, <1>5, <1>6 DEF Undisturbed
<1> QED BY <1>1, <1>2, <1>6, <1>7 DEF UploadInv

(* What a read finds: the V4 still, or bytes of the file.                  *)
LEMMA ReadFinds ==
  ASSUME UploadInv, Uploads, ~misread, NEW bytes, GpsFile!Read(bytes)
  PROVE  /\ bytes \in Seq(BytesOf(GpsFile!Kinds)) /\ fileIncoming' \in Seq(BytesOf(GpsFile!Kinds))
         /\ filePublished \in Seq(BytesOf(GpsFile!Kinds))
         /\ Len(bytes) \in Nat /\ fileContext # "other"
         /\ fileContext = "none" => /\ filePublished = <<>> /\ V4Taken(bytes, fileIncoming')
                                    /\ bytes \o fileIncoming' = Joined(GpsFile!Length, file)
         /\ fileContext # "none"
            => /\ bytes \in Seq(BlockBytes)
               /\ \E taken \in Seq(BytesOf(GpsFile!Kinds)) :
                    /\ taken \o (bytes \o fileIncoming') = Joined(GpsFile!Length, Tail(file))
                    /\ fileContext = "held" => Published(taken, filePublished)
                    /\ Begins(taken, filePublished)
<1>0. Undisturbed(fileBuf, fileIncoming, fileContext, filePublished, fileWorker)
  BY DEF UploadInv
<1>1. /\ file \in Seq(GpsFile!Kinds) /\ Len(file) >= 1
      /\ fileBuf \in Seq(BytesOf(GpsFile!Kinds)) /\ fileIncoming \in Seq(BytesOf(GpsFile!Kinds))
      /\ filePublished \in Seq(BytesOf(GpsFile!Kinds)) /\ fileContext # "other"
  BY <1>0 DEF UploadInv, Undisturbed
<1>2. /\ bytes \in Seq(BytesOf(GpsFile!Kinds)) /\ fileIncoming' \in Seq(BytesOf(GpsFile!Kinds))
      /\ bytes \o fileIncoming' = fileBuf \o fileIncoming
      /\ Len(bytes) \in Nat /\ Len(bytes) >= 1
  BY <1>1, ReadIs
<1>3. ASSUME fileContext = "none"
      PROVE  /\ filePublished = <<>> /\ V4Taken(bytes, fileIncoming')
             /\ bytes \o fileIncoming' = Joined(GpsFile!Length, file)
  <2>1. filePublished = <<>> /\ bytes \o fileIncoming' = Joined(GpsFile!Length, file)
    BY <1>0, <1>2, <1>3 DEF Undisturbed
  <2>2. PICK later \in Seq(BytesOf(GpsFile!Kinds)) : later = fileIncoming'
    BY <1>2
  <2>3. bytes \o later = Joined(GpsFile!Length, file)
    BY <2>1, <2>2
  <2>4. V4Taken(bytes, later)
    BY <1>1, <1>2, <2>3, V4First
  <2> QED BY <2>1, <2>2, <2>4
<1>4. ASSUME fileContext # "none"
      PROVE  /\ bytes \in Seq(BlockBytes)
             /\ \E taken \in Seq(BytesOf(GpsFile!Kinds)) :
                  /\ taken \o (bytes \o fileIncoming') = Joined(GpsFile!Length, Tail(file))
                  /\ fileContext = "held" => Published(taken, filePublished)
                  /\ Begins(taken, filePublished)
  <2>1. PICK taken \in Seq(BytesOf(GpsFile!Kinds)) :
          Uploading(taken, fileBuf, fileIncoming, fileContext, filePublished, fileWorker)
    BY <1>0, <1>4 DEF Undisturbed
  <2>2. /\ taken \o (bytes \o fileIncoming') = Joined(GpsFile!Length, Tail(file))
        /\ fileContext = "held" => Published(taken, filePublished)
        /\ Begins(taken, filePublished)
    BY <1>2, <2>1 DEF Uploading
  <2>3. Joined(GpsFile!Length, Tail(file)) \in Seq(BlockBytes)
    BY <1>1, TailIsFile
  <2>4. PICK later \in Seq(BytesOf(GpsFile!Kinds)) : later = fileIncoming'
    BY <1>2
  <2>5. PICK both \in Seq(BytesOf(GpsFile!Kinds)) : both = bytes \o later
    <3>1. bytes \o later \in Seq(BytesOf(GpsFile!Kinds))
      BY <1>2, JoinParts
    <3> QED BY <3>1
  <2>6. taken \o both \in Seq(BlockBytes)
    BY <2>2, <2>3, <2>4, <2>5
  <2>7. both \in Seq(BlockBytes)
    BY <2>6, PartsAreIn
  <2>8. bytes \in Seq(BlockBytes)
    BY <1>2, <2>5, <2>7, PartsAreIn
  <2> QED BY <2>2, <2>8
<1> QED BY <1>1, <1>2, <1>3, <1>4

(* The parts of the invariant that hold for every stream.                  *)
LEMMA UploadFrame ==
  ASSUME UploadInv, file' = file, fileContext' \in {"none", "held", "lost", "other"},
         Uploads /\ misread' => Alike,
         Uploads /\ ~misread' => Undisturbed(fileBuf', fileIncoming', fileContext', filePublished', fileWorker')
  PROVE  UploadInv'
<1>1. (Uploads' <=> Uploads) /\ (Alike' <=> Alike)
  BY DEF Uploads, Alike
<1>2. file' \in Seq(GpsFile!Kinds) /\ Len(file') >= 1
  BY DEF UploadInv
<1>3. ASSUME NEW taken,
             Uploading(taken, fileBuf', fileIncoming', fileContext', filePublished', fileWorker')
      PROVE  Uploading(taken, fileBuf, fileIncoming, fileContext, filePublished, fileWorker)'
  BY <1>3 DEF Uploading, Published, Begins
<1>4. Undisturbed(fileBuf', fileIncoming', fileContext', filePublished', fileWorker')
      => Undisturbed(fileBuf, fileIncoming, fileContext, filePublished, fileWorker)'
  BY <1>3 DEF Undisturbed
<1> QED BY <1>1, <1>2, <1>4 DEF UploadInv

(* Where nothing is taken for a command, the history stays.                *)
LEMMA UploadFrameData ==
  ASSUME UploadInv, file' = file, fileContext' \in {"none", "held", "lost", "other"}, misread' = misread,
         Uploads /\ ~misread => Undisturbed(fileBuf', fileIncoming', fileContext', filePublished', fileWorker')
  PROVE  UploadInv'
<1>1. misread' <=> misread
  OBVIOUS
<1>2. Uploads /\ misread' => Alike
  BY <1>1 DEF UploadInv
<1> QED BY <1>1, <1>2, UploadFrame

LEMMA UploadTooShort ==
  ASSUME UploadInv, NEW bytes, GpsFile!TooShort(bytes)
  PROVE  UploadInv'
<1>1. /\ file' = file /\ fileContext' = fileContext /\ filePublished' = filePublished
      /\ misread' = misread /\ fileBuf' = bytes /\ Len(bytes) < 4 /\ GpsFile!Read(bytes)
  BY FileFrames DEF GpsFile!TooShort, GpsFile!Read, GpsFile!Dies
<1>2. ~ fileWorker'
  BY Zenon DEF GpsFile!TooShort, GpsFile!Dies
<1>3. fileContext' \in {"none", "held", "lost", "other"}
  BY <1>1 DEF UploadInv
<1>4. ASSUME Uploads, ~misread
      PROVE  Undisturbed(fileBuf', fileIncoming', fileContext', filePublished', fileWorker')
  <2>1. /\ bytes \in Seq(BytesOf(GpsFile!Kinds)) /\ fileIncoming' \in Seq(BytesOf(GpsFile!Kinds))
        /\ filePublished \in Seq(BytesOf(GpsFile!Kinds)) /\ fileContext # "other"
        /\ fileContext = "none" => /\ filePublished = <<>>
                                   /\ bytes \o fileIncoming' = Joined(GpsFile!Length, file)
        /\ fileContext # "none"
           => \E taken \in Seq(BytesOf(GpsFile!Kinds)) :
                /\ taken \o (bytes \o fileIncoming') = Joined(GpsFile!Length, Tail(file))
                /\ fileContext = "held" => Published(taken, filePublished)
                /\ Begins(taken, filePublished)
    BY <1>1, <1>4, ReadFinds
  <2>2. ASSUME NEW taken, taken \o (bytes \o fileIncoming') = Joined(GpsFile!Length, Tail(file)),
               fileContext = "held" => Published(taken, filePublished), Begins(taken, filePublished)
        PROVE  Uploading(taken, fileBuf', fileIncoming', fileContext', filePublished', fileWorker')
    BY <1>1, <1>2, <2>2 DEF Uploading
  <2>3. fileContext # "none"
        => \E taken \in Seq(BytesOf(GpsFile!Kinds)) :
             Uploading(taken, fileBuf', fileIncoming', fileContext', filePublished', fileWorker')
    BY <2>1, <2>2
  <2> QED BY <1>1, <2>1, <2>3 DEF Undisturbed
<1> QED BY <1>1, <1>3, <1>4, UploadFrameData

(* What is taken for a command, or for the beginning of one.               *)
LEMMA CommandFinds ==
  ASSUME UploadInv, Uploads, NEW bytes, GpsFile!Read(bytes), GpsFile!IsCommand(bytes),
         misread' = (misread \/ bytes[1][1] \in GpsFile!FileKinds)
  PROVE  /\ misread' => Alike
         /\ ~misread' => /\ fileContext = "none" /\ ~misread
                         /\ V4Taken(bytes, fileIncoming')
<1>1. /\ misread => misread'
      /\ bytes[1][1] \in GpsFile!FileKinds => misread'
      /\ misread' => misread \/ bytes[1][1] \in GpsFile!FileKinds
  BY Zenon
<1>2. CASE misread
  BY <1>1, <1>2 DEF UploadInv
<1>3. CASE ~misread /\ fileContext = "none"
  <2>1. V4Taken(bytes, fileIncoming')
    BY <1>3, ReadFinds
  <2>2. bytes[1][1] \notin GpsFile!FileKinds
    BY <2>1, FileFrames DEF V4Taken
  <2> QED BY <1>1, <1>3, <2>1, <2>2
<1>4. CASE ~misread /\ fileContext # "none"
  <2>1. bytes \in Seq(BlockBytes)
    BY <1>4, ReadFinds
  <2>2. bytes[1][1] \in GpsFile!FileKinds /\ Alike
    BY <2>1, FileReadsAlike DEF Alike
  <2> QED BY <1>1, <2>2
<1> QED BY <1>2, <1>3, <1>4

LEMMA UploadRejected ==
  ASSUME UploadInv, NEW bytes, GpsFile!Rejected(bytes)
  PROVE  UploadInv'
<1>1. /\ file' = file /\ fileContext' = fileContext /\ GpsFile!Read(bytes) /\ GpsFile!IsCommand(bytes)
      /\ bytes[1][1] # "V4"
  BY DEF GpsFile!Rejected, GpsFile!Command, GpsFile!Read, GpsFile!Dies
<1>2. misread' = (misread \/ bytes[1][1] \in GpsFile!FileKinds)
  BY Zenon DEF GpsFile!Rejected, GpsFile!Command
<1>3. fileContext' \in {"none", "held", "lost", "other"}
  BY <1>1 DEF UploadInv
<1>4. Uploads /\ misread' => Alike
  BY <1>1, <1>2, CommandFinds
<1>5. ~ (Uploads /\ ~misread')
  BY <1>1, <1>2, CommandFinds DEF V4Taken
<1> QED BY <1>1, <1>3, <1>4, <1>5, UploadFrame

LEMMA UploadAnnounce ==
  ASSUME UploadInv, NEW bytes, GpsFile!Announce(bytes)
  PROVE  UploadInv'
<1>1. /\ file' = file /\ filePublished' = filePublished /\ GpsFile!Read(bytes)
      /\ GpsFile!IsCommand(bytes) /\ GpsFile!End(bytes) # 0
      /\ fileBuf' = SubSeq(bytes, GpsFile!End(bytes) + 1, Len(bytes))
      /\ fileContext' \in {"held", "other"}
      /\ bytes[1][1] = "V4" /\ fileContext # "other" => fileContext' = "held"
  BY DEF GpsFile!Announce, GpsFile!Command, GpsFile!Read, GpsFile!Bound
<1>2. misread' = (misread \/ bytes[1][1] \in GpsFile!FileKinds)
  BY Zenon DEF GpsFile!Announce, GpsFile!Command
<1>3. fileWorker'
  BY Zenon DEF GpsFile!Announce, GpsFile!Command, GpsFile!Read
<1>4. Uploads /\ misread' => Alike
  BY <1>1, <1>2, CommandFinds
<1>5. ASSUME Uploads, ~misread'
      PROVE  Undisturbed(fileBuf', fileIncoming', fileContext', filePublished', fileWorker')
  <2>1. fileContext = "none" /\ ~misread /\ V4Taken(bytes, fileIncoming')
    BY <1>1, <1>2, <1>5, CommandFinds
  <2>2. /\ bytes \in Seq(BytesOf(GpsFile!Kinds)) /\ fileIncoming' \in Seq(BytesOf(GpsFile!Kinds))
        /\ filePublished = <<>> /\ Len(bytes) \in Nat
    BY <1>1, <1>5, <2>1, ReadFinds
  <2>3. /\ GpsFile!End(bytes) = 6 /\ bytes[1][1] = "V4"
        /\ SubSeq(bytes, 7, Len(bytes)) \in Seq(BytesOf(GpsFile!Kinds))
        /\ SubSeq(bytes, 7, Len(bytes)) \o fileIncoming' = Joined(GpsFile!Length, Tail(file))
    <3>1. ~(Len(bytes) < 6) => Len(bytes) >= 6
      BY <2>2
    <3> QED BY <1>1, <2>1, <3>1 DEF V4Taken
  <2>4. fileBuf' = SubSeq(bytes, 7, Len(bytes)) /\ fileContext' = "held" /\ filePublished' = <<>>
    <3>1. 6 + 1 = 7
      OBVIOUS
    <3> QED BY <1>1, <2>1, <2>2, <2>3, <3>1
  <2>5. PICK u \in Seq(BytesOf(GpsFile!Kinds)) : u = fileBuf' \o fileIncoming'
    <3>1. PICK x \in Seq(BytesOf(GpsFile!Kinds)), y \in Seq(BytesOf(GpsFile!Kinds)) : x = fileBuf' /\ y = fileIncoming'
      BY <2>2, <2>3, <2>4
    <3>2. x \o y \in Seq(BytesOf(GpsFile!Kinds))
      BY JoinParts
    <3> QED BY <3>1, <3>2
  <2>6. <<>> \o u = Joined(GpsFile!Length, Tail(file))
    <3>1. <<>> \o u = u
      OBVIOUS
    <3> QED BY <2>3, <2>4, <2>5, <3>1
  <2>7. Published(<<>>, <<>>) /\ Begins(<<>>, <<>>)
    <3>1. Len(<<>>) = 0 /\ <<>> \in Seq(BytesOf(GpsFile!Kinds))
      OBVIOUS
    <3>2. GpsFile!Publishable(<<>>) = <<>>
      <4>1. ~ \E n \in 1 .. Len(<<>>) : TRUE
        BY <3>1
      <4> QED BY <3>1, <4>1, PublishableIs
    <3>3. IsPrefix(<<>>, <<>>)
      BY <3>1 DEF IsPrefix
    <3> QED BY <3>2, <3>3 DEF Published, Begins
  <2>8. Uploading(<<>>, fileBuf', fileIncoming', fileContext', filePublished', fileWorker')
    BY <2>4, <2>5, <2>6, <2>7 DEF Uploading
  <2>9. <<>> \in Seq(BytesOf(GpsFile!Kinds))
    OBVIOUS
  <2>10. \E taken \in Seq(BytesOf(GpsFile!Kinds)) :
           Uploading(taken, fileBuf', fileIncoming', fileContext', filePublished', fileWorker')
    BY <2>8, <2>9
  <2>11. fileBuf' \in Seq(BytesOf(GpsFile!Kinds)) /\ filePublished' \in Seq(BytesOf(GpsFile!Kinds))
    BY <2>3, <2>4, <2>9
  <2> QED BY <1>3, <2>2, <2>4, <2>10, <2>11 DEF Undisturbed
<1> QED BY <1>1, <1>4, <1>5, UploadFrame

LEMMA UploadPartial ==
  ASSUME UploadInv, NEW bytes, GpsFile!Partial(bytes)
  PROVE  UploadInv'
<1>1. /\ file' = file /\ filePublished' = filePublished /\ fileContext' = fileContext /\ GpsFile!Read(bytes)
      /\ GpsFile!IsCommand(bytes) /\ fileBuf' = bytes
  BY DEF GpsFile!Partial, GpsFile!Read
<1>2. misread' = (misread \/ bytes[1][1] \in GpsFile!FileKinds)
  BY Zenon DEF GpsFile!Partial
<1>3. fileWorker'
  BY Zenon DEF GpsFile!Partial, GpsFile!Read
<1>4. Uploads /\ misread' => Alike
  BY <1>1, <1>2, CommandFinds
<1>5. fileContext' \in {"none", "held", "lost", "other"}
  BY <1>1 DEF UploadInv
<1>6. ASSUME Uploads, ~misread'
      PROVE  Undisturbed(fileBuf', fileIncoming', fileContext', filePublished', fileWorker')
  <2>1. fileContext = "none" /\ ~misread
    BY <1>1, <1>2, <1>6, CommandFinds
  <2>2. /\ bytes \in Seq(BytesOf(GpsFile!Kinds)) /\ fileIncoming' \in Seq(BytesOf(GpsFile!Kinds))
        /\ filePublished \in Seq(BytesOf(GpsFile!Kinds)) /\ filePublished = <<>>
        /\ bytes \o fileIncoming' = Joined(GpsFile!Length, file)
    BY <1>1, <1>6, <2>1, ReadFinds
  <2> QED BY <1>1, <1>3, <2>1, <2>2 DEF Undisturbed
<1> QED BY <1>1, <1>4, <1>5, <1>6, UploadFrame

LEMMA UploadDataTooEarly ==
  ASSUME UploadInv, NEW bytes, GpsFile!DataTooEarly(bytes)
  PROVE  UploadInv'
<1>1. /\ file' = file /\ fileContext' = fileContext /\ misread' = misread /\ GpsFile!Read(bytes)
      /\ Len(bytes) >= 4 /\ ~ GpsFile!IsCommand(bytes) /\ fileContext = "none"
  BY FileFrames DEF GpsFile!DataTooEarly, GpsFile!Read, GpsFile!Dies
<1>2. fileContext' \in {"none", "held", "lost", "other"}
  BY <1>1 DEF UploadInv
<1>3. ~ (Uploads /\ ~misread)
  BY <1>1, ReadFinds DEF V4Taken
<1> QED BY <1>1, <1>2, <1>3, UploadFrameData

(* Another read goes on where the file was, whether or not it is published.*)
LEMMA BeginsMore ==
  ASSUME NEW S, NEW t \in Seq(S), NEW p \in Seq(S), NEW b \in Seq(S), Begins(t, p)
  PROVE  Begins(t \o b, p)
<1>1. CASE GpsFile!Publishable(t) = t
  <2>1. IsPrefix(p, t)
    BY <1>1 DEF Begins
  <2>2. IsPrefix(p, t \o b)
    BY <2>1, PrefixLonger
  <2> QED BY <2>2 DEF Begins
<1>2. CASE GpsFile!Publishable(t) # t
  <2>1. GpsFile!Publishable(t \o b) # t \o b
    BY <1>2, PublishableOfTwo
  <2> QED BY <2>1 DEF Begins
<1> QED BY <1>1, <1>2

LEMMA PublishedBegins ==
  ASSUME NEW S, NEW t \in Seq(S), NEW p, Published(t, p)
  PROVE  Begins(t, p)
<1>1. IsPrefix(t, t)
  <2>1. Len(t) \in Nat
    OBVIOUS
  <2> QED BY <2>1 DEF IsPrefix
<1> QED BY <1>1 DEF Published, Begins

LEMMA UploadData ==
  ASSUME UploadInv, NEW bytes, GpsFile!Data(bytes)
  PROVE  UploadInv'
<1>1. /\ file' = file /\ fileContext' = fileContext /\ misread' = misread /\ GpsFile!Read(bytes)
      /\ fileContext # "none" /\ fileBuf' = <<>>
      /\ fileContext = "held" => filePublished' = filePublished \o GpsFile!Publishable(bytes)
      /\ fileContext # "held" => filePublished' = filePublished
  BY DEF GpsFile!Data, GpsFile!Read
<1>2. fileContext' \in {"none", "held", "lost", "other"}
  BY <1>1 DEF UploadInv
<1>3. fileWorker'
  BY Zenon DEF GpsFile!Data, GpsFile!Read
<1>4. ASSUME Uploads, ~misread
      PROVE  Undisturbed(fileBuf', fileIncoming', fileContext', filePublished', fileWorker')
  <2>1. /\ bytes \in Seq(BytesOf(GpsFile!Kinds)) /\ fileIncoming' \in Seq(BytesOf(GpsFile!Kinds))
        /\ filePublished \in Seq(BytesOf(GpsFile!Kinds)) /\ fileContext # "other"
        /\ \E taken \in Seq(BytesOf(GpsFile!Kinds)) :
             /\ taken \o (bytes \o fileIncoming') = Joined(GpsFile!Length, Tail(file))
             /\ fileContext = "held" => Published(taken, filePublished)
             /\ Begins(taken, filePublished)
    BY <1>1, <1>4, ReadFinds
  <2>2. PICK taken \in Seq(BytesOf(GpsFile!Kinds)) :
          /\ taken \o (bytes \o fileIncoming') = Joined(GpsFile!Length, Tail(file))
          /\ fileContext = "held" => Published(taken, filePublished)
          /\ Begins(taken, filePublished)
    BY <2>1
  <2>3. PICK later \in Seq(BytesOf(GpsFile!Kinds)) : later = fileIncoming'
    BY <2>1
  <2>4. PICK p \in Seq(BytesOf(GpsFile!Kinds)) : p = filePublished
    BY <2>1
  <2>5. /\ taken \o bytes \in Seq(BytesOf(GpsFile!Kinds))
        /\ (taken \o bytes) \o later = Joined(GpsFile!Length, Tail(file))
    <3>1. Regrouped(BytesOf(GpsFile!Kinds), taken, bytes, later)
      BY <2>1, Regroup
    <3> QED BY <2>2, <2>3, <3>1 DEF Regrouped
  <2>6. <<>> \o later = later
    OBVIOUS
  <2>7. ASSUME fileContext = "held"
        PROVE  /\ Published(taken \o bytes, filePublished') /\ Begins(taken \o bytes, filePublished')
               /\ filePublished' \in Seq(BytesOf(GpsFile!Kinds))
    <3>1. Published(taken, p)
      BY <2>2, <2>4, <2>7
    <3>2. Published(taken \o bytes, p \o GpsFile!Publishable(bytes))
      BY <2>1, <3>1, PublishedMore
    <3>3. Begins(taken \o bytes, p \o GpsFile!Publishable(bytes))
      BY <2>5, <3>2, PublishedBegins
    <3>4. PICK r \in Seq(BytesOf(GpsFile!Kinds)) : r = GpsFile!Publishable(bytes)
      BY <2>1, PublishableOfTwo
    <3>5. p \o r \in Seq(BytesOf(GpsFile!Kinds))
      BY JoinParts
    <3> QED BY <1>1, <2>4, <2>7, <3>2, <3>3, <3>4, <3>5
  <2>8. ASSUME fileContext # "held"
        PROVE  /\ Begins(taken \o bytes, filePublished')
               /\ filePublished' \in Seq(BytesOf(GpsFile!Kinds))
    <3>1. Begins(taken \o bytes, p)
      BY <2>1, <2>2, <2>4, BeginsMore
    <3> QED BY <1>1, <2>4, <2>8, <3>1
  <2>9. Uploading(taken \o bytes, fileBuf', fileIncoming', fileContext', filePublished', fileWorker')
    BY <1>1, <2>3, <2>5, <2>6, <2>7, <2>8 DEF Uploading
  <2>10. fileBuf' \in Seq(BytesOf(GpsFile!Kinds)) /\ filePublished' \in Seq(BytesOf(GpsFile!Kinds))
    BY <1>1, <2>7, <2>8
  <2> QED BY <1>1, <1>3, <2>1, <2>5, <2>9, <2>10 DEF Undisturbed
<1> QED BY <1>1, <1>2, <1>4, UploadFrameData

LEMMA UploadOtherDown ==
  ASSUME UploadInv, GpsFile!OtherDown
  PROVE  UploadInv'
<1>1. /\ UNCHANGED <<file, fileIncoming, fileBuf, filePublished, misread, fileWorker>>
      /\ fileContext = "held" /\ fileContext' = "lost"
  BY DEF GpsFile!OtherDown
<1>2. ASSUME Uploads, ~misread
      PROVE  Undisturbed(fileBuf', fileIncoming', fileContext', filePublished', fileWorker')
  <2>1. Undisturbed(fileBuf, fileIncoming, fileContext, filePublished, fileWorker)
    BY <1>2 DEF UploadInv
  <2>2. PICK taken \in Seq(BytesOf(GpsFile!Kinds)) :
          Uploading(taken, fileBuf, fileIncoming, fileContext, filePublished, fileWorker)
    BY <1>1, <2>1 DEF Undisturbed
  <2>3. Uploading(taken, fileBuf', fileIncoming', fileContext', filePublished', fileWorker')
    BY <1>1, <2>2 DEF Uploading
  <2> QED BY <1>1, <2>1, <2>3 DEF Undisturbed
<1> QED BY <1>1, <1>2, UploadFrameData

LEMMA UploadSame ==
  ASSUME UploadInv, UNCHANGED <<file, fileIncoming, fileBuf, fileContext, filePublished, misread, fileWorker>>
  PROVE  UploadInv'
<1>1. fileContext' \in {"none", "held", "lost", "other"}
  BY DEF UploadInv
<1>2. ASSUME Uploads, ~misread
      PROVE  Undisturbed(fileBuf', fileIncoming', fileContext', filePublished', fileWorker')
  <2>1. Undisturbed(fileBuf, fileIncoming, fileContext, filePublished, fileWorker)
    BY <1>2 DEF UploadInv
  <2> QED BY <2>1
<1> QED BY <1>1, <1>2, UploadFrameData

LEMMA UploadInductive ==
  ASSUME UploadInv, [GpsFile!Next]_GpsFile!vars
  PROVE  UploadInv'
<1>1. CASE UNCHANGED GpsFile!vars
  BY <1>1, UploadSame DEF GpsFile!vars
<1>2. CASE GpsFile!Down
  BY <1>2, UploadSame DEF GpsFile!Down
<1>3. CASE GpsFile!OtherDown
  BY <1>3, UploadOtherDown
<1>4. ASSUME NEW bytes, GpsFile!TooShort(bytes) PROVE UploadInv'
  BY <1>4, UploadTooShort
<1>5. ASSUME NEW bytes, GpsFile!Rejected(bytes) PROVE UploadInv'
  BY <1>5, UploadRejected
<1>6. ASSUME NEW bytes, GpsFile!Announce(bytes) PROVE UploadInv'
  BY <1>6, UploadAnnounce
<1>7. ASSUME NEW bytes, GpsFile!Partial(bytes) PROVE UploadInv'
  BY <1>7, UploadPartial
<1>8. ASSUME NEW bytes, GpsFile!DataTooEarly(bytes) PROVE UploadInv'
  BY <1>8, UploadDataTooEarly
<1>9. ASSUME NEW bytes, GpsFile!Data(bytes) PROVE UploadInv'
  BY <1>9, UploadData
<1> QED BY <1>1, <1>2, <1>3, <1>4, <1>5, <1>6, <1>7, <1>8, <1>9 DEF GpsFile!Next

(* What was taken is what lies before the bytes that are still to come.    *)
LEMMA TakenIs ==
  ASSUME NEW S, NEW t \in Seq(S), NEW b \in Seq(S), NEW later \in Seq(S)
  PROVE  SubSeq(t \o (b \o later), 1, Len(t \o (b \o later)) - Len(later) - Len(b)) = t
<1>1. PICK u \in Seq(S) : u = b \o later /\ Len(u) = Len(b) + Len(later)
  <2>1. b \o later \in Seq(S) /\ Len(b \o later) = Len(b) + Len(later)
    BY JoinParts
  <2> QED BY <2>1
<1>2. Len(t \o u) = Len(t) + Len(u) /\ Len(t) \in Nat /\ Len(b) \in Nat /\ Len(later) \in Nat
  OBVIOUS
<1>3. Len(t \o u) - Len(later) - Len(b) = Len(t) /\ Len(t) \in 0 .. Len(t)
  BY <1>1, <1>2
<1>4. SubSeq(t \o u, 1, Len(t)) = SubSeq(t, 1, Len(t))
  BY <1>3, PartOfLonger
<1>5. SubSeq(t, 1, Len(t)) = t
  BY SubSeqFull
<1> QED BY <1>1, <1>3, <1>4, <1>5

LEMMA UploadsExactly ==
  ASSUME UploadInv
  PROVE  UploadExact
<1> DEFINE whole_ == GpsFile!Bytes(Tail(file))
           taken_ == SubSeq(whole_, 1, Len(whole_) - Len(fileIncoming) - Len(fileBuf))
<1>1. ASSUME Uploads, misread PROVE \E i \in 2 .. Len(file) : file[i] = "alike"
  BY <1>1 DEF UploadInv, Alike
<1>2. ASSUME Uploads, ~misread
      PROVE  /\ fileWorker \/ Len(fileBuf) < GpsFile!HeaderLen
             /\ fileContext = "none" => filePublished = <<>> /\ fileBuf \o fileIncoming = GpsFile!Bytes(file)
             /\ fileContext = "held" =>
                  /\ IsPrefix(GpsFile!Publishable(taken_), filePublished)
                  /\ GpsFile!Publishable(taken_) = taken_ => filePublished = taken_
                  /\ fileWorker /\ filePublished # <<>> => fileBuf = <<>>
             /\ fileContext = "lost" /\ GpsFile!Publishable(taken_) = taken_ => IsPrefix(filePublished, taken_)
  <2>1. Undisturbed(fileBuf, fileIncoming, fileContext, filePublished, fileWorker)
    BY <1>2 DEF UploadInv
  <2>2. fileWorker \/ Len(fileBuf) < GpsFile!HeaderLen
    BY <2>1, FileFrames DEF Undisturbed
  <2>3. fileContext = "none" => filePublished = <<>> /\ fileBuf \o fileIncoming = GpsFile!Bytes(file)
    BY <2>1, FileBytes DEF Undisturbed
  <2>4. CASE fileContext # "none"
    <3>1. fileBuf \in Seq(BytesOf(GpsFile!Kinds)) /\ fileIncoming \in Seq(BytesOf(GpsFile!Kinds))
      BY <2>1 DEF Undisturbed
    <3>2. PICK taken \in Seq(BytesOf(GpsFile!Kinds)) :
            Uploading(taken, fileBuf, fileIncoming, fileContext, filePublished, fileWorker)
      BY <2>1, <2>4 DEF Undisturbed
    <3>3. taken \o (fileBuf \o fileIncoming) = whole_
      BY <3>2, FileBytes DEF Uploading
    <3>4. taken_ = taken
      BY <3>1, <3>3, TakenIs
    <3> HIDE DEF taken_
    <3>5. /\ fileContext = "held" => /\ Published(taken, filePublished)
                                     /\ fileWorker /\ filePublished # <<>> => fileBuf = <<>>
          /\ Begins(taken, filePublished)
      BY <3>2 DEF Uploading
    <3> QED BY <2>2, <2>4, <3>4, <3>5 DEF Published, Begins
  <2> HIDE DEF taken_
  <2> QED BY <2>2, <2>3, <2>4
<1> HIDE DEF taken_
<1>3. (file[1] = "V4" /\ \A i \in 2 .. Len(file) : file[i] \in GpsFile!FileKinds) <=> Uploads
  BY DEF Uploads
<1> QED BY <1>1, <1>2, <1>3
        DEF UploadExact, GpsFile!UploadExact, GpsFile!IsPrefix, IsPrefix, taken_

(* What becomes of a file whose recorder announces itself once, first,     *)
(* however TCP cuts it (onGpsFileMessage): until bytes of it that read     *)
(* 99dc are taken for a command, what is published is the file in order,   *)
(* up to its first NUL and while the identity is held, and only a read of  *)
(* fewer than four bytes ends the worker.                                  *)
THEOREM UploadExactAlways == GpsFile!Spec => []UploadExact
<1>1. GpsFile!Init => UploadInv
  BY UploadInit
<1>2. UploadInv /\ [GpsFile!Next]_GpsFile!vars => UploadInv'
  BY UploadInductive
<1>3. UploadInv => UploadExact
  BY UploadsExactly
<1> QED BY <1>1, <1>2, <1>3, PTL DEF GpsFile!Spec
-----------------------------------------------------------------------------
(* Every step of one part is a step of its specification, and the others   *)
(* do not move.                                                            *)
LEMMA OnePartMoves ==
  ASSUME [MCNext]_all
  PROVE  /\ [Next]_vars /\ [Wheel!Next]_(Wheel!vars) /\ [Mdvr!Next]_(Mdvr!vars)
         /\ [GpsFile!Next]_(GpsFile!vars)
<1> DEFINE Still == /\ UNCHANGED vars => [Next]_vars
                    /\ UNCHANGED wheel => [Wheel!Next]_(Wheel!vars)
                    /\ UNCHANGED frames => [Mdvr!Next]_(Mdvr!vars)
                    /\ UNCHANGED upload => [GpsFile!Next]_(GpsFile!vars)
<1>1. Still
  BY DEF wheel, frames, upload, Wheel!vars, Mdvr!vars, GpsFile!vars
<1>2. CASE UNCHANGED all
  <2>1. UNCHANGED <<vars, wheel, frames, upload>>
    BY <1>2 DEF all
  <2> QED BY <1>1, <2>1
<1>3. ASSUME Next, UNCHANGED <<wheel, frames, upload>>
      PROVE  /\ [Next]_vars /\ [Wheel!Next]_(Wheel!vars) /\ [Mdvr!Next]_(Mdvr!vars)
             /\ [GpsFile!Next]_(GpsFile!vars)
  BY <1>1, <1>3
<1>4. ASSUME Wheel!Next, UNCHANGED <<vars, frames, upload>>
      PROVE  /\ [Next]_vars /\ [Wheel!Next]_(Wheel!vars) /\ [Mdvr!Next]_(Mdvr!vars)
             /\ [GpsFile!Next]_(GpsFile!vars)
  BY <1>1, <1>4
<1>5. ASSUME Mdvr!Next, UNCHANGED <<vars, wheel, upload>>
      PROVE  /\ [Next]_vars /\ [Wheel!Next]_(Wheel!vars) /\ [Mdvr!Next]_(Mdvr!vars)
             /\ [GpsFile!Next]_(GpsFile!vars)
  BY <1>1, <1>5
<1>6. ASSUME GpsFile!Next, UNCHANGED <<vars, wheel, frames>>
      PROVE  /\ [Next]_vars /\ [Wheel!Next]_(Wheel!vars) /\ [Mdvr!Next]_(Mdvr!vars)
             /\ [GpsFile!Next]_(GpsFile!vars)
  BY <1>1, <1>6
<1>7. CASE MCNext
  <2>1. \/ Next /\ UNCHANGED <<wheel, frames, upload>>
        \/ Wheel!Next /\ UNCHANGED <<vars, frames, upload>>
        \/ Mdvr!Next /\ UNCHANGED <<vars, wheel, upload>>
        \/ GpsFile!Next /\ UNCHANGED <<vars, wheel, frames>>
        \/ UNCHANGED all
    BY <1>7 DEF MCNext, Next, Wheel!Next, Mdvr!Next, GpsFile!Next, Ended,
                InRegistry, InWheel, InFrames, InUpload
  <2> QED BY <1>2, <1>3, <1>4, <1>5, <1>6, <2>1
<1> QED BY <1>2, <1>7

(* The run that checks the servers side by side has no behaviour one of    *)
(* them would not have alone, so that what is proved of each holds in it.  *)
THEOREM ServersSideBySide ==
  MCSpec => Spec /\ Wheel!Spec /\ Mdvr!Spec /\ GpsFile!Spec
<1>1. MCInit => Init /\ Wheel!Init /\ Mdvr!Init /\ GpsFile!Init
  BY DEF MCInit
<1>2. [MCNext]_all =>
        /\ [Next]_vars /\ [Wheel!Next]_(Wheel!vars) /\ [Mdvr!Next]_(Mdvr!vars)
        /\ [GpsFile!Next]_(GpsFile!vars)
  BY OnePartMoves
<1> QED
  BY <1>1, <1>2, PTL DEF MCSpec, Spec, Wheel!Spec, Mdvr!Spec, GpsFile!Spec
=============================================================================
