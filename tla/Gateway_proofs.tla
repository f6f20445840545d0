--------------------------- MODULE Gateway_proofs ---------------------------
(***************************************************************************)
(* Proofs about the processes of main, the MQ receiver thread and the      *)
(* recorders' commands: for any number of processes, messages, events and  *)
(* faults.                                                                 *)
(***************************************************************************)
EXTENDS MCGateway, FiniteSetTheorems, TLAPS

(* The handlers.  A script is one effect or two, each with the field it    *)
(* needs; what a command reaches of it is a first part of it.              *)
LEMMA Scripts ==
  ASSUME NEW k
  PROVE  /\ DOMAIN Handler(k) \in {{}, {1}, {1, 2}}
         /\ \A i \in DOMAIN Handler(k) : Handler(k)[i][2] \in Nat
<1>1. CASE k = "V1new"
  BY <1>1 DEF Handler
<1>2. CASE k = "V1replace"
  BY <1>2 DEF Handler
<1>3. CASE k = "V77"
  BY <1>3 DEF Handler
<1>4. CASE k = "V600"
  BY <1>4 DEF Handler
<1>5. CASE k = "alarm"
  BY <1>5 DEF Handler
<1>6. CASE k = "V0"
  BY <1>6 DEF Handler
<1>7. CASE k = "V30"
  BY <1>7 DEF Handler
<1>8. CASE k = "V39"
  BY <1>8 DEF Handler
<1>9. CASE k \notin {"V1new", "V1replace", "V77", "V600", "alarm", "V0", "V30", "V39"}
  BY <1>9 DEF Handler
<1> QED BY <1>1, <1>2, <1>3, <1>4, <1>5, <1>6, <1>7, <1>8, <1>9

LEMMA FirstPart ==
  ASSUME NEW S, S \in {{}, {1}, {1, 2}}
  PROVE  S = 1 .. Cardinality(S)
<1>1. CASE S = {}
  BY <1>1, FS_EmptySet
<1>2. CASE S = {1}
  BY <1>2, FS_Singleton
<1>3. CASE S = {1, 2}
  <2>1. IsFiniteSet({1}) /\ Cardinality({1}) = 1
    BY FS_Singleton
  <2>2. Cardinality({1} \cup {2}) = 2
    BY <2>1, FS_AddElement
  <2>3. S = {1} \cup {2} /\ S = 1 .. 2
    BY <1>3
  <2> QED BY <2>2, <2>3
<1> QED BY <1>1, <1>2, <1>3

LEMMA HasIs ==
  ASSUME NEW c, c.fields \in Nat, NEW x
  PROVE  Has(c, x) <=> /\ c.fields >= 4
                       /\ \E k \in DOMAIN Handler(c.kind) :
                            /\ \A j \in 1 .. k : Handler(c.kind)[j][2] <= c.fields
                            /\ Handler(c.kind)[k][1] = x
<1> DEFINE script == Handler(c.kind)
           Reached(k) == \A j \in 1 .. k : script[j][2] <= c.fields
           R == {i \in DOMAIN script : Reached(i)}
<1>1. CASE c.fields < 4
  <2>1. Effects(c) = << >>
    BY <1>1 DEF Effects
  <2> QED BY <1>1, <2>1 DEF Has
<1>2. CASE ~(c.fields < 4)
  <2>1. R \in {{}, {1}, {1, 2}}
    <3>1. R \subseteq DOMAIN script /\ DOMAIN script \in {{}, {1}, {1, 2}}
      BY Scripts
    <3>2. Reached(2) => Reached(1)
      OBVIOUS
    <3>3. 2 \in R => 1 \in R
      <4> HIDE DEF script, Reached
      <4> QED BY <3>1, <3>2
    <3> HIDE DEF R
    <3> QED BY <3>1, <3>3
  <2>2. R = 1 .. Cardinality(R)
    BY <2>1, FirstPart
  <2>3. Effects(c) = [k \in R |-> script[k][1]]
    BY <1>2, <2>2 DEF Effects
  <2>4. Has(c, x) <=> \E k \in R : script[k][1] = x
    <3> HIDE DEF R, script
    <3> QED BY <2>3 DEF Has
  <2> QED BY <1>2, <2>4
<1> QED BY <1>1, <1>2

Promised(c, effects) == \E k \in DOMAIN Handler(c.kind) : Handler(c.kind)[k][1] \in effects

LEMMA Together ==
  ASSUME NEW c, c.fields \in Nat
  PROVE  /\ Has(c, "ack") /\ Promised(c, Links) => Publishes(c)
         /\ Publishes(c) /\ Promised(c, {"ack"}) /\ ~Has(c, "ack")
              => c.kind = "V1new" /\ c.fields < 5
<1> DEFINE H(x) == /\ c.fields >= 4
                   /\ \E k \in DOMAIN Handler(c.kind) :
                        /\ \A j \in 1 .. k : Handler(c.kind)[j][2] <= c.fields
                        /\ Handler(c.kind)[k][1] = x
<1>1. Has(c, "ack") <=> H("ack")
  BY HasIs
<1>2. Publishes(c) <=> H("ex_") \/ H("exGps_")
  BY HasIs DEF Publishes, Links
<1>3. /\ H("ack") /\ Promised(c, Links) => H("ex_") \/ H("exGps_")
      /\ (H("ex_") \/ H("exGps_")) /\ Promised(c, {"ack"}) /\ ~H("ack")
           => c.kind = "V1new" /\ c.fields < 5
  <2>1. CASE c.kind = "V1new"
    BY <2>1 DEF Handler, Promised, Links
  <2>2. CASE c.kind = "V1replace"
    BY <2>2 DEF Handler, Promised, Links
  <2>3. CASE c.kind = "V77"
    BY <2>3 DEF Handler, Promised, Links
  <2>4. CASE c.kind = "V600"
    BY <2>4 DEF Handler, Promised, Links
  <2>5. CASE c.kind = "alarm"
    BY <2>5 DEF Handler, Promised, Links
  <2>6. CASE c.kind = "V0"
    BY <2>6 DEF Handler, Promised, Links
  <2>7. CASE c.kind = "V30"
    BY <2>7 DEF Handler, Promised, Links
  <2>8. CASE c.kind = "V39"
    BY <2>8 DEF Handler, Promised, Links
  <2>9. CASE c.kind \notin {"V1new", "V1replace", "V77", "V600", "alarm", "V0", "V30", "V39"}
    <3>1. Handler(c.kind) = << >>
      BY <2>9 DEF Handler
    <3> QED BY <3>1 DEF Promised
  <2> QED BY <2>1, <2>2, <2>3, <2>4, <2>5, <2>6, <2>7, <2>8, <2>9
<1> QED BY <1>1, <1>2, <1>3

(* The events acknowledged and not published although they should be: each *)
(* death of the worker leaves one more at most.                            *)
Cut == {e \in acked \ published : Promised(command[e], Links)}

EffectsInv ==
  /\ command \in [Events -> Commands]
  /\ input \in Seq(Events)
  /\ deaths \in Nat
  /\ IsFiniteSet(Cut) /\ Cardinality(Cut) <= deaths
  /\ \A e \in published \ acked :
       Promised(command[e], {"ack"}) => command[e].kind = "V1new" /\ command[e].fields < 5

LEMMA EffectsInit == Init => EffectsInv
<1> SUFFICES ASSUME Init PROVE EffectsInv
  OBVIOUS
<1>1. Cut = {}
  BY DEF Init, Cut
<1>2. IsFiniteSet(Cut) /\ Cardinality(Cut) = 0
  BY <1>1, FS_EmptySet
<1> QED BY <1>2 DEF Init, EffectsInv

LEMMA FieldsNat == ASSUME EffectsInv, NEW e \in Events PROVE command[e].fields \in Nat
  BY CommandsAssumption DEF EffectsInv

LEMMA EffectsStep == EffectsInv /\ [Next]_vars => EffectsInv'
<1> SUFFICES ASSUME EffectsInv, [Next]_vars PROVE EffectsInv'
  OBVIOUS
<1>1. ASSUME UNCHANGED <<command, acked, published, deaths>>, input' \in Seq(Events)
      PROVE  EffectsInv'
  <2>1. Cut' = Cut
    BY <1>1 DEF Cut, Promised
  <2> QED BY <1>1, <2>1 DEF EffectsInv, Promised
<1>2. ASSUME NEW e \in Events, Send(e) PROVE EffectsInv'
  <2>1. input' \in Seq(Events)
    BY <1>2 DEF Send, EffectsInv
  <2> QED BY <1>1, <1>2, <2>1 DEF Send
<1>3. CASE Restart \/ ConnectionLost \/ (\E l \in Links : LinkDecays(l)) \/ UNCHANGED vars
  <2>1. input' \in {input, << >>}
    BY <1>3 DEF Restart, ConnectionLost, LinkDecays, vars
  <2>2. << >> \in Seq(Events) /\ input \in Seq(Events)
    BY DEF EffectsInv
  <2>4. input' \in Seq(Events)
    BY <2>1, <2>2
  <2>3. UNCHANGED <<command, acked, published, deaths>>
    BY <1>3 DEF Restart, ConnectionLost, LinkDecays, vars
  <2> QED BY <1>1, <2>3, <2>4
<1>4. ASSUME input # << >> PROVE Head(input) \in Events /\ Tail(input) \in Seq(Events)
  BY <1>4 DEF EffectsInv
<1>5. CASE Handle
  <2> DEFINE e == Head(input)
             c == command[e]
  <2>1. /\ acked' = acked \cup (IF Has(c, "ack") THEN {e} ELSE {})
        /\ published' = IF Publishes(c) THEN published \cup {e} ELSE published
        /\ input # << >> /\ input' = Tail(input)
        /\ UNCHANGED <<command, deaths>>
    BY <1>5 DEF Handle
  <2>2. e \in Events /\ c.fields \in Nat
    BY <1>4, <2>1, FieldsNat
  <2>3. /\ Has(c, "ack") /\ Promised(c, Links) => Publishes(c)
        /\ Publishes(c) /\ Promised(c, {"ack"}) /\ ~Has(c, "ack") => c.kind = "V1new" /\ c.fields < 5
    BY <2>2, Together
  <2>4. Cut' \subseteq Cut
    <3> SUFFICES ASSUME NEW d \in Cut' PROVE d \in Cut
      OBVIOUS
    <3>1. d \in acked' /\ d \notin published' /\ Promised(command[d], Links)
      BY <2>1 DEF Cut, Promised
    <3> HIDE DEF e
    <3>2. CASE d \in acked
      BY <2>1, <3>1, <3>2 DEF Cut
    <3>3. CASE d \notin acked
      BY <2>1, <2>3, <3>1, <3>3
    <3> QED BY <3>2, <3>3
  <2>5. IsFiniteSet(Cut') /\ Cardinality(Cut') <= Cardinality(Cut)
    BY <2>4, FS_Subset DEF EffectsInv
  <2>6. Cardinality(Cut') \in Nat /\ Cardinality(Cut) \in Nat
    BY <2>5, FS_CardinalityType DEF EffectsInv
  <2>7. Cardinality(Cut') <= deaths'
    BY <2>1, <2>5, <2>6 DEF EffectsInv
  <2>8. ASSUME NEW d \in published' \ acked', Promised(command[d], {"ack"})
        PROVE  command[d].kind = "V1new" /\ command[d].fields < 5
    <3> HIDE DEF e
    <3>1. CASE d \in published
      BY <2>1, <2>8, <3>1 DEF EffectsInv
    <3>2. CASE d \notin published
      BY <2>1, <2>3, <2>8, <3>2
    <3> QED BY <3>1, <3>2
  <2> QED BY <1>4, <2>1, <2>5, <2>7, <2>8 DEF EffectsInv, Promised
<1>6. CASE SendFails
  <2> DEFINE e == Head(input)
  <2>1. /\ acked' \in {acked, acked \cup {e}}
        /\ deaths' = deaths + 1 /\ input' = << >>
        /\ UNCHANGED <<command, published>>
    BY <1>6 DEF SendFails
  <2>2. Cut' \subseteq Cut \cup {e}
    BY <2>1 DEF Cut, Promised
  <2>3. IsFiniteSet(Cut \cup {e}) /\ Cardinality(Cut \cup {e}) <= Cardinality(Cut) + 1
    <3>1. Cardinality(Cut) \in Nat /\ IsFiniteSet(Cut)
      BY FS_CardinalityType DEF EffectsInv
    <3> HIDE DEF e
    <3> QED BY <3>1, FS_AddElement
  <2>4. IsFiniteSet(Cut') /\ Cardinality(Cut') <= Cardinality(Cut \cup {e})
    BY <2>2, <2>3, FS_Subset
  <2>5. Cardinality(Cut') \in Nat /\ Cardinality(Cut \cup {e}) \in Nat /\ Cardinality(Cut) \in Nat
    BY <2>3, <2>4, FS_CardinalityType DEF EffectsInv
  <2>6. Cardinality(Cut') <= deaths' /\ deaths' \in Nat
    BY <2>1, <2>3, <2>4, <2>5 DEF EffectsInv
  <2>7. \A d \in published' \ acked' : d \in published \ acked
    BY <2>1
  <2>8. input' \in Seq(Events)
    BY <2>1
  <2> QED BY <2>1, <2>4, <2>6, <2>7, <2>8 DEF EffectsInv, Promised
<1> QED BY <1>2, <1>3, <1>5, <1>6 DEF Next

(* mdvrServer.h, the command handlers: whatever commands a recorder sends  *)
(* and however links and workers fail, an event is acknowledged without    *)
(* its publication at most once for each death, and published without its  *)
(* acknowledgement only by a V1 that lacks its fifth field.                *)
THEOREM EffectsTogetherAlways == Spec => []EffectsTogether
<1>1. EffectsInv => EffectsTogether
  BY DEF EffectsInv, EffectsTogether, Cut, Promised
<1> QED BY <1>1, EffectsInit, EffectsStep, PTL DEF Spec

-----------------------------------------------------------------------------
(* The receiver.  How many frames of the present link the thread has       *)
(* taken, and how many the broker sent.                                    *)
Taken ==
  CASE pc = "header" -> 4 * (cur - first) + 1
    [] pc = "body" -> 4 * (cur - first) + 2 + got
    [] OTHER -> IF cur = 0 THEN 0 ELSE 4 * (cur + 1 - first)

Sent == 4 * (next - first)

Functors == [msg : Receiver!Numbers, whole : BOOLEAN]

ReceiverType ==
  /\ kind \in [Receiver!Numbers -> Receiver!Kinds]
  /\ first \in Nat /\ next \in Nat /\ 1 <= first /\ first <= next /\ next <= MaxMessages + 1
  /\ wire \in Seq(Receiver!Frames)
  /\ handed \in Seq(Functors)

(* The message being put together is one of this link.                     *)
Current ==
  /\ cur \in Nat /\ (cur = 0 \/ (first <= cur /\ cur < next))
  /\ pc \in {"method", "header", "body", "ended"}
  /\ pc \in {"header", "body"} => cur # 0
  /\ pc = "header" => got = 0
  /\ pc = "body" => got \in {0, 1}

(* The frames on the way follow those taken, and a delivery opens each     *)
(* message; a method of another kind is the broker's last.                 *)
InPlace ==
  /\ \A i \in 1 .. Len(wire) :
       IF wire[i].type = "other" THEN i = Len(wire) /\ mqLink # "up" ELSE Taken + i <= Sent
  /\ \A i \in 1 .. Len(wire) : \A m \in first .. next - 1 :
       wire[i].type # "other" /\ Taken + i = 4 * (m - first) + 1
         => wire[i] = [type |-> "deliver", msg |-> m]
  /\ mqLink = "up" => Taken + Len(wire) = Sent

(* The link ended in the middle of a message: nothing comes any more.      *)
Broken == pc = "method" /\ cur # 0 /\ got # 2
NothingMore == Broken => wire = << >> /\ mqLink = "ended"

HandedInOrder ==
  /\ \A k \in 1 .. Len(handed) : first <= handed[k].msg /\ handed[k].msg <= cur
  /\ \A k \in 1 .. Len(handed) : pc \in {"header", "body"} => handed[k].msg < cur
  /\ \A j, k \in 1 .. Len(handed) : j < k => handed[j].msg < handed[k].msg

CutIsLast ==
  \A k \in 1 .. Len(handed) :
    ~handed[k].whole /\ kind[handed[k].msg] # "open"
      => k = Len(handed) /\ mqLink = "ended" /\ (pc = "ended" \/ Broken)

Complete ==
  \A i \in first .. cur :
    kind[i] \in {"command", "nobody"} /\ (i < cur \/ (pc = "method" /\ got = 2))
      => \E k \in 1 .. Len(handed) : handed[k] = [msg |-> i, whole |-> TRUE]

ReceiverInv ==
  /\ ReceiverType /\ Current /\ NothingMore /\ HandedInOrder /\ CutIsLast /\ Complete
  /\ pc # "ended" => InPlace

LEMMA Counts == ReceiverType /\ Current => Sent \in Nat /\ Taken \in Nat
<1> SUFFICES ASSUME ReceiverType, Current PROVE Sent \in Nat /\ Taken \in Nat
  OBVIOUS
<1>1. first \in Nat /\ next \in Nat /\ 1 <= first /\ first <= next
  BY DEF ReceiverType
<1>2. /\ cur \in Nat /\ (cur = 0 \/ (first <= cur /\ cur < next))
      /\ pc \in {"method", "header", "body", "ended"}
      /\ pc \in {"header", "body"} => cur # 0
      /\ pc = "body" => got \in {0, 1}
  BY DEF Current
<1>3. Sent \in Nat
  BY <1>1 DEF Sent
<1>4. Taken \in Nat
  BY <1>1, <1>2 DEF Taken
<1> QED BY <1>3, <1>4

(* One frame is taken off the wire.                                        *)
LEMMA TakenOne ==
  ASSUME ReceiverType, Current, InPlace, wire # << >>, wire' = Tail(wire),
         Taken' = Taken + 1, UNCHANGED <<first, next, mqLink>>
  PROVE  InPlace'
<1>1. /\ Len(wire') = Len(wire) - 1 /\ Len(wire) \in Nat
      /\ \A i \in 1 .. Len(wire') : i + 1 \in 1 .. Len(wire) /\ wire'[i] = wire[i + 1]
  BY DEF ReceiverType
<1>2. Sent \in Nat /\ Taken \in Nat /\ Sent' = Sent
  BY Counts DEF Sent
<1>3. ASSUME NEW i \in 1 .. Len(wire')
      PROVE  IF wire'[i].type = "other" THEN i = Len(wire') /\ mqLink' # "up"
                                        ELSE Taken' + i <= Sent'
  <2>1. i + 1 \in 1 .. Len(wire) /\ wire'[i] = wire[i + 1]
    BY <1>1, <1>3
  <2>2. IF wire[i + 1].type = "other" THEN i + 1 = Len(wire) /\ mqLink # "up"
                                      ELSE Taken + (i + 1) <= Sent
    BY <2>1 DEF InPlace
  <2>3. i \in Nat /\ mqLink' = mqLink
    BY <1>3
  <2>4. CASE wire[i + 1].type = "other"
    <3>1. i + 1 = Len(wire) /\ mqLink # "up"
      BY <2>2, <2>4
    <3>2. i = Len(wire')
      <4>1. Len(wire') = Len(wire) - 1
        BY <1>1
      <4>2. i = (i + 1) - 1
        BY <2>3
      <4> QED BY <3>1, <4>1, <4>2
    <3> QED BY <2>1, <2>3, <2>4, <3>1, <3>2
  <2>5. CASE wire[i + 1].type # "other"
    <3>1. Taken + (i + 1) <= Sent
      BY <2>2, <2>5
    <3>2. Taken' + i <= Sent'
      BY <1>2, <2>3, <3>1
    <3> QED BY <2>1, <2>5, <3>2
  <2> QED BY <2>4, <2>5
<1>4. ASSUME NEW i \in 1 .. Len(wire'), NEW m \in first' .. next' - 1,
             wire'[i].type # "other", Taken' + i = 4 * (m - first') + 1
      PROVE  wire'[i] = [type |-> "deliver", msg |-> m]
  <2>1. i + 1 \in 1 .. Len(wire) /\ wire'[i] = wire[i + 1]
    BY <1>1, <1>4
  <2>2. Taken + (i + 1) = 4 * (m - first) + 1 /\ m \in first .. next - 1
    BY <1>2, <1>4, <2>1
  <2> QED BY <1>4, <2>1, <2>2 DEF InPlace
<1>5. mqLink' = "up" => Taken' + Len(wire') = Sent'
  <2>1. mqLink = "up" => Taken + Len(wire) = Sent
    BY DEF InPlace
  <2>2. mqLink' = mqLink
    OBVIOUS
  <2> QED BY <1>1, <1>2, <2>1, <2>2
<1> QED BY <1>3, <1>4, <1>5 DEF InPlace

(* What is on the way is cut, and perhaps a last method follows.           *)
LEMMA Shortened ==
  ASSUME ReceiverType, Current, InPlace, NEW n \in 0 .. Len(wire), NEW w,
         w = SubSeq(wire, 1, n), 
         \/ wire' = w
         \/ mqLink = "up" /\ wire' = Append(w, [type |-> "other", msg |-> 0]),
         mqLink' # "up", UNCHANGED <<first, next, cur, got, pc>>
  PROVE  InPlace'
<1>1. /\ w \in Seq(Receiver!Frames) /\ Len(w) = n /\ Len(wire) \in Nat
      /\ \A i \in 1 .. n : w[i] = wire[i]
  BY DEF ReceiverType
<1>2. Sent' = Sent /\ Taken' = Taken
  BY DEF Sent, Taken
<1>3. \/ Len(wire') = n /\ \A i \in 1 .. n : wire'[i] = wire[i]
      \/ /\ mqLink = "up" /\ Len(wire') = n + 1
         /\ wire'[n + 1] = [type |-> "other", msg |-> 0]
         /\ \A i \in 1 .. n : wire'[i] = wire[i]
  <2>1. CASE wire' = w
    BY <1>1, <2>1
  <2>2. CASE mqLink = "up" /\ wire' = Append(w, [type |-> "other", msg |-> 0])
    <3>1. Len(wire') = n + 1 /\ \A i \in 1 .. n + 1 :
            wire'[i] = IF i = n + 1 THEN [type |-> "other", msg |-> 0] ELSE w[i]
      BY <1>1, <2>2
    <3> QED BY <1>1, <2>2, <3>1
  <2> QED BY <2>1, <2>2
<1>4. ASSUME NEW i \in 1 .. n, wire[i].type = "other"
      PROVE  mqLink # "up" /\ i = n
  BY <1>1, <1>4 DEF InPlace
<1>5. ASSUME NEW i \in 1 .. Len(wire')
      PROVE  IF wire'[i].type = "other" THEN i = Len(wire') /\ mqLink' # "up"
                                        ELSE Taken' + i <= Sent'
  <2>1. CASE i \in 1 .. n /\ wire[i].type = "other"
    BY <1>1, <1>3, <1>4, <2>1
  <2>2. CASE i \in 1 .. n /\ wire[i].type # "other"
    BY <1>1, <1>2, <1>3, <2>2 DEF InPlace
  <2>3. CASE i \notin 1 .. n
    BY <1>1, <1>3, <1>5, <2>3
  <2> QED BY <2>1, <2>2, <2>3
<1>6. ASSUME NEW i \in 1 .. Len(wire'), NEW m \in first' .. next' - 1,
             wire'[i].type # "other", Taken' + i = 4 * (m - first') + 1
      PROVE  wire'[i] = [type |-> "deliver", msg |-> m]
  <2>1. i \in 1 .. n
    BY <1>1, <1>3, <1>6
  <2>2. i \in 1 .. Len(wire) /\ m \in first .. next - 1 /\ wire'[i] = wire[i]
    BY <1>1, <1>3, <1>6, <2>1
  <2> QED BY <1>2, <1>6, <2>2 DEF InPlace
<1> QED BY <1>5, <1>6 DEF InPlace

(* The broker sends a whole message.                                       *)
LEMMA Delivered ==
  ASSUME ReceiverType, Current, InPlace, mqLink = "up", Receiver!Deliver
  PROVE  InPlace'
<1> DEFINE F(t) == [type |-> t, msg |-> next]
           four == <<F("deliver"), F("header"), F("body"), F("body")>>
<1>1. /\ wire' = wire \o four /\ next' = next + 1
      /\ UNCHANGED <<first, mqLink, cur, got, pc>>
  BY DEF Receiver!Deliver, Receiver!thread
<1>2. /\ Len(wire) \in Nat /\ Len(wire') = Len(wire) + 4
      /\ \A i \in 1 .. Len(wire) : wire'[i] = wire[i]
      /\ \A i \in 1 .. 4 : wire'[Len(wire) + i] = four[i]
  BY <1>1 DEF ReceiverType
<1>3. Sent' = Sent + 4 /\ Taken' = Taken /\ Sent \in Nat /\ Taken \in Nat /\ Taken + Len(wire) = Sent
  <2>1. Taken' = Taken
    BY <1>1 DEF Taken
  <2>2. Sent' = Sent + 4
    BY <1>1 DEF Sent, ReceiverType
  <2> QED BY <2>1, <2>2, Counts DEF InPlace
<1>4. first \in Nat /\ next \in Nat /\ first <= next
  BY DEF ReceiverType
<1>5. \A i \in 1 .. Len(wire) : wire[i].type # "other"
  BY DEF InPlace
<1>6. ASSUME NEW i \in 1 .. Len(wire')
      PROVE  wire'[i].type # "other" /\ Taken' + i <= Sent'
  <2>1. CASE i \in 1 .. Len(wire)
    <3>1. Taken + i <= Sent
      BY <1>5, <2>1 DEF InPlace
    <3> QED BY <1>2, <1>3, <1>5, <2>1, <3>1
  <2>2. CASE i \notin 1 .. Len(wire)
    <3>1. PICK j \in 1 .. 4 : i = Len(wire) + j
      <4>1. i - Len(wire) \in 1 .. 4 /\ i = Len(wire) + (i - Len(wire))
        BY <1>2, <2>2
      <4> QED BY <4>1
    <3>2. four[j].type # "other"
      BY <3>1
    <3>3. wire'[i].type # "other"
      BY <1>2, <3>1, <3>2
    <3> QED BY <1>2, <1>3, <3>1, <3>3
  <2> QED BY <2>1, <2>2
<1>7. ASSUME NEW i \in 1 .. Len(wire'), NEW m \in first' .. next' - 1,
             Taken' + i = 4 * (m - first') + 1
      PROVE  wire'[i] = [type |-> "deliver", msg |-> m]
  <2>1. CASE m = next
    <3>1. Taken + i = Sent + 1
      BY <1>1, <1>3, <1>7, <2>1 DEF Sent
    <3>2. i = Len(wire) + 1
      BY <1>2, <1>3, <3>1
    <3>3. wire'[i] = four[1]
      BY <1>2, <3>2
    <3> QED BY <2>1, <3>3
  <2>2. CASE m # next
    <3>1. m \in first .. next - 1 /\ Taken + i = 4 * (m - first) + 1
      BY <1>1, <1>3, <1>4, <1>7, <2>2
    <3>2. Taken + i <= Sent
      BY <1>3, <1>4, <3>1 DEF Sent
    <3>3. i \in 1 .. Len(wire)
      BY <1>2, <1>3, <3>2
    <3> QED BY <1>2, <1>5, <3>1, <3>3 DEF InPlace
  <2> QED BY <2>1, <2>2
<1>8. Taken' + Len(wire') = Sent'
  BY <1>2, <1>3
<1> QED BY <1>6, <1>7, <1>8 DEF InPlace

(* The broker's steps and the loop's leave what the thread did.            *)
LEMMA OthersStep ==
  ASSUME ReceiverInv, UNCHANGED <<kind, first, cur, got, pc, handed>>,
         next' \in Nat, next <= next', next' <= MaxMessages + 1,
         wire' \in Seq(Receiver!Frames),
         Broken => wire' = wire,
         mqLink = "ended" => mqLink' = "ended",
         pc # "ended" /\ InPlace => InPlace'
  PROVE  ReceiverInv'
<1>1. ReceiverType'
  BY GatewayAssumption DEF ReceiverInv, ReceiverType
<1>2. Current'
  BY DEF ReceiverInv, ReceiverType, Current
<1>3. Broken' <=> Broken
  BY DEF Broken
<1>4. NothingMore'
  BY <1>3 DEF ReceiverInv, NothingMore
<1>5. HandedInOrder'
  BY DEF ReceiverInv, HandedInOrder
<1>6. CutIsLast'
  BY <1>3 DEF ReceiverInv, CutIsLast
<1>7. Complete'
  BY DEF ReceiverInv, Complete
<1> QED BY <1>1, <1>2, <1>4, <1>5, <1>6, <1>7 DEF ReceiverInv

LEMMA BrokerStep ==
  ASSUME ReceiverInv, Receiver!Deliver \/ Receiver!OtherMethod \/ Receiver!LinkEnds
  PROVE  ReceiverInv'
<1> USE DEF Receiver!thread, Receiver!loop, Receiver!input
<1>1. ReceiverType /\ Current /\ (pc # "ended" => InPlace) /\ MaxMessages \in Nat /\ NothingMore
  BY GatewayAssumption DEF ReceiverInv
<1>2. CASE Receiver!Deliver
  <2>1. /\ mqLink = "up" /\ next <= MaxMessages /\ next' = next + 1
        /\ UNCHANGED <<kind, first, cur, got, pc, handed, mqLink>>
    BY <1>2 DEF Receiver!Deliver
  <2>2. next' \in Nat /\ next <= next' /\ next' <= MaxMessages + 1
    BY <1>1, <2>1 DEF ReceiverType
  <2>3. wire' \in Seq(Receiver!Frames)
    <3>1. next \in Receiver!Numbers
      BY <1>1, <2>1 DEF ReceiverType, Receiver!Numbers
    <3>2. \A t \in {"deliver", "header", "body"} : [type |-> t, msg |-> next] \in Receiver!Frames
      BY <3>1 DEF Receiver!Frames
    <3> DEFINE F(t) == [type |-> t, msg |-> next]
               four == <<F("deliver"), F("header"), F("body"), F("body")>>
    <3>3. four \in Seq(Receiver!Frames)
      <4>1. F("deliver") \in Receiver!Frames /\ F("header") \in Receiver!Frames
            /\ F("body") \in Receiver!Frames
        BY <3>2
      <4> HIDE DEF F
      <4> QED BY <4>1
    <3>4. wire' = wire \o four
      BY <1>2 DEF Receiver!Deliver
    <3> HIDE DEF four
    <3> QED BY <1>1, <3>3, <3>4 DEF ReceiverType
  <2>4. ~Broken
    BY <1>1, <2>1 DEF NothingMore
  <2>5. pc # "ended" /\ InPlace => InPlace'
    BY <1>1, <1>2, <2>1, Delivered
  <2> QED BY <2>1, <2>2, <2>3, <2>4, <2>5, OthersStep
<1>3. CASE Receiver!OtherMethod \/ Receiver!LinkEnds
  <2>1. /\ UNCHANGED <<kind, first, next, cur, got, pc, handed>>
        /\ mqLink # "ended" /\ mqLink' # "up"
    BY <1>3 DEF Receiver!OtherMethod, Receiver!LinkEnds
  <2>2. PICK n \in 0 .. Len(wire) :
          \/ wire' = SubSeq(wire, 1, n)
          \/ mqLink = "up" /\ wire' = Append(SubSeq(wire, 1, n), [type |-> "other", msg |-> 0])
    BY <1>3 DEF Receiver!OtherMethod, Receiver!LinkEnds
  <2>3. wire' \in Seq(Receiver!Frames)
    <3>1. SubSeq(wire, 1, n) \in Seq(Receiver!Frames)
      BY <1>1 DEF ReceiverType
    <3>2. [type |-> "other", msg |-> 0] \in Receiver!Frames
      BY DEF Receiver!Frames
    <3> QED BY <2>2, <3>1, <3>2
  <2>4. ~Broken
    BY <1>1, <2>1 DEF NothingMore
  <2>5. pc # "ended" /\ InPlace => InPlace'
    BY <1>1, <2>1, <2>2, Shortened
  <2>6. next \in Nat /\ next <= next /\ next <= MaxMessages + 1
    BY <1>1 DEF ReceiverType
  <2> QED BY <2>1, <2>3, <2>4, <2>5, <2>6, OthersStep
<1> QED BY <1>2, <1>3

(* The thread's steps.                                                     *)
LEMMA MethodStep == ReceiverInv /\ Receiver!WaitMethod => ReceiverInv'
<1> SUFFICES ASSUME ReceiverInv, Receiver!WaitMethod PROVE ReceiverInv'
  OBVIOUS
<1> DEFINE m == IF cur = 0 THEN first ELSE cur + 1
<1>1. /\ pc = "method" /\ wire # << >> /\ wire' = Tail(wire)
      /\ UNCHANGED <<kind, next, first, handed, mqLink>>
  BY DEF Receiver!WaitMethod, Receiver!Take, Receiver!Stays, Receiver!loop
<1>2. ReceiverType /\ Current /\ InPlace /\ ~Broken
  BY <1>1 DEF ReceiverInv, NothingMore
<1>3. ReceiverType'
  <2>1. Tail(wire) \in Seq(Receiver!Frames)
    BY <1>1, <1>2 DEF ReceiverType
  <2> QED BY <1>1, <1>2, <2>1 DEF ReceiverType
<1>4. m \in Nat /\ first <= m /\ cur < m /\ Taken = 4 * (m - first) /\ Taken \in Nat
  BY <1>1, <1>2 DEF ReceiverType, Current, Taken
<1>5. 1 \in 1 .. Len(wire) /\ Head(wire) = wire[1]
  BY <1>1, <1>2 DEF ReceiverType
<1>6. CASE wire[1].type = "other"
  <2>1. UNCHANGED <<pc, cur, got>>
    BY <1>5, <1>6 DEF Receiver!WaitMethod, Receiver!Comes, Receiver!thread
  <2>2. Len(wire) = 1 /\ mqLink # "up"
    BY <1>2, <1>5, <1>6 DEF InPlace
  <2>3. Len(wire') = 0
    BY <1>1, <1>2, <2>2 DEF ReceiverType
  <2>4. InPlace'
    <3>1. \A i \in 1 .. Len(wire') : FALSE
      BY <2>3
    <3>2. mqLink' # "up"
      BY <1>1, <2>2
    <3> QED BY <3>1, <3>2 DEF InPlace
  <2>5. ~Broken'
    BY <1>2, <2>1 DEF Broken
  <2>6. Current' /\ HandedInOrder' /\ CutIsLast' /\ Complete' /\ NothingMore'
    <3>1. Current' /\ HandedInOrder' /\ NothingMore'
      BY <1>1, <1>2, <2>1, <2>5 DEF ReceiverInv, Current, HandedInOrder, NothingMore
    <3>2. CutIsLast'
      BY <1>1, <1>2, <2>1 DEF ReceiverInv, CutIsLast
    <3>3. Complete'
      BY <1>1, <2>1 DEF ReceiverInv, Complete
    <3> QED BY <3>1, <3>2, <3>3
  <2> QED BY <1>3, <2>4, <2>6 DEF ReceiverInv
<1>7. CASE wire[1].type # "other"
  <2>1. m < next
    <3>1. Taken + 1 <= Sent
      BY <1>2, <1>5, <1>7 DEF InPlace
    <3> HIDE DEF m
    <3> QED BY <1>2, <1>4, <3>1 DEF Sent, ReceiverType
  <2>2. wire[1] = [type |-> "deliver", msg |-> m]
    <3>1. m \in first .. next - 1 /\ Taken + 1 = 4 * (m - first) + 1
      BY <1>2, <1>4, <2>1 DEF ReceiverType
    <3> HIDE DEF m
    <3> QED BY <1>2, <1>5, <1>7, <3>1 DEF InPlace
  <2>3. pc' = "header" /\ cur' = m /\ got' = 0
    <3> HIDE DEF m
    <3> QED BY <1>5, <2>2 DEF Receiver!WaitMethod, Receiver!Comes
  <2> HIDE DEF m
  <2>4. Current'
    <3>1. m # 0
      BY <1>2, <1>4 DEF Current
    <3> QED BY <1>1, <1>4, <2>1, <2>3, <3>1 DEF Current
  <2>5. InPlace'
    <3>1. Taken' = Taken + 1
      BY <1>1, <1>4, <2>3 DEF Taken
    <3> QED BY <1>1, <1>2, <3>1, TakenOne
  <2>6. NothingMore'
    BY <2>3 DEF NothingMore, Broken
  <2>7. HandedInOrder'
    <3>1. \A k \in 1 .. Len(handed) : handed[k].msg \in Nat
      <4>1. ASSUME NEW k \in 1 .. Len(handed) PROVE handed[k].msg \in Nat
        <5>1. handed[k] \in Functors
          BY <1>2, <4>1 DEF ReceiverType
        <5>2. handed[k].msg \in 1 .. MaxMessages
          BY <5>1, Zenon DEF Functors, Receiver!Numbers
        <5> QED BY <5>2
      <4> QED BY <4>1
    <3> QED BY <1>1, <1>2, <1>4, <2>3, <3>1 DEF ReceiverInv, HandedInOrder, Current
  <2>8. CutIsLast'
    BY <1>1, <1>2 DEF ReceiverInv, CutIsLast
  <2>9. Complete'
    <3> SUFFICES ASSUME NEW i \in first .. m, kind[i] \in {"command", "nobody"}, i < m
                 PROVE  \E k \in 1 .. Len(handed) : handed[k] = [msg |-> i, whole |-> TRUE]
      BY <1>1, <2>3 DEF Complete
    <3>1. cur # 0 /\ i \in first .. cur /\ m = cur + 1
      BY <1>2 DEF m, ReceiverType, Current
    <3>2. got = 2
      BY <1>1, <1>2, <3>1 DEF Broken
    <3> QED BY <1>1, <3>1, <3>2 DEF ReceiverInv, Complete
  <2> QED BY <1>3, <2>4, <2>5, <2>6, <2>7, <2>8, <2>9 DEF ReceiverInv
<1> QED BY <1>6, <1>7

LEMMA PartStep == ReceiverInv /\ (Receiver!WaitHeader \/ Receiver!WaitBody) => ReceiverInv'
<1> SUFFICES ASSUME ReceiverInv, Receiver!WaitHeader \/ Receiver!WaitBody PROVE ReceiverInv'
  OBVIOUS
<1>1. /\ wire # << >> /\ wire' = Tail(wire)
      /\ UNCHANGED <<kind, next, first, handed, mqLink, cur>>
      /\ \/ pc = "header" /\ pc' = "body" /\ got' = got
         \/ pc = "body" /\ pc' = "body" /\ got = 0 /\ got' = 1
  BY DEF Receiver!WaitHeader, Receiver!WaitBody, Receiver!Take, Receiver!Stays, Receiver!loop,
         Receiver!Comes
<1>2. ReceiverType /\ Current /\ InPlace
  BY <1>1 DEF ReceiverInv
<1>3. ReceiverType'
  <2>1. Tail(wire) \in Seq(Receiver!Frames)
    BY <1>1, <1>2 DEF ReceiverType
  <2> QED BY <1>1, <1>2, <2>1 DEF ReceiverType
<1>4. Current'
  BY <1>1, <1>2 DEF Current
<1>5. InPlace'
  <2>1. Taken' = Taken + 1
    BY <1>1, <1>2 DEF Taken, Current, ReceiverType
  <2> QED BY <1>1, <1>2, <2>1, TakenOne
<1>6. NothingMore'
  BY <1>1 DEF NothingMore, Broken
<1>7. HandedInOrder'
  BY <1>1 DEF ReceiverInv, HandedInOrder
<1>8. CutIsLast'
  BY <1>1 DEF ReceiverInv, CutIsLast, Broken
<1>9. Complete'
  BY <1>1 DEF ReceiverInv, Complete
<1> QED BY <1>3, <1>4, <1>5, <1>6, <1>7, <1>8, <1>9 DEF ReceiverInv

LEMMA MessageStep == ReceiverInv /\ Receiver!MessageReceived => ReceiverInv'
<1> SUFFICES ASSUME ReceiverInv, Receiver!MessageReceived PROVE ReceiverInv'
  OBVIOUS
<1>1. /\ pc = "body" /\ pc' = "method"
      /\ UNCHANGED <<kind, next, first, mqLink, cur>>
      /\ \/ wire # << >> /\ wire' = Tail(wire) /\ got = 1 /\ got' = 2
         \/ wire = << >> /\ mqLink = "ended" /\ wire' = wire /\ got' = got
  BY DEF Receiver!MessageReceived, Receiver!Take, Receiver!Comes, Receiver!Eof, Receiver!input
<1>2. ReceiverType /\ Current /\ InPlace
  BY <1>1 DEF ReceiverInv
<1>3. cur \in Receiver!Numbers /\ kind[cur] \in Receiver!Kinds /\ cur # 0 /\ got \in {0, 1}
      /\ first <= cur /\ cur < next /\ cur \in Nat /\ first \in Nat /\ 1 <= first
  <2>1. cur # 0 /\ first <= cur /\ cur < next /\ cur \in Nat /\ got \in {0, 1}
    BY <1>1, <1>2 DEF Current
  <2>2. first \in Nat /\ next \in Nat /\ 1 <= first /\ next <= MaxMessages + 1 /\ MaxMessages \in Nat
    BY <1>2, GatewayAssumption DEF ReceiverType
  <2>3. cur \in Receiver!Numbers
    BY <2>1, <2>2 DEF Receiver!Numbers
  <2> QED BY <1>2, <2>1, <2>2, <2>3 DEF ReceiverType
<1>4. \/ handed' = handed /\ ~(got' = 2 /\ kind[cur] \in {"command", "nobody"})
      \/ handed' = Append(handed, [msg |-> cur, whole |-> TRUE])
      \/ /\ handed' = Append(handed, [msg |-> cur, whole |-> FALSE])
         /\ ~(got' = 2 /\ kind[cur] \in {"command", "nobody"})
         /\ kind[cur] = "open" \/ got' # 2
  BY <1>3 DEF Receiver!MessageReceived, Receiver!OnMessage, Receiver!Kinds
<1>5. InPlace' /\ wire' \in Seq(Receiver!Frames)
  <2>1. CASE wire # << >> /\ wire' = Tail(wire) /\ got = 1
    <3>1. Taken' = Taken + 1
      BY <1>1, <1>3, <2>1 DEF Taken
    <3>2. wire' \in Seq(Receiver!Frames)
      BY <1>2, <2>1 DEF ReceiverType
    <3> QED BY <1>1, <1>2, <2>1, <3>1, <3>2, TakenOne
  <2>2. CASE wire = << >> /\ mqLink = "ended" /\ wire' = wire
    <3>1. \A i \in 1 .. Len(wire') : FALSE
      BY <2>2
    <3>2. mqLink' # "up"
      BY <1>1, <2>2
    <3>3. InPlace'
      BY <3>1, <3>2 DEF InPlace
    <3> QED BY <1>2, <2>2, <3>3 DEF ReceiverType
  <2> QED BY <1>1, <2>1, <2>2
<1>6. \/ handed' = handed
      \/ \E h \in Functors : h.msg = cur /\ handed' = Append(handed, h)
  <2>1. [msg |-> cur, whole |-> TRUE] \in Functors /\ [msg |-> cur, whole |-> FALSE] \in Functors
    BY <1>3 DEF Functors
  <2> QED BY <1>4, <2>1
<1>7. ReceiverType'
  <2>1. handed' \in Seq(Functors)
    BY <1>2, <1>6 DEF ReceiverType
  <2> QED BY <1>1, <1>2, <1>5, <2>1 DEF ReceiverType
<1>8. Current'
  BY <1>1, <1>3 DEF Current
<1>9. NothingMore'
  BY <1>1 DEF NothingMore, Broken
<1>10. HandedInOrder'
  <2>1. CASE handed' = handed
    BY <1>1, <2>1 DEF ReceiverInv, HandedInOrder
  <2>2. ASSUME NEW h \in Functors, h.msg = cur, handed' = Append(handed, h) PROVE HandedInOrder'
    <3>1. /\ Len(handed) \in Nat /\ Len(handed') = Len(handed) + 1
          /\ handed'[Len(handed) + 1].msg = cur
          /\ \A k \in 1 .. Len(handed) : handed'[k] = handed[k]
      BY <1>2, <2>2 DEF ReceiverType
    <3>2. \A k \in 1 .. Len(handed) : first <= handed[k].msg /\ handed[k].msg <= cur /\ handed[k].msg < cur
      BY <1>1 DEF ReceiverInv, HandedInOrder
    <3>3. \A j, k \in 1 .. Len(handed) : j < k => handed[j].msg < handed[k].msg
      BY DEF ReceiverInv, HandedInOrder
    <3>4. ASSUME NEW k \in 1 .. Len(handed') PROVE first <= handed'[k].msg /\ handed'[k].msg <= cur
      BY <1>3, <3>1, <3>2, <3>4
    <3>5. ASSUME NEW j \in 1 .. Len(handed'), NEW k \in 1 .. Len(handed'), j < k
          PROVE  handed'[j].msg < handed'[k].msg
      BY <3>1, <3>2, <3>3, <3>5
    <3> QED BY <1>1, <3>4, <3>5 DEF HandedInOrder
  <2> QED BY <1>6, <2>1, <2>2
<1>11. CutIsLast'
  <2> SUFFICES ASSUME NEW k \in 1 .. Len(handed'),
                      ~handed'[k].whole, kind[handed'[k].msg] # "open"
               PROVE  k = Len(handed') /\ mqLink = "ended" /\ Broken'
    BY <1>1 DEF CutIsLast
  <2>1. ASSUME handed'[k] = handed[k], k \in 1 .. Len(handed) PROVE FALSE
    BY <1>1, <2>1 DEF ReceiverInv, CutIsLast, Broken
  <2>2. PICK w \in BOOLEAN : handed' = Append(handed, [msg |-> cur, whole |-> w])
    BY <1>4, <2>1
  <2>3. /\ Len(handed') = Len(handed) + 1 /\ Len(handed) \in Nat
        /\ handed'[Len(handed) + 1] = [msg |-> cur, whole |-> w]
        /\ \A j \in 1 .. Len(handed) : handed'[j] = handed[j]
    BY <1>2, <2>2 DEF ReceiverType
  <2>4. k = Len(handed')
    BY <2>1, <2>3
  <2>5. ~w /\ kind[cur] # "open"
    BY <2>3, <2>4
  <2>6. handed' # handed
    BY <2>3
  <2>7. handed' # Append(handed, [msg |-> cur, whole |-> TRUE])
    <3>1. Append(handed, [msg |-> cur, whole |-> TRUE])[Len(handed) + 1] = [msg |-> cur, whole |-> TRUE]
      BY <1>2 DEF ReceiverType
    <3> QED BY <2>3, <2>5, <3>1
  <2>8. got' # 2
    BY <1>4, <2>5, <2>6, <2>7
  <2> QED BY <1>1, <1>3, <2>4, <2>8 DEF Broken
<1>12. Complete'
  <2> SUFFICES ASSUME NEW i \in first .. cur, kind[i] \in {"command", "nobody"}, i < cur \/ got' = 2
               PROVE  \E k \in 1 .. Len(handed') : handed'[k] = [msg |-> i, whole |-> TRUE]
    BY <1>1 DEF Complete
  <2>1. CASE i < cur
    <3>1. PICK k \in 1 .. Len(handed) : handed[k] = [msg |-> i, whole |-> TRUE]
      BY <2>1 DEF ReceiverInv, Complete
    <3>2. k \in 1 .. Len(handed') /\ handed'[k] = handed[k]
      BY <1>2, <1>6 DEF ReceiverType
    <3> QED BY <3>1, <3>2
  <2>2. CASE ~(i < cur)
    <3>1. i = cur /\ got' = 2
      BY <1>3, <2>2
    <3>2. handed' = Append(handed, [msg |-> cur, whole |-> TRUE])
      BY <1>4, <3>1
    <3>3. Len(handed') \in 1 .. Len(handed') /\ handed'[Len(handed')] = [msg |-> cur, whole |-> TRUE]
      BY <1>2, <3>2 DEF ReceiverType
    <3> QED BY <3>1, <3>3
  <2> QED BY <2>1, <2>2
<1> QED BY <1>5, <1>7, <1>8, <1>9, <1>10, <1>11, <1>12 DEF ReceiverInv

LEMMA EndStep == ReceiverInv /\ Receiver!ThreadEnds => ReceiverInv'
<1> SUFFICES ASSUME ReceiverInv, Receiver!ThreadEnds PROVE ReceiverInv'
  OBVIOUS
<1>1. /\ pc' = "ended" /\ pc # "ended"
      /\ UNCHANGED <<kind, next, first, handed, mqLink, wire, cur, got>>
  BY DEF Receiver!ThreadEnds, Receiver!loop, Receiver!input
<1>2. ReceiverType' /\ Current' /\ NothingMore' /\ HandedInOrder'
  BY <1>1 DEF ReceiverInv, ReceiverType, Current, NothingMore, Broken, HandedInOrder
<1>3. CutIsLast'
  BY <1>1 DEF ReceiverInv, CutIsLast
<1>4. Complete'
  BY <1>1 DEF ReceiverInv, Complete
<1> QED BY <1>1, <1>2, <1>3, <1>4 DEF ReceiverInv

LEMMA FreshReceiver ==
  ASSUME kind \in [Receiver!Numbers -> Receiver!Kinds],
         first \in Nat, next = first, 1 <= first, next <= MaxMessages + 1,
         wire = << >>, mqLink = "up", pc = "method", cur = 0, got = 0, handed = << >>
  PROVE  ReceiverInv
<1>1. ReceiverType /\ Current /\ NothingMore
  BY DEF ReceiverType, Current, NothingMore, Broken
<1>2. HandedInOrder /\ CutIsLast
  BY DEF HandedInOrder, CutIsLast
<1>3. Complete
  BY DEF Complete
<1>4. InPlace
  BY DEF InPlace, Taken, Sent
<1> QED BY <1>1, <1>2, <1>3, <1>4 DEF ReceiverInv

LEMMA ReceiverStep == ReceiverInv /\ [Receiver!Next]_(Receiver!vars) => ReceiverInv'
<1> SUFFICES ASSUME ReceiverInv, [Receiver!Next]_(Receiver!vars) PROVE ReceiverInv'
  OBVIOUS
<1>1. CASE Receiver!RunCommand \/ UNCHANGED Receiver!vars
  <2>1. UNCHANGED <<kind, next, first, wire, mqLink, pc, cur, got, handed>>
    BY <1>1 DEF Receiver!RunCommand, Receiver!vars, Receiver!thread, Receiver!loop, Receiver!input
  <2>2. InPlace => InPlace'
    BY <2>1 DEF InPlace, Taken, Sent
  <2>3. next \in Nat /\ next <= next /\ next <= MaxMessages + 1 /\ wire \in Seq(Receiver!Frames)
    BY DEF ReceiverInv, ReceiverType
  <2> QED BY <2>1, <2>2, <2>3, OthersStep
<1>2. CASE Receiver!Restart
  <2>1. kind \in [Receiver!Numbers -> Receiver!Kinds] /\ next \in Nat /\ 1 <= next /\ next <= MaxMessages + 1
    BY DEF ReceiverInv, ReceiverType
  <2>2. kind' = kind /\ first' = next /\ next' = next /\ wire' = << >> /\ mqLink' = "up"
        /\ pc' = "method" /\ cur' = 0 /\ got' = 0 /\ handed' = << >>
    BY <1>2 DEF Receiver!Restart
  <2>3. ReceiverType' /\ Current' /\ NothingMore'
    BY <2>1, <2>2 DEF ReceiverType, Current, NothingMore, Broken
  <2>4. HandedInOrder' /\ CutIsLast'
    BY <2>2 DEF HandedInOrder, CutIsLast
  <2>5. Complete'
    BY <2>1, <2>2 DEF Complete
  <2>6. InPlace'
    BY <2>1, <2>2 DEF InPlace, Taken, Sent
  <2> QED BY <2>3, <2>4, <2>5, <2>6 DEF ReceiverInv
<1> QED BY <1>1, <1>2, BrokerStep, MethodStep, PartStep, MessageStep, EndStep
        DEF Receiver!Next, Receiver!ThreadStep

LEMMA ReceiverInit == Receiver!Init => ReceiverInv
  BY GatewayAssumption, FreshReceiver DEF Receiver!Init

(* mq_receiver.cc and AMQPQueue.cpp: however the link ends and wherever a  *)
(* message is cut, every message that came whole was handed to the loop    *)
(* whole, once and in order, and only the last one handed may be a piece.  *)
THEOREM CommandsIntactAlways == Receiver!Spec => []CommandsIntact
<1>1. ReceiverInv => CommandsIntact
  <2> SUFFICES ASSUME ReceiverInv PROVE CommandsIntact
    OBVIOUS
  <2>1. DOMAIN handed = 1 .. Len(handed)
    BY DEF ReceiverInv, ReceiverType
  <2>2. \A j, k \in 1 .. Len(handed) : j < k => handed[j].msg < handed[k].msg
    BY DEF ReceiverInv, HandedInOrder
  <2>3. \A k \in 1 .. Len(handed) :
          ~handed[k].whole => kind[handed[k].msg] = "open" \/ (k = Len(handed) /\ mqLink = "ended")
    BY DEF ReceiverInv, CutIsLast
  <2> QED BY <2>1, <2>2, <2>3 DEF ReceiverInv, Complete, CommandsIntact, Receiver!CommandsIntact
<1> QED BY <1>1, ReceiverInit, ReceiverStep, PTL DEF Receiver!Spec

-----------------------------------------------------------------------------
(* The processes: the monitor has one child at most and none while it      *)
(* sleeps, only its child can be a zombie, and one process serves.         *)
States == {"free", "zombie", "forked", "booting", "booted", "bound", "serving", "exec", "raptor"}

FamilyType ==
  /\ proc \in [Pids -> States]
  /\ child \subseteq Pids

OneChild ==
  /\ \A p, q \in child : p = q
  /\ monitor = "sleeping" => child = {}
  /\ \A p \in Pids : proc[p] = "zombie" => p \in child

NobodyLeft == ~raptor => Processes!Processes \subseteq child /\ ~exhausted

OneServes == \A p, q \in Pids : proc[p] = "serving" /\ proc[q] = "serving" => p = q

FamilyInv == FamilyType /\ OneChild /\ NobodyLeft /\ OneServes

LEMMA AtMostOne ==
  ASSUME NEW S, \A x, y \in S : x = y
  PROVE  Cardinality(S) <= 1
<1>1. CASE S = {}
  BY <1>1, FS_EmptySet
<1>2. ASSUME NEW x \in S PROVE Cardinality(S) <= 1
  <2>1. S = {x}
    BY <1>2
  <2> QED BY <2>1, FS_Singleton
<1> QED BY <1>1, <1>2

(* Supervisor counts as this module does.                                  *)
LEMMA SameCount == \A S : Processes!Cardinality(S) = Cardinality(S)
  BY DEF Processes!Cardinality, Cardinality

(* The end of a process.                                                   *)
LEMMA EndKeeps ==
  ASSUME FamilyInv, NEW p \in Pids,
         proc' = [proc EXCEPT ![p] = IF p \in child /\ monitor # "gone" THEN "zombie" ELSE "free"],
         UNCHANGED <<monitor, child, raptor, exhausted>>
  PROVE  FamilyInv'
<1>1. FamilyType'
  BY DEF FamilyInv, FamilyType, States
<1>2. OneChild'
  BY DEF FamilyInv, FamilyType, OneChild
<1>3. NobodyLeft'
  BY DEF FamilyInv, FamilyType, NobodyLeft, Processes!Processes, Processes!Alive
<1>4. OneServes'
  BY DEF FamilyInv, FamilyType, OneServes
<1> QED BY <1>1, <1>2, <1>3, <1>4 DEF FamilyInv

(* A process goes on, and serves only if nobody does.                      *)
LEMMA GoesOnKeeps ==
  ASSUME FamilyInv, NEW p \in Pids, NEW to \in States \ {"free", "zombie"},
         proc[p] \notin {"free", "zombie"},
         proc' = [proc EXCEPT ![p] = to],
         to = "serving" => Processes!Serving = {},
         UNCHANGED <<monitor, child, raptor, exhausted>>
  PROVE  FamilyInv'
<1>1. FamilyType'
  BY DEF FamilyInv, FamilyType
<1>2. OneChild'
  BY DEF FamilyInv, FamilyType, OneChild
<1>3. NobodyLeft'
  BY DEF FamilyInv, FamilyType, NobodyLeft, Processes!Processes, Processes!Alive
<1>4. OneServes'
  BY DEF FamilyInv, FamilyType, OneServes, Processes!Serving
<1> QED BY <1>1, <1>2, <1>3, <1>4 DEF FamilyInv

(* With no raptor program the monitor finds its processes free: fork()     *)
(* does not fail.                                                          *)
LEMMA ForkWorks ==
  ASSUME FamilyInv, monitor = "sleeping", ~raptor
  PROVE  ~Processes!MayFail
<1>1. \A p \in Pids : proc[p] = "free"
  BY DEF FamilyInv, OneChild, NobodyLeft, Processes!Processes, Processes!Alive
<1>2. Processes!Free = Pids
  BY <1>1 DEF Processes!Free
<1>3. Cardinality(Pids) \in Nat
  BY GatewayAssumption, FS_CardinalityType
<1>4. Others \in Nat /\ Others < Cardinality(Pids)
  BY GatewayAssumption
<1>5. ~(Cardinality(Pids) <= Others)
  BY <1>3, <1>4
<1> QED BY <1>2, <1>5, SameCount DEF Processes!MayFail

LEMMA FamilyStep == FamilyInv /\ [Processes!Next]_(Processes!vars) => FamilyInv'
<1> SUFFICES ASSUME FamilyInv, [Processes!Next]_(Processes!vars) PROVE FamilyInv'
  OBVIOUS
<1> USE DEF Processes!settings
<1>1. ASSUME UNCHANGED <<monitor, proc, child, raptor, exhausted>> PROVE FamilyInv'
  BY <1>1 DEF FamilyInv, FamilyType, OneChild, NobodyLeft, OneServes, Processes!Processes, Processes!Alive
<1>9. CASE Processes!SetMasterSignal
  <2>1. monitor = "starting" /\ monitor' = "waiting" /\ UNCHANGED <<proc, child, raptor, exhausted>>
    BY <1>9 DEF Processes!SetMasterSignal
  <2> QED BY <2>1 DEF FamilyInv, FamilyType, OneChild, NobodyLeft, OneServes,
               Processes!Processes, Processes!Alive
<1>2. CASE Processes!MonitorReaps
  <2>1. PICK p \in child : proc[p] = "zombie" /\ proc' = [proc EXCEPT ![p] = "free"] /\ child' = child \ {p}
    BY <1>2 DEF Processes!MonitorReaps
  <2>2. child' = {} /\ p \in Pids
    BY <2>1 DEF FamilyInv, FamilyType, OneChild
  <2>3. UNCHANGED <<raptor, exhausted>>
    BY <1>2 DEF Processes!MonitorReaps
  <2>4. FamilyType'
    BY <2>1, <2>2 DEF FamilyInv, FamilyType, States
  <2>5. OneChild'
    BY <2>1, <2>2 DEF FamilyInv, FamilyType, OneChild
  <2>6. NobodyLeft'
    BY <2>1, <2>2, <2>3 DEF FamilyInv, FamilyType, NobodyLeft, Processes!Processes, Processes!Alive
  <2>7. OneServes'
    BY <2>1, <2>2 DEF FamilyInv, FamilyType, OneServes
  <2> QED BY <2>4, <2>5, <2>6, <2>7 DEF FamilyInv
<1>3. CASE Processes!MonitorForks
  <2>1. PICK p \in Pids : /\ proc[p] = "free" /\ proc' = [proc EXCEPT ![p] = "forked"]
                          /\ child' = child \cup {p}
    BY <1>3 DEF Processes!MonitorForks, Processes!Step
  <2>2. child = {} /\ child' = {p} /\ monitor' = "waiting" /\ UNCHANGED <<raptor, exhausted>>
    BY <1>3, <2>1 DEF Processes!MonitorForks, FamilyInv, OneChild
  <2>3. FamilyType'
    BY <2>1, <2>2 DEF FamilyInv, FamilyType, States
  <2>4. OneChild'
    BY <2>1, <2>2 DEF FamilyInv, FamilyType, OneChild
  <2>5. NobodyLeft'
    BY <2>1, <2>2 DEF FamilyInv, FamilyType, NobodyLeft, Processes!Processes, Processes!Alive
  <2>6. OneServes'
    BY <2>1, <2>2 DEF FamilyInv, FamilyType, OneServes
  <2> QED BY <2>3, <2>4, <2>5, <2>6 DEF FamilyInv
<1>4. ASSUME proc' = [p \in Pids |-> IF proc[p] = "zombie" THEN "free" ELSE proc[p]],
             monitor' = "gone", UNCHANGED <<child, raptor>>,
             exhausted' = exhausted \/ raptor
      PROVE  FamilyInv'
  <2>1. FamilyType'
    BY <1>4 DEF FamilyInv, FamilyType, States
  <2>2. OneChild'
    BY <1>4 DEF FamilyInv, FamilyType, OneChild
  <2>3. NobodyLeft'
    BY <1>4 DEF FamilyInv, FamilyType, NobodyLeft, Processes!Processes, Processes!Alive
  <2>4. OneServes'
    BY <1>4 DEF FamilyInv, FamilyType, OneServes
  <2> QED BY <2>1, <2>2, <2>3, <2>4 DEF FamilyInv
<1>5. CASE Processes!MonitorExhausted
  <2>1. monitor = "sleeping" /\ Processes!MayFail
    BY <1>5 DEF Processes!MonitorExhausted
  <2>2. raptor
    BY <2>1, ForkWorks
  <2> QED BY <1>4, <1>5, <2>2 DEF Processes!MonitorExhausted
<1>6. CASE Processes!MonitorStops
  BY <1>4, <1>6 DEF Processes!MonitorStops
<1>7. CASE Processes!Stop \/ Processes!BrokerChanges \/ UNCHANGED Processes!vars
  BY <1>1, <1>7 DEF Processes!Stop, Processes!BrokerChanges, Processes!vars
<1>8. ASSUME NEW p \in Pids, Processes!WorkerStep(p) \/ Processes!WorkerDies(p) PROVE FamilyInv'
  <2>1. CASE Processes!SetChildSignal(p) \/ Processes!Exec(p)
    BY <2>1, GoesOnKeeps DEF Processes!SetChildSignal, Processes!Exec, Processes!Step, States
  <2>2. CASE Processes!ConfigFails(p) \/ Processes!WorkerDies(p)
    BY <2>2, EndKeeps DEF Processes!ConfigFails, Processes!WorkerDies, Processes!End
  <2>3. CASE Processes!VersionError(p)
    BY <1>1, <2>3 DEF Processes!VersionError
  <2>4. CASE Processes!ForkRaptor(p)
    <3>1. raptor /\ proc[p] = "booting" /\ UNCHANGED <<monitor, child, raptor, exhausted>>
      BY <2>4 DEF Processes!ForkRaptor
    <3>2. CASE proc' = [proc EXCEPT ![p] = "booted"]
      BY <3>1, <3>2, GoesOnKeeps DEF States
    <3>3. ASSUME NEW q \in Processes!Free, proc' = [proc EXCEPT ![p] = "booted", ![q] = "exec"]
          PROVE  FamilyInv'
      <4>1. q \in Pids /\ proc[q] = "free" /\ q # p
        BY <3>1 DEF Processes!Free
      <4>2. FamilyType'
        BY <3>1, <3>3, <4>1 DEF FamilyInv, FamilyType, States
      <4>3. OneChild'
        BY <3>1, <3>3, <4>1 DEF FamilyInv, FamilyType, OneChild
      <4>4. NobodyLeft'
        BY <3>1 DEF NobodyLeft
      <4>5. OneServes'
        BY <3>1, <3>3, <4>1 DEF FamilyInv, FamilyType, OneServes
      <4> QED BY <4>2, <4>3, <4>4, <4>5 DEF FamilyInv
    <3> QED BY <2>4, <3>2, <3>3 DEF Processes!ForkRaptor
  <2>5. CASE Processes!Construct(p)
    <3>1. proc[p] \in {"booted", "booting"} /\ UNCHANGED <<monitor, child, raptor, exhausted>>
      BY <2>5 DEF Processes!Construct
    <3> QED BY <2>5, <3>1, GoesOnKeeps, EndKeeps DEF Processes!Construct, Processes!End, States
  <2>6. CASE Processes!Listen(p)
    <3>1. proc[p] = "bound" /\ UNCHANGED <<monitor, child, raptor, exhausted>>
      BY <2>6 DEF Processes!Listen
    <3> QED BY <2>6, <3>1, GoesOnKeeps, EndKeeps DEF Processes!Listen, Processes!End, States
  <2>7. CASE Processes!SignalTaken(p)
    <3>1. UNCHANGED <<monitor, child, raptor, exhausted>>
      BY <2>7 DEF Processes!SignalTaken
    <3>2. proc' = [proc EXCEPT ![p] = IF p \in child /\ monitor # "gone" THEN "zombie" ELSE "free"]
      BY <2>7 DEF Processes!SignalTaken
    <3> QED BY <3>1, <3>2, EndKeeps
  <2> QED BY <1>8, <2>1, <2>2, <2>3, <2>4, <2>5, <2>6, <2>7 DEF Processes!WorkerStep
<1> QED BY <1>2, <1>3, <1>5, <1>6, <1>7, <1>8, <1>9 DEF Processes!Next, Processes!MonitorStep

LEMMA FamilyInit == Processes!Init => FamilyInv
<1> SUFFICES ASSUME Processes!Init PROVE FamilyInv
  OBVIOUS
<1>1. PICK p \in Pids : proc = [q \in Pids |-> IF q = p THEN "forked" ELSE "free"] /\ child = {p}
  BY DEF Processes!Init
<1>2. monitor = "starting" /\ ~exhausted
  BY DEF Processes!Init
<1> QED BY <1>1, <1>2 DEF FamilyInv, FamilyType, States, OneChild, NobodyLeft, OneServes,
             Processes!Processes, Processes!Alive

(* main.cc: however the workers, the raptor programs and the signals of an *)
(* operator interleave, there is one worker at most that serves the ports, *)
(* and without raptor programs nobody else is left over.                   *)
THEOREM OneWorkerAlways == Processes!Spec => []OneWorker
<1>1. FamilyInv => OneWorker
  <2> SUFFICES ASSUME FamilyInv PROVE OneWorker
    OBVIOUS
  <2>1. Cardinality(child) <= 1
    BY AtMostOne DEF FamilyInv, OneChild
  <2>2. \A x, y \in Processes!Serving : x = y
    BY DEF FamilyInv, OneServes, Processes!Serving
  <2>3. Cardinality(Processes!Serving) <= 1
    BY <2>2, AtMostOne
  <2> QED BY <2>1, <2>3, SameCount DEF FamilyInv, NobodyLeft, OneWorker, Processes!OneWorker
<1> QED BY <1>1, FamilyInit, FamilyStep, PTL DEF Processes!Spec
-----------------------------------------------------------------------------
(* Every step of one part is a step of its specification, and the others   *)
(* do not move.                                                            *)
LEMMA OnePartMoves ==
  ASSUME [MCNext]_all
  PROVE  /\ [Next]_vars
         /\ [Receiver!Next]_(Receiver!vars)
         /\ [Processes!Next]_(Processes!vars)
<1> DEFINE Still == /\ UNCHANGED vars => [Next]_vars
                    /\ UNCHANGED thread => [Receiver!Next]_(Receiver!vars)
                    /\ UNCHANGED main => [Processes!Next]_(Processes!vars)
<1>1. Still
  BY DEF thread, main, Receiver!vars, Receiver!input, Receiver!thread, Receiver!loop,
         Processes!vars, Processes!settings
<1>2. CASE UNCHANGED all
  <2>1. UNCHANGED <<vars, thread, main>>
    BY <1>2 DEF all
  <2> QED BY <1>1, <2>1
<1>3. ASSUME Next, UNCHANGED <<thread, main>>
      PROVE  /\ [Next]_vars
             /\ [Receiver!Next]_(Receiver!vars)
             /\ [Processes!Next]_(Processes!vars)
  BY <1>1, <1>3
<1>4. ASSUME Receiver!Next, UNCHANGED <<vars, main>>
      PROVE  /\ [Next]_vars
             /\ [Receiver!Next]_(Receiver!vars)
             /\ [Processes!Next]_(Processes!vars)
  BY <1>1, <1>4
<1>5. ASSUME Processes!Next, UNCHANGED <<vars, thread>>
      PROVE  /\ [Next]_vars
             /\ [Receiver!Next]_(Receiver!vars)
             /\ [Processes!Next]_(Processes!vars)
  BY <1>1, <1>5
<1>6. CASE MCNext
  <2>1. \/ Next /\ UNCHANGED <<thread, main>>
        \/ Receiver!Next /\ UNCHANGED <<vars, main>>
        \/ Processes!Next /\ UNCHANGED <<vars, thread>>
    BY <1>6 DEF MCNext, Next, Receiver!Next, Receiver!ThreadStep, Processes!Next,
                Processes!MonitorStep, Processes!WorkerStep, Handlers, Thread, Main
  <2> QED BY <1>3, <1>4, <1>5, <2>1
<1> QED BY <1>2, <1>6

(* The run that checks handlers, receiver and processes side by side has   *)
(* no behaviour one of them would not have alone, so that what is proved   *)
(* of each holds in it.                                                    *)
THEOREM GatewaySideBySide ==
  MCSpec => Spec /\ Receiver!Spec /\ Processes!Spec
<1>1. MCInit => Init /\ Receiver!Init /\ Processes!Init
  BY DEF MCInit
<1>2. [MCNext]_all =>
        /\ [Next]_vars
        /\ [Receiver!Next]_(Receiver!vars)
        /\ [Processes!Next]_(Processes!vars)
  BY OnePartMoves
<1>3. MCSpec => MCInit /\ [][MCNext]_all
  BY PTL DEF MCSpec
<1> QED BY <1>1, <1>2, <1>3, PTL DEF Spec, Receiver!Spec, Processes!Spec
===============================================================================
