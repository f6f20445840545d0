------------------------- MODULE AsyncLogging_proofs -------------------------
(***************************************************************************)
(* Proofs about AsyncLogging for any size of the buffers and of a batch    *)
(* and any number of lines.                                                *)
(***************************************************************************)
EXTENDS AsyncLogging, SequenceTheorems, TLAPS

Flags ==
  /\ nextBuffer_ \in BOOLEAN
  /\ running_ \in BOOLEAN
  /\ newBuffer1 \in BOOLEAN
  /\ newBuffer2 \in BOOLEAN

Data ==
  /\ currentBuffer_ \in Buffer
  /\ buffers_ \in Seq(Buffer)
  /\ pc \in {"while", "lock", "wait", "write", "recycle", "ended"}
  /\ buffersToWrite \in Seq(Buffer)
  /\ file \in Seq(Nat)
  /\ dropped \subseteq Nat
  /\ lines \in Nat

(* The next buffer to write is counted from one. *)
Index == i \in Nat \ {0}

LEMMA TypeParts == Flags /\ Data /\ Index => TypeOK
  BY Zenon DEF TypeOK, Flags, Data, Index

LEMMA FlagsStep == Flags /\ [Next]_vars => Flags'
<1> SUFFICES ASSUME Flags, [Next]_vars PROVE Flags'
  OBVIOUS
<1> USE DEF Flags
<1>1. CASE AppendLine
  BY <1>1 DEF AppendLine, AppendRoom, AppendFull
<1>2. CASE While \/ Drop \/ Write \/ Stop
  BY <1>2 DEF While, Drop, Write, Stop
<1>3. CASE Lock \/ Wake
  <2>1. CASE Swap
    <3>1. newBuffer1' \in BOOLEAN /\ nextBuffer_' \in BOOLEAN
      BY <2>1 DEF Swap
    <3>2. newBuffer2' \in BOOLEAN
      BY <2>1 DEF Swap
    <3>3. running_' = running_
      BY <1>3 DEF Lock, Wake
    <3> QED BY <3>1, <3>2, <3>3
  <2>2. CASE ~Swap
    BY <1>3, <2>2 DEF Lock, Wake
  <2> QED BY <2>1, <2>2
<1>4. CASE Recycle
  <2>1. newBuffer1' \in BOOLEAN
    BY <1>4 DEF Recycle
  <2>2. newBuffer2' \in BOOLEAN
    BY <1>4 DEF Recycle
  <2> QED BY <1>4, <2>1, <2>2 DEF Recycle
<1>5. CASE UNCHANGED vars
  BY <1>5 DEF vars
<1> QED BY <1>1, <1>2, <1>3, <1>4, <1>5 DEF Next

LEMMA IndexStep == Index /\ [Next]_vars => Index'
<1> SUFFICES ASSUME Index, [Next]_vars PROVE Index'
  OBVIOUS
<1> QED
  BY DEF Index, vars, Next, AppendLine, While, Lock, Wake, Swap, Drop, Write, Recycle, Stop

LEMMA LinesAreNumbers == ASSUME NEW b \in Buffer PROVE Lines(b) \subseteq Nat
  BY DEF Lines, Buffer

LEMMA DataStep == Data /\ Index /\ [Next]_vars => Data'
<1> SUFFICES ASSUME Data, Index, [Next]_vars PROVE Data'
  OBVIOUS
<1> USE AsyncLoggingAssumption DEF Data
<1>1. CASE AppendLine
  <2>1. lines' \in Nat
    BY <1>1 DEF AppendLine
  <2>2. CASE AppendRoom
    <3>1. Append(currentBuffer_, lines') \in Buffer
      BY <2>1, <2>2 DEF AppendRoom, Buffer
    <3> QED BY <1>1, <2>1, <2>2, <3>1 DEF AppendLine, AppendRoom
  <2>3. CASE AppendFull
    <3>1. <<lines'>> \in Buffer
      BY <2>1 DEF Buffer
    <3>2. Append(buffers_, currentBuffer_) \in Seq(Buffer)
      OBVIOUS
    <3> QED BY <1>1, <2>1, <2>3, <3>1, <3>2 DEF AppendLine, AppendFull
  <2> QED BY <1>1, <2>2, <2>3 DEF AppendLine
<1>2. CASE While \/ Stop
  BY <1>2 DEF While, Stop
<1>3. CASE Lock \/ Wake
  <2>1. CASE Swap
    <3>1. <<>> \in Buffer /\ <<>> \in Seq(Buffer)
      BY DEF Buffer
    <3>2. Append(buffers_, currentBuffer_) \in Seq(Buffer)
      OBVIOUS
    <3>3. pc' = "write" /\ UNCHANGED <<file, dropped, lines>>
      BY <1>3, <2>1 DEF Lock, Wake, Swap
    <3> QED BY <2>1, <3>1, <3>2, <3>3 DEF Swap
  <2>2. CASE ~Swap
    BY <1>3, <2>2 DEF Lock, Wake
  <2> QED BY <2>1, <2>2
<1>4. CASE Drop
  <2>1. Len(buffersToWrite) > 2
    BY <1>4 DEF Drop
  <2>2. SubSeq(buffersToWrite, 1, Kept) \in Seq(Buffer)
    BY <2>1 DEF Kept
  <2>3. dropped' \subseteq Nat
    <3>1. \A k \in Kept + 1 .. Len(buffersToWrite) : Lines(buffersToWrite[k]) \subseteq Nat
      BY <2>1, LinesAreNumbers DEF Kept
    <3> QED BY <1>4, <3>1 DEF Drop
  <2> QED BY <1>4, <2>2, <2>3 DEF Drop
<1>5. CASE Write
  <2>1. buffersToWrite[i] \in Buffer
    BY <1>5 DEF Write, Index
  <2>2. file \o buffersToWrite[i] \in Seq(Nat)
    BY <2>1 DEF Buffer
  <2> QED BY <1>5, <2>2 DEF Write
<1>6. CASE Recycle
  BY <1>6 DEF Recycle
<1>7. CASE UNCHANGED vars
  BY <1>7 DEF vars
<1> QED BY <1>1, <1>2, <1>3, <1>4, <1>5, <1>6, <1>7 DEF Next

(* The log keeps its type; no buffer ever holds more than it has room for. *)
THEOREM AsyncLoggingTypeOK == Spec => []TypeOK
<1>1. Init => Flags
  BY DEF Init, Flags
<1>2. Init => Data
  BY AsyncLoggingAssumption DEF Init, Data, Buffer
<1>3. Init => Index
  BY DEF Init, Index
<1> QED BY <1>1, <1>2, <1>3, TypeParts, FlagsStep, DataStep, IndexStep, PTL DEF Spec

-----------------------------------------------------------------------------
LEMMA SparesOwedStep == TypeOK /\ SparesReady /\ SparesOwed /\ [Next]_vars => SparesOwed'
<1> SUFFICES ASSUME TypeOK, SparesReady, SparesOwed, [Next]_vars PROVE SparesOwed'
  OBVIOUS
<1> USE AsyncLoggingAssumption DEF TypeOK, SparesOwed
<1>1. CASE AppendLine
  BY <1>1 DEF AppendLine, AppendRoom, AppendFull
<1>2. CASE While \/ Stop \/ Recycle
  BY <1>2 DEF While, Stop, Recycle
<1>3. CASE Lock \/ Wake
  <2>1. CASE Swap
    <3>1. Len(Append(buffers_, currentBuffer_)) = Len(buffers_) + 1
      OBVIOUS
    <3>2. newBuffer2
      BY <1>3 DEF SparesReady, Lock, Wake
    <3>3. ~nextBuffer_ => Len(buffers_) >= 1
      OBVIOUS
    <3> QED BY <2>1, <3>1, <3>2, <3>3 DEF Swap
  <2>2. CASE ~Swap
    BY <1>3, <2>2 DEF Lock, Wake
  <2> QED BY <2>1, <2>2
<1>4. CASE Drop
  <2>1. Len(buffersToWrite) > 2
    BY <1>4 DEF Drop
  <2>2. Len(SubSeq(buffersToWrite, 1, Kept)) = 2
    BY <2>1 DEF Kept
  <2>3. Len(buffersToWrite') = 2
    BY <1>4, <2>2 DEF Drop
  <2>4. UNCHANGED <<nextBuffer_, buffers_>>
    BY <1>4 DEF Drop
  <2> QED BY <2>3, <2>4
<1>5. CASE Write
  BY <1>5 DEF Write
<1>6. CASE UNCHANGED vars
  BY <1>6 DEF vars
<1> QED BY <1>1, <1>2, <1>3, <1>4, <1>5, <1>6 DEF Next

LEMMA SparesReadyStep == TypeOK /\ SparesReady /\ SparesOwed /\ [Next]_vars => SparesReady'
<1> SUFFICES ASSUME TypeOK, SparesReady, SparesOwed, [Next]_vars PROVE SparesReady'
  OBVIOUS
<1> USE DEF SparesReady
<1>1. CASE AppendLine
  BY <1>1 DEF AppendLine
<1>2. CASE While \/ Stop \/ Drop
  BY <1>2 DEF While, Stop, Drop
<1>3. CASE Lock \/ Wake
  BY <1>3 DEF Lock, Wake, Swap
<1>4. CASE Write
  BY <1>4 DEF Write
<1>5. CASE Recycle
  <2>1. newBuffer1'
    BY <1>5 DEF Recycle, SparesOwed
  <2>2. newBuffer2'
    BY <1>5 DEF Recycle, SparesOwed, TypeOK
  <2> QED BY <2>1, <2>2
<1>6. CASE UNCHANGED vars
  BY <1>6 DEF vars
<1> QED BY <1>1, <1>2, <1>3, <1>4, <1>5, <1>6 DEF Next

(* The asserts at the head of every round hold: both spare buffers came    *)
(* back, whatever was appended meanwhile and whatever was dropped.         *)
THEOREM SparesReadyAlways == Spec => []SparesReady
<1>1. Init => SparesReady /\ SparesOwed
  BY DEF Init, SparesReady, SparesOwed
<1> QED BY <1>1, AsyncLoggingTypeOK, SparesOwedStep, SparesReadyStep, PTL DEF Spec
-----------------------------------------------------------------------------
(* The lines of two trails put together, and of two buffers put together,  *)
(* are the lines of both; the whole is in order if both are and one lies   *)
(* before the other.                                                       *)
LEMMA LinesConcat ==
  ASSUME NEW b \in Seq(Nat), NEW c \in Seq(Nat)
  PROVE  /\ Lines(b \o c) = Lines(b) \cup Lines(c)
         /\ Ascending(b \o c) <=> Ascending(b) /\ Ascending(c) /\ Before(Lines(b), Lines(c))
<1> DEFINE w == b \o c
           p == Len(b)
           q == Len(c)
<1>1. /\ p \in Nat /\ q \in Nat /\ Len(w) = p + q
      /\ \A k \in 1 .. p + q : w[k] = IF k <= p THEN b[k] ELSE c[k - p]
  BY ConcatProperties, LenProperties
<1>2. /\ \A k \in 1 .. p : b[k] \in Nat
      /\ \A k \in 1 .. q : c[k] \in Nat
  BY ElementOfSeq
<1>3. /\ Lines(b) = {b[k] : k \in 1 .. p} /\ Lines(c) = {c[k] : k \in 1 .. q}
      /\ Lines(w) = {w[k] : k \in 1 .. p + q}
  BY <1>1 DEF Lines
<1>4. /\ Ascending(b) <=> \A m, n \in 1 .. p : m < n => b[m] < b[n]
      /\ Ascending(c) <=> \A m, n \in 1 .. q : m < n => c[m] < c[n]
      /\ Ascending(w) <=> \A m, n \in 1 .. p + q : m < n => w[m] < w[n]
  BY <1>1 DEF Ascending
<1> HIDE DEF w, p, q
<1>5. \A k \in 1 .. p : w[k] = b[k] /\ k \in 1 .. p + q
  BY <1>1
<1>6. \A k \in 1 .. q : w[p + k] = c[k] /\ p + k \in 1 .. p + q
  BY <1>1
<1>7. \A k \in 1 .. p + q : k \in 1 .. p \/ (k - p \in 1 .. q /\ k = p + (k - p))
  BY <1>1
<1>8. Lines(w) = Lines(b) \cup Lines(c)
  <2>1. \A k \in 1 .. p + q : w[k] \in Lines(b) \cup Lines(c)
    BY <1>3, <1>5, <1>6, <1>7
  <2>2. \A k \in 1 .. p : b[k] \in Lines(w)
    BY <1>3, <1>5
  <2>3. \A k \in 1 .. q : c[k] \in Lines(w)
    BY <1>3, <1>6
  <2> QED BY <2>1, <2>2, <2>3, <1>3
<1>9. ASSUME Ascending(w) PROVE Ascending(b) /\ Ascending(c) /\ Before(Lines(b), Lines(c))
  <2>1. Ascending(b)
    BY <1>9, <1>4, <1>5
  <2>2. Ascending(c)
    <3> SUFFICES ASSUME NEW m \in 1 .. q, NEW n \in 1 .. q, m < n PROVE c[m] < c[n]
      BY <1>4
    <3>1. p + m < p + n
      BY <1>1
    <3> QED BY <3>1, <1>9, <1>4, <1>6
  <2>3. Before(Lines(b), Lines(c))
    <3> SUFFICES ASSUME NEW m \in 1 .. p, NEW n \in 1 .. q PROVE b[m] < c[n]
      BY <1>3 DEF Before
    <3>1. m < p + n
      BY <1>1
    <3> QED BY <3>1, <1>9, <1>4, <1>5, <1>6
  <2> QED BY <2>1, <2>2, <2>3
<1>10. ASSUME Ascending(b), Ascending(c), Before(Lines(b), Lines(c)) PROVE Ascending(w)
  <2> SUFFICES ASSUME NEW m \in 1 .. p + q, NEW n \in 1 .. p + q, m < n PROVE w[m] < w[n]
    BY <1>4
  <2>1. CASE n \in 1 .. p
    <3>1. m \in 1 .. p
      BY <2>1, <1>1
    <3> QED BY <2>1, <3>1, <1>10, <1>4, <1>5
  <2>2. CASE m \in 1 .. p /\ n - p \in 1 .. q
    <3>1. w[m] \in Lines(b)
      BY <2>2, <1>3, <1>5
    <3>2. n = p + (n - p)
      BY <1>1
    <3>3. w[n] = c[n - p]
      BY <2>2, <3>2, <1>6
    <3>4. w[n] \in Lines(c)
      BY <2>2, <3>3, <1>3
    <3> QED BY <3>1, <3>4, <1>10 DEF Before
  <2>3. CASE m - p \in 1 .. q /\ n - p \in 1 .. q
    <3>1. m - p < n - p /\ m = p + (m - p) /\ n = p + (n - p)
      BY <1>1, <2>3
    <3>2. c[m - p] < c[n - p]
      BY <3>1, <2>3, <1>10, <1>4
    <3>3. w[m] = c[m - p] /\ w[n] = c[n - p]
      BY <3>1, <2>3, <1>6
    <3> QED BY <3>2, <3>3
  <2>4. ~(m - p \in 1 .. q /\ n \in 1 .. p)
    BY <1>1
  <2> QED BY <2>1, <2>2, <2>3, <2>4, <1>7
<1> QED BY <1>8, <1>9, <1>10 DEF w

LEMMA TrailConcat ==
  ASSUME NEW t \in Seq(Seq(Nat)), NEW u \in Seq(Seq(Nat))
  PROVE  /\ AllLines(t \o u) = AllLines(t) \cup AllLines(u)
         /\ InOrder(t \o u) <=> InOrder(t) /\ InOrder(u) /\ Before(AllLines(t), AllLines(u))
<1> DEFINE w == t \o u
           p == Len(t)
           q == Len(u)
<1>1. /\ p \in Nat /\ q \in Nat /\ Len(w) = p + q
      /\ \A k \in 1 .. p + q : w[k] = IF k <= p THEN t[k] ELSE u[k - p]
  BY ConcatProperties, LenProperties
<1>2. /\ AllLines(t) = UNION {Lines(t[k]) : k \in 1 .. p}
      /\ AllLines(u) = UNION {Lines(u[k]) : k \in 1 .. q}
      /\ AllLines(w) = UNION {Lines(w[k]) : k \in 1 .. p + q}
  BY <1>1 DEF AllLines
<1>3. /\ InOrder(t) <=> /\ \A k \in 1 .. p : Ascending(t[k])
                       /\ \A k, l \in 1 .. p : k < l => Before(Lines(t[k]), Lines(t[l]))
      /\ InOrder(u) <=> /\ \A k \in 1 .. q : Ascending(u[k])
                       /\ \A k, l \in 1 .. q : k < l => Before(Lines(u[k]), Lines(u[l]))
      /\ InOrder(w) <=> /\ \A k \in 1 .. p + q : Ascending(w[k])
                       /\ \A k, l \in 1 .. p + q : k < l => Before(Lines(w[k]), Lines(w[l]))
  BY <1>1 DEF InOrder
<1> HIDE DEF w, p, q
<1>5. \A k \in 1 .. p : w[k] = t[k] /\ k \in 1 .. p + q
  BY <1>1
<1>6. \A k \in 1 .. q : w[p + k] = u[k] /\ p + k \in 1 .. p + q
  BY <1>1
<1>7. \A k \in 1 .. p + q : k \in 1 .. p \/ (k - p \in 1 .. q /\ k = p + (k - p))
  BY <1>1
<1>8. AllLines(w) = AllLines(t) \cup AllLines(u)
  <2>1. \A k \in 1 .. p + q : Lines(w[k]) \subseteq AllLines(t) \cup AllLines(u)
    BY <1>2, <1>5, <1>6, <1>7
  <2>2. \A k \in 1 .. p : Lines(t[k]) \subseteq AllLines(w)
    BY <1>2, <1>5
  <2>3. \A k \in 1 .. q : Lines(u[k]) \subseteq AllLines(w)
    BY <1>2, <1>6
  <2>4. AllLines(w) \subseteq AllLines(t) \cup AllLines(u)
    BY Zenon, <2>1, <1>2
  <2>5. AllLines(t) \subseteq AllLines(w) /\ AllLines(u) \subseteq AllLines(w)
    BY Zenon, <2>2, <2>3, <1>2
  <2> QED BY Zenon, <2>4, <2>5
<1>9. ASSUME InOrder(w) PROVE InOrder(t) /\ InOrder(u) /\ Before(AllLines(t), AllLines(u))
  <2>1. InOrder(t)
    BY <1>9, <1>3, <1>5
  <2>2. InOrder(u)
    <3>1. ASSUME NEW k \in 1 .. q PROVE Ascending(u[k])
      BY <1>9, <1>3, <1>6
    <3>2. ASSUME NEW k \in 1 .. q, NEW l \in 1 .. q, k < l PROVE Before(Lines(u[k]), Lines(u[l]))
      <4>1. p + k < p + l
        BY <1>1, <3>2
      <4> QED BY <4>1, <1>9, <1>3, <1>6
    <3> QED BY <3>1, <3>2, <1>3
  <2>3. ASSUME NEW k \in 1 .. p, NEW l \in 1 .. q PROVE Before(Lines(t[k]), Lines(u[l]))
    <3>1. k < p + l
      BY <1>1
    <3> QED BY <3>1, <1>9, <1>3, <1>5, <1>6
  <2>4. Before(AllLines(t), AllLines(u))
    <3> SUFFICES ASSUME NEW x \in AllLines(t), NEW y \in AllLines(u) PROVE x < y
      BY DEF Before
    <3>1. PICK k \in 1 .. p : x \in Lines(t[k])
      BY Zenon, <1>2
    <3>2. PICK l \in 1 .. q : y \in Lines(u[l])
      BY Zenon, <1>2
    <3> QED BY Zenon, <2>3, <3>1, <3>2 DEF Before
  <2> QED BY <2>1, <2>2, <2>4
<1>10. ASSUME InOrder(t), InOrder(u), Before(AllLines(t), AllLines(u)) PROVE InOrder(w)
  <2>1. ASSUME NEW k \in 1 .. p + q PROVE Ascending(w[k])
    BY <1>10, <1>3, <1>5, <1>6, <1>7
  <2>2. ASSUME NEW k \in 1 .. p + q, NEW l \in 1 .. p + q, k < l
        PROVE  Before(Lines(w[k]), Lines(w[l]))
    <3>1. CASE l \in 1 .. p
      <4>1. k \in 1 .. p
        BY <3>1, <2>2, <1>1
      <4> QED BY <3>1, <4>1, <2>2, <1>10, <1>3, <1>5
    <3>2. CASE k \in 1 .. p /\ l - p \in 1 .. q
      <4>1. w[k] = t[k]
        BY <3>2, <1>5
      <4>2. l = p + (l - p)
        BY <1>1
      <4>3. w[l] = u[l - p]
        BY <3>2, <4>2, <1>6
      <4>4. Lines(w[k]) \subseteq AllLines(t)
        BY Zenon, <3>2, <4>1, <1>2
      <4>5. Lines(w[l]) \subseteq AllLines(u)
        BY Zenon, <3>2, <4>3, <1>2
      <4> QED BY Zenon, <4>4, <4>5, <1>10 DEF Before
    <3>3. CASE k - p \in 1 .. q /\ l - p \in 1 .. q
      <4>1. k - p < l - p /\ k = p + (k - p) /\ l = p + (l - p)
        BY <1>1, <2>2, <3>3
      <4>2. w[k] = u[k - p] /\ w[l] = u[l - p]
        BY <4>1, <3>3, <1>6
      <4> QED BY <4>1, <4>2, <3>3, <1>10, <1>3
    <3>4. ~(k - p \in 1 .. q /\ l \in 1 .. p)
      BY <1>1, <2>2
    <3> QED BY <3>1, <3>2, <3>3, <3>4, <1>7
  <2> QED BY <2>1, <2>2, <1>3
<1> QED BY <1>8, <1>9, <1>10 DEF w

LEMMA TrailOne ==
  ASSUME NEW b \in Seq(Nat)
  PROVE  /\ <<b>> \in Seq(Seq(Nat))
         /\ AllLines(<<b>>) = Lines(b)
         /\ InOrder(<<b>>) <=> Ascending(b)
<1>1. Len(<<b>>) = 1 /\ <<b>>[1] = b /\ <<b>> \in Seq(Seq(Nat))
  OBVIOUS
<1>2. 1 .. 1 = {1}
  OBVIOUS
<1> QED BY <1>1, <1>2 DEF AllLines, InOrder

LEMMA TrailNone ==
  /\ <<>> \in Seq(Seq(Nat)) /\ AllLines(<<>>) = {} /\ InOrder(<<>>)
  /\ <<>> \in Seq(Nat) /\ Lines(<<>>) = {} /\ Ascending(<<>>)
<1>1. <<>> \in Seq(Seq(Nat)) /\ <<>> \in Seq(Nat) /\ Len(<<>>) = 0
  OBVIOUS
<1>2. 1 .. 0 = {}
  OBVIOUS
<1> QED BY <1>1, <1>2 DEF AllLines, InOrder, Lines, Ascending

LEMMA LinesOne ==
  ASSUME NEW n \in Nat
  PROVE  <<n>> \in Seq(Nat) /\ Lines(<<n>>) = {n} /\ Ascending(<<n>>)
<1>1. Len(<<n>>) = 1 /\ <<n>>[1] = n /\ <<n>> \in Seq(Nat)
  OBVIOUS
<1>2. 1 .. 1 = {1}
  OBVIOUS
<1> QED BY <1>1, <1>2 DEF Lines, Ascending

(* Four sets of lines, each before those that follow it.                   *)
Layered(a, b, c, d) ==
  /\ Before(a, b) /\ Before(a, c) /\ Before(a, d)
  /\ Before(b, c) /\ Before(b, d) /\ Before(c, d)

LEMMA TrailParts ==
  ASSUME NEW f \in Seq(Nat), NEW m \in Seq(Seq(Nat)), NEW b \in Seq(Seq(Nat)), NEW c \in Seq(Nat)
  PROVE  /\ AllLines(<<f>> \o m \o b \o <<c>>) = Lines(f) \cup AllLines(m) \cup AllLines(b) \cup Lines(c)
         /\ InOrder(<<f>> \o m \o b \o <<c>>)
              <=> /\ Ascending(f) /\ InOrder(m) /\ InOrder(b) /\ Ascending(c)
                  /\ Layered(Lines(f), AllLines(m), AllLines(b), Lines(c))
<1> DEFINE u == <<f>> \o m
           v == u \o b
           w == v \o <<c>>
<1>1. /\ AllLines(<<f>>) = Lines(f) /\ (InOrder(<<f>>) <=> Ascending(f)) /\ <<f>> \in Seq(Seq(Nat))
      /\ AllLines(<<c>>) = Lines(c) /\ (InOrder(<<c>>) <=> Ascending(c)) /\ <<c>> \in Seq(Seq(Nat))
  BY TrailOne
<1>2. u \in Seq(Seq(Nat)) /\ v \in Seq(Seq(Nat))
  BY <1>1, ConcatProperties
<1>3. AllLines(u) = Lines(f) \cup AllLines(m)
      /\ (InOrder(u) <=> Ascending(f) /\ InOrder(m) /\ Before(Lines(f), AllLines(m)))
  BY <1>1, TrailConcat, ZenonT(30)
<1>4. AllLines(v) = AllLines(u) \cup AllLines(b)
      /\ (InOrder(v) <=> InOrder(u) /\ InOrder(b) /\ Before(AllLines(u), AllLines(b)))
  BY <1>2, TrailConcat
<1>5. AllLines(w) = AllLines(v) \cup Lines(c)
      /\ (InOrder(w) <=> InOrder(v) /\ Ascending(c) /\ Before(AllLines(v), Lines(c)))
  <2> HIDE DEF v
  <2>1. AllLines(w) = AllLines(v) \cup AllLines(<<c>>)
        /\ (InOrder(w) <=> InOrder(v) /\ InOrder(<<c>>) /\ Before(AllLines(v), AllLines(<<c>>)))
    BY <1>1, <1>2, TrailConcat
  <2> QED BY Zenon, <2>1, <1>1
<1>6. \A a1, a2, a3 : Before(a1 \cup a2, a3) <=> Before(a1, a3) /\ Before(a2, a3)
  BY DEF Before
<1> HIDE DEF u, v, w
<1>7. AllLines(w) = Lines(f) \cup AllLines(m) \cup AllLines(b) \cup Lines(c)
  BY <1>3, <1>4, <1>5
<1>8. Before(AllLines(u), AllLines(b)) <=> Before(Lines(f), AllLines(b)) /\ Before(AllLines(m), AllLines(b))
  BY <1>3, <1>6
<1>9. Before(AllLines(v), Lines(c))
       <=> Before(Lines(f), Lines(c)) /\ Before(AllLines(m), Lines(c)) /\ Before(AllLines(b), Lines(c))
  BY <1>3, <1>4, <1>6
<1>10. InOrder(w)
         <=> /\ Ascending(f) /\ InOrder(m) /\ InOrder(b) /\ Ascending(c)
             /\ Layered(Lines(f), AllLines(m), AllLines(b), Lines(c))
  BY Zenon, <1>3, <1>4, <1>5, <1>8, <1>9 DEF Layered
<1> QED BY Zenon, <1>7, <1>10 DEF w, v, u

(* LinesInOrder, part by part of the trail.                                *)
PartsInOrder ==
  /\ dropped \cup Lines(file) \cup AllLines(Unwritten) \cup AllLines(buffers_) \cup Lines(currentBuffer_)
       = 1 .. lines
  /\ Ascending(file)
  /\ InOrder(Unwritten)
  /\ InOrder(buffers_)
  /\ Ascending(currentBuffer_)
  /\ Layered(Lines(file), AllLines(Unwritten), AllLines(buffers_), Lines(currentBuffer_))

LEMMA TrailTypes ==
  ASSUME TypeOK, Index
  PROVE  /\ file \in Seq(Nat) /\ currentBuffer_ \in Seq(Nat)
         /\ buffers_ \in Seq(Seq(Nat)) /\ buffersToWrite \in Seq(Seq(Nat))
         /\ Unwritten \in Seq(Seq(Nat))
<1>1. /\ file \in Seq(Nat) /\ currentBuffer_ \in Buffer /\ buffers_ \in Seq(Buffer)
      /\ buffersToWrite \in Seq(Buffer) /\ i \in Nat
  BY DEF TypeOK
<1>2. Buffer \subseteq Seq(Nat)
  BY DEF Buffer
<1>3. buffers_ \in Seq(Seq(Nat)) /\ buffersToWrite \in Seq(Seq(Nat))
  BY <1>1, <1>2, SeqMonotonic
<1> DEFINE n == Len(buffersToWrite)
<1>4. n \in Nat /\ <<>> \in Seq(Seq(Nat))
  BY <1>3, LenProperties
<1>5. SubSeq(buffersToWrite, i, n) \in Seq(Seq(Nat))
  <2>1. \A k \in i .. n : buffersToWrite[k] \in Seq(Nat)
    BY <1>1, <1>3, <1>4, ElementOfSeq DEF Index
  <2> QED BY <1>1, <1>4, <2>1, SubSeqProperties
<1> QED BY <1>1, <1>2, <1>3, <1>4, <1>5 DEF Unwritten

LEMMA PartsOfLines == TypeOK /\ Index => (LinesInOrder <=> PartsInOrder)
<1> SUFFICES ASSUME TypeOK, Index PROVE LinesInOrder <=> PartsInOrder
  OBVIOUS
<1>1. /\ AllLines(Trail) = Lines(file) \cup AllLines(Unwritten) \cup AllLines(buffers_) \cup Lines(currentBuffer_)
      /\ InOrder(Trail)
           <=> /\ Ascending(file) /\ InOrder(Unwritten) /\ InOrder(buffers_) /\ Ascending(currentBuffer_)
               /\ Layered(Lines(file), AllLines(Unwritten), AllLines(buffers_), Lines(currentBuffer_))
  BY TrailTypes, TrailParts DEF Trail
<1>2. dropped \cup AllLines(Trail)
        = dropped \cup Lines(file) \cup AllLines(Unwritten) \cup AllLines(buffers_) \cup Lines(currentBuffer_)
  BY <1>1
<1> QED BY Zenon, <1>1, <1>2 DEF LinesInOrder, PartsInOrder

(* A step that moves no line.                                              *)
LEMMA PartsStay ==
  ASSUME PartsInOrder, UNCHANGED <<dropped, file, buffers_, currentBuffer_, lines>>,
         Unwritten' = Unwritten
  PROVE  PartsInOrder'
  BY DEF PartsInOrder

LEMMA PartsAppendLine ==
  ASSUME TypeOK, Index, PartsInOrder, AppendLine
  PROVE  PartsInOrder'
<1> DEFINE F == Lines(file)
           M == AllLines(Unwritten)
           B == AllLines(buffers_)
           C == Lines(currentBuffer_)
<1>1. /\ lines \in Nat /\ lines' = lines + 1 /\ lines' \in Nat /\ UNCHANGED <<dropped, file>>
      /\ Unwritten' = Unwritten
  BY DEF TypeOK, AppendLine, Unwritten
<1>2. /\ file \in Seq(Nat) /\ currentBuffer_ \in Seq(Nat) /\ buffers_ \in Seq(Seq(Nat))
      /\ Unwritten \in Seq(Seq(Nat))
  BY TrailTypes
<1>3. /\ dropped \cup F \cup M \cup B \cup C = 1 .. lines
      /\ Ascending(file) /\ InOrder(Unwritten) /\ InOrder(buffers_) /\ Ascending(currentBuffer_)
      /\ Layered(F, M, B, C)
  BY DEF PartsInOrder
<1>4. <<lines'>> \in Seq(Nat) /\ Lines(<<lines'>>) = {lines'} /\ Ascending(<<lines'>>)
  BY <1>1, LinesOne
<1>5. 1 .. lines' = (1 .. lines) \cup {lines'} /\ \A x \in 1 .. lines : x < lines'
  BY <1>1
<1>6. \A X : X \subseteq 1 .. lines => Before(X, {lines'})
  BY <1>5 DEF Before
<1>7. F \subseteq 1 .. lines /\ M \subseteq 1 .. lines /\ B \subseteq 1 .. lines /\ C \subseteq 1 .. lines
  BY <1>3
<1> HIDE DEF F, M, B, C
<1>8. CASE AppendRoom
  <2>1. currentBuffer_' = currentBuffer_ \o <<lines'>> /\ UNCHANGED buffers_
    BY <1>8, <1>1, <1>2, AppendIsConcat DEF AppendRoom
  <2>2. /\ Lines(currentBuffer_ \o <<lines'>>) = C \cup {lines'}
        /\ Ascending(currentBuffer_ \o <<lines'>>)
    <3>1. Before(C, {lines'})
      BY <1>6, <1>7
    <3> QED BY <1>2, <1>3, <1>4, <3>1, LinesConcat, ZenonT(30) DEF C
  <2>3. Lines(currentBuffer_') = C \cup {lines'} /\ Ascending(currentBuffer_')
    BY Zenon, <2>1, <2>2
  <2>4. \A X, Y : Before(X, Y \cup {lines'}) <=> Before(X, Y) /\ Before(X, {lines'})
    BY DEF Before
  <2>5. Layered(F, M, B, C \cup {lines'})
    BY <1>3, <1>6, <1>7, <2>4 DEF Layered
  <2>6. dropped \cup F \cup M \cup B \cup (C \cup {lines'}) = 1 .. lines'
    BY <1>3, <1>5
  <2>7. Lines(file') = F /\ AllLines(Unwritten') = M /\ AllLines(buffers_') = B
    BY Zenon, <1>1, <2>1 DEF F, M, B
  <2> QED BY <1>1, <1>3, <2>1, <2>3, <2>5, <2>6, <2>7 DEF PartsInOrder
<1>9. CASE AppendFull
  <2>1. buffers_' = buffers_ \o <<currentBuffer_>> /\ currentBuffer_' = <<lines'>>
    BY <1>9, <1>2, AppendIsConcat DEF AppendFull
  <2>2. /\ AllLines(buffers_ \o <<currentBuffer_>>) = B \cup C
        /\ InOrder(buffers_ \o <<currentBuffer_>>)
    <3>1. /\ <<currentBuffer_>> \in Seq(Seq(Nat)) /\ AllLines(<<currentBuffer_>>) = C
          /\ InOrder(<<currentBuffer_>>)
      BY <1>2, <1>3, TrailOne DEF C
    <3>2. Before(B, C)
      BY <1>3 DEF Layered
    <3>3. AllLines(buffers_ \o <<currentBuffer_>>) = AllLines(buffers_) \cup AllLines(<<currentBuffer_>>)
          /\ (InOrder(buffers_ \o <<currentBuffer_>>)
                <=> InOrder(buffers_) /\ InOrder(<<currentBuffer_>>)
                    /\ Before(AllLines(buffers_), AllLines(<<currentBuffer_>>)))
      BY <1>2, <3>1, TrailConcat
    <3> QED BY Zenon, <1>3, <3>1, <3>2, <3>3 DEF B
  <2>3. AllLines(buffers_') = B \cup C /\ InOrder(buffers_')
    BY Zenon, <2>1, <2>2
  <2>4. Lines(currentBuffer_') = {lines'} /\ Ascending(currentBuffer_')
    BY Zenon, <2>1, <1>4
  <2>5. \A X : Before(X, B \cup C) <=> Before(X, B) /\ Before(X, C)
    BY DEF Before
  <2>6. Layered(F, M, B \cup C, {lines'})
    <3>1. Before(B \cup C, {lines'})
      BY <1>6, <1>7
    <3> QED BY <1>3, <1>6, <1>7, <2>5, <3>1 DEF Layered
  <2>7. dropped \cup F \cup M \cup (B \cup C) \cup {lines'} = 1 .. lines'
    BY <1>3, <1>5
  <2>8. Lines(file') = F /\ AllLines(Unwritten') = M
    BY Zenon, <1>1 DEF F, M
  <2> QED BY <1>1, <1>3, <2>3, <2>4, <2>6, <2>7, <2>8 DEF PartsInOrder
<1> QED BY <1>8, <1>9 DEF AppendLine

(* The batch is what the full buffers and the current one were.            *)
LEMMA PartsSwap ==
  ASSUME TypeOK, Index, PartsInOrder, Swap, pc # "write", UNCHANGED <<file, dropped, lines>>
  PROVE  PartsInOrder'
<1> DEFINE F == Lines(file)
           B == AllLines(buffers_)
           C == Lines(currentBuffer_)
           w == buffers_ \o <<currentBuffer_>>
<1>1. /\ file \in Seq(Nat) /\ currentBuffer_ \in Seq(Nat) /\ buffers_ \in Seq(Seq(Nat))
  BY TrailTypes
<1>2. /\ <<currentBuffer_>> \in Seq(Seq(Nat)) /\ AllLines(<<currentBuffer_>>) = C
      /\ InOrder(<<currentBuffer_>>) <=> Ascending(currentBuffer_)
  BY <1>1, TrailOne
<1>3. w \in Seq(Seq(Nat))
  BY <1>1, <1>2, ConcatProperties
<1>4. buffersToWrite' = w /\ pc' = "write" /\ i' = 1 /\ buffers_' = <<>> /\ currentBuffer_' = <<>>
  BY <1>1, AppendIsConcat DEF Swap
<1>5. Unwritten' = w
  <2>1. Unwritten' = SubSeq(w, 1, Len(w))
    BY <1>4 DEF Unwritten
  <2> QED BY <2>1, <1>3, SubSeqFull
<1>6. AllLines(Unwritten) = {} /\ InOrder(Unwritten)
  BY TrailNone DEF Unwritten
<1>7. /\ dropped \cup F \cup B \cup C = 1 .. lines
      /\ Ascending(file) /\ InOrder(buffers_) /\ Ascending(currentBuffer_)
      /\ Before(F, B) /\ Before(F, C) /\ Before(B, C)
  BY <1>6 DEF PartsInOrder, Layered
<1>8. /\ AllLines(w) = B \cup C
      /\ InOrder(w)
  <2>1. AllLines(w) = AllLines(buffers_) \cup AllLines(<<currentBuffer_>>)
        /\ (InOrder(w) <=> InOrder(buffers_) /\ InOrder(<<currentBuffer_>>)
                           /\ Before(AllLines(buffers_), AllLines(<<currentBuffer_>>)))
    BY <1>1, <1>2, TrailConcat
  <2> QED BY Zenon, <2>1, <1>2, <1>7
<1> HIDE DEF F, B, C, w
<1>9. /\ AllLines(Unwritten') = B \cup C /\ InOrder(Unwritten')
      /\ AllLines(buffers_') = {} /\ InOrder(buffers_')
      /\ Lines(currentBuffer_') = {} /\ Ascending(currentBuffer_')
      /\ Lines(file') = F /\ Ascending(file')
  BY Zenon, <1>4, <1>5, <1>7, <1>8, TrailNone DEF F
<1>10. Layered(F, B \cup C, {}, {})
  BY <1>7 DEF Layered, Before
<1>11. dropped \cup F \cup (B \cup C) \cup {} \cup {} = 1 .. lines
  BY <1>7
<1> QED BY <1>9, <1>10, <1>11 DEF PartsInOrder

(* Too long a batch loses its buffers from the third on, and the lines in  *)
(* them are those counted as dropped.                                      *)
LEMMA PartsDrop ==
  ASSUME TypeOK, Index, PartsInOrder, Drop
  PROVE  PartsInOrder'
<1> DEFINE b == buffersToWrite
           n == Len(b)
           k == SubSeq(b, 1, 2)
           d == SubSeq(b, 3, n)
<1>1. /\ b \in Seq(Seq(Nat)) /\ n \in Nat /\ n > 2
  BY TrailTypes, LenProperties, AsyncLoggingAssumption DEF Drop
<1>2. /\ pc = "write" /\ i = 1 /\ pc' = pc /\ i' = i
      /\ UNCHANGED <<file, buffers_, currentBuffer_, lines>>
      /\ buffersToWrite' = k
      /\ dropped' = dropped \cup UNION {Lines(b[x]) : x \in 3 .. n}
  BY DEF Drop, Kept
<1>3. k \in Seq(Seq(Nat)) /\ d \in Seq(Seq(Nat)) /\ Len(k) = 2
      /\ Len(d) = n - 2 /\ \A x \in 1 .. n - 2 : d[x] = b[x + 2]
  <2>1. \A x \in 1 .. n : b[x] \in Seq(Nat)
    BY <1>1, ElementOfSeq
  <2>2. k \in Seq(Seq(Nat)) /\ Len(k) = 2
    BY <1>1, <2>1, SubSeqProperties
  <2>3. /\ d \in Seq(Seq(Nat)) /\ Len(d) = IF 3 <= n THEN n - 3 + 1 ELSE 0
        /\ \A x \in 1 .. n - 3 + 1 : d[x] = b[3 + x - 1]
    <3>1. \A x \in 3 .. n : b[x] \in Seq(Nat)
      BY <2>1
    <3> QED BY <3>1, <1>1, SubSeqProperties
  <2> QED BY <1>1, <2>2, <2>3
<1>4. Unwritten = k \o d
  <2>1. Unwritten = SubSeq(b, 1, n)
    BY <1>2 DEF Unwritten
  <2>2. SubSeq(b, 1, 2) \o SubSeq(b, 2 + 1, n) = SubSeq(b, 1, n)
    BY <1>1, ConcatAdjacentSubSeq
  <2> QED BY <2>1, <2>2
<1>5. Unwritten' = k
  <2>1. Unwritten' = SubSeq(k, 1, Len(k))
    BY <1>2 DEF Unwritten
  <2> QED BY <2>1, <1>3, SubSeqFull
<1>6. UNION {Lines(b[x]) : x \in 3 .. n} = AllLines(d)
  <2>1. AllLines(d) = UNION {Lines(d[x]) : x \in 1 .. n - 2}
    BY <1>3 DEF AllLines
  <2>2. \A x \in 3 .. n : x - 2 \in 1 .. n - 2 /\ d[x - 2] = b[x]
    BY <1>1, <1>3
  <2>3. \A x \in 1 .. n - 2 : x + 2 \in 3 .. n /\ d[x] = b[x + 2]
    BY <1>1, <1>3
  <2> HIDE DEF d, n, b
  <2>4. UNION {Lines(b[x]) : x \in 3 .. n} \subseteq AllLines(d)
    BY <2>1, <2>2
  <2>5. AllLines(d) \subseteq UNION {Lines(b[x]) : x \in 3 .. n}
    BY <2>1, <2>3
  <2> QED BY Zenon, <2>4, <2>5
<1> HIDE DEF k, d, n
<1>7. /\ AllLines(k \o d) = AllLines(k) \cup AllLines(d)
      /\ InOrder(k \o d) <=> InOrder(k) /\ InOrder(d) /\ Before(AllLines(k), AllLines(d))
  BY <1>3, TrailConcat
<1>8. /\ dropped \cup Lines(file) \cup (AllLines(k) \cup AllLines(d)) \cup AllLines(buffers_)
           \cup Lines(currentBuffer_) = 1 .. lines
      /\ Ascending(file) /\ InOrder(k) /\ InOrder(buffers_) /\ Ascending(currentBuffer_)
      /\ Layered(Lines(file), AllLines(k) \cup AllLines(d), AllLines(buffers_), Lines(currentBuffer_))
  BY Zenon, <1>4, <1>7 DEF PartsInOrder
<1>9. Layered(Lines(file), AllLines(k), AllLines(buffers_), Lines(currentBuffer_))
  BY <1>8 DEF Layered, Before
<1>10. dropped' = dropped \cup AllLines(d)
  BY Zenon, <1>2, <1>6 DEF n
<1>11. dropped' \cup Lines(file) \cup AllLines(k) \cup AllLines(buffers_) \cup Lines(currentBuffer_) = 1 .. lines
  BY <1>8, <1>10
<1> QED BY Zenon, <1>2, <1>5, <1>8, <1>9, <1>11 DEF PartsInOrder

(* The next buffer of the batch goes to the end of the file.               *)
LEMMA PartsWrite ==
  ASSUME TypeOK, Index, PartsInOrder, Write
  PROVE  PartsInOrder'
<1> DEFINE n == Len(buffersToWrite)
           b == buffersToWrite[i]
           r == SubSeq(buffersToWrite, i + 1, n)
           R == AllLines(r)
           B == AllLines(buffers_)
           C == Lines(currentBuffer_)
<1>1. /\ buffersToWrite \in Seq(Seq(Nat)) /\ n \in Nat /\ i \in 1 .. n /\ file \in Seq(Nat)
  BY TrailTypes, LenProperties DEF Write, Index
<1>2. /\ pc = "write" /\ i' = i + 1 /\ file' = file \o b
      /\ pc' = IF i = n THEN "recycle" ELSE "write"
      /\ UNCHANGED <<dropped, buffers_, currentBuffer_, lines, buffersToWrite>>
  BY DEF Write
<1>3. b \in Seq(Nat) /\ r \in Seq(Seq(Nat))
  <2>1. \A x \in 1 .. n : buffersToWrite[x] \in Seq(Nat)
    BY <1>1, ElementOfSeq
  <2>2. \A x \in i + 1 .. n : buffersToWrite[x] \in Seq(Nat)
    BY <1>1, <2>1
  <2> QED BY <1>1, <2>1, <2>2, SubSeqProperties
<1>4. Unwritten = <<b>> \o r
  <2>1. Unwritten = SubSeq(buffersToWrite, i, n)
    BY <1>2 DEF Unwritten
  <2> QED BY <2>1, <1>1, SubSeqRecursiveFirst
<1>5. Unwritten' = r
  <2>1. CASE i = n
    <3>1. r = <<>>
      BY <2>1, <1>1, SubSeqEmpty
    <3>2. Unwritten' = <<>>
      BY <2>1, <1>2 DEF Unwritten
    <3> QED BY <3>1, <3>2
  <2>2. CASE i # n
    BY <2>2, <1>2 DEF Unwritten
  <2> QED BY <2>1, <2>2
<1>6. /\ <<b>> \in Seq(Seq(Nat)) /\ AllLines(<<b>>) = Lines(b)
      /\ InOrder(<<b>>) <=> Ascending(b)
  BY <1>3, TrailOne
<1>7. /\ AllLines(<<b>> \o r) = AllLines(<<b>>) \cup R
      /\ InOrder(<<b>> \o r) <=> InOrder(<<b>>) /\ InOrder(r) /\ Before(AllLines(<<b>>), R)
  BY <1>3, <1>6, TrailConcat
<1>8. /\ Lines(file \o b) = Lines(file) \cup Lines(b)
      /\ Ascending(file \o b) <=> Ascending(file) /\ Ascending(b) /\ Before(Lines(file), Lines(b))
  BY <1>1, <1>3, LinesConcat
<1> HIDE DEF n, b, r, R, B, C
<1>9. AllLines(Unwritten) = Lines(b) \cup R
      /\ (InOrder(Unwritten) <=> Ascending(b) /\ InOrder(r) /\ Before(Lines(b), R))
  BY Zenon, <1>4, <1>6, <1>7
<1>10. /\ dropped \cup Lines(file) \cup (Lines(b) \cup R) \cup B \cup C = 1 .. lines
       /\ Ascending(file) /\ Ascending(b) /\ InOrder(r) /\ Before(Lines(b), R)
       /\ InOrder(buffers_) /\ Ascending(currentBuffer_)
       /\ Layered(Lines(file), Lines(b) \cup R, B, C)
  BY Zenon, <1>9 DEF PartsInOrder, B, C
<1>11. Before(Lines(file), Lines(b)) /\ Layered(Lines(file) \cup Lines(b), R, B, C)
  BY <1>10 DEF Layered, Before
<1>12. /\ Lines(file') = Lines(file) \cup Lines(b) /\ Ascending(file')
  BY Zenon, <1>2, <1>8, <1>10, <1>11
<1>13. dropped \cup (Lines(file) \cup Lines(b)) \cup R \cup B \cup C = 1 .. lines
  BY <1>10
<1>14. AllLines(Unwritten') = R /\ InOrder(Unwritten') /\ AllLines(buffers_') = B /\ Lines(currentBuffer_') = C
  BY Zenon, <1>2, <1>5, <1>10 DEF R, B, C
<1> QED BY Zenon, <1>2, <1>10, <1>11, <1>12, <1>13, <1>14 DEF PartsInOrder

LEMMA PartsStep ==
  ASSUME TypeOK, Index, PartsInOrder, [Next]_vars
  PROVE  PartsInOrder'
<1>1. CASE AppendLine
  BY <1>1, PartsAppendLine
<1>2. CASE Lock \/ Wake
  <2>1. CASE Swap
    <3>1. pc # "write" /\ UNCHANGED <<file, dropped, lines>>
      BY <1>2 DEF Lock, Wake
    <3> QED BY <2>1, <3>1, PartsSwap
  <2>2. CASE ~Swap
    <3>1. pc = "lock" /\ pc' = "wait" /\ UNCHANGED <<file, dropped, lines, buffers_, currentBuffer_>>
      BY <1>2, <2>2 DEF Lock, Wake
    <3>2. Unwritten' = Unwritten
      BY <3>1 DEF Unwritten
    <3> QED BY <3>1, <3>2, PartsStay
  <2> QED BY <2>1, <2>2
<1>3. CASE While \/ Recycle \/ Stop \/ UNCHANGED vars
  <2>1. UNCHANGED <<dropped, file, buffers_, currentBuffer_, lines>>
    BY <1>3 DEF While, Recycle, Stop, vars
  <2>2. Unwritten' = Unwritten
    <3>1. CASE While \/ Recycle
      <4>1. pc # "write" /\ pc' # "write"
        BY <3>1 DEF While, Recycle
      <4> QED BY <4>1 DEF Unwritten
    <3>2. CASE Stop \/ UNCHANGED vars
      BY <3>2 DEF Stop, vars, Unwritten
    <3> QED BY <1>3, <3>1, <3>2
  <2> QED BY <2>1, <2>2, PartsStay
<1>4. CASE Drop
  BY <1>4, PartsDrop
<1>5. CASE Write
  BY <1>5, PartsWrite
<1> QED BY <1>1, <1>2, <1>3, <1>4, <1>5 DEF Next

(* No line of any thread is lost unless its whole buffer was dropped from  *)
(* too long a batch, none is written twice, and the file has the lines in  *)
(* the order they were appended in.                                        *)
THEOREM LinesInOrderAlways == Spec => []LinesInOrder
<1>1. Init => PartsInOrder
  <2> SUFFICES ASSUME Init PROVE PartsInOrder
    OBVIOUS
  <2>1. file = <<>> /\ Unwritten = <<>> /\ buffers_ = <<>> /\ currentBuffer_ = <<>>
        /\ dropped = {} /\ lines = 0
    BY DEF Init, Unwritten
  <2>2. Layered({}, {}, {}, {})
    BY DEF Layered, Before
  <2>3. {} \cup {} \cup {} \cup {} \cup {} = 1 .. 0
    OBVIOUS
  <2>4. dropped \cup Lines(file) \cup AllLines(Unwritten) \cup AllLines(buffers_)
          \cup Lines(currentBuffer_) = 1 .. lines
    BY Zenon, <2>1, <2>3, TrailNone
  <2> QED BY Zenon, <2>1, <2>2, <2>4, TrailNone DEF PartsInOrder
<1>2. TypeOK /\ Index /\ PartsInOrder /\ [Next]_vars => PartsInOrder'
  BY PartsStep
<1>3. Init => Index
  BY DEF Init, Index
<1> QED BY <1>1, <1>2, <1>3, AsyncLoggingTypeOK, IndexStep, PartsOfLines, PTL DEF Spec
===============================================================================
