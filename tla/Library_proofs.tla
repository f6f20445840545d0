---------------------------- MODULE Library_proofs ----------------------------
(***************************************************************************)
(* Proofs about LogFile, EPollPoller, PollPoller and Buffer, as MCLibrary  *)
(* instantiates them: for any sizes, any course of the clock, any channels *)
(* and events, any bytes and any calls.                                    *)
(***************************************************************************)
EXTENDS MCLibrary, FiniteSetTheorems, SequenceTheorems, TLAPS

(* What a file is named after and whose day it is, in numbers. *)
LEMMA LocalIsNat ==
  ASSUME NEW time \in Nat
  PROVE  Local(time) \in Nat /\ Day(time) \in Nat
<1> USE LogFileAssumption
<1>1. Local(time) \in Nat
  BY DEF Local
<1>2. \A a \in Nat : (a \div DaySeconds) \in Nat
  OBVIOUS
<1>3. \A a \in Nat : a % MonthDays \in Nat
  OBVIOUS
<1> QED BY <1>1, <1>2, <1>3 DEF Day

-----------------------------------------------------------------------------
(* file_ was opened at lastRoll_, and its day is startOfPeriod_.           *)
File == files[Len(files)]

Types ==
  /\ TypeOK
  /\ files # <<>>
  /\ count_ < checkEveryN_
  /\ lastRoll_ = File.opened
  /\ startOfPeriod_ = Day(lastRoll_)

Named == \A i \in DOMAIN files : files[i].name = Local(files[i].opened)

(* Beyond rollSize_ the open file takes only what comes while the clock is *)
(* not past its opening.                                                   *)
LateOnly ==
  \A k \in rollSize_ + 1 .. Len(File.pieces) : File.pieces[k].time <= File.opened

(* count_ counts the pieces since the last look, and one of these or the   *)
(* one before them was not late.                                           *)
RecentOf(f, count) ==
  Len(f.pieces) > count => \E m \in Len(f.pieces) - count .. Len(f.pieces) : ~Late(f, m)

Recent == RecentOf(File, count_)

IInv == Types /\ Named /\ LateOnly /\ Recent /\ FilesInOrder

LEMMA OpenFacts ==
  ASSUME NEW t \in Time
  PROVE  /\ Open(t) \in Files
         /\ Open(t).opened = t /\ Open(t).name = Local(t)
         /\ Open(t).pieces = <<>> /\ Len(Open(t).pieces) = 0
<1>1. t \in Nat
  BY DEF Time
<1>2. Local(t) \in Nat
  BY <1>1, LocalIsNat
<1>3. Open(t) = [name |-> Local(t), opened |-> t, pieces |-> <<>>]
  BY DEF Open
<1>4. <<>> \in Seq(Pieces) /\ Len(<<>>) = 0
  OBVIOUS
<1> QED BY <1>2, <1>3, <1>4 DEF Files

LEMMA InitHolds == Init => IInv
<1> SUFFICES ASSUME Init PROVE IInv
  OBVIOUS
<1> USE LogFileAssumption DEF Init
<1>1. clock \in Time /\ clock \in Nat
  BY DEF Time
<1>2. /\ files = <<Open(clock)>> /\ Len(files) = 1 /\ DOMAIN files = {1}
      /\ File = Open(clock) /\ files[1] = File
  BY DEF File
<1>3. /\ File \in Files /\ File.opened = clock /\ File.name = Local(clock)
      /\ Len(File.pieces) = 0
  BY <1>1, <1>2, OpenFacts
<1>4. TypeOK
  <2>1. files \in Seq(Files)
    BY <1>2, <1>3
  <2> QED BY <1>1, <2>1, LocalIsNat DEF TypeOK
<1>5. Types
  BY <1>2, <1>3, <1>4 DEF Types
<1>6. Named /\ LateOnly /\ Recent
  BY <1>2, <1>3 DEF Named, LateOnly, Recent, RecentOf
<1>7. NamesAscend
  BY <1>2 DEF NamesAscend
<1>8. NotTooLong
  BY <1>2, <1>3 DEF NotTooLong
<1>9. OfOneDay
  BY <1>2, <1>3 DEF OfOneDay
<1> QED BY <1>5, <1>6, <1>7, <1>8, <1>9 DEF IInv, FilesInOrder

LEMMA LastOf ==
  ASSUME NEW R, NEW s \in Seq(R), s # <<>>
  PROVE  Len(s) \in Nat \ {0} /\ DOMAIN s = 1 .. Len(s) /\ s[Len(s)] \in R
<1>1. Len(s) \in Nat \ {0} /\ DOMAIN s = 1 .. Len(s)
  OBVIOUS
<1> QED BY <1>1

LEMMA ElementOf ==
  ASSUME NEW R, NEW s \in Seq(R)
  PROVE  \A i \in 1 .. Len(s) : s[i] \in R
  OBVIOUS

LEMMA AppendFacts ==
  ASSUME NEW R, NEW s \in Seq(R), NEW x \in R
  PROVE  /\ Append(s, x) \in Seq(R)
         /\ Len(Append(s, x)) = Len(s) + 1
         /\ DOMAIN Append(s, x) = 1 .. Len(s) + 1
         /\ \A i \in 1 .. Len(s) : Append(s, x)[i] = s[i]
         /\ Append(s, x)[Len(s) + 1] = x
  OBVIOUS

LEMMA Parts ==
  ASSUME IInv
  PROVE  /\ files \in Seq(Files)
         /\ Len(files) \in Nat \ {0} /\ DOMAIN files = 1 .. Len(files)
         /\ File \in Files
         /\ count_ \in Nat /\ count_ < checkEveryN_
         /\ clock \in Time /\ clock \in Nat
         /\ lastRoll_ \in Time /\ lastRoll_ \in Nat
         /\ appends \in 0 .. MaxAppends
         /\ lastRoll_ = File.opened /\ startOfPeriod_ = Day(lastRoll_)
<1>1. files \in Seq(Files) /\ files # <<>>
  BY Zenon DEF IInv, Types, TypeOK
<1>2. /\ Len(files) \in Nat \ {0} /\ DOMAIN files = 1 .. Len(files)
      /\ File \in Files
  BY <1>1, LastOf DEF File
<1> QED BY <1>1, <1>2, LogFileAssumption DEF IInv, Types, TypeOK, Time

(* The two ways an append ends: with another file, or with this one.       *)
Written ==
  [files EXCEPT ![Len(files)].pieces = Append(@, [number |-> appends + 1, time |-> clock])]

Rolled ==
  /\ clock > lastRoll_
  /\ lastRoll_' = clock /\ startOfPeriod_' = Day(clock)
  /\ files' = Append(Written, Open(clock))
  /\ count_' \in {0, count_}

Kept ==
  /\ files' = Written
  /\ UNCHANGED <<lastRoll_, startOfPeriod_>>
  /\ Len(File.pieces) + 1 > rollSize_ => clock <= lastRoll_
  /\ \/ clock <= lastRoll_ /\ count_' \in {0, count_}
     \/ count_' = count_ + 1 /\ count_ + 1 < checkEveryN_
     \/ count_' = 0 /\ Day(clock) = startOfPeriod_

LEMMA TwoWays ==
  ASSUME IInv, AppendUnlocked
  PROVE  /\ appends < MaxAppends /\ appends' = appends + 1
         /\ clock' = clock
         /\ count_' \in 0 .. checkEveryN_ /\ count_' < checkEveryN_
         /\ Rolled \/ Kept
<1> USE LogFileAssumption
<1> DEFINE w == [files EXCEPT ![Len(files)].pieces =
                   Append(@, [number |-> appends + 1, time |-> clock])]
           looks == count_ + 1 >= checkEveryN_
           size == Len(File.pieces)
           stay == files' = Written /\ UNCHANGED <<lastRoll_, startOfPeriod_>>
<1>1. count_ \in Nat /\ count_ < checkEveryN_ /\ clock \in Nat /\ lastRoll_ \in Nat /\ size \in Nat
  BY Parts DEF Files
<1>2. w = Written
  BY DEF Written
<1>3. /\ appends < MaxAppends /\ appends' = appends + 1
      /\ clock' = clock
      /\ IF size + 1 > rollSize_
         THEN RollFile(Written) /\ UNCHANGED count_
         ELSE /\ count_' = IF looks THEN 0 ELSE count_ + 1
              /\ IF looks /\ startOfPeriod_ # Day(clock) THEN RollFile(Written) ELSE stay
  BY <1>2, Zenon DEF AppendUnlocked, File
<1> HIDE DEF w
<1>4. RollFile(Written) =>
        \/ /\ clock > lastRoll_
           /\ lastRoll_' = clock /\ startOfPeriod_' = Day(clock)
           /\ files' = Append(Written, Open(clock))
        \/ clock <= lastRoll_ /\ stay
  BY <1>1 DEF RollFile
<1> HIDE DEF stay, size
<1>5. CASE size + 1 > rollSize_
  <2>1. RollFile(Written) /\ count_' = count_
    BY <1>3, <1>5
  <2>2. Rolled \/ Kept
    BY <1>4, <2>1 DEF Rolled, Kept, stay
  <2> QED BY <1>1, <1>3, <2>1, <2>2
<1>6. CASE ~(size + 1 > rollSize_)
  <2>1. /\ count_' = IF looks THEN 0 ELSE count_ + 1
        /\ IF looks /\ startOfPeriod_ # Day(clock) THEN RollFile(Written) ELSE stay
    BY <1>3, <1>6
  <2>2. count_' \in 0 .. checkEveryN_ /\ count_' < checkEveryN_
    BY <1>1, <2>1
  <2>3. CASE looks /\ startOfPeriod_ # Day(clock)
    <3>1. RollFile(Written) /\ count_' = 0
      BY <2>1, <2>3
    <3>2. Rolled \/ Kept
      BY <1>4, <1>6, <3>1 DEF Rolled, Kept, stay, size
    <3> QED BY <1>3, <2>2, <3>2
  <2>4. CASE looks /\ startOfPeriod_ = Day(clock)
    <3>1. stay /\ count_' = 0
      BY <2>1, <2>4
    <3>2. Kept
      BY <1>6, <2>4, <3>1 DEF Kept, stay, size
    <3> QED BY <1>3, <2>2, <3>2
  <2>5. CASE ~looks
    <3>1. stay /\ count_' = count_ + 1 /\ count_ + 1 < checkEveryN_
      BY <1>1, <2>1, <2>5
    <3>2. Kept
      BY <1>6, <3>1 DEF Kept, stay, size
    <3> QED BY <1>3, <2>2, <3>2
  <2> QED BY <2>3, <2>4, <2>5
<1> QED BY <1>5, <1>6

(* What the append leaves in the files.                                    *)
LEMMA WrittenFacts ==
  ASSUME IInv, appends < MaxAppends
  PROVE  LET n == Len(files)
             m == Len(File.pieces)
             p == [number |-> appends + 1, time |-> clock]
         IN /\ n \in Nat \ {0} /\ DOMAIN files = 1 .. n
            /\ File = files[n] /\ m \in Nat
            /\ Written \in Seq(Files)
            /\ Len(Written) = n
            /\ \A i \in 1 .. n - 1 : Written[i] = files[i]
            /\ Written[n].name = File.name /\ Written[n].opened = File.opened
            /\ Len(Written[n].pieces) = m + 1
            /\ \A k \in 1 .. m : Written[n].pieces[k] = File.pieces[k]
            /\ Written[n].pieces[m + 1] = p
            /\ Written[n] \in Files
<1> USE LogFileAssumption
<1> DEFINE n == Len(files)
           m == Len(File.pieces)
           p == [number |-> appends + 1, time |-> clock]
<1>1. files \in Seq(Files) /\ n \in Nat \ {0} /\ DOMAIN files = 1 .. n
  BY Parts
<1>2. File \in Files /\ File.pieces \in Seq(Pieces) /\ m \in Nat
  BY Parts DEF Files
<1>3. p \in Pieces
  BY Parts DEF Pieces
<1>4. /\ Append(File.pieces, p) \in Seq(Pieces)
      /\ Len(Append(File.pieces, p)) = m + 1
      /\ \A k \in 1 .. m : Append(File.pieces, p)[k] = File.pieces[k]
      /\ Append(File.pieces, p)[m + 1] = p
  BY <1>2, <1>3, AppendFacts
<1> DEFINE g == [File EXCEPT !.pieces = Append(@, p)]
<1>5. /\ g \in Files /\ g.name = File.name /\ g.opened = File.opened
      /\ g.pieces = Append(File.pieces, p)
  BY <1>2, <1>4 DEF Files
<1>6. Written = [files EXCEPT ![n] = g]
  BY <1>1 DEF Written, File
<1> HIDE DEF g, p, m
<1>7. Written \in Seq(Files) /\ Len(Written) = n
  BY <1>1, <1>5, <1>6
<1>8. Written[n] = g /\ \A i \in 1 .. n - 1 : Written[i] = files[i]
  <2>1. n \in 1 .. n /\ \A i \in 1 .. n - 1 : i \in 1 .. n /\ i # n
    <3>1. n \in Nat \ {0}
      BY <1>1
    <3> HIDE DEF n
    <3> QED BY <3>1
  <2> QED BY <1>1, <1>6, <2>1
<1> QED BY <1>1, <1>2, <1>4, <1>5, <1>7, <1>8 DEF File, p, m

(* Whatever is appended, the open file stays within its bounds.            *)
LEMMA WrittenKeeps ==
  ASSUME IInv, appends < MaxAppends
  PROVE  LET n == Len(files) IN
         /\ \A i \in 1 .. n : /\ Written[i].opened = files[i].opened
                              /\ Written[i].name = files[i].name
         /\ \A i \in 1 .. n : \A k \in rollSize_ + 1 .. Len(Written[i].pieces) - 1 :
              Written[i].pieces[k].time <= Written[i].opened
         /\ \A i \in 1 .. n : \A k \in checkEveryN_ + 1 .. Len(Written[i].pieces) :
              \E j \in k - checkEveryN_ .. k : ~Late(Written[i], j)
<1> USE LogFileAssumption
<1> DEFINE n == Len(files)
           m == Len(File.pieces)
           p == [number |-> appends + 1, time |-> clock]
<1>1. /\ n \in Nat \ {0} /\ DOMAIN files = 1 .. n
      /\ File = files[n] /\ m \in Nat
      /\ \A i \in 1 .. n - 1 : Written[i] = files[i]
      /\ Written[n].name = File.name /\ Written[n].opened = File.opened
      /\ Len(Written[n].pieces) = m + 1
      /\ \A k \in 1 .. m : Written[n].pieces[k] = File.pieces[k]
      /\ Written[n].pieces[m + 1] = p
  BY WrittenFacts
<1>2. count_ \in Nat /\ count_ < checkEveryN_
  BY Parts
<1>3. NotTooLong /\ OfOneDay /\ LateOnly /\ Recent
  BY DEF IInv, FilesInOrder
<1> HIDE DEF n, p
<1>4. \A i \in 1 .. n : i \in 1 .. n - 1 \/ i = n
  BY <1>1
<1>5. \A i \in 1 .. n : /\ Written[i].opened = files[i].opened
                        /\ Written[i].name = files[i].name
  BY <1>1, <1>4
<1>6. ASSUME NEW i \in 1 .. n, NEW k \in rollSize_ + 1 .. Len(Written[i].pieces) - 1
      PROVE  Written[i].pieces[k].time <= Written[i].opened
  <2>1. CASE i \in 1 .. n - 1
    BY <1>1, <1>3, <1>6, <2>1 DEF NotTooLong
  <2>2. CASE i = n
    <3>1. k \in rollSize_ + 1 .. m /\ k \in 1 .. m
      <4> HIDE DEF m
      <4> QED BY <1>1, <1>6, <2>2
    <3> QED BY <1>1, <1>3, <2>2, <3>1 DEF LateOnly
  <2> QED BY <1>4, <2>1, <2>2
<1>7. ASSUME NEW i \in 1 .. n, NEW k \in checkEveryN_ + 1 .. Len(Written[i].pieces)
      PROVE  \E j \in k - checkEveryN_ .. k : ~Late(Written[i], j)
  <2>1. CASE i \in 1 .. n - 1
    BY <1>1, <1>3, <1>7, <2>1 DEF OfOneDay
  <2>2. CASE i = n /\ k \in 1 .. m
    <3>1. PICK j \in k - checkEveryN_ .. k : ~Late(File, j)
      BY <1>1, <1>3, <1>7, <2>2 DEF OfOneDay
    <3>2. j \in 1 .. m
      <4> HIDE DEF m
      <4> QED BY <1>1, <1>7, <2>2
    <3>3. Written[n].opened = File.opened /\ Written[n].pieces[j] = File.pieces[j]
      BY <1>1, <3>2
    <3> QED BY <2>2, <3>1, <3>3 DEF Late
  <2>3. CASE i = n /\ k = m + 1
    <3>1. m > count_
      <4> HIDE DEF m
      <4> QED BY <1>1, <1>2, <1>7, <2>3
    <3>2. PICK j \in m - count_ .. m : ~Late(File, j)
      BY <1>3, <3>1 DEF Recent, RecentOf
    <3>3. j \in 1 .. m /\ j \in k - checkEveryN_ .. k
      <4> HIDE DEF m
      <4> QED BY <1>1, <1>2, <1>7, <2>3, <3>1, <3>2
    <3>4. Written[n].opened = File.opened /\ Written[n].pieces[j] = File.pieces[j]
      BY <1>1, <3>3
    <3> QED BY <2>3, <3>2, <3>3, <3>4 DEF Late
  <2>4. i = n => k \in 1 .. m \/ k = m + 1
    <3> HIDE DEF m
    <3> QED BY <1>1, <1>7
  <2> QED BY <1>4, <2>1, <2>2, <2>3, <2>4
<1> QED BY <1>5, <1>6, <1>7 DEF n

LEMMA RolledKeeps == ASSUME IInv, AppendUnlocked, Rolled PROVE IInv'
<1> USE LogFileAssumption
<1> DEFINE n == Len(files)
<1>1. n \in Nat \ {0} /\ DOMAIN files = 1 .. n /\ File = files[n]
  BY TwoWays, WrittenFacts
<1>2. Written \in Seq(Files) /\ Len(Written) = n
  BY TwoWays, WrittenFacts
<1>3. /\ clock \in Time /\ Open(clock) \in Files /\ Open(clock).opened = clock
      /\ Open(clock).name = Local(clock) /\ Len(Open(clock).pieces) = 0
  BY Parts, OpenFacts
<1>4. /\ files' \in Seq(Files) /\ Len(files') = n + 1 /\ DOMAIN files' = 1 .. n + 1
      /\ \A i \in 1 .. n : files'[i] = Written[i]
      /\ files'[n + 1] = Open(clock)
  <2>1. files' = Append(Written, Open(clock))
    BY DEF Rolled
  <2> QED BY <1>2, <1>3, <2>1, AppendFacts
<1>5. File' = Open(clock)
  BY <1>4 DEF File
<1>6. /\ \A i \in 1 .. n : /\ Written[i].opened = files[i].opened
                           /\ Written[i].name = files[i].name
      /\ \A i \in 1 .. n : \A k \in rollSize_ + 1 .. Len(Written[i].pieces) - 1 :
           Written[i].pieces[k].time <= Written[i].opened
      /\ \A i \in 1 .. n : \A k \in checkEveryN_ + 1 .. Len(Written[i].pieces) :
           \E j \in k - checkEveryN_ .. k : ~Late(Written[i], j)
  BY TwoWays, WrittenKeeps
<1> HIDE DEF n
<1>7. \A i \in 1 .. n + 1 : i \in 1 .. n \/ i = n + 1
  BY <1>1
<1>8. Types'
  <2>1. Day(clock) \in Nat
    BY Parts, LocalIsNat
  <2>2. TypeOK'
    <3>1. startOfPeriod_' \in Nat /\ lastRoll_' \in Time
      BY <1>3, <2>1 DEF Rolled
    <3>2. clock' \in Time /\ appends' \in 0 .. MaxAppends /\ count_' \in 0 .. checkEveryN_
      BY <1>3, TwoWays, Parts
    <3> QED BY <1>4, <3>1, <3>2, Zenon DEF TypeOK, Time, Pieces, Files
  <2>3. files' # <<>>
    BY <1>1, <1>4
  <2>4. lastRoll_' = File'.opened /\ startOfPeriod_' = Day(lastRoll_')
    BY <1>3, <1>5 DEF Rolled
  <2> QED BY <2>2, <2>3, <2>4, TwoWays DEF Types, Day, Local
<1>9. Named'
  <2>1. \A i \in 1 .. n : files[i].name = Local(files[i].opened)
    BY <1>1 DEF IInv, Named
  <2>2. \A i \in 1 .. n + 1 : files'[i].name = Local(files'[i].opened)
    BY <1>3, <1>4, <1>6, <1>7, <2>1
  <2> QED BY <1>4, <2>2 DEF Named, Local
<1>10. LateOnly' /\ Recent'
  BY <1>3, <1>5, TwoWays DEF LateOnly, Recent, RecentOf
<1>11. NamesAscend'
  <2>1. File.opened < clock /\ clock \in Nat
    BY Parts DEF Rolled
  <2>2. \A i \in 1 .. n : files[i].opened \in Nat
    <3>1. \A i \in 1 .. n : files[i] \in Files
      BY Parts, ElementOf DEF n
    <3> QED BY <3>1 DEF Files, Time
  <2>3. NamesAscend /\ Named
    BY DEF IInv, FilesInOrder
  <2>4. \A i \in 1 .. n : files[i].opened < clock
    <3>1. \A i \in 1 .. n : i < n => files[i].opened < files[n].opened
      BY <1>1, <2>3 DEF NamesAscend
    <3> QED BY <1>1, <2>1, <2>2, <3>1
  <2>5. ASSUME NEW i \in 1 .. n
        PROVE  Local(files[i].opened) < Local(clock) \/ (files[i].opened < DstEnd /\ DstEnd <= clock)
    BY <2>1, <2>2, <2>4 DEF Local
  <2>6. ASSUME NEW i \in 1 .. n + 1, NEW j \in 1 .. n + 1, i < j
        PROVE  /\ files'[i].opened < files'[j].opened
               /\ \/ files'[i].name < files'[j].name
                  \/ files'[i].opened < DstEnd /\ DstEnd <= files'[j].opened
    <3>1. CASE j = n + 1
      <4>1. i \in 1 .. n
        BY <1>1, <2>6, <3>1
      <4>2. files'[i].name = Local(files[i].opened) /\ files'[i].opened = files[i].opened
        BY <1>1, <1>4, <1>6, <2>3, <4>1 DEF Named
      <4>3. files'[j].name = Local(clock) /\ files'[j].opened = clock
        BY <1>3, <1>4, <3>1
      <4> QED BY <2>4, <2>5, <4>1, <4>2, <4>3
    <3>2. CASE j \in 1 .. n
      <4>1. i \in 1 .. n
        BY <1>1, <2>6, <3>2
      <4>2. /\ files'[i].name = files[i].name /\ files'[i].opened = files[i].opened
            /\ files'[j].name = files[j].name /\ files'[j].opened = files[j].opened
        BY <1>4, <1>6, <3>2, <4>1
      <4>3. /\ files[i].opened < files[j].opened
            /\ files[i].name < files[j].name \/ (files[i].opened < DstEnd /\ DstEnd <= files[j].opened)
        BY <1>1, <2>3, <2>6, <3>2, <4>1 DEF NamesAscend
      <4> QED BY <4>2, <4>3
    <3> QED BY <1>7, <3>1, <3>2
  <2> QED BY <1>4, <2>6 DEF NamesAscend
<1>12. NotTooLong'
  <2>1. ASSUME NEW i \in 1 .. n + 1, NEW k \in rollSize_ + 1 .. Len(files'[i].pieces) - 1
        PROVE  files'[i].pieces[k].time <= files'[i].opened
    <3>1. CASE i \in 1 .. n
      BY <1>4, <1>6, <2>1, <3>1
    <3>2. CASE i = n + 1
      BY <1>3, <1>4, <2>1, <3>2
    <3> QED BY <1>7, <3>1, <3>2
  <2> QED BY <1>4, <2>1 DEF NotTooLong
<1>13. OfOneDay'
  <2>1. ASSUME NEW i \in 1 .. n + 1, NEW k \in checkEveryN_ + 1 .. Len(files'[i].pieces)
        PROVE  \E j \in k - checkEveryN_ .. k : ~Late(files'[i], j)
    <3>1. CASE i \in 1 .. n
      BY <1>4, <1>6, <2>1, <3>1
    <3>2. CASE i = n + 1
      BY <1>3, <1>4, <2>1, <3>2
    <3> QED BY <1>7, <3>1, <3>2
  <2> QED BY <1>4, <2>1 DEF OfOneDay, Late, Day, Local
<1> QED BY <1>8, <1>9, <1>10, <1>11, <1>12, <1>13 DEF IInv, FilesInOrder

LEMMA KeptKeeps == ASSUME IInv, AppendUnlocked, Kept PROVE IInv'
<1> USE LogFileAssumption
<1> DEFINE n == Len(files)
           m == Len(File.pieces)
           p == [number |-> appends + 1, time |-> clock]
<1>1. /\ n \in Nat \ {0} /\ DOMAIN files = 1 .. n
      /\ File = files[n] /\ m \in Nat
      /\ Written \in Seq(Files) /\ Len(Written) = n
      /\ Written[n].opened = File.opened
      /\ Len(Written[n].pieces) = m + 1
      /\ \A k \in 1 .. m : Written[n].pieces[k] = File.pieces[k]
      /\ Written[n].pieces[m + 1] = p
  BY TwoWays, WrittenFacts
<1>2. files' = Written /\ DOMAIN files' = 1 .. n /\ Len(files') = n
  BY <1>1 DEF Kept
<1>3. File' = Written[n]
  BY <1>2 DEF File
<1>4. /\ \A i \in 1 .. n : /\ Written[i].opened = files[i].opened
                           /\ Written[i].name = files[i].name
      /\ \A i \in 1 .. n : \A k \in rollSize_ + 1 .. Len(Written[i].pieces) - 1 :
           Written[i].pieces[k].time <= Written[i].opened
      /\ \A i \in 1 .. n : \A k \in checkEveryN_ + 1 .. Len(Written[i].pieces) :
           \E j \in k - checkEveryN_ .. k : ~Late(Written[i], j)
  BY TwoWays, WrittenKeeps
<1>5. /\ lastRoll_ = File.opened /\ lastRoll_' = lastRoll_ /\ startOfPeriod_' = startOfPeriod_
      /\ startOfPeriod_ = Day(File.opened) /\ clock \in Nat /\ lastRoll_ \in Nat /\ p.time = clock
  BY Parts DEF Kept
<1> HIDE DEF n, p
<1>6. Types'
  <2>1. TypeOK'
    <3>1. startOfPeriod_' \in Nat /\ lastRoll_' \in Time
      BY Parts DEF Kept, IInv, Types, TypeOK
    <3>2. clock' \in Time /\ appends' \in 0 .. MaxAppends /\ count_' \in 0 .. checkEveryN_
      BY TwoWays, Parts
    <3>3. files' \in Seq(Files)
      BY <1>1, <1>2
    <3> QED BY <3>1, <3>2, <3>3, Zenon DEF TypeOK, Time, Pieces, Files
  <2>2. files' # <<>>
    BY <1>1, <1>2
  <2>3. lastRoll_' = File'.opened /\ startOfPeriod_' = Day(lastRoll_')
    BY <1>1, <1>3, <1>5
  <2> QED BY <2>1, <2>2, <2>3, TwoWays DEF Types, Day, Local
<1>7. Named'
  <2>1. \A i \in 1 .. n : Written[i].name = Local(Written[i].opened)
    BY <1>1, <1>4 DEF IInv, Named
  <2> QED BY <1>2, <2>1 DEF Named, Local
<1>8. LateOnly'
  <2>1. ASSUME NEW k \in rollSize_ + 1 .. m + 1
        PROVE  Written[n].pieces[k].time <= Written[n].opened
    <3>1. CASE k \in 1 .. m
      <4>1. k \in rollSize_ + 1 .. m
        <5> HIDE DEF m
        <5> QED BY <2>1, <3>1
      <4> QED BY <1>1, <3>1, <4>1 DEF IInv, LateOnly
    <3>2. CASE k = m + 1
      <4>1. m + 1 > rollSize_
        BY <1>1, <2>1, <3>2
      <4>2. clock <= lastRoll_
        BY <4>1 DEF Kept
      <4> QED BY <1>1, <1>5, <3>2, <4>2
    <3>3. k \in 1 .. m \/ k = m + 1
      <4> HIDE DEF m
      <4> QED BY <1>1, <2>1
    <3> QED BY <3>1, <3>2, <3>3
  <2> QED BY <1>1, <1>3, <2>1 DEF LateOnly
<1>9. Recent'
  <2>1. count_ \in Nat /\ count_' \in Nat /\ m \in Nat
    BY <1>1, Parts, TwoWays
  <2>4. Recent' = RecentOf(Written[n], count_')
    BY <1>3 DEF Recent, RecentOf, Late, Day, Local
  <2> SUFFICES ASSUME m + 1 > count_'
               PROVE  \E j \in (m + 1) - count_' .. m + 1 : ~Late(Written[n], j)
    <3>1. Len(Written[n].pieces) = m + 1
      BY <1>1
    <3> HIDE DEF m
    <3> QED BY <2>4, <3>1 DEF RecentOf
  <2>2. CASE count_' = count_ + 1
    <3>1. m > count_
      <4> HIDE DEF m
      <4> QED BY <1>1, <2>1, <2>2
    <3>2. PICK j \in m - count_ .. m : ~Late(File, j)
      BY <3>1 DEF IInv, Recent, RecentOf
    <3>3. j \in 1 .. m /\ j \in (m + 1) - count_' .. m + 1
      <4> HIDE DEF m
      <4> QED BY <1>1, <2>1, <2>2, <3>1, <3>2
    <3>4. Written[n].opened = File.opened /\ Written[n].pieces[j] = File.pieces[j]
      BY <1>1, <3>3
    <3> QED BY <3>2, <3>3, <3>4 DEF Late
  <2>3. CASE count_' # count_ + 1
    <3>1. clock <= lastRoll_ \/ Day(clock) = startOfPeriod_
      BY <2>3 DEF Kept
    <3>2. ~Late(Written[n], m + 1)
      BY <1>1, <1>5, <3>1 DEF Late
    <3>3. \A a, b \in Nat : a + 1 \in (a + 1) - b .. a + 1
      OBVIOUS
    <3>4. m + 1 \in (m + 1) - count_' .. m + 1
      BY <2>1, <3>3
    <3> QED BY <3>2, <3>4
  <2> QED BY <2>2, <2>3
<1>10. NamesAscend'
  <2>1. NamesAscend
    BY DEF IInv, FilesInOrder
  <2> QED BY <1>1, <1>2, <1>4, <2>1 DEF NamesAscend
<1>11. NotTooLong'
  BY <1>2, <1>4 DEF NotTooLong
<1>12. OfOneDay'
  BY <1>2, <1>4 DEF OfOneDay, Late, Day, Local
<1> QED BY <1>6, <1>7, <1>8, <1>9, <1>10, <1>11, <1>12 DEF IInv, FilesInOrder

-----------------------------------------------------------------------------
(* The clock moves on, or back; no file is touched.                        *)
LEMMA ClockKeeps == ASSUME IInv, ClockTicks \/ ClockSetBack PROVE IInv'
<1> USE LogFileAssumption
<1>1. /\ UNCHANGED <<files, count_, startOfPeriod_, lastRoll_, appends>>
      /\ clock' \in Time
  <2>1. clock \in Nat /\ clock \in 1 .. MaxTime /\ MaxTime \in Nat
    BY Parts DEF Time
  <2> QED BY <2>1 DEF ClockTicks, ClockSetBack, Time
<1>2. Types'
  BY <1>1, Zenon DEF IInv, Types, TypeOK, Time, Pieces, Files, File, Day, Local
<1>3. Named' /\ LateOnly' /\ Recent'
  BY <1>1 DEF IInv, Named, LateOnly, Recent, RecentOf, File, Late, Day, Local
<1>4. FilesInOrder'
  BY <1>1 DEF IInv, FilesInOrder, NamesAscend, NotTooLong, OfOneDay, Late, Day, Local
<1> QED BY <1>2, <1>3, <1>4 DEF IInv

LEMMA InvStep == IInv /\ [Next]_vars => IInv'
<1> SUFFICES ASSUME IInv, [Next]_vars PROVE IInv'
  OBVIOUS
<1>1. CASE AppendUnlocked
  BY <1>1, TwoWays, RolledKeeps, KeptKeeps
<1>2. CASE ClockTicks \/ ClockSetBack
  BY <1>2, ClockKeeps
<1>3. CASE UNCHANGED vars
  BY <1>3 DEF vars, IInv, Types, TypeOK, Named, LateOnly, Recent, RecentOf, FilesInOrder, NamesAscend, NotTooLong,
     OfOneDay, Late, File, Time, Pieces, Files, Day, Local
<1> QED BY <1>1, <1>2, <1>3 DEF Next

(* LogFile.cc: whatever the roll size, the number of appends between two   *)
(* looks at the day, the course of the clock and the end of DST, the files *)
(* are opened in the order the log is written, their names ascend but      *)
(* across the end of DST, and none is rolled too late.                     *)
THEOREM FilesInOrderAlways == Spec => []FilesInOrder
<1>1. Spec => []IInv
  BY InitHolds, InvStep, PTL DEF Spec
<1>2. IInv => FilesInOrder
  BY DEF IInv
<1> QED BY <1>1, <1>2, PTL

-----------------------------------------------------------------------------
(* The poller over epoll: a channel is on the interest list exactly when   *)
(* it asks for something, once, and with what it asks for.                 *)
EPollInv ==
  /\ events_ \in [Channels -> SUBSET Events]
  /\ index_ \in [Channels -> {"kNew", "kAdded", "kDeleted"}]
  /\ \A i \in interest : i.channel \in Channels
  /\ \A c \in Channels : index_[c] = "kAdded" <=> events_[c] # {}
  /\ \A c \in Channels :
       EPoll!Listed(c) = IF events_[c] # {} THEN {EPoll!Item(c, events_[c])} ELSE {}
  /\ ~failed

LEMMA EPollWatches == EPollInv => EPoll!Watched = events_
<1> SUFFICES ASSUME EPollInv PROVE EPoll!Watched = events_
  OBVIOUS
<1>1. ASSUME NEW c \in Channels PROVE UNION {i.events : i \in EPoll!Listed(c)} = events_[c]
  <2>1. CASE events_[c] # {}
    <3>1. EPoll!Listed(c) = {EPoll!Item(c, events_[c])}
      BY <2>1 DEF EPollInv
    <3>2. EPoll!Item(c, events_[c]).events = events_[c]
      BY DEF EPoll!Item
    <3>3. {i.events : i \in EPoll!Listed(c)} = {events_[c]}
      BY <3>1, <3>2
    <3> QED BY <3>3
  <2>2. CASE events_[c] = {}
    BY <2>2 DEF EPollInv
  <2> QED BY <2>1, <2>2
<1> QED BY <1>1 DEF EPollInv, EPoll!Watched

LEMMA EPollStarts == EPoll!Init => EPollInv
  BY DEF EPoll!Init, EPollInv, EPoll!Listed

(* The lists of the other channels are left alone.                         *)
LEMMA OtherLists ==
  ASSUME NEW c \in Channels, NEW gained,
         \A i \in gained : i.channel = c,
         interest' = (interest \ EPoll!Listed(c)) \cup gained
  PROVE  /\ EPoll!Listed(c)' = gained
         /\ \A d \in Channels \ {c} : EPoll!Listed(d)' = EPoll!Listed(d)
  BY DEF EPoll!Listed

LEMMA EPollStep == EPollInv /\ [EPoll!Next]_(EPoll!vars) => EPollInv'
<1> SUFFICES ASSUME EPollInv, [EPoll!Next]_(EPoll!vars) PROVE EPollInv'
  OBVIOUS
<1>1. ASSUME UNCHANGED <<events_, index_, interest, failed>> PROVE EPollInv'
  BY <1>1 DEF EPollInv, EPoll!Listed
<1>2. ASSUME NEW c \in Channels, EPoll!Update(c) PROVE EPollInv'
  <2>1. PICK events \in SUBSET Events :
          /\ events # {} \/ events_[c] # {}
          /\ events_' = [events_ EXCEPT ![c] = events]
          /\ EPoll!UpdateChannel(c, events)
    BY <1>2 DEF EPoll!Update
  <2> DEFINE gained == IF events # {} THEN {EPoll!Item(c, events)} ELSE {}
  <2>2. /\ interest' = (interest \ EPoll!Listed(c)) \cup gained
        /\ ~failed'
        /\ index_' \in [Channels -> {"kNew", "kAdded", "kDeleted"}]
        /\ index_'[c] = "kAdded" <=> events # {}
        /\ \A d \in Channels \ {c} : index_'[d] = index_[d]
    <3>1. CASE events_[c] = {}
      <4>1. events # {} /\ index_[c] \in {"kNew", "kDeleted"} /\ EPoll!Listed(c) = {}
        BY <2>1, <3>1 DEF EPollInv
      <4>2. /\ interest' = interest \cup {EPoll!Item(c, events)}
            /\ index_' = [index_ EXCEPT ![c] = "kAdded"]
            /\ EPoll!EpollAdd(c, events)
        BY <2>1, <4>1 DEF EPoll!UpdateChannel, EPoll!EpollAdd
      <4>3. ~failed'
        BY <4>1, <4>2, Zenon DEF EPoll!EpollAdd, EPollInv
      <4> QED BY <4>1, <4>2, <4>3 DEF EPollInv
    <3>2. CASE events_[c] # {}
      <4>1. index_[c] = "kAdded" /\ EPoll!Listed(c) # {}
        BY <3>2 DEF EPollInv
      <4>2. CASE events = {}
        <5>1. /\ interest' = interest \ EPoll!Listed(c)
              /\ index_' = [index_ EXCEPT ![c] = "kDeleted"]
              /\ EPoll!EpollDel(c)
          BY <2>1, <4>1, <4>2 DEF EPoll!UpdateChannel, EPoll!EpollDel
        <5>2. ~failed'
          BY <4>1, <5>1, Zenon DEF EPoll!EpollDel, EPollInv
        <5> QED BY <4>2, <5>1, <5>2 DEF EPollInv
      <4>3. CASE events # {}
        <5>1. /\ interest' = (interest \ EPoll!Listed(c)) \cup {EPoll!Item(c, events)}
              /\ index_' = index_
              /\ EPoll!EpollMod(c, events)
          BY <2>1, <4>1, <4>3 DEF EPoll!UpdateChannel, EPoll!EpollMod
        <5>2. ~failed'
          BY <4>1, <5>1, Zenon DEF EPoll!EpollMod, EPollInv
        <5> QED BY <4>1, <4>3, <5>1, <5>2 DEF EPollInv
      <4> QED BY <4>2, <4>3
    <3> QED BY <3>1, <3>2
  <2>3. \A i \in gained : i.channel = c
    BY DEF EPoll!Item
  <2>4. /\ EPoll!Listed(c)' = gained
        /\ \A d \in Channels \ {c} : EPoll!Listed(d)' = EPoll!Listed(d)
    <3> HIDE DEF gained
    <3> QED BY <2>2, <2>3, OtherLists
  <2>5. /\ events_' \in [Channels -> SUBSET Events] /\ events_'[c] = events
        /\ \A d \in Channels \ {c} : events_'[d] = events_[d]
    BY <2>1 DEF EPollInv
  <2>6. \A i \in interest' : i.channel \in Channels
    BY <2>2, <2>3 DEF EPollInv
  <2>7. \A d \in Channels : index_'[d] = "kAdded" <=> events_'[d] # {}
    BY <2>2, <2>5 DEF EPollInv
  <2>8. ASSUME NEW d \in Channels
        PROVE  EPoll!Listed(d)' = IF events_'[d] # {} THEN {EPoll!Item(d, events_'[d])} ELSE {}
    <3>1. CASE d = c
      BY <2>4, <2>5, <3>1
    <3>2. CASE d # c
      BY <2>4, <2>5, <3>2 DEF EPollInv
    <3> QED BY <3>1, <3>2
  <2>9. \A d \in Channels : EPoll!Item(d, events_[d])' = EPoll!Item(d, events_'[d])
    BY DEF EPoll!Item
  <2> QED BY <2>2, <2>5, <2>6, <2>7, <2>8, <2>9 DEF EPollInv
<1>3. ASSUME NEW c \in Channels, EPoll!Remove(c) PROVE EPollInv'
  <2>1. index_[c] # "kAdded" /\ events_[c] = {}
    BY <1>3 DEF EPoll!Remove, EPollInv
  <2>2. /\ UNCHANGED <<events_, interest, failed>>
        /\ index_' = [index_ EXCEPT ![c] = "kNew"]
    BY <1>3, <2>1 DEF EPoll!Remove
  <2> QED BY <2>1, <2>2 DEF EPollInv, EPoll!Listed
<1>4. ASSUME NEW c \in Channels, EPoll!Handled(c) PROVE EPollInv'
  BY <1>1, <1>4 DEF EPoll!Handled
<1> QED BY <1>1, <1>2, <1>3, <1>4 DEF EPoll!Next, EPoll!Poll, EPoll!vars

LEMMA EPollRefines ==
  ASSUME EPollInv, EPoll!Watched = events_, EPoll!Watched' = events_', [EPoll!Next]_(EPoll!vars)
  PROVE  [EPoll!Abstract!Next]_(EPoll!Abstract!vars)
<1>1. EPoll!Watched = events_ /\ EPoll!Watched' = events_'
  OBVIOUS
<1>2. ASSUME NEW c \in Channels, EPoll!Update(c)
      PROVE  \E events \in SUBSET Events : EPoll!Abstract!Update(c, events)
  BY <1>1, <1>2 DEF EPoll!Update, EPoll!Abstract!Update
<1>3. ASSUME NEW c \in Channels, EPoll!Remove(c) PROVE UNCHANGED <<events_, active>>
  BY <1>3 DEF EPoll!Remove
<1>4. ASSUME EPoll!Poll PROVE EPoll!Abstract!Poll
  <2>1. ASSUME NEW i \in interest PROVE i.channel \in {c \in Channels : events_[c] # {}}
    <3>1. i.channel \in Channels /\ i \in EPoll!Listed(i.channel)
      BY DEF EPollInv, EPoll!Listed
    <3> QED BY <3>1 DEF EPollInv
  <2>2. {i.channel : i \in interest} \subseteq {c \in Channels : events_[c] # {}}
    BY <2>1
  <2>3. /\ active = {} /\ active' \in SUBSET {i.channel : i \in interest}
        /\ events_' = events_
    BY <1>4 DEF EPoll!Poll
  <2>4. active' \in SUBSET {c \in Channels : EPoll!Watched[c] # {}}
    BY <1>1, <2>2, <2>3
  <2>5. EPoll!Watched' = EPoll!Watched
    BY <1>1, <2>3
  <2> QED BY <2>3, <2>4, <2>5 DEF EPoll!Abstract!Poll
<1>5. ASSUME NEW c \in Channels, EPoll!Handled(c) PROVE EPoll!Abstract!Handled(c)
  BY <1>1, <1>5 DEF EPoll!Handled, EPoll!Abstract!Handled
<1> QED BY <1>1, <1>2, <1>3, <1>4, <1>5
        DEF EPoll!Next, EPoll!vars, EPoll!Abstract!Next, EPoll!Abstract!vars

LEMMA EPollAbstractStarts == EPoll!Init => EPoll!Abstract!Init
  BY EPollStarts, EPollWatches DEF EPoll!Init, EPoll!Abstract!Init

(* EPollPoller.cc: for any channels, in every order of enabling, disabling *)
(* and removing, the kernel waits for what the channels ask for, and       *)
(* epoll_ctl never fails.                                                  *)
THEOREM EPollIsPoller == EPoll!Spec => EPoll!ImplementsPoller
<1>1. EPoll!Spec => []EPollInv
  BY EPollStarts, EPollStep, PTL DEF EPoll!Spec
<1>2. EPollInv => ~failed
  BY DEF EPollInv
<1>3. EPollInv /\ EPoll!Watched = events_ /\ (EPoll!Watched = events_)' /\ [EPoll!Next]_(EPoll!vars)
        => [EPoll!Abstract!Next]_(EPoll!Abstract!vars)
  BY EPollRefines
<1>4. EPoll!Spec => EPoll!Abstract!Spec
  BY <1>1, <1>3, EPollWatches, EPollAbstractStarts, PTL DEF EPoll!Spec, EPoll!Abstract!Spec
<1> QED BY <1>1, <1>2, <1>4, EPollWatches, PTL DEF EPoll!ImplementsPoller

-----------------------------------------------------------------------------
(* The poller over poll: every channel of the map has one entry, at its    *)
(* index, with what it asks for, negated when it asks for nothing; there   *)
(* is no other entry.                                                      *)
Entry(c, p) ==
  /\ p.channel = c
  /\ p.negated <=> pollEvents[c] = {}
  /\ p.events = pollEvents[c]

PollType ==
  /\ pollEvents \in [Channels -> SUBSET Events]
  /\ pollIndex \in [Channels -> Nat]
  /\ pollChannels \subseteq Channels
  /\ pollfds_ \in Seq(Poll!PollFds)

PollPlaces ==
  /\ \A c \in pollChannels :
       pollIndex[c] \in 1 .. Len(pollfds_) /\ Entry(c, pollfds_[pollIndex[c]])
  /\ \A c \in Channels : c \notin pollChannels => pollIndex[c] = 0 /\ pollEvents[c] = {}
  /\ \A i \in 1 .. Len(pollfds_) :
       pollfds_[i].channel \in pollChannels /\ pollIndex[pollfds_[i].channel] = i

PollInv == PollType /\ PollPlaces

LEMMA PollWatches == PollInv => Poll!Watched = pollEvents
<1> SUFFICES ASSUME PollInv PROVE Poll!Watched = pollEvents
  OBVIOUS
<1> DEFINE Mine(c) == {q \in Poll!SequenceOps!ToSet(pollfds_) : q.channel = c /\ ~q.negated}
<1>1. Poll!SequenceOps!ToSet(pollfds_) = {pollfds_[i] : i \in 1 .. Len(pollfds_)}
  BY DEF PollInv, PollType, Poll!SequenceOps!ToSet
<1>2. ASSUME NEW c \in Channels, c \in pollChannels, pollEvents[c] # {}
      PROVE  UNION {p.events : p \in Mine(c)} = pollEvents[c]
  <2>1. pollIndex[c] \in 1 .. Len(pollfds_) /\ Entry(c, pollfds_[pollIndex[c]])
    BY <1>2 DEF PollInv, PollPlaces
  <2>2. Mine(c) = {pollfds_[pollIndex[c]]}
    BY <1>1, <1>2, <2>1 DEF PollInv, PollPlaces, Entry
  <2>3. {p.events : p \in Mine(c)} = {pollEvents[c]}
    BY <2>1, <2>2 DEF Entry
  <2> QED BY <2>3
<1>3. ASSUME NEW c \in Channels, c \notin pollChannels \/ pollEvents[c] = {}
      PROVE  UNION {p.events : p \in Mine(c)} = pollEvents[c]
  <2>1. \A i \in 1 .. Len(pollfds_) : pollfds_[i].channel = c =>
          c \in pollChannels /\ Entry(c, pollfds_[i])
    BY DEF PollInv, PollPlaces
  <2>2. Mine(c) = {}
    BY <1>1, <1>3, <2>1 DEF Entry
  <2>3. pollEvents[c] = {}
    BY <1>3 DEF PollInv, PollPlaces
  <2> QED BY <2>2, <2>3
<1>4. \A c \in Channels : UNION {p.events : p \in Mine(c)} = pollEvents[c]
  BY <1>2, <1>3
<1> QED BY <1>4 DEF PollInv, PollType, Poll!Watched

LEMMA PollStarts == Poll!Init => PollInv
  BY DEF Poll!Init, PollInv, PollType, PollPlaces

(* A change of one entry, and one entry more.                              *)
LEMMA Changed ==
  ASSUME NEW p \in Poll!PollFds, NEW e \in SUBSET Events
  PROVE  LET q == [p EXCEPT !.events = e, !.negated = @ \/ e = {}]
         IN /\ q \in Poll!PollFds /\ q.channel = p.channel /\ q.events = e
            /\ q.negated <=> p.negated \/ e = {}
  BY DEF Poll!PollFds

LEMMA UpdateKeeps ==
  ASSUME PollInv, NEW c \in Channels, Poll!Update(c)
  PROVE  PollInv'
<1>1. PICK events \in SUBSET Events :
        /\ IF events = {} THEN c \in pollChannels ELSE c \in pollChannels => pollEvents[c] # {}
        /\ pollEvents' = [pollEvents EXCEPT ![c] = events]
        /\ Poll!UpdateChannel(c, events)
  BY DEF Poll!Update
<1>2. /\ PollType /\ PollPlaces /\ Len(pollfds_) \in Nat
      /\ \A i \in 1 .. Len(pollfds_) : pollfds_[i] \in Poll!PollFds
  BY DEF PollInv, PollType
<1>3. /\ pollEvents' \in [Channels -> SUBSET Events] /\ pollEvents'[c] = events
      /\ \A d \in Channels : d # c => pollEvents'[d] = pollEvents[d]
  BY <1>1, <1>2 DEF PollType
<1>4. CASE c \notin pollChannels
  <2> DEFINE p == [channel |-> c, negated |-> FALSE, events |-> events]
  <2>1. events # {} /\ pollIndex[c] = 0
    BY <1>1, <1>2, <1>4 DEF PollPlaces
  <2>2. /\ pollfds_' = Append(pollfds_, p)
        /\ pollIndex' = [pollIndex EXCEPT ![c] = Len(pollfds_')]
        /\ pollChannels' = pollChannels \cup {c}
    BY <1>1, <2>1 DEF Poll!UpdateChannel
  <2>3. p \in Poll!PollFds /\ p.channel = c /\ ~p.negated /\ p.events = events
    BY DEF Poll!PollFds
  <2> HIDE DEF p
  <2>4. /\ pollfds_' \in Seq(Poll!PollFds) /\ Len(pollfds_') = Len(pollfds_) + 1
        /\ pollfds_'[Len(pollfds_) + 1] = p
        /\ \A i \in 1 .. Len(pollfds_) : pollfds_'[i] = pollfds_[i]
    BY <1>2, <2>2, <2>3 DEF PollType
  <2>5. /\ pollIndex' \in [Channels -> Nat] /\ pollIndex'[c] = Len(pollfds_) + 1
        /\ \A d \in Channels : d # c => pollIndex'[d] = pollIndex[d]
    BY <1>2, <2>2, <2>4 DEF PollType
  <2>6. PollType'
    BY <1>2, <1>3, <2>2, <2>4, <2>5 DEF PollType
  <2>7. ASSUME NEW d \in pollChannels'
        PROVE  /\ pollIndex'[d] \in 1 .. Len(pollfds_')
               /\ pollfds_'[pollIndex'[d]].channel = d
               /\ pollfds_'[pollIndex'[d]].negated <=> pollEvents'[d] = {}
               /\ pollfds_'[pollIndex'[d]].events = pollEvents'[d]
    <3>1. CASE d = c
      BY <1>2, <1>3, <2>1, <2>3, <2>4, <2>5, <3>1
    <3>2. CASE d # c
      <4>1. d \in pollChannels /\ d \in Channels
        BY <1>2, <2>2, <2>7, <3>2 DEF PollType
      <4>2. pollIndex[d] \in 1 .. Len(pollfds_) /\ Entry(d, pollfds_[pollIndex[d]])
        BY <1>2, <4>1 DEF PollPlaces
      <4> QED BY <1>2, <1>3, <2>4, <2>5, <3>2, <4>1, <4>2 DEF Entry
    <3> QED BY <3>1, <3>2
  <2>8. \A d \in Channels : d \notin pollChannels' => pollIndex'[d] = 0 /\ pollEvents'[d] = {}
    BY <1>2, <1>3, <2>2, <2>5 DEF PollPlaces
  <2>9. ASSUME NEW i \in 1 .. Len(pollfds_')
        PROVE  pollfds_'[i].channel \in pollChannels' /\ pollIndex'[pollfds_'[i].channel] = i
    <3>1. CASE i = Len(pollfds_) + 1
      BY <2>2, <2>3, <2>4, <2>5, <3>1
    <3>2. CASE i \in 1 .. Len(pollfds_)
      <4>1. pollfds_[i].channel \in pollChannels /\ pollIndex[pollfds_[i].channel] = i
        BY <1>2, <3>2 DEF PollPlaces
      <4> QED BY <1>2, <1>4, <2>2, <2>4, <2>5, <3>2, <4>1 DEF PollType
    <3> QED BY <1>2, <2>4, <3>1, <3>2
  <2> QED BY <2>6, <2>7, <2>8, <2>9 DEF PollInv, PollPlaces, Entry
<1>5. CASE c \in pollChannels
  <2> DEFINE n == pollIndex[c]
             q == [pollfds_[n] EXCEPT !.events = events, !.negated = @ \/ events = {}]
  <2>1. n \in 1 .. Len(pollfds_) /\ Entry(c, pollfds_[n]) /\ n # 0 /\ pollfds_[n] \in Poll!PollFds
    BY <1>2, <1>5 DEF PollPlaces
  <2>2. /\ pollfds_' = [pollfds_ EXCEPT ![n] = q]
        /\ UNCHANGED <<pollIndex, pollChannels>>
    BY <1>1, <1>2, <2>1 DEF Poll!UpdateChannel, PollType
  <2>3. /\ q \in Poll!PollFds /\ q.channel = c /\ q.events = events
        /\ q.negated <=> events = {}
    <3>1. /\ q \in Poll!PollFds /\ q.channel = pollfds_[n].channel /\ q.events = events
          /\ q.negated <=> pollfds_[n].negated \/ events = {}
      BY <2>1, Changed
    <3> HIDE DEF q, n
    <3>2. pollfds_[n].negated => events = {}
      BY <1>1, <1>5, <2>1 DEF Entry
    <3> QED BY <2>1, <3>1, <3>2 DEF Entry
  <2> HIDE DEF q
  <2>4. /\ pollfds_' \in Seq(Poll!PollFds) /\ Len(pollfds_') = Len(pollfds_)
        /\ \A i \in 1 .. Len(pollfds_) : pollfds_'[i] = IF i = n THEN q ELSE pollfds_[i]
    BY <1>2, <2>1, <2>2, <2>3 DEF PollType
  <2>5. PollType'
    BY <1>2, <1>3, <2>2, <2>4 DEF PollType
  <2>6. ASSUME NEW d \in pollChannels
        PROVE  /\ pollIndex[d] \in 1 .. Len(pollfds_)
               /\ pollfds_'[pollIndex[d]].channel = d
               /\ pollfds_'[pollIndex[d]].negated <=> pollEvents'[d] = {}
               /\ pollfds_'[pollIndex[d]].events = pollEvents'[d]
    <3>1. CASE d = c
      BY <1>3, <2>1, <2>3, <2>4, <3>1
    <3>2. CASE d # c
      <4>1. d \in Channels /\ pollIndex[d] \in 1 .. Len(pollfds_) /\ Entry(d, pollfds_[pollIndex[d]])
        BY <1>2 DEF PollPlaces, PollType
      <4>2. pollIndex[d] # n
        BY <2>1, <3>2, <4>1 DEF Entry
      <4> QED BY <1>3, <2>4, <3>2, <4>1, <4>2 DEF Entry
    <3> QED BY <3>1, <3>2
  <2>7. \A d \in Channels : d \notin pollChannels => pollIndex[d] = 0 /\ pollEvents'[d] = {}
    BY <1>2, <1>3, <1>5 DEF PollPlaces
  <2>8. ASSUME NEW i \in 1 .. Len(pollfds_)
        PROVE  pollfds_'[i].channel \in pollChannels /\ pollIndex[pollfds_'[i].channel] = i
    <3>1. pollfds_'[i].channel = pollfds_[i].channel
      BY <2>1, <2>3, <2>4 DEF Entry
    <3> QED BY <1>2, <3>1 DEF PollPlaces
  <2> QED BY <2>2, <2>4, <2>5, <2>6, <2>7, <2>8 DEF PollInv, PollPlaces, Entry
<1> QED BY <1>4, <1>5

(* The entry of a removed channel is replaced by the last one.             *)
LEMMA RemoveKeeps ==
  ASSUME PollInv, NEW c \in Channels, Poll!Remove(c)
  PROVE  PollInv'
<1> DEFINE n == pollIndex[c]
           k == Len(pollfds_)
           l == pollfds_[k].channel
<1>1. /\ PollType /\ PollPlaces /\ k \in Nat
      /\ \A i \in 1 .. k : pollfds_[i] \in Poll!PollFds
  BY DEF PollInv, PollType
<1>2. /\ c \in pollChannels /\ pollEvents[c] = {} /\ pollEvents' = pollEvents
      /\ pollChannels' = pollChannels \ {c}
      /\ pollfds_' = Poll!SequenceOps!Front([pollfds_ EXCEPT ![n] = Poll!SequenceOps!Last(pollfds_)])
      /\ pollIndex' = [pollIndex EXCEPT ![Poll!SequenceOps!Last(pollfds_).channel] = n, ![c] = 0]
  BY DEF Poll!Remove, Poll!RemoveChannel
<1>3. n \in 1 .. k /\ pollfds_[n].channel = c /\ k \in 1 .. k
  BY <1>1, <1>2 DEF PollPlaces, Entry
<1>4. l \in pollChannels /\ pollIndex[l] = k /\ l \in Channels
  BY <1>1, <1>3 DEF PollPlaces, PollType
<1>5. Poll!SequenceOps!Last(pollfds_) = pollfds_[k]
  BY DEF Poll!SequenceOps!Last
<1>6. /\ pollfds_' \in Seq(Poll!PollFds) /\ Len(pollfds_') = k - 1
      /\ \A i \in 1 .. k - 1 : pollfds_'[i] = IF i = n THEN pollfds_[k] ELSE pollfds_[i]
  <2> DEFINE s == [pollfds_ EXCEPT ![n] = pollfds_[k]]
  <2>1. /\ s \in Seq(Poll!PollFds) /\ Len(s) = k
        /\ \A i \in 1 .. k : s[i] = IF i = n THEN pollfds_[k] ELSE pollfds_[i]
    BY <1>1, <1>3 DEF PollType
  <2>2. pollfds_' = SubSeq(s, 1, Len(s) - 1)
    BY <1>2, <1>5 DEF Poll!SequenceOps!Front
  <2> HIDE DEF s, n, k
  <2>3. SubSeq(s, 1, k - 1) \in Seq(Poll!PollFds) /\ Len(SubSeq(s, 1, k - 1)) = k - 1
        /\ \A i \in 1 .. k - 1 : SubSeq(s, 1, k - 1)[i] = s[i]
    BY <1>1, <1>3, <2>1
  <2>4. \A i \in 1 .. k - 1 : i \in 1 .. k
    BY <1>1
  <2> QED BY <2>1, <2>2, <2>3, <2>4
<1>7. /\ pollIndex' \in [Channels -> Nat]
      /\ \A d \in Channels : pollIndex'[d] = IF d = c THEN 0 ELSE IF d = l THEN n ELSE pollIndex[d]
  BY <1>1, <1>2, <1>3, <1>4, <1>5 DEF PollType
<1>8. PollType'
  BY <1>1, <1>2, <1>6, <1>7 DEF PollType
<1>9. \A i, j \in 1 .. k : pollfds_[i].channel = pollfds_[j].channel => i = j
  BY <1>1 DEF PollPlaces
<1> HIDE DEF n, k, l
<1>10. ASSUME NEW d \in pollChannels'
       PROVE  /\ pollIndex'[d] \in 1 .. Len(pollfds_')
              /\ pollfds_'[pollIndex'[d]].channel = d
              /\ pollfds_'[pollIndex'[d]].negated <=> pollEvents'[d] = {}
              /\ pollfds_'[pollIndex'[d]].events = pollEvents'[d]
  <2>1. d \in pollChannels /\ d # c /\ d \in Channels
    BY <1>1, <1>2, <1>10 DEF PollType
  <2>2. pollIndex[d] \in 1 .. k /\ Entry(d, pollfds_[pollIndex[d]])
    BY <1>1, <2>1 DEF PollPlaces, k
  <2>3. CASE d = l
    <3>1. pollIndex'[d] = n
      BY <1>7, <2>1, <2>3
    <3>2. n # k
      BY <1>3, <2>1, <2>3 DEF l
    <3>3. n \in 1 .. k - 1
      BY <1>1, <1>3, <3>2
    <3>4. pollfds_'[n] = pollfds_[k] /\ pollIndex[d] = k
      BY <1>4, <1>6, <2>3, <3>3
    <3> QED BY <1>2, <1>6, <2>2, <3>1, <3>3, <3>4 DEF Entry
  <2>4. CASE d # l
    <3>1. pollIndex'[d] = pollIndex[d]
      BY <1>7, <2>1, <2>4
    <3>2. pollIndex[d] # k /\ pollIndex[d] # n
      BY <1>3, <2>1, <2>2, <2>4 DEF Entry, l
    <3>3. pollIndex[d] \in 1 .. k - 1
      BY <1>1, <2>2, <3>2
    <3>4. pollfds_'[pollIndex[d]] = pollfds_[pollIndex[d]]
      BY <1>6, <3>2, <3>3
    <3> QED BY <1>2, <1>6, <2>2, <3>1, <3>3, <3>4 DEF Entry
  <2> QED BY <2>3, <2>4
<1>11. \A d \in Channels : d \notin pollChannels' => pollIndex'[d] = 0 /\ pollEvents'[d] = {}
  BY <1>1, <1>2, <1>4, <1>7 DEF PollPlaces
<1>12. ASSUME NEW i \in 1 .. Len(pollfds_')
       PROVE  pollfds_'[i].channel \in pollChannels' /\ pollIndex'[pollfds_'[i].channel] = i
  <2>1. i \in 1 .. k - 1 /\ i \in 1 .. k /\ i # k
    BY <1>1, <1>6, <1>12
  <2>2. CASE i = n
    <3>1. pollfds_'[i].channel = l
      BY <1>6, <2>1, <2>2 DEF l
    <3>2. l # c
      BY <1>3, <1>9, <2>1, <2>2 DEF l
    <3> QED BY <1>2, <1>4, <1>7, <2>2, <3>1, <3>2
  <2>3. CASE i # n
    <3>1. pollfds_'[i] = pollfds_[i]
      BY <1>6, <2>1, <2>3
    <3>2. pollfds_[i].channel # c /\ pollfds_[i].channel # l
      BY <1>3, <1>9, <2>1, <2>3 DEF l
    <3>3. pollfds_[i].channel \in pollChannels /\ pollIndex[pollfds_[i].channel] = i
      BY <1>1, <2>1 DEF PollPlaces, k
    <3> QED BY <1>1, <1>2, <1>7, <3>1, <3>2, <3>3 DEF PollType
  <2> QED BY <2>2, <2>3
<1> QED BY <1>8, <1>10, <1>11, <1>12 DEF PollInv, PollPlaces, Entry

LEMMA PollStep == PollInv /\ [Poll!Next]_(Poll!vars) => PollInv'
<1> SUFFICES ASSUME PollInv, [Poll!Next]_(Poll!vars) PROVE PollInv'
  OBVIOUS
<1>1. CASE Poll!Poll \/ (\E c \in Channels : Poll!Handled(c)) \/ UNCHANGED Poll!vars
  <2>1. UNCHANGED <<pollEvents, pollIndex, pollChannels, pollfds_>>
    BY <1>1 DEF Poll!Poll, Poll!Handled, Poll!vars
  <2> QED BY <2>1 DEF PollInv, PollType, PollPlaces, Entry
<1> QED BY <1>1, UpdateKeeps, RemoveKeeps DEF Poll!Next

LEMMA PollRefines ==
  ASSUME PollInv, Poll!Watched = pollEvents, Poll!Watched' = pollEvents', [Poll!Next]_(Poll!vars)
  PROVE  [Poll!Abstract!Next]_(Poll!Abstract!vars)
<1>1. Poll!Watched = pollEvents /\ Poll!Watched' = pollEvents'
  OBVIOUS
<1>2. ASSUME NEW c \in Channels, Poll!Update(c)
      PROVE  \E events \in SUBSET Events : Poll!Abstract!Update(c, events)
  BY <1>1, <1>2 DEF Poll!Update, Poll!Abstract!Update
<1>3. ASSUME NEW c \in Channels, Poll!Remove(c) PROVE UNCHANGED <<pollEvents, pollActive>>
  BY <1>3 DEF Poll!Remove
<1>4. ASSUME Poll!Poll PROVE Poll!Abstract!Poll
  <2> DEFINE asked == {q \in Poll!SequenceOps!ToSet(pollfds_) : ~q.negated}
  <2>1. ASSUME NEW q \in asked PROVE q.channel \in {c \in Channels : pollEvents[c] # {}}
    <3>1. PICK i \in 1 .. Len(pollfds_) : q = pollfds_[i]
      BY DEF PollInv, PollType, Poll!SequenceOps!ToSet
    <3>2. q.channel \in pollChannels /\ Entry(q.channel, q)
      BY <3>1 DEF PollInv, PollPlaces
    <3> QED BY <2>1, <3>2 DEF PollInv, PollType, Entry
  <2>2. {p.channel : p \in asked} \subseteq {c \in Channels : pollEvents[c] # {}}
    BY <2>1
  <2>3. /\ pollActive = {} /\ pollActive' \in SUBSET {p.channel : p \in asked}
        /\ pollEvents' = pollEvents
    BY <1>4 DEF Poll!Poll
  <2>4. pollActive' \in SUBSET {c \in Channels : Poll!Watched[c] # {}}
    BY <1>1, <2>2, <2>3
  <2>5. Poll!Watched' = Poll!Watched
    BY <1>1, <2>3
  <2> QED BY <2>3, <2>4, <2>5 DEF Poll!Abstract!Poll
<1>5. ASSUME NEW c \in Channels, Poll!Handled(c) PROVE Poll!Abstract!Handled(c)
  BY <1>1, <1>5 DEF Poll!Handled, Poll!Abstract!Handled
<1> QED BY <1>1, <1>2, <1>3, <1>4, <1>5
        DEF Poll!Next, Poll!vars, Poll!Abstract!Next, Poll!Abstract!vars

LEMMA PollAbstractStarts == Poll!Init => Poll!Abstract!Init
  BY PollStarts, PollWatches DEF Poll!Init, Poll!Abstract!Init

(* PollPoller.cc: for any channels, in every order of enabling, disabling  *)
(* and removing, and however entries change places, poll waits for what    *)
(* the channels ask for.                                                   *)
THEOREM PollIsPoller == Poll!Spec => Poll!ImplementsPoller
<1>1. Poll!Spec => []PollInv
  BY PollStarts, PollStep, PTL DEF Poll!Spec
<1>2. PollInv =>
        (\A c \in pollChannels : pollIndex[c] \in DOMAIN pollfds_ /\ pollfds_[pollIndex[c]].channel = c)
  <2> SUFFICES ASSUME PollInv, NEW c \in pollChannels
               PROVE  pollIndex[c] \in DOMAIN pollfds_ /\ pollfds_[pollIndex[c]].channel = c
    OBVIOUS
  <2>1. DOMAIN pollfds_ = 1 .. Len(pollfds_)
    BY DEF PollInv, PollType
  <2> QED BY <2>1 DEF PollInv, PollPlaces, Entry
<1>3. PollInv /\ Poll!Watched = pollEvents /\ (Poll!Watched = pollEvents)' /\ [Poll!Next]_(Poll!vars)
        => [Poll!Abstract!Next]_(Poll!Abstract!vars)
  BY PollRefines
<1>4. Poll!Spec => Poll!Abstract!Spec
  BY <1>1, <1>3, PollWatches, PollAbstractStarts, PTL DEF Poll!Spec, Poll!Abstract!Spec
<1> QED BY <1>1, <1>2, <1>4, PollWatches, PTL DEF Poll!ImplementsPoller

-----------------------------------------------------------------------------
(* Both pollers keep the kernel asked for exactly what every channel asks  *)
(* for, through every update, removal and reuse (EPollPoller, PollPoller). *)
THEOREM PollersImplement ==
  EPoll!Spec /\ Poll!Spec => ImplementPoller
BY EPollIsPoller, PollIsPoller DEF ImplementPoller

-----------------------------------------------------------------------------
(* The input buffer: lemmas about the helpers on sequences, then what each *)
(* operation leaves of the bytes shown between the indices.                *)
LEMMA IsSequence ==
  ASSUME NEW S, NEW n \in Nat, NEW f \in [1 .. n -> S]
  PROVE  f \in Seq(S) /\ Len(f) = n
  OBVIOUS

LEMMA CopiedFacts ==
  ASSUME NEW vec \in Seq(Bytes), NEW at \in Nat, NEW data \in Seq(Bytes),
         at + Len(data) <= Len(vec)
  PROVE  /\ Input!Copied(vec, at, data) \in Seq(Bytes)
         /\ Len(Input!Copied(vec, at, data)) = Len(vec)
         /\ \A j \in 1 .. Len(data) : Input!Copied(vec, at, data)[at + j] = data[j]
         /\ \A i \in 1 .. Len(vec) : i <= at \/ at + Len(data) < i
                                      => Input!Copied(vec, at, data)[i] = vec[i]
<1> DEFINE n == Len(vec)
           d == Len(data)
           f == [i \in 1 .. n |-> IF at < i /\ i <= at + d THEN data[i - at] ELSE vec[i]]
<1>1. n \in Nat /\ d \in Nat
  OBVIOUS
<1>2. ASSUME NEW i \in 1 .. n PROVE f[i] \in Bytes
  <2>1. CASE at < i /\ i <= at + d
    <3>1. i - at \in 1 .. d
      BY <1>1, <2>1
    <3>2. data[i - at] \in Bytes
      BY <3>1
    <3> QED BY <2>1, <3>2
  <2>2. CASE ~(at < i /\ i <= at + d)
    <3>1. vec[i] \in Bytes
      OBVIOUS
    <3> QED BY <2>2, <3>1
  <2> QED BY <2>1, <2>2
<1>3. f \in [1 .. n -> Bytes]
  BY <1>2
<1>4. f \in Seq(Bytes) /\ Len(f) = n
  <2> HIDE DEF f, n, d
  <2> QED BY <1>1, <1>3, IsSequence
<1>5. ASSUME NEW j \in 1 .. d PROVE f[at + j] = data[j]
  <2>1. at + j \in 1 .. n /\ at < at + j /\ at + j <= at + d /\ (at + j) - at = j
    BY <1>1
  <2> QED BY <2>1
<1>6. \A i \in 1 .. n : i <= at \/ at + d < i => f[i] = vec[i]
  BY <1>1
<1>7. Input!Copied(vec, at, data) = f
  BY DEF Input!Copied
<1> HIDE DEF f
<1> QED BY <1>4, <1>5, <1>6, <1>7

LEMMA ResizedFacts ==
  ASSUME NEW vec \in Seq(Bytes), NEW size \in Nat, Fill \in Bytes
  PROVE  /\ Input!Resized(vec, size) \in Seq(Bytes)
         /\ Len(Input!Resized(vec, size)) = size
         /\ \A i \in 1 .. size : i <= Len(vec) => Input!Resized(vec, size)[i] = vec[i]
<1> DEFINE f == [i \in 1 .. size |-> IF i <= Len(vec) THEN vec[i] ELSE Fill]
<1>1. f \in [1 .. size -> Bytes]
  OBVIOUS
<1>2. f \in Seq(Bytes) /\ Len(f) = size
  <2> HIDE DEF f
  <2> QED BY <1>1, IsSequence
<1>3. \A i \in 1 .. size : i <= Len(vec) => f[i] = vec[i]
  OBVIOUS
<1>4. Input!Resized(vec, size) = f
  BY DEF Input!Resized
<1> HIDE DEF f
<1> QED BY <1>2, <1>3, <1>4

LEMMA PartFacts ==
  ASSUME NEW S, NEW s \in Seq(S), NEW a \in Nat, NEW b \in Nat, a <= b, b <= Len(s)
  PROVE  /\ SubSeq(s, a + 1, b) \in Seq(S) /\ Len(SubSeq(s, a + 1, b)) = b - a
         /\ \A i \in 1 .. b - a : SubSeq(s, a + 1, b)[i] = s[a + i]
<1>1. Len(SubSeq(s, a + 1, b)) = b - a /\ Len(s) \in Nat
  OBVIOUS
<1>2. SubSeq(s, a + 1, b) \in Seq(S)
  OBVIOUS
<1>3. ASSUME NEW i \in 1 .. b - a PROVE SubSeq(s, a + 1, b)[i] = s[a + i]
  <2>1. SubSeq(s, a + 1, b)[i] = s[(a + 1) + i - 1]
    BY <1>1
  <2>2. (a + 1) + i - 1 = a + i
    OBVIOUS
  <2> QED BY <2>1, <2>2
<1> QED BY <1>1, <1>2, <1>3

(* What append leaves of a vector whose content is c: the content, the     *)
(* data behind it, and a vector that grew only if the content with the     *)
(* data takes more than half of it.                                        *)
LEMMA AppendFits ==
  ASSUME NEW vec \in Seq(Bytes), NEW r \in Nat, NEW w \in Nat, r <= w, w <= Len(vec),
         NEW c \in Seq(Bytes), Len(c) = w - r, \A i \in 1 .. Len(c) : c[i] = vec[r + i],
         NEW data \in Seq(Bytes), Input!AppendTo(vec, r, w, data)
  PROVE  /\ buffer_' \in Seq(Bytes) /\ readerIndex_' \in Nat /\ writerIndex_' \in Nat
         /\ writerIndex_' = readerIndex_' + Len(c) + Len(data) /\ writerIndex_' <= Len(buffer_')
         /\ \A i \in 1 .. Len(c) : buffer_'[readerIndex_' + i] = c[i]
         /\ \A j \in 1 .. Len(data) : buffer_'[readerIndex_' + Len(c) + j] = data[j]
         /\ Len(buffer_') >= Len(vec)
         /\ \/ Len(buffer_') = Len(vec)
            \/ Len(buffer_') = w + Len(data) /\ r < Len(data) + kCheapPrepend
<1> DEFINE n == Len(vec)
           m == Len(c)
           d == Len(data)
           first == Input!RoomyReader(vec, r, w, d)
           roomy == Input!Roomy(vec, r, w, d)
           last == first + m
<1>1. n \in Nat /\ m \in Nat /\ d \in Nat /\ w = r + m /\ kCheapPrepend \in Nat /\ Fill \in Bytes
  BY BufferAssumption
<1>2. /\ first \in Nat /\ roomy \in Seq(Bytes) /\ last + d <= Len(roomy)
      /\ \A i \in 1 .. m : roomy[first + i] = c[i]
      /\ Len(roomy) >= n
      /\ Len(roomy) = n \/ (Len(roomy) = w + d /\ r < d + kCheapPrepend)
  <2>1. CASE Input!Fits(vec, w, d)
    <3>1. roomy = vec /\ first = r
      BY <2>1 DEF Input!Roomy, Input!RoomyReader
    <3>2. r + m + d <= n
      BY <1>1, <2>1 DEF Input!Fits
    <3> HIDE DEF roomy, first
    <3> QED BY <1>1, <3>1, <3>2
  <2>2. CASE Input!Grows(vec, r, w, d)
    <3>1. roomy = Input!Resized(vec, w + d) /\ first = r
      BY <2>2 DEF Input!Roomy, Input!RoomyReader, Input!Grows
    <3>2. n < w + d /\ r < d + kCheapPrepend
      BY <1>1, <2>2 DEF Input!Grows, Input!Fits
    <3>3. /\ roomy \in Seq(Bytes) /\ Len(roomy) = w + d
          /\ \A i \in 1 .. w + d : i <= n => roomy[i] = vec[i]
      <4>1. w + d \in Nat
        BY <1>1
      <4> HIDE DEF roomy, d
      <4> QED BY <1>1, <3>1, <4>1, ResizedFacts
    <3>w. w <= n
      OBVIOUS
    <3>c. \A i \in 1 .. m : c[i] = vec[r + i]
      OBVIOUS
    <3> HIDE DEF roomy, first, n, m, d
    <3>4. ASSUME NEW i \in 1 .. m PROVE roomy[first + i] = c[i]
      <4>1. r + i \in 1 .. w + d /\ r + i <= n
        BY <1>1, <3>w
      <4>2. roomy[r + i] = vec[r + i]
        BY <3>3, <4>1
      <4> QED BY <3>1, <3>c, <4>2
    <3>5. first \in Nat /\ last + d <= Len(roomy) /\ Len(roomy) >= n
      BY <1>1, <3>1, <3>2, <3>3, SMTT(30)
    <3> QED BY <3>2, <3>3, <3>4, <3>5
  <2>3. CASE ~Input!Fits(vec, w, d) /\ ~Input!Grows(vec, r, w, d)
    <3> DEFINE piece == SubSeq(vec, r + 1, w)
    <3>1. roomy = Input!Copied(vec, kCheapPrepend, piece) /\ first = kCheapPrepend
      BY <2>3 DEF Input!Roomy, Input!RoomyReader
    <3>2. d + kCheapPrepend <= (n - w) + r
      BY <1>1, <2>3 DEF Input!Grows
    <3>3. piece \in Seq(Bytes) /\ Len(piece) = m /\ \A i \in 1 .. m : piece[i] = vec[r + i]
      <4>1. w - r = m
        BY <1>1
      <4> HIDE DEF piece, m
      <4> QED BY <4>1, PartFacts DEF piece
    <3> HIDE DEF piece
    <3>4. kCheapPrepend + Len(piece) <= Len(vec)
      BY <1>1, <3>2, <3>3
    <3>5. /\ roomy \in Seq(Bytes) /\ Len(roomy) = n
          /\ \A i \in 1 .. m : roomy[kCheapPrepend + i] = piece[i]
      <4>1. kCheapPrepend \in Nat
        BY <1>1
      <4>2. /\ Input!Copied(vec, kCheapPrepend, piece) \in Seq(Bytes)
            /\ Len(Input!Copied(vec, kCheapPrepend, piece)) = Len(vec)
            /\ \A j \in 1 .. Len(piece) : Input!Copied(vec, kCheapPrepend, piece)[kCheapPrepend + j] = piece[j]
        BY <3>3, <3>4, <4>1, CopiedFacts
      <4> QED BY <3>1, <3>3, <4>2
    <3>6. last + d <= n
      BY <1>1, <3>1, <3>2, SMTT(30)
    <3> HIDE DEF roomy, first
    <3>7. \A i \in 1 .. m : roomy[first + i] = c[i]
      BY <3>1, <3>3, <3>5
    <3> QED BY <1>1, <3>1, <3>5, <3>6, <3>7
  <2> QED BY <2>1, <2>2, <2>3
<1>3. /\ buffer_' = Input!Copied(roomy, last, data)
      /\ readerIndex_' = first /\ writerIndex_' = last + d
  <2>1. w - r = m
    BY <1>1
  <2> QED BY <2>1 DEF Input!AppendTo
<1> HIDE DEF roomy, first, n, m, d
<1>4. last \in Nat
  BY <1>1, <1>2
<1> HIDE DEF last
<1>5. /\ buffer_' \in Seq(Bytes) /\ Len(buffer_') = Len(roomy)
      /\ \A j \in 1 .. d : buffer_'[last + j] = data[j]
      /\ \A i \in 1 .. Len(roomy) : i <= last => buffer_'[i] = roomy[i]
  <2> DEFINE new == Input!Copied(roomy, last, data)
  <2>1. /\ new \in Seq(Bytes) /\ Len(new) = Len(roomy)
        /\ \A j \in 1 .. Len(data) : new[last + j] = data[j]
        /\ \A i \in 1 .. Len(roomy) : i <= last \/ last + Len(data) < i => new[i] = roomy[i]
    BY <1>2, <1>4, CopiedFacts DEF d
  <2> HIDE DEF new
  <2> QED BY <1>3, <2>1 DEF d, new
<1>6. ASSUME NEW i \in 1 .. m PROVE buffer_'[first + i] = c[i]
  <2>1. Len(roomy) \in Nat
    BY <1>2
  <2>2. first + i \in 1 .. Len(roomy) /\ first + i <= last
    <3>1. first \in Nat /\ m \in Nat /\ d \in Nat /\ last = first + m /\ last + d <= Len(roomy)
      BY <1>1, <1>2 DEF last
    <3>2. i \in Nat /\ 1 <= i /\ i <= m
      BY <1>1, <1>6
    <3> QED BY <2>1, <3>1, <3>2
  <2> QED BY <1>2, <1>5, <1>6, <2>2
<1> QED BY <1>1, <1>2, <1>3, <1>4, <1>5, <1>6 DEF last, n, m, d

LEMMA JoinFacts ==
  ASSUME NEW S, NEW s \in Seq(S), NEW t \in Seq(S)
  PROVE  /\ s \o t \in Seq(S) /\ Len(s \o t) = Len(s) + Len(t)
         /\ \A i \in 1 .. Len(s) + Len(t) :
              (s \o t)[i] = IF i <= Len(s) THEN s[i] ELSE t[i - Len(s)]
  OBVIOUS

(* The bytes of vec between r and w are those of c. *)
Shows(vec, r, w, c) ==
  /\ vec \in Seq(Bytes) /\ r \in Nat /\ w \in Nat /\ r <= w /\ w <= Len(vec)
  /\ c \in Seq(Bytes) /\ Len(c) = w - r
  /\ \A i \in 1 .. Len(c) : c[i] = vec[r + i]

(* Appending to a vector that shows c makes one that shows c and the data. *)
LEMMA AppendShows ==
  ASSUME NEW vec, NEW r, NEW w, NEW c, Shows(vec, r, w, c),
         NEW data \in Seq(Bytes), Input!AppendTo(vec, r, w, data)
  PROVE  /\ Shows(buffer_', readerIndex_', writerIndex_', c \o data)
         /\ Len(buffer_') >= Len(vec)
         /\ \/ Len(buffer_') = Len(vec)
            \/ Len(buffer_') = w + Len(data) /\ r < Len(data) + kCheapPrepend
<1>1. /\ vec \in Seq(Bytes) /\ r \in Nat /\ w \in Nat /\ r <= w /\ w <= Len(vec)
      /\ c \in Seq(Bytes) /\ Len(c) = w - r
      /\ \A i \in 1 .. Len(c) : c[i] = vec[r + i]
  BY DEF Shows
<1>2. /\ buffer_' \in Seq(Bytes) /\ readerIndex_' \in Nat /\ writerIndex_' \in Nat
      /\ writerIndex_' = readerIndex_' + Len(c) + Len(data) /\ writerIndex_' <= Len(buffer_')
      /\ \A i \in 1 .. Len(c) : buffer_'[readerIndex_' + i] = c[i]
      /\ \A j \in 1 .. Len(data) : buffer_'[readerIndex_' + Len(c) + j] = data[j]
      /\ Len(buffer_') >= Len(vec)
      /\ \/ Len(buffer_') = Len(vec)
         \/ Len(buffer_') = w + Len(data) /\ r < Len(data) + kCheapPrepend
  BY <1>1, AppendFits
<1>3. /\ c \o data \in Seq(Bytes) /\ Len(c \o data) = Len(c) + Len(data)
      /\ \A i \in 1 .. Len(c) + Len(data) :
           (c \o data)[i] = IF i <= Len(c) THEN c[i] ELSE data[i - Len(c)]
  BY <1>1, JoinFacts
<1>4. Len(c) \in Nat /\ Len(data) \in Nat
  BY <1>1
<1>5. ASSUME NEW i \in 1 .. Len(c \o data) PROVE (c \o data)[i] = buffer_'[readerIndex_' + i]
  <2>1. CASE i <= Len(c)
    BY <1>2, <1>3, <1>4, <2>1
  <2>2. CASE ~(i <= Len(c))
    <3>1. i - Len(c) \in 1 .. Len(data) /\ i \in 1 .. Len(c) + Len(data)
      BY <1>3, <1>4, <2>2
    <3>2. readerIndex_' + Len(c) + (i - Len(c)) = readerIndex_' + i
      BY <1>2, <1>4
    <3>3. buffer_'[readerIndex_' + Len(c) + (i - Len(c))] = data[i - Len(c)]
      BY <1>2, <3>1
    <3> QED BY <1>3, <2>2, <3>1, <3>2, <3>3
  <2> QED BY <2>1, <2>2
<1>6. /\ readerIndex_' <= writerIndex_' /\ Len(c \o data) = writerIndex_' - readerIndex_'
  BY <1>2, <1>3, <1>4
<1> QED BY <1>2, <1>3, <1>5, <1>6 DEF Shows

(* So does copying data into the free end. *)
LEMMA FillShows ==
  ASSUME NEW vec, NEW r, NEW w, NEW c, Shows(vec, r, w, c),
         NEW data \in Seq(Bytes), Len(data) <= Len(vec) - w
  PROVE  Shows(Input!Copied(vec, w, data), r, w + Len(data), c \o data)
<1>1. /\ vec \in Seq(Bytes) /\ r \in Nat /\ w \in Nat /\ r <= w /\ w <= Len(vec)
      /\ c \in Seq(Bytes) /\ Len(c) = w - r
      /\ \A i \in 1 .. Len(c) : c[i] = vec[r + i]
  BY DEF Shows
<1>2. Len(c) \in Nat /\ Len(data) \in Nat /\ Len(vec) \in Nat /\ w + Len(data) <= Len(vec)
  BY <1>1
<1> DEFINE new == Input!Copied(vec, w, data)
<1>3. /\ new \in Seq(Bytes) /\ Len(new) = Len(vec)
      /\ \A j \in 1 .. Len(data) : new[w + j] = data[j]
      /\ \A i \in 1 .. Len(vec) : i <= w \/ w + Len(data) < i => new[i] = vec[i]
  BY <1>1, <1>2, CopiedFacts, ZenonT(60)
<1> HIDE DEF new
<1>4. /\ c \o data \in Seq(Bytes) /\ Len(c \o data) = Len(c) + Len(data)
      /\ \A i \in 1 .. Len(c) + Len(data) :
           (c \o data)[i] = IF i <= Len(c) THEN c[i] ELSE data[i - Len(c)]
  BY <1>1, JoinFacts
<1>5. ASSUME NEW i \in 1 .. Len(c \o data) PROVE (c \o data)[i] = new[r + i]
  <2>0. i \in 1 .. Len(c) + Len(data)
    BY <1>4, <1>5
  <2>1. CASE i <= Len(c)
    <3>1. r + i \in 1 .. Len(vec) /\ r + i <= w /\ i \in 1 .. Len(c)
      BY <1>1, <1>2, <2>0, <2>1
    <3> QED BY <1>1, <1>3, <1>4, <2>0, <2>1, <3>1
  <2>2. CASE ~(i <= Len(c))
    <3>1. i - Len(c) \in 1 .. Len(data)
      BY <1>2, <2>0, <2>2
    <3>2. w + (i - Len(c)) = r + i
      BY <1>1, <1>2, <2>0
    <3> QED BY <1>3, <1>4, <2>0, <2>2, <3>1, <3>2
  <2> QED BY <2>1, <2>2
<1>6. Len(c \o data) = (w + Len(data)) - r /\ r <= w + Len(data) /\ w + Len(data) \in Nat
  BY <1>1, <1>2, <1>4
<1> QED BY <1>1, <1>2, <1>3, <1>4, <1>5, <1>6 DEF Shows, new

(* And copying data before what is shown. *)
LEMMA PrependShows ==
  ASSUME NEW vec, NEW r, NEW w, NEW c, Shows(vec, r, w, c),
         NEW data \in Seq(Bytes), Len(data) <= r
  PROVE  Shows(Input!Copied(vec, r - Len(data), data), r - Len(data), w, data \o c)
<1>1. /\ vec \in Seq(Bytes) /\ r \in Nat /\ w \in Nat /\ r <= w /\ w <= Len(vec)
      /\ c \in Seq(Bytes) /\ Len(c) = w - r
      /\ \A i \in 1 .. Len(c) : c[i] = vec[r + i]
  BY DEF Shows
<1> DEFINE at == r - Len(data)
           new == Input!Copied(vec, at, data)
<1>2. /\ Len(c) \in Nat /\ Len(data) \in Nat /\ Len(vec) \in Nat
      /\ at \in Nat /\ at + Len(data) = r /\ r <= Len(vec)
  BY <1>1
<1> HIDE DEF at
<1>3. /\ new \in Seq(Bytes) /\ Len(new) = Len(vec)
      /\ \A j \in 1 .. Len(data) : new[at + j] = data[j]
      /\ \A i \in 1 .. Len(vec) : i <= at \/ at + Len(data) < i => new[i] = vec[i]
  <2>1. at + Len(data) <= Len(vec)
    BY <1>2
  <2> QED BY <1>1, <1>2, <2>1, CopiedFacts, ZenonT(60)
<1> HIDE DEF new
<1>4. /\ data \o c \in Seq(Bytes) /\ Len(data \o c) = Len(data) + Len(c)
      /\ \A i \in 1 .. Len(data) + Len(c) :
           (data \o c)[i] = IF i <= Len(data) THEN data[i] ELSE c[i - Len(data)]
  BY <1>1, JoinFacts
<1>5. ASSUME NEW i \in 1 .. Len(data \o c) PROVE (data \o c)[i] = new[at + i]
  <2>0. i \in 1 .. Len(data) + Len(c)
    BY <1>4, <1>5
  <2>1. CASE i <= Len(data)
    <3>1. i \in 1 .. Len(data)
      BY <1>2, <2>0, <2>1
    <3> QED BY <1>3, <1>4, <2>0, <2>1, <3>1
  <2>2. CASE ~(i <= Len(data))
    <3>1. /\ i - Len(data) \in 1 .. Len(c) /\ at + i \in 1 .. Len(vec)
          /\ at + Len(data) < at + i /\ r + (i - Len(data)) = at + i
      BY <1>1, <1>2, <2>0, <2>2, SMTT(30)
    <3>2. c[i - Len(data)] = vec[r + (i - Len(data))]
      BY <1>1, <3>1
    <3>3. new[at + i] = vec[at + i]
      BY <1>3, <3>1
    <3> QED BY <1>4, <2>0, <2>2, <3>1, <3>2, <3>3
  <2> QED BY <2>1, <2>2
<1>6. Len(data \o c) = w - at /\ at <= w
  <2>1. Len(data \o c) = Len(data) + Len(c) /\ Len(c) = w - r /\ r <= w /\ w \in Nat /\ r \in Nat
    BY <1>1, <1>4
  <2> QED BY <1>2, <2>1
<1> QED BY <1>1, <1>2, <1>3, <1>4, <1>5, <1>6 DEF Shows, at, new

(* Giving bytes back at either end shows the rest. *)
LEMMA PartShows ==
  ASSUME NEW vec, NEW r, NEW w, NEW c, Shows(vec, r, w, c),
         NEW a \in Nat, NEW b \in Nat, a <= b, b <= Len(c)
  PROVE  Shows(vec, r + a, r + b, SubSeq(c, a + 1, b))
<1>1. /\ vec \in Seq(Bytes) /\ r \in Nat /\ w \in Nat /\ r <= w /\ w <= Len(vec)
      /\ c \in Seq(Bytes) /\ Len(c) = w - r
      /\ \A i \in 1 .. Len(c) : c[i] = vec[r + i]
  BY DEF Shows
<1>2. Len(c) \in Nat /\ Len(vec) \in Nat
  BY <1>1
<1> DEFINE rest == SubSeq(c, a + 1, b)
<1>3. rest \in Seq(Bytes) /\ Len(rest) = b - a /\ \A i \in 1 .. b - a : rest[i] = c[a + i]
  BY <1>1, PartFacts
<1> HIDE DEF rest
<1>4. ASSUME NEW i \in 1 .. Len(rest) PROVE rest[i] = vec[(r + a) + i]
  <2>1. a + i \in 1 .. Len(c) /\ i \in 1 .. b - a /\ r + (a + i) = (r + a) + i
    BY <1>1, <1>2, <1>3, <1>4
  <2>2. c[a + i] = vec[r + (a + i)]
    BY <1>1, <2>1
  <2> QED BY <1>3, <2>1, <2>2
<1>5. r + a \in Nat /\ r + b \in Nat /\ r + a <= r + b /\ r + b <= Len(vec) /\ (r + b) - (r + a) = b - a
  BY <1>1, <1>2
<1> QED BY <1>1, <1>3, <1>4, <1>5 DEF Shows, rest


LEMMA WindowIs ==
  ASSUME NEW vec, NEW r, NEW w, NEW c, Shows(vec, r, w, c)
  PROVE  SubSeq(vec, r + 1, w) = c
<1>1. /\ vec \in Seq(Bytes) /\ r \in Nat /\ w \in Nat /\ r <= w /\ w <= Len(vec)
      /\ c \in Seq(Bytes) /\ Len(c) = w - r
      /\ \A i \in 1 .. Len(c) : c[i] = vec[r + i]
  BY DEF Shows
<1> DEFINE piece == SubSeq(vec, r + 1, w)
<1>2. piece \in Seq(Bytes) /\ Len(piece) = w - r /\ \A i \in 1 .. w - r : piece[i] = vec[r + i]
  BY <1>1, PartFacts
<1> HIDE DEF piece
<1>3. Len(piece) = Len(c) /\ \A i \in 1 .. Len(c) : piece[i] = c[i]
  BY <1>1, <1>2
<1>4. piece = c
  BY <1>1, <1>2, <1>3, SeqEqual
<1> QED BY <1>4 DEF piece

LEMMA DataIsSequence ==
  ASSUME NEW data \in Input!Data
  PROVE  data \in Seq(Bytes)
<1>1. PICK n \in 1 .. MaxContent : data \in [1 .. n -> Bytes]
  BY DEF Input!Data
<1>2. n \in Nat
  BY <1>1, BufferAssumption
<1> QED BY <1>1, <1>2, IsSequence

(* The vector is as large as it was made, and what it has more than that   *)
(* is no more than twice the most it ever held.                            *)
Room(vec, most) ==
  /\ most \in Nat
  /\ kCheapPrepend + kInitialSize <= Len(vec)
  /\ \/ Len(vec) <= kCheapPrepend + kInitialSize
     \/ Len(vec) <= kCheapPrepend + 2 * most

BufInv ==
  /\ Shows(buffer_, readerIndex_, writerIndex_, content)
  /\ Room(buffer_, peak)
  /\ Len(content) <= peak

LEMMA LargerFacts ==
  ASSUME NEW a \in Nat, NEW b \in Nat
  PROVE  Input!Larger(a, b) \in Nat /\ a <= Input!Larger(a, b) /\ b <= Input!Larger(a, b)
  BY DEF Input!Larger

LEMMA RoomKept ==
  ASSUME NEW vec \in Seq(Bytes), NEW new \in Seq(Bytes), NEW most, NEW more \in Nat,
         Room(vec, most), most <= more, Len(new) = Len(vec)
  PROVE  Room(new, more)
<1>1. Len(vec) \in Nat /\ most \in Nat
  BY DEF Room
<1> QED BY <1>1, BufferAssumption DEF Room

LEMMA RoomGrown ==
  ASSUME NEW vec \in Seq(Bytes), NEW new \in Seq(Bytes), NEW most, NEW more \in Nat,
         Room(vec, most), Len(new) >= Len(vec),
         NEW r \in Nat, NEW m \in Nat, NEW d \in Nat,
         Len(new) = r + m + d, r < d + kCheapPrepend, m + d <= more
  PROVE  Room(new, more)
<1>1. Len(vec) \in Nat /\ most \in Nat /\ Len(new) \in Nat
  BY DEF Room
<1> QED BY <1>1, BufferAssumption DEF Room

LEMMA BufferInit ==
  Input!Init => BufInv
<1> SUFFICES ASSUME Input!Init PROVE BufInv
  OBVIOUS
<1> DEFINE n == kCheapPrepend + kInitialSize
           f == [i \in 1 .. n |-> Fill]
<1>1. n \in Nat /\ kCheapPrepend \in Nat /\ kInitialSize \in Nat /\ Fill \in Bytes
  BY BufferAssumption
<1>2. f \in Seq(Bytes) /\ Len(f) = n
  <2>1. f \in [1 .. n -> Bytes]
    BY <1>1
  <2> HIDE DEF f, n
  <2> QED BY <1>1, <2>1, IsSequence
<1>3. buffer_ = f /\ readerIndex_ = kCheapPrepend /\ writerIndex_ = kCheapPrepend
      /\ content = <<>> /\ peak = 0
  BY DEF Input!Init
<1> HIDE DEF f
<1>4. Shows(buffer_, readerIndex_, writerIndex_, content)
  BY <1>1, <1>2, <1>3 DEF Shows
<1>5. Room(buffer_, peak) /\ Len(content) <= peak
  BY <1>1, <1>2, <1>3 DEF Room
<1> QED BY <1>4, <1>5 DEF BufInv

LEMMA AddFacts ==
  ASSUME BufInv, NEW data \in Seq(Bytes), Input!Add(data)
  PROVE  /\ content' = content \o data /\ content' \in Seq(Bytes)
         /\ Len(content') = Len(content) + Len(data)
         /\ peak \in Nat /\ peak' \in Nat /\ peak <= peak' /\ Len(content') <= peak'
<1>1. content \in Seq(Bytes) /\ peak \in Nat
  BY DEF BufInv, Shows, Room
<1>2. content' = content \o data /\ peak' = Input!Larger(peak, Len(content'))
  BY DEF Input!Add
<1>3. content' \in Seq(Bytes) /\ Len(content') = Len(content) + Len(data)
  BY <1>1, <1>2, JoinFacts
<1>4. Len(content') \in Nat
  BY <1>3
<1> QED BY <1>1, <1>2, <1>3, <1>4, LargerFacts

LEMMA BufferAppends ==
  ASSUME BufInv, NEW data \in Seq(Bytes), Input!append(data)
  PROVE  BufInv'
<1>1. /\ content' = content \o data /\ content' \in Seq(Bytes)
      /\ Len(content') = Len(content) + Len(data)
      /\ peak \in Nat /\ peak' \in Nat /\ peak <= peak' /\ Len(content') <= peak'
  BY AddFacts DEF Input!append
<1>2. /\ Shows(buffer_', readerIndex_', writerIndex_', content \o data)
      /\ Len(buffer_') >= Len(buffer_)
      /\ \/ Len(buffer_') = Len(buffer_)
         \/ Len(buffer_') = writerIndex_ + Len(data) /\ readerIndex_ < Len(data) + kCheapPrepend
  BY AppendShows DEF BufInv, Input!append
<1>3. /\ buffer_ \in Seq(Bytes) /\ buffer_' \in Seq(Bytes) /\ readerIndex_ \in Nat /\ writerIndex_ \in Nat
      /\ Len(content) = writerIndex_ - readerIndex_ /\ Len(content) \in Nat /\ Len(data) \in Nat
      /\ Room(buffer_, peak)
  BY <1>2 DEF BufInv, Shows
<1>4. Room(buffer_', peak')
  <2>1. CASE Len(buffer_') = Len(buffer_)
    BY <1>1, <1>3, <2>1, RoomKept
  <2>2. CASE Len(buffer_') = writerIndex_ + Len(data) /\ readerIndex_ < Len(data) + kCheapPrepend
    <3>1. Len(buffer_') = readerIndex_ + Len(content) + Len(data)
          /\ Len(content) + Len(data) <= peak'
      BY <1>1, <1>3, <2>2
    <3> QED BY <1>1, <1>2, <1>3, <2>2, <3>1, RoomGrown
  <2> QED BY <1>2, <2>1, <2>2
<1> QED BY <1>1, <1>2, <1>4 DEF BufInv

LEMMA BufferReads ==
  ASSUME BufInv, NEW data \in Seq(Bytes), Input!readFd(data)
  PROVE  BufInv'
<1> DEFINE room == Len(buffer_) - writerIndex_
<1>1. /\ content' = content \o data /\ content' \in Seq(Bytes)
      /\ Len(content') = Len(content) + Len(data)
      /\ peak \in Nat /\ peak' \in Nat /\ peak <= peak' /\ Len(content') <= peak'
  BY AddFacts DEF Input!readFd
<1>2. /\ buffer_ \in Seq(Bytes) /\ readerIndex_ \in Nat /\ writerIndex_ \in Nat
      /\ readerIndex_ <= writerIndex_ /\ writerIndex_ <= Len(buffer_) /\ content \in Seq(Bytes)
      /\ Len(content) = writerIndex_ - readerIndex_ /\ Room(buffer_, peak)
      /\ Shows(buffer_, readerIndex_, writerIndex_, content)
  BY DEF BufInv, Shows
<1>3. Len(buffer_) \in Nat /\ Len(data) \in Nat /\ Len(content) \in Nat /\ room \in Nat
  BY <1>2
<1>4. CASE Len(data) <= room
  <2>1. /\ buffer_' = Input!Copied(buffer_, writerIndex_, data)
        /\ writerIndex_' = writerIndex_ + Len(data) /\ readerIndex_' = readerIndex_
    BY <1>4 DEF Input!readFd, Input!writableBytes
  <2>2. Shows(buffer_', readerIndex_', writerIndex_', content')
    BY <1>1, <1>2, <1>4, <2>1, FillShows
  <2>3. buffer_' \in Seq(Bytes) /\ Len(buffer_') = Len(buffer_)
    <3>1. writerIndex_ + Len(data) <= Len(buffer_)
      BY <1>2, <1>3, <1>4
    <3> QED BY <1>2, <2>1, <3>1, CopiedFacts
  <2>4. Room(buffer_', peak')
    BY <1>1, <1>2, <2>3, RoomKept
  <2> QED BY <1>1, <2>2, <2>4 DEF BufInv
<1>5. CASE ~(Len(data) <= room)
  <2> DEFINE fit == SubSeq(data, 1, room)
             rest == SubSeq(data, room + 1, Len(data))
             full == Input!Copied(buffer_, writerIndex_, fit)
  <2>1. /\ fit \in Seq(Bytes) /\ Len(fit) = room /\ \A i \in 1 .. room : fit[i] = data[i]
        /\ rest \in Seq(Bytes) /\ Len(rest) = Len(data) - room
        /\ \A i \in 1 .. Len(data) - room : rest[i] = data[room + i]
    <3>1. 0 <= room /\ room <= Len(data) /\ 0 + 1 = 1 /\ room - 0 = room
      BY <1>3, <1>5
    <3>2. /\ SubSeq(data, 0 + 1, room) \in Seq(Bytes) /\ Len(SubSeq(data, 0 + 1, room)) = room - 0
          /\ \A i \in 1 .. room - 0 : SubSeq(data, 0 + 1, room)[i] = data[0 + i]
      BY <1>3, <3>1, PartFacts
    <3>3. /\ rest \in Seq(Bytes) /\ Len(rest) = Len(data) - room
          /\ \A i \in 1 .. Len(data) - room : rest[i] = data[room + i]
      BY <1>3, <3>1, PartFacts
    <3>4. \A i \in 1 .. room : 0 + i = i
      BY <1>3
    <3> HIDE DEF room, rest
    <3> QED BY <3>1, <3>2, <3>3, <3>4
  <2>2. Input!AppendTo(full, readerIndex_, Len(buffer_), rest)
    BY <1>5 DEF Input!readFd, Input!writableBytes
  <2> HIDE DEF fit, rest
  <2>3. Shows(full, readerIndex_, Len(buffer_), content \o fit)
    <3>1. Shows(full, readerIndex_, writerIndex_ + Len(fit), content \o fit)
      <4>1. Len(fit) <= Len(buffer_) - writerIndex_ /\ fit \in Seq(Bytes)
        BY <1>3, <2>1
      <4> QED BY <1>2, <4>1, FillShows
    <3>2. writerIndex_ + Len(fit) = Len(buffer_)
      BY <1>2, <1>3, <2>1
    <3> QED BY <3>1, <3>2
  <2>4. full \in Seq(Bytes) /\ Len(full) = Len(buffer_)
    <3>1. writerIndex_ + Len(fit) <= Len(buffer_)
      BY <1>2, <1>3, <2>1
    <3> QED BY <1>2, <2>1, <3>1, CopiedFacts
  <2> HIDE DEF full
  <2>5. /\ Shows(buffer_', readerIndex_', writerIndex_', (content \o fit) \o rest)
        /\ Len(buffer_') >= Len(full)
        /\ \/ Len(buffer_') = Len(full)
           \/ Len(buffer_') = Len(buffer_) + Len(rest) /\ readerIndex_ < Len(rest) + kCheapPrepend
    BY <2>1, <2>2, <2>3, AppendShows
  <2>6. (content \o fit) \o rest = content'
    <3> DEFINE whole == fit \o rest
    <3>1. /\ whole \in Seq(Bytes) /\ Len(whole) = Len(fit) + Len(rest)
          /\ \A i \in 1 .. Len(fit) + Len(rest) :
               whole[i] = IF i <= Len(fit) THEN fit[i] ELSE rest[i - Len(fit)]
      BY <2>1, JoinFacts
    <3> HIDE DEF whole, room
    <3>2. Len(whole) = Len(data)
      BY <1>3, <2>1, <3>1
    <3>3. ASSUME NEW i \in 1 .. Len(whole) PROVE whole[i] = data[i]
      <4>1. i \in 1 .. Len(fit) + Len(rest) /\ i \in 1 .. Len(data) /\ Len(fit) = room
        BY <2>1, <3>1, <3>2, <3>3
      <4>2. CASE i <= room
        <5>1. i \in 1 .. room
          BY <1>3, <4>1, <4>2
        <5> QED BY <2>1, <3>1, <4>1, <4>2, <5>1
      <4>3. CASE ~(i <= room)
        <5>1. i - room \in 1 .. Len(data) - room /\ room + (i - room) = i
          BY <1>3, <4>1, <4>3
        <5> QED BY <2>1, <3>1, <4>1, <4>3, <5>1
      <4> QED BY <4>2, <4>3
    <3>4. whole = data
      BY <3>1, <3>2, <3>3, SeqEqual
    <3>5. (content \o fit) \o rest = content \o (fit \o rest)
      <4>1. content \in Seq(Bytes) /\ fit \in Seq(Bytes) /\ rest \in Seq(Bytes)
        BY <1>2, <2>1
      <4> QED BY <4>1, ConcatAssociative, SMTT(30)
    <3> QED BY <1>1, <3>4, <3>5 DEF whole
  <2>7. Room(buffer_', peak')
    <3>1. buffer_' \in Seq(Bytes)
      BY <2>5 DEF Shows
    <3>2. Room(full, peak)
      BY <1>1, <1>2, <1>3, <2>4 DEF Room
    <3>3. CASE Len(buffer_') = Len(full)
      BY <1>1, <2>4, <3>1, <3>2, <3>3, RoomKept
    <3>4. CASE Len(buffer_') = Len(buffer_) + Len(rest) /\ readerIndex_ < Len(rest) + kCheapPrepend
      <4> DEFINE m == Len(buffer_) - readerIndex_
      <4>1. /\ m \in Nat /\ Len(rest) \in Nat
            /\ Len(buffer_') = readerIndex_ + m + Len(rest)
        BY <1>2, <1>3, <2>1, <3>4
      <4>2. m + Len(rest) <= peak'
        <5>1. m + Len(rest) = Len(content) + Len(data)
          BY <1>2, <1>3, <2>1
        <5> QED BY <1>1, <5>1
      <4> HIDE DEF m
      <4> QED BY <1>1, <1>2, <2>4, <2>5, <3>1, <3>2, <3>4, <4>1, <4>2, RoomGrown
    <3> QED BY <2>5, <3>3, <3>4
  <2> QED BY <1>1, <2>5, <2>6, <2>7 DEF BufInv
<1> QED BY <1>4, <1>5

LEMMA BufferPrepends ==
  ASSUME BufInv, NEW data \in Seq(Bytes), Input!prepend(data)
  PROVE  BufInv'
<1>1. /\ buffer_ \in Seq(Bytes) /\ readerIndex_ \in Nat /\ readerIndex_ <= Len(buffer_)
      /\ content \in Seq(Bytes) /\ Room(buffer_, peak) /\ peak \in Nat
      /\ Shows(buffer_, readerIndex_, writerIndex_, content)
  BY DEF BufInv, Shows, Room
<1>2. /\ Len(data) <= readerIndex_ /\ readerIndex_' = readerIndex_ - Len(data)
      /\ buffer_' = Input!Copied(buffer_, readerIndex_ - Len(data), data)
      /\ content' = data \o content /\ peak' = Input!Larger(peak, Len(content'))
      /\ writerIndex_' = writerIndex_
  BY DEF Input!prepend, Input!prependableBytes
<1>3. Shows(buffer_', readerIndex_', writerIndex_', content')
  BY <1>1, <1>2, PrependShows
<1>4. Len(content') \in Nat
  BY <1>3 DEF Shows
<1>5. peak' \in Nat /\ peak <= peak' /\ Len(content') <= peak'
  BY <1>1, <1>2, <1>4, LargerFacts
<1>6. buffer_' \in Seq(Bytes) /\ Len(buffer_') = Len(buffer_)
  <2> DEFINE at == readerIndex_ - Len(data)
  <2>1. at \in Nat /\ at + Len(data) <= Len(buffer_)
    BY <1>1, <1>2
  <2> HIDE DEF at
  <2>2. Len(Input!Copied(buffer_, at, data)) = Len(buffer_) /\ Input!Copied(buffer_, at, data) \in Seq(Bytes)
    BY <1>1, <2>1, CopiedFacts
  <2> QED BY <1>2, <2>2 DEF at
<1>7. Room(buffer_', peak')
  BY <1>1, <1>5, <1>6, RoomKept
<1> QED BY <1>3, <1>5, <1>7 DEF BufInv

LEMMA BufferRetrieves ==
  ASSUME BufInv, NEW len \in Nat, Input!retrieve(len)
  PROVE  BufInv'
<1>1. /\ buffer_ \in Seq(Bytes) /\ readerIndex_ \in Nat /\ writerIndex_ \in Nat
      /\ readerIndex_ <= writerIndex_ /\ writerIndex_ <= Len(buffer_)
      /\ content \in Seq(Bytes) /\ Len(content) = writerIndex_ - readerIndex_
      /\ Room(buffer_, peak) /\ peak \in Nat /\ Len(content) <= peak
      /\ Shows(buffer_, readerIndex_, writerIndex_, content)
  BY DEF BufInv, Shows, Room
<1>2. /\ len <= Len(content) /\ content' = SubSeq(content, len + 1, Len(content))
      /\ buffer_' = buffer_ /\ peak' = peak
  BY <1>1 DEF Input!retrieve, Input!readableBytes
<1>3. Len(content) \in Nat
  BY <1>1
<1>4. Shows(buffer_, readerIndex_ + len, readerIndex_ + Len(content), content')
  BY <1>1, <1>2, <1>3, PartShows
<1>5. content' \in Seq(Bytes) /\ Len(content') = Len(content) - len
  BY <1>1, <1>2, <1>3, PartFacts
<1>6. Shows(buffer_', readerIndex_', writerIndex_', content')
  <2>1. CASE len < Len(content)
    <3>1. readerIndex_' = readerIndex_ + len /\ writerIndex_' = writerIndex_
      BY <1>1, <2>1 DEF Input!retrieve, Input!readableBytes
    <3>2. writerIndex_ = readerIndex_ + Len(content)
      BY <1>1, <1>3
    <3> QED BY <1>2, <1>4, <3>1, <3>2
  <2>2. CASE ~(len < Len(content))
    <3>1. readerIndex_' = kCheapPrepend /\ writerIndex_' = kCheapPrepend
      BY <1>1, <2>2 DEF Input!retrieve, Input!readableBytes
    <3>2. Len(content') = 0
      BY <1>2, <1>3, <1>5, <2>2
    <3>3. kCheapPrepend \in Nat /\ kCheapPrepend <= Len(buffer_)
      BY <1>1, BufferAssumption DEF Room
    <3> QED BY <1>1, <1>2, <1>5, <3>1, <3>2, <3>3 DEF Shows
  <2> QED BY <2>1, <2>2
<1>7. Len(content') <= peak
  BY <1>1, <1>3, <1>5
<1> QED BY <1>1, <1>2, <1>6, <1>7 DEF BufInv

LEMMA BufferUnwrites ==
  ASSUME BufInv, NEW len \in Nat, Input!unwrite(len)
  PROVE  BufInv'
<1>1. /\ buffer_ \in Seq(Bytes) /\ readerIndex_ \in Nat /\ writerIndex_ \in Nat
      /\ content \in Seq(Bytes) /\ Len(content) = writerIndex_ - readerIndex_
      /\ Room(buffer_, peak) /\ peak \in Nat /\ Len(content) <= peak /\ Len(content) \in Nat
      /\ Shows(buffer_, readerIndex_, writerIndex_, content)
  BY DEF BufInv, Shows, Room
<1> DEFINE left == Len(content) - len
<1>2. /\ len <= Len(content) /\ content' = SubSeq(content, 1, left)
      /\ buffer_' = buffer_ /\ peak' = peak /\ readerIndex_' = readerIndex_
      /\ writerIndex_' = writerIndex_ - len
  BY <1>1 DEF Input!unwrite, Input!readableBytes
<1>3. left \in Nat /\ left <= Len(content) /\ writerIndex_ - len = readerIndex_ + left
  BY <1>1, <1>2
<1> HIDE DEF left
<1>4. Shows(buffer_, readerIndex_ + 0, readerIndex_ + left, SubSeq(content, 0 + 1, left))
  BY <1>1, <1>3, PartShows
<1>5. Shows(buffer_', readerIndex_', writerIndex_', content')
  <2>1. readerIndex_ + 0 = readerIndex_ /\ 0 + 1 = 1
    BY <1>1
  <2> QED BY <1>2, <1>3, <1>4, <2>1
<1>6. Len(content') <= peak
  <2>1. Len(content') = left
    BY <1>1, <1>2, <1>3
  <2> QED BY <1>1, <1>3, <2>1
<1> QED BY <1>1, <1>2, <1>5, <1>6 DEF BufInv

LEMMA BufferShrinks ==
  ASSUME BufInv, NEW reserve \in Nat, Input!shrink(reserve)
  PROVE  BufInv'
<1>1. /\ readerIndex_ \in Nat /\ writerIndex_ \in Nat
      /\ content \in Seq(Bytes) /\ Len(content) = writerIndex_ - readerIndex_ /\ Len(content) \in Nat
      /\ SubSeq(buffer_, readerIndex_ + 1, writerIndex_) = content
      /\ kCheapPrepend \in Nat /\ kInitialSize \in Nat /\ Fill \in Bytes /\ peak \in Nat
  BY WindowIs, BufferAssumption DEF BufInv, Shows, Room
<1> DEFINE n == kCheapPrepend + kInitialSize
           fresh == [i \in 1 .. n |-> Fill]
           need == Len(content) + reserve
           roomy == IF need <= kInitialSize THEN fresh ELSE Input!Resized(fresh, kCheapPrepend + need)
<1>2. /\ buffer_' = Input!Copied(roomy, kCheapPrepend, content)
      /\ readerIndex_' = kCheapPrepend /\ writerIndex_' = kCheapPrepend + Len(content)
      /\ peak' = Input!Larger(peak, need) /\ content' = content
  BY <1>1 DEF Input!shrink, Input!readableBytes
<1>3. fresh \in Seq(Bytes) /\ Len(fresh) = n /\ n \in Nat /\ need \in Nat /\ need >= Len(content)
  <2>1. n \in Nat /\ need \in Nat /\ need >= Len(content)
    BY <1>1
  <2>2. fresh \in [1 .. n -> Bytes]
    BY <1>1
  <2> HIDE DEF fresh, n
  <2> QED BY <2>1, <2>2, IsSequence
<1> HIDE DEF fresh
<1>4. peak' \in Nat /\ need <= peak'
  <2> HIDE DEF need
  <2> QED BY <1>1, <1>2, <1>3, LargerFacts
<1>5. /\ roomy \in Seq(Bytes) /\ kCheapPrepend + need <= Len(roomy) /\ n <= Len(roomy)
      /\ Len(roomy) = n \/ Len(roomy) = kCheapPrepend + need
  <2>1. CASE need <= kInitialSize
    BY <1>1, <1>3, <2>1
  <2>2. CASE ~(need <= kInitialSize)
    <3> DEFINE size == kCheapPrepend + need
    <3>1. size \in Nat /\ n <= size
      BY <1>1, <1>3, <2>2
    <3>2. roomy = Input!Resized(fresh, size)
      BY <2>2
    <3> HIDE DEF size, roomy
    <3>3. roomy \in Seq(Bytes) /\ Len(roomy) = size
      BY <1>1, <1>3, <3>1, <3>2, ResizedFacts
    <3> QED BY <1>1, <1>3, <3>1, <3>3 DEF size
  <2> QED BY <2>1, <2>2
<1> HIDE DEF roomy
<1>6. Shows(roomy, kCheapPrepend, kCheapPrepend, <<>>)
  BY <1>1, <1>3, <1>5 DEF Shows
<1>7. Len(content) <= Len(roomy) - kCheapPrepend
  <2>1. Len(roomy) \in Nat
    BY <1>5
  <2> QED BY <1>1, <1>3, <1>5, <2>1
<1>8. Shows(buffer_', readerIndex_', writerIndex_', content')
  <2>1. <<>> \o content = content
    BY <1>1
  <2> HIDE DEF n, need
  <2> QED BY <1>1, <1>2, <1>6, <1>7, <2>1, FillShows
<1>9. Room(buffer_', peak')
  <2>1. kCheapPrepend + Len(content) <= Len(roomy)
    BY <1>1, <1>3, <1>5
  <2>2. Len(buffer_') = Len(roomy)
    <3> HIDE DEF n, need
    <3> QED BY <1>1, <1>2, <1>5, <2>1, CopiedFacts
  <2>3. Len(roomy) \in Nat
    BY <1>5
  <2> QED BY <1>1, <1>3, <1>4, <1>5, <2>2, <2>3, SMTT(30) DEF Room
<1>10. Len(content') <= peak'
  BY <1>1, <1>2, <1>3, <1>4
<1> QED BY <1>8, <1>9, <1>10 DEF BufInv

LEMMA BufferStep ==
  ASSUME BufInv, [Input!Next]_(Input!vars)
  PROVE  BufInv'
<1>1. ASSUME NEW data \in Input!Data, Input!append(data) \/ Input!readFd(data) \/ Input!prepend(data)
      PROVE BufInv'
  <2>1. data \in Seq(Bytes)
    BY DataIsSequence
  <2> QED BY <1>1, <2>1, BufferAppends, BufferReads, BufferPrepends
<1>2. ASSUME NEW len \in 0 .. MaxContent,
             Input!retrieve(len) \/ Input!unwrite(len) \/ Input!shrink(len)
      PROVE BufInv'
  <2>1. len \in Nat
    BY BufferAssumption
  <2> QED BY <1>2, <2>1, BufferRetrieves, BufferUnwrites, BufferShrinks
<1>3. CASE UNCHANGED Input!vars
  BY <1>3 DEF Input!vars, BufInv, Shows, Room
<1> QED BY <1>1, <1>2, <1>3 DEF Input!Next

LEMMA BufferIsExact ==
  BufInv => ContentExact
<1> SUFFICES ASSUME BufInv PROVE ContentExact
  OBVIOUS
<1>1. readerIndex_ <= writerIndex_ /\ writerIndex_ <= Len(buffer_)
      /\ SubSeq(buffer_, readerIndex_ + 1, writerIndex_) = content
  BY WindowIs DEF BufInv, Shows
<1>2. Len(buffer_) \in Nat /\ peak \in Nat /\ kCheapPrepend \in Nat /\ kInitialSize \in Nat
  BY BufferAssumption DEF BufInv, Shows, Room
<1>3. Len(buffer_) <= kCheapPrepend + Input!Larger(kInitialSize, 2 * peak)
  <2> DEFINE twice == 2 * peak
             bound == Input!Larger(kInitialSize, twice)
  <2>1. twice \in Nat
    BY <1>2
  <2>2. Len(buffer_) <= kCheapPrepend + kInitialSize \/ Len(buffer_) <= kCheapPrepend + twice
    BY DEF BufInv, Room
  <2> HIDE DEF twice
  <2>3. bound \in Nat /\ kInitialSize <= bound /\ twice <= bound
    BY <1>2, <2>1, LargerFacts
  <2> HIDE DEF bound
  <2>4. Len(buffer_) <= kCheapPrepend + bound
    BY <1>2, <2>1, <2>2, <2>3
  <2> QED BY <2>4 DEF bound, twice
<1> QED BY <1>1, <1>3 DEF ContentExact, Input!ContentExact

(* The readable bytes are exactly what the calls put in and have not taken *)
(* out, wherever makeSpace, readFd or shrink put them, and the vector is   *)
(* never larger than twice the most it held (Buffer.h, Buffer.cc readFd).  *)
THEOREM ContentExactAlways ==
  Input!Spec => []ContentExact
<1>1. Input!Init => BufInv
  BY BufferInit
<1>2. BufInv /\ [Input!Next]_(Input!vars) => BufInv'
  BY BufferStep
<1>3. BufInv => ContentExact
  BY BufferIsExact
<1> QED BY <1>1, <1>2, <1>3, PTL DEF Input!Spec
-----------------------------------------------------------------------------
(* Every step of one part is a step of its specification, and the others   *)
(* do not move.                                                            *)
LEMMA OnePartMoves ==
  ASSUME [MCNext]_all
  PROVE  /\ [Next]_vars
         /\ [Input!Next]_(Input!vars)
         /\ [EPoll!Next]_(EPoll!vars)
         /\ [Poll!Next]_(Poll!vars)
<1> DEFINE Still == /\ UNCHANGED vars => [Next]_vars
                    /\ UNCHANGED buffer => [Input!Next]_(Input!vars)
                    /\ UNCHANGED epoll => [EPoll!Next]_(EPoll!vars)
                    /\ UNCHANGED poll => [Poll!Next]_(Poll!vars)
<1>1. Still
  BY DEF buffer, epoll, poll, Input!vars, EPoll!vars, Poll!vars
<1>2. CASE UNCHANGED all
  <2>1. UNCHANGED <<vars, buffer, epoll, poll>>
    BY <1>2 DEF all
  <2> QED BY <1>1, <2>1
<1>3. ASSUME Next, UNCHANGED <<buffer, epoll, poll>>
      PROVE  /\ [Next]_vars
             /\ [Input!Next]_(Input!vars)
             /\ [EPoll!Next]_(EPoll!vars)
             /\ [Poll!Next]_(Poll!vars)
  BY <1>1, <1>3
<1>4. ASSUME Input!Next, UNCHANGED <<vars, epoll, poll>>
      PROVE  /\ [Next]_vars
             /\ [Input!Next]_(Input!vars)
             /\ [EPoll!Next]_(EPoll!vars)
             /\ [Poll!Next]_(Poll!vars)
  BY <1>1, <1>4
<1>5. ASSUME EPoll!Next, UNCHANGED <<vars, buffer, poll>>
      PROVE  /\ [Next]_vars
             /\ [Input!Next]_(Input!vars)
             /\ [EPoll!Next]_(EPoll!vars)
             /\ [Poll!Next]_(Poll!vars)
  BY <1>1, <1>5
<1>6. ASSUME Poll!Next, UNCHANGED <<vars, buffer, epoll>>
      PROVE  /\ [Next]_vars
             /\ [Input!Next]_(Input!vars)
             /\ [EPoll!Next]_(EPoll!vars)
             /\ [Poll!Next]_(Poll!vars)
  BY <1>1, <1>6
<1>7. CASE MCNext
  <2>1. \/ Next /\ UNCHANGED <<buffer, epoll, poll>>
        \/ Input!Next /\ UNCHANGED <<vars, epoll, poll>>
        \/ EPoll!Next /\ UNCHANGED <<vars, buffer, poll>>
        \/ Poll!Next /\ UNCHANGED <<vars, buffer, epoll>>
    BY <1>7 DEF MCNext, InLog, InBuffer, InEPoll, InPoll, Next, Input!Next, EPoll!Next, Poll!Next
  <2> QED BY <1>3, <1>4, <1>5, <1>6, <2>1
<1> QED BY <1>2, <1>7

(* The run that checks log files, buffer and pollers side by side has no   *)
(* behaviour one of them would not have alone, so that what is proved of   *)
(* each holds in it.                                                       *)
THEOREM LibrarySideBySide ==
  MCSpec => Spec /\ Input!Spec /\ EPoll!Spec /\ Poll!Spec
<1>1. MCInit => Init /\ Input!Init /\ EPoll!Init /\ Poll!Init
  BY DEF MCInit
<1>2. [MCNext]_all =>
        /\ [Next]_vars
        /\ [Input!Next]_(Input!vars)
        /\ [EPoll!Next]_(EPoll!vars)
        /\ [Poll!Next]_(Poll!vars)
  BY OnePartMoves
<1> QED BY <1>1, <1>2, PTL DEF MCSpec, Spec, Input!Spec, EPoll!Spec, Poll!Spec
===============================================================================
