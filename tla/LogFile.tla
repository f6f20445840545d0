------------------------------- MODULE LogFile -------------------------------
(***************************************************************************)
(* The files the asynchronous log writes: append_unlocked rolls to another *)
(* file when the present one is too large or of another day, and rollFile  *)
(* names the file after the local time of the second it is opened in.      *)
(* What append is given (a buffer of the log) has size one.  The other     *)
(* parts of a file's name never change, so two files of one local time are *)
(* one file on the disk.                                                   *)
(***************************************************************************)
EXTENDS Naturals, Sequences, FiniteSets

CONSTANTS
  rollSize_,     (* size beyond which a file is rolled                     *)
  checkEveryN_,  (* how many appends pass between two looks at the day     *)
  DaySeconds,    (* seconds of a day                                       *)
  MonthDays,     (* days of a month                                        *)
  DstEnd,        (* when local time is set back, as at the end of DST      *)
  DstShift,      (* and by how much                                        *)
  MaxTime,       (* bound on the clock                                     *)
  MaxAppends     (* bound on the appends                                   *)

ASSUME LogFileAssumption ==
  /\ rollSize_ \in Nat
  /\ checkEveryN_ \in Nat \ {0}
  /\ DaySeconds \in Nat \ {0} /\ MonthDays \in Nat \ {0}
  /\ DstEnd \in Nat /\ DstShift \in Nat
  /\ MaxTime \in Nat /\ MaxAppends \in Nat

VARIABLES
  files,     (* the files in the order they were opened, the last is file_ *)
  count_,
  startOfPeriod_, lastRoll_,
  clock,     (* what time() returns; it may be set back                    *)
  appends    (* how many appends there were                                *)

vars == <<files, count_, startOfPeriod_, lastRoll_, clock, appends>>

Time == 1 .. MaxTime
Pieces == [number : 1 .. MaxAppends, time : Time]
Files == [name : Nat, opened : Time, pieces : Seq(Pieces)]

TypeOK ==
  /\ files \in Seq(Files)
  /\ count_ \in 0 .. checkEveryN_
  /\ startOfPeriod_ \in Nat /\ lastRoll_ \in Time
  /\ clock \in Time /\ appends \in 0 .. MaxAppends

(* localtime_r: the hour before DstEnd comes a second time. *)
Local(time) == IF time < DstEnd THEN time + DstShift ELSE time

(* getCurrentData: the day of the month, tm_mday. *)
Day(time) == (Local(time) \div DaySeconds) % MonthDays

(* The file getLogFileName names. *)
Open(time) == [name |-> Local(time), opened |-> time, pieces |-> <<>>]

(* The constructor rolls to the first file. *)
Init ==
  /\ clock \in Time
  /\ files = <<Open(clock)>>
  /\ lastRoll_ = clock /\ startOfPeriod_ = Day(clock)
  /\ count_ = 0 /\ appends = 0

-----------------------------------------------------------------------------
(* Mutant: the file is changed although its name is not a later one. *)
RollFile_Always(old) ==
  /\ lastRoll_' = clock
  /\ startOfPeriod_' = Day(clock)
  /\ files' = Append(old, Open(clock))

(* rollFile: there is no second file for the same second, nor while the    *)
(* clock is behind the last roll.                                          *)
RollFile(old) ==
  IF clock > lastRoll_
  THEN /\ lastRoll_' = clock
       /\ startOfPeriod_' = Day(clock)
       /\ files' = Append(old, Open(clock))
  ELSE files' = old /\ UNCHANGED <<lastRoll_, startOfPeriod_>>

(* append_unlocked; flushing is left out. *)
AppendUnlocked ==
  LET file_ == files[Len(files)]
      piece == [number |-> appends + 1, time |-> clock]
      written == [files EXCEPT ![Len(files)].pieces = Append(@, piece)]
      looks == count_ + 1 >= checkEveryN_
  IN /\ appends < MaxAppends
     /\ appends' = appends + 1
     /\ IF Len(file_.pieces) + 1 > rollSize_
        THEN RollFile(written) /\ UNCHANGED count_
        ELSE /\ count_' = IF looks THEN 0 ELSE count_ + 1
             /\ IF looks /\ startOfPeriod_ # Day(clock)
                THEN RollFile(written)
                ELSE files' = written /\ UNCHANGED <<lastRoll_, startOfPeriod_>>
     /\ UNCHANGED clock

ClockTicks ==
  /\ clock < MaxTime
  /\ clock' = clock + 1
  /\ UNCHANGED <<files, count_, startOfPeriod_, lastRoll_, appends>>

ClockSetBack ==
  /\ \E time \in 1 .. clock - 1 : clock' = time
  /\ UNCHANGED <<files, count_, startOfPeriod_, lastRoll_, appends>>

Next == AppendUnlocked \/ ClockTicks \/ ClockSetBack

Spec == Init /\ [][Next]_vars

-----------------------------------------------------------------------------
(* The files are opened one after another, and so are their names but when *)
(* local time was set back between the two.                                *)
NamesAscend ==
  \A i, j \in DOMAIN files : i < j =>
    /\ files[i].opened < files[j].opened
    /\ files[i].name < files[j].name \/ (files[i].opened < DstEnd /\ DstEnd <= files[j].opened)

NotTooLong ==
  \A i \in DOMAIN files : \A k \in rollSize_ + 1 .. Len(files[i].pieces) - 1 :
    files[i].pieces[k].time <= files[i].opened

(* The k-th piece of f belongs into a later file. *)
Late(f, k) == f.pieces[k].time > f.opened /\ Day(f.pieces[k].time) # Day(f.opened)

OfOneDay ==
  \A i \in DOMAIN files : \A k \in checkEveryN_ + 1 .. Len(files[i].pieces) :
    \E m \in k - checkEveryN_ .. k : ~Late(files[i], m)

(* Sorted by their names the files hold the log in the order it was        *)
(* written, also when the clock was set back.  Only files opened on both   *)
(* sides of the end of DST may be named against their order, or alike.  A  *)
(* file beyond rollSize_ takes no more than the append that finds it so,   *)
(* but in the second of its opening or while the clock is behind it.  And  *)
(* of appends in a row, each on another day of the month and past the      *)
(* opening, checkEveryN_ at most go into a file.                           *)
FilesInOrder == NamesAscend /\ NotTooLong /\ OfOneDay
===============================================================================
