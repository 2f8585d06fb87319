------------------------------ MODULE LogFiles ------------------------------
(***************************************************************************)
(* The environment of cpl::Logger, modelled from the calls it makes: the   *)
(* clock, and the directory of the log with the files in it.  A size is    *)
(* counted in lines, a time in seconds.                                    *)
(***************************************************************************)
EXTENDS Integers, Sequences, FiniteSets

CONSTANTS
  Thread,    \* the threads that call log()
  Null,      \* no file, no descriptor, no thread
  MaxTime,   \* bound: the clock stops here
  HourLen,   \* seconds in an hour
  DayLen     \* seconds in a day

ASSUME LogFilesAssumption ==
  /\ Null \notin Int \cup Thread
  /\ MaxTime \in Nat
  /\ HourLen \in Nat \ {0}
  /\ DayLen \in Nat \ {0}

VARIABLES
  clock,   \* seconds
  dir,     \* the file each name stands for
  data     \* the lines of each file, oldest first

fvars == <<clock, dir, data>>

\* _logFile, and the names _rotate makes: _logFile.<time>, and the same with
\* ".1" behind it.
Name == [at : -1 .. MaxTime, one : BOOLEAN]
Base == [at |-> -1, one |-> FALSE]
Stamped(s) == [at |-> s, one |-> FALSE]
Postfixed(n) == [n EXCEPT !.one = TRUE]

\* A period of rotation: neither, _daily, _hourly or both are set.
Period == {"none", "daily", "hourly", "both"}
IsHourly(p) == p \in {"hourly", "both"}
IsDaily(p) == p \in {"daily", "both"}

Hour(s) == s \div HourLen
Day(s) == s \div DayLen

\* A line: who wrote it, how many lines had been logged by then, the time in
\* it, and the period in force when _checkRotate let it through.
Line == [by : Thread, id : Nat, at : Nat, per : Period]

FilesTypeOK ==
  /\ clock \in 0 .. MaxTime
  /\ data \in Seq(Seq(Line))
  /\ dir \in [Name -> Nat \cup {Null}]

FilesInit ==
  /\ clock = 0
  /\ dir = [n \in Name |-> Null]
  /\ data = <<>>

\* Opening the log file makes it if there is none.
BaseFile == IF dir[Base] = Null THEN Len(data) + 1 ELSE dir[Base]

MakeBase ==
  /\ dir' = [dir EXCEPT ![Base] = BaseFile]
  /\ data' = IF dir[Base] = Null THEN Append(data, <<>>) ELSE data

\* What _rotate makes of a name: it appends ".1" if there is such a file.
FreeName(n) == IF dir[n] = Null THEN n ELSE Postfixed(n)

\* Files that still have a name, and the lines in them.
Files == {dir[n] : n \in Name} \ {Null}
LinesIn(f) == {data[f][i] : i \in DOMAIN data[f]}
Kept == UNION {LinesIn(f) : f \in Files}

\* The times of two lines fall in the same period p.
SamePeriod(a, b, p) ==
  /\ IsHourly(p) => Hour(a) = Hour(b)
  /\ IsDaily(p) => Day(a) = Day(b)

-----------------------------------------------------------------------------
(* What a log's files have to be like.                                     *)

\* The lines of a file written while a period was in force all fall in one
\* such period: that is what the hourly and daily rotation of _checkRotate
\* is for.
OnePeriod ==
  \A f \in Files : \A i \in 1 .. Len(data[f]) - 1 :
    SamePeriod(data[f][i].at, data[f][i + 1].at, data[f][i + 1].per)
=============================================================================
