--------------------------- MODULE LogFilesProofs ---------------------------
(***************************************************************************)
(* Lemmas about the directory of a log: its names, the lines that are kept *)
(* in it, and hours and days.                                              *)
(***************************************************************************)
EXTENDS LogFiles, SequenceTheorems, TLAPS

\* The names are names.
LEMMA NamesTyped ==
  /\ Base \in Name
  /\ \A s \in 0 .. MaxTime : Stamped(s) \in Name /\ Stamped(s) # Base
  /\ \A n \in Name : FreeName(n) \in Name /\ (n # Base => FreeName(n) # Base)
<1>1. Base \in Name /\ \A s \in 0 .. MaxTime : Stamped(s) \in Name /\ Stamped(s) # Base
  BY LogFilesAssumption DEF Base, Name, Stamped
<1>2. \A n \in Name : Postfixed(n) \in Name /\ Postfixed(n) # Base
  BY DEF Base, Name, Postfixed
<1> QED
  BY <1>1, <1>2 DEF FreeName

\* A name that has been looked at is free, or has ".1" behind it.
LEMMA FreeOrPostfixed ==
  ASSUME NEW n \in Name
  PROVE  FreeName(n).one \/ dir[FreeName(n)] = Null
BY DEF FreeName, Postfixed, Name

\* A file is a number.
LEMMA BaseTyped ==
  ASSUME FilesTypeOK
  PROVE  BaseFile \in Nat
<1>1. Len(data) \in Nat
  BY LenProperties DEF FilesTypeOK
<1>2. dir[Base] \in Nat \cup {Null}
  BY NamesTyped DEF FilesTypeOK
<1> QED
  BY <1>1, <1>2 DEF BaseFile

\* Making the log keeps the types of the files.
LEMMA MakeTypes ==
  ASSUME FilesTypeOK, MakeBase, clock' = clock
  PROVE  FilesTypeOK' /\ BaseFile \in Nat /\ dir'[Base] = BaseFile
<1>1. BaseFile \in Nat
  BY BaseTyped
<1>2. dir' \in [Name -> Nat \cup {Null}] /\ dir'[Base] = BaseFile
  BY <1>1, NamesTyped DEF MakeBase, FilesTypeOK
<1>3. data' \in Seq(Seq(Line))
  <2>1. <<>> \in Seq(Line)
    BY EmptySeq
  <2> QED
    BY <2>1, AppendProperties DEF MakeBase, FilesTypeOK
<1>4. clock' \in 0 .. MaxTime
  BY DEF FilesTypeOK
<1> QED
  BY <1>1, <1>2, <1>3, <1>4 DEF FilesTypeOK

\* A log that was not there is empty.
LEMMA MakeEmpty ==
  ASSUME FilesTypeOK, MakeBase, dir[Base] = Null
  PROVE  Len(data'[dir'[Base]]) = 0
<1>0. data \in Seq(Seq(Line)) /\ dir \in [Name -> Nat \cup {Null}] /\ Base \in Name
  BY NamesTyped DEF FilesTypeOK
<1>1. Len(data) \in Nat /\ <<>> \in Seq(Line)
  BY <1>0, LenProperties, EmptySeq
<1>2. dir' = [dir EXCEPT ![Base] = Len(data) + 1] /\ data' = Append(data, <<>>)
  BY DEF MakeBase, BaseFile
<1>3. data'[Len(data) + 1] = <<>> /\ dir'[Base] = Len(data) + 1
  BY <1>0, <1>1, <1>2, AppendProperties
<1> QED
  BY <1>3

\* A name stands for a file that is there.
FilesExist == \A n \in Name : dir[n] # Null => dir[n] \in DOMAIN data

\* A line that is kept is in a file that has a name.
LEMMA KeptMember ==
  ASSUME NEW x
  PROVE  x \in Kept <=> \E n \in Name : dir[n] # Null /\ \E i \in DOMAIN data[dir[n]] : data[dir[n]][i] = x
<1>1. x \in Kept <=> \E f \in Files : \E i \in DOMAIN data[f] : data[f][i] = x
  BY DEF Kept, LinesIn
<1> QED
  BY <1>1 DEF Files

\* The same of the next state.
LEMMA KeptMemberNext ==
  ASSUME NEW x
  PROVE  x \in Kept' <=> \E n \in Name : dir'[n] # Null /\ \E i \in DOMAIN data'[dir'[n]] : data'[dir'[n]][i] = x
<1>1. x \in Kept' <=> \E f \in Files' : \E i \in DOMAIN data'[f] : data'[f][i] = x
  BY DEF Kept, LinesIn
<1> QED
  BY <1>1 DEF Files

\* open() adds an empty file at most.
LEMMA MakeKept ==
  ASSUME FilesTypeOK, FilesExist, MakeBase
  PROVE  FilesExist' /\ Kept' = Kept
<1>0. data \in Seq(Seq(Line)) /\ dir \in [Name -> Nat \cup {Null}] /\ Base \in Name
  BY NamesTyped DEF FilesTypeOK
<1>1. CASE dir[Base] = Null
  <2>1. /\ Len(data) \in Nat /\ DOMAIN data = 1 .. Len(data)
        /\ <<>> \in Seq(Line) /\ DOMAIN <<>> = {}
    BY <1>0, LenProperties, EmptySeq
  <2>2. /\ dir' = [dir EXCEPT ![Base] = Len(data) + 1]
        /\ data' = Append(data, <<>>)
    BY <1>1 DEF MakeBase, BaseFile
  <2>3. /\ DOMAIN data' = 1 .. Len(data) + 1
        /\ \A i \in 1 .. Len(data) : data'[i] = data[i]
        /\ data'[Len(data) + 1] = <<>>
    BY <1>0, <2>1, <2>2, AppendProperties
  <2>4. dir'[Base] = Len(data) + 1 /\ DOMAIN data'[dir'[Base]] = {}
    BY <1>0, <2>1, <2>2, <2>3
  <2>5. \A n \in Name : n # Base => dir'[n] = dir[n]
    BY <1>0, <2>2
  <2>6. \A n \in Name : n # Base /\ dir[n] # Null => data'[dir[n]] = data[dir[n]]
    BY <2>1, <2>3 DEF FilesExist
  <2>7. FilesExist'
    <3> SUFFICES ASSUME NEW n \in Name, dir'[n] # Null PROVE dir'[n] \in DOMAIN data'
      BY DEF FilesExist
    <3>1. CASE n = Base
      BY <2>1, <2>3, <2>4, <3>1
    <3>2. CASE n # Base
      BY <2>1, <2>3, <2>5, <3>2 DEF FilesExist
    <3> QED
      BY <3>1, <3>2
  <2>8. ASSUME NEW x \in Kept PROVE x \in Kept'
    <3>1. PICK n \in Name : dir[n] # Null /\ \E i \in DOMAIN data[dir[n]] : data[dir[n]][i] = x
      BY KeptMember
    <3>2. dir'[n] = dir[n] /\ data'[dir[n]] = data[dir[n]]
      BY <1>1, <2>5, <2>6, <3>1
    <3>3. dir'[n] # Null /\ \E i \in DOMAIN data'[dir'[n]] : data'[dir'[n]][i] = x
      BY <3>1, <3>2
    <3> QED
      BY <3>3, KeptMemberNext
  <2>9. ASSUME NEW x \in Kept' PROVE x \in Kept
    <3>1. PICK n \in Name : dir'[n] # Null /\ \E i \in DOMAIN data'[dir'[n]] : data'[dir'[n]][i] = x
      BY KeptMemberNext
    <3>2. n # Base
      BY <2>4, <3>1
    <3>3. dir'[n] = dir[n] /\ data'[dir[n]] = data[dir[n]]
      BY <2>5, <2>6, <3>1, <3>2
    <3>4. dir[n] # Null /\ \E i \in DOMAIN data[dir[n]] : data[dir[n]][i] = x
      BY <3>1, <3>3
    <3> QED
      BY <3>4, KeptMember
  <2> QED
    BY <2>7, <2>8, <2>9
<1>2. CASE dir[Base] # Null
  <2>1. dir' = dir /\ data' = data
    BY <1>0, <1>2 DEF MakeBase, BaseFile
  <2> QED
    BY <2>1 DEF FilesExist, Kept, Files, LinesIn
<1> QED
  BY <1>1, <1>2

\* A file that is given another name, one that was free, is kept.
LEMMA MoveKept ==
  ASSUME FilesTypeOK, FilesExist, NEW r \in Name, r # Base, dir[r] = Null, data' = data,
         dir[Base] # Null, dir' = [dir EXCEPT ![r] = dir[Base], ![Base] = Null]
  PROVE  FilesExist' /\ Kept' = Kept
<1>0. dir \in [Name -> Nat \cup {Null}] /\ Base \in Name
  BY NamesTyped DEF FilesTypeOK
<1>1. /\ dir'[r] = dir[Base] /\ dir'[Base] = Null
      /\ \A n \in Name : n # r /\ n # Base => dir'[n] = dir[n]
  BY <1>0
<1>2. FilesExist'
  BY <1>0, <1>1 DEF FilesExist
<1>3. Files' = Files
  <2>1. \A n \in Name : dir[n] # Null => \E k \in Name : dir'[k] = dir[n]
    BY <1>1
  <2>2. \A n \in Name : dir'[n] # Null => \E k \in Name : dir[k] = dir'[n]
    BY <1>0, <1>1
  <2>3. ASSUME NEW f \in Files PROVE f \in Files'
    <3>1. PICK n \in Name : f = dir[n] /\ f # Null
      BY DEF Files
    <3>2. PICK k \in Name : dir'[k] = dir[n]
      BY <2>1, <3>1
    <3> QED
      BY <3>1, <3>2 DEF Files
  <2>4. ASSUME NEW f \in Files' PROVE f \in Files
    <3>1. PICK n \in Name : f = dir'[n] /\ f # Null
      BY DEF Files
    <3>2. PICK k \in Name : dir[k] = dir'[n]
      BY <2>2, <3>1
    <3> QED
      BY <3>1, <3>2 DEF Files
  <2> QED
    BY <2>3, <2>4
<1> QED
  BY <1>2, <1>3 DEF Kept, LinesIn

\* A file that is given another name, or none, is still a file.
LEMMA MoveExist ==
  ASSUME FilesTypeOK, FilesExist, NEW r \in Name, data' = data,
         dir' = [dir EXCEPT ![r] = dir[Base], ![Base] = Null]
  PROVE  FilesExist'
<1>1. dir \in [Name -> Nat \cup {Null}] /\ Base \in Name
  BY NamesTyped DEF FilesTypeOK
<1>2. \A n \in Name : dir'[n] # Null => \E k \in Name : dir'[n] = dir[k]
  BY <1>1
<1> QED
  BY <1>2 DEF FilesExist

\* A file that is given the name of another one is kept, and of the lines only
\* those of the other one may go.
LEMMA ReplaceKept ==
  ASSUME FilesTypeOK, NEW r \in Name, r # Base, dir[r] # Null, data' = data,
         dir[Base] # Null, dir' = [dir EXCEPT ![r] = dir[Base], ![Base] = Null]
  PROVE  Kept' \cup LinesIn(dir[r]) = Kept
<1>0. dir \in [Name -> Nat \cup {Null}] /\ Base \in Name
  BY NamesTyped DEF FilesTypeOK
<1>1. /\ dir'[r] = dir[Base] /\ dir'[Base] = Null
      /\ \A n \in Name : n # r /\ n # Base => dir'[n] = dir[n]
  BY <1>0
<1>2. ASSUME NEW x \in Kept PROVE x \in Kept' \cup LinesIn(dir[r])
  <2>1. PICK n \in Name : dir[n] # Null /\ \E i \in DOMAIN data[dir[n]] : data[dir[n]][i] = x
    BY KeptMember
  <2>2. CASE n = r
    BY <2>1, <2>2 DEF LinesIn
  <2>3. CASE n # r
    <3>1. PICK k \in Name : dir'[k] = dir[n]
      BY <1>0, <1>1, <2>3
    <3>2. dir'[k] # Null /\ \E i \in DOMAIN data'[dir'[k]] : data'[dir'[k]][i] = x
      BY <2>1, <3>1
    <3>3. x \in Kept'
      BY <3>2, KeptMemberNext, Zenon
    <3> QED
      BY <3>3
  <2> QED
    BY <2>2, <2>3
<1>3. ASSUME NEW x \in Kept' PROVE x \in Kept
  <2>1. PICK n \in Name : dir'[n] # Null /\ \E i \in DOMAIN data'[dir'[n]] : data'[dir'[n]][i] = x
    BY KeptMemberNext
  <2>2. PICK k \in Name : dir[k] = dir'[n]
    BY <1>0, <1>1, <2>1
  <2>3. dir[k] # Null /\ \E i \in DOMAIN data[dir[k]] : data[dir[k]][i] = x
    BY <2>1, <2>2
  <2> QED
    BY <2>3, KeptMember
<1>4. LinesIn(dir[r]) \subseteq Kept
  BY <1>0 DEF Kept, Files
<1> QED
  BY <1>2, <1>3, <1>4

\* The lines of a file are lines.
LEMMA LinesTyped ==
  ASSUME FilesTypeOK, FilesExist, NEW n \in Name, dir[n] # Null
  PROVE  LinesIn(dir[n]) \subseteq Line
<1>1. data[dir[n]] \in Seq(Line)
  BY ElementOfSeq, LenProperties DEF FilesTypeOK, FilesExist
<1>2. \A i \in DOMAIN data[dir[n]] : data[dir[n]][i] \in Line
  BY <1>1, ElementOfSeq, LenProperties
<1> QED
  BY <1>2 DEF LinesIn

\* A line that is appended to a file is the only one that may be new.
LEMMA AppendKept ==
  ASSUME FilesTypeOK, FilesExist, NEW f, NEW x \in Line, dir' = dir,
         data' = [data EXCEPT ![f] = Append(data[f], x)]
  PROVE  FilesExist' /\ Kept \subseteq Kept' /\ Kept' \ Kept \subseteq {x}
<1>0. data \in Seq(Seq(Line)) /\ DOMAIN data' = DOMAIN data
  BY DEF FilesTypeOK
<1>1. ASSUME NEW g \in DOMAIN data
      PROVE  /\ DOMAIN data[g] \subseteq DOMAIN data'[g]
             /\ \A i \in DOMAIN data[g] : data'[g][i] = data[g][i]
             /\ \A i \in DOMAIN data'[g] : i \in DOMAIN data[g] \/ data'[g][i] = x
  <2>1. CASE g # f
    BY <2>1
  <2>2. CASE g = f
    <3>1. data[g] \in Seq(Line) /\ data'[g] = Append(data[g], x)
      BY <1>0, <2>2
    <3>2. /\ Len(data[g]) \in Nat /\ DOMAIN data[g] = 1 .. Len(data[g])
          /\ DOMAIN data'[g] = 1 .. Len(data[g]) + 1
          /\ \A i \in 1 .. Len(data[g]) : data'[g][i] = data[g][i]
          /\ data'[g][Len(data[g]) + 1] = x
      BY <3>1, LenProperties, AppendProperties
    <3> QED
      BY <3>2
  <2> QED
    BY <2>1, <2>2
<1>2. FilesExist'
  BY <1>0 DEF FilesExist
<1>3. ASSUME NEW y \in Kept PROVE y \in Kept'
  <2>1. PICK n \in Name : dir[n] # Null /\ \E i \in DOMAIN data[dir[n]] : data[dir[n]][i] = y
    BY KeptMember
  <2>2. dir[n] \in DOMAIN data
    BY <2>1 DEF FilesExist
  <2>3. \E i \in DOMAIN data'[dir[n]] : data'[dir[n]][i] = y
    BY <1>1, <2>1, <2>2
  <2> QED
    BY <2>1, <2>3, KeptMemberNext
<1>4. ASSUME NEW y \in Kept', y # x PROVE y \in Kept
  <2>1. PICK n \in Name : dir[n] # Null /\ \E i \in DOMAIN data'[dir[n]] : data'[dir[n]][i] = y
    BY KeptMemberNext
  <2>2. dir[n] \in DOMAIN data
    BY <2>1 DEF FilesExist
  <2>3. \E i \in DOMAIN data[dir[n]] : data[dir[n]][i] = y
    BY <1>1, <1>4, <2>1, <2>2
  <2> QED
    BY <2>1, <2>3, KeptMember
<1> QED
  BY <1>2, <1>3, <1>4

-----------------------------------------------------------------------------
(* Hours and days.                                                         *)

\* A number is its quotient, and a rest that is less than the divisor.
LEMMA Divided ==
  ASSUME NEW a \in Nat, NEW m \in Nat \ {0}
  PROVE  a \div m \in Nat /\ \E r \in 0 .. m - 1 : a = m * (a \div m) + r
<1>1. a \div m \in Nat
  OBVIOUS
<1>2. \E q \in Nat : \E r \in 0 .. m - 1 : a = m * q + r /\ q = a \div m
  OBVIOUS
<1> QED
  BY <1>1, <1>2

\* And there is only one such quotient.
LEMMA Quotient ==
  ASSUME NEW q \in Nat, NEW m \in Nat \ {0}, NEW r \in 0 .. m - 1
  PROVE  (m * q + r) \div m = q
OBVIOUS

\* To count days is to count hours and then, of these, the days.
LEMMA Nested ==
  ASSUME NEW a \in Nat, NEW h \in Nat \ {0}, NEW k \in Nat \ {0}
  PROVE  a \div (k * h) = (a \div h) \div k
<1> DEFINE q == a \div h
           d == q \div k
<1>1. q \in Nat /\ \E r \in 0 .. h - 1 : a = h * q + r
  BY Divided
<1> HIDE DEF q
<1>2. PICK r \in 0 .. h - 1 : a = h * q + r
  BY <1>1
<1>3. d \in Nat /\ \E e \in 0 .. k - 1 : q = k * d + e
  BY <1>1, Divided
<1> HIDE DEF d
<1>4. PICK e \in 0 .. k - 1 : q = k * d + e
  BY <1>3
<1>5. h * (k * d + e) = (k * h) * d + h * e
  BY <1>3
<1>6. h * e + r < k * h
  <2>1. h * e <= h * (k - 1)
    OBVIOUS
  <2>2. h * (k - 1) = k * h - h
    OBVIOUS
  <2>3. h * e \in Nat /\ k * h \in Nat
    OBVIOUS
  <2> QED
    BY <2>1, <2>2, <2>3
<1> DEFINE m == k * h
           x == h * e + r
<1>7. m \in Nat \ {0} /\ x \in 0 .. m - 1
  BY <1>6
<1>8. a = m * d + x
  <2>1. (k * h) * d \in Nat /\ h * e \in Nat
    BY <1>3
  <2> QED
    BY <1>2, <1>4, <1>5, <2>1
<1> HIDE DEF m, x
<1>9. a \div m = d
  BY <1>3, <1>7, <1>8, Quotient
<1> QED
  BY <1>9 DEF m, d, q

\* A day is a number of hours, and so the times of one hour are of one day.
LEMMA HoursInDays ==
  ASSUME NEW k \in Nat, DayLen = k * HourLen, NEW a \in Nat, NEW b \in Nat,
         Hour(a) = Hour(b)
  PROVE  Day(a) = Day(b)
<1>1. HourLen \in Nat \ {0} /\ k \in Nat \ {0}
  BY LogFilesAssumption
<1>2. Day(a) = Hour(a) \div k /\ Day(b) = Hour(b) \div k
  BY <1>1, Nested DEF Day, Hour
<1> QED
  BY <1>2

\* A day is a number of hours.
WholeHours == \E k \in Nat : DayLen = k * HourLen

\* Two times that _checkRotate does not tell apart are of the same period: it
\* looks at the hour only if both are asked for.
LEMMA NotTold ==
  ASSUME WholeHours, NEW a \in Nat, NEW b \in Nat, NEW p \in Period,
         IsHourly(p) => Hour(a) = Hour(b),
         p = "daily" => Day(a) = Day(b)
  PROVE  SamePeriod(a, b, p)
<1>1. Hour(a) = Hour(b) => Day(a) = Day(b)
  BY HoursInDays DEF WholeHours
<1> QED
  BY <1>1 DEF SamePeriod, IsHourly, IsDaily, Period

-----------------------------------------------------------------------------
(* The periods of a file.                                                  *)

\* The lines of s fall in one period.
OneIn(s) == \A i \in 1 .. Len(s) - 1 : SamePeriod(s[i].at, s[i + 1].at, s[i + 1].per)

PeriodFiles == \A n \in Name : dir[n] # Null => OneIn(data[dir[n]])

\* That is what OnePeriod says.
LEMMA PeriodFilesEnough == PeriodFiles => OnePeriod
BY DEF PeriodFiles, OnePeriod, OneIn, Files

\* A line that is of the period of the last one.
LEMMA OneMore ==
  ASSUME NEW s \in Seq(Line), OneIn(s), NEW x \in Line,
         Len(s) > 0 => SamePeriod(s[Len(s)].at, x.at, x.per)
  PROVE  OneIn(Append(s, x))
<1>1. Len(s) \in Nat /\ Len(Append(s, x)) = Len(s) + 1
  BY LenProperties, AppendProperties
<1>2. (\A i \in 1 .. Len(s) : Append(s, x)[i] = s[i]) /\ Append(s, x)[Len(s) + 1] = x
  BY AppendProperties
<1> SUFFICES ASSUME NEW i \in 1 .. Len(s)
             PROVE  SamePeriod(Append(s, x)[i].at, Append(s, x)[i + 1].at, Append(s, x)[i + 1].per)
  BY <1>1 DEF OneIn
<1>3. CASE i = Len(s)
  BY <1>1, <1>2, <1>3
<1>4. CASE i # Len(s)
  <2>1. i \in 1 .. Len(s) - 1 /\ i + 1 \in 1 .. Len(s)
    BY <1>1, <1>4
  <2>2. Append(s, x)[i] = s[i] /\ Append(s, x)[i + 1] = s[i + 1]
    BY <1>2, <2>1
  <2> QED
    BY <2>1, <2>2 DEF OneIn
<1> QED
  BY <1>3, <1>4

\* The file called _logFile has lines, and the time of the last one.
HasLines == dir[Base] # Null /\ Len(data[dir[Base]]) > 0
LastTime == data[dir[Base]][Len(data[dir[Base]])].at

\* It is a time.
LEMMA LastTimed ==
  ASSUME FilesTypeOK, FilesExist, HasLines
  PROVE  LastTime \in Nat
<1> DEFINE b == dir[Base]
<1>1. b \in DOMAIN data /\ data \in Seq(Seq(Line))
  BY NamesTyped DEF FilesTypeOK, FilesExist, HasLines
<1>2. data[b] \in Seq(Line)
  BY <1>1
<1>3. Len(data[b]) \in Nat /\ Len(data[b]) > 0
  BY <1>2, LenProperties DEF HasLines
<1>4. data[b][Len(data[b])] \in Line
  BY <1>2, <1>3, ElementOfSeq
<1> QED
  BY <1>4 DEF LastTime, Line

\* A file that is made has no lines.
LEMMA MakePeriod ==
  ASSUME FilesTypeOK, FilesExist, PeriodFiles, MakeBase
  PROVE  PeriodFiles' /\ (dir[Base] = Null => ~HasLines')
<1>0. data \in Seq(Seq(Line)) /\ dir \in [Name -> Nat \cup {Null}] /\ Base \in Name
  BY NamesTyped DEF FilesTypeOK
<1>1. CASE dir[Base] = Null
  <2>1. Len(data) \in Nat /\ DOMAIN data = 1 .. Len(data) /\ <<>> \in Seq(Line)
    BY <1>0, LenProperties, EmptySeq
  <2>2. dir' = [dir EXCEPT ![Base] = Len(data) + 1] /\ data' = Append(data, <<>>)
    BY <1>1 DEF MakeBase, BaseFile
  <2>3. /\ \A i \in 1 .. Len(data) : data'[i] = data[i]
        /\ data'[Len(data) + 1] = <<>>
    BY <1>0, <2>1, <2>2, AppendProperties
  <2>4. dir'[Base] = Len(data) + 1 /\ data'[dir'[Base]] = <<>>
    BY <1>0, <2>1, <2>2, <2>3
  <2>5. Len(<<>>) = 0 /\ OneIn(<<>>)
    BY DEF OneIn
  <2>6. ASSUME NEW n \in Name, dir'[n] # Null PROVE OneIn(data'[dir'[n]])
    <3>1. CASE n = Base
      BY <2>4, <2>5, <3>1
    <3>2. CASE n # Base
      <4>1. dir'[n] = dir[n]
        BY <1>0, <2>2, <3>2
      <4>2. data'[dir[n]] = data[dir[n]]
        BY <2>1, <2>3, <2>6, <4>1 DEF FilesExist
      <4> QED
        BY <2>6, <4>1, <4>2 DEF PeriodFiles
    <3> QED
      BY <3>1, <3>2
  <2>7. ~HasLines'
    BY <2>4, <2>5 DEF HasLines
  <2>8. PeriodFiles'
    BY <2>6 DEF PeriodFiles, OneIn
  <2> QED
    BY <2>7, <2>8
<1>2. CASE dir[Base] # Null
  <2>1. dir' = dir /\ data' = data
    BY <1>0, <1>2 DEF MakeBase, BaseFile
  <2> QED
    BY <1>2, <2>1 DEF PeriodFiles, OneIn
<1> QED
  BY <1>1, <1>2

\* Moving files between names leaves their lines alone.
LEMMA MovePeriod ==
  ASSUME PeriodFiles, data' = data,
         \A n \in Name : dir'[n] # Null => \E k \in Name : dir'[n] = dir[k]
  PROVE  PeriodFiles'
BY DEF PeriodFiles, OneIn

\* A line that is appended to the file called _logFile.
LEMMA AppendPeriod ==
  ASSUME FilesTypeOK, FilesExist, PeriodFiles, NEW x \in Line, dir[Base] # Null,
         data' = [data EXCEPT ![dir[Base]] = Append(data[dir[Base]], x)], dir' = dir,
         HasLines => SamePeriod(LastTime, x.at, x.per)
  PROVE  PeriodFiles' /\ LastTime' = x.at
<1> DEFINE b == dir[Base]
<1>0. data \in Seq(Seq(Line)) /\ b \in DOMAIN data
  BY NamesTyped DEF FilesTypeOK, FilesExist
<1>1. data[b] \in Seq(Line)
  BY <1>0
<1>2. OneIn(data[b])
  BY NamesTyped DEF PeriodFiles
<1>3. Len(data[b]) > 0 => SamePeriod(data[b][Len(data[b])].at, x.at, x.per)
  BY DEF HasLines, LastTime
<1>4. OneIn(Append(data[b], x))
  BY <1>1, <1>2, <1>3, OneMore
<1>5. data'[b] = Append(data[b], x) /\ \A f \in DOMAIN data : f # b => data'[f] = data[f]
  BY <1>0
<1>6. LastTime' = x.at
  <2>1. /\ Len(Append(data[b], x)) = Len(data[b]) + 1
        /\ Append(data[b], x)[Len(data[b]) + 1] = x
    BY <1>1, AppendProperties
  <2> QED
    BY <1>5, <2>1 DEF LastTime
<1>7. ASSUME NEW n \in Name, dir[n] # Null PROVE OneIn(data'[dir[n]])
  BY <1>4, <1>5, <1>7 DEF PeriodFiles, FilesExist
<1> QED
  BY <1>6, <1>7 DEF PeriodFiles, OneIn
=============================================================================
