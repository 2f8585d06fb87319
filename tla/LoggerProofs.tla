---------------------------- MODULE LoggerProofs ----------------------------
(***************************************************************************)
(* Proofs about cpl::Logger, for any number of threads, any sizes, periods *)
(* and faults: its types, and that with the lock a line reaches the file   *)
(* called _logFile, through the only descriptor there is of it.  The       *)
(* argument: only the owner of _mtx is past the lock (TurnInv), only a     *)
(* logger with a file rotates (RotatingInv), and so the descriptor is in   *)
(* order whenever no rotation is between its close() and its open()        *)
(* (FileInv).  On top of that, no file outgrows its limit (SizeInv), and   *)
(* as the name a rotation has chosen is still free when it renames         *)
(* (NameInv), no line is lost.                                             *)
(***************************************************************************)
EXTENDS Logger, LogFilesProofs, WellFoundedInduction

\* A set of natural numbers has a least element, if it has any.
LEMMA LeastNatural ==
  ASSUME NEW T \in SUBSET Nat, T # {}
  PROVE  \E n \in T : \A m \in T : n <= m
<1> DEFINE R == OpToRel(<, Nat)
<1>1. PICK n \in T : \A m \in T : ~ (<<m, n>> \in R)
  <2>1. IsWellFoundedOn(R, Nat)
    BY NatLessThanWellFounded
  <2> HIDE DEF R
  <2> QED
    BY <2>1, WFMin
<1>2. \A m \in T : ~ (m < n)
  BY <1>1 DEF OpToRel
<1> QED
  BY <1>2

\* open() returns a free descriptor.
LEMMA LowestFreeIsFree ==
  ASSUME FreeFd # {}
  PROVE  LowestFree \in FreeFd
<1>1. FreeFd \in SUBSET Nat
  BY LoggerAssumption DEF FreeFd
<1>2. \E n \in FreeFd : \A m \in FreeFd : n <= m
  BY <1>1, LeastNatural
<1> QED
  BY <1>2 DEF LowestFree

\* log() stays in its buffer of B bytes, whatever the message, if the header
\* leaves two bytes for the newline and the terminator.  (A header that does
\* not, with a long path, has its terminator put one byte past the end.)
THEOREM LineInBuffer ==
  \A B, m \in Nat : \A h \in Nat : h + 2 <= B => TerminatorAt(B, h, m) < B
BY DEF TerminatorAt

-----------------------------------------------------------------------------
(* Types.                                                                  *)

\* The parts of TypeOK, by who changes them.
DescriptorsOK == fds \in [Fd -> Nat \cup {Null, Other}] /\ fd \in Fd \cup {Null}
MembersOK ==
  /\ named \in BOOLEAN
  /\ lock \in BOOLEAN
  /\ period \in Period
  /\ prev \in -1 .. MaxTime
  /\ owner \in Thread \cup {Null}
  /\ phase \in {"new", "ready"}
ThreadsOK ==
  /\ pc \in [Thread -> PC]
  /\ now \in [Thread -> 0 .. MaxTime]
  /\ newLogFile \in [Thread -> Name \ {Base}]
  /\ seen \in [Thread -> Period]
CountersOK == made \in Nat /\ replaced \subseteq Line /\ runs \in Nat

\* TypeOK is its parts.
LEMMA TypeParts ==
  TypeOK <=> FilesTypeOK /\ DescriptorsOK /\ MembersOK /\ ThreadsOK /\ CountersOK
BY DEF TypeOK, DescriptorsOK, MembersOK, ThreadsOK, CountersOK

\* The same of the next state.
LEMMA TypePartsNext ==
  FilesTypeOK' /\ DescriptorsOK' /\ MembersOK' /\ ThreadsOK' /\ CountersOK' => TypeOK'
BY DEF TypeOK, DescriptorsOK, MembersOK, ThreadsOK, CountersOK

\* Opening the log keeps the types of the files and the descriptors.
LEMMA OpenBaseTypes ==
  ASSUME FilesTypeOK, DescriptorsOK, OpenBase, clock' = clock
  PROVE  FilesTypeOK' /\ DescriptorsOK'
<1>1. FilesTypeOK' /\ BaseFile \in Nat
  BY MakeTypes DEF OpenBase
<1>2. LowestFree \in Fd
  BY LowestFreeIsFree DEF OpenBase, FreeFd
<1>3. DescriptorsOK'
  BY <1>1, <1>2 DEF OpenBase, DescriptorsOK
<1> QED
  BY <1>1, <1>3

\* Logger::Logger sets what it has to.
LEMMA TypesInitially == Init => TypeOK
<1> SUFFICES ASSUME Init PROVE TypeOK
  OBVIOUS
<1>1. FilesTypeOK
  BY EmptySeq, LogFilesAssumption DEF Init, FilesInit, FilesTypeOK
<1>2. DescriptorsOK
  BY LoggerAssumption DEF Init, DescriptorsOK
<1>3. MembersOK
  <2>1. prev \in -1 .. MaxTime
    BY LogFilesAssumption DEF Init
  <2>2. period \in Period /\ owner \in Thread \cup {Null} /\ phase \in {"new", "ready"}
    BY DEF Init, Period
  <2>3. named \in BOOLEAN /\ lock \in BOOLEAN
    BY DEF Init
  <2> QED
    BY <2>1, <2>2, <2>3 DEF MembersOK
<1>4. ThreadsOK
  BY LogFilesAssumption, NamesTyped DEF Init, ThreadsOK, Period, PC
<1>5. CountersOK
  BY DEF Init, CountersOK
<1> QED
  BY <1>1, <1>2, <1>3, <1>4, <1>5, TypeParts

\* What the main thread does keeps the types.
LEMMA MainTypes ==
  ASSUME TypeOK, Main
  PROVE  TypeOK'
<1> USE TypeParts
<1>1. CASE InitFile
  <2>1. FilesTypeOK' /\ DescriptorsOK'
    BY <1>1, OpenBaseTypes DEF InitFile
  <2>2. MembersOK'
    BY <1>1, LoggerAssumption DEF InitFile, Named, MembersOK, Shifted, Period
  <2>3. ThreadsOK'
    BY <1>1 DEF InitFile, tvars, ThreadsOK
  <2>4. CountersOK'
    <3>1. runs' = runs + 1 /\ made' = made /\ replaced' = replaced
      BY <1>1 DEF InitFile, tvars
    <3> QED
      BY <3>1 DEF CountersOK
  <2> QED
    BY <2>1, <2>2, <2>3, <2>4, TypePartsNext
<1>2. CASE InitFileFails
  <2>1. FilesTypeOK' /\ DescriptorsOK'
    BY <1>2 DEF InitFileFails, fvars, FilesTypeOK, DescriptorsOK
  <2>2. MembersOK'
    BY <1>2 DEF InitFileFails, Named, MembersOK
  <2>3. ThreadsOK'
    BY <1>2 DEF InitFileFails, tvars, ThreadsOK
  <2>4. CountersOK'
    BY <1>2 DEF InitFileFails, tvars, CountersOK
  <2> QED
    BY <2>1, <2>2, <2>3, <2>4, TypePartsNext
<1>3. CASE InitFd
  <2>1. FilesTypeOK' /\ DescriptorsOK'
    BY <1>3, LoggerAssumption DEF InitFd, fvars, FilesTypeOK, DescriptorsOK
  <2>2. MembersOK'
    BY <1>3, LoggerAssumption DEF InitFd, MembersOK
  <2>3. ThreadsOK'
    BY <1>3 DEF InitFd, tvars, ThreadsOK
  <2>4. CountersOK'
    BY <1>3 DEF InitFd, tvars, CountersOK
  <2> QED
    BY <2>1, <2>2, <2>3, <2>4, TypePartsNext
<1>4. CASE Reload
  <2>1. FilesTypeOK' /\ DescriptorsOK'
    BY <1>4 DEF Reload, fvars, FilesTypeOK, DescriptorsOK
  <2>2. MembersOK'
    BY <1>4, LoggerAssumption DEF Reload, MembersOK
  <2>3. ThreadsOK'
    BY <1>4 DEF Reload, tvars, ThreadsOK
  <2>4. CountersOK'
    BY <1>4 DEF Reload, tvars, CountersOK
  <2> QED
    BY <2>1, <2>2, <2>3, <2>4, TypePartsNext
<1>5. CASE CloseLogger
  <2>1. FilesTypeOK' /\ DescriptorsOK'
    BY <1>5 DEF CloseLogger, fvars, FilesTypeOK, DescriptorsOK
  <2>2. MembersOK'
    BY <1>5 DEF CloseLogger, MembersOK
  <2>3. ThreadsOK'
    BY <1>5 DEF CloseLogger, tvars, ThreadsOK
  <2>4. CountersOK'
    BY <1>5 DEF CloseLogger, tvars, CountersOK
  <2> QED
    BY <2>1, <2>2, <2>3, <2>4, TypePartsNext
<1> QED
  BY <1>1, <1>2, <1>3, <1>4, <1>5 DEF Main

\* A line is a line.
LEMMA LineTyped ==
  ASSUME ThreadsOK, CountersOK, NEW t \in Thread
  PROVE  LineOf(t) \in Line
BY LogFilesAssumption DEF LineOf, Line, ThreadsOK, CountersOK

\* write() keeps the type of the files, whatever the descriptor stands for.
LEMMA WriteTypes ==
  ASSUME TypeOK, NEW t \in Thread, WriteLine(t)
  PROVE  FilesTypeOK'
<1>1. data \in Seq(Seq(Line)) /\ LineOf(t) \in Line
  BY LineTyped, TypeParts DEF FilesTypeOK
<1>2. ASSUME NEW f
      PROVE  [data EXCEPT ![f] = Append(@, LineOf(t))] \in Seq(Seq(Line))
  <2> DEFINE n == Len(data)
             new == [i \in 1 .. n |-> IF i = f THEN Append(data[i], LineOf(t)) ELSE data[i]]
  <2>1. n \in Nat /\ DOMAIN data = 1 .. n /\ data \in [1 .. n -> Seq(Line)]
    BY <1>1, LenProperties
  <2>2. [data EXCEPT ![f] = Append(@, LineOf(t))] = new
    BY <2>1
  <2>3. \A i \in 1 .. n : data[i] \in Seq(Line)
    BY <2>1
  <2>4. \A i \in 1 .. n : Append(data[i], LineOf(t)) \in Seq(Line)
    BY <1>1, <2>3, AppendProperties
  <2>5. \A i \in 1 .. n : (IF i = f THEN Append(data[i], LineOf(t)) ELSE data[i]) \in Seq(Line)
    BY <2>3, <2>4
  <2>6. new \in Seq(Seq(Line))
    BY <2>1, <2>5, IsASeq
  <2> QED
    BY <2>2, <2>6
<1>3. data' \in Seq(Seq(Line))
  BY <1>1, <1>2 DEF WriteLine
<1> QED
  BY <1>3 DEF WriteLine, TypeOK, FilesTypeOK

\* What a thread does in log() keeps the types.
LEMMA StepTypes ==
  ASSUME TypeOK, FilesExist, NEW t \in Thread, Call(t) \/ Step(t)
  PROVE  TypeOK'
<1> USE TypeParts
<1>1. CASE Call(t)
  <2>1. FilesTypeOK'
    BY <1>1 DEF Call, fvars, FilesTypeOK
  <2>2. DescriptorsOK'
    BY <1>1 DEF Call, cvars, DescriptorsOK
  <2>3. MembersOK'
    BY <1>1 DEF Call, cvars, MembersOK
  <2>4. ThreadsOK'
    BY <1>1 DEF Call, Goto, ThreadsOK, PC, FilesTypeOK
  <2>5. CountersOK'
    BY <1>1 DEF Call, tvars, CountersOK
  <2> QED
    BY <2>1, <2>2, <2>3, <2>4, <2>5, TypePartsNext
<1>2. CASE Lock(t)
  <2>1. FilesTypeOK'
    BY <1>2 DEF Lock, fvars, FilesTypeOK
  <2>2. DescriptorsOK'
    BY <1>2 DEF Lock, cvars, DescriptorsOK
  <2>3. MembersOK'
    BY <1>2 DEF Lock, cvars, MembersOK
  <2>4. ThreadsOK'
    BY <1>2 DEF Lock, Goto, ThreadsOK, PC
  <2>5. CountersOK'
    BY <1>2 DEF Lock, tvars, CountersOK
  <2> QED
    BY <2>1, <2>2, <2>3, <2>4, <2>5, TypePartsNext
<1>3. CASE StartRotate(t)
  <2>1. FilesTypeOK'
    BY <1>3 DEF StartRotate, fvars, FilesTypeOK
  <2>2. DescriptorsOK'
    BY <1>3 DEF StartRotate, cvars, DescriptorsOK
  <2>3. MembersOK'
    BY <1>3 DEF StartRotate, cvars, MembersOK
  <2>4. ThreadsOK'
    <3>1. NewPeriod(t) => prev \in 0 .. MaxTime
      BY DEF NewPeriod, MembersOK
    <3>2. Stamped(IF NewPeriod(t) THEN prev ELSE now[t]) \in Name \ {Base}
      BY <3>1, NamesTyped DEF ThreadsOK
    <3>3. (IF NeverRotates THEN "none" ELSE period) \in Period
      BY DEF MembersOK, Period
    <3> QED
      BY <1>3, <3>2, <3>3 DEF StartRotate, Goto, Sees, ThreadsOK, PC
  <2>5. CountersOK'
    BY <1>3 DEF StartRotate, tvars, CountersOK
  <2> QED
    BY <2>1, <2>2, <2>3, <2>4, <2>5, TypePartsNext
<1>4. CASE KeepFile(t)
  <2>1. FilesTypeOK'
    BY <1>4 DEF KeepFile, fvars, FilesTypeOK
  <2>2. DescriptorsOK'
    BY <1>4 DEF KeepFile, cvars, DescriptorsOK
  <2>3. MembersOK'
    BY <1>4, LogFilesAssumption DEF KeepFile, MembersOK, ThreadsOK
  <2>4. ThreadsOK'
    <3>1. (IF NeverRotates THEN "none" ELSE period) \in Period
      BY DEF MembersOK, Period
    <3> QED
      BY <1>4, <3>1 DEF KeepFile, Goto, Sees, ThreadsOK, PC
  <2>5. CountersOK'
    BY <1>4 DEF KeepFile, tvars, CountersOK
  <2> QED
    BY <2>1, <2>2, <2>3, <2>4, <2>5, TypePartsNext
<1>5. CASE RotateClose(t)
  <2>1. FilesTypeOK'
    BY <1>5 DEF RotateClose, fvars, FilesTypeOK
  <2>2. DescriptorsOK'
    BY <1>5 DEF RotateClose, cvars, DescriptorsOK
  <2>3. MembersOK'
    BY <1>5 DEF RotateClose, cvars, MembersOK
  <2>4. ThreadsOK'
    BY <1>5 DEF RotateClose, Goto, ThreadsOK, PC
  <2>5. CountersOK'
    BY <1>5 DEF RotateClose, tvars, CountersOK
  <2> QED
    BY <2>1, <2>2, <2>3, <2>4, <2>5, TypePartsNext
<1>6. CASE RotateRename(t)
  <2>1. newLogFile[t] \in Name /\ Base \in Name
    BY NamesTyped DEF ThreadsOK
  <2>2. FilesTypeOK'
    BY <1>6, <2>1 DEF RotateRename, FilesTypeOK
  <2>3. DescriptorsOK'
    BY <1>6 DEF RotateRename, cvars, DescriptorsOK
  <2>4. MembersOK'
    BY <1>6 DEF RotateRename, cvars, MembersOK
  <2>5. ThreadsOK'
    BY <1>6 DEF RotateRename, Goto, ThreadsOK, PC
  <2>6. CountersOK'
    <3>1. Crowded(newLogFile[t]) \subseteq Line
      BY <2>1, LinesTyped DEF Crowded
    <3> QED
      BY <1>6, <3>1 DEF RotateRename, CountersOK
  <2> QED
    BY <2>2, <2>3, <2>4, <2>5, <2>6, TypePartsNext
<1>7. CASE RotateOpen(t)
  <2>1. FilesTypeOK'
    BY <1>7, OpenBaseTypes DEF RotateOpen
  <2>2. DescriptorsOK'
    BY <1>7, OpenBaseTypes DEF RotateOpen
  <2>3. MembersOK'
    BY <1>7, LogFilesAssumption DEF RotateOpen, MembersOK, ThreadsOK
  <2>4. ThreadsOK'
    BY <1>7 DEF RotateOpen, Goto, ThreadsOK, PC
  <2>5. CountersOK'
    BY <1>7 DEF RotateOpen, tvars, CountersOK
  <2> QED
    BY <2>1, <2>2, <2>3, <2>4, <2>5, TypePartsNext
<1>8. CASE RotateOpenFails(t)
  <2>1. FilesTypeOK'
    BY <1>8 DEF RotateOpenFails, fvars, FilesTypeOK
  <2>2. DescriptorsOK'
    BY <1>8 DEF RotateOpenFails, cvars, DescriptorsOK
  <2>3. MembersOK'
    BY <1>8, LogFilesAssumption DEF RotateOpenFails, MembersOK, ThreadsOK
  <2>4. ThreadsOK'
    BY <1>8 DEF RotateOpenFails, Goto, ThreadsOK, PC
  <2>5. CountersOK'
    BY <1>8 DEF RotateOpenFails, tvars, CountersOK
  <2> QED
    BY <2>1, <2>2, <2>3, <2>4, <2>5, TypePartsNext
<1>9. CASE WriteLine(t)
  <2>1. FilesTypeOK'
    BY <1>9, WriteTypes
  <2>2. DescriptorsOK'
    BY <1>9 DEF WriteLine, cvars, DescriptorsOK
  <2>3. MembersOK'
    BY <1>9 DEF WriteLine, cvars, MembersOK
  <2>4. ThreadsOK'
    BY <1>9 DEF WriteLine, Goto, ThreadsOK, PC
  <2>5. CountersOK'
    BY <1>9 DEF WriteLine, tvars, CountersOK
  <2> QED
    BY <2>1, <2>2, <2>3, <2>4, <2>5, TypePartsNext
<1>10. CASE Unlock(t)
  <2>1. FilesTypeOK'
    BY <1>10 DEF Unlock, fvars, FilesTypeOK
  <2>2. DescriptorsOK'
    BY <1>10 DEF Unlock, cvars, DescriptorsOK
  <2>3. MembersOK'
    BY <1>10 DEF Unlock, cvars, MembersOK
  <2>4. ThreadsOK'
    <3>1. /\ 0 \in 0 .. MaxTime /\ "none" \in Period /\ "idle" \in PC
          /\ Stamped(0) \in Name \ {Base}
      BY LogFilesAssumption, NamesTyped DEF Period, PC
    <3>2. pc' \in [Thread -> PC]
      BY <1>10, <3>1 DEF Unlock, Goto, ThreadsOK
    <3>3. now' \in [Thread -> 0 .. MaxTime] /\ newLogFile' \in [Thread -> Name \ {Base}]
      BY <1>10, <3>1 DEF Unlock, ThreadsOK
    <3>4. seen' \in [Thread -> Period]
      BY <1>10, <3>1 DEF Unlock, ThreadsOK
    <3> QED
      BY <3>2, <3>3, <3>4 DEF ThreadsOK
  <2>5. CountersOK'
    BY <1>10 DEF Unlock, tvars, CountersOK
  <2> QED
    BY <2>1, <2>2, <2>3, <2>4, <2>5, TypePartsNext
<1>11. CASE RotateStat(t)
  <2>1. FilesTypeOK'
    BY <1>11 DEF RotateStat, fvars, FilesTypeOK
  <2>2. DescriptorsOK'
    BY <1>11 DEF RotateStat, cvars, DescriptorsOK
  <2>3. MembersOK'
    BY <1>11 DEF RotateStat, cvars, MembersOK
  <2>4. ThreadsOK'
    <3>1. FreeName(newLogFile[t]) \in Name \ {Base}
      BY NamesTyped DEF ThreadsOK
    <3> QED
      BY <1>11, <3>1 DEF RotateStat, Goto, ThreadsOK, PC
  <2>5. CountersOK'
    BY <1>11 DEF RotateStat, CountersOK
  <2> QED
    BY <2>1, <2>2, <2>3, <2>4, <2>5, TypePartsNext
<1> QED
  BY <1>1, <1>2, <1>3, <1>4, <1>5, <1>6, <1>7, <1>8, <1>9, <1>10, <1>11 DEF Step

\* The rest of the world keeps the types.
LEMMA WorldTypes ==
  ASSUME TypeOK, Tick \/ Elsewhere \/ Restart
  PROVE  TypeOK'
<1> USE TypeParts
<1>1. CASE Tick
  <2>1. FilesTypeOK'
    BY <1>1, LogFilesAssumption DEF Tick, FilesTypeOK
  <2>2. DescriptorsOK' /\ MembersOK'
    BY <1>1 DEF Tick, cvars, DescriptorsOK, MembersOK
  <2>3. ThreadsOK'
    BY <1>1 DEF Tick, tvars, ThreadsOK
  <2>4. CountersOK'
    BY <1>1 DEF Tick, tvars, CountersOK
  <2> QED
    BY <2>1, <2>2, <2>3, <2>4, TypePartsNext
<1>2. CASE Elsewhere
  <2>1. FilesTypeOK'
    BY <1>2 DEF Elsewhere, fvars, FilesTypeOK
  <2>2. DescriptorsOK'
    BY <1>2 DEF Elsewhere, DescriptorsOK
  <2>3. MembersOK'
    BY <1>2 DEF Elsewhere, MembersOK
  <2>4. ThreadsOK'
    BY <1>2 DEF Elsewhere, tvars, ThreadsOK
  <2>5. CountersOK'
    BY <1>2 DEF Elsewhere, tvars, CountersOK
  <2> QED
    BY <2>1, <2>2, <2>3, <2>4, <2>5, TypePartsNext
<1>3. CASE Restart
  <2>1. FilesTypeOK'
    BY <1>3 DEF Restart, fvars, FilesTypeOK
  <2>2. DescriptorsOK'
    BY <1>3, LoggerAssumption DEF Restart, DescriptorsOK
  <2>3. MembersOK'
    <3>1. prev' \in -1 .. MaxTime
      BY <1>3, LogFilesAssumption DEF Restart
    <3>2. period' \in Period /\ owner' \in Thread \cup {Null} /\ phase' \in {"new", "ready"}
      BY <1>3 DEF Restart, Period
    <3>3. named' \in BOOLEAN /\ lock' \in BOOLEAN
      BY <1>3 DEF Restart
    <3> QED
      BY <3>1, <3>2, <3>3 DEF MembersOK
  <2>4. ThreadsOK'
    BY <1>3, LogFilesAssumption, NamesTyped DEF Restart, ThreadsOK, PC, Period
  <2>5. CountersOK'
    BY <1>3 DEF Restart, CountersOK
  <2> QED
    BY <2>1, <2>2, <2>3, <2>4, <2>5, TypePartsNext
<1> QED
  BY <1>1, <1>2, <1>3

\* write() adds its line, or nothing if the file has no name any more.
LEMMA WriteKept ==
  ASSUME TypeOK, FilesExist, NEW t \in Thread, WriteLine(t)
  PROVE  FilesExist' /\ Kept \subseteq Kept' /\ Kept' \ Kept \subseteq {LineOf(t)}
<1>1. dir' = dir /\ FilesTypeOK
  BY TypeParts DEF WriteLine
<1>2. CASE data' = data
  BY <1>1, <1>2 DEF FilesExist, Kept, Files, LinesIn
<1>3. CASE data' # data
  <2>1. PICK x \in Line : x = LineOf(t)
    BY LineTyped, TypeParts
  <2>2. PICK b : data' = [data EXCEPT ![b] = Append(data[b], x)]
    BY <1>3, <2>1 DEF WriteLine
  <2> QED
    BY <1>1, <2>1, <2>2, AppendKept
<1> QED
  BY <1>2, <1>3

\* The steps that change a file or a name.
LEMMA FileSteps ==
  ASSUME [Next]_vars
  PROVE  \/ UNCHANGED <<dir, data, replaced>>
         \/ OpenBase /\ replaced' = replaced
         \/ \E t \in Thread : WriteLine(t) \/ RotateRename(t)
BY DEF Next, Main, InitFile, InitFileFails, InitFd, Reload, CloseLogger, Call,
       Step, Lock, StartRotate, KeepFile, RotateClose, RotateStat, RotateOpen,
       RotateOpenFails, Unlock, Tick, Elsewhere, Restart, vars, fvars, tvars

\* A name that is in use stands for a file, whatever happens to either.
LEMMA ExistKept ==
  ASSUME TypeOK, FilesExist, [Next]_vars
  PROVE  FilesExist'
<1>1. CASE UNCHANGED <<dir, data>>
  BY <1>1 DEF FilesExist
<1>2. CASE OpenBase
  BY <1>2, MakeKept, TypeParts DEF OpenBase
<1>3. ASSUME NEW t \in Thread, RotateRename(t) PROVE FilesExist'
  <2>1. newLogFile[t] \in Name /\ FilesTypeOK /\ data' = data
    BY <1>3 DEF RotateRename, TypeOK
  <2>2. dir' = dir \/ dir' = [dir EXCEPT ![newLogFile[t]] = dir[Base], ![Base] = Null]
    BY <1>3 DEF RotateRename
  <2>3. CASE dir' = dir
    BY <2>1, <2>3 DEF FilesExist
  <2> QED
    BY <2>1, <2>2, <2>3, MoveExist
<1> QED
  BY <1>1, <1>2, <1>3, FileSteps, WriteKept

\* Every step keeps the types.
LEMMA TypesKept ==
  ASSUME TypeOK, FilesExist, [Next]_vars
  PROVE  TypeOK'
<1>1. CASE UNCHANGED vars
  BY <1>1 DEF vars, fvars, cvars, tvars, TypeOK, FilesTypeOK
<1> QED
  BY <1>1, MainTypes, StepTypes, WorldTypes DEF Next

\* The types, and that the names in use stand for files, which the types of the
\* lines in those files rest on.
LEMMA TypedAlways == Spec => [](TypeOK /\ FilesExist)
<1>1. Init => TypeOK /\ FilesExist
  BY TypesInitially DEF Init, FilesInit, FilesExist
<1>2. TypeOK /\ FilesExist /\ [Next]_vars => (TypeOK /\ FilesExist)'
  BY TypesKept, ExistKept
<1> QED
  BY <1>1, <1>2, PTL DEF Spec

\* The logger's variables always have their types, whatever fails.
THEOREM LoggerTyping == Spec => []TypeOK
BY TypedAlways, PTL

-----------------------------------------------------------------------------
(* With the lock: one thread at a time is past it, and the descriptor it   *)
(* writes to is the log's.                                                 *)

\* Past the lock, and between the close() and the open() of a rotation.
Inside == {"check", "close", "stat", "rename", "open", "write", "unlock"}
Reopening == \E t \in Thread : pc[t] \in {"stat", "rename", "open"}

\* The process has no descriptor of the log.
NoLog == \A n \in Fd : fds[n] \in {Null, Other}

\* A logger that is used is locked, and only the owner of _mtx is past it.
TurnInv ==
  /\ phase = "new" => AllIdle
  /\ phase = "ready" => lock
  /\ \A t \in Thread : pc[t] \in Inside <=> owner = t

\* The descriptors of the log: _fd only, and it is open and stands for the
\* file that is called _logFile, except while that is being changed.
FileInv ==
  /\ phase = "new" \/ Reopening => NoLog
  /\ \A n \in Fd : fds[n] \notin {Null, Other} => n = fd /\ named /\ fds[n] = dir[Base]
  /\ phase = "ready" /\ ~Reopening /\ named /\ fd \notin {Null, Stdout} =>
       fds[fd] \notin {Null, Other}

\* Only a logger that has a file is rotated.
RotatingInv ==
  \A t \in Thread : pc[t] \in {"close", "stat", "rename", "open"} => named

\* It gets another name, which is free when it is renamed, if it is the time's
\* first name: nobody else has rotated since it was looked at.
NameInv ==
  \A t \in Thread :
    /\ pc[t] \in {"close", "stat", "rename"} => newLogFile[t] # Base
    /\ pc[t] = "rename" => newLogFile[t].one \/ dir[newLogFile[t]] = Null

LockInv ==
  /\ lock => EnableLock
  /\ EnableLock => TurnInv /\ RotatingInv /\ NameInv /\ FileInv

\* Null and Other are no files, and Null is no descriptor and no thread.
LEMMA Distinct ==
  /\ Null \notin Fd /\ Null \notin Thread
  /\ \A n \in Nat : n # Null /\ n # Other
<1>1. Null \notin Int /\ Null \notin Thread
  BY LogFilesAssumption
<1>2. Other \notin Nat /\ Fd \subseteq Nat
  BY LoggerAssumption
<1>3. \A n \in Nat : n \in Int
  OBVIOUS
<1> QED
  BY <1>1, <1>2, <1>3

\* The owner of the mutex is alone past it, in a logger that is in use.
LEMMA Alone ==
  ASSUME TypeOK, TurnInv, NEW t \in Thread, pc[t] \in Inside
  PROVE  /\ owner = t /\ lock /\ phase = "ready"
         /\ \A u \in Thread : u # t => pc[u] \notin Inside
<1>1. owner = t /\ \A u \in Thread : u # t => pc[u] \notin Inside
  BY DEF TurnInv
<1>2. phase = "ready"
  BY DEF TurnInv, AllIdle, Inside, TypeOK
<1> QED
  BY <1>1, <1>2 DEF TurnInv

-----------------------------------------------------------------------------
(* Turns.                                                                  *)

\* A step past the lock leaves the owner its turn.
LEMMA InsideTurn ==
  ASSUME TypeOK, TurnInv, NEW t \in Thread, pc[t] \in Inside,
         NEW to \in Inside, Goto(t, to), UNCHANGED <<phase, lock, owner>>
  PROVE  TurnInv'
<1>1. pc' = [pc EXCEPT ![t] = to] /\ pc \in [Thread -> PC]
  BY DEF Goto, TypeOK
<1>2. phase' = "ready" /\ lock'
  BY Alone
<1>3. \A u \in Thread : pc'[u] \in Inside <=> owner' = u
  BY <1>1 DEF TurnInv
<1> QED
  BY <1>2, <1>3 DEF TurnInv

\* Call, Lock and Unlock hand the turn over.
LEMMA HandOver ==
  ASSUME TypeOK, TurnInv, NEW t \in Thread, Call(t) \/ Lock(t) \/ Unlock(t)
  PROVE  TurnInv'
<1>0. pc \in [Thread -> PC] /\ phase \in {"new", "ready"}
  BY DEF TypeOK
<1>1. CASE Call(t)
  <2>1. phase' = "ready" /\ lock' /\ owner' = owner
    BY <1>1 DEF Call, cvars, TurnInv
  <2>2. pc' = [pc EXCEPT ![t] = "lock"] /\ pc[t] = "idle"
    BY <1>1 DEF Call, Goto
  <2>3. \A u \in Thread : pc'[u] \in Inside <=> owner' = u
    BY <1>0, <2>1, <2>2 DEF TurnInv, Inside
  <2> QED
    BY <2>1, <2>3 DEF TurnInv
<1>2. CASE Lock(t)
  <2>1. pc[t] = "lock" /\ pc' = [pc EXCEPT ![t] = "check"]
    BY <1>2 DEF Lock, Goto
  <2>2. phase = "ready" /\ lock
    BY <1>0, <2>1 DEF TurnInv, AllIdle
  <2>3. owner = Null /\ owner' = t /\ phase' = "ready" /\ lock'
    BY <1>2, <2>2 DEF Lock
  <2>4. \A u \in Thread : pc[u] \notin Inside
    BY <2>3, Distinct DEF TurnInv
  <2>5. \A u \in Thread : pc'[u] \in Inside <=> owner' = u
    BY <1>0, <2>1, <2>3, <2>4 DEF Inside
  <2> QED
    BY <2>3, <2>5 DEF TurnInv
<1>3. CASE Unlock(t)
  <2>1. pc[t] = "unlock" /\ pc[t] \in Inside /\ pc' = [pc EXCEPT ![t] = "idle"]
    BY <1>3 DEF Unlock, Goto, Inside
  <2>2. lock /\ phase = "ready" /\ \A u \in Thread : u # t => pc[u] \notin Inside
    BY <2>1, Alone
  <2>3. owner' = Null /\ phase' = "ready" /\ lock'
    BY <1>3, <2>2 DEF Unlock
  <2>4. \A u \in Thread : pc'[u] \notin Inside
    BY <1>0, <2>1, <2>2 DEF Inside
  <2> QED
    BY <2>3, <2>4, Distinct DEF TurnInv
<1> QED
  BY <1>1, <1>2, <1>3

\* Every step keeps the turns.
LEMMA TurnKept ==
  ASSUME TypeOK, EnableLock, TurnInv, Next
  PROVE  TurnInv'
<1>1. CASE Main
  <2>1. pc' = pc /\ owner' = owner
    BY <1>1 DEF Main, InitFile, InitFileFails, InitFd, Reload, CloseLogger, tvars
  <2>2. phase' = "new" => AllIdle
    BY <1>1 DEF Main, InitFile, InitFileFails, InitFd, Reload, CloseLogger, TurnInv
  <2>3. phase' = "ready" => lock'
    BY <1>1 DEF Main, InitFile, InitFileFails, InitFd, Reload, CloseLogger, TurnInv
  <2> QED
    BY <2>1, <2>2, <2>3 DEF TurnInv, AllIdle
<1>2. CASE \E t \in Thread : Call(t) \/ Step(t)
  <2>1. PICK t \in Thread : Call(t) \/ Step(t)
    BY <1>2
  <2>2. CASE Call(t) \/ Lock(t) \/ Unlock(t)
    BY <2>2, HandOver
  <2>3. CASE \/ StartRotate(t) \/ KeepFile(t) \/ RotateClose(t)
             \/ RotateStat(t) \/ RotateRename(t) \/ RotateOpen(t)
             \/ RotateOpenFails(t) \/ WriteLine(t)
    <3>1. UNCHANGED <<phase, lock, owner>>
      BY <2>3 DEF StartRotate, KeepFile, RotateClose, RotateStat, RotateRename,
                  RotateOpen, RotateOpenFails, WriteLine, cvars
    <3>2. pc[t] \in Inside /\ \E to \in Inside : Goto(t, to)
      BY <2>3 DEF StartRotate, KeepFile, RotateClose, RotateStat, RotateRename,
                  RotateOpen, RotateOpenFails, WriteLine, Inside
    <3> QED
      BY <3>1, <3>2, InsideTurn
  <2> QED
    BY <2>1, <2>2, <2>3 DEF Step
<1>3. CASE Tick \/ Elsewhere
  BY <1>3 DEF Tick, Elsewhere, cvars, tvars, TurnInv, AllIdle
<1>4. CASE Restart
  <2>1. \A t \in Thread : pc'[t] = "idle" /\ owner' # t
    BY <1>4, Distinct DEF Restart
  <2>2. phase' = "new"
    BY <1>4 DEF Restart
  <2> QED
    BY <2>1, <2>2 DEF TurnInv, AllIdle, Inside
<1> QED
  BY <1>1, <1>2, <1>3, <1>4 DEF Next

\* A file that is being rotated keeps its name in _logFile to the end.
LEMMA RotatingKept ==
  ASSUME TypeOK, TurnInv, RotatingInv, Next
  PROVE  RotatingInv'
<1>1. CASE Main
  <2>1. pc' = pc
    BY <1>1 DEF Main, InitFile, InitFileFails, InitFd, Reload, CloseLogger, tvars
  <2>2. named' = named \/ named' = TRUE \/ AllIdle
    BY <1>1 DEF Main, InitFile, InitFileFails, InitFd, Reload, CloseLogger, Named
  <2> QED
    BY <2>1, <2>2 DEF RotatingInv, AllIdle
<1>2. CASE \E t \in Thread : Call(t) \/ Step(t)
  <2>1. PICK t \in Thread : Call(t) \/ Step(t)
    BY <1>2
  <2>2. named' = named
    BY <2>1 DEF Step, Call, Lock, StartRotate, KeepFile, RotateClose, RotateStat,
                RotateRename, RotateOpen, RotateOpenFails, WriteLine, Unlock, cvars
  <2>3. CASE StartRotate(t) \/ RotateClose(t) \/ RotateStat(t) \/ RotateRename(t)
    <3>1. named
      BY <2>3 DEF StartRotate, Rotates, NeverRotates, RotateClose, RotateStat,
                  RotateRename, RotatingInv
    <3> QED
      BY <2>2, <3>1 DEF RotatingInv
  <2>4. CASE \/ Call(t) \/ Lock(t) \/ KeepFile(t) \/ RotateOpen(t)
             \/ RotateOpenFails(t) \/ WriteLine(t) \/ Unlock(t)
    <3>1. \E to \in {"lock", "check", "write", "unlock", "idle"} : Goto(t, to)
      BY <2>4 DEF Call, Lock, KeepFile, RotateOpen, RotateOpenFails, WriteLine, Unlock
    <3>2. PICK to \in {"lock", "check", "write", "unlock", "idle"} : Goto(t, to)
      BY <3>1
    <3>3. pc \in [Thread -> PC]
      BY DEF TypeOK
    <3>4. \A u \in Thread : pc'[u] \in {"close", "stat", "rename", "open"} =>
            pc[u] \in {"close", "stat", "rename", "open"}
      BY <3>2, <3>3 DEF Goto
    <3> QED
      BY <2>2, <3>4 DEF RotatingInv
  <2> QED
    BY <2>1, <2>3, <2>4 DEF Step
<1>3. CASE Tick \/ Elsewhere
  <2>1. pc' = pc /\ named' = named
    BY <1>3 DEF Tick, Elsewhere, cvars, tvars
  <2> QED
    BY <2>1 DEF RotatingInv
<1>4. CASE Restart
  BY <1>4 DEF Restart, RotatingInv
<1> QED
  BY <1>1, <1>2, <1>3, <1>4 DEF Next

\* The name a rotation has found stays free to the rename: everybody else who
\* could take it waits.
LEMMA NameKept ==
  ASSUME TypeOK, TurnInv, NameInv, Next
  PROVE  NameInv'
<1>0. /\ pc \in [Thread -> PC] /\ newLogFile \in [Thread -> Name \ {Base}]
      /\ dir \in [Name -> Nat \cup {Null}] /\ Base \in Name
  BY NamesTyped DEF TypeOK, FilesTypeOK
<1>1. ASSUME dir' = dir \/ OpenBase, pc' = pc, newLogFile' = newLogFile
      PROVE  NameInv'
  <2>1. \A n \in Name : n # Base => dir'[n] = dir[n]
    BY <1>0, <1>1 DEF OpenBase, MakeBase
  <2> QED
    BY <1>0, <1>1, <2>1 DEF NameInv
<1>2. CASE Main
  BY <1>1, <1>2 DEF Main, InitFile, InitFileFails, InitFd, Reload, CloseLogger,
                    tvars, fvars
<1>3. CASE Tick \/ Elsewhere
  BY <1>1, <1>3 DEF Tick, Elsewhere, tvars, fvars
<1>4. CASE Restart
  BY <1>4 DEF Restart, NameInv
<1>5. ASSUME NEW t \in Thread, Call(t) \/ Step(t)
      PROVE  NameInv'
  <2>1. CASE \/ Call(t) \/ Lock(t) \/ KeepFile(t) \/ RotateOpen(t)
             \/ RotateOpenFails(t) \/ WriteLine(t) \/ Unlock(t)
    <3>1. PICK to \in {"lock", "check", "write", "unlock", "idle"} : Goto(t, to)
      BY <2>1 DEF Call, Lock, KeepFile, RotateOpen, RotateOpenFails, WriteLine, Unlock
    <3>2. dir' = dir \/ OpenBase
      BY <2>1 DEF Call, Lock, KeepFile, RotateOpen, RotateOpenFails, WriteLine,
                  Unlock, fvars
    <3>3. \A n \in Name : n # Base => dir'[n] = dir[n]
      BY <1>0, <3>2 DEF OpenBase, MakeBase
    <3>4. \A u \in Thread : u # t => newLogFile'[u] = newLogFile[u]
      BY <1>0, <2>1 DEF Call, Lock, KeepFile, RotateOpen, RotateOpenFails,
                        WriteLine, Unlock
    <3>5. \A u \in Thread : pc'[u] = IF u = t THEN to ELSE pc[u]
      BY <1>0, <3>1 DEF Goto
    <3> QED
      BY <1>0, <3>3, <3>4, <3>5 DEF NameInv
  <2>2. CASE \/ StartRotate(t) \/ RotateClose(t) \/ RotateStat(t) \/ RotateRename(t)
    <3>1. pc[t] \in Inside
      BY <2>2 DEF StartRotate, RotateClose, RotateStat, RotateRename, Inside
    <3>2. PICK to \in PC : Goto(t, to)
      BY <2>2 DEF StartRotate, RotateClose, RotateStat, RotateRename, PC
    <3>3. \A u \in Thread : u # t => pc'[u] \notin {"close", "stat", "rename"}
      BY <1>0, <3>1, <3>2, Alone DEF Goto, Inside
    <3>4. CASE StartRotate(t)
      <4>1. (IF NewPeriod(t) THEN prev ELSE now[t]) \in 0 .. MaxTime
        BY DEF NewPeriod, TypeOK
      <4>2. newLogFile'[t] # Base
        BY <1>0, <3>4, <4>1, NamesTyped DEF StartRotate
      <4>3. pc'[t] = "close"
        BY <1>0, <3>4 DEF StartRotate, Goto
      <4> QED
        BY <3>3, <4>2, <4>3 DEF NameInv
    <3>5. CASE RotateClose(t)
      <4>1. pc[t] = "close" /\ pc'[t] = "stat" /\ newLogFile' = newLogFile
        BY <1>0, <3>5 DEF RotateClose, Goto
      <4> QED
        BY <3>3, <4>1 DEF NameInv
    <3>6. CASE RotateStat(t)
      <4>1. pc[t] = "stat" /\ pc'[t] = "rename" /\ dir' = dir
        BY <1>0, <3>6 DEF RotateStat, Goto, fvars
      <4>2. newLogFile'[t] = FreeName(newLogFile[t])
        BY <1>0, <3>6 DEF RotateStat
      <4>3. newLogFile[t] \in Name /\ newLogFile[t] # Base
        BY <1>0, <4>1 DEF NameInv
      <4> QED
        BY <3>3, <4>1, <4>2, <4>3, NamesTyped, FreeOrPostfixed DEF NameInv
    <3>7. CASE RotateRename(t)
      <4>1. pc'[t] = "open"
        BY <1>0, <3>7 DEF RotateRename, Goto
      <4> QED
        BY <3>3, <4>1 DEF NameInv
    <3> QED
      BY <2>2, <3>4, <3>5, <3>6, <3>7
  <2> QED
    BY <1>5, <2>1, <2>2 DEF Step
<1> QED
  BY <1>2, <1>3, <1>4, <1>5 DEF Next

-----------------------------------------------------------------------------
(* The descriptor.                                                         *)

\* A step that touches neither the descriptors nor the names, and neither
\* begins nor ends the gap of a rotation.
LEMMA QuietKeeps ==
  ASSUME FileInv, UNCHANGED <<fds, fd, named, dir, phase>>, Reopening' <=> Reopening
  PROVE  FileInv'
<1>1. (phase' = "new" \/ Reopening') => NoLog'
  BY DEF FileInv, NoLog
<1> QED
  BY <1>1 DEF FileInv

\* Without a descriptor of the log, and with _fd the standard output or none,
\* there is nothing to go wrong.
LEMMA NoLogSuffices ==
  ASSUME NoLog', fd' \in {Null, Stdout} \/ Reopening' \/ phase' = "new"
  PROVE  FileInv'
BY DEF FileInv, NoLog

\* open() of the log, when no descriptor of it is open.
LEMMA OpenKeeps ==
  ASSUME TypeOK, NoLog, OpenBase, named', phase' = "ready", ~Reopening'
  PROVE  FileInv'
<1>1. /\ LowestFree \in Fd /\ fd' = LowestFree
      /\ fds' = [fds EXCEPT ![LowestFree] = BaseFile]
  BY LowestFreeIsFree DEF OpenBase, FreeFd
<1>2. dir'[Base] = BaseFile
  BY NamesTyped DEF OpenBase, MakeBase, TypeOK, FilesTypeOK
<1>3. BaseFile \in Nat
  BY BaseTyped, TypeParts
<1>4. BaseFile \notin {Null, Other}
  BY <1>3, Distinct
<1>5. fds \in [Fd -> Nat \cup {Null, Other}]
  BY DEF TypeOK
<1>6. \A n \in Fd : fds'[n] = IF n = fd' THEN BaseFile ELSE fds[n]
  BY <1>1, <1>5
<1>7. \A n \in Fd : fds'[n] \notin {Null, Other} => n = fd' /\ fds'[n] = dir'[Base]
  BY <1>2, <1>6 DEF NoLog
<1>8. fds'[fd'] \notin {Null, Other}
  BY <1>1, <1>4, <1>6
<1> QED
  BY <1>7, <1>8 DEF FileInv

\* What the main thread does keeps the descriptor.
LEMMA MainFile ==
  ASSUME TypeOK, EnableLock, TurnInv, FileInv, Main
  PROVE  FileInv'
<1>0. pc' = pc
  BY DEF Main, InitFile, InitFileFails, InitFd, Reload, CloseLogger, tvars
<1>1. AllIdle => ~Reopening'
  BY <1>0 DEF AllIdle, Reopening
<1>2. phase = "new" => NoLog /\ AllIdle
  BY DEF FileInv, TurnInv
<1>3. CASE InitFile
  BY <1>1, <1>2, <1>3, OpenKeeps DEF InitFile, Named
<1>4. CASE InitFileFails
  <2>1. NoLog' /\ fd' = Null
    BY <1>2, <1>4 DEF InitFileFails, NoLog
  <2> QED
    BY <2>1, NoLogSuffices
<1>5. CASE InitFd
  <2>1. NoLog' /\ fd' = Stdout
    BY <1>2, <1>5 DEF InitFd, NoLog
  <2> QED
    BY <2>1, NoLogSuffices
<1>6. CASE Reload
  <2>1. Reopening' <=> Reopening
    BY <1>0 DEF Reopening
  <2> QED
    BY <1>6, <2>1, QuietKeeps DEF Reload, fvars
<1>7. CASE CloseLogger
  <2>1. NoLog'
    <3>1. fds \in [Fd -> Nat \cup {Null, Other}] /\ fd \in Fd \cup {Null}
      BY DEF TypeOK
    <3>2. CASE named /\ fd # Null
      <4>1. fds' = [fds EXCEPT ![fd] = Null]
        BY <1>7, <3>2 DEF CloseLogger
      <4> QED
        BY <3>1, <4>1 DEF FileInv, NoLog
    <3>3. CASE ~(named /\ fd # Null)
      <4>1. fds' = fds
        BY <1>7, <3>3 DEF CloseLogger
      <4> QED
        BY <3>1, <3>3, <4>1, Distinct DEF FileInv, NoLog
    <3> QED
      BY <3>2, <3>3
  <2>2. phase' = "new"
    BY <1>7 DEF CloseLogger
  <2> QED
    BY <2>1, <2>2, NoLogSuffices
<1> QED
  BY <1>3, <1>4, <1>5, <1>6, <1>7 DEF Main

\* A thread whose step is not one of a rotation's three calls.
LEMMA OutsideGap ==
  ASSUME TypeOK, FileInv, NEW t \in Thread,
         \/ Call(t) \/ Lock(t) \/ StartRotate(t) \/ KeepFile(t)
         \/ WriteLine(t) \/ Unlock(t)
  PROVE  FileInv'
<1>1. UNCHANGED <<fds, fd, named, dir, phase>>
  BY DEF Call, Lock, StartRotate, KeepFile, WriteLine, Unlock, fvars, cvars
<1>2. /\ pc[t] \notin {"stat", "rename", "open"}
      /\ \E to \in PC \ {"stat", "rename", "open"} : pc' = [pc EXCEPT ![t] = to]
  BY DEF Call, Lock, StartRotate, KeepFile, WriteLine, Unlock, Goto, PC
<1>3. pc \in [Thread -> PC]
  BY DEF TypeOK
<1>4. Reopening' <=> Reopening
  BY <1>2, <1>3 DEF Reopening
<1> QED
  BY <1>1, <1>4, QuietKeeps

\* The calls of a rotation: the descriptor is closed, nobody else's is used,
\* and a new one stands for the new file.
LEMMA RotationFile ==
  ASSUME TypeOK, TurnInv, RotatingInv, FileInv, NEW t \in Thread,
         \/ RotateClose(t) \/ RotateStat(t) \/ RotateRename(t)
         \/ RotateOpen(t) \/ RotateOpenFails(t)
  PROVE  FileInv'
<1>0. /\ pc \in [Thread -> PC]
      /\ fds \in [Fd -> Nat \cup {Null, Other}] /\ fd \in Fd \cup {Null}
  BY DEF TypeOK
<1>1. CASE RotateClose(t)
  <2>1. NoLog'
    <3>1. CASE fd = Null
      <4>1. fds' = fds
        BY <1>1, <3>1 DEF RotateClose
      <4> QED
        BY <1>0, <3>1, <4>1, Distinct DEF FileInv, NoLog
    <3>2. CASE fd # Null
      <4>1. fds' = [fds EXCEPT ![fd] = Null]
        BY <1>1, <3>2 DEF RotateClose
      <4> QED
        BY <1>0, <4>1 DEF FileInv, NoLog
    <3> QED
      BY <3>1, <3>2
  <2>2. pc'[t] = "stat"
    BY <1>0, <1>1 DEF RotateClose, Goto
  <2>3. Reopening'
    BY <2>2 DEF Reopening
  <2> QED
    BY <2>1, <2>3, NoLogSuffices
<1>2. ASSUME pc[t] \in {"stat", "rename", "open"}
      PROVE  /\ NoLog /\ phase = "ready"
             /\ \A u \in Thread : u # t => pc[u] \notin Inside
  <2>1. Reopening /\ pc[t] \in Inside
    BY <1>2 DEF Reopening, Inside
  <2> QED
    BY <2>1, Alone DEF FileInv
<1>3. CASE RotateRename(t)
  <2>1. NoLog
    BY <1>2, <1>3 DEF RotateRename
  <2>2. NoLog'
    BY <1>3, <2>1 DEF RotateRename, cvars, NoLog
  <2>3. pc'[t] = "open"
    BY <1>0, <1>3 DEF RotateRename, Goto
  <2>4. Reopening'
    BY <2>3 DEF Reopening
  <2> QED
    BY <2>2, <2>4, NoLogSuffices
<1>4. CASE RotateOpen(t)
  <2>1. /\ NoLog /\ phase = "ready"
        /\ \A u \in Thread : u # t => pc[u] \notin Inside
    BY <1>2, <1>4 DEF RotateOpen
  <2>2. pc' = [pc EXCEPT ![t] = "write"]
    BY <1>4 DEF RotateOpen, Goto
  <2>3. ~Reopening'
    BY <1>0, <2>1, <2>2 DEF Reopening, Inside
  <2>4. named' /\ phase' = "ready"
    BY <1>4, <2>1 DEF RotateOpen, RotatingInv
  <2> QED
    BY <1>4, <2>1, <2>3, <2>4, OpenKeeps DEF RotateOpen
<1>5. CASE RotateOpenFails(t)
  <2>1. NoLog
    BY <1>2, <1>5 DEF RotateOpenFails
  <2>2. NoLog' /\ fd' = Null
    BY <1>5, <2>1 DEF RotateOpenFails, NoLog
  <2> QED
    BY <2>2, NoLogSuffices
<1>6. CASE RotateStat(t)
  <2>1. NoLog
    BY <1>2, <1>6 DEF RotateStat
  <2>2. NoLog'
    BY <1>6, <2>1 DEF RotateStat, cvars, NoLog
  <2>3. pc'[t] = "rename"
    BY <1>0, <1>6 DEF RotateStat, Goto
  <2>4. Reopening'
    BY <2>3 DEF Reopening
  <2> QED
    BY <2>2, <2>4, NoLogSuffices
<1> QED
  BY <1>1, <1>3, <1>4, <1>5, <1>6

\* The rest of the program opens and closes descriptors that are not the
\* log's; a new process has none of it.
LEMMA WorldFile ==
  ASSUME TypeOK, FileInv, Tick \/ Elsewhere \/ Restart
  PROVE  FileInv'
<1>1. CASE Tick
  <2>1. UNCHANGED <<fds, fd, named, dir, phase, pc>>
    BY <1>1 DEF Tick, cvars, tvars
  <2>2. Reopening' <=> Reopening
    BY <2>1 DEF Reopening
  <2> QED
    BY <2>1, <2>2, QuietKeeps
<1>2. CASE Elsewhere
  <2>1. UNCHANGED <<fd, named, dir, phase, pc>>
    BY <1>2 DEF Elsewhere, fvars, tvars
  <2>2. Reopening' <=> Reopening
    BY <2>1 DEF Reopening
  <2>3. PICK n \in Fd : /\ fds[n] \in {Null, Other}
                       /\ \E v \in {Null, Other} : fds' = [fds EXCEPT ![n] = v]
    BY <1>2, LowestFreeIsFree DEF Elsewhere, FreeFd
  <2>4. fds \in [Fd -> Nat \cup {Null, Other}] /\ fd \in Fd \cup {Null}
    BY DEF TypeOK
  <2>5. \A k \in Fd : \/ fds'[k] = fds[k]
                      \/ fds[k] \in {Null, Other} /\ fds'[k] \in {Null, Other}
    BY <2>3, <2>4
  <2>6. NoLog => NoLog'
    BY <2>5 DEF NoLog
  <2>7. (phase' = "new" \/ Reopening') => NoLog'
    BY <2>1, <2>2, <2>6 DEF FileInv
  <2>8. \A k \in Fd : fds'[k] \notin {Null, Other} =>
          k = fd' /\ named' /\ fds'[k] = dir'[Base]
    BY <2>1, <2>5 DEF FileInv
  <2>9. phase' = "ready" /\ ~Reopening' /\ named' /\ fd' \notin {Null, Stdout} =>
          fds'[fd'] \notin {Null, Other}
    BY <2>1, <2>2, <2>4, <2>5 DEF FileInv
  <2> QED
    BY <2>7, <2>8, <2>9 DEF FileInv
<1>3. CASE Restart
  <2>1. NoLog' /\ phase' = "new"
    BY <1>3 DEF Restart, NoLog
  <2> QED
    BY <2>1, NoLogSuffices
<1> QED
  BY <1>1, <1>2, <1>3

\* Every step keeps the descriptor in order.
LEMMA FileKept ==
  ASSUME TypeOK, EnableLock, TurnInv, RotatingInv, FileInv, Next
  PROVE  FileInv'
<1>1. CASE \E t \in Thread : Call(t) \/ Step(t)
  <2>1. PICK t \in Thread : Call(t) \/ Step(t)
    BY <1>1
  <2>2. CASE \/ RotateClose(t) \/ RotateStat(t) \/ RotateRename(t)
             \/ RotateOpen(t) \/ RotateOpenFails(t)
    BY <2>2, RotationFile
  <2>3. CASE \/ Call(t) \/ Lock(t) \/ StartRotate(t) \/ KeepFile(t)
             \/ WriteLine(t) \/ Unlock(t)
    BY <2>3, OutsideGap
  <2> QED
    BY <2>1, <2>2, <2>3 DEF Step
<1> QED
  BY <1>1, MainFile, WorldFile DEF Next

-----------------------------------------------------------------------------
(* The invariant and what follows from it.                                 *)

\* The invariant holds of a new logger.
LEMMA LockInvInitially == Init => LockInv
<1> SUFFICES ASSUME Init PROVE LockInv
  OBVIOUS
<1>1. ~lock
  BY DEF Init
<1>2. TurnInv
  BY Distinct DEF Init, TurnInv, AllIdle, Inside
<1>3. RotatingInv
  BY DEF Init, RotatingInv
<1>4. FileInv
  BY DEF Init, FileInv, NoLog
<1>5. NameInv
  BY DEF Init, NameInv
<1> QED
  BY <1>1, <1>2, <1>3, <1>4, <1>5 DEF LockInv

\* Every step keeps it.
LEMMA LockInvKept ==
  ASSUME TypeOK, LockInv, [Next]_vars
  PROVE  LockInv'
<1>1. CASE UNCHANGED vars
  BY <1>1 DEF vars, fvars, cvars, tvars, LockInv, TurnInv, AllIdle, RotatingInv,
              NameInv, FileInv, NoLog, Reopening
<1>2. CASE Next
  <2>1. lock' = lock \/ lock' = EnableLock \/ lock' = FALSE
    BY <1>2 DEF Next, Main, InitFile, InitFileFails, InitFd, Reload, CloseLogger,
                Call, Step, Lock, StartRotate, KeepFile, RotateClose, RotateStat,
                RotateRename, RotateOpen, RotateOpenFails, WriteLine, Unlock, Tick, Elsewhere,
                Restart, cvars
  <2>2. lock' => EnableLock
    BY <2>1 DEF LockInv
  <2>3. EnableLock => TurnInv' /\ RotatingInv' /\ NameInv' /\ FileInv'
    BY <1>2, TurnKept, RotatingKept, NameKept, FileKept DEF LockInv
  <2> QED
    BY <2>2, <2>3 DEF LockInv
<1> QED
  BY <1>1, <1>2

\* The locked logger: turns, rotations and the descriptor are always in order.
LEMMA LockInvAlways == Spec => [](TypeOK /\ LockInv)
<1>1. Init => LockInv
  BY LockInvInitially
<1>2. TypeOK /\ LockInv /\ [Next]_vars => LockInv'
  BY LockInvKept
<1> QED
  BY <1>1, <1>2, LoggerTyping, PTL DEF Spec

\* With the lock a line is written to the file called _logFile, never to one
\* that was renamed or to somebody else's descriptor, however the rotations
\* of the threads, reload(), and the opens and closes of the rest of the
\* program interleave, and whichever open() or rename() fails.
THEOREM LogReached == Spec => []WritesReachLog
<1>1. TypeOK /\ LockInv => WritesReachLog
  <2> SUFFICES ASSUME TypeOK, LockInv, NEW t \in Thread,
                      pc[t] = "write", lock, named, fd \notin {Null, Stdout}
               PROVE  fds[fd] # Null /\ fds[fd] = dir[Base]
    BY DEF WritesReachLog
  <2>1. TurnInv /\ FileInv
    BY DEF LockInv
  <2>2. pc[t] \in Inside
    BY DEF Inside
  <2>3. phase = "ready" /\ \A u \in Thread : u # t => pc[u] \notin Inside
    BY <2>1, <2>2, Alone
  <2>4. ~Reopening
    BY <2>3 DEF Reopening, Inside
  <2>5. fds[fd] \notin {Null, Other}
    BY <2>1, <2>3, <2>4 DEF FileInv
  <2>6. fd \in Fd
    BY DEF TypeOK
  <2> QED
    BY <2>1, <2>5, <2>6 DEF FileInv
<1> QED
  BY <1>1, LockInvAlways, PTL

\* With the lock no rotation, failed or not, forgets a descriptor of the log.
THEOREM DescriptorKept == Spec => []OneDescriptor
<1>1. TypeOK /\ LockInv => OneDescriptor
  BY DEF LockInv, FileInv, OneDescriptor
<1> QED
  BY <1>1, LockInvAlways, PTL

-----------------------------------------------------------------------------
(* The size of a file.                                                     *)

\* The files with a name exist and are at most a line too long; the thread
\* that is about to write has room for its line; and a rotation opens a new
\* file.
SizeInv ==
  /\ \A n \in Name : dir[n] # Null =>
       dir[n] \in DOMAIN data /\ Len(data[dir[n]]) <= RotateSize + 1
  /\ \A t \in Thread : pc[t] = "write" /\ named /\ dir[Base] # Null =>
       Len(data[dir[Base]]) <= RotateSize
  /\ \A t \in Thread : pc[t] = "open" => dir[Base] = Null

\* What a logger is that rotates by size: limited, locked, and able to rename.
Limited == RotateSize > 0 /\ EnableLock /\ "rename" \notin Faults

\* Neither a file nor a name changes, and nobody gets to where it matters.
LEMMA SizeUntouched ==
  ASSUME SizeInv, UNCHANGED <<dir, data>>,
         \A t \in Thread :
           /\ pc'[t] = "write" => pc[t] = "write" /\ (named' => named)
           /\ pc'[t] = "open" => pc[t] = "open"
  PROVE  SizeInv'
BY DEF SizeInv

\* open() makes a new file if there is none; threads that do not write have
\* nothing to ask of it.
LEMMA OpenSize ==
  ASSUME TypeOK, SizeInv, OpenBase, \A t \in Thread : pc'[t] # "open",
         \/ \A t \in Thread : pc'[t] # "write"
         \/ dir[Base] = Null
  PROVE  SizeInv'
<1>0. /\ data \in Seq(Seq(Line)) /\ dir \in [Name -> Nat \cup {Null}]
      /\ Base \in Name /\ RotateSize \in Nat
  BY NamesTyped, LoggerAssumption DEF TypeOK, FilesTypeOK
<1>1. CASE dir[Base] = Null
  <2>1. /\ Len(data) \in Nat /\ DOMAIN data = 1 .. Len(data)
        /\ <<>> \in Seq(Line) /\ Len(<<>>) = 0
    BY <1>0, LenProperties, EmptySeq
  <2>2. /\ dir' = [dir EXCEPT ![Base] = Len(data) + 1]
        /\ data' = Append(data, <<>>)
    BY <1>1 DEF OpenBase, MakeBase, BaseFile
  <2>3. /\ DOMAIN data' = 1 .. Len(data) + 1
        /\ \A i \in 1 .. Len(data) : data'[i] = data[i]
        /\ data'[Len(data) + 1] = <<>>
    BY <1>0, <2>1, <2>2, AppendProperties
  <2>4. ASSUME NEW n \in Name, dir'[n] # Null
        PROVE  dir'[n] \in DOMAIN data' /\ Len(data'[dir'[n]]) <= RotateSize + 1
    <3>1. CASE n = Base
      <4>1. dir'[n] = Len(data) + 1
        BY <1>0, <2>2, <3>1
      <4> QED
        BY <1>0, <2>1, <2>3, <4>1
    <3>2. CASE n # Base
      <4>1. dir'[n] = dir[n]
        BY <1>0, <2>2, <3>2
      <4>2. dir[n] \in 1 .. Len(data) /\ Len(data[dir[n]]) <= RotateSize + 1
        BY <2>1, <2>4, <4>1 DEF SizeInv
      <4> QED
        BY <2>1, <2>3, <4>1, <4>2
    <3> QED
      BY <3>1, <3>2
  <2>5. Len(data'[dir'[Base]]) <= RotateSize
    <3>1. dir'[Base] = Len(data) + 1
      BY <1>0, <2>2
    <3> QED
      BY <1>0, <2>1, <2>3, <3>1
  <2> QED
    BY <2>4, <2>5 DEF SizeInv
<1>2. CASE dir[Base] # Null
  <2>1. dir' = dir /\ data' = data
    BY <1>0, <1>2 DEF OpenBase, MakeBase, BaseFile
  <2> QED
    BY <1>2, <2>1 DEF SizeInv
<1> QED
  BY <1>1, <1>2

\* What the main thread does keeps the sizes.
LEMMA MainSize ==
  ASSUME TypeOK, TurnInv, SizeInv, Main
  PROVE  SizeInv'
<1>1. pc' = pc
  BY DEF Main, InitFile, InitFileFails, InitFd, Reload, CloseLogger, tvars
<1>2. CASE InitFile
  <2>1. OpenBase /\ AllIdle
    BY <1>2 DEF InitFile, TurnInv
  <2>2. \A t \in Thread : pc'[t] # "open" /\ pc'[t] # "write"
    BY <1>1, <2>1 DEF AllIdle
  <2> QED
    BY <2>1, <2>2, OpenSize
<1>3. CASE InitFileFails \/ InitFd \/ Reload \/ CloseLogger
  <2>1. UNCHANGED <<dir, data>>
    BY <1>3 DEF InitFileFails, InitFd, Reload, CloseLogger, fvars
  <2>2. AllIdle \/ named' = named
    BY <1>3 DEF InitFileFails, InitFd, Reload, CloseLogger, TurnInv
  <2> QED
    BY <1>1, <2>1, <2>2, SizeUntouched DEF AllIdle
<1> QED
  BY <1>2, <1>3 DEF Main

\* A thread that decides to write to the file as it is has found it short
\* enough.
LEMMA KeepFileSize ==
  ASSUME TypeOK, Limited, TurnInv, SizeInv, NEW t \in Thread, KeepFile(t)
  PROVE  SizeInv'
<1>0. pc \in [Thread -> PC] /\ RotateSize \in Nat
  BY LoggerAssumption DEF TypeOK
<1>1. /\ pc[t] = "check" /\ pc' = [pc EXCEPT ![t] = "write"]
      /\ UNCHANGED <<dir, data, named>>
  BY DEF KeepFile, Goto, fvars
<1>2. pc[t] \in Inside
  BY <1>1 DEF Inside
<1>3. \A u \in Thread : u # t => pc'[u] # "write" /\ pc'[u] # "open"
  BY <1>0, <1>1, <1>2, Alone DEF Inside
<1>4. named /\ dir[Base] # Null => Len(data[dir[Base]]) <= RotateSize
  <2> SUFFICES ASSUME named, dir[Base] # Null
               PROVE  Len(data[dir[Base]]) <= RotateSize
    OBVIOUS
  <2>1. ~NeverRotates
    BY <1>0 DEF NeverRotates, Limited
  <2>2. ~(Len(data[dir[Base]]) > RotateSize)
    BY <2>1 DEF KeepFile, Rotates, TooLong
  <2>3. data[dir[Base]] \in Seq(Line)
    BY NamesTyped DEF SizeInv, TypeOK, FilesTypeOK
  <2>4. Len(data[dir[Base]]) \in Nat
    BY <2>3, LenProperties
  <2> QED
    BY <1>0, <2>2, <2>4
<1>5. pc'[t] = "write"
  BY <1>0, <1>1
<1> QED
  BY <1>1, <1>3, <1>4, <1>5 DEF SizeInv

\* rename() takes the name of the file away, so that open() makes a new one.
LEMMA RenameSize ==
  ASSUME TypeOK, Limited, TurnInv, SizeInv, NEW t \in Thread, RotateRename(t)
  PROVE  SizeInv'
<1>0. pc \in [Thread -> PC] /\ dir \in [Name -> Nat \cup {Null}] /\ Base \in Name
  BY NamesTyped DEF TypeOK, FilesTypeOK
<1>1. /\ pc[t] = "rename" /\ pc' = [pc EXCEPT ![t] = "open"]
      /\ UNCHANGED <<data, named>>
  BY DEF RotateRename, Goto, cvars
<1>2. pc[t] \in Inside
  BY <1>1 DEF Inside
<1>3. \A u \in Thread : pc'[u] # "write"
  BY <1>0, <1>1, <1>2, Alone DEF Inside
<1>4. dir'[Base] = Null /\ \A n \in Name : dir'[n] # Null => \E k \in Name : dir'[n] = dir[k]
  <2>1. PICK r \in Name : r = newLogFile[t]
    BY DEF TypeOK
  <2>2. CASE dir[Base] = Null
    <3>1. dir' = dir
      BY <2>2 DEF RotateRename, Limited
    <3> QED
      BY <2>2, <3>1
  <2>3. CASE dir[Base] # Null
    <3>1. dir' = [dir EXCEPT ![r] = dir[Base], ![Base] = Null]
      BY <2>1, <2>3 DEF RotateRename, Limited
    <3> QED
      BY <1>0, <2>1, <3>1
  <2> QED
    BY <2>2, <2>3
<1> QED
  BY <1>1, <1>3, <1>4 DEF SizeInv

\* A line makes a file that has room for it at most one line too long.
LEMMA WriteSize ==
  ASSUME TypeOK, TurnInv, FileInv, SizeInv, NEW t \in Thread, WriteLine(t)
  PROVE  SizeInv'
<1>0. /\ pc \in [Thread -> PC] /\ fd \in Fd \cup {Null} /\ RotateSize \in Nat
      /\ data \in Seq(Seq(Line)) /\ Base \in Name
  BY NamesTyped, LoggerAssumption DEF TypeOK, FilesTypeOK
<1>1. /\ pc[t] = "write" /\ pc' = [pc EXCEPT ![t] = "unlock"]
      /\ UNCHANGED <<dir, named>>
  BY DEF WriteLine, Goto, cvars
<1>2. pc[t] \in Inside
  BY <1>1 DEF Inside
<1>3. \A u \in Thread : pc'[u] # "write" /\ pc'[u] # "open"
  BY <1>0, <1>1, <1>2, Alone DEF Inside
<1>4. CASE data' = data
  BY <1>1, <1>3, <1>4 DEF SizeInv
<1>5. CASE fd # Null /\ fds[fd] \notin {Null, Other}
  <2> DEFINE b == dir[Base]
             l == LineOf(t)
  <2>1. named /\ b = fds[fd] /\ b # Null
    BY <1>0, <1>5 DEF FileInv
  <2>2. b \in DOMAIN data /\ Len(data[b]) <= RotateSize
    BY <1>0, <1>1, <2>1 DEF SizeInv
  <2>3. data' = [data EXCEPT ![b] = Append(data[b], l)]
    BY <1>5, <2>1 DEF WriteLine
  <2>4. data[b] \in Seq(Line) /\ l \in Line
    BY <1>0, <2>2, LineTyped, TypeParts
  <2> HIDE DEF l
  <2>5. Len(data[b]) \in Nat /\ Len(Append(data[b], l)) = Len(data[b]) + 1
    BY <2>4, LenProperties, AppendProperties
  <2>6. /\ DOMAIN data' = DOMAIN data
        /\ \A f \in DOMAIN data : data'[f] = IF f = b THEN Append(data[b], l) ELSE data[f]
    BY <1>0, <2>2, <2>3
  <2>7. Len(data'[b]) <= RotateSize + 1
    BY <1>0, <2>2, <2>5, <2>6
  <2>8. \A n \in Name : dir[n] # Null =>
          dir[n] \in DOMAIN data' /\ Len(data'[dir[n]]) <= RotateSize + 1
    BY <2>6, <2>7 DEF SizeInv
  <2> QED
    BY <1>1, <1>3, <2>8 DEF SizeInv
<1> QED
  BY <1>4, <1>5 DEF WriteLine

\* Every step keeps the sizes.
LEMMA SizeKept ==
  ASSUME TypeOK, Limited, TurnInv, FileInv, SizeInv, Next
  PROVE  SizeInv'
<1>0. pc \in [Thread -> PC]
  BY DEF TypeOK
<1>1. CASE \E t \in Thread : Call(t) \/ Step(t)
  <2>1. PICK t \in Thread : Call(t) \/ Step(t)
    BY <1>1
  <2>2. CASE \/ Call(t) \/ Lock(t) \/ StartRotate(t) \/ RotateClose(t)
             \/ RotateStat(t) \/ Unlock(t)
    <3>1. UNCHANGED <<dir, data, named>>
      BY <2>2 DEF Call, Lock, StartRotate, RotateClose, RotateStat, Unlock, fvars, cvars
    <3>2. PICK to \in {"lock", "check", "close", "stat", "rename", "idle"} : Goto(t, to)
      BY <2>2 DEF Call, Lock, StartRotate, RotateClose, RotateStat, Unlock
    <3>3. \A u \in Thread : /\ pc'[u] = "write" => pc[u] = "write"
                            /\ pc'[u] = "open" => pc[u] = "open"
      BY <1>0, <3>2 DEF Goto
    <3> QED
      BY <3>1, <3>3, SizeUntouched
  <2>3. CASE RotateOpen(t)
    <3>1. pc[t] = "open" /\ pc' = [pc EXCEPT ![t] = "write"] /\ OpenBase
      BY <2>3 DEF RotateOpen, Goto
    <3>2. pc[t] \in Inside
      BY <3>1 DEF Inside
    <3>3. \A u \in Thread : pc'[u] # "open"
      BY <1>0, <3>1, <3>2, Alone DEF Inside
    <3>4. dir[Base] = Null
      BY <3>1 DEF SizeInv
    <3> QED
      BY <3>1, <3>3, <3>4, OpenSize
  <2>4. CASE RotateOpenFails(t)
    <3>1. /\ pc[t] = "open" /\ pc' = [pc EXCEPT ![t] = "write"]
          /\ UNCHANGED <<dir, data>>
      BY <2>4 DEF RotateOpenFails, Goto, fvars
    <3>2. dir'[Base] = Null
      BY <3>1 DEF SizeInv
    <3> QED
      BY <3>1, <3>2 DEF SizeInv
  <2> QED
    BY <2>1, <2>2, <2>3, <2>4, KeepFileSize, RenameSize, WriteSize DEF Step
<1>2. CASE Tick \/ Elsewhere
  <2>1. UNCHANGED <<dir, data, named, pc>>
    BY <1>2 DEF Tick, Elsewhere, fvars, cvars, tvars
  <2> QED
    BY <2>1, SizeUntouched
<1>3. CASE Restart
  <2>1. UNCHANGED <<dir, data>> /\ \A t \in Thread : pc'[t] = "idle"
    BY <1>3 DEF Restart, fvars
  <2> QED
    BY <2>1, SizeUntouched
<1> QED
  BY <1>1, <1>2, <1>3, MainSize DEF Next

\* A file has at most one line more than the limit, whatever the number of
\* threads, in a logger that locks and whose renames succeed: also after a
\* failed open(), a reload() or a restart at any point.
THEOREM FilesBounded == Spec => []SizeBounded
<1> DEFINE Bound == Limited => SizeInv
<1>1. Init => Bound
  BY NamesTyped DEF Init, FilesInit, SizeInv
<1>2. TypeOK /\ LockInv /\ Bound /\ [Next]_vars => Bound'
  <2> SUFFICES ASSUME TypeOK, LockInv, Bound, [Next]_vars, Limited
               PROVE  SizeInv'
    BY DEF Limited
  <2>1. CASE UNCHANGED vars
    <3>1. UNCHANGED <<dir, data, named, pc>>
      BY <2>1 DEF vars, fvars, cvars, tvars
    <3> QED
      BY <3>1, SizeUntouched
  <2>2. CASE Next
    BY <2>2, SizeKept DEF LockInv, Limited
  <2> QED
    BY <2>1, <2>2
<1>3. Bound => SizeBounded
  BY DEF SizeInv, SizeBounded, Limited, Files
<1> HIDE DEF Bound
<1> QED
  BY <1>1, <1>2, <1>3, LockInvAlways, PTL DEF Spec

-----------------------------------------------------------------------------
(* The lines stay in the directory.                                        *)

\* What a reader of the directory finds, and what a third rotation of a second
\* took from it.
Written == Kept \cup replaced

\* rename() takes no other file's name away than one that a third rotation of
\* the second has to use.
LEMMA RenameKept ==
  ASSUME TypeOK, FilesExist, NameInv, NEW t \in Thread, RotateRename(t)
  PROVE  Written' = Written
<1>1. data' = data /\ pc[t] = "rename" /\ FilesTypeOK
  BY TypeParts DEF RotateRename
<1>2. CASE UNCHANGED <<dir, replaced>>
  BY <1>1, <1>2 DEF Written, Kept, Files, LinesIn
<1>3. CASE /\ dir[Base] # Null
           /\ dir' = [dir EXCEPT ![newLogFile[t]] = dir[Base], ![Base] = Null]
           /\ replaced' = replaced \cup Crowded(newLogFile[t])
  <2>1. PICK r \in Name : r = newLogFile[t]
    BY DEF TypeOK
  <2>2. r # Base /\ (r.one \/ dir[r] = Null)
    BY <1>1, <2>1 DEF NameInv
  <2>3. CASE dir[r] = Null
    <3>1. Kept' = Kept
      BY <1>1, <1>3, <2>1, <2>2, <2>3, MoveKept
    <3>2. replaced' = replaced
      BY <1>3, <2>1, <2>3 DEF Crowded
    <3> QED
      BY <3>1, <3>2 DEF Written
  <2>4. CASE dir[r] # Null
    <3>1. Kept' \cup LinesIn(dir[r]) = Kept
      BY <1>1, <1>3, <2>1, <2>2, <2>4, ReplaceKept
    <3>2. replaced' = replaced \cup LinesIn(dir[r])
      BY <1>3, <2>1, <2>2, <2>4 DEF Crowded
    <3> QED
      BY <3>1, <3>2 DEF Written
  <2> QED
    BY <2>3, <2>4
<1> QED
  BY <1>2, <1>3 DEF RotateRename

\* Every step keeps the lines, and adds one at most.
LEMMA StepKept ==
  ASSUME TypeOK, FilesExist, NameInv, [Next]_vars
  PROVE  [LogKept!Write]_Written
<1>1. CASE UNCHANGED <<dir, data, replaced>>
  BY <1>1 DEF Written, Kept, Files, LinesIn
<1>2. ASSUME NEW t \in Thread, WriteLine(t)
      PROVE  [LogKept!Write]_Written
  <2>1. Kept \subseteq Kept' /\ Kept' \ Kept \subseteq {LineOf(t)} /\ replaced' = replaced
    BY <1>2, WriteKept DEF WriteLine
  <2>2. Written \subseteq Written' /\ Written' \ Written \subseteq {LineOf(t)}
    BY <2>1 DEF Written
  <2>3. CASE Written' \ Written = {}
    BY <2>2, <2>3
  <2>4. CASE Written' \ Written # {}
    <3>1. \E line \in Written' : Written' \ Written = {line}
      BY <2>2, <2>4
    <3> QED
      BY <2>2, <3>1 DEF LogKept!Write, Written
  <2> QED
    BY <2>3, <2>4
<1>3. ASSUME NEW t \in Thread, RotateRename(t)
      PROVE  [LogKept!Write]_Written
  BY <1>3, RenameKept
<1>4. CASE OpenBase /\ replaced' = replaced
  <2>1. Kept' = Kept
    BY <1>4, MakeKept, TypeParts DEF OpenBase
  <2> QED
    BY <1>4, <2>1 DEF Written
<1> QED
  BY <1>1, <1>2, <1>3, <1>4, FileSteps

\* In a logger that locks no line is ever lost, whichever calls fail, however
\* the threads, reload() and the rest of the program interleave, and however
\* often the process ends and is started again: but for the lines of a file that
\* a third rotation within a second replaces, because both its names are taken.
\* (Without the lock two threads may find the same name free, and the second
\* rename() replaces the file of the first.)
THEOREM NoLineLost ==
  ASSUME EnableLock
  PROVE  Spec => LinesKept
<1>1. Init => LogKept!Init
  <2> SUFFICES ASSUME Init PROVE LogKept!Init
    OBVIOUS
  <2>1. replaced = {} /\ \A n \in Name : dir[n] = Null
    BY DEF Init, FilesInit
  <2>2. ASSUME NEW x PROVE x \notin Kept
    BY <2>1, KeptMember
  <2> QED
    BY <2>1, <2>2 DEF LogKept!Init
<1>2. TypeOK /\ FilesExist /\ LockInv /\ [Next]_vars => [LogKept!Write]_Written
  BY StepKept DEF LockInv
<1>3. (Kept \cup replaced) = Written
  BY DEF Written
<1> QED
  BY <1>1, <1>2, TypedAlways, LockInvAlways, PTL DEF Spec, LinesKept, LogKept!Spec, Written

-----------------------------------------------------------------------------
(* The periods stay apart.                                                 *)

\* A logger that is set up once, always rotates by something, can rename, and
\* takes turns.
Steady ==
  /\ EnableLock /\ MaxRuns <= 1 /\ "rename" \notin Faults
  /\ RotateSize > 0 \/ (IsHourly(Asked) /\ "none" \notin Reloads)
  /\ WholeHours

\* Until it is set up it has no file; then it has one and a descriptor of it, or
\* neither, and something to rotate by.
OnceInv ==
  /\ fds[Stdout] = Other
  /\ runs = 0 => phase = "new" /\ ~named /\ dir[Base] = Null
  /\ phase = "ready" => (named => fd # Stdout) /\ (~named \/ fd = Null => dir[Base] = Null)
  /\ phase = "ready" => RotateSize > 0 \/ period # "none"

\* The lines of each file are of one period.  Between two turns _prev is the
\* time of the last line; in the turn of a thread that is about to write it is
\* the time of its line, which goes with the last one.
PeriodInv ==
  /\ FilesExist /\ PeriodFiles
  /\ \A t \in Thread : pc[t] = "open" => dir[Base] = Null
  /\ HasLines /\ (\A t \in Thread : pc[t] # "write") => prev = LastTime
  /\ \A t \in Thread : pc[t] = "write" /\ dir[Base] # Null =>
       prev = now[t] /\ (HasLines => SamePeriod(LastTime, now[t], seen[t]))

\* Every step of a logger that is set up once keeps OnceInv.
LEMMA OnceMain ==
  ASSUME TypeOK, Steady, TurnInv, OnceInv, Main
  PROVE  OnceInv'
<1>0. /\ runs \in Nat /\ MaxRuns \in Nat /\ fds \in [Fd -> Nat \cup {Null, Other}]
      /\ fd \in Fd \cup {Null} /\ Stdout \in Fd /\ MaxRuns <= 1
  BY LoggerAssumption DEF TypeOK, Steady
<1>1. CASE InitFile
  <2>1. /\ runs < MaxRuns /\ OpenBase /\ named' = TRUE /\ period' = Shifted(Asked)
        /\ phase' = "ready" /\ runs' = runs + 1
    BY <1>1 DEF InitFile, Named
  <2>2. LowestFree \in FreeFd
    BY <2>1, LowestFreeIsFree DEF OpenBase
  <2>3. LowestFree \in Fd /\ LowestFree # Stdout /\ LowestFree # Null
    BY <1>0, <2>2, Distinct, LoggerAssumption DEF FreeFd, OnceInv
  <2>4. fd' = LowestFree /\ fds'[Stdout] = Other
    BY <1>0, <2>1, <2>3 DEF OpenBase, OnceInv
  <2>5. RotateSize > 0 \/ period' # "none"
    BY <2>1 DEF Steady, Shifted
  <2>6. runs' # 0
    BY <1>0, <2>1
  <2> QED
    BY <2>1, <2>3, <2>4, <2>5, <2>6 DEF OnceInv
<1>2. CASE InitFileFails
  <2>1. /\ runs' = runs + 1 /\ phase' = "new" /\ fds' = fds
    BY <1>2 DEF InitFileFails
  <2>2. runs' # 0
    BY <1>0, <2>1
  <2> QED
    BY <2>1, <2>2 DEF OnceInv
<1>3. CASE InitFd
  <2>1. /\ runs < MaxRuns /\ runs' = runs + 1 /\ fd' = Stdout /\ period' = Asked
        /\ UNCHANGED <<fds, named, dir>>
    BY <1>3 DEF InitFd, fvars
  <2>2. runs = 0 /\ runs' # 0
    BY <1>0, <2>1
  <2>3. RotateSize > 0 \/ period' # "none"
    BY <2>1 DEF Steady, IsHourly
  <2> QED
    BY <2>1, <2>2, <2>3 DEF OnceInv
<1>4. CASE Reload
  <2>1. UNCHANGED <<fds, fd, runs, phase, named, dir>> /\ period' \in Reloads
    BY <1>4 DEF Reload, fvars
  <2>2. RotateSize > 0 \/ period' # "none"
    BY <2>1 DEF Steady
  <2> QED
    BY <2>1, <2>2 DEF OnceInv
<1>5. CASE CloseLogger
  <2>1. phase = "ready" /\ phase' = "new" /\ runs' = runs
    BY <1>5 DEF CloseLogger
  <2>2. fds' = fds \/ (fd \in Fd /\ fd # Stdout /\ fds' = [fds EXCEPT ![fd] = Null])
    BY <1>0, <1>5, <2>1 DEF CloseLogger, OnceInv
  <2>3. fds'[Stdout] = Other /\ runs # 0
    BY <1>0, <2>1, <2>2 DEF OnceInv
  <2> QED
    BY <2>1, <2>3 DEF OnceInv
<1> QED
  BY <1>1, <1>2, <1>3, <1>4, <1>5 DEF Main

\* The threads and the rest of the world keep it too.
LEMMA OnceKept ==
  ASSUME TypeOK, Steady, TurnInv, RotatingInv, FilesExist, OnceInv,
         \A t \in Thread : pc[t] = "open" => dir[Base] = Null, [Next]_vars
  PROVE  OnceInv'
<1>0. /\ fds \in [Fd -> Nat \cup {Null, Other}] /\ fd \in Fd \cup {Null}
      /\ Stdout \in Fd /\ pc \in [Thread -> PC] /\ runs \in Nat /\ MaxRuns \in Nat
  BY LoggerAssumption DEF TypeOK
<1>1. CASE \E t \in Thread : Call(t) \/ Step(t)
  <2>1. PICK t \in Thread : Call(t) \/ Step(t)
    BY <1>1
  <2>2. CASE \/ Call(t) \/ Lock(t) \/ StartRotate(t) \/ KeepFile(t)
             \/ RotateStat(t) \/ WriteLine(t) \/ Unlock(t)
    <3>1. UNCHANGED <<fds, fd, runs, phase, named, dir, period>>
      BY <2>2 DEF Call, Lock, StartRotate, KeepFile, RotateStat, WriteLine, Unlock,
                  fvars, cvars
    <3> QED
      BY <3>1 DEF OnceInv
  <2>3. ASSUME pc[t] \in {"close", "rename", "open"}
        PROVE  phase = "ready" /\ named
    <3>1. pc[t] \in Inside
      BY <2>3 DEF Inside
    <3> QED
      BY <2>3, <3>1, Alone DEF RotatingInv
  <2>4. CASE RotateClose(t)
    <3>1. /\ UNCHANGED <<fd, runs, phase, named, dir, period>> /\ pc[t] = "close"
          /\ fds' = IF fd = Null THEN fds ELSE [fds EXCEPT ![fd] = Null]
      BY <2>4 DEF RotateClose, fvars
    <3>2. fd # Stdout
      BY <2>3, <3>1 DEF OnceInv
    <3>3. fds'[Stdout] = Other
      BY <1>0, <3>1, <3>2 DEF OnceInv
    <3> QED
      BY <3>1, <3>3 DEF OnceInv
  <2>5. CASE RotateRename(t)
    <3>1. UNCHANGED <<fds, fd, runs, phase, named, period>>
      BY <2>5 DEF RotateRename, cvars
    <3>2. dir[Base] = Null => dir'[Base] = Null
      BY <2>5 DEF RotateRename
    <3> QED
      BY <3>1, <3>2 DEF OnceInv
  <2>6. CASE RotateOpen(t)
    <3>1. UNCHANGED <<runs, phase, named, period>> /\ pc[t] = "open" /\ OpenBase
      BY <2>6 DEF RotateOpen
    <3>2. LowestFree \in FreeFd
      BY <3>1, LowestFreeIsFree DEF OpenBase
    <3>3. LowestFree \in Fd /\ LowestFree # Stdout /\ LowestFree # Null
      BY <1>0, <3>2, Distinct, LoggerAssumption DEF FreeFd, OnceInv
    <3>4. fd' = LowestFree /\ fds'[Stdout] = Other
      BY <1>0, <3>1, <3>3 DEF OpenBase, OnceInv
    <3>5. phase = "ready" /\ named
      BY <2>3, <3>1
    <3> QED
      BY <3>1, <3>3, <3>4, <3>5 DEF OnceInv
  <2>7. CASE RotateOpenFails(t)
    <3>1. /\ UNCHANGED <<fds, runs, phase, named, period, dir>> /\ pc[t] = "open"
          /\ fd' = Null
      BY <2>7 DEF RotateOpenFails, fvars
    <3>2. dir[Base] = Null /\ Null # Stdout
      BY <3>1, Distinct, LoggerAssumption
    <3> QED
      BY <3>1, <3>2 DEF OnceInv
  <2> QED
    BY <2>1, <2>2, <2>4, <2>5, <2>6, <2>7 DEF Step
<1>2. CASE Tick \/ UNCHANGED vars
  <2>1. UNCHANGED <<fds, fd, runs, phase, named, dir, period>>
    BY <1>2 DEF Tick, vars, fvars, cvars
  <2> QED
    BY <2>1 DEF OnceInv
<1>3. CASE Elsewhere
  <2>1. UNCHANGED <<fd, runs, phase, named, dir, period>>
    BY <1>3 DEF Elsewhere, fvars
  <2>2. PICK n \in Fd \ {Stdout}, v \in {Null, Other} : fds' = [fds EXCEPT ![n] = v]
    <3>1. CASE FreeFd # {} /\ fds' = [fds EXCEPT ![LowestFree] = Other]
      BY <3>1, LowestFreeIsFree, Distinct, LoggerAssumption DEF FreeFd, OnceInv
    <3>2. CASE \E n \in Fd \ {Stdout} : fds[n] = Other /\ fds' = [fds EXCEPT ![n] = Null]
      BY <3>2
    <3> QED
      BY <1>3, <3>1, <3>2 DEF Elsewhere
  <2>3. fds'[Stdout] = Other
    BY <1>0, <2>2 DEF OnceInv
  <2> QED
    BY <2>1, <2>3 DEF OnceInv
<1>4. ~Restart
  <2> SUFFICES ASSUME runs < MaxRuns, phase = "ready" PROVE FALSE
    BY DEF Restart
  <2>1. runs = 0
    BY <1>0 DEF Steady
  <2> QED
    BY <2>1 DEF OnceInv
<1> QED
  BY <1>1, <1>2, <1>3, <1>4, OnceMain DEF Next

\* Neither the files nor _prev change, and nobody comes to or leaves write().
LEMMA PeriodQuiet ==
  ASSUME PeriodInv, UNCHANGED <<dir, data, prev>>,
         \A t \in Thread :
           /\ pc'[t] = "write" <=> pc[t] = "write"
           /\ pc'[t] = "open" => pc[t] = "open"
           /\ pc[t] = "write" => UNCHANGED <<now[t], seen[t]>>
  PROVE  PeriodInv'
<1>1. FilesExist' /\ PeriodFiles'
  BY DEF PeriodInv, FilesExist, PeriodFiles, OneIn
<1>2. (HasLines' <=> HasLines) /\ LastTime' = LastTime
  BY DEF HasLines, LastTime
<1>3. \A t \in Thread : pc'[t] = "open" => dir'[Base] = Null
  BY DEF PeriodInv
<1>4. HasLines' /\ (\A t \in Thread : pc'[t] # "write") => prev' = LastTime'
  BY <1>2 DEF PeriodInv
<1>5. \A t \in Thread : pc'[t] = "write" /\ dir'[Base] # Null =>
        prev' = now'[t] /\ (HasLines' => SamePeriod(LastTime', now'[t], seen'[t]))
  BY <1>2 DEF PeriodInv
<1> QED
  BY <1>1, <1>3, <1>4, <1>5 DEF PeriodInv, SamePeriod, IsHourly, IsDaily, Hour, Day

\* A thread that keeps the file has found its time to go with that of the last
\* line, which is in _prev.
LEMMA KeepPeriod ==
  ASSUME TypeOK, Steady, TurnInv, OnceInv, PeriodInv, NEW t \in Thread, KeepFile(t)
  PROVE  PeriodInv'
<1>0. /\ pc \in [Thread -> PC] /\ seen \in [Thread -> Period] /\ now[t] \in 0 .. MaxTime
      /\ prev \in -1 .. MaxTime /\ period \in Period /\ RotateSize \in Nat
  BY LoggerAssumption DEF TypeOK
<1>1. /\ pc[t] = "check" /\ ~Rotates(t) /\ Sees(t) /\ pc' = [pc EXCEPT ![t] = "write"]
      /\ prev' = IF NeverRotates \/ dir[Base] = Null THEN prev ELSE now[t]
      /\ UNCHANGED <<dir, data, now>>
  BY DEF KeepFile, Goto, fvars
<1>2. pc[t] \in Inside
  BY <1>1 DEF Inside
<1>3. phase = "ready" /\ \A u \in Thread : u # t => pc[u] \notin Inside
  BY <1>2, Alone
<1>4. pc'[t] = "write" /\ \A u \in Thread : u # t => pc'[u] = pc[u]
  BY <1>0, <1>1
<1>5. \A u \in Thread : u # t => pc'[u] # "write" /\ pc'[u] # "open"
  BY <1>3, <1>4 DEF Inside
<1>6. \A u \in Thread : pc[u] # "write"
  BY <1>1, <1>3 DEF Inside
<1>7. FilesExist' /\ PeriodFiles'
  BY <1>1 DEF PeriodInv, FilesExist, PeriodFiles, OneIn
<1>8. (HasLines' <=> HasLines) /\ LastTime' = LastTime
  BY <1>1 DEF HasLines, LastTime
<1>9. ASSUME dir[Base] # Null
      PROVE  prev' = now[t] /\ (HasLines => SamePeriod(LastTime, now[t], seen'[t]))
  <2>1. ~NeverRotates
    BY <1>0, <1>3, <1>9 DEF NeverRotates, OnceInv
  <2>2. prev' = now[t]
    BY <1>1, <1>9, <2>1
  <2>3. seen'[t] = period
    BY <1>0, <1>1, <2>1 DEF Sees
  <2>4. ASSUME HasLines PROVE SamePeriod(LastTime, now[t], period)
    <3>1. prev = LastTime
      BY <1>6, <2>4 DEF PeriodInv
    <3>2. LastTime \in Nat
      BY <2>4, LastTimed, TypeParts DEF PeriodInv
    <3>3. ~NewPeriod(t)
      BY <1>1, <2>1 DEF Rotates
    <3>4. /\ IsHourly(period) => Hour(prev) = Hour(now[t])
          /\ period = "daily" => Day(prev) = Day(now[t])
      BY <3>1, <3>2, <3>3 DEF NewPeriod
    <3>5. now[t] \in Nat /\ WholeHours
      BY <1>0, LogFilesAssumption DEF Steady
    <3> QED
      BY <1>0, <3>1, <3>2, <3>4, <3>5, NotTold
  <2> QED
    BY <2>2, <2>3, <2>4
<1>10. \A u \in Thread : pc'[u] = "write" /\ dir'[Base] # Null =>
        prev' = now'[u] /\ (HasLines' => SamePeriod(LastTime', now'[u], seen'[u]))
  BY <1>1, <1>5, <1>8, <1>9
<1> QED
  BY <1>4, <1>5, <1>7, <1>10 DEF PeriodInv, SamePeriod, IsHourly, IsDaily, Hour, Day

\* rename() takes the name away, so that the next line is the first of a file.
LEMMA RenamePeriod ==
  ASSUME TypeOK, Steady, TurnInv, PeriodInv, NEW t \in Thread, RotateRename(t)
  PROVE  PeriodInv'
<1>0. pc \in [Thread -> PC] /\ dir \in [Name -> Nat \cup {Null}] /\ Base \in Name
  BY NamesTyped DEF TypeOK, FilesTypeOK
<1>1. pc[t] = "rename" /\ pc' = [pc EXCEPT ![t] = "open"] /\ data' = data
  BY DEF RotateRename, Goto
<1>2. pc[t] \in Inside
  BY <1>1 DEF Inside
<1>3. \A u \in Thread : pc'[u] # "write"
  BY <1>0, <1>1, <1>2, Alone DEF Inside
<1>4. dir'[Base] = Null /\ \A n \in Name : dir'[n] # Null => \E k \in Name : dir'[n] = dir[k]
  <2>1. PICK r \in Name : r = newLogFile[t]
    BY DEF TypeOK
  <2>2. CASE dir[Base] = Null
    <3>1. dir' = dir
      BY <2>2 DEF RotateRename, Steady
    <3> QED
      BY <2>2, <3>1
  <2>3. CASE dir[Base] # Null
    <3>1. dir' = [dir EXCEPT ![r] = dir[Base], ![Base] = Null]
      BY <2>1, <2>3 DEF RotateRename, Steady
    <3> QED
      BY <1>0, <2>1, <3>1
  <2> QED
    BY <2>2, <2>3
<1>5. PeriodFiles'
  BY <1>1, <1>4, MovePeriod DEF PeriodInv
<1>6. FilesExist'
  BY <1>1, <1>4 DEF PeriodInv, FilesExist
<1> QED
  BY <1>3, <1>4, <1>5, <1>6 DEF PeriodInv, HasLines

\* open() makes a new file: there is no line the next one could not go with.
LEMMA OpenPeriod ==
  ASSUME TypeOK, PeriodInv, OpenBase, dir[Base] = Null,
         \A u \in Thread : /\ pc'[u] # "open"
                           /\ pc'[u] = "write" => prev' = now'[u]
  PROVE  PeriodInv'
<1>1. FilesTypeOK /\ FilesExist /\ PeriodFiles /\ MakeBase
  BY TypeParts DEF PeriodInv, OpenBase
<1>2. FilesExist'
  BY <1>1, MakeKept
<1>3. PeriodFiles' /\ ~HasLines'
  BY <1>1, MakePeriod
<1> QED
  BY <1>2, <1>3 DEF PeriodInv

\* The line that is written goes with the one before, and _prev is its time.
LEMMA WritePeriod ==
  ASSUME TypeOK, Steady, TurnInv, FileInv, OnceInv, PeriodInv, NEW t \in Thread, WriteLine(t)
  PROVE  PeriodInv'
<1>0. /\ pc \in [Thread -> PC] /\ fd \in Fd \cup {Null} /\ LineOf(t) \in Line
      /\ FilesTypeOK
  BY LineTyped, TypeParts DEF TypeOK
<1>1. /\ pc[t] = "write" /\ pc' = [pc EXCEPT ![t] = "unlock"]
      /\ UNCHANGED <<dir, prev>>
  BY DEF WriteLine, Goto, cvars
<1>2. pc[t] \in Inside
  BY <1>1 DEF Inside
<1>3. phase = "ready" /\ \A u \in Thread : u # t => pc[u] \notin Inside
  BY <1>2, Alone
<1>4. \A u \in Thread : pc'[u] # "write" /\ pc'[u] # "open"
  BY <1>0, <1>1, <1>3 DEF Inside
<1>5. FilesExist'
  BY <1>1, WriteKept DEF PeriodInv
<1>6. CASE dir[Base] = Null
  <2>1. data' = data
    BY <1>0, <1>6 DEF WriteLine, FileInv
  <2> QED
    BY <1>1, <1>4, <1>5, <1>6, <2>1 DEF PeriodInv, HasLines, PeriodFiles, OneIn
<1>7. CASE dir[Base] # Null
  <2>1. ~Reopening /\ named /\ fd \notin {Null, Stdout}
    BY <1>1, <1>3, <1>7 DEF OnceInv, Reopening, Inside
  <2>2. fd \in Fd /\ fds[fd] \notin {Null, Other} /\ fds[fd] = dir[Base]
    BY <1>0, <1>3, <2>1 DEF FileInv
  <2>3. data' = [data EXCEPT ![dir[Base]] = Append(data[dir[Base]], LineOf(t))]
    BY <2>1, <2>2 DEF WriteLine
  <2>4. LineOf(t).at = now[t] /\ LineOf(t).per = seen[t]
    BY DEF LineOf
  <2>5. prev = now[t] /\ (HasLines => SamePeriod(LastTime, LineOf(t).at, LineOf(t).per))
    BY <1>1, <1>7, <2>4 DEF PeriodInv
  <2>6. PICK x \in Line : x = LineOf(t)
    BY <1>0
  <2>7. PeriodFiles' /\ LastTime' = x.at
    BY <1>0, <1>1, <1>7, <2>3, <2>5, <2>6, AppendPeriod DEF PeriodInv
  <2> QED
    BY <1>1, <1>4, <1>5, <2>4, <2>5, <2>6, <2>7 DEF PeriodInv
<1> QED
  BY <1>6, <1>7

\* Every step keeps the periods apart.
LEMMA PeriodKept ==
  ASSUME TypeOK, Steady, TurnInv, FileInv, OnceInv, PeriodInv, [Next]_vars
  PROVE  PeriodInv'
<1>0. pc \in [Thread -> PC] /\ runs \in Nat /\ MaxRuns \in Nat
  BY LoggerAssumption DEF TypeOK
<1>1. CASE \E t \in Thread : Call(t) \/ Step(t)
  <2>1. PICK t \in Thread : Call(t) \/ Step(t)
    BY <1>1
  <2>2. CASE \/ Call(t) \/ Lock(t) \/ StartRotate(t) \/ RotateClose(t)
             \/ RotateStat(t) \/ Unlock(t)
    <3>1. UNCHANGED <<dir, data, prev>>
      BY <2>2 DEF Call, Lock, StartRotate, RotateClose, RotateStat, Unlock, fvars, cvars
    <3>2. PICK to \in {"lock", "check", "close", "stat", "rename", "idle"} : Goto(t, to)
      BY <2>2 DEF Call, Lock, StartRotate, RotateClose, RotateStat, Unlock
    <3>3. pc[t] # "write"
      BY <2>2 DEF Call, Lock, StartRotate, RotateClose, RotateStat, Unlock
    <3>4. \A u \in Thread : u # t => UNCHANGED <<now[u], seen[u]>>
      <4>1. now \in [Thread -> 0 .. MaxTime] /\ seen \in [Thread -> Period]
        BY DEF TypeOK
      <4> QED
        BY <2>2, <4>1 DEF Call, Lock, StartRotate, RotateClose, RotateStat, Unlock, Sees
    <3>5. \A u \in Thread : /\ pc'[u] = "write" <=> pc[u] = "write"
                            /\ pc'[u] = "open" => pc[u] = "open"
      BY <1>0, <3>2, <3>3 DEF Goto
    <3> QED
      BY <3>1, <3>3, <3>4, <3>5, PeriodQuiet
  <2>3. ASSUME pc[t] = "open", Goto(t, "write")
        PROVE  /\ dir[Base] = Null /\ \A u \in Thread : pc'[u] # "open"
               /\ pc'[t] = "write" /\ \A u \in Thread : u # t => pc'[u] # "write"
    <3>1. pc[t] \in Inside
      BY <2>3 DEF Inside
    <3>2. \A u \in Thread : u # t => pc[u] \notin Inside
      BY <3>1, Alone
    <3>3. dir[Base] = Null
      BY <2>3 DEF PeriodInv
    <3> QED
      BY <1>0, <2>3, <3>2, <3>3 DEF Goto, Inside
  <2>4. CASE RotateOpen(t)
    <3>1. pc[t] = "open" /\ Goto(t, "write") /\ OpenBase /\ prev' = now[t] /\ now' = now
      BY <2>4 DEF RotateOpen
    <3> QED
      BY <2>3, <3>1, OpenPeriod
  <2>5. CASE RotateOpenFails(t)
    <3>1. /\ pc[t] = "open" /\ Goto(t, "write") /\ prev' = now[t]
          /\ UNCHANGED <<dir, data, now>>
      BY <2>5 DEF RotateOpenFails, fvars
    <3>2. FilesExist' /\ PeriodFiles'
      BY <3>1 DEF PeriodInv, FilesExist, PeriodFiles, OneIn
    <3>3. dir'[Base] = Null /\ ~HasLines'
      BY <2>3, <3>1 DEF HasLines
    <3> QED
      BY <2>3, <3>1, <3>2, <3>3 DEF PeriodInv
  <2> QED
    BY <2>1, <2>2, <2>4, <2>5, KeepPeriod, RenamePeriod, WritePeriod DEF Step
<1>2. CASE Tick \/ Elsewhere \/ InitFileFails \/ InitFd \/ Reload \/ CloseLogger \/ UNCHANGED vars
  <2>1. UNCHANGED <<dir, data, prev, pc, now, seen>>
    BY <1>2 DEF Tick, Elsewhere, InitFileFails, InitFd, Reload, CloseLogger,
                vars, fvars, cvars, tvars
  <2> QED
    BY <2>1, PeriodQuiet
<1>3. CASE InitFile
  <2>1. phase = "new" /\ runs < MaxRuns /\ OpenBase /\ pc' = pc
    BY <1>3 DEF InitFile, tvars
  <2>2. dir[Base] = Null
    BY <1>0, <2>1 DEF Steady, OnceInv
  <2>3. \A t \in Thread : pc'[t] = "idle"
    BY <2>1 DEF TurnInv, AllIdle
  <2> QED
    BY <2>1, <2>2, <2>3, OpenPeriod
<1>4. ~Restart
  <2> SUFFICES ASSUME runs < MaxRuns, phase = "ready" PROVE FALSE
    BY DEF Restart
  <2>1. runs = 0
    BY <1>0 DEF Steady
  <2> QED
    BY <2>1 DEF OnceInv
<1> QED
  BY <1>1, <1>2, <1>3, <1>4 DEF Next, Main

\* The lines of a file fall in one hour or day, also when the threads get their
\* turns in another order than their times, reload() changes the period between
\* a check and a write, and open() fails: in a logger that locks, is set up
\* once, always rotates by something and whose renames succeed.  (Each of these
\* is needed: the first line of a process is not compared with the last one of
\* the process before, nor the first one after a time without rotation.)
THEOREM PeriodsKeptApart ==
  ASSUME EnableLock, MaxRuns <= 1, "rename" \notin Faults, WholeHours,
         RotateSize > 0 \/ (IsHourly(Asked) /\ "none" \notin Reloads)
  PROVE  Spec => []OnePeriod
<1>0. Steady
  BY DEF Steady
<1>1. Init => OnceInv /\ PeriodInv
  <2> SUFFICES ASSUME Init PROVE OnceInv /\ PeriodInv
    OBVIOUS
  <2>1. /\ \A n \in Name : dir[n] = Null
        /\ \A t \in Thread : pc[t] = "idle"
        /\ phase = "new" /\ ~named
    BY DEF Init, FilesInit
  <2>2. fds[Stdout] = Other
    BY LoggerAssumption DEF Init
  <2>3. dir[Base] = Null
    BY <2>1, NamesTyped
  <2> QED
    BY <2>1, <2>2, <2>3 DEF OnceInv, PeriodInv, FilesExist, PeriodFiles, HasLines
<1>2. TypeOK /\ LockInv /\ OnceInv /\ PeriodInv /\ [Next]_vars => OnceInv' /\ PeriodInv'
  <2> SUFFICES ASSUME TypeOK, LockInv, OnceInv, PeriodInv, [Next]_vars
               PROVE  OnceInv' /\ PeriodInv'
    OBVIOUS
  <2>1. TurnInv /\ RotatingInv /\ FileInv
    BY <1>0 DEF LockInv, Steady
  <2>2. PeriodInv'
    BY <1>0, <2>1, PeriodKept
  <2>3. FilesExist /\ \A t \in Thread : pc[t] = "open" => dir[Base] = Null
    BY DEF PeriodInv
  <2>4. OnceInv'
    BY <1>0, <2>1, <2>3, OnceKept
  <2> QED
    BY <2>2, <2>4
<1>3. PeriodInv => OnePeriod
  BY PeriodFilesEnough DEF PeriodInv
<1> QED
  BY <1>1, <1>2, <1>3, LockInvAlways, PTL DEF Spec
=============================================================================
