-------------------------- MODULE WinLoggerProofs ---------------------------
(***************************************************************************)
(* Proofs about cpl::Logger in a build for Windows, for any number of      *)
(* threads and handles, any sizes, periods and faults: its types; with the *)
(* lock, the one handle there is of the log; and that as long as no file   *)
(* with lines is opened at its start, a line is written behind the others, *)
(* none is written over and the periods stay apart.                        *)
(***************************************************************************)
EXTENDS WinLogger, LogFilesProofs

-----------------------------------------------------------------------------
(* Types.                                                                  *)

\* The parts of TypeOK, by who changes them.
Mark == [file : Nat, pos : Nat]
HandlesOK ==
  /\ hs \in [Handle -> Mark \cup {Null, Other}]
  /\ h \in Handle \cup {Null, Invalid}
MembersOK ==
  /\ named \in BOOLEAN
  /\ lock \in BOOLEAN
  /\ period \in Period
  /\ prev \in -1 .. MaxTime
  /\ owner \in Thread \cup {Null}
  /\ phase \in {"new", "ready"}
ThreadsOK ==
  /\ pc \in [Thread -> PC]
  /\ now \in [Thread -> 0 .. MaxTime]
  /\ newLogFile \in [Thread -> Name \ {Base}]
  /\ seen \in [Thread -> Period]
CountersOK == made \in Nat /\ runs \in Nat

Typed == FilesTypeOK /\ HandlesOK /\ MembersOK /\ ThreadsOK /\ CountersOK

\* TypeOK is that, and the type of the history variable.
LEMMA TypeParts == TypeOK <=> Typed /\ over \in BOOLEAN
BY DEF TypeOK, Typed, HandlesOK, Mark, MembersOK, ThreadsOK, CountersOK

\* Opening the log keeps the types of the files and the handles.
LEMMA OpenBaseTypes ==
  ASSUME FilesTypeOK, HandlesOK, OpenBase, clock' = clock
  PROVE  FilesTypeOK' /\ HandlesOK'
<1>1. FilesTypeOK' /\ BaseFile \in Nat
  BY MakeTypes DEF OpenBase
<1>2. PICK n \in Handle : h' = n /\ hs' = [hs EXCEPT ![n] = [file |-> BaseFile, pos |-> 0]]
  BY DEF OpenBase, FreeHandle
<1>3. [file |-> BaseFile, pos |-> 0] \in Mark
  BY <1>1 DEF Mark
<1> HIDE DEF Mark
<1>4. HandlesOK'
  BY <1>2, <1>3 DEF HandlesOK
<1> QED
  BY <1>1, <1>4

\* Logger::Logger sets what it has to.
LEMMA TypesInitially == Init => Typed
<1> SUFFICES ASSUME Init PROVE Typed
  OBVIOUS
<1>1. FilesTypeOK
  BY EmptySeq, LogFilesAssumption DEF Init, FilesInit, FilesTypeOK
<1>2. HandlesOK
  BY WinLoggerAssumption DEF Init, HandlesOK
<1>3. MembersOK
  <2>1. prev \in -1 .. MaxTime
    BY LogFilesAssumption DEF Init
  <2>2. period \in Period /\ owner \in Thread \cup {Null} /\ phase \in {"new", "ready"}
    BY DEF Init, Period
  <2>3. named \in BOOLEAN /\ lock \in BOOLEAN
    BY DEF Init
  <2> QED
    BY <2>1, <2>2, <2>3 DEF MembersOK
<1>4. ThreadsOK
  BY LogFilesAssumption, NamesTyped DEF Init, ThreadsOK, Period, PC
<1>5. CountersOK
  BY DEF Init, CountersOK
<1> QED
  BY <1>1, <1>2, <1>3, <1>4, <1>5 DEF Typed

\* CloseHandle keeps the types of the handles.
LEMMA CloseTypes ==
  ASSUME HandlesOK, CloseHandle(h), h' \in {h, Null}
  PROVE  HandlesOK'
BY DEF CloseHandle, HandlesOK

\* What the main thread does keeps the types.
LEMMA MainTypes ==
  ASSUME Typed, Main
  PROVE  Typed'
<1> USE DEF Typed
<1>1. CASE InitFile
  <2>1. FilesTypeOK' /\ HandlesOK'
    BY <1>1, OpenBaseTypes DEF InitFile
  <2>2. MembersOK'
    BY <1>1, WinLoggerAssumption DEF InitFile, Named, MembersOK
  <2>3. ThreadsOK'
    BY <1>1 DEF InitFile, tvars, ThreadsOK
  <2>4. CountersOK'
    <3>1. runs' = runs + 1 /\ made' = made
      BY <1>1 DEF InitFile, tvars
    <3> QED
      BY <3>1 DEF CountersOK
  <2> QED
    BY <2>1, <2>2, <2>3, <2>4 DEF Typed
<1>2. CASE InitFileFails
  <2>1. FilesTypeOK' /\ HandlesOK'
    BY <1>2 DEF InitFileFails, fvars, FilesTypeOK, HandlesOK
  <2>2. MembersOK'
    BY <1>2 DEF InitFileFails, Named, MembersOK
  <2>3. ThreadsOK'
    BY <1>2 DEF InitFileFails, tvars, ThreadsOK
  <2>4. CountersOK'
    BY <1>2 DEF InitFileFails, tvars, CountersOK
  <2> QED
    BY <2>1, <2>2, <2>3, <2>4 DEF Typed
<1>3. CASE Reload
  <2>1. FilesTypeOK' /\ HandlesOK'
    BY <1>3 DEF Reload, fvars, FilesTypeOK, HandlesOK
  <2>2. MembersOK'
    BY <1>3, WinLoggerAssumption DEF Reload, MembersOK
  <2>3. ThreadsOK'
    BY <1>3 DEF Reload, tvars, ThreadsOK
  <2>4. CountersOK'
    BY <1>3 DEF Reload, tvars, CountersOK
  <2> QED
    BY <2>1, <2>2, <2>3, <2>4 DEF Typed
<1>4. CASE CloseLogger
  <2>1. FilesTypeOK'
    BY <1>4 DEF CloseLogger, fvars, FilesTypeOK
  <2>2. HandlesOK'
    <3>1. CASE UNCHANGED <<hs, h>>
      BY <3>1 DEF HandlesOK
    <3>2. CASE CloseHandle(h) /\ h' = Null
      BY <3>2, CloseTypes
    <3> QED
      BY <1>4, <3>1, <3>2 DEF CloseLogger
  <2>3. MembersOK'
    BY <1>4 DEF CloseLogger, MembersOK
  <2>4. ThreadsOK'
    BY <1>4 DEF CloseLogger, tvars, ThreadsOK
  <2>5. CountersOK'
    BY <1>4 DEF CloseLogger, tvars, CountersOK
  <2> QED
    BY <2>1, <2>2, <2>3, <2>4, <2>5 DEF Typed
<1> QED
  BY <1>1, <1>2, <1>3, <1>4 DEF Main

\* A line is a line.
LEMMA LineTyped ==
  ASSUME ThreadsOK, CountersOK, NEW t \in Thread
  PROVE  LineOf(t) \in Line
BY LogFilesAssumption DEF LineOf, Line, ThreadsOK, CountersOK

\* A sequence stays one when a line is put into it.
LEMMA PutTyped ==
  ASSUME NEW s \in Seq(Line), NEW p \in Nat, NEW x \in Line
  PROVE  Put(s, p, x) \in Seq(Line)
<1>1. CASE p < Len(s)
  <2>1. Len(s) \in Nat /\ s \in [1 .. Len(s) -> Line]
    BY LenProperties
  <2>2. [s EXCEPT ![p + 1] = x] \in [1 .. Len(s) -> Line]
    BY <2>1
  <2>3. [s EXCEPT ![p + 1] = x] = [i \in 1 .. Len(s) |-> [s EXCEPT ![p + 1] = x][i]]
    BY <2>2
  <2>4. [s EXCEPT ![p + 1] = x] \in Seq(Line)
    BY <2>1, <2>2, <2>3, IsASeq
  <2> QED
    BY <1>1, <2>4 DEF Put
<1>2. CASE ~(p < Len(s))
  BY <1>2, AppendProperties DEF Put
<1> QED
  BY <1>1, <1>2

\* A handle of the log has a file and a position.
LEMMA LogHandleTyped ==
  ASSUME HandlesOK, NEW n \in LogHandles
  PROVE  n \in Handle /\ hs[n] \in Mark /\ hs[n].file \in Nat /\ hs[n].pos \in Nat
BY DEF HandlesOK, LogHandles, Mark

\* WriteFile keeps the types of the files and the handles.
LEMMA WriteTypes ==
  ASSUME Typed, NEW t \in Thread, WriteLine(t)
  PROVE  FilesTypeOK' /\ HandlesOK'
<1>1. data \in Seq(Seq(Line)) /\ LineOf(t) \in Line /\ HandlesOK
  BY LineTyped DEF Typed, FilesTypeOK
<1>2. CASE h \notin LogHandles
  <2>1. UNCHANGED <<clock, dir, data, h, hs>>
    BY <1>2 DEF WriteLine
  <2> QED
    BY <2>1 DEF Typed, FilesTypeOK, HandlesOK
<1>3. CASE h \in LogHandles
  <2> DEFINE f == hs[h].file
             p == hs[h].pos
             x == LineOf(t)
             n == Len(data)
             new == [i \in 1 .. n |-> IF i = f THEN Put(data[i], p, x) ELSE data[i]]
  <2>1. h \in Handle /\ hs[h] \in Mark /\ f \in Nat /\ p \in Nat
    BY <1>1, <1>3, LogHandleTyped
  <2>2. data' = [data EXCEPT ![f] = Put(data[f], p, x)] /\ hs' = [hs EXCEPT ![h].pos = p + 1]
    BY <1>3 DEF WriteLine
  <2> HIDE DEF p, x, f
  <2>3. n \in Nat /\ DOMAIN data = 1 .. n /\ data \in [1 .. n -> Seq(Line)]
    BY <1>1, LenProperties
  <2>4. data' = new
    BY <2>2, <2>3
  <2>5. \A i \in 1 .. n : data[i] \in Seq(Line)
    BY <2>3
  <2>6. \A i \in 1 .. n : Put(data[i], p, x) \in Seq(Line)
    BY <1>1, <2>1, <2>5, PutTyped DEF x
  <2>7. \A i \in 1 .. n : (IF i = f THEN Put(data[i], p, x) ELSE data[i]) \in Seq(Line)
    BY <2>5, <2>6
  <2>8. data' \in Seq(Seq(Line))
    BY <2>3, <2>4, <2>7, IsASeq
  <2>9. [hs[h] EXCEPT !.pos = p + 1] \in Mark
    BY <2>1 DEF Mark
  <2>10. hs' = [hs EXCEPT ![h] = [hs[h] EXCEPT !.pos = p + 1]]
    BY <1>1, <2>1, <2>2 DEF HandlesOK
  <2>11. HandlesOK'
    <3>1. h' = h
      BY DEF WriteLine
    <3> QED
      BY <1>1, <2>1, <2>9, <2>10, <3>1 DEF HandlesOK
  <2>12. UNCHANGED <<clock, dir>>
    BY DEF WriteLine
  <2> QED
    BY <2>8, <2>11, <2>12 DEF Typed, FilesTypeOK
<1> QED
  BY <1>2, <1>3

\* What a thread does in log() keeps the types.
LEMMA StepTypes ==
  ASSUME Typed, NEW t \in Thread, Call(t) \/ Step(t)
  PROVE  Typed'
<1> USE DEF Typed
<1>1. CASE Call(t)
  <2>1. FilesTypeOK'
    BY <1>1 DEF Call, fvars, FilesTypeOK
  <2>2. HandlesOK'
    BY <1>1 DEF Call, cvars, HandlesOK
  <2>3. MembersOK'
    BY <1>1 DEF Call, cvars, MembersOK
  <2>4. ThreadsOK'
    BY <1>1 DEF Call, Goto, ThreadsOK, PC, FilesTypeOK
  <2>5. CountersOK'
    BY <1>1 DEF Call, tvars, CountersOK
  <2> QED
    BY <2>1, <2>2, <2>3, <2>4, <2>5 DEF Typed
<1>2. CASE Lock(t)
  <2>1. FilesTypeOK'
    BY <1>2 DEF Lock, fvars, FilesTypeOK
  <2>2. HandlesOK'
    BY <1>2 DEF Lock, cvars, HandlesOK
  <2>3. MembersOK'
    BY <1>2 DEF Lock, cvars, MembersOK
  <2>4. ThreadsOK'
    BY <1>2 DEF Lock, Goto, ThreadsOK, PC
  <2>5. CountersOK'
    BY <1>2 DEF Lock, tvars, CountersOK
  <2> QED
    BY <2>1, <2>2, <2>3, <2>4, <2>5 DEF Typed
<1>3. CASE StartRotate(t)
  <2>1. FilesTypeOK'
    BY <1>3 DEF StartRotate, fvars, FilesTypeOK
  <2>2. HandlesOK'
    BY <1>3 DEF StartRotate, cvars, HandlesOK
  <2>3. MembersOK'
    BY <1>3 DEF StartRotate, cvars, MembersOK
  <2>4. ThreadsOK'
    <3>1. NewPeriod(t) => prev \in 0 .. MaxTime
      BY DEF NewPeriod, MembersOK
    <3>2. Stamped(IF NewPeriod(t) THEN prev ELSE now[t]) \in Name \ {Base}
      BY <3>1, NamesTyped DEF ThreadsOK
    <3>3. (IF NeverRotates THEN "none" ELSE period) \in Period
      BY DEF MembersOK, Period
    <3> QED
      BY <1>3, <3>2, <3>3 DEF StartRotate, Goto, Sees, ThreadsOK, PC
  <2>5. CountersOK'
    BY <1>3 DEF StartRotate, tvars, CountersOK
  <2> QED
    BY <2>1, <2>2, <2>3, <2>4, <2>5 DEF Typed
<1>4. CASE KeepFile(t)
  <2>1. FilesTypeOK'
    BY <1>4 DEF KeepFile, fvars, FilesTypeOK
  <2>2. HandlesOK'
    BY <1>4 DEF KeepFile, cvars, HandlesOK
  <2>3. MembersOK'
    BY <1>4, LogFilesAssumption DEF KeepFile, MembersOK, ThreadsOK
  <2>4. ThreadsOK'
    <3>1. (IF NeverRotates THEN "none" ELSE period) \in Period
      BY DEF MembersOK, Period
    <3> QED
      BY <1>4, <3>1 DEF KeepFile, Goto, Sees, ThreadsOK, PC
  <2>5. CountersOK'
    BY <1>4 DEF KeepFile, tvars, CountersOK
  <2> QED
    BY <2>1, <2>2, <2>3, <2>4, <2>5 DEF Typed
<1>5. CASE RotateClose(t)
  <2>1. FilesTypeOK'
    BY <1>5 DEF RotateClose, fvars, FilesTypeOK
  <2>2. HandlesOK'
    <3>1. CloseHandle(h) /\ h' = h
      BY <1>5 DEF RotateClose
    <3> QED
      BY <3>1, CloseTypes
  <2>3. MembersOK'
    BY <1>5 DEF RotateClose, cvars, MembersOK
  <2>4. ThreadsOK'
    BY <1>5 DEF RotateClose, Goto, ThreadsOK, PC
  <2>5. CountersOK'
    BY <1>5 DEF RotateClose, tvars, CountersOK
  <2> QED
    BY <2>1, <2>2, <2>3, <2>4, <2>5 DEF Typed
<1>6. CASE RotateMove(t)
  <2>1. FilesTypeOK'
    <3> DEFINE r == newLogFile[t]
    <3>1. r \in Name /\ Base \in Name
      BY NamesTyped DEF ThreadsOK
    <3>2. dir' = dir \/ dir' = [dir EXCEPT ![r] = dir[Base], ![Base] = Null]
      BY <1>6 DEF RotateMove, MoveBase
    <3> HIDE DEF r
    <3>3. UNCHANGED <<clock, data>>
      BY <1>6 DEF RotateMove
    <3> QED
      BY <3>1, <3>2, <3>3 DEF FilesTypeOK
  <2>2. HandlesOK'
    BY <1>6 DEF RotateMove, cvars, HandlesOK
  <2>3. MembersOK'
    BY <1>6 DEF RotateMove, cvars, MembersOK
  <2>4. ThreadsOK'
    BY <1>6 DEF RotateMove, Goto, ThreadsOK, PC
  <2>5. CountersOK'
    BY <1>6 DEF RotateMove, tvars, CountersOK
  <2> QED
    BY <2>1, <2>2, <2>3, <2>4, <2>5 DEF Typed
<1>7. CASE RotateOpen(t)
  <2>1. FilesTypeOK'
    BY <1>7, OpenBaseTypes DEF RotateOpen
  <2>2. HandlesOK'
    BY <1>7, OpenBaseTypes DEF RotateOpen
  <2>3. MembersOK'
    BY <1>7, LogFilesAssumption DEF RotateOpen, MembersOK, ThreadsOK
  <2>4. ThreadsOK'
    BY <1>7 DEF RotateOpen, Goto, ThreadsOK, PC
  <2>5. CountersOK'
    BY <1>7 DEF RotateOpen, tvars, CountersOK
  <2> QED
    BY <2>1, <2>2, <2>3, <2>4, <2>5 DEF Typed
<1>8. CASE RotateOpenFails(t)
  <2>1. FilesTypeOK'
    BY <1>8 DEF RotateOpenFails, fvars, FilesTypeOK
  <2>2. HandlesOK'
    BY <1>8 DEF RotateOpenFails, cvars, HandlesOK
  <2>3. MembersOK'
    BY <1>8, LogFilesAssumption DEF RotateOpenFails, MembersOK, ThreadsOK
  <2>4. ThreadsOK'
    BY <1>8 DEF RotateOpenFails, Goto, ThreadsOK, PC
  <2>5. CountersOK'
    BY <1>8 DEF RotateOpenFails, tvars, CountersOK
  <2> QED
    BY <2>1, <2>2, <2>3, <2>4, <2>5 DEF Typed
<1>9. CASE WriteLine(t)
  <2>1. FilesTypeOK'
    BY <1>9, WriteTypes
  <2>2. HandlesOK'
    BY <1>9, WriteTypes
  <2>3. MembersOK'
    BY <1>9 DEF WriteLine, cvars, MembersOK
  <2>4. ThreadsOK'
    BY <1>9 DEF WriteLine, Goto, ThreadsOK, PC
  <2>5. CountersOK'
    BY <1>9 DEF WriteLine, tvars, CountersOK
  <2> QED
    BY <2>1, <2>2, <2>3, <2>4, <2>5 DEF Typed
<1>10. CASE Unlock(t)
  <2>1. FilesTypeOK'
    BY <1>10 DEF Unlock, fvars, FilesTypeOK
  <2>2. HandlesOK'
    BY <1>10 DEF Unlock, cvars, HandlesOK
  <2>3. MembersOK'
    BY <1>10 DEF Unlock, cvars, MembersOK
  <2>4. ThreadsOK'
    <3>1. /\ 0 \in 0 .. MaxTime /\ "none" \in Period /\ "idle" \in PC
          /\ Stamped(0) \in Name \ {Base}
      BY LogFilesAssumption, NamesTyped DEF Period, PC
    <3>2. pc' \in [Thread -> PC]
      BY <1>10, <3>1 DEF Unlock, Goto, ThreadsOK
    <3>3. now' \in [Thread -> 0 .. MaxTime] /\ newLogFile' \in [Thread -> Name \ {Base}]
      BY <1>10, <3>1 DEF Unlock, ThreadsOK
    <3>4. seen' \in [Thread -> Period]
      BY <1>10, <3>1 DEF Unlock, ThreadsOK
    <3> QED
      BY <3>2, <3>3, <3>4 DEF ThreadsOK
  <2>5. CountersOK'
    BY <1>10 DEF Unlock, tvars, CountersOK
  <2> QED
    BY <2>1, <2>2, <2>3, <2>4, <2>5 DEF Typed
<1>11. CASE RotateStat(t)
  <2>1. FilesTypeOK'
    BY <1>11 DEF RotateStat, fvars, FilesTypeOK
  <2>2. HandlesOK'
    BY <1>11 DEF RotateStat, cvars, HandlesOK
  <2>3. MembersOK'
    BY <1>11 DEF RotateStat, cvars, MembersOK
  <2>4. ThreadsOK'
    <3>1. FreeName(newLogFile[t]) \in Name \ {Base}
      BY NamesTyped DEF ThreadsOK
    <3> QED
      BY <1>11, <3>1 DEF RotateStat, Goto, ThreadsOK, PC
  <2>5. CountersOK'
    BY <1>11 DEF RotateStat, CountersOK
  <2> QED
    BY <2>1, <2>2, <2>3, <2>4, <2>5 DEF Typed
<1> QED
  BY <1>1, <1>2, <1>3, <1>4, <1>5, <1>6, <1>7, <1>8, <1>9, <1>10, <1>11 DEF Step

\* The rest of the world keeps the types.
LEMMA WorldTypes ==
  ASSUME Typed, Tick \/ Elsewhere \/ Restart
  PROVE  Typed'
<1> USE DEF Typed
<1>1. CASE Tick
  <2>1. FilesTypeOK'
    BY <1>1, LogFilesAssumption DEF Tick, FilesTypeOK
  <2>2. HandlesOK' /\ MembersOK'
    BY <1>1 DEF Tick, cvars, HandlesOK, MembersOK
  <2>3. ThreadsOK'
    BY <1>1 DEF Tick, ThreadsOK
  <2>4. CountersOK'
    BY <1>1 DEF Tick, CountersOK
  <2> QED
    BY <2>1, <2>2, <2>3, <2>4 DEF Typed
<1>2. CASE Elsewhere
  <2>1. FilesTypeOK'
    BY <1>2 DEF Elsewhere, fvars, FilesTypeOK
  <2>2. HandlesOK'
    BY <1>2 DEF Elsewhere, HandlesOK
  <2>3. MembersOK'
    BY <1>2 DEF Elsewhere, MembersOK
  <2>4. ThreadsOK'
    BY <1>2 DEF Elsewhere, tvars, ThreadsOK
  <2>5. CountersOK'
    BY <1>2 DEF Elsewhere, tvars, CountersOK
  <2> QED
    BY <2>1, <2>2, <2>3, <2>4, <2>5 DEF Typed
<1>3. CASE Restart
  <2>1. FilesTypeOK'
    BY <1>3 DEF Restart, fvars, FilesTypeOK
  <2>2. HandlesOK'
    BY <1>3, WinLoggerAssumption DEF Restart, HandlesOK
  <2>3. MembersOK'
    <3>1. prev' \in -1 .. MaxTime
      BY <1>3, LogFilesAssumption DEF Restart
    <3>2. period' \in Period /\ owner' \in Thread \cup {Null} /\ phase' \in {"new", "ready"}
      BY <1>3 DEF Restart, Period
    <3>3. named' \in BOOLEAN /\ lock' \in BOOLEAN
      BY <1>3 DEF Restart
    <3> QED
      BY <3>1, <3>2, <3>3 DEF MembersOK
  <2>4. ThreadsOK'
    BY <1>3, LogFilesAssumption, NamesTyped DEF Restart, ThreadsOK, PC, Period
  <2>5. CountersOK'
    BY <1>3 DEF Restart, CountersOK
  <2> QED
    BY <2>1, <2>2, <2>3, <2>4, <2>5 DEF Typed
<1> QED
  BY <1>1, <1>2, <1>3

\* Every step keeps the types.
LEMMA TypesKept ==
  ASSUME TypeOK, [Next]_vars
  PROVE  TypeOK'
<1>1. Typed'
  <2>1. CASE UNCHANGED vars
    BY <2>1, TypeParts DEF vars, fvars, cvars, tvars, Typed, FilesTypeOK, HandlesOK,
                           MembersOK, ThreadsOK, CountersOK
  <2> QED
    BY <2>1, MainTypes, StepTypes, WorldTypes, TypeParts DEF Next
<1>2. over' \in BOOLEAN
  <2>1. \/ over' = over
        \/ over' = TRUE
        \/ over' = (over \/ dir[Base] # Null)
        \/ \E t \in Thread : over' = (over \/ Crowded(newLogFile[t]))
    BY DEF Next, Main, InitFile, InitFileFails, Reload, CloseLogger,
           Call, Step, Lock, StartRotate, KeepFile, RotateClose, RotateStat, RotateMove, RotateOpen,
           RotateOpenFails, WriteLine, Unlock, Tick, Elsewhere, Restart, vars
  <2> QED
    BY <2>1, TypeParts DEF Crowded
<1> QED
  BY <1>1, <1>2 DEF TypeOK, Typed, HandlesOK, Mark, MembersOK, ThreadsOK, CountersOK

\* The logger's variables always have their types, whatever fails.
THEOREM WinLoggerTyping == Spec => []TypeOK
<1>1. Init => TypeOK
  <2>1. Init => over \in BOOLEAN
    BY DEF Init
  <2> QED
    BY <2>1, TypesInitially, TypeParts
<1>2. TypeOK /\ [Next]_vars => TypeOK'
  BY TypesKept
<1> QED
  BY <1>1, <1>2, PTL DEF Spec

-----------------------------------------------------------------------------
(* With the lock: one thread at a time is past it.                         *)

\* Past the lock, and between the CloseHandle and the CreateFile of a rotation.
Inside == {"check", "close", "stat", "move", "open", "write", "unlock"}
Reopening == \E t \in Thread : pc[t] \in {"stat", "move", "open"}

\* A logger that is used is locked, and only the owner of _cs is past it.
TurnInv ==
  /\ phase = "new" => AllIdle
  /\ phase = "ready" => lock
  /\ \A t \in Thread : pc[t] \in Inside <=> owner = t

\* Null is no thread.
LEMMA NoThread == Null \notin Thread
BY LogFilesAssumption

\* The owner of the critical section is alone past it, in a logger that is in use.
LEMMA Alone ==
  ASSUME TypeOK, TurnInv, NEW t \in Thread, pc[t] \in Inside
  PROVE  /\ owner = t /\ lock /\ phase = "ready"
         /\ \A u \in Thread : u # t => pc[u] \notin Inside
<1>1. owner = t /\ \A u \in Thread : u # t => pc[u] \notin Inside
  BY DEF TurnInv
<1>2. phase = "ready"
  BY DEF TurnInv, AllIdle, Inside, TypeOK
<1> QED
  BY <1>1, <1>2 DEF TurnInv

-----------------------------------------------------------------------------
(* Turns.                                                                  *)

\* A step past the lock leaves the owner its turn.
LEMMA InsideTurn ==
  ASSUME TypeOK, TurnInv, NEW t \in Thread, pc[t] \in Inside,
         NEW to \in Inside, Goto(t, to), UNCHANGED <<phase, lock, owner>>
  PROVE  TurnInv'
<1>1. pc' = [pc EXCEPT ![t] = to] /\ pc \in [Thread -> PC]
  BY DEF Goto, TypeOK
<1>2. phase' = "ready" /\ lock'
  BY Alone
<1>3. \A u \in Thread : pc'[u] \in Inside <=> owner' = u
  BY <1>1 DEF TurnInv
<1> QED
  BY <1>2, <1>3 DEF TurnInv

\* Call, Lock and Unlock hand the turn over.
LEMMA HandOver ==
  ASSUME TypeOK, TurnInv, NEW t \in Thread, Call(t) \/ Lock(t) \/ Unlock(t)
  PROVE  TurnInv'
<1>0. pc \in [Thread -> PC] /\ phase \in {"new", "ready"}
  BY DEF TypeOK
<1>1. CASE Call(t)
  <2>1. phase' = "ready" /\ lock' /\ owner' = owner
    BY <1>1 DEF Call, cvars, TurnInv
  <2>2. pc' = [pc EXCEPT ![t] = "lock"] /\ pc[t] = "idle"
    BY <1>1 DEF Call, Goto
  <2>3. \A u \in Thread : pc'[u] \in Inside <=> owner' = u
    BY <1>0, <2>1, <2>2 DEF TurnInv, Inside
  <2> QED
    BY <2>1, <2>3 DEF TurnInv
<1>2. CASE Lock(t)
  <2>1. pc[t] = "lock" /\ pc' = [pc EXCEPT ![t] = "check"]
    BY <1>2 DEF Lock, Goto
  <2>2. phase = "ready" /\ lock
    BY <1>0, <2>1 DEF TurnInv, AllIdle
  <2>3. owner = Null /\ owner' = t /\ phase' = "ready" /\ lock'
    BY <1>2, <2>2 DEF Lock
  <2>4. \A u \in Thread : pc[u] \notin Inside
    BY <2>3, NoThread DEF TurnInv
  <2>5. \A u \in Thread : pc'[u] \in Inside <=> owner' = u
    BY <1>0, <2>1, <2>3, <2>4 DEF Inside
  <2> QED
    BY <2>3, <2>5 DEF TurnInv
<1>3. CASE Unlock(t)
  <2>1. pc[t] = "unlock" /\ pc[t] \in Inside /\ pc' = [pc EXCEPT ![t] = "idle"]
    BY <1>3 DEF Unlock, Goto, Inside
  <2>2. lock /\ phase = "ready" /\ \A u \in Thread : u # t => pc[u] \notin Inside
    BY <2>1, Alone
  <2>3. owner' = Null /\ phase' = "ready" /\ lock'
    BY <1>3, <2>2 DEF Unlock
  <2>4. \A u \in Thread : pc'[u] \notin Inside
    BY <1>0, <2>1, <2>2 DEF Inside
  <2> QED
    BY <2>3, <2>4, NoThread DEF TurnInv
<1> QED
  BY <1>1, <1>2, <1>3

\* Every step keeps the turns.
LEMMA TurnKept ==
  ASSUME TypeOK, EnableLock, TurnInv, Next
  PROVE  TurnInv'
<1>1. CASE Main
  <2>1. pc' = pc /\ owner' = owner
    BY <1>1 DEF Main, InitFile, InitFileFails, Reload, CloseLogger, tvars
  <2>2. phase' = "new" => AllIdle
    BY <1>1 DEF Main, InitFile, InitFileFails, Reload, CloseLogger, TurnInv
  <2>3. phase' = "ready" => lock'
    BY <1>1 DEF Main, InitFile, InitFileFails, Reload, CloseLogger, TurnInv
  <2> QED
    BY <2>1, <2>2, <2>3 DEF TurnInv, AllIdle
<1>2. CASE \E t \in Thread : Call(t) \/ Step(t)
  <2>1. PICK t \in Thread : Call(t) \/ Step(t)
    BY <1>2
  <2>2. CASE Call(t) \/ Lock(t) \/ Unlock(t)
    BY <2>2, HandOver
  <2>3. CASE \/ StartRotate(t) \/ KeepFile(t) \/ RotateClose(t) \/ RotateStat(t) \/ RotateMove(t)
             \/ RotateOpen(t) \/ RotateOpenFails(t) \/ WriteLine(t)
    <3>1. UNCHANGED <<phase, lock, owner>>
      BY <2>3 DEF StartRotate, KeepFile, RotateClose, RotateStat, RotateMove, RotateOpen,
                  RotateOpenFails, WriteLine, cvars
    <3>2. pc[t] \in Inside /\ \E to \in Inside : Goto(t, to)
      BY <2>3 DEF StartRotate, KeepFile, RotateClose, RotateStat, RotateMove, RotateOpen,
                  RotateOpenFails, WriteLine, Inside
    <3> QED
      BY <3>1, <3>2, InsideTurn
  <2> QED
    BY <2>1, <2>2, <2>3 DEF Step
<1>3. CASE Tick \/ Elsewhere
  BY <1>3 DEF Tick, Elsewhere, cvars, tvars, TurnInv, AllIdle
<1>4. CASE Restart
  <2>1. \A t \in Thread : pc'[t] = "idle" /\ owner' # t
    BY <1>4, NoThread DEF Restart
  <2>2. phase' = "new"
    BY <1>4 DEF Restart
  <2> QED
    BY <2>1, <2>2 DEF TurnInv, AllIdle, Inside
<1> QED
  BY <1>1, <1>2, <1>3, <1>4 DEF Next

-----------------------------------------------------------------------------
(* The handle.                                                             *)

\* The only handle of the log is _hFile, and it stands for the file that is
\* called _logFile; there is none while that file is changed.
HandleInv ==
  /\ FilesExist
  /\ phase = "new" \/ Reopening => LogHandles = {}
  /\ \A n \in LogHandles : n = h /\ hs[n].file = dir[Base]
  /\ phase = "ready" => named

\* The handles of the log that a handle's value makes it one of.
LEMMA LogHandle ==
  ASSUME HandlesOK
  PROVE  \A n \in Handle : n \in LogHandles <=> hs[n] \in Mark
<1>1. Null \notin Mark /\ Other \notin Mark
  BY WinLoggerAssumption DEF Mark
<1> QED
  BY <1>1 DEF HandlesOK, LogHandles

\* The same of the next state.
LEMMA LogHandleNext ==
  ASSUME HandlesOK'
  PROVE  \A n \in Handle : n \in LogHandles' <=> hs'[n] \in Mark
<1>1. Null \notin Mark /\ Other \notin Mark
  BY WinLoggerAssumption DEF Mark
<1> QED
  BY <1>1 DEF HandlesOK, LogHandles

\* The handles of the log are handles.
LEMMA LogHandlesAre == LogHandles \subseteq Handle /\ LogHandles' \subseteq Handle
BY DEF LogHandles

\* CreateFile, when no handle of the log is open.
LEMMA OpenHandle ==
  ASSUME Typed, LogHandles = {}, OpenBase, clock' = clock
  PROVE  LogHandles' = {h'} /\ hs'[h'] = [file |-> dir'[Base], pos |-> 0]
<1>1. HandlesOK /\ HandlesOK' /\ BaseFile \in Nat /\ dir'[Base] = BaseFile
  BY OpenBaseTypes, MakeTypes DEF Typed, OpenBase
<1>2. PICK n \in Handle : h' = n /\ hs' = [hs EXCEPT ![n] = [file |-> BaseFile, pos |-> 0]]
  BY DEF OpenBase, FreeHandle
<1>3. [file |-> BaseFile, pos |-> 0] \in Mark
  BY <1>1 DEF Mark
<1>4. hs'[n] = [file |-> BaseFile, pos |-> 0] /\ \A k \in Handle : k # n => hs'[k] = hs[k]
  BY <1>1, <1>2 DEF HandlesOK
<1> HIDE DEF Mark
<1>5. \A k \in Handle : k \in LogHandles' <=> k = n
  BY <1>1, <1>3, <1>4, LogHandle, LogHandleNext
<1>6. LogHandles' = {n}
  BY <1>5, LogHandlesAre
<1> QED
  BY <1>1, <1>2, <1>4, <1>6

\* CloseHandle(_hFile) leaves no handle of the log.
LEMMA CloseLast ==
  ASSUME HandlesOK, \A n \in LogHandles : n = h, CloseHandle(h)
  PROVE  LogHandles' = {}
<1>1. CASE h \in Handle
  <2>1. hs' = [hs EXCEPT ![h] = Null]
    BY <1>1 DEF CloseHandle
  <2>2. \A n \in Handle : hs'[n] = IF n = h THEN Null ELSE hs[n]
    BY <2>1 DEF HandlesOK
  <2> QED
    BY <2>2 DEF LogHandles
<1>2. CASE h \notin Handle
  BY <1>2 DEF CloseHandle, LogHandles
<1> QED
  BY <1>1, <1>2

\* WriteFile moves the position of _hFile, if it is a handle of the log.
LEMMA WriteHandle ==
  ASSUME Typed, NEW t \in Thread, WriteLine(t)
  PROVE  /\ LogHandles' = LogHandles /\ h' = h
         /\ \A n \in LogHandles :
              hs'[n] = IF n = h THEN [hs[n] EXCEPT !.pos = @ + 1] ELSE hs[n]
<1>1. HandlesOK /\ HandlesOK' /\ h' = h
  BY WriteTypes DEF Typed, WriteLine
<1>2. CASE h \notin LogHandles
  <2>1. hs' = hs
    BY <1>2 DEF WriteLine
  <2> QED
    BY <1>1, <1>2, <2>1 DEF LogHandles
<1>3. CASE h \in LogHandles
  <2>1. h \in Handle /\ hs[h] \in Mark /\ hs[h].pos \in Nat
    BY <1>1, <1>3, LogHandleTyped
  <2>2. hs' = [hs EXCEPT ![h] = [hs[h] EXCEPT !.pos = @ + 1]]
    BY <1>1, <1>3, <2>1 DEF WriteLine, HandlesOK
  <2>3. [hs[h] EXCEPT !.pos = @ + 1] \in Mark
    BY <2>1 DEF Mark
  <2>4. \A n \in Handle : hs'[n] = IF n = h THEN [hs[n] EXCEPT !.pos = @ + 1] ELSE hs[n]
    BY <1>1, <2>2 DEF HandlesOK
  <2> HIDE DEF Mark
  <2>5. \A n \in Handle : n \in LogHandles' <=> n \in LogHandles
    BY <1>1, <2>1, <2>3, <2>4, LogHandle, LogHandleNext
  <2>6. LogHandles' = LogHandles
    BY <2>5, LogHandlesAre
  <2> QED
    BY <1>1, <2>4, <2>6, LogHandlesAre
<1> QED
  BY <1>2, <1>3

\* The rest of the program has no handle of the log.
LEMMA ElsewhereHandle ==
  ASSUME HandlesOK, Elsewhere
  PROVE  LogHandles' = LogHandles /\ \A n \in LogHandles : hs'[n] = hs[n]
<1>1. PICK k \in Handle : \/ hs[k] = Null /\ hs' = [hs EXCEPT ![k] = Other]
                          \/ hs[k] = Other /\ hs' = [hs EXCEPT ![k] = Null]
  BY DEF Elsewhere
<1>2. /\ k \notin LogHandles /\ hs'[k] \in {Null, Other}
      /\ \A n \in Handle : n # k => hs'[n] = hs[n]
  BY <1>1 DEF HandlesOK, LogHandles
<1> QED
  BY <1>2 DEF LogHandles

\* MoveFile takes the name of the log away, or does nothing.
LEMMA MoveEffect ==
  ASSUME Typed, NEW t \in Thread, RotateMove(t)
  PROVE  /\ dir' = dir \/ dir'[Base] = Null
         /\ \A n \in Name : dir'[n] # Null => \E k \in Name : dir'[n] = dir[k]
<1>0. dir \in [Name -> Nat \cup {Null}] /\ Base \in Name
  BY NamesTyped DEF Typed, FilesTypeOK
<1> DEFINE r == newLogFile[t]
<1>1. r \in Name
  BY DEF Typed, ThreadsOK
<1>2. dir' = dir \/ dir' = [dir EXCEPT ![r] = dir[Base], ![Base] = Null]
  BY DEF RotateMove, MoveBase
<1> HIDE DEF r
<1> QED
  BY <1>0, <1>1, <1>2

\* A step that touches neither the handles nor the names, and neither begins
\* nor ends the gap of a rotation.
LEMMA HandleQuiet ==
  ASSUME HandleInv, UNCHANGED <<hs, h, dir, data, named, phase>>,
         Reopening' <=> Reopening
  PROVE  HandleInv'
<1>1. LogHandles' = LogHandles
  BY DEF LogHandles
<1>2. FilesExist'
  BY DEF HandleInv, FilesExist
<1> QED
  BY <1>1, <1>2 DEF HandleInv

\* What the main thread does keeps the handle.
LEMMA MainHandle ==
  ASSUME Typed, TurnInv, HandleInv, Main
  PROVE  HandleInv'
<1>0. pc' = pc
  BY DEF Main, InitFile, InitFileFails, Reload, CloseLogger, tvars
<1>1. Reopening' <=> Reopening
  BY <1>0 DEF Reopening
<1>2. AllIdle => ~Reopening
  BY DEF AllIdle, Reopening
<1>3. CASE InitFile
  <2>1. phase = "new" /\ OpenBase /\ named' = TRUE /\ clock' = clock /\ phase' = "ready"
    BY <1>3 DEF InitFile, Named
  <2>2. LogHandles = {} /\ ~Reopening'
    BY <1>1, <1>2, <2>1 DEF HandleInv, TurnInv
  <2>3. LogHandles' = {h'} /\ hs'[h'] = [file |-> dir'[Base], pos |-> 0]
    BY <2>1, <2>2, OpenHandle
  <2>4. FilesExist'
    BY <2>1, MakeKept DEF Typed, HandleInv, OpenBase
  <2> QED
    BY <2>1, <2>2, <2>3, <2>4 DEF HandleInv
<1>4. CASE InitFileFails
  <2>1. phase = "new" /\ UNCHANGED <<hs, dir, data, phase>>
    BY <1>4 DEF InitFileFails, fvars
  <2>2. LogHandles' = {}
    BY <2>1 DEF HandleInv, LogHandles
  <2>3. FilesExist'
    BY <2>1 DEF HandleInv, FilesExist
  <2> QED
    BY <2>1, <2>2, <2>3 DEF HandleInv
<1>5. CASE Reload
  <2>1. UNCHANGED <<hs, h, dir, data, named, phase>>
    BY <1>5 DEF Reload, fvars
  <2> QED
    BY <1>1, <2>1, HandleQuiet
<1>6. CASE CloseLogger
  <2>1. phase = "ready" /\ phase' = "new" /\ UNCHANGED <<dir, data>>
    BY <1>6 DEF CloseLogger, fvars
  <2>2. LogHandles' = {}
    <3>1. CASE named /\ h # Null
      BY <1>6, <3>1, CloseLast DEF CloseLogger, HandleInv, Typed
    <3>2. CASE h = Null
      <4>1. hs' = hs /\ Null \notin Handle
        BY <1>6, <3>2, WinLoggerAssumption DEF CloseLogger
      <4> QED
        BY <3>2, <4>1 DEF HandleInv, LogHandles
    <3> QED
      BY <2>1, <3>1, <3>2 DEF HandleInv
  <2>3. FilesExist'
    BY <2>1 DEF HandleInv, FilesExist
  <2> QED
    BY <2>1, <2>2, <2>3 DEF HandleInv
<1> QED
  BY <1>3, <1>4, <1>5, <1>6 DEF Main

\* The files exist after WriteFile as before.
LEMMA WriteExist ==
  ASSUME FilesExist, NEW t \in Thread, WriteLine(t)
  PROVE  FilesExist'
<1>1. dir' = dir
  BY DEF WriteLine
<1>2. DOMAIN data' = DOMAIN data
  BY DEF WriteLine
<1> QED
  BY <1>1, <1>2 DEF FilesExist

\* What a thread does keeps it.
LEMMA StepHandle ==
  ASSUME TypeOK, TurnInv, HandleInv, NEW t \in Thread, Call(t) \/ Step(t)
  PROVE  HandleInv'
<1> Typed
  BY TypeParts
<1>0. pc \in [Thread -> PC] /\ HandlesOK
  BY DEF Typed, ThreadsOK
<1>1. CASE Call(t) \/ Lock(t) \/ StartRotate(t) \/ KeepFile(t) \/ Unlock(t)
  <2>1. UNCHANGED <<hs, h, dir, data, named, phase>>
    BY <1>1 DEF Call, Lock, StartRotate, KeepFile, Unlock, fvars, cvars
  <2>2. /\ pc[t] \notin {"stat", "move", "open"}
        /\ \E to \in PC \ {"stat", "move", "open"} : pc' = [pc EXCEPT ![t] = to]
    BY <1>1 DEF Call, Lock, StartRotate, KeepFile, Unlock, Goto, PC
  <2>3. Reopening' <=> Reopening
    BY <1>0, <2>2 DEF Reopening
  <2> QED
    BY <2>1, <2>3, HandleQuiet
<1>2. ASSUME pc[t] \in {"close", "stat", "move", "open", "write"}
      PROVE  phase = "ready" /\ \A u \in Thread : u # t => pc[u] \notin Inside
  <2>1. pc[t] \in Inside
    BY <1>2 DEF Inside
  <2> QED
    BY <2>1, Alone
<1>3. CASE RotateClose(t)
  <2>1. /\ pc[t] = "close" /\ CloseHandle(h) /\ UNCHANGED <<dir, data, named, phase>>
    BY <1>3 DEF RotateClose, fvars
  <2>2. LogHandles' = {}
    BY <1>0, <2>1, CloseLast DEF HandleInv
  <2>3. FilesExist'
    BY <2>1 DEF HandleInv, FilesExist
  <2> QED
    BY <2>1, <2>2, <2>3 DEF HandleInv
<1>8. CASE RotateStat(t)
  <2>1. UNCHANGED <<hs, h, dir, data, named, phase>>
    BY <1>8 DEF RotateStat, fvars, cvars
  <2>2. pc[t] = "stat" /\ pc' = [pc EXCEPT ![t] = "move"]
    BY <1>8 DEF RotateStat, Goto
  <2>3. Reopening' <=> Reopening
    BY <1>0, <2>2 DEF Reopening
  <2> QED
    BY <2>1, <2>3, HandleQuiet
<1>4. CASE RotateMove(t)
  <2>1. pc[t] = "move" /\ UNCHANGED <<hs, h, data, named, phase>>
    BY <1>4 DEF RotateMove, cvars
  <2>2. LogHandles = {}
    BY <2>1 DEF HandleInv, Reopening
  <2>3. LogHandles' = {}
    BY <2>1, <2>2 DEF LogHandles
  <2>4. FilesExist'
    BY <1>4, <2>1, MoveEffect DEF HandleInv, FilesExist
  <2> QED
    BY <2>1, <2>3, <2>4 DEF HandleInv
<1>5. CASE RotateOpen(t)
  <2>1. /\ pc[t] = "open" /\ pc' = [pc EXCEPT ![t] = "write"]
        /\ OpenBase /\ UNCHANGED <<clock, named, phase>>
    BY <1>5 DEF RotateOpen, Goto
  <2>2. LogHandles = {}
    BY <2>1 DEF HandleInv, Reopening
  <2>3. phase' = "ready" /\ ~Reopening'
    BY <1>0, <1>2, <2>1 DEF Reopening, Inside
  <2>4. LogHandles' = {h'} /\ hs'[h'] = [file |-> dir'[Base], pos |-> 0]
    BY <2>1, <2>2, OpenHandle
  <2>5. FilesExist'
    BY <2>1, MakeKept DEF Typed, HandleInv, OpenBase
  <2> QED
    BY <2>1, <2>3, <2>4, <2>5 DEF HandleInv
<1>6. CASE RotateOpenFails(t)
  <2>1. pc[t] = "open" /\ UNCHANGED <<hs, dir, data, named, phase>>
    BY <1>6 DEF RotateOpenFails, fvars
  <2>2. LogHandles = {}
    BY <2>1 DEF HandleInv, Reopening
  <2>3. LogHandles' = {}
    BY <2>1, <2>2 DEF LogHandles
  <2>4. FilesExist'
    BY <2>1 DEF HandleInv, FilesExist
  <2> QED
    BY <2>1, <2>3, <2>4 DEF HandleInv
<1>7. CASE WriteLine(t)
  <2>1. /\ pc[t] = "write" /\ pc' = [pc EXCEPT ![t] = "unlock"]
        /\ UNCHANGED <<dir, named, phase>>
    BY <1>7 DEF WriteLine, Goto
  <2>2. phase' = "ready" /\ ~Reopening'
    BY <1>0, <1>2, <2>1 DEF Reopening, Inside
  <2>3. /\ LogHandles' = LogHandles /\ h' = h
        /\ \A n \in LogHandles :
             hs'[n] = IF n = h THEN [hs[n] EXCEPT !.pos = @ + 1] ELSE hs[n]
    BY <1>7, WriteHandle
  <2>4. \A n \in LogHandles : hs'[n].file = hs[n].file
    BY <1>0, <2>3, LogHandleTyped DEF Mark
  <2>5. FilesExist'
    BY <1>7, WriteExist DEF HandleInv
  <2> QED
    BY <2>1, <2>2, <2>3, <2>4, <2>5 DEF HandleInv
<1> QED
  BY <1>1, <1>3, <1>4, <1>5, <1>6, <1>7, <1>8 DEF Step

\* The rest of the world keeps it.
LEMMA WorldHandle ==
  ASSUME Typed, HandleInv, Tick \/ Elsewhere \/ Restart
  PROVE  HandleInv'
<1>1. CASE Tick
  <2>1. UNCHANGED <<hs, h, dir, data, named, phase, pc>>
    BY <1>1 DEF Tick, cvars
  <2>2. Reopening' <=> Reopening
    BY <2>1 DEF Reopening
  <2> QED
    BY <2>1, <2>2, HandleQuiet
<1>2. CASE Elsewhere
  <2>1. UNCHANGED <<h, dir, data, named, phase, pc>>
    BY <1>2 DEF Elsewhere, fvars, tvars
  <2>2. (Reopening' <=> Reopening) /\ (FilesExist' <=> FilesExist)
    BY <2>1 DEF Reopening, FilesExist
  <2>3. LogHandles' = LogHandles /\ \A n \in LogHandles : hs'[n] = hs[n]
    BY <1>2, ElsewhereHandle DEF Typed
  <2> QED
    BY <2>1, <2>2, <2>3 DEF HandleInv
<1>3. CASE Restart
  <2>1. phase' = "new" /\ hs' = [n \in Handle |-> Null] /\ UNCHANGED <<dir, data>>
    BY <1>3 DEF Restart, fvars
  <2>2. LogHandles' = {} /\ FilesExist'
    BY <2>1 DEF LogHandles, HandleInv, FilesExist
  <2> QED
    BY <2>1, <2>2 DEF HandleInv
<1> QED
  BY <1>1, <1>2, <1>3

-----------------------------------------------------------------------------
(* The name.                                                               *)

\* The name of a rotation is not that of the log, and once it has been looked
\* at it is free, or the second of the two.
NameInv ==
  \A t \in Thread :
    /\ pc[t] \in {"close", "stat", "move"} => newLogFile[t] # Base
    /\ pc[t] = "move" => newLogFile[t].one \/ dir[newLogFile[t]] = Null

\* Every step keeps it: the owner of the critical section is alone with it.
LEMMA NameKept ==
  ASSUME TypeOK, TurnInv, NameInv, Next
  PROVE  NameInv'
<1>0. /\ pc \in [Thread -> PC] /\ newLogFile \in [Thread -> Name \ {Base}]
      /\ dir \in [Name -> Nat \cup {Null}] /\ Base \in Name
  BY NamesTyped DEF TypeOK, FilesTypeOK
<1>1. ASSUME dir' = dir \/ OpenBase, pc' = pc, newLogFile' = newLogFile
      PROVE  NameInv'
  <2>1. \A n \in Name : n # Base => dir'[n] = dir[n]
    BY <1>0, <1>1 DEF OpenBase, MakeBase
  <2> QED
    BY <1>0, <1>1, <2>1 DEF NameInv
<1>2. CASE Main
  BY <1>1, <1>2 DEF Main, InitFile, InitFileFails, Reload, CloseLogger,
                    tvars, fvars
<1>3. CASE Tick \/ Elsewhere
  BY <1>1, <1>3 DEF Tick, Elsewhere, tvars, fvars
<1>4. CASE Restart
  BY <1>4 DEF Restart, NameInv
<1>5. ASSUME NEW t \in Thread, Call(t) \/ Step(t)
      PROVE  NameInv'
  <2>1. CASE \/ Call(t) \/ Lock(t) \/ KeepFile(t) \/ RotateOpen(t)
             \/ RotateOpenFails(t) \/ WriteLine(t) \/ Unlock(t)
    <3>1. PICK to \in {"lock", "check", "write", "unlock", "idle"} : Goto(t, to)
      BY <2>1 DEF Call, Lock, KeepFile, RotateOpen, RotateOpenFails, WriteLine, Unlock
    <3>2. dir' = dir \/ OpenBase
      BY <2>1 DEF Call, Lock, KeepFile, RotateOpen, RotateOpenFails, WriteLine,
                  Unlock, fvars
    <3>3. \A n \in Name : n # Base => dir'[n] = dir[n]
      BY <1>0, <3>2 DEF OpenBase, MakeBase
    <3>4. \A u \in Thread : u # t => newLogFile'[u] = newLogFile[u]
      BY <1>0, <2>1 DEF Call, Lock, KeepFile, RotateOpen, RotateOpenFails,
                        WriteLine, Unlock
    <3>5. \A u \in Thread : pc'[u] = IF u = t THEN to ELSE pc[u]
      BY <1>0, <3>1 DEF Goto
    <3> QED
      BY <1>0, <3>3, <3>4, <3>5 DEF NameInv
  <2>2. CASE \/ StartRotate(t) \/ RotateClose(t) \/ RotateStat(t) \/ RotateMove(t)
    <3>1. pc[t] \in Inside
      BY <2>2 DEF StartRotate, RotateClose, RotateStat, RotateMove, Inside
    <3>2. PICK to \in PC : Goto(t, to)
      BY <2>2 DEF StartRotate, RotateClose, RotateStat, RotateMove, PC
    <3>3. \A u \in Thread : u # t => pc'[u] \notin {"close", "stat", "move"}
      BY <1>0, <3>1, <3>2, Alone DEF Goto, Inside
    <3>4. CASE StartRotate(t)
      <4>1. (IF NewPeriod(t) THEN prev ELSE now[t]) \in 0 .. MaxTime
        BY DEF NewPeriod, TypeOK
      <4>2. newLogFile'[t] # Base
        BY <1>0, <3>4, <4>1, NamesTyped DEF StartRotate
      <4>3. pc'[t] = "close"
        BY <1>0, <3>4 DEF StartRotate, Goto
      <4> QED
        BY <3>3, <4>2, <4>3 DEF NameInv
    <3>5. CASE RotateClose(t)
      <4>1. pc[t] = "close" /\ pc'[t] = "stat" /\ newLogFile' = newLogFile
        BY <1>0, <3>5 DEF RotateClose, Goto
      <4> QED
        BY <3>3, <4>1 DEF NameInv
    <3>6. CASE RotateStat(t)
      <4>1. pc[t] = "stat" /\ pc'[t] = "move" /\ dir' = dir
        BY <1>0, <3>6 DEF RotateStat, Goto, fvars
      <4>2. newLogFile'[t] = FreeName(newLogFile[t])
        BY <1>0, <3>6 DEF RotateStat
      <4>3. newLogFile[t] \in Name /\ newLogFile[t] # Base
        BY <1>0, <4>1 DEF NameInv
      <4> QED
        BY <3>3, <4>1, <4>2, <4>3, NamesTyped, FreeOrPostfixed DEF NameInv
    <3>7. CASE RotateMove(t)
      <4>1. pc'[t] = "open"
        BY <1>0, <3>7 DEF RotateMove, Goto
      <4> QED
        BY <3>3, <4>1 DEF NameInv
    <3> QED
      BY <2>2, <3>4, <3>5, <3>6, <3>7
  <2> QED
    BY <1>5, <2>1, <2>2 DEF Step
<1> QED
  BY <1>2, <1>3, <1>4, <1>5 DEF Next

\* The locked logger.
LockInv ==
  /\ lock => EnableLock
  /\ EnableLock => TurnInv /\ HandleInv /\ NameInv

\* Every step keeps it.
LEMMA LockInvKept ==
  ASSUME TypeOK, LockInv, [Next]_vars
  PROVE  LockInv'
<1>1. CASE UNCHANGED vars
  BY <1>1 DEF vars, fvars, cvars, tvars, LockInv, TurnInv, AllIdle, HandleInv,
              LogHandles, Reopening, FilesExist, NameInv
<1>2. CASE Next
  <2>1. lock' = lock \/ lock' = EnableLock \/ lock' = FALSE
    BY <1>2 DEF Next, Main, InitFile, InitFileFails, Reload, CloseLogger,
                Call, Step, Lock, StartRotate, KeepFile, RotateClose, RotateStat, RotateMove,
                RotateOpen, RotateOpenFails, WriteLine, Unlock, Tick, Elsewhere,
                Restart, cvars
  <2>2. lock' => EnableLock
    BY <2>1 DEF LockInv
  <2>3. ASSUME EnableLock PROVE TurnInv' /\ HandleInv' /\ NameInv'
    <3>1. TurnInv /\ HandleInv /\ NameInv /\ Typed
      BY <2>3, TypeParts DEF LockInv
    <3>2. TurnInv'
      BY <1>2, <2>3, <3>1, TurnKept
    <3>3. HandleInv'
      BY <1>2, <3>1, MainHandle, StepHandle, WorldHandle DEF Next
    <3>4. NameInv'
      BY <1>2, <3>1, NameKept
    <3> QED
      BY <3>2, <3>3, <3>4
  <2> QED
    BY <2>2, <2>3 DEF LockInv
<1> QED
  BY <1>1, <1>2

\* The locked logger: turns and the handle are always in order.
LEMMA LockInvAlways == Spec => [](TypeOK /\ LockInv)
<1>1. Init => LockInv
  <2> SUFFICES ASSUME Init PROVE LockInv
    OBVIOUS
  <2>1. TurnInv
    BY NoThread DEF Init, TurnInv, AllIdle, Inside
  <2>2. HandleInv
    <3>1. LogHandles = {} /\ FilesExist
      BY DEF Init, FilesInit, LogHandles, FilesExist
    <3> QED
      BY <3>1 DEF Init, HandleInv
  <2>3. ~lock
    BY DEF Init
  <2>4. NameInv
    BY DEF Init, NameInv
  <2> QED
    BY <2>1, <2>2, <2>3, <2>4 DEF LockInv
<1>2. TypeOK /\ LockInv /\ [Next]_vars => LockInv'
  BY LockInvKept
<1> QED
  BY <1>1, <1>2, WinLoggerTyping, PTL DEF Spec

\* With the lock no rotation, failed or not, forgets a handle of the log.
THEOREM HandleKept == Spec => []OneHandle
<1>1. LockInv => OneHandle
  BY DEF LockInv, HandleInv, OneHandle
<1> QED
  BY <1>1, LockInvAlways, PTL

-----------------------------------------------------------------------------
(* The end of the file.                                                    *)

\* The handle of the log is at the end of its file; the log is gone when a
\* rotation is about to make it again; and a log that is there is open.
AtEnd ==
  /\ \A n \in LogHandles : hs[n].pos = Len(data[hs[n].file])
  /\ \A t \in Thread : pc[t] = "open" => dir[Base] = Null
  /\ phase = "ready" /\ ~Reopening /\ dir[Base] # Null => h \in LogHandles

EndInv == ~over => AtEnd

\* A file with lines that has been opened at its start stays one that was.
LEMMA OverStays ==
  ASSUME [Next]_vars, ~over'
  PROVE  ~over
BY DEF Next, Main, InitFile, InitFileFails, Reload, CloseLogger,
       Call, Step, Lock, StartRotate, KeepFile, RotateClose, RotateStat, RotateMove, RotateOpen,
       RotateOpenFails, WriteLine, Unlock, Tick, Elsewhere, Restart, vars

\* MoveFile, if it does not fail and finds a name: the log is not there
\* afterwards, and its lines are kept.
LEMMA MoveFrees ==
  ASSUME Typed, FilesExist, LogHandles = {}, NameInv, NEW t \in Thread, RotateMove(t), ~over'
  PROVE  dir'[Base] = Null /\ Kept' = Kept
<1> DEFINE r == newLogFile[t]
<1>1. data' = data /\ pc[t] = "move"
  BY DEF RotateMove
<1>2. (CanMove(r) /\ MoveBase(r)) \/ (~CanMove(r) /\ ~Crowded(r) /\ dir' = dir)
  BY DEF RotateMove
<1>3. ~Busy(dir[Base])
  BY DEF Busy
<1>4. r \in Name /\ r # Base /\ (r.one \/ dir[r] = Null)
  BY <1>1 DEF Typed, ThreadsOK, NameInv
<1> HIDE DEF r
<1>5. CASE dir[Base] = Null
  <2>1. dir' = dir
    BY <1>2, <1>5 DEF CanMove
  <2> QED
    BY <1>1, <1>5, <2>1 DEF Kept, Files, LinesIn
<1>6. CASE dir[Base] # Null
  <2>1. CanMove(r) /\ MoveBase(r)
    BY <1>2, <1>3, <1>4, <1>6 DEF CanMove, Crowded
  <2>2. dir[r] = Null /\ dir' = [dir EXCEPT ![r] = dir[Base], ![Base] = Null]
    BY <2>1 DEF CanMove, MoveBase
  <2>3. Kept' = Kept
    BY <1>1, <1>4, <1>6, <2>2, MoveKept DEF Typed
  <2>4. dir'[Base] = Null
    BY <2>2, NamesTyped DEF Typed, FilesTypeOK
  <2> QED
    BY <2>3, <2>4
<1> QED
  BY <1>5, <1>6

\* WriteFile at the end of the file appends.
LEMMA WriteAppends ==
  ASSUME Typed, HandleInv, AtEnd, NEW t \in Thread, WriteLine(t), h \in LogHandles
  PROVE  /\ dir[Base] # Null /\ dir' = dir
         /\ data' = [data EXCEPT ![dir[Base]] = Append(data[dir[Base]], LineOf(t))]
<1>1. HandlesOK /\ hs[h].file = dir[Base]
  BY DEF Typed, HandleInv
<1>2. hs[h].file \in Nat /\ hs[h].pos \in Nat
  BY <1>1, LogHandleTyped
<1>3. dir[Base] # Null
  BY <1>1, <1>2, LogFilesAssumption
<1>4. hs[h].pos = Len(data[dir[Base]])
  BY <1>1 DEF AtEnd
<1>5. data' = [data EXCEPT ![dir[Base]] = Put(data[dir[Base]], hs[h].pos, LineOf(t))]
  BY <1>1 DEF WriteLine
<1>6. Put(data[dir[Base]], hs[h].pos, LineOf(t)) = Append(data[dir[Base]], LineOf(t))
  BY <1>2, <1>4 DEF Put
<1> QED
  BY <1>3, <1>5, <1>6 DEF WriteLine

\* A step that touches neither the handles nor the files, and neither begins
\* nor ends the gap of a rotation.
LEMMA EndQuiet ==
  ASSUME AtEnd, UNCHANGED <<hs, h, dir, data, phase>>, Reopening' <=> Reopening,
         \A t \in Thread : pc'[t] = "open" => pc[t] = "open"
  PROVE  AtEnd'
<1>1. LogHandles' = LogHandles
  BY DEF LogHandles
<1> QED
  BY <1>1 DEF AtEnd

\* A logger that is not in use has nothing to be at the end of.
LEMMA EndNone ==
  ASSUME LogHandles' = {}, \A t \in Thread : pc'[t] # "open", phase' = "new"
  PROVE  AtEnd'
BY DEF AtEnd

\* What the main thread does keeps the end.
LEMMA MainEnd ==
  ASSUME Typed, TurnInv, HandleInv, HandleInv', AtEnd, Main, ~over'
  PROVE  AtEnd'
<1>0. pc' = pc
  BY DEF Main, InitFile, InitFileFails, Reload, CloseLogger, tvars
<1>1. Reopening' <=> Reopening
  BY <1>0 DEF Reopening
<1>2. CASE InitFile
  <2>1. phase = "new" /\ OpenBase /\ clock' = clock /\ dir[Base] = Null
    BY <1>2 DEF InitFile
  <2>2. LogHandles = {} /\ \A t \in Thread : pc'[t] = "idle"
    BY <1>0, <2>1 DEF HandleInv, TurnInv, AllIdle
  <2>3. LogHandles' = {h'} /\ hs'[h'] = [file |-> dir'[Base], pos |-> 0]
    BY <2>1, <2>2, OpenHandle
  <2>4. Len(data'[dir'[Base]]) = 0
    BY <2>1, MakeEmpty DEF Typed, OpenBase
  <2> QED
    BY <2>2, <2>3, <2>4 DEF AtEnd
<1>3. CASE InitFileFails \/ CloseLogger
  <2>1. phase' = "new" /\ \A t \in Thread : pc'[t] = "idle"
    BY <1>0, <1>3 DEF InitFileFails, CloseLogger, TurnInv, AllIdle
  <2>2. LogHandles' = {}
    BY <2>1 DEF HandleInv
  <2> QED
    BY <2>1, <2>2, EndNone
<1>4. CASE Reload
  <2>1. UNCHANGED <<hs, h, dir, data, phase>>
    BY <1>4 DEF Reload, fvars
  <2> QED
    BY <1>0, <1>1, <2>1, EndQuiet
<1> QED
  BY <1>2, <1>3, <1>4 DEF Main

\* What a thread does keeps it.
LEMMA StepEnd ==
  ASSUME TypeOK, TurnInv, HandleInv, HandleInv', AtEnd, NameInv, ~over',
         NEW t \in Thread, Call(t) \/ Step(t)
  PROVE  AtEnd'
<1> Typed
  BY TypeParts
<1>0. pc \in [Thread -> PC] /\ HandlesOK
  BY DEF Typed, ThreadsOK
<1>1. CASE Call(t) \/ Lock(t) \/ StartRotate(t) \/ KeepFile(t) \/ Unlock(t)
  <2>1. UNCHANGED <<hs, h, dir, data, phase>>
    BY <1>1 DEF Call, Lock, StartRotate, KeepFile, Unlock, fvars, cvars
  <2>2. /\ pc[t] \notin {"stat", "move", "open"}
        /\ \E to \in PC \ {"stat", "move", "open"} : pc' = [pc EXCEPT ![t] = to]
    BY <1>1 DEF Call, Lock, StartRotate, KeepFile, Unlock, Goto, PC
  <2>3. Reopening' <=> Reopening
    BY <1>0, <2>2 DEF Reopening
  <2>4. \A u \in Thread : pc'[u] = "open" => pc[u] = "open"
    BY <1>0, <2>2
  <2> QED
    BY <2>1, <2>3, <2>4, EndQuiet
<1>2. ASSUME pc[t] \in {"close", "stat", "move", "open", "write"}
      PROVE  phase = "ready" /\ \A u \in Thread : u # t => pc[u] \notin Inside
  <2>1. pc[t] \in Inside
    BY <1>2 DEF Inside
  <2> QED
    BY <2>1, Alone
<1>3. CASE RotateClose(t)
  <2>1. pc[t] = "close" /\ pc' = [pc EXCEPT ![t] = "stat"] /\ UNCHANGED <<dir, data>>
    BY <1>3 DEF RotateClose, fvars, Goto
  <2>2. Reopening'
    BY <1>0, <2>1 DEF Reopening
  <2>3. LogHandles' = {}
    BY <2>2 DEF HandleInv
  <2>4. \A u \in Thread : pc'[u] = "open" => pc[u] = "open"
    BY <1>0, <2>1
  <2> QED
    BY <2>1, <2>2, <2>3, <2>4 DEF AtEnd
<1>8. CASE RotateStat(t)
  <2>1. UNCHANGED <<hs, h, dir, data, phase>>
    BY <1>8 DEF RotateStat, fvars, cvars
  <2>2. pc[t] = "stat" /\ pc' = [pc EXCEPT ![t] = "move"]
    BY <1>8 DEF RotateStat, Goto
  <2>3. (Reopening' <=> Reopening) /\ \A u \in Thread : pc'[u] = "open" => pc[u] = "open"
    BY <1>0, <2>2 DEF Reopening
  <2> QED
    BY <2>1, <2>3, EndQuiet
<1>4. CASE RotateMove(t)
  <2>1. pc[t] = "move" /\ pc' = [pc EXCEPT ![t] = "open"]
    BY <1>4 DEF RotateMove, Goto
  <2>2. LogHandles = {} /\ FilesExist
    BY <2>1 DEF HandleInv, Reopening
  <2>3. Reopening'
    BY <1>0, <2>1 DEF Reopening
  <2>4. LogHandles' = {}
    BY <2>3 DEF HandleInv
  <2>5. dir'[Base] = Null
    BY <1>4, <2>2, MoveFrees
  <2> QED
    BY <2>3, <2>4, <2>5 DEF AtEnd
<1>5. CASE RotateOpen(t)
  <2>1. /\ pc[t] = "open" /\ pc' = [pc EXCEPT ![t] = "write"]
        /\ OpenBase /\ clock' = clock
    BY <1>5 DEF RotateOpen, Goto
  <2>2. LogHandles = {} /\ dir[Base] = Null
    BY <2>1 DEF HandleInv, Reopening, AtEnd
  <2>3. LogHandles' = {h'} /\ hs'[h'] = [file |-> dir'[Base], pos |-> 0]
    BY <2>1, <2>2, OpenHandle
  <2>4. Len(data'[dir'[Base]]) = 0
    BY <2>1, <2>2, MakeEmpty DEF Typed, OpenBase
  <2>5. \A u \in Thread : pc'[u] # "open"
    BY <1>0, <1>2, <2>1 DEF Inside
  <2> QED
    BY <2>3, <2>4, <2>5 DEF AtEnd
<1>6. CASE RotateOpenFails(t)
  <2>1. pc[t] = "open" /\ pc' = [pc EXCEPT ![t] = "write"] /\ UNCHANGED <<hs, dir, data>>
    BY <1>6 DEF RotateOpenFails, fvars, Goto
  <2>2. LogHandles = {} /\ dir'[Base] = Null
    BY <2>1 DEF HandleInv, Reopening, AtEnd
  <2>3. LogHandles' = {}
    BY <2>1, <2>2 DEF LogHandles
  <2> QED
    BY <2>2, <2>3 DEF AtEnd
<1>7. CASE WriteLine(t)
  <2>1. /\ pc[t] = "write" /\ pc' = [pc EXCEPT ![t] = "unlock"]
        /\ UNCHANGED <<dir, phase>>
    BY <1>7 DEF WriteLine, Goto
  <2>2. (Reopening' <=> Reopening) /\ \A u \in Thread : pc'[u] = "open" => pc[u] = "open"
    BY <1>0, <2>1 DEF Reopening
  <2>3. /\ LogHandles' = LogHandles /\ h' = h
        /\ \A n \in LogHandles :
             hs'[n] = IF n = h THEN [hs[n] EXCEPT !.pos = @ + 1] ELSE hs[n]
    BY <1>7, WriteHandle
  <2>4. ASSUME NEW n \in LogHandles PROVE hs'[n].pos = Len(data'[hs'[n].file])
    <3>1. n = h /\ hs[h].file = dir[Base] /\ hs[h].pos = Len(data[dir[Base]])
      BY <2>4 DEF HandleInv, AtEnd
    <3>2. /\ hs[h] \in Mark /\ hs[h].pos \in Nat
          /\ hs'[h] = [hs[h] EXCEPT !.pos = @ + 1]
      BY <1>0, <2>3, <2>4, <3>1, LogHandleTyped
    <3>3. hs'[h].file = dir[Base] /\ hs'[h].pos = hs[h].pos + 1
      BY <3>1, <3>2 DEF Mark
    <3>4. /\ dir[Base] # Null
          /\ data' = [data EXCEPT ![dir[Base]] = Append(data[dir[Base]], LineOf(t))]
      BY <1>7, <2>4, <3>1, WriteAppends
    <3>5. dir[Base] \in DOMAIN data /\ data \in Seq(Seq(Line)) /\ LineOf(t) \in Line
      BY <3>4, NamesTyped, LineTyped DEF HandleInv, FilesExist, Typed, FilesTypeOK
    <3>6. data'[dir[Base]] = Append(data[dir[Base]], LineOf(t)) /\ data[dir[Base]] \in Seq(Line)
      BY <3>4, <3>5
    <3>7. Len(data'[dir[Base]]) = Len(data[dir[Base]]) + 1
      BY <3>5, <3>6, AppendProperties
    <3> QED
      BY <3>1, <3>3, <3>7
  <2> QED
    BY <2>1, <2>2, <2>3, <2>4 DEF AtEnd
<1> QED
  BY <1>1, <1>3, <1>4, <1>5, <1>6, <1>7, <1>8 DEF Step

\* The rest of the world keeps it.
LEMMA WorldEnd ==
  ASSUME Typed, HandleInv', AtEnd, Tick \/ Elsewhere \/ Restart
  PROVE  AtEnd'
<1>1. CASE Tick
  <2>1. UNCHANGED <<hs, h, dir, data, phase, pc>>
    BY <1>1 DEF Tick, cvars
  <2>2. Reopening' <=> Reopening
    BY <2>1 DEF Reopening
  <2> QED
    BY <2>1, <2>2, EndQuiet
<1>2. CASE Elsewhere
  <2>1. UNCHANGED <<h, dir, data, phase, pc>>
    BY <1>2 DEF Elsewhere, fvars, tvars
  <2>2. Reopening' <=> Reopening
    BY <2>1 DEF Reopening
  <2>3. LogHandles' = LogHandles /\ \A n \in LogHandles : hs'[n] = hs[n]
    BY <1>2, ElsewhereHandle DEF Typed
  <2> QED
    BY <2>1, <2>2, <2>3 DEF AtEnd
<1>3. CASE Restart
  <2>1. phase' = "new" /\ \A t \in Thread : pc'[t] = "idle"
    BY <1>3 DEF Restart
  <2>2. LogHandles' = {}
    BY <2>1 DEF HandleInv
  <2> QED
    BY <2>1, <2>2, EndNone
<1> QED
  BY <1>1, <1>2, <1>3

\* Every step keeps the end of the file.
LEMMA EndKept ==
  ASSUME TypeOK, LockInv, LockInv', EnableLock, EndInv, [Next]_vars
  PROVE  EndInv'
<1> SUFFICES ASSUME ~over' PROVE AtEnd'
  BY DEF EndInv
<1>1. AtEnd /\ TurnInv /\ HandleInv /\ NameInv /\ HandleInv' /\ Typed
  BY OverStays, TypeParts DEF EndInv, LockInv
<1>2. CASE UNCHANGED vars
  <2>1. UNCHANGED <<hs, h, dir, data, phase, pc>>
    BY <1>2 DEF vars, fvars, cvars, tvars
  <2>2. Reopening' <=> Reopening
    BY <2>1 DEF Reopening
  <2> QED
    BY <1>1, <2>1, <2>2, EndQuiet
<1>3. CASE Main
  BY <1>1, <1>3, MainEnd
<1>4. CASE \E t \in Thread : Call(t) \/ Step(t)
  BY <1>1, <1>4, StepEnd
<1>5. CASE Tick \/ Elsewhere \/ Restart
  BY <1>1, <1>5, WorldEnd
<1> QED
  BY <1>2, <1>3, <1>4, <1>5 DEF Next

\* And so it is always there.
LEMMA EndAlways == Spec => [](EnableLock => EndInv)
<1>1. Init => EndInv
  <2> SUFFICES ASSUME Init PROVE AtEnd
    BY DEF EndInv
  <2>1. LogHandles = {} /\ dir[Base] = Null
    BY NamesTyped DEF Init, FilesInit, LogHandles
  <2> QED
    BY <2>1 DEF AtEnd
<1>2. /\ TypeOK /\ LockInv /\ LockInv' /\ (EnableLock => EndInv) /\ [Next]_vars
      => (EnableLock => EndInv)'
  BY EndKept
<1> QED
  BY <1>1, <1>2, LockInvAlways, PTL DEF Spec

\* With the lock a line is written after the last one of the file called
\* _logFile, although no build for Windows opens it for appending: until a
\* second init() opens a file that is there, MoveFile fails, or a third rotation
\* within a second has no name left.
THEOREM WrittenBehind == Spec => []AppendsToLog
<1>1. LockInv /\ (EnableLock => EndInv) => AppendsToLog
  <2> SUFFICES ASSUME LockInv, EnableLock => EndInv, NEW t \in Thread,
                      pc[t] = "write", lock, h \in LogHandles, ~over
               PROVE  hs[h].file = dir[Base] /\ hs[h].pos = Len(data[dir[Base]])
    BY DEF AppendsToLog
  <2>1. HandleInv /\ AtEnd
    BY DEF LockInv, EndInv
  <2> QED
    BY <2>1 DEF HandleInv, AtEnd
<1> QED
  BY <1>1, LockInvAlways, EndAlways, PTL

-----------------------------------------------------------------------------
(* No line is lost.                                                        *)

\* A line that is kept stays so.
LEMMA StepKeeps ==
  ASSUME TypeOK, LockInv, EnableLock, EndInv, [Next]_vars, ~over'
  PROVE  Kept \subseteq Kept'
<1>0. AtEnd /\ TurnInv /\ HandleInv /\ NameInv /\ Typed /\ FilesTypeOK /\ FilesExist
  BY OverStays, TypeParts DEF EndInv, LockInv, HandleInv, Typed
<1>1. CASE UNCHANGED <<dir, data>>
  BY <1>1 DEF Kept, Files, LinesIn
<1>2. CASE MakeBase
  BY <1>0, <1>2, MakeKept
<1>3. ASSUME NEW t \in Thread, RotateMove(t) PROVE Kept \subseteq Kept'
  <2>1. Reopening
    BY <1>3 DEF RotateMove, Reopening
  <2>2. LogHandles = {}
    BY <1>0, <2>1 DEF HandleInv
  <2> QED
    BY <1>0, <1>3, <2>2, MoveFrees
<1>4. ASSUME NEW t \in Thread, WriteLine(t) PROVE Kept \subseteq Kept'
  <2>1. CASE h \in LogHandles
    <3>1. /\ dir' = dir
          /\ data' = [data EXCEPT ![dir[Base]] = Append(data[dir[Base]], LineOf(t))]
      BY <1>0, <1>4, <2>1, WriteAppends
    <3>2. LineOf(t) \in Line
      BY <1>0, LineTyped DEF Typed
    <3> QED
      BY <1>0, <3>1, <3>2, AppendKept
  <2>2. CASE h \notin LogHandles
    BY <1>1, <1>4, <2>2 DEF WriteLine
  <2> QED
    BY <2>1, <2>2
<1>5. CASE UNCHANGED vars
  BY <1>1, <1>5 DEF vars, fvars
<1>6. CASE Main
  BY <1>1, <1>2, <1>6 DEF Main, InitFile, InitFileFails, Reload, CloseLogger, OpenBase, fvars
<1>7. ASSUME NEW t \in Thread, Call(t) \/ Step(t) PROVE Kept \subseteq Kept'
  BY <1>1, <1>2, <1>3, <1>4, <1>7
     DEF Call, Step, Lock, StartRotate, KeepFile, RotateClose, RotateStat, RotateOpen,
         RotateOpenFails, Unlock, OpenBase, fvars
<1>8. CASE Tick \/ Elsewhere \/ Restart
  BY <1>1, <1>8 DEF Tick, Elsewhere, Restart, fvars
<1> QED
  BY <1>5, <1>6, <1>7, <1>8 DEF Next

\* With the lock no line is written over and no file replaced, until a second
\* init() opens a file that is there, MoveFile fails, or a third rotation within
\* a second has no name left.
THEOREM NothingOverwritten ==
  ASSUME EnableLock
  PROVE  Spec => NoneOverwritten
<1>1. /\ TypeOK /\ LockInv /\ (EnableLock => EndInv) /\ [Next]_vars
      => [~over' => Kept \subseteq Kept']_vars
  BY StepKeeps
<1> QED
  BY <1>1, LockInvAlways, EndAlways, PTL DEF Spec, NoneOverwritten

-----------------------------------------------------------------------------
(* The periods stay apart.                                                 *)

\* A logger that takes turns and always rotates by something.
Steady ==
  /\ EnableLock /\ WholeHours
  /\ RotateSize > 0 \/ (Asked # "none" /\ "none" \notin Reloads)

\* One that is in use has something to rotate by.
AskedInv == phase = "ready" => RotateSize > 0 \/ period # "none"

\* The lines of each file are of one period.  Between two turns _prev is the
\* time of the last line; in the turn of a thread that is about to write it is
\* the time of its line, which goes with the last one.
InPeriod ==
  /\ PeriodFiles
  /\ phase = "ready" /\ HasLines /\ (\A t \in Thread : pc[t] # "write") => prev = LastTime
  /\ \A t \in Thread : pc[t] = "write" /\ dir[Base] # Null =>
       prev = now[t] /\ (HasLines => SamePeriod(LastTime, now[t], seen[t]))

PeriodInv == ~over => InPeriod

\* Every step keeps something to rotate by.
LEMMA AskedKept ==
  ASSUME Steady, AskedInv, [Next]_vars
  PROVE  AskedInv'
<1>1. CASE InitFile \/ Reload
  BY <1>1 DEF InitFile, Reload, Steady, AskedInv
<1>2. CASE InitFileFails \/ CloseLogger \/ Restart
  BY <1>2 DEF InitFileFails, CloseLogger, Restart, AskedInv
<1>3. CASE UNCHANGED <<phase, period>>
  BY <1>3 DEF AskedInv
<1>4. ASSUME NEW t \in Thread, Call(t) \/ Step(t) PROVE UNCHANGED <<phase, period>>
  BY <1>4 DEF Call, Step, Lock, StartRotate, KeepFile, RotateClose, RotateStat, RotateMove,
              RotateOpen, RotateOpenFails, WriteLine, Unlock, cvars
<1>5. CASE Tick \/ Elsewhere \/ UNCHANGED vars
  BY <1>3, <1>5 DEF Tick, Elsewhere, vars, cvars
<1> QED
  BY <1>1, <1>2, <1>3, <1>4, <1>5 DEF Next, Main

\* Neither the files nor _prev change, and nobody comes to or leaves the write.
LEMMA PeriodQuiet ==
  ASSUME InPeriod, UNCHANGED <<dir, data, prev>>, phase' = "ready" => phase = "ready",
         \A t \in Thread :
           /\ pc'[t] = "write" <=> pc[t] = "write"
           /\ pc[t] = "write" => UNCHANGED <<now[t], seen[t]>>
  PROVE  InPeriod'
<1>1. PeriodFiles'
  BY DEF InPeriod, PeriodFiles, OneIn
<1>2. (HasLines' <=> HasLines) /\ LastTime' = LastTime
  BY DEF HasLines, LastTime
<1>3. phase' = "ready" /\ HasLines' /\ (\A t \in Thread : pc'[t] # "write") => prev' = LastTime'
  BY <1>2 DEF InPeriod
<1>4. \A t \in Thread : pc'[t] = "write" /\ dir'[Base] # Null =>
        prev' = now'[t] /\ (HasLines' => SamePeriod(LastTime', now'[t], seen'[t]))
  BY <1>2 DEF InPeriod
<1> QED
  BY <1>1, <1>3, <1>4 DEF InPeriod, SamePeriod, IsHourly, IsDaily, Hour, Day

\* A log that has no lines, or is not there.
LEMMA PeriodEmpty ==
  ASSUME PeriodFiles', ~HasLines',
         \A t \in Thread : pc'[t] = "write" /\ dir'[Base] # Null => prev' = now'[t]
  PROVE  InPeriod'
BY DEF InPeriod

\* A thread that keeps the file has found its time to go with that of the last
\* line, which is in _prev.
LEMMA KeepPeriod ==
  ASSUME TypeOK, Steady, TurnInv, HandleInv, AtEnd, AskedInv, InPeriod,
         NEW t \in Thread, KeepFile(t)
  PROVE  InPeriod'
<1>0. /\ pc \in [Thread -> PC] /\ seen \in [Thread -> Period] /\ now[t] \in 0 .. MaxTime
      /\ prev \in -1 .. MaxTime /\ period \in Period /\ RotateSize \in Nat
  BY WinLoggerAssumption DEF TypeOK
<1>1. /\ pc[t] = "check" /\ ~Rotates(t) /\ Sees(t) /\ pc' = [pc EXCEPT ![t] = "write"]
      /\ prev' = IF NeverRotates \/ ~HasSize THEN prev ELSE now[t]
      /\ UNCHANGED <<dir, data, now>>
  BY DEF KeepFile, Goto, fvars
<1>2. pc[t] \in Inside
  BY <1>1 DEF Inside
<1>3. phase = "ready" /\ \A u \in Thread : u # t => pc[u] \notin Inside
  BY <1>2, Alone
<1>4. pc'[t] = "write" /\ \A u \in Thread : u # t => pc'[u] = pc[u]
  BY <1>0, <1>1
<1>5. \A u \in Thread : u # t => pc'[u] # "write"
  BY <1>3, <1>4 DEF Inside
<1>6. (\A u \in Thread : pc[u] # "write") /\ ~Reopening
  BY <1>1, <1>3 DEF Inside, Reopening
<1>7. PeriodFiles'
  BY <1>1 DEF InPeriod, PeriodFiles, OneIn
<1>8. (HasLines' <=> HasLines) /\ LastTime' = LastTime
  BY <1>1 DEF HasLines, LastTime
<1>9. ASSUME dir[Base] # Null
      PROVE  prev' = now[t] /\ (HasLines => SamePeriod(LastTime, now[t], seen'[t]))
  <2>1. ~NeverRotates
    BY <1>0, <1>3 DEF NeverRotates, AskedInv, HandleInv
  <2>2. HasSize
    BY <1>3, <1>6, <1>9 DEF HasSize, AtEnd
  <2>3. prev' = now[t]
    BY <1>1, <2>1, <2>2
  <2>4. seen'[t] = period
    BY <1>0, <1>1, <2>1 DEF Sees
  <2>5. ASSUME HasLines PROVE SamePeriod(LastTime, now[t], period)
    <3>1. prev = LastTime
      BY <1>3, <1>6, <2>5 DEF InPeriod
    <3>2. LastTime \in Nat
      BY <2>5, LastTimed, TypeParts DEF HandleInv, Typed
    <3>3. ~NewPeriod(t)
      BY <1>1, <2>1 DEF Rotates
    <3>4. /\ IsHourly(period) => Hour(prev) = Hour(now[t])
          /\ period = "daily" => Day(prev) = Day(now[t])
      BY <3>1, <3>2, <3>3 DEF NewPeriod
    <3>5. now[t] \in Nat /\ WholeHours
      BY <1>0, LogFilesAssumption DEF Steady
    <3> QED
      BY <1>0, <3>1, <3>2, <3>4, <3>5, NotTold
  <2> QED
    BY <2>3, <2>4, <2>5
<1>10. \A u \in Thread : pc'[u] = "write" /\ dir'[Base] # Null =>
        prev' = now'[u] /\ (HasLines' => SamePeriod(LastTime', now'[u], seen'[u]))
  BY <1>1, <1>5, <1>8, <1>9
<1> QED
  BY <1>4, <1>7, <1>10 DEF InPeriod, SamePeriod, IsHourly, IsDaily, Hour, Day

\* The line that is written goes with the one before, and _prev is its time.
LEMMA WritePeriod ==
  ASSUME TypeOK, TurnInv, HandleInv, AtEnd, InPeriod, NEW t \in Thread, WriteLine(t)
  PROVE  InPeriod'
<1>0. pc \in [Thread -> PC] /\ LineOf(t) \in Line /\ Typed /\ FilesTypeOK
  BY LineTyped, TypeParts DEF Typed, ThreadsOK
<1>1. pc[t] = "write" /\ pc' = [pc EXCEPT ![t] = "unlock"] /\ UNCHANGED <<dir, prev>>
  BY DEF WriteLine, Goto
<1>2. pc[t] \in Inside
  BY <1>1 DEF Inside
<1>3. phase = "ready" /\ \A u \in Thread : u # t => pc[u] \notin Inside
  BY <1>2, Alone
<1>4. ~Reopening /\ \A u \in Thread : pc'[u] # "write"
  BY <1>0, <1>1, <1>3 DEF Inside, Reopening
<1>5. CASE h \notin LogHandles
  <2>1. data' = data /\ dir[Base] = Null
    BY <1>3, <1>4, <1>5 DEF WriteLine, AtEnd
  <2>2. PeriodFiles' /\ ~HasLines'
    BY <1>1, <2>1 DEF InPeriod, PeriodFiles, OneIn, HasLines
  <2> QED
    BY <1>4, <2>2, PeriodEmpty
<1>6. CASE h \in LogHandles
  <2>1. /\ dir[Base] # Null
        /\ data' = [data EXCEPT ![dir[Base]] = Append(data[dir[Base]], LineOf(t))]
    BY <1>0, <1>6, WriteAppends
  <2>2. LineOf(t).at = now[t] /\ LineOf(t).per = seen[t]
    BY DEF LineOf
  <2>3. prev = now[t] /\ (HasLines => SamePeriod(LastTime, LineOf(t).at, LineOf(t).per))
    BY <1>1, <2>1, <2>2 DEF InPeriod
  <2>4. PICK x \in Line : x = LineOf(t)
    BY <1>0
  <2>5. PeriodFiles' /\ LastTime' = x.at
    BY <1>0, <1>1, <2>1, <2>3, <2>4, AppendPeriod DEF InPeriod, HandleInv
  <2> QED
    BY <1>1, <1>4, <2>2, <2>3, <2>4, <2>5 DEF InPeriod
<1> QED
  BY <1>5, <1>6

\* A rotation leaves the next line the first of a file.
LEMMA RotationPeriod ==
  ASSUME TypeOK, TurnInv, HandleInv, AtEnd, NameInv, InPeriod, ~over', NEW t \in Thread,
         RotateMove(t) \/ RotateOpen(t) \/ RotateOpenFails(t)
  PROVE  InPeriod'
<1>0. pc \in [Thread -> PC] /\ Typed /\ FilesTypeOK /\ FilesExist /\ PeriodFiles
  BY TypeParts DEF Typed, ThreadsOK, HandleInv, InPeriod
<1>1. pc[t] \in {"stat", "move", "open"}
  BY DEF RotateMove, RotateOpen, RotateOpenFails
<1>2. pc[t] \in Inside /\ Reopening
  BY <1>1 DEF Inside, Reopening
<1>3. LogHandles = {} /\ \A u \in Thread : u # t => pc[u] \notin Inside
  BY <1>2, Alone DEF HandleInv
<1>4. CASE RotateMove(t)
  <2>1. pc' = [pc EXCEPT ![t] = "open"] /\ data' = data
    BY <1>4 DEF RotateMove, Goto
  <2>2. \A u \in Thread : pc'[u] # "write"
    BY <1>0, <1>3, <2>1 DEF Inside
  <2>3. dir'[Base] = Null
    BY <1>0, <1>3, <1>4, MoveFrees
  <2>4. PeriodFiles'
    BY <1>0, <1>4, <2>1, MoveEffect, MovePeriod
  <2> QED
    BY <2>2, <2>3, <2>4, PeriodEmpty DEF HasLines
<1>5. CASE RotateOpen(t) \/ RotateOpenFails(t)
  <2>1. /\ pc[t] = "open" /\ pc' = [pc EXCEPT ![t] = "write"]
        /\ prev' = now[t] /\ now' = now
    BY <1>5 DEF RotateOpen, RotateOpenFails, Goto
  <2>2. \A u \in Thread : pc'[u] = "write" => prev' = now'[u]
    BY <1>0, <1>3, <2>1 DEF Inside
  <2>3. dir[Base] = Null
    BY <2>1 DEF AtEnd
  <2>4. MakeBase \/ UNCHANGED <<dir, data>>
    BY <1>5 DEF RotateOpen, RotateOpenFails, OpenBase, fvars
  <2>5. PeriodFiles' /\ ~HasLines'
    <3>1. CASE MakeBase
      BY <1>0, <2>3, <3>1, MakePeriod
    <3>2. CASE UNCHANGED <<dir, data>>
      BY <1>0, <2>3, <3>2 DEF PeriodFiles, OneIn, HasLines
    <3> QED
      BY <2>4, <3>1, <3>2
  <2> QED
    BY <2>2, <2>5, PeriodEmpty
<1> QED
  BY <1>4, <1>5

\* Every step keeps the periods apart.
LEMMA PeriodKept ==
  ASSUME TypeOK, Steady, TurnInv, HandleInv, AtEnd, NameInv, AskedInv, InPeriod,
         [Next]_vars, ~over'
  PROVE  InPeriod'
<1>0. pc \in [Thread -> PC] /\ FilesTypeOK /\ FilesExist /\ PeriodFiles
  BY TypeParts DEF Typed, ThreadsOK, HandleInv, InPeriod
<1>1. ASSUME NEW t \in Thread, Call(t) \/ Step(t) PROVE InPeriod'
  <2>1. CASE \/ Call(t) \/ Lock(t) \/ StartRotate(t) \/ RotateClose(t)
             \/ RotateStat(t) \/ Unlock(t)
    <3>1. UNCHANGED <<dir, data, prev, phase>>
      BY <2>1 DEF Call, Lock, StartRotate, RotateClose, RotateStat, Unlock, fvars, cvars
    <3>2. PICK to \in {"lock", "check", "close", "stat", "move", "idle"} : Goto(t, to)
      BY <2>1 DEF Call, Lock, StartRotate, RotateClose, RotateStat, Unlock
    <3>3. pc[t] # "write"
      BY <2>1 DEF Call, Lock, StartRotate, RotateClose, RotateStat, Unlock
    <3>4. \A u \in Thread : u # t => UNCHANGED <<now[u], seen[u]>>
      <4>1. now \in [Thread -> 0 .. MaxTime] /\ seen \in [Thread -> Period]
        BY DEF TypeOK
      <4> QED
        BY <2>1, <4>1 DEF Call, Lock, StartRotate, RotateClose, RotateStat, Unlock, Sees
    <3>5. \A u \in Thread : pc'[u] = "write" <=> pc[u] = "write"
      BY <1>0, <3>2, <3>3 DEF Goto
    <3> QED
      BY <3>1, <3>3, <3>4, <3>5, PeriodQuiet
  <2> QED
    BY <1>1, <2>1, KeepPeriod, RotationPeriod, WritePeriod DEF Step
<1>2. CASE Tick \/ Elsewhere \/ InitFileFails \/ Reload \/ CloseLogger \/ UNCHANGED vars
  <2>1. UNCHANGED <<dir, data, prev, pc, now, seen>>
    BY <1>2 DEF Tick, Elsewhere, InitFileFails, Reload, CloseLogger,
                vars, fvars, cvars, tvars
  <2>2. phase' = "ready" => phase = "ready"
    BY <1>2 DEF Tick, Elsewhere, InitFileFails, Reload, CloseLogger, vars, cvars
  <2> QED
    BY <2>1, <2>2, PeriodQuiet
<1>3. CASE InitFile
  <2>1. phase = "new" /\ MakeBase /\ pc' = pc /\ dir[Base] = Null
    BY <1>3 DEF InitFile, OpenBase, tvars
  <2>2. PeriodFiles' /\ ~HasLines'
    BY <1>0, <2>1, MakePeriod
  <2>3. \A t \in Thread : pc'[t] = "idle"
    BY <2>1 DEF TurnInv, AllIdle
  <2> QED
    BY <2>2, <2>3, PeriodEmpty
<1>4. CASE Restart
  <2>1. phase' = "new" /\ UNCHANGED <<dir, data>> /\ \A t \in Thread : pc'[t] = "idle"
    BY <1>4 DEF Restart, fvars
  <2> QED
    BY <1>0, <2>1 DEF InPeriod, PeriodFiles, OneIn
<1> QED
  BY <1>1, <1>2, <1>3, <1>4 DEF Next, Main

\* With the lock the lines of a file fall in one hour or day, also when the
\* threads get their turns in another order than their times, reload() changes
\* the period between a check and a write, and CreateFile fails: in a logger
\* that always rotates by something, until a second init() opens a file that is
\* there, MoveFile fails, or a third rotation within a second has no name left.
THEOREM PeriodsDivided ==
  ASSUME EnableLock, WholeHours,
         RotateSize > 0 \/ (Asked # "none" /\ "none" \notin Reloads)
  PROVE  Spec => []PeriodsApart
<1>0. Steady
  BY DEF Steady
<1>1. Init => AskedInv /\ PeriodInv
  <2> SUFFICES ASSUME Init PROVE AskedInv /\ InPeriod
    BY DEF PeriodInv
  <2>1. /\ \A n \in Name : dir[n] = Null
        /\ \A t \in Thread : pc[t] = "idle"
        /\ phase = "new"
    BY DEF Init, FilesInit
  <2> QED
    BY <2>1 DEF AskedInv, InPeriod, PeriodFiles
<1>2. /\ TypeOK /\ LockInv /\ (EnableLock => EndInv)
      /\ AskedInv /\ PeriodInv /\ [Next]_vars
      => AskedInv' /\ PeriodInv'
  <2> SUFFICES ASSUME TypeOK, LockInv, EndInv, AskedInv, PeriodInv, [Next]_vars
               PROVE  AskedInv' /\ PeriodInv'
    OBVIOUS
  <2>1. AskedInv'
    BY <1>0, AskedKept
  <2>2. ASSUME ~over' PROVE InPeriod'
    <3>1. TurnInv /\ HandleInv /\ NameInv /\ AtEnd /\ InPeriod
      BY <2>2, OverStays DEF LockInv, EndInv, PeriodInv
    <3> QED
      BY <1>0, <2>2, <3>1, PeriodKept
  <2> QED
    BY <2>1, <2>2 DEF PeriodInv
<1>3. PeriodInv => PeriodsApart
  BY PeriodFilesEnough DEF PeriodInv, InPeriod, PeriodsApart
<1> QED
  BY <1>1, <1>2, <1>3, LockInvAlways, EndAlways, PTL DEF Spec
=============================================================================
