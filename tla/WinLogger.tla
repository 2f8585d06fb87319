----------------------------- MODULE WinLogger ------------------------------
(***************************************************************************)
(* cpl::Logger in a build for Windows (#ifdef WIN32).  It is the logger of *)
(* module Logger with other calls, and they differ where it matters: the   *)
(* file is opened at its first byte and not for appending, MoveFile does   *)
(* not replace a file, a file that is open for writing is opened by no     *)
(* other handle and not moved, and the size is asked of the handle.        *)
(***************************************************************************)
EXTENDS LogFiles

CONSTANTS
  Handle,      \* the handles the process may have
  Other,       \* what is behind a handle that is not the log's
  Invalid,     \* INVALID_HANDLE_VALUE
  RotateSize,  \* _rotateSize, in lines; 0 is "no limit"
  EnableLock,  \* _enableLock as asked for in init()
  Asked,       \* the period asked for in init()
  Reloads,     \* the periods reload() may be called with
  Faults,      \* calls that may fail: "init" and "open" (CreateFile), "move"
  MaxLines,    \* bound: lines logged
  MaxRuns      \* bound: how often init() is called, in one process or several

ASSUME WinLoggerAssumption ==
  /\ Other # Null /\ {Null, Other} \cap [file : Nat, pos : Nat] = {}
  /\ Handle \cap {Null, Invalid} = {}
  /\ Null # Invalid
  /\ RotateSize \in Nat
  /\ EnableLock \in BOOLEAN
  /\ Asked \in Period
  /\ Reloads \subseteq Period
  /\ MaxLines \in Nat
  /\ MaxRuns \in Nat

VARIABLES
  hs,          \* the process's handles: a file of the log and a position in it
  h,           \* _hFile; Null for NULL
  named,       \* whether _logFile is set
  lock,        \* _enableLock
  period,      \* _daily and _hourly
  prev,        \* _prev; -1 as the constructor leaves it
  owner,       \* the thread in the critical section _cs
  phase,       \* "new" before init() and after close(), "ready" between
  pc,          \* where each thread is in log()
  now,         \* the time it has read
  newLogFile,  \* the name _rotate gives the file; Stamped(0) outside of it
  seen,        \* the period _checkRotate found in force (history)
  made,        \* lines logged so far
  runs,        \* how often init() has been called
  over         \* a file that was there is opened at its start (history)

cvars == <<hs, h, named, lock, period, prev, owner, phase>>
tvars == <<pc, now, newLogFile, seen, made>>
vars == <<fvars, cvars, tvars, runs, over>>

PC == {"idle", "lock", "check", "close", "stat", "move", "open", "write",
       "unlock"}

TypeOK ==
  /\ FilesTypeOK
  /\ hs \in [Handle -> [file : Nat, pos : Nat] \cup {Null, Other}]
  /\ h \in Handle \cup {Null, Invalid}
  /\ {named, lock} \subseteq BOOLEAN
  /\ period \in Period
  /\ prev \in -1 .. MaxTime
  /\ owner \in Thread \cup {Null}
  /\ phase \in {"new", "ready"}
  /\ pc \in [Thread -> PC]
  /\ now \in [Thread -> 0 .. MaxTime]
  /\ newLogFile \in [Thread -> Name \ {Base}]
  /\ seen \in [Thread -> Period]
  /\ {made, runs} \subseteq Nat
  /\ over \in BOOLEAN

\* Logger::Logger
Init ==
  /\ FilesInit
  /\ hs = [n \in Handle |-> Null]
  /\ h = Null
  /\ named = FALSE
  /\ lock = FALSE
  /\ period = "none"
  /\ prev = -1
  /\ owner = Null
  /\ phase = "new"
  /\ pc = [t \in Thread |-> "idle"]
  /\ now = [t \in Thread |-> 0]
  /\ newLogFile = [t \in Thread |-> Stamped(0)]
  /\ seen = [t \in Thread |-> "none"]
  /\ made = 0
  /\ runs = 0
  /\ over = FALSE

AllIdle == \A t \in Thread : pc[t] = "idle"

FreeHandle == {n \in Handle : hs[n] = Null}
LogHandles == {n \in Handle : hs[n] \notin {Null, Other}}

\* A handle of the log stands for file f.
Busy(f) == \E n \in LogHandles : hs[n].file = f

\* CreateFile(_logFile, GENERIC_WRITE, FILE_SHARE_READ, OPEN_ALWAYS)
OpenBase ==
  /\ ~Busy(dir[Base])
  /\ MakeBase
  /\ \E n \in FreeHandle :
       /\ h' = n
       /\ hs' = [hs EXCEPT ![n] = [file |-> BaseFile, pos |-> 0]]

CannotOpen(fault) == FreeHandle = {} \/ Busy(dir[Base]) \/ fault \in Faults

\* CloseHandle of whatever handle n stands for.
CloseHandle(n) == hs' = IF n \in Handle THEN [hs EXCEPT ![n] = Null] ELSE hs

-----------------------------------------------------------------------------
(* What the program's main thread does.                                    *)

\* _getAbsFilePath: the path of the directory, if it has the attributes of one
\* and no other, and the name go into _logFile; it stays there when the file
\* cannot be opened.  A path that is refused changes nothing.
Named == named' = TRUE

InitFile ==
  /\ phase = "new" /\ runs < MaxRuns
  /\ OpenBase
  /\ Named
  /\ lock' = EnableLock
  /\ period' = Asked
  /\ phase' = "ready"
  /\ runs' = runs + 1
  /\ over' = (over \/ dir[Base] # Null)
  /\ UNCHANGED <<clock, prev, owner, tvars>>

InitFileFails ==
  /\ phase = "new" /\ runs < MaxRuns
  /\ CannotOpen("init")
  /\ h' = Invalid
  /\ Named
  /\ runs' = runs + 1
  /\ UNCHANGED <<fvars, hs, lock, period, prev, owner, phase, tvars, over>>

\* reload(daily, hourly), which takes no lock.
Reload ==
  /\ phase = "ready"
  /\ period' \in Reloads
  /\ UNCHANGED <<fvars, hs, h, named, lock, prev, owner, phase, tvars, runs, over>>

\* close(): it deletes the critical section, so that it is left to the caller,
\* the destructor, that no call of log() is under way.
CloseLogger ==
  /\ phase = "ready" /\ AllIdle
  /\ IF named /\ h # Null
     THEN CloseHandle(h) /\ h' = Null /\ named' = FALSE
     ELSE UNCHANGED <<hs, h, named>>
  /\ phase' = "new"
  /\ UNCHANGED <<fvars, lock, period, prev, owner, tvars, runs, over>>

-----------------------------------------------------------------------------
(* log(), called by thread t.                                              *)

Goto(t, label) == pc' = [pc EXCEPT ![t] = label]

\* Up to write(): only a handle that is NULL is refused, not an invalid one.
Call(t) ==
  /\ phase = "ready" /\ pc[t] = "idle" /\ h # Null
  /\ made < MaxLines
  /\ now' = [now EXCEPT ![t] = clock]
  /\ made' = made + 1
  /\ Goto(t, "lock")
  /\ UNCHANGED <<fvars, cvars, newLogFile, seen, runs, over>>

\* EnterCriticalSection
Lock(t) ==
  /\ pc[t] = "lock"
  /\ lock => owner = Null
  /\ owner' = IF lock THEN t ELSE owner
  /\ Goto(t, "check")
  /\ UNCHANGED <<fvars, hs, h, named, lock, period, prev, phase,
                 now, newLogFile, seen, made, runs, over>>

\* Mistake: the first line of a process is not told from the others.
NewPeriodFirst(t) ==
  \/ IsHourly(period) /\ Hour(prev) # Hour(now[t])
  \/ period = "daily" /\ Day(prev) # Day(now[t])

\* The hour, or else the day, is no longer that of the last line.
NewPeriod(t) ==
  /\ prev # -1
  /\ \/ IsHourly(period) /\ Hour(prev) # Hour(now[t])
     \/ period = "daily" /\ Day(prev) # Day(now[t])

\* GetFileSize(_hFile) fails on a handle that is not a file's.
HasSize == h \in LogHandles

\* The file is larger than _rotateSize.
TooLong == HasSize /\ Len(data[hs[h].file]) > RotateSize

\* _checkRotate is not asked to do anything.
NeverRotates == ~named \/ (RotateSize = 0 /\ period = "none")

Sees(t) == seen' = [seen EXCEPT ![t] = IF NeverRotates THEN "none" ELSE period]

Rotates(t) == ~NeverRotates /\ (NewPeriod(t) \/ TooLong)

\* _checkRotate calls _rotate, with _prev or with the time of this line.
StartRotate(t) ==
  /\ pc[t] = "check"
  /\ Rotates(t)
  /\ newLogFile' = [newLogFile EXCEPT
                      ![t] = Stamped(IF NewPeriod(t) THEN prev ELSE now[t])]
  /\ Sees(t)
  /\ Goto(t, "close")
  /\ UNCHANGED <<fvars, cvars, now, made, runs, over>>

\* Mistake: _copyTm is left out when the file is kept.
KeepFileForgets(t) ==
  /\ pc[t] = "check"
  /\ ~Rotates(t)
  /\ Sees(t)
  /\ Goto(t, "write")
  /\ UNCHANGED <<fvars, cvars, now, newLogFile, made, runs, over>>

\* _checkRotate keeps the file; the time is copied if the file has a size.
KeepFile(t) ==
  /\ pc[t] = "check"
  /\ ~Rotates(t)
  /\ prev' = IF NeverRotates \/ ~HasSize THEN prev ELSE now[t]
  /\ Sees(t)
  /\ Goto(t, "write")
  /\ UNCHANGED <<fvars, hs, h, named, lock, period, owner, phase,
                 now, newLogFile, made, runs, over>>

\* Mistake: the handle is not closed.
RotateCloseNot(t) ==
  /\ pc[t] = "close"
  /\ Goto(t, "stat")
  /\ UNCHANGED <<fvars, cvars, now, newLogFile, seen, made, runs, over>>

\* _rotate: CloseHandle ...
RotateClose(t) ==
  /\ pc[t] = "close"
  /\ CloseHandle(h)
  /\ Goto(t, "stat")
  /\ UNCHANGED <<fvars, h, named, lock, period, prev, owner, phase,
                 now, newLogFile, seen, made, runs, over>>

\* Mistake: the name is taken as it is.
RotateStatNot(t) ==
  /\ pc[t] = "stat"
  /\ Goto(t, "move")
  /\ UNCHANGED <<fvars, cvars, now, newLogFile, seen, made, runs, over>>

\* ... GetFileAttributes(newLogFile) ...
RotateStat(t) ==
  /\ pc[t] = "stat"
  /\ newLogFile' = [newLogFile EXCEPT ![t] = FreeName(@)]
  /\ Goto(t, "move")
  /\ UNCHANGED <<fvars, cvars, now, seen, made, runs, over>>

\* MoveFile wants a file that no handle keeps, and a name that is free.
CanMove(n) == dir[Base] # Null /\ ~Busy(dir[Base]) /\ dir[n] = Null

\* A third rotation within a second finds both its names taken: the file stays
\* where it is, and is opened at its start.
Crowded(n) == dir[Base] # Null /\ n.one /\ dir[n] # Null

MoveBase(n) == dir' = [dir EXCEPT ![n] = dir[Base], ![Base] = Null]

\* Mistake: MoveFile is told to replace the file that has the first name.
RotateMoveOver(t) ==
  /\ pc[t] = "move"
  /\ IF dir[Base] = Null THEN UNCHANGED dir
     ELSE MoveBase(Stamped(newLogFile[t].at))
  /\ Goto(t, "open")
  /\ UNCHANGED <<clock, data, cvars, now, newLogFile, seen, made, runs, over>>

\* ... MoveFile, which may also fail for another reason ...
RotateMove(t) ==
  /\ pc[t] = "move"
  /\ \/ CanMove(newLogFile[t]) /\ MoveBase(newLogFile[t]) /\ UNCHANGED over
     \/ /\ ~CanMove(newLogFile[t])
        /\ over' = (over \/ Crowded(newLogFile[t]))
        /\ UNCHANGED dir
     \/ "move" \in Faults /\ over' = TRUE /\ UNCHANGED dir
  /\ Goto(t, "open")
  /\ UNCHANGED <<clock, data, cvars, now, newLogFile, seen, made, runs>>

\* ... and CreateFile; then _checkRotate copies the time.
RotateOpen(t) ==
  /\ pc[t] = "open"
  /\ OpenBase
  /\ prev' = now[t]
  /\ Goto(t, "write")
  /\ UNCHANGED <<clock, named, lock, period, owner, phase,
                 now, newLogFile, seen, made, runs, over>>

RotateOpenFails(t) ==
  /\ pc[t] = "open"
  /\ CannotOpen("open")
  /\ h' = Invalid
  /\ prev' = now[t]
  /\ Goto(t, "write")
  /\ UNCHANGED <<fvars, hs, named, lock, period, owner, phase,
                 now, newLogFile, seen, made, runs, over>>

LineOf(t) == [by |-> t, id |-> made, at |-> now[t], per |-> seen[t]]

\* A line at a position: over the line that is there, or after the last one.
Put(s, p, x) == IF p < Len(s) THEN [s EXCEPT ![p + 1] = x] ELSE Append(s, x)

\* WriteFile(_hFile, ...), at the handle's position.
WriteLine(t) ==
  /\ pc[t] = "write"
  /\ IF h \in LogHandles
     THEN /\ data' = [data EXCEPT ![hs[h].file] = Put(@, hs[h].pos, LineOf(t))]
          /\ hs' = [hs EXCEPT ![h].pos = @ + 1]
     ELSE UNCHANGED <<data, hs>>
  /\ Goto(t, "unlock")
  /\ UNCHANGED <<clock, dir, h, named, lock, period, prev, owner, phase,
                 now, newLogFile, seen, made, runs, over>>

\* LeaveCriticalSection
Unlock(t) ==
  /\ pc[t] = "unlock"
  /\ owner' = IF lock THEN Null ELSE owner
  /\ Goto(t, "idle")
  /\ now' = [now EXCEPT ![t] = 0]
  /\ newLogFile' = [newLogFile EXCEPT ![t] = Stamped(0)]
  /\ seen' = [seen EXCEPT ![t] = "none"]
  /\ UNCHANGED <<fvars, hs, h, named, lock, period, prev, phase,
                 made, runs, over>>

Step(t) ==
  \/ Lock(t) \/ StartRotate(t) \/ KeepFile(t)
  \/ RotateClose(t) \/ RotateStat(t) \/ RotateMove(t)
  \/ RotateOpen(t) \/ RotateOpenFails(t)
  \/ WriteLine(t) \/ Unlock(t)

-----------------------------------------------------------------------------
(* The rest of the process, and the world.                                 *)

Tick ==
  /\ clock < MaxTime
  /\ clock' = clock + 1
  /\ UNCHANGED <<dir, data, cvars, pc, now, newLogFile, seen, made, runs, over>>

\* Another part of the program opens or closes a handle of its own.
Elsewhere ==
  /\ \E n \in Handle :
       \/ hs[n] = Null /\ hs' = [hs EXCEPT ![n] = Other]
       \/ hs[n] = Other /\ hs' = [hs EXCEPT ![n] = Null]
  /\ UNCHANGED <<fvars, h, named, lock, period, prev, owner, phase, tvars, runs, over>>

\* The process dies, or ends, wherever its threads are, and is started again.
Restart ==
  /\ runs < MaxRuns /\ phase = "ready"
  /\ hs' = [n \in Handle |-> Null]
  /\ h' = Null
  /\ named' = FALSE
  /\ lock' = FALSE
  /\ period' = "none"
  /\ prev' = -1
  /\ owner' = Null
  /\ phase' = "new"
  /\ pc' = [t \in Thread |-> "idle"]
  /\ now' = [t \in Thread |-> 0]
  /\ newLogFile' = [t \in Thread |-> Stamped(0)]
  /\ seen' = [t \in Thread |-> "none"]
  /\ UNCHANGED <<fvars, made, runs, over>>

Main == InitFile \/ InitFileFails \/ Reload \/ CloseLogger

Next ==
  \/ Main
  \/ \E t \in Thread : Call(t) \/ Step(t)
  \/ Tick \/ Elsewhere \/ Restart

Spec == Init /\ [][Next]_vars

-----------------------------------------------------------------------------
\* With the lock a line is written after the last one of the file called
\* _logFile, although the file is not opened for appending: a rotation gives the
\* handle a file that was not there before.  This is so until a second init()
\* opens a file that is there, or the file cannot be moved (MoveFile fails, or a
\* third rotation within a second has no name left): all leave the handle at the
\* start of a file with lines.
AppendsToLog ==
  \A t \in Thread :
    pc[t] = "write" /\ lock /\ h \in LogHandles /\ ~over =>
      hs[h].file = dir[Base] /\ hs[h].pos = Len(data[dir[Base]])

\* With the lock the process has at most one handle of the log, and it is
\* _hFile: no rotation forgets one, and none fails because of one.
OneHandle == lock => LogHandles \subseteq {h}

\* Until then no line that was written is written over, and no file of an
\* earlier rotation replaced.
NoneOverwritten == [][~over' => Kept \subseteq Kept']_vars

\* The lines of a file fall in one period, until then.
PeriodsApart == ~over => OnePeriod
=============================================================================
