------------------------------- MODULE Logger -------------------------------
(***************************************************************************)
(* cpl::Logger on POSIX systems: threads that log to one file, which is    *)
(* renamed and reopened ("rotated") when its size or the hour or the day   *)
(* asks for it.  A step makes one system call.  The threads share _fd,     *)
(* _prev and the file; _mtx protects them, if it is enabled.               *)
(***************************************************************************)
EXTENDS LogFiles

CONSTANTS
  Stdout,      \* STDOUT_FILENO
  Fd,          \* the descriptors the process may have
  Other,       \* what is behind a descriptor that is not the log's
  RotateSize,  \* _rotateSize, in lines; 0 is "no limit"
  EnableLock,  \* _enableLock as asked for in init()
  Asked,       \* the period asked for in init()
  Reloads,     \* the periods reload() may be called with
  Faults,      \* calls that may fail: "init" and "open" (open), "rename"
  MaxLines,    \* bound: lines logged
  MaxRuns      \* bound: how often init() is called, in one process or several

ASSUME LoggerAssumption ==
  /\ Other \notin Nat \cup {Null}
  /\ Stdout \in Fd
  /\ Fd \subseteq Nat
  /\ RotateSize \in Nat
  /\ EnableLock \in BOOLEAN
  /\ Asked \in Period
  /\ Reloads \subseteq Period
  /\ MaxLines \in Nat
  /\ MaxRuns \in Nat

VARIABLES
  fds,         \* the process's descriptors: a file of the log, Other, or Null
  fd,          \* _fd; Null for -1
  named,       \* whether _logFile is set
  lock,        \* _enableLock
  period,      \* _daily and _hourly
  prev,        \* _prev; -1 as the constructor leaves it
  owner,       \* the thread that holds _mtx
  phase,       \* "new" before init() and after close(), "ready" between
  pc,          \* where each thread is in log()
  now,         \* the time it has read
  newLogFile,  \* the name _rotate gives the file; Stamped(0) outside of it
  seen,        \* the period _checkRotate found in force (history)
  made,        \* lines logged so far
  replaced,    \* lines of the files replaced by a third rotation of a second
               \* (history)
  runs         \* how often init() has been called

cvars == <<fds, fd, named, lock, period, prev, owner, phase>>
tvars == <<pc, now, newLogFile, seen, made, replaced>>
vars == <<fvars, cvars, tvars, runs>>

PC == {"idle", "lock", "check", "close", "stat", "rename", "open", "write",
       "unlock"}

TypeOK ==
  /\ FilesTypeOK
  /\ fds \in [Fd -> Nat \cup {Null, Other}]
  /\ fd \in Fd \cup {Null}
  /\ named \in BOOLEAN
  /\ lock \in BOOLEAN
  /\ period \in Period
  /\ prev \in -1 .. MaxTime
  /\ owner \in Thread \cup {Null}
  /\ phase \in {"new", "ready"}
  /\ pc \in [Thread -> PC]
  /\ now \in [Thread -> 0 .. MaxTime]
  /\ newLogFile \in [Thread -> Name \ {Base}]
  /\ seen \in [Thread -> Period]
  /\ made \in Nat
  /\ replaced \subseteq Line
  /\ runs \in Nat

\* Logger::Logger, in a process that has only its standard output open.
Init ==
  /\ FilesInit
  /\ fds = [n \in Fd |-> IF n = Stdout THEN Other ELSE Null]
  /\ fd = Stdout
  /\ named = FALSE
  /\ lock = FALSE
  /\ period = "none"
  /\ prev = -1
  /\ owner = Null
  /\ phase = "new"
  /\ pc = [t \in Thread |-> "idle"]
  /\ now = [t \in Thread |-> 0]
  /\ newLogFile = [t \in Thread |-> Stamped(0)]
  /\ seen = [t \in Thread |-> "none"]
  /\ made = 0
  /\ replaced = {}
  /\ runs = 0

AllIdle == \A t \in Thread : pc[t] = "idle"

\* open() returns the lowest descriptor that is free.
FreeFd == {n \in Fd : fds[n] = Null}
LowestFree == CHOOSE n \in FreeFd : \A m \in FreeFd : n <= m

\* open(_logFile, O_CREAT | O_WRONLY | O_APPEND)
OpenBase ==
  /\ FreeFd # {}
  /\ MakeBase
  /\ fd' = LowestFree
  /\ fds' = [fds EXCEPT ![LowestFree] = BaseFile]

-----------------------------------------------------------------------------
(* What the program's main thread does.                                    *)

\* _getAbsFilePath: the path of the directory, if there is one, and the name go
\* into _logFile; it stays there when the file cannot be opened.  A path that is
\* refused changes nothing.
Named == named' = TRUE

\* What init(logFile) makes of the period asked for: it calls init(fd) without
\* enableTid, so daily arrives as enableTid and hourly as daily.
Shifted(p) == IF IsHourly(p) THEN "daily" ELSE "none"

\* init(logFile, ...)
InitFile ==
  /\ phase = "new" /\ runs < MaxRuns
  /\ OpenBase
  /\ Named
  /\ lock' = EnableLock
  /\ period' = Shifted(Asked)
  /\ phase' = "ready"
  /\ runs' = runs + 1
  /\ UNCHANGED <<clock, prev, owner, tvars>>

\* The file cannot be opened: it is not writable, or has the empty name.
InitFileFails ==
  /\ phase = "new" /\ runs < MaxRuns
  /\ "init" \in Faults
  /\ fd' = Null
  /\ Named
  /\ runs' = runs + 1
  /\ UNCHANGED <<fvars, fds, lock, period, prev, owner, phase, tvars>>

\* init(fd, ...) with an open descriptor, here the standard output: _logFile
\* stays empty, and nothing is rotated.
InitFd ==
  /\ phase = "new" /\ runs < MaxRuns
  /\ fd' = Stdout
  /\ lock' = EnableLock
  /\ period' = Asked
  /\ phase' = "ready"
  /\ runs' = runs + 1
  /\ UNCHANGED <<fvars, fds, named, prev, owner, tvars>>

\* reload(daily, hourly), which takes no lock.
Reload ==
  /\ phase = "ready"
  /\ period' \in Reloads
  /\ UNCHANGED <<fvars, fds, fd, named, lock, prev, owner, phase, tvars, runs>>

\* close(): a descriptor that init(logFile) opened is closed, any other kept.  It
\* waits for nobody and destroys the mutex, which no thread may hold or wait for
\* then: that no call of log() is under way is left to its caller, the destructor.
CloseLogger ==
  /\ phase = "ready" /\ AllIdle
  /\ IF named /\ fd # Null
     THEN /\ fds' = [fds EXCEPT ![fd] = Null]
          /\ fd' = Null
          /\ named' = FALSE
     ELSE UNCHANGED <<fds, fd, named>>
  /\ phase' = "new"
  /\ UNCHANGED <<fvars, lock, period, prev, owner, tvars, runs>>

-----------------------------------------------------------------------------
(* log(), called by thread t.                                              *)

Goto(t, label) == pc' = [pc EXCEPT ![t] = label]

\* Where log() puts the terminator of a line in its buffer of B bytes: h and m
\* are the lengths of the header and of the message before they are cut, and
\* the newline and the terminator are appended by strcat, which cuts nothing.
TerminatorAt(B, h, m) ==
  LET head == IF h < B THEN h ELSE B - 1
      room == B - head - 1
      body == IF room = 0 THEN 0 ELSE IF m < room THEN m ELSE room - 1
  IN  head + body + 1

\* Up to write(): the time is read before the lock is asked for.  A logger
\* whose _fd is -1 says so on stderr and returns.
Call(t) ==
  /\ phase = "ready" /\ pc[t] = "idle" /\ fd # Null
  /\ made < MaxLines
  /\ now' = [now EXCEPT ![t] = clock]
  /\ made' = made + 1
  /\ Goto(t, "lock")
  /\ UNCHANGED <<fvars, cvars, newLogFile, seen, replaced, runs>>

\* Mistake: the mutex is not taken.
LockNot(t) ==
  /\ pc[t] = "lock"
  /\ Goto(t, "check")
  /\ UNCHANGED <<fvars, cvars, now, newLogFile, seen, made, replaced, runs>>

Lock(t) ==
  /\ pc[t] = "lock"
  /\ lock => owner = Null
  /\ owner' = IF lock THEN t ELSE owner
  /\ Goto(t, "check")
  /\ UNCHANGED <<fvars, fds, fd, named, lock, period, prev, phase,
                 now, newLogFile, seen, made, replaced, runs>>

\* Mistake: the first line of a process is not told from the others.
NewPeriodFirst(t) ==
  \/ IsHourly(period) /\ Hour(prev) # Hour(now[t])
  \/ period = "daily" /\ Day(prev) # Day(now[t])

\* The hour, or else the day, is no longer that of the last line.
NewPeriod(t) ==
  /\ prev # -1
  /\ \/ IsHourly(period) /\ Hour(prev) # Hour(now[t])
     \/ period = "daily" /\ Day(prev) # Day(now[t])

\* Mistake: a file of one line too many is kept.
TooLongLate == dir[Base] # Null /\ Len(data[dir[Base]]) > RotateSize + 1

\* stat(_logFile): the file is larger than _rotateSize.
TooLong == dir[Base] # Null /\ Len(data[dir[Base]]) > RotateSize

\* _checkRotate is not asked to do anything.
NeverRotates == ~named \/ (RotateSize = 0 /\ period = "none")

Sees(t) == seen' = [seen EXCEPT ![t] = IF NeverRotates THEN "none" ELSE period]

Rotates(t) == ~NeverRotates /\ (NewPeriod(t) \/ TooLong)

\* _checkRotate calls _rotate, with _prev or with the time of this line.
StartRotate(t) ==
  /\ pc[t] = "check"
  /\ Rotates(t)
  /\ newLogFile' = [newLogFile EXCEPT
                      ![t] = Stamped(IF NewPeriod(t) THEN prev ELSE now[t])]
  /\ Sees(t)
  /\ Goto(t, "close")
  /\ UNCHANGED <<fvars, cvars, now, made, replaced, runs>>

\* Mistake: _copyTm is left out when the file is kept.
KeepFileForgets(t) ==
  /\ pc[t] = "check"
  /\ ~Rotates(t)
  /\ Sees(t)
  /\ Goto(t, "write")
  /\ UNCHANGED <<fvars, cvars, now, newLogFile, made, replaced, runs>>

\* _checkRotate keeps the file; unless there is none, the time is copied.
KeepFile(t) ==
  /\ pc[t] = "check"
  /\ ~Rotates(t)
  /\ prev' = IF NeverRotates \/ dir[Base] = Null THEN prev ELSE now[t]
  /\ Sees(t)
  /\ Goto(t, "write")
  /\ UNCHANGED <<fvars, fds, fd, named, lock, period, owner, phase,
                 now, newLogFile, made, replaced, runs>>

\* Mistake: the descriptor is not closed.
RotateCloseNot(t) ==
  /\ pc[t] = "close"
  /\ Goto(t, "stat")
  /\ UNCHANGED <<fvars, cvars, now, newLogFile, seen, made, replaced, runs>>

\* _rotate: close(_fd), whatever it stands for by now ...
RotateClose(t) ==
  /\ pc[t] = "close"
  /\ fds' = IF fd = Null THEN fds ELSE [fds EXCEPT ![fd] = Null]
  /\ Goto(t, "stat")
  /\ UNCHANGED <<fvars, fd, named, lock, period, prev, owner, phase,
                 now, newLogFile, seen, made, replaced, runs>>

\* Mistake: the name is taken as it is.
RotateStatNot(t) ==
  /\ pc[t] = "stat"
  /\ Goto(t, "rename")
  /\ UNCHANGED <<fvars, cvars, now, newLogFile, seen, made, replaced, runs>>

\* ... stat(newLogFile) ...
RotateStat(t) ==
  /\ pc[t] = "stat"
  /\ newLogFile' = [newLogFile EXCEPT ![t] = FreeName(@)]
  /\ Goto(t, "rename")
  /\ UNCHANGED <<fvars, cvars, now, seen, made, replaced, runs>>

\* The lines that are lost when a file is renamed to n although there is a file
\* n: a third rotation within a second finds both its names taken.
Crowded(n) == IF n.one /\ dir[n] # Null THEN LinesIn(dir[n]) ELSE {}

\* ... rename(), which replaces a file of the new name, and may fail ...
RotateRename(t) ==
  /\ pc[t] = "rename"
  /\ \/ /\ dir[Base] # Null
        /\ dir' = [dir EXCEPT ![newLogFile[t]] = dir[Base], ![Base] = Null]
        /\ replaced' = replaced \cup Crowded(newLogFile[t])
     \/ /\ dir[Base] = Null \/ "rename" \in Faults
        /\ UNCHANGED <<dir, replaced>>
  /\ Goto(t, "open")
  /\ UNCHANGED <<clock, data, cvars, now, newLogFile, seen, made, runs>>

\* ... and open(); then _checkRotate copies the time.
RotateOpen(t) ==
  /\ pc[t] = "open"
  /\ OpenBase
  /\ prev' = now[t]
  /\ Goto(t, "write")
  /\ UNCHANGED <<clock, named, lock, period, owner, phase,
                 now, newLogFile, seen, made, replaced, runs>>

RotateOpenFails(t) ==
  /\ pc[t] = "open"
  /\ FreeFd = {} \/ "open" \in Faults
  /\ fd' = Null
  /\ prev' = now[t]
  /\ Goto(t, "write")
  /\ UNCHANGED <<fvars, fds, named, lock, period, owner, phase,
                 now, newLogFile, seen, made, replaced, runs>>

LineOf(t) == [by |-> t, id |-> made, at |-> now[t], per |-> seen[t]]

\* write(_fd, ...), with O_APPEND, to whatever _fd stands for.  Its result is
\* not looked at.
WriteLine(t) ==
  /\ pc[t] = "write"
  /\ data' = IF fd # Null /\ fds[fd] \notin {Null, Other}
             THEN [data EXCEPT ![fds[fd]] = Append(@, LineOf(t))] ELSE data
  /\ Goto(t, "unlock")
  /\ UNCHANGED <<clock, dir, cvars, now, newLogFile, seen, made, replaced, runs>>

\* Mistake: the mutex is released only if the logger has a file.
UnlockNamed(t) ==
  /\ pc[t] = "unlock"
  /\ owner' = IF lock /\ named THEN Null ELSE owner
  /\ Goto(t, "idle")
  /\ now' = [now EXCEPT ![t] = 0]
  /\ newLogFile' = [newLogFile EXCEPT ![t] = Stamped(0)]
  /\ seen' = [seen EXCEPT ![t] = "none"]
  /\ UNCHANGED <<fvars, fds, fd, named, lock, period, prev, phase,
                 made, replaced, runs>>

Unlock(t) ==
  /\ pc[t] = "unlock"
  /\ owner' = IF lock THEN Null ELSE owner
  /\ Goto(t, "idle")
  /\ now' = [now EXCEPT ![t] = 0]
  /\ newLogFile' = [newLogFile EXCEPT ![t] = Stamped(0)]
  /\ seen' = [seen EXCEPT ![t] = "none"]
  /\ UNCHANGED <<fvars, fds, fd, named, lock, period, prev, phase,
                 made, replaced, runs>>

Step(t) ==
  \/ Lock(t) \/ StartRotate(t) \/ KeepFile(t)
  \/ RotateClose(t) \/ RotateStat(t) \/ RotateRename(t)
  \/ RotateOpen(t) \/ RotateOpenFails(t)
  \/ WriteLine(t) \/ Unlock(t)

-----------------------------------------------------------------------------
(* The rest of the process, and the world.                                 *)

Tick ==
  /\ clock < MaxTime
  /\ clock' = clock + 1
  /\ UNCHANGED <<dir, data, cvars, tvars, runs>>

\* Another part of the program opens or closes a descriptor of its own.
Elsewhere ==
  /\ \/ FreeFd # {} /\ fds' = [fds EXCEPT ![LowestFree] = Other]
     \/ \E n \in Fd \ {Stdout} : fds[n] = Other /\ fds' = [fds EXCEPT ![n] = Null]
  /\ UNCHANGED <<fvars, fd, named, lock, period, prev, owner, phase, tvars, runs>>

\* The process dies, or ends, wherever its threads are, and is started again.
Restart ==
  /\ runs < MaxRuns /\ phase = "ready"
  /\ fds' = [n \in Fd |-> IF n = Stdout THEN Other ELSE Null]
  /\ fd' = Stdout
  /\ named' = FALSE
  /\ lock' = FALSE
  /\ period' = "none"
  /\ prev' = -1
  /\ owner' = Null
  /\ phase' = "new"
  /\ pc' = [t \in Thread |-> "idle"]
  /\ now' = [t \in Thread |-> 0]
  /\ newLogFile' = [t \in Thread |-> Stamped(0)]
  /\ seen' = [t \in Thread |-> "none"]
  /\ UNCHANGED <<fvars, made, replaced, runs>>

Main == InitFile \/ InitFileFails \/ InitFd \/ Reload \/ CloseLogger

Next ==
  \/ Main
  \/ \E t \in Thread : Call(t) \/ Step(t)
  \/ Tick \/ Elsewhere \/ Restart

Spec == Init /\ [][Next]_vars

\* Every thread keeps running.  (The lines are bounded, and so is how often a
\* thread that waits for the mutex is overtaken.)
FairSpec == Spec /\ \A t \in Thread : WF_vars(Step(t))

-----------------------------------------------------------------------------
\* With the lock a line goes to the file called _logFile: not to one that has
\* been renamed, and not to a descriptor that another part of the program was
\* given between the close() and the open() of a rotation.  (A logger that was
\* handed the standard output writes there.)
WritesReachLog ==
  \A t \in Thread :
    pc[t] = "write" /\ lock /\ named /\ fd \notin {Null, Stdout} =>
      fds[fd] # Null /\ fds[fd] = dir[Base]

\* With the lock the process has at most one descriptor of the log, and it is
\* _fd: no rotation forgets one.
OneDescriptor ==
  lock => \A n \in Fd : fds[n] \notin {Null, Other} => n = fd /\ named

\* With the lock no line that was written is lost: not by a rotation, not by a
\* file that has the name already, not by the end of the process.  Two rotations
\* a second have two names; a third one replaces the second's file, and its
\* lines are the only ones that go.
LogKept == INSTANCE LogStore WITH kept <- Kept \cup replaced
LinesKept == LogKept!Spec

\* With the lock, and if no rename fails, a file has at most one line more
\* than _rotateSize, however many threads log: the size is looked at and the
\* line written in one turn.
SizeBounded ==
  RotateSize > 0 /\ EnableLock /\ "rename" \notin Faults =>
    \A f \in Files : Len(data[f]) <= RotateSize + 1

\* A call of log() comes back.
CallReturns == \A t \in Thread : pc[t] # "idle" ~> pc[t] = "idle"
=============================================================================
