-------------------------- MODULE AioReadAllProofs --------------------------
(***************************************************************************)
(* The server that reads whole messages keeps the library's invariants,    *)
(* loses no edge and echoes whole messages, for every value of the         *)
(* constants.  The steps it shares with AioEcho are steps of Next, so that *)
(* AioEchoProofs says what they keep.                                      *)
(***************************************************************************)
EXTENDS AioReadAll, AioEchoProofs

USE KernelAssumption, TimeoutAssumption, ProactorAssumption, AioEchoAssumption,
    AioReadAllAssumption

-----------------------------------------------------------------------------
(* Types.                                                                  *)

\* What a read() to recvBuf + from leaves in the buffers and in taken.
LEMMA ReceivedAtOK ==
  ASSUME CallInv, NEW o \in Obj, NEW c \in Conn \cup {Null}, NEW r, r.ret \in Int,
         r.ret > 0 => c \in Conn, NEW from \in Nat
  PROVE  ReceivedAt(o, c, r, from) \in [Obj -> Buffer] /\ AfterRead(c, r) \in [Conn -> Nat]
<1>1. taken \in [Conn -> Nat] /\ recvBuf \in [Obj -> Buffer]
  BY DEF CallInv, KernelTypeOK, EchoTypeOK
<1> DEFINE b == [i \in 1..BufSize |->
                   IF from < i /\ i <= from + r.ret THEN taken[c] + i - from
                   ELSE recvBuf[o][i]]
<1>2. ASSUME NEW i \in 1..BufSize PROVE b[i] \in Nat
  <2>1. recvBuf[o][i] \in Nat
    BY <1>1 DEF Buffer
  <2>2. CASE from < i /\ i <= from + r.ret
    <3>1. c \in Conn /\ taken[c] \in Nat
      BY <1>1, <2>2
    <3>2. taken[c] + i - from \in Nat
      BY <2>2, <3>1
    <3> QED
      BY <2>2, <3>2
  <2> QED
    BY <2>1, <2>2
<1>3. b \in Buffer
  BY <1>2 DEF Buffer
<1>4. ReceivedAt(o, c, r, from) = [recvBuf EXCEPT ![o] = b]
  BY <1>1 DEF ReceivedAt
<1> HIDE DEF b
<1>5. ReceivedAt(o, c, r, from) \in [Obj -> Buffer]
  BY <1>1, <1>3, <1>4
<1>6. AfterRead(c, r) \in [Conn -> Nat]
  BY <1>1 DEF AfterRead
<1> QED
  BY <1>5, <1>6

\* The 0 behind the bytes leaves buffers buffers, and the other clients' alone.
LEMMA TerminatedOK ==
  ASSUME NEW buf \in [Obj -> Buffer], NEW o \in Obj, NEW n \in Nat
  PROVE  /\ Terminated(buf, o, n) \in [Obj -> Buffer]
         /\ \A p \in Obj \ {o} : Terminated(buf, o, n)[p] = buf[p]
<1> DEFINE b == [buf[o] EXCEPT ![n + 1] = 0]
<1>1. b \in Buffer
  BY DEF Buffer
<1>2. Terminated(buf, o, n) = [buf EXCEPT ![o] = b]
  BY DEF Terminated
<1> HIDE DEF b
<1> QED
  BY <1>1, <1>2

\* EchoClient::startRecv
LEMMA StartRecvAllTyped ==
  ASSUME CallInv, now \in Nat, NEW S, Sound(S, BufSize), NEW o \in Obj,
         StartRecvAll(S, o), sendBuf' \in [Obj -> Buffer]
  PROVE  CallInv'
<1> DEFINE c == soc[o]
           r == IF S.tok[Rt(o)].mode = "N" THEN ReadResult(c, MsgSize)
                ELSE Result(-1, "busy")
<1>1. /\ px' = ReadAll(S, o, MsgSize, r, now)
      /\ taken' = AfterRead(c, r)
      /\ recvBuf' = ReceivedAt(o, c, r, 0)
      /\ UNCHANGED <<link, sent, out, got, fin, rst, backlog, watch, ready,
                     soc, deleted, live>>
  BY DEF StartRecvAll
<1>2. c \in Conn \cup {Null} /\ MsgSize \in Nat /\ MsgSize <= BufSize
  BY DEF CallInv
<1>3. IsResult(r, MsgSize) /\ (r.ret > 0 => c \in Conn)
  <2>1. /\ IsResult(Result(-1, "busy"), MsgSize)
        /\ ~(Result(-1, "busy").ret > 0)
    BY DEF IsResult, Result, Errno
  <2>2. /\ IsResult(ReadResult(c, MsgSize), MsgSize)
        /\ ReadResult(c, MsgSize).ret > 0 => c \in Conn
    BY <1>2, ReadResultOK DEF CallInv
  <2> QED
    BY <2>1, <2>2
<1> HIDE DEF c, r
<1>4. Sound(px', BufSize)
  BY <1>1, <1>2, <1>3, ReadAllSound
<1>5. taken' \in [Conn -> Nat] /\ recvBuf' \in [Obj -> Buffer]
  BY <1>1, <1>2, <1>3, ReceivedAtOK DEF IsResult
<1> QED
  BY <1>1, <1>4, <1>5 DEF CallInv, KernelTypeOK, EchoTypeOK, ReadyWatched

\* EPOLLIN on a socket
LEMMA ReadEventAllTyped ==
  ASSUME CallInv, NEW e, e.h \in Obj, ReadEventAll(e)
  PROVE  CallInv'
<1> PICK o \in Obj : o = e.h
  OBVIOUS
<1> DEFINE c == soc[o]
           t == px.tok[Rt(o)]
           r == ReadResult(c, t.bufSize - t.ioSize)
<1>1. /\ UNCHANGED <<link, sent, out, got, fin, rst, backlog, watch, ready,
                     soc, live, sendBuf>>
      /\ deleted' = {}
  BY DEF ReadEventAll
<1>2. CASE t.mode # "A"
  <2>1. UNCHANGED <<px, taken, recvBuf>>
    BY <1>2 DEF ReadEventAll
  <2> QED
    BY <1>1, <2>1 DEF CallInv, KernelTypeOK, EchoTypeOK, ReadyWatched
<1>3. CASE t.mode = "A"
  <2>1. /\ px' = OnReadAll(px, o, r)
        /\ taken' = AfterRead(c, r)
        /\ recvBuf' = ReceivedAt(o, c, r, t.ioSize)
    BY <1>3 DEF ReadEventAll
  <2>2. c \in Conn \cup {Null} /\ t \in TokenRec /\ t.ioSize <= t.bufSize
    BY TokenPair DEF CallInv, Sound, Library
  <2>3. t.bufSize \in Nat /\ t.ioSize \in Nat
    BY <2>2 DEF TokenRec
  <2>4. t.bufSize - t.ioSize \in Nat
    BY <2>2, <2>3
  <2>5. /\ IsResult(r, t.bufSize - t.ioSize) /\ r.ret \in Int
        /\ r.ret > 0 => c \in Conn
    BY <2>2, <2>4, ReadResultOK DEF CallInv, IsResult
  <2> HIDE DEF r, c
  <2>6. Sound(px', BufSize)
    BY <2>1, <2>5, OnReadAllSound DEF CallInv
  <2>7. taken' \in [Conn -> Nat] /\ recvBuf' \in [Obj -> Buffer]
    BY <2>1, <2>2, <2>3, <2>5, ReceivedAtOK
  <2> QED
    BY <1>1, <2>6, <2>7 DEF CallInv, KernelTypeOK, EchoTypeOK, ReadyWatched
<1> QED
  BY <1>2, <1>3

\* Server::onAccept
LEMMA OnAcceptAllTyped ==
  ASSUME CallInv, now \in Nat, NEW c \in Conn \cup {Null}, OnAcceptAll(c),
         link' \in [Conn -> {"idle", "backlog", "open", "blocking", "closed"}],
         backlog' \in Seq(Conn), UNCHANGED deleted
  PROVE  CallInv'
<1> DEFINE r == ReadResult(c, MsgSize)
<1> PICK o \in Obj \ live, rtv \in Garbage, wtv \in Garbage :
      /\ px' = ReadAll(NewSocket(px, o, rtv, wtv), o, MsgSize, r, now)
      /\ taken' = AfterRead(c, r)
      /\ soc' = [soc EXCEPT ![o] = c]
      /\ live' = live \cup {o}
      /\ recvBuf' = ReceivedAt(o, c, r, 0)
      /\ IF c = Null THEN UNCHANGED <<watch, ready>>
         ELSE /\ watch' = [watch EXCEPT ![c] = o]
              /\ ready' = IF Events(c) = {} THEN ready ELSE ready \cup {c}
      /\ UNCHANGED <<sent, out, got, fin, rst, sendBuf>>
  BY DEF OnAcceptAll
<1>1. /\ IsResult(r, MsgSize) /\ r.ret \in Int /\ MsgSize \in Nat /\ MsgSize <= BufSize
      /\ r.ret > 0 => c \in Conn
  BY ReadResultOK DEF CallInv, IsResult
<1> HIDE DEF r
<1>2. Sound(px', BufSize)
  <2>1. rtv \in Nat /\ wtv \in Nat
    OBVIOUS
  <2>2. Sound(NewSocket(px, o, rtv, wtv), BufSize)
    BY <2>1, NewSocketSound DEF CallInv
  <2> QED
    BY <1>1, <2>2, ReadAllSound
<1>3. taken' \in [Conn -> Nat] /\ recvBuf' \in [Obj -> Buffer]
  BY <1>1, ReceivedAtOK
<1>4. /\ watch' \in [Conn -> Obj \cup {Null}]
      /\ ready' \subseteq Conn \cup {Listener}
      /\ ReadyWatched'
  <2>1. CASE c = Null
    BY <2>1 DEF CallInv, KernelTypeOK, ReadyWatched
  <2>2. CASE c # Null
    <3>1. /\ watch' = [watch EXCEPT ![c] = o]
          /\ ready' \subseteq ready \cup {c}
      BY <2>2
    <3> QED
      BY <2>2, <3>1 DEF CallInv, KernelTypeOK, ReadyWatched
  <2> QED
    BY <2>1, <2>2
<1>5. KernelTypeOK'
  BY <1>3, <1>4 DEF CallInv, KernelTypeOK
<1>6. EchoTypeOK' /\ soc' \in [Obj -> Conn \cup {Null}]
  BY <1>3 DEF CallInv, EchoTypeOK
<1> QED
  BY <1>2, <1>4, <1>5, <1>6 DEF CallInv

\* What a callback may do.
LEMMA CallbackAllCases ==
  ASSUME NEW S, NEW t, NEW err, NEW n, CallbackAll(S, t, err, n)
  PROVE  \/ Delete(S, Owner(t))
         \/ ReplyAll(S, Owner(t), n) \/ NextMessage(S, Owner(t), n)
BY DEF CallbackAll

\* It keeps the types.
LEMMA CallbackAllTyped ==
  ASSUME CallInv, now \in Nat, NEW S, Sound(S, BufSize), NEW t \in Token,
         NEW err, NEW n \in Nat, n <= BufSize, CallbackAll(S, t, err, n)
  PROVE  CallInv'
<1>1. Owner(t) \in Obj
  BY DEF Token, Owner
<1>2. recvBuf \in [Obj -> Buffer] /\ sendBuf \in [Obj -> Buffer]
  BY DEF CallInv, EchoTypeOK
<1>3. CASE Delete(S, Owner(t))
  BY <1>1, <1>3, DeleteTyped
<1>4. CASE ReplyAll(S, Owner(t), n)
  <2>1. WriteBack(S, Owner(t), n) /\ recvBuf' = Terminated(recvBuf, Owner(t), n)
    BY <1>4 DEF ReplyAll
  <2>2. recvBuf' \in [Obj -> Buffer]
    BY <1>1, <1>2, <2>1, TerminatedOK
  <2> QED
    BY <1>1, <2>1, <2>2, WriteBackTyped
<1>5. CASE NextMessage(S, Owner(t), n)
  <2>1. StartRecvAll(S, Owner(t)) /\ sendBuf' = Terminated(sendBuf, Owner(t), n)
    BY <1>5 DEF NextMessage
  <2>2. sendBuf' \in [Obj -> Buffer]
    BY <1>1, <1>2, <2>1, TerminatedOK
  <2> QED
    BY <1>1, <2>1, <2>2, StartRecvAllTyped
<1> QED
  BY <1>3, <1>4, <1>5, CallbackAllCases

\* The turns of the loop of Acceptor::onRead that call back
AcceptCalls == AcceptAll \/ AcceptAllFails \/ AcceptAllUnset

\* A step is one of AioEcho's, or one of those that read messages.
LEMMA AllSteps ==
  [ServerAll \/ Environment]_vars =>
    \/ [Next]_vars
    \/ AcceptCalls \/ CompleteAll
    \/ \E e \in batch : ReadEventAll(e)
<1> SUFFICES ASSUME NEW e \in batch \cup {cur},
                    \/ ClosedEvent(e) \/ AcceptEvent(e)
                    \/ ReadEventAll(e) \/ WriteEvent(e)
             PROVE  Next \/ \E f \in batch : ReadEventAll(f)
  BY DEF ServerAll, AcceptCalls, Next, Server
<1> QED
  BY DEF Next, Server, Dispatch, ReadEventAll, Take

\* The inductive invariant's types.
LEMMA AllTypeInv == TypeInv /\ [ServerAll \/ Environment]_vars => TypeInv'
<1> SUFFICES ASSUME TypeInv, CallInv, LoopTyped, [ServerAll \/ Environment]_vars
             PROVE  TypeInv'
  BY TypeInvSplit
<1>1. CASE [Next]_vars
  BY <1>1, NextTypeInv
<1>2. CASE AcceptCalls
  <2>1. ASSUME backlog # <<>>
        PROVE  Head(backlog) \in Conn /\ Tail(backlog) \in Seq(Conn)
    BY <2>1 DEF CallInv, KernelTypeOK
  <2>2. /\ link' \in [Conn -> {"idle", "backlog", "open", "blocking", "closed"}]
        /\ backlog' \in Seq(Conn) /\ UNCHANGED deleted
    BY <1>2, <2>1 DEF AcceptCalls, AcceptAll, AcceptAllFails, AcceptAllUnset, loopVars,
                      CallInv, KernelTypeOK
  <2>3. \E c \in Conn \cup {Null} : OnAcceptAll(c)
    BY <1>2, <2>1 DEF AcceptCalls, AcceptAll, AcceptAllFails, AcceptAllUnset
  <2>4. CallInv'
    BY <2>2, <2>3, OnAcceptAllTyped DEF LoopTyped
  <2> QED
    BY <1>2, <2>4, TypeInvSplitPrime
       DEF AcceptCalls, AcceptAll, AcceptAllFails, AcceptAllUnset, loopVars, LoopTyped, PC
<1>3. CASE CompleteAll
  <2> DEFINE t == Head(px.queue)
             S == Dequeue(px)
  <2>1. t \in Token /\ Sound(S, BufSize)
    BY <1>3, DequeueSound DEF CompleteAll, CallInv
  <2>2. px.tok[t].ioSize \in Nat /\ px.tok[t].ioSize <= BufSize
    BY <2>1 DEF CallInv, Sound, Library, TokenRec
  <2>3. CallbackAll(S, t, px.tok[t].err, px.tok[t].ioSize)
    BY <1>3 DEF CompleteAll
  <2>4. UNCHANGED <<pc, batch, cur, scan, stop, now>>
    BY <1>3 DEF CompleteAll
  <2> HIDE DEF t, S
  <2>5. CallInv'
    BY <2>1, <2>2, <2>3, CallbackAllTyped DEF LoopTyped
  <2> QED
    BY <2>4, <2>5, TypeInvSplitPrime DEF LoopTyped
<1>4. ASSUME NEW e \in batch, ReadEventAll(e)
      PROVE  TypeInv'
  <2>1. e \in EventRec /\ e.h \in Obj
    BY <1>4 DEF ReadEventAll, LoopTyped, EventRec, Handler
  <2>2. CallInv'
    BY <1>4, <2>1, ReadEventAllTyped
  <2> QED
    BY <1>4, <2>1, <2>2, TypeInvSplitPrime DEF ReadEventAll, Take, PC, LoopTyped
<1> QED
  BY <1>1, <1>2, <1>3, <1>4, AllSteps

\* The completion queue is empty where it must be.
LEMMA AllDrained == TypeInv /\ Drained /\ [ServerAll \/ Environment]_vars => Drained'
<1> SUFFICES ASSUME TypeInv, Drained, [ServerAll \/ Environment]_vars
             PROVE  Drained'
  OBVIOUS
<1>1. CASE [Next]_vars
  BY <1>1, NextDrained
<1>2. CASE AcceptCalls \/ CompleteAll \/ \E e \in batch : ReadEventAll(e)
  BY <1>2 DEF AcceptCalls, AcceptAll, AcceptAllFails, AcceptAllUnset, CompleteAll,
              ReadEventAll, loopVars, Drained
<1> QED
  BY <1>1, <1>2, AllSteps

-----------------------------------------------------------------------------
(* Memory.                                                                 *)

\* EchoClient::startRecv of an idle client
LEMMA StartRecvAllEffect ==
  ASSUME CallInv, now \in Nat, WatchInv, NEW S \in Library, QueueExact(S),
         NEW o \in Obj, S.tok[Rt(o)].mode = "N", S.tok[Wt(o)].mode = "N",
         StartRecvAll(S, o)
  PROVE  /\ Step(S, px', o) /\ Busy(px', o)
         /\ live' = live /\ deleted' = deleted /\ WatchInv'
<1> DEFINE r == ReadResult(soc[o], MsgSize)
<1>1. /\ px' = ReadAll(S, o, MsgSize, r, now)
      /\ UNCHANGED <<watch, soc, live, deleted>>
  BY DEF StartRecvAll
<1>2. r.ret \in Int /\ r.err \in Errno
  BY ReadResultOK DEF CallInv, IsResult
<1> HIDE DEF r
<1>3. Moves(S, px', Rt(o))
  BY <1>1, <1>2, ReadAllMoves
<1>4. Step(S, px', o) /\ px'.tok[Rt(o)].mode # "N"
  BY <1>3, TokenPair, Owners, MovesStep
<1>5. px'.tok[Wt(o)].mode = "N"
  BY <1>3, TokenPair, Owners DEF Moves
<1> QED
  BY <1>1, <1>4, <1>5 DEF Busy, WatchInv

\* Server::onAccept creates a client where none lives, and starts its read.
LEMMA OnAcceptAllMem ==
  ASSUME RunInv, NEW c \in Conn \cup {Null}, OnAcceptAll(c), UNCHANGED <<batch, deleted>>
  PROVE  /\ Owned(px', live', Announced') /\ WatchInv'
         /\ live \subseteq live'
         /\ Announced' \subseteq live' \cup {Listener}
<1> DEFINE r == ReadResult(c, MsgSize)
<1> PICK o \in Obj \ live, rtv \in Garbage, wtv \in Garbage :
      /\ px' = ReadAll(NewSocket(px, o, rtv, wtv), o, MsgSize, r, now)
      /\ soc' = [soc EXCEPT ![o] = c]
      /\ live' = live \cup {o}
      /\ IF c = Null THEN watch' = watch
         ELSE watch' = [watch EXCEPT ![c] = o]
  BY DEF OnAcceptAll
<1> DEFINE S == NewSocket(px, o, rtv, wtv)
<1>1. /\ r.ret \in Int /\ r.err \in Errno
  BY ReadResultOK DEF RunInv, CallInv, IsResult
<1> HIDE DEF r
<1>2. Forgotten(px, o) /\ rtv \in Nat /\ wtv \in Nat
  BY DEF RunInv, MemInv, Owned, Forgotten, CallInv, Sound, Library
<1>3. /\ Step(px, S, o) /\ S.tok[Rt(o)].mode = "N" /\ S.tok[Wt(o)].mode = "N"
  BY <1>2, RunTypes, NewSocketStep
<1> HIDE DEF S
<1>4. S \in Library /\ QueueExact(S)
  BY <1>3 DEF Step
<1>5. Moves(S, px', Rt(o))
  BY <1>1, <1>3, <1>4, RunTypes, ReadAllMoves DEF S
<1>6. Step(S, px', o) /\ Busy(px', o)
  <2>1. Step(S, px', o) /\ px'.tok[Rt(o)].mode # "N"
    BY <1>3, <1>4, <1>5, TokenPair, Owners, MovesStep
  <2>2. px'.tok[Wt(o)].mode = "N"
    BY <1>3, <1>5, TokenPair, Owners DEF Moves
  <2> QED
    BY <2>1, <2>2 DEF Busy
<1>7. Step(px, px', o)
  BY <1>3, <1>6, RunTypes, StepTrans
<1>8. WatchInv'
  <2> SUFFICES ASSUME NEW d \in Conn, watch'[d] # Null
               PROVE  watch'[d] \in live' /\ soc'[watch'[d]] = d
    BY DEF WatchInv
  <2>1. CASE watch'[d] = watch[d]
    <3>1. watch[d] \in live /\ soc[watch[d]] = d /\ watch[d] # o
      BY <2>1 DEF RunInv, MemInv, WatchInv
    <3> QED
      BY <2>1, <3>1, RunTypes DEF RunInv, CallInv
  <2>2. CASE watch'[d] # watch[d]
    <3>1. d = c /\ watch'[d] = o
      BY <2>2 DEF RunInv, CallInv, KernelTypeOK
    <3> QED
      BY <3>1 DEF RunInv, CallInv
  <2> QED
    BY <2>1, <2>2
<1>9. Announced' = Announced /\ o \notin Announced
  BY DEF RunInv, MemInv, BatchInv, Announced
<1> QED
  BY <1>6, <1>7, <1>8, <1>9, StepMem

\* The loop of Acceptor::onRead
LEMMA AcceptAllMem ==
  ASSUME RunInv, AcceptCalls
  PROVE  MemInv'
<1>1. /\ pc = "accept" /\ pc' \in {"accept", "afterRead"} /\ cur' = cur /\ cur.h = Listener
      /\ batch' = batch /\ deleted' = deleted
  BY DEF AcceptCalls, AcceptAll, AcceptAllFails, AcceptAllUnset, loopVars,
         RunInv, MemInv, BatchInv
<1>2. ASSUME backlog # <<>> PROVE Head(backlog) \in Conn
  BY <1>2 DEF RunInv, CallInv, KernelTypeOK
<1>3. /\ Owned(px', live', Announced') /\ WatchInv'
      /\ Announced' \subseteq live' \cup {Listener}
  <2>1. \E c \in Conn \cup {Null} : OnAcceptAll(c)
    BY <1>2 DEF AcceptCalls, AcceptAll, AcceptAllFails, AcceptAllUnset
  <2> QED
    BY <1>1, <2>1, OnAcceptAllMem
<1> QED
  BY <1>1, <1>3 DEF MemInv, BatchInv, RunInv

\* EPOLLIN on a socket
LEMMA ReadEventAllMem ==
  ASSUME RunInv, NEW e, ReadEventAll(e)
  PROVE  MemInv'
<1> DEFINE o == e.h
           t == px.tok[Rt(o)]
           r == ReadResult(soc[o], t.bufSize - t.ioSize)
<1>1. /\ e \in batch /\ batch' = batch \ {e} /\ o # Listener
      /\ pc' = "afterRead" /\ cur' = e
      /\ UNCHANGED <<live, watch, soc>>
  BY DEF ReadEventAll, Take
<1>2. /\ o \in live /\ Announced' \subseteq Announced /\ o \notin Announced'
      /\ \A f, g \in batch' : f.h = g.h => f = g
  BY <1>1, TakeMem
<1>3. o \in Obj
  BY <1>2, RunTypes
<1>4. WatchInv'
  BY <1>1 DEF RunInv, MemInv, WatchInv
<1>5. /\ Owned(px', live', Announced')
      /\ Announced' \subseteq live' \cup {Listener}
  <2>1. CASE px.tok[Rt(o)].mode # "A"
    <3>1. px' = px
      BY <2>1 DEF ReadEventAll
    <3> QED
      BY <1>1, <3>1, QuietMem
  <2>2. CASE px.tok[Rt(o)].mode = "A"
    <3>1. px' = OnReadAll(px, o, r)
      BY <2>2 DEF ReadEventAll
    <3>2. soc[o] \in Conn \cup {Null} /\ t \in TokenRec
      BY <1>3, TokenPair, RunTypes DEF RunInv, CallInv, Library
    <3>3. t.ioSize \in Nat /\ t.bufSize \in Nat
      BY <3>2 DEF TokenRec
    <3>4. t.ioSize <= t.bufSize
      BY <1>3, TokenPair DEF RunInv, CallInv, Sound
    <3>5. t.bufSize - t.ioSize \in Nat
      BY <3>3, <3>4
    <3>6. r.ret \in Int /\ r.err \in Errno
      BY <3>2, <3>5, ReadResultOK DEF RunInv, CallInv, IsResult
    <3> HIDE DEF r, o, t
    <3>7. Moves(px, px', Rt(o))
      BY <1>3, <2>2, <3>1, <3>6, RunTypes, OnReadAllMoves
    <3>8. Step(px, px', o) /\ px'.tok[Rt(o)].mode # "N"
      BY <1>3, <2>2, <3>7, TokenPair, Owners, RunTypes, MovesStep
    <3>9. px'.tok[Wt(o)].mode = px.tok[Wt(o)].mode
      BY <1>3, <3>7, TokenPair, Owners DEF Moves
    <3>10. Busy(px', o)
      BY <1>2, <2>2, <3>8, <3>9 DEF RunInv, MemInv, Owned, Busy
    <3>11. live' = live \cup {o}
      BY <1>1, <1>2
    <3> QED
      BY <1>2, <1>3, <1>4, <3>8, <3>10, <3>11, StepMem
  <2> QED
    BY <2>1, <2>2
<1> QED
  BY <1>1, <1>2, <1>4, <1>5 DEF MemInv, BatchInv

\* A callback leaves its client with one operation under way, or deletes it.
LEMMA CallbackAllEffect ==
  ASSUME CallInv, now \in Nat, WatchInv, NEW S \in Library, QueueExact(S),
         NEW t \in Token, NEW err, NEW n \in Nat, CallbackAll(S, t, err, n),
         S.tok[Rt(Owner(t))].mode = "N", S.tok[Wt(Owner(t))].mode = "N"
  PROVE  /\ Step(S, px', Owner(t)) /\ WatchInv'
         /\ \/ /\ live' = live \ {Owner(t)} /\ Forgotten(px', Owner(t))
               /\ deleted' = deleted \cup {Owner(t)}
            \/ live' = live /\ deleted' = deleted /\ Busy(px', Owner(t))
<1>1. Owner(t) \in Obj
  BY DEF Token, Owner
<1>2. CASE Delete(S, Owner(t))
  BY <1>1, <1>2, DeleteEffect
<1>3. CASE ReplyAll(S, Owner(t), n)
  BY <1>1, <1>3, WriteBackEffect DEF ReplyAll
<1>4. CASE NextMessage(S, Owner(t), n)
  BY <1>1, <1>4, StartRecvAllEffect DEF NextMessage
<1> QED
  BY <1>2, <1>3, <1>4, CallbackAllCases

\* One turn of the loop of _processCompletion
LEMMA CompleteAllMem ==
  ASSUME RunInv, CompleteAll
  PROVE  MemInv'
<1> DEFINE t == Head(px.queue)
           o == Owner(t)
           S == Dequeue(px)
<1>1. /\ t \in Token /\ Queued(px, t) /\ Step(px, S, o) /\ S.tok[t].mode = "N"
      /\ \A x \in Token \ {t} : S.tok[x].mode = px.tok[x].mode
  BY RunTypes, DequeueStep DEF CompleteAll
<1>2. CallbackAll(S, t, px.tok[t].err, px.tok[t].ioSize) /\ UNCHANGED <<pc, batch, cur>>
  BY DEF CompleteAll
<1> HIDE DEF t, S
<1>3. o \in live \ Announced /\ o \in Obj
  BY <1>1, RunTypes DEF RunInv, MemInv, Owned
<1>4. px.tok[t].ioSize \in Nat /\ px.tok[t].mode \in {"D", "E"}
  BY <1>1, RunTypes DEF Library, TokenRec, QueueExact
<1>5. S.tok[Rt(o)].mode = "N" /\ S.tok[Wt(o)].mode = "N"
  <2>1. Busy(px, o) /\ t \in {Rt(o), Wt(o)} /\ Rt(o) # Wt(o)
    BY <1>1, <1>3, Owners DEF RunInv, MemInv, Owned
  <2> HIDE DEF o
  <2>2. Rt(o) \in Token /\ Wt(o) \in Token
    BY <1>3, TokenPair
  <2> QED
    BY <1>1, <1>4, <2>1, <2>2 DEF Busy
<1>6. S \in Library /\ QueueExact(S)
  BY <1>1 DEF Step
<1>7. /\ Step(S, px', o) /\ WatchInv'
      /\ \/ /\ live' = live \ {o} /\ Forgotten(px', o)
            /\ deleted' = deleted \cup {o}
         \/ live' = live /\ deleted' = deleted /\ Busy(px', o)
  BY <1>1, <1>2, <1>4, <1>5, <1>6, RunTypes, CallbackAllEffect DEF RunInv, MemInv
<1> QED
  BY <1>1, <1>2, <1>3, <1>7, CallbackMem

\* MemInv is inductive.
LEMMA AllMemInv == RunInv /\ [ServerAll \/ Environment]_vars => MemInv'
<1> SUFFICES ASSUME RunInv, [ServerAll \/ Environment]_vars PROVE MemInv'
  OBVIOUS
<1>1. CASE [Next]_vars
  BY <1>1, NextMemInv
<1>2. CASE AcceptCalls
  BY <1>2, AcceptAllMem
<1>3. CASE CompleteAll
  BY <1>3, CompleteAllMem
<1>4. ASSUME NEW e \in batch, ReadEventAll(e) PROVE MemInv'
  BY <1>4, ReadEventAllMem
<1> QED
  BY <1>1, <1>2, <1>3, <1>4, AllSteps

\* All of these invariants together.
LEMMA AllInvariants == AllSpec => []RunInv
<1>1. Init => Drained
  BY DEF Init, ProactorInit, NewLibrary, Drained
<1>2. Init => TypeInv /\ Drained /\ MemInv
  BY <1>1, InitTypeInv, InitMemInv
<1>3. /\ TypeInv /\ Drained /\ MemInv
      /\ [ServerAll \/ Environment]_vars
      => (TypeInv /\ Drained /\ MemInv)'
  BY AllTypeInv, AllDrained, AllMemInv, RunInvSplit
<1>4. TypeInv /\ Drained /\ MemInv => RunInv
  BY RunInvSplit
<1> QED
  BY <1>2, <1>3, <1>4, PTL DEF AllSpec

-----------------------------------------------------------------------------
(* Whole messages.                                                         *)

\* n bytes are some number of whole messages.
Boundary(n) == n % MsgSize = 0

\* A number of bytes is so many messages and the rest.
LEMMA Quotient ==
  ASSUME NEW n \in Nat, NEW m \in Nat \ {0}
  PROVE  \E q \in Nat : n = (m * q) + (n % m)
<1>1. n = (m * (n \div m)) + (n % m) /\ n \div m \in Nat
  OBVIOUS
<1> QED
  BY <1>1

\* The rest is smaller than a message ...
LEMMA Remainder ==
  ASSUME NEW n \in Nat, NEW m \in Nat \ {0}
  PROVE  n % m \in Nat /\ n % m < m
OBVIOUS

\* ... and there is one way only to divide so.
LEMMA RestIs ==
  ASSUME NEW q \in Nat, NEW m \in Nat \ {0}, NEW k \in 0 .. (m - 1)
  PROVE  ((m * q) + k) % m = k
OBVIOUS

\* The bytes in whole messages end at a boundary, and are not more.
LEMMA WholeIsNat ==
  ASSUME NEW n \in Nat
  PROVE  Whole(n) \in Nat /\ Whole(n) <= n
<1> PICK m \in Nat \ {0} : m = MsgSize
  OBVIOUS
<1> PICK q \in Nat : n = (m * q) + (n % m)
  BY Quotient
<1> PICK k \in Nat : k = n % m
  BY Remainder
<1> PICK x \in Nat : x = m * q
  OBVIOUS
<1>1. n - k \in Nat /\ n - k <= n
  OBVIOUS
<1> QED
  BY <1>1 DEF Whole

\* At a boundary there is no rest.
LEMMA WholeAtBoundary ==
  ASSUME NEW n \in Nat, Boundary(n)
  PROVE  Whole(n) = n
BY DEF Whole, Boundary

\* The messages before a boundary are whole.
LEMMA WholeBefore ==
  ASSUME NEW a \in Nat, NEW b \in Nat, Boundary(a), a <= b
  PROVE  a <= Whole(b)
<1> PICK m \in Nat \ {0} : m = MsgSize
  OBVIOUS
<1> PICK p \in Nat : a = (m * p) + (a % m)
  BY Quotient
<1> PICK q \in Nat : b = (m * q) + (b % m)
  BY Quotient
<1> PICK k \in Nat : k = b % m
  BY Remainder
<1>1. a = m * p /\ b = (m * q) + k /\ k < m
  BY Remainder DEF Boundary
<1>2. CASE p <= q
  <2>1. m * p <= m * q
    BY <1>2
  <2>2. m * p \in Nat /\ m * q \in Nat
    OBVIOUS
  <2> PICK x \in Nat, y \in Nat : x = m * p /\ y = m * q
    BY <2>2
  <2>3. a <= b - k
    BY <1>1, <2>1
  <2> QED
    BY <2>3 DEF Whole
<1>3. CASE q + 1 <= p
  <2>1. m * (q + 1) <= m * p
    BY <1>3
  <2>2. m * (q + 1) = (m * q) + m
    OBVIOUS
  <2>3. m * p \in Nat /\ m * q \in Nat
    OBVIOUS
  <2> PICK x \in Nat, y \in Nat : x = m * p /\ y = m * q
    BY <2>3
  <2>4. b < a
    BY <1>1, <2>1, <2>2
  <2> QED
    BY <2>4
<1> QED
  BY <1>2, <1>3

\* Less than a message behind a boundary no other message is whole.
LEMMA WholeWithin ==
  ASSUME NEW a \in Nat, NEW b \in Nat, Boundary(a), a <= b, b < a + MsgSize
  PROVE  Whole(b) = a
<1> PICK m \in Nat \ {0} : m = MsgSize
  OBVIOUS
<1> PICK p \in Nat : a = (m * p) + (a % m)
  BY Quotient
<1> PICK k \in 0 .. (m - 1) : b = a + k
  <2>1. b - a \in 0 .. (m - 1) /\ b = a + (b - a)
    OBVIOUS
  <2> QED
    BY <2>1
<1>1. b = (m * p) + k
  BY DEF Boundary
<1>2. ((m * p) + k) % m = k
  BY RestIs
<1>3. b % m = k
  BY <1>1, <1>2
<1>4. b - k = a
  OBVIOUS
<1> QED
  BY <1>3, <1>4 DEF Whole

\* A message behind a boundary is the next one.
LEMMA NextBoundary ==
  ASSUME NEW a \in Nat, Boundary(a)
  PROVE  Boundary(a + MsgSize)
<1> PICK m \in Nat \ {0} : m = MsgSize
  OBVIOUS
<1> PICK p \in Nat : a = (m * p) + (a % m)
  BY Quotient
<1>1. a + m = (m * (p + 1)) + 0
  BY DEF Boundary
<1>2. ((m * (p + 1)) + 0) % m = 0
  BY RestIs
<1>3. (a + m) % m = 0
  BY <1>1, <1>2
<1> QED
  BY <1>3 DEF Boundary

\* Nothing is at a boundary.
LEMMA FirstBoundary == Boundary(0)
<1> PICK m \in Nat \ {0} : m = MsgSize
  OBVIOUS
<1>1. 0 % m = 0
  OBVIOUS
<1> QED
  BY <1>1 DEF Boundary

-----------------------------------------------------------------------------
(* The invariant of the bytes.                                             *)

\* What has been written back of c are whole messages, and all of them when
\* an epoll server has hung up without a reset.
WholeConn(c) ==
  /\ ConnInv(c)
  /\ Len(out[c]) <= Whole(taken[c])
  /\ Backend = "epoll" /\ link[c] = "closed" /\ c \notin rst =>
       c \in fin /\ Len(out[c]) = Whole(sent[c])

\* Where the read of client o on connection c is: waiting for the rest of a
\* message, whose beginning is in recvBuf; done, with the message there or at
\* the end of the stream, before the message was complete; or failed.
ReadAllInv(o, c) ==
  LET R == px.tok[Rt(o)]
      n == Len(out[c])
  IN  /\ R.mode # "S"
      /\ R.mode # "N" => Boundary(n) /\ n <= taken[c]
      /\ R.mode = "A" => /\ R.bufSize = MsgSize /\ R.ioSize < MsgSize
                         /\ n + R.ioSize = taken[c]
                         /\ \A i \in 1..R.ioSize : recvBuf[o][i] = n + i
      /\ R.mode = "D" => /\ R.err # "OK" => c \in rst
                         /\ IF R.ioSize = 0
                            THEN /\ c \in fin /\ sent[c] = taken[c]
                                 /\ taken[c] < n + MsgSize
                            ELSE /\ R.ioSize = MsgSize /\ n + MsgSize = taken[c]
                                 /\ \A i \in 1..MsgSize : recvBuf[o][i] = n + i
      /\ R.mode = "E" => c \in rst /\ R.ioSize = 0

\* Its write is that of AioEcho, of a message, and what was read ends with it.
WriteAllInv(o, c) ==
  /\ WriteInv(o, c)
  /\ px.tok[Wt(o)].mode # "N" => Boundary(taken[c]) /\ px.tok[Wt(o)].bufSize = MsgSize

\* A client has a connection that is registered in its name, or is the one of
\* a failed _accept(), whose read has failed.
WholeClient(o) ==
  IF soc[o] = Null THEN px.tok[Rt(o)].mode = "E" /\ px.tok[Rt(o)].ioSize = 0
  ELSE watch[soc[o]] = o /\ ReadAllInv(o, soc[o]) /\ WriteAllInv(o, soc[o])

WholeInv ==
  /\ \A c \in Conn : WholeConn(c)
  /\ \A o \in live : WholeClient(o)
  /\ BacklogInv /\ HupInv /\ ClockInv

-----------------------------------------------------------------------------
(* System calls and the bytes they move.                                   *)

\* A read() of what is missing of a message of which client o has the first
\* bytes already, that returns r.
ReadsWhole(o, c, from, r) ==
  /\ Boundary(Len(out[c])) /\ Len(out[c]) + from = taken[c]
  /\ \A i \in 1..from : recvBuf[o][i] = Len(out[c]) + i
  /\ r = ReadResult(c, MsgSize - from) /\ taken' = AfterRead(c, r)
  /\ recvBuf' = ReceivedAt(o, c, r, from) /\ UNCHANGED <<out, sent, fin, rst>>
  /\ LET R == px'.tok[Rt(o)]
     IN  /\ R.mode = IF r.ret = 0 THEN "D"
                     ELSE IF r.ret < 0 THEN IF r.err = "EAGAIN" THEN "A" ELSE "E"
                     ELSE IF from + r.ret < MsgSize THEN "A" ELSE "D"
         /\ R.bufSize = MsgSize
         /\ R.ioSize = IF r.ret = 0 THEN 0
                       ELSE IF r.ret < 0 THEN IF r.err = "EAGAIN" THEN from ELSE 0
                       ELSE from + r.ret
         /\ R.err = r.err

\* What it leads to.
HasReadWhole(o, c) ==
  /\ ReadAllInv(o, c)'
  /\ taken[c] <= taken'[c] /\ taken'[c] <= sent[c]
  /\ Boundary(Len(out[c])) /\ Len(out[c]) <= taken'[c]
  /\ \A d \in Conn \ {c} : taken'[d] = taken[d]
  /\ \A p \in Obj \ {o} : recvBuf'[p] = recvBuf[p]
  /\ px'.tok[Rt(o)].mode = "A" => ~(Unread(c)' > 0)

\* The bytes a read() hands over keep ReadAllInv.
LEMMA ReadWholeStream ==
  ASSUME CallInv, NEW o \in Obj, NEW c \in Conn, ConnInv(c),
         NEW from \in Nat, from < MsgSize, NEW r, ReadsWhole(o, c, from, r)
  PROVE  HasReadWhole(o, c)
<1> USE DEF ReadsWhole
<1> DEFINE R == px'.tok[Rt(o)]
           n == Len(out[c])
           size == MsgSize - from
<1>1. /\ taken \in [Conn -> Nat] /\ taken[c] \in Nat /\ sent[c] \in Nat /\ n \in Nat
      /\ recvBuf \in [Obj -> Buffer] /\ recvBuf[o] \in Buffer
  BY DEF CallInv, KernelTypeOK, EchoTypeOK
<1>2. c # Null /\ Unread(c) = sent[c] - taken[c] /\ Unread(c) >= 0 /\ taken[c] = n + from
  BY <1>1 DEF Unread, ConnInv
<1>3. size \in Nat \ {0} /\ from + size = MsgSize /\ MsgSize <= BufSize /\ Boundary(n)
  OBVIOUS
<1> SUFFICES /\ /\ R.mode # "S"
                /\ n <= taken'[c]
                /\ R.mode = "A" => /\ R.bufSize = MsgSize /\ R.ioSize < MsgSize
                                   /\ n + R.ioSize = taken'[c]
                                   /\ \A i \in 1..R.ioSize : recvBuf'[o][i] = n + i
                /\ R.mode = "D" => /\ R.err # "OK" => c \in rst
                                   /\ IF R.ioSize = 0
                                      THEN /\ c \in fin /\ sent[c] = taken'[c]
                                           /\ taken'[c] < n + MsgSize
                                      ELSE /\ R.ioSize = MsgSize
                                           /\ n + MsgSize = taken'[c]
                                           /\ \A i \in 1..MsgSize : recvBuf'[o][i] = n + i
                /\ R.mode = "E" => c \in rst /\ R.ioSize = 0
             /\ taken[c] <= taken'[c] /\ taken'[c] <= sent[c]
             /\ \A d \in Conn \ {c} : taken'[d] = taken[d]
             /\ \A p \in Obj \ {o} : recvBuf'[p] = recvBuf[p]
             /\ R.mode = "A" => ~(sent[c] - taken'[c] > 0)
  BY <1>3 DEF HasReadWhole, ReadAllInv, Unread
<1>4. CASE Unread(c) > 0
  <2>1. r.ret = Lesser(Unread(c), size) /\ r.err = "OK"
    BY <1>2, <1>4 DEF ReadResult, Result
  <2>2. /\ r.ret \in Nat \ {0} /\ r.ret <= Unread(c) /\ r.ret <= size
        /\ r.ret < size => r.ret = Unread(c)
    BY <1>1, <1>2, <1>3, <1>4, <2>1 DEF Lesser
  <2> PICK k \in Nat \ {0} : k = r.ret
    BY <2>2
  <2>3. taken' = [taken EXCEPT ![c] = taken[c] + k]
    BY <2>2 DEF AfterRead
  <2> DEFINE b == [i \in 1..BufSize |->
                     IF from < i /\ i <= from + k THEN taken[c] + i - from
                     ELSE recvBuf[o][i]]
  <2>4. recvBuf' = [recvBuf EXCEPT ![o] = b]
    BY <1>1 DEF ReceivedAt
  <2>5. ASSUME NEW i \in 1..(from + k) PROVE b[i] = n + i
    <3>1. i \in 1..BufSize
      BY <1>3, <2>2
    <3>2. CASE from < i
      <4>1. b[i] = taken[c] + i - from
        BY <3>1, <3>2
      <4> QED
        BY <1>1, <1>2, <4>1
    <3>3. CASE ~(from < i)
      <4>1. i \in 1..from /\ b[i] = recvBuf[o][i]
        BY <3>1, <3>3
      <4> QED
        BY <4>1
    <3> QED
      BY <3>2, <3>3
  <2> HIDE DEF b
  <2>6. taken'[c] = taken[c] + k /\ \A d \in Conn \ {c} : taken'[d] = taken[d]
    BY <1>1, <2>3
  <2>7. /\ \A i \in 1..(from + k) : recvBuf'[o][i] = n + i
        /\ \A p \in Obj \ {o} : recvBuf'[p] = recvBuf[p]
    BY <1>1, <2>4, <2>5
  <2>8. /\ R.mode = IF from + k < MsgSize THEN "A" ELSE "D"
        /\ R.ioSize = from + k /\ R.err = "OK" /\ R.bufSize = MsgSize
    BY <2>1, <2>2
  <2> HIDE DEF R, ReadsWhole, n, size
  <2>9. CASE from + k < MsgSize
    <3>1. k = Unread(c)
      BY <1>3, <2>2, <2>9
    <3>2. R.mode = "A"
      BY <2>8, <2>9
    <3>3. n + R.ioSize = taken'[c] /\ n <= taken'[c] /\ R.ioSize < MsgSize
      BY <1>1, <1>2, <2>6, <2>8, <2>9
    <3>4. taken[c] <= taken'[c] /\ taken'[c] <= sent[c] /\ ~(sent[c] - taken'[c] > 0)
      BY <1>1, <1>2, <2>6, <3>1
    <3>5. \A i \in 1..R.ioSize : recvBuf'[o][i] = n + i
      BY <2>7, <2>8
    <3> QED
      BY <2>6, <2>7, <2>8, <3>2, <3>3, <3>4, <3>5
  <2>10. CASE ~(from + k < MsgSize)
    <3>1. from + k = MsgSize
      BY <1>3, <2>2, <2>10
    <3>2. R.mode = "D" /\ R.ioSize = MsgSize /\ MsgSize # 0
      BY <2>8, <2>10, <3>1
    <3>3. n + MsgSize = taken'[c] /\ n <= taken'[c]
      BY <1>1, <1>2, <2>6, <3>1
    <3>4. taken[c] <= taken'[c] /\ taken'[c] <= sent[c]
      BY <1>1, <1>2, <2>2, <2>6
    <3>5. \A i \in 1..MsgSize : recvBuf'[o][i] = n + i
      BY <2>7, <3>1
    <3> QED
      BY <2>6, <2>7, <2>8, <3>2, <3>3, <3>4, <3>5
  <2> QED
    BY <2>9, <2>10
<1>5. CASE ~(Unread(c) > 0)
  <2>1. ~(r.ret > 0) /\ r.ret \in Int
    BY <1>2, <1>5 DEF ReadResult, Result
  <2>2. taken' = taken
    BY <2>1 DEF AfterRead
  <2>3. recvBuf' = recvBuf
    <3>1. \A i \in 1..BufSize : ~(from < i /\ i <= from + r.ret)
      BY <2>1
    <3>2. recvBuf[o] = [i \in 1..BufSize |-> recvBuf[o][i]]
      BY <1>1 DEF Buffer
    <3>3. ReceivedAt(o, c, r, from) = [recvBuf EXCEPT ![o] = recvBuf[o]]
      BY <1>1, <3>1, <3>2 DEF ReceivedAt
    <3> QED
      BY <1>1, <3>3
  <2>4. sent[c] = taken[c] /\ n <= taken[c] /\ taken[c] < n + MsgSize
    BY <1>1, <1>2, <1>5
  <2>5. CASE c \in rst
    <3>1. r.ret = -1 /\ r.err = "ECONNRESET"
      BY <1>2, <1>5, <2>5 DEF ReadResult, Result
    <3>2. R.mode = "E" /\ R.ioSize = 0
      BY <3>1
    <3> HIDE DEF R, n
    <3> QED
      BY <1>1, <2>2, <2>3, <2>4, <2>5, <3>2
  <2>6. CASE c \notin rst /\ c \in fin
    <3>1. r.ret = 0 /\ r.err = "OK"
      BY <1>2, <1>5, <2>6 DEF ReadResult, Result
    <3>2. R.mode = "D" /\ R.ioSize = 0 /\ R.err = "OK"
      BY <3>1
    <3> HIDE DEF R, n
    <3> QED
      BY <1>1, <2>2, <2>3, <2>4, <2>6, <3>2
  <2>7. CASE c \notin rst /\ c \notin fin
    <3>1. r.ret = -1 /\ r.err = "EAGAIN"
      BY <1>2, <1>5, <2>7 DEF ReadResult, Result
    <3>2. R.mode = "A" /\ R.ioSize = from /\ R.bufSize = MsgSize
      BY <3>1
    <3>3. n + from = taken[c] /\ \A i \in 1..from : recvBuf[o][i] = n + i
      OBVIOUS
    <3> HIDE DEF R, n
    <3> QED
      BY <1>1, <2>2, <2>3, <2>4, <2>7, <3>2, <3>3
  <2> QED
    BY <2>5, <2>6, <2>7
<1> QED
  BY <1>4, <1>5

-----------------------------------------------------------------------------
(* A step on one client.                                                   *)

\* The other clients and connections keep their invariants.
LEMMA ElsewhereWhole ==
  ASSUME RunInv, RunInv', WholeInv, NEW o \in Obj, NEW d \in Conn \cup {Null},
         Elsewhere(o, d), d # Null => watch[d] \in {o, Null},
         d # Null => WholeConn(d)', o \in live' => WholeClient(o)'
  PROVE  (\A c \in Conn : WholeConn(c)') /\ (\A p \in live' : WholeClient(p)')
<1>1. ASSUME NEW c \in Conn PROVE WholeConn(c)'
  <2>1. CASE c = d
    BY <2>1
  <2>2. CASE c # d
    <3>1. /\ link'[c] = link[c] /\ taken'[c] = taken[c] /\ out'[c] = out[c]
          /\ watch'[c] = watch[c] /\ UNCHANGED <<sent, got, fin, rst>>
      BY <2>2 DEF Elsewhere
    <3>2. WholeConn(c)
      BY DEF WholeInv
    <3>3. ConnInv(c)'
      BY <3>1, <3>2 DEF WholeConn, ConnInv
    <3> QED
      BY <3>1, <3>2, <3>3 DEF WholeConn, Whole
  <2> QED
    BY <2>1, <2>2
<1>2. ASSUME NEW p \in live' PROVE WholeClient(p)'
  <2>1. CASE p = o
    BY <2>1
  <2>2. CASE p # o
    <3>1. p \in Obj /\ p \in live /\ WholeClient(p)
      BY <1>2, <2>2 DEF RunInv, CallInv, EchoTypeOK, Elsewhere, WholeInv
    <3>2. /\ px'.tok[Rt(p)] = px.tok[Rt(p)] /\ px'.tok[Wt(p)] = px.tok[Wt(p)]
          /\ soc'[p] = soc[p] /\ recvBuf'[p] = recvBuf[p] /\ sendBuf'[p] = sendBuf[p]
      BY <2>2, <3>1, TokenPair, Owners DEF Elsewhere, Apart
    <3>3. CASE soc[p] = Null
      BY <3>1, <3>2, <3>3 DEF WholeClient
    <3>4. CASE soc[p] # Null
      <4>1. soc[p] \in Conn /\ watch[soc[p]] = p
        BY <3>1, <3>4 DEF RunInv, CallInv, WholeClient
      <4>2. soc[p] # d
        BY <2>2, <3>1, <3>4, <4>1
      <4>3. /\ taken'[soc[p]] = taken[soc[p]] /\ out'[soc[p]] = out[soc[p]]
            /\ watch'[soc[p]] = watch[soc[p]]
        BY <4>1, <4>2 DEF Elsewhere
      <4>4. UNCHANGED <<sent, fin, rst>>
        BY DEF Elsewhere
      <4>5. ReadAllInv(p, soc[p]) /\ WriteAllInv(p, soc[p])
        BY <3>1, <3>4 DEF WholeClient
      <4>6. ReadAllInv(p, soc[p])'
        BY <3>2, <4>3, <4>4, <4>5 DEF ReadAllInv
      <4>7. WriteAllInv(p, soc[p])'
        BY <3>2, <4>3, <4>4, <4>5 DEF WriteAllInv, WriteInv
      <4> QED
        BY <3>2, <3>4, <4>1, <4>3, <4>6, <4>7 DEF WholeClient
    <3> QED
      BY <3>3, <3>4
  <2> QED
    BY <2>1, <2>2
<1> QED
  BY <1>1, <1>2

\* A step of the server on one client
LEMMA WholeStep ==
  ASSUME RunInv, RunInv', WholeInv, NEW o \in Obj, NEW d \in Conn \cup {Null},
         Elsewhere(o, d), d # Null => watch[d] \in {o, Null},
         d # Null => WholeConn(d)', o \in live' => WholeClient(o)',
         Timed(px', now), UNCHANGED <<now, scan>>, BacklogInv', batch' \subseteq batch,
         o \in Announced' => soc'[o] = soc[o]
  PROVE  WholeInv'
<1>1. (\A c \in Conn : WholeConn(c)') /\ (\A p \in live' : WholeClient(p)')
  BY ElsewhereWhole
<1>2. HupInv'
  <2> SUFFICES ASSUME Backend = "epoll", NEW e \in batch', e.h # Listener, "HUP" \in e.ev
               PROVE  soc'[e.h] \in rst'
    BY DEF HupInv
  <2>1. soc[e.h] \in rst
    BY DEF WholeInv, HupInv
  <2>2. e.h \in Obj /\ e.h \in Announced'
    BY DEF RunInv, LoopTyped, EventRec, Handler, Announced
  <2>3. soc'[e.h] = soc[e.h] /\ rst' = rst
    BY <2>2 DEF Elsewhere
  <2> QED
    BY <2>1, <2>3
<1>3. ClockInv'
  BY DEF WholeInv, ClockInv
<1> QED
  BY <1>1, <1>2, <1>3 DEF WholeInv

\* The facts about a living client that the lemmas below start from.
LEMMA LivingWhole ==
  ASSUME RunInv, WholeInv, NEW o \in live
  PROVE  /\ o \in Obj /\ soc[o] \in Conn \cup {Null} /\ WholeClient(o)
         /\ soc[o] # Null =>
              /\ soc[o] \in Conn /\ watch[soc[o]] = o
              /\ link[soc[o]] = "open" /\ WholeConn(soc[o]) /\ ConnInv(soc[o])
              /\ ReadAllInv(o, soc[o]) /\ WriteAllInv(o, soc[o])
<1>1. o \in Obj /\ WholeClient(o) /\ soc[o] \in Conn \cup {Null}
  BY DEF RunInv, CallInv, EchoTypeOK, WholeInv
<1>2. ASSUME soc[o] # Null
      PROVE  /\ soc[o] \in Conn /\ watch[soc[o]] = o
             /\ link[soc[o]] = "open" /\ WholeConn(soc[o]) /\ ConnInv(soc[o])
             /\ ReadAllInv(o, soc[o]) /\ WriteAllInv(o, soc[o])
  <2>1. soc[o] \in Conn /\ watch[soc[o]] = o /\ o # Null
    BY <1>1, <1>2 DEF WholeClient
  <2>2. WholeConn(soc[o])
    BY <2>1 DEF WholeInv
  <2> QED
    BY <1>1, <1>2, <2>1, <2>2 DEF WholeClient, WholeConn, ConnInv
<1> QED
  BY <1>1, <1>2

\* The numbers of a connection are natural numbers, before a step and after it.
LEMMA Counts ==
  ASSUME RunInv, RunInv', NEW c \in Conn
  PROVE  /\ Len(out[c]) \in Nat /\ Len(out'[c]) \in Nat
         /\ taken[c] \in Nat /\ taken'[c] \in Nat
         /\ sent[c] \in Nat /\ sent'[c] \in Nat /\ got[c] \in Nat
<1>1. KernelTypeOK /\ KernelTypeOK'
  BY DEF RunInv, CallInv
<1>2. out[c] \in Seq(Nat) /\ out'[c] \in Seq(Nat)
  BY <1>1 DEF KernelTypeOK
<1>3. /\ taken[c] \in Nat /\ taken'[c] \in Nat
      /\ sent[c] \in Nat /\ sent'[c] \in Nat /\ got[c] \in Nat
  BY <1>1 DEF KernelTypeOK
<1> QED
  BY <1>2, <1>3, LenProperties

-----------------------------------------------------------------------------
(* Callbacks.                                                              *)

\* An epoll server hangs up for one of these reasons.
WholeReason(c) ==
  \/ c \in rst
  \/ c \in fin /\ Len(out[c]) = Whole(sent[c])

\* delete this
LEMMA DeleteWhole ==
  ASSUME RunInv, RunInv', WholeInv, NEW S, NEW o, CalledBack(S, o), Delete(S, o),
         NEW d, d = soc[o], UNCHANGED <<now, scan>>, batch' \subseteq batch,
         Backend = "epoll" /\ d # Null => WholeReason(d)
  PROVE  WholeInv' /\ Elsewhere(o, d) /\ o \notin live'
<1>1. /\ o \in Obj /\ d \in Conn \cup {Null}
      /\ d # Null => /\ d \in Conn /\ watch[d] = o /\ WholeConn(d) /\ ConnInv(d)
                     /\ link[d] = "open"
  BY LivingWhole DEF CalledBack
<1>2. /\ Elsewhere(o, d) /\ Timed(px', now) /\ o \notin live' /\ o \notin Announced'
      /\ IF d = Null THEN link' = link ELSE link' = [link EXCEPT ![d] = "closed"]
      /\ d # Null => ConnInv(d)'
  BY <1>1, DeleteElsewhere
<1>3. UNCHANGED <<sent, taken, out, fin, rst, backlog>>
  BY DEF Delete
<1>4. d # Null => WholeConn(d)'
  BY <1>1, <1>2, <1>3 DEF WholeConn, WholeReason, Whole
<1>5. BacklogInv'
  <2>1. CallInv /\ BacklogInv
    BY DEF WholeInv, RunInv
  <2>2. link \in [Conn -> {"idle", "backlog", "open", "blocking", "closed"}]
    BY <2>1 DEF CallInv, KernelTypeOK
  <2>3. \A k \in Conn : link[k] = "backlog" => link'[k] = "backlog"
    BY <1>1, <1>2, <2>2
  <2> QED
    BY <1>3, <2>1, <2>3, BacklogSame
<1> QED
  BY <1>1, <1>2, <1>4, <1>5, WholeStep

\* A read that moves the bytes so keeps the invariant of the connection.
LEMMA ReadConn ==
  ASSUME RunInv, RunInv', NEW o, NEW c \in Conn, ConnInv(c), HasReadWhole(o, c),
         link'[c] = "open", watch'[c] # Null, UNCHANGED <<out, sent, got>>
  PROVE  WholeConn(c)'
<1>1. ConnInv(c)'
  BY Counts DEF ConnInv, HasReadWhole
<1>2. Len(out[c]) <= Whole(taken'[c])
  BY Counts, WholeBefore DEF HasReadWhole
<1> QED
  BY <1>1, <1>2 DEF WholeConn, Whole

\* EchoClient::startRecv, when all that was read has been echoed
LEMMA StartRecvWhole ==
  ASSUME RunInv, RunInv', WholeInv, NEW S, NEW o, CalledBack(S, o),
         StartRecvAll(S, o), \A p \in Obj \ {o} : sendBuf'[p] = sendBuf[p],
         S.tok[Rt(o)].mode = "N", S.tok[Wt(o)].mode = "N",
         NEW c, c = soc[o], c # Null, Len(out[c]) = taken[c], Boundary(taken[c]),
         UNCHANGED <<now, scan>>, batch' \subseteq batch
  PROVE  /\ WholeInv' /\ Elsewhere(o, c)
         /\ px'.tok[Rt(o)].mode = "A" => ~(Unread(c)' > 0)
<1> DEFINE r == ReadResult(c, MsgSize)
<1>1. /\ o \in Obj /\ c \in Conn /\ watch[c] = o /\ link[c] = "open" /\ ConnInv(c)
  BY LivingWhole DEF CalledBack
<1>2. /\ px' = ReadAll(S, o, MsgSize, r, now)
      /\ taken' = AfterRead(c, r) /\ recvBuf' = ReceivedAt(o, c, r, 0)
      /\ UNCHANGED <<link, sent, out, got, fin, rst, backlog, watch, ready,
                     soc, deleted, live>>
  BY DEF StartRecvAll
<1>3. r.ret \in Int /\ r.err \in Errno
  BY <1>1, ReadResultOK DEF RunInv, CallInv, IsResult
<1>4. r = ReadResult(c, MsgSize - 0)
  OBVIOUS
<1> HIDE DEF r
<1> DEFINE rec == [mode |-> IF r.ret < 0
                            THEN IF r.err = "EAGAIN" THEN "A" ELSE "E"
                            ELSE IF 0 < r.ret /\ r.ret < MsgSize THEN "A" ELSE "D",
                   bufSize |-> MsgSize,
                   ioSize |-> IF r.ret < 0 THEN 0 ELSE r.ret,
                   err |-> r.err]
<1>5. Puts(S, px', Rt(o), rec) /\ Timed(px', now)
  BY <1>1, <1>2, <1>3, RunTypes, ReadAllPuts DEF CalledBack
<1>6. /\ rec.mode = IF r.ret = 0 THEN "D"
                    ELSE IF r.ret < 0 THEN IF r.err = "EAGAIN" THEN "A" ELSE "E"
                    ELSE IF 0 + r.ret < MsgSize THEN "A" ELSE "D"
      /\ rec.bufSize = MsgSize
      /\ rec.ioSize = IF r.ret = 0 THEN 0
                      ELSE IF r.ret < 0 THEN IF r.err = "EAGAIN" THEN 0 ELSE 0
                      ELSE 0 + r.ret
      /\ rec.err = r.err
  BY <1>3
<1> HIDE DEF rec
<1>7. /\ Apart(S, px', o) /\ px'.tok[Rt(o)] = rec /\ px'.tok[Wt(o)] = S.tok[Wt(o)]
  <2>1. Rt(o) \in Token /\ Wt(o) \in Token /\ Rt(o) # Wt(o) /\ Owner(Rt(o)) = o
    BY <1>1, TokenPair, Owners
  <2>2. S \in Library /\ Apart(S, px', Owner(Rt(o))) /\ px'.tok[Rt(o)] = rec
    BY <1>5, <2>1, PutsApart DEF CalledBack
  <2>3. px'.tok[Wt(o)] = S.tok[Wt(o)]
    BY <1>5, <2>1, <2>2 DEF Puts, Library
  <2> QED
    BY <2>1, <2>2, <2>3
<1>8. Apart(px, px', o)
  BY <1>7 DEF Apart, CalledBack
<1>9. HasReadWhole(o, c)
  <2> PICK res : res = r
    OBVIOUS
  <2> PICK from \in Nat : from = 0
    OBVIOUS
  <2>1. /\ Boundary(Len(out[c])) /\ Len(out[c]) + from = taken[c] /\ from < MsgSize
        /\ \A i \in 1..from : recvBuf[o][i] = Len(out[c]) + i
    BY <1>1, Counts
  <2>2. /\ res = ReadResult(c, MsgSize - from) /\ taken' = AfterRead(c, res)
        /\ recvBuf' = ReceivedAt(o, c, res, from) /\ UNCHANGED <<out, sent, fin, rst>>
    BY <1>2, <1>4
  <2>3. /\ px'.tok[Rt(o)].mode =
             IF res.ret = 0 THEN "D"
             ELSE IF res.ret < 0 THEN IF res.err = "EAGAIN" THEN "A" ELSE "E"
             ELSE IF from + res.ret < MsgSize THEN "A" ELSE "D"
        /\ px'.tok[Rt(o)].bufSize = MsgSize
        /\ px'.tok[Rt(o)].ioSize =
             IF res.ret = 0 THEN 0
             ELSE IF res.ret < 0 THEN IF res.err = "EAGAIN" THEN from ELSE 0
             ELSE from + res.ret
        /\ px'.tok[Rt(o)].err = res.err
    BY <1>6, <1>7
  <2>4. ReadsWhole(o, c, from, res)
    BY <2>1, <2>2, <2>3 DEF ReadsWhole
  <2> QED
    BY <1>1, <2>1, <2>4, ReadWholeStream DEF RunInv
<1>10. Elsewhere(o, c)
  BY <1>2, <1>8, <1>9 DEF Elsewhere, HasReadWhole
<1>11. WholeConn(c)'
  BY <1>1, <1>2, <1>9, ReadConn
<1>12. WholeClient(o)'
  <2>1. WriteAllInv(o, c)'
    BY <1>7 DEF WriteAllInv, WriteInv
  <2>2. soc'[o] = c /\ c # Null /\ watch'[c] = o
    BY <1>1, <1>2
  <2> QED
    BY <1>9, <2>1, <2>2 DEF WholeClient, HasReadWhole
<1>13. BacklogInv'
  BY <1>2, BacklogSame DEF WholeInv, RunInv
<1>14. WholeInv'
  BY <1>1, <1>2, <1>5, <1>10, <1>11, <1>12, <1>13, WholeStep
<1> QED
  BY <1>9, <1>10, <1>14 DEF HasReadWhole

\* EchoClient::onRead with a message
LEMMA ReplyWhole ==
  ASSUME RunInv, RunInv', WholeInv, NEW S, NEW o, CalledBack(S, o),
         NEW n \in Nat \ {0}, n = MsgSize, ReplyAll(S, o, n),
         S.tok[Rt(o)].mode = "N", S.tok[Wt(o)].mode = "N",
         NEW c, c = soc[o], c # Null, ToEcho(o, c, n), Boundary(taken[c]),
         UNCHANGED <<now, scan>>, batch' \subseteq batch
  PROVE  WholeInv' /\ Elsewhere(o, c) /\ px'.tok[Rt(o)].mode = "N"
<1>1. /\ o \in Obj /\ c \in Conn /\ watch[c] = o /\ link[c] = "open" /\ ConnInv(c)
  BY LivingWhole DEF CalledBack
<1>2. /\ Elsewhere(o, c) /\ Wrote(o, c) /\ ConnInv(c)' /\ Timed(px', now)
      /\ px'.tok[Rt(o)].mode = "N" /\ px'.tok[Wt(o)].bufSize = MsgSize
      /\ UNCHANGED <<link, backlog, watch, soc, live, sent, taken, fin, rst>>
  <2>1. WriteBack(S, o, n) /\ recvBuf' = Terminated(recvBuf, o, n) /\ n <= BufSize
    BY DEF ReplyAll
  <2>2. recvBuf \in [Obj -> Buffer]
    BY DEF RunInv, CallInv, EchoTypeOK
  <2>3. \A p \in Obj \ {o} : recvBuf'[p] = recvBuf[p]
    BY <1>1, <2>1, <2>2, TerminatedOK
  <2> QED
    BY <1>1, <2>1, <2>3, WriteBackBytes
<1>3. WholeClient(o)'
  <2>1. ReadAllInv(o, c)'
    BY <1>2 DEF ReadAllInv
  <2>2. WriteAllInv(o, c)'
    BY <1>2 DEF WriteAllInv, Wrote, Boundary
  <2>3. soc'[o] = c /\ c # Null /\ watch'[c] = o
    BY <1>1, <1>2
  <2> QED
    BY <2>1, <2>2, <2>3 DEF WholeClient
<1>4. WholeConn(c)'
  <2>1. Len(out'[c]) <= taken[c] /\ taken[c] = Whole(taken[c])
    BY <1>1, <1>2, Counts, WholeAtBoundary DEF Wrote
  <2>2. Len(out'[c]) <= Whole(taken'[c]) /\ link'[c] # "closed"
    BY <1>1, <1>2, <2>1
  <2> QED
    BY <1>2, <2>2 DEF WholeConn, Whole
<1>5. BacklogInv'
  BY <1>2, BacklogSame DEF WholeInv, RunInv
<1> QED
  BY <1>1, <1>2, <1>3, <1>4, <1>5, WholeStep

-----------------------------------------------------------------------------
(* The steps of the loop.                                                  *)

\* Client o waits for nothing that is there already.
QuietRead(o) == px.tok[Rt(o)].mode = "A" => ~(Unread(soc[o]) > 0)

\* Any callback leaves the edges of other connections alone.
LEMMA CallbackAllReady ==
  ASSUME NEW S, NEW t, NEW err, NEW n, CallbackAll(S, t, err, n)
  PROVE  ready \ {soc[Owner(t)]} \subseteq ready'
<1>1. CASE Delete(S, Owner(t))
  BY <1>1 DEF Delete, Close
<1>2. CASE ReplyAll(S, Owner(t), n)
  BY <1>2 DEF ReplyAll, WriteBack
<1>3. CASE NextMessage(S, Owner(t), n)
  BY <1>3 DEF NextMessage, StartRecvAll
<1> QED
  BY <1>1, <1>2, <1>3, CallbackAllCases

\* One turn of the loop of _processCompletion
LEMMA CompleteWhole ==
  ASSUME RunInv, RunInv', WholeInv, CompleteAll,
         NEW t, t = Head(px.queue), NEW o, o = Owner(t), NEW d, d = soc[o]
  PROVE  /\ o \in live /\ WholeInv' /\ Elsewhere(o, d)
         /\ o \in live' => QuietRead(o)'
         /\ ready \ {d} \subseteq ready'
<1> DEFINE S == Dequeue(px)
           err == px.tok[t].err
           n == px.tok[t].ioSize
<1>1. /\ t \in Token /\ Queued(px, t) /\ Step(px, S, o) /\ S.tok[t].mode = "N"
      /\ \A x \in Token \ {t} : S.tok[x].mode = px.tok[x].mode
  BY RunTypes, DequeueStep DEF CompleteAll
<1>2. /\ S \in Library /\ Timed(S, now)
      /\ \A x \in Token \ {t} : S.tok[x] = px.tok[x]
  BY RunTypes, DequeueApart DEF CompleteAll, WholeInv, ClockInv
<1>3. CallbackAll(S, t, err, n) /\ UNCHANGED <<batch, scan, now>>
  BY DEF CompleteAll
<1> HIDE DEF S
<1>4. o \in live /\ o \in Obj
  BY <1>1, RunTypes DEF RunInv, MemInv, Owned
<1>5. CalledBack(S, o)
  <2>1. QueueExact(S)
    BY <1>1 DEF Step
  <2>2. Apart(px, S, o)
    BY <1>2 DEF Apart
  <2> QED
    BY <1>2, <1>4, <2>1, <2>2 DEF CalledBack
<1>6. /\ px.tok[t] \in TokenRec /\ n \in Nat /\ n <= BufSize
      /\ px.tok[t].mode \in {"D", "E"}
  <2>1. px.tok[t] \in TokenRec
    BY <1>1, RunTypes DEF Library
  <2>2. n \in Nat /\ px.tok[t].bufSize \in Nat
    BY <2>1 DEF TokenRec
  <2>3. n <= px.tok[t].bufSize /\ px.tok[t].bufSize <= BufSize
    BY <1>1 DEF RunInv, CallInv, Sound
  <2>4. px.tok[t].mode \in {"D", "E"}
    BY <1>1, RunTypes DEF QueueExact
  <2>5. n <= BufSize
    BY <2>2, <2>3
  <2> QED
    BY <2>1, <2>2, <2>4, <2>5
<1>7. t = Rt(o) \/ t = Wt(o)
  BY <1>1, <1>4, Owners
<1>8. Busy(px, o) /\ Rt(o) \in Token /\ Wt(o) \in Token /\ Rt(o) # Wt(o)
  BY <1>4, TokenPair, Owners DEF RunInv, MemInv, Owned
<1>9. S.tok[Rt(o)].mode = "N" /\ S.tok[Wt(o)].mode = "N"
  BY <1>1, <1>6, <1>7, <1>8 DEF Busy
<1>10. /\ d \in Conn \cup {Null} /\ WholeClient(o)
       /\ d # Null => d \in Conn /\ ConnInv(d) /\ ReadAllInv(o, d) /\ WriteAllInv(o, d)
  BY <1>4, LivingWhole
<1>11. d # Null => taken[d] \in Nat /\ sent[d] \in Nat /\ Len(out[d]) \in Nat
  BY <1>10, Counts
<1>12. ready \ {d} \subseteq ready'
  BY <1>3, <1>6, CallbackAllReady
<1>13. CASE err # "OK" \/ n = 0
  <2>1. Delete(S, o)
    BY <1>3, <1>6, <1>13 DEF CallbackAll
  <2>2. ASSUME d # Null PROVE WholeReason(d)
    <3>1. CASE t = Rt(o)
      <4>1. CASE px.tok[t].mode = "D" /\ err = "OK"
        <5>1. /\ d \in fin /\ sent[d] = taken[d] /\ Boundary(Len(out[d]))
              /\ Len(out[d]) <= taken[d] /\ taken[d] < Len(out[d]) + MsgSize
          BY <1>10, <1>13, <2>2, <3>1, <4>1 DEF ReadAllInv
        <5>2. Len(out[d]) = Whole(sent[d])
          BY <1>11, <2>2, <5>1, WholeWithin
        <5> QED
          BY <5>1, <5>2 DEF WholeReason
      <4>2. CASE ~(px.tok[t].mode = "D" /\ err = "OK")
        BY <1>6, <1>10, <2>2, <3>1, <4>2 DEF ReadAllInv, WholeReason
      <4> QED
        BY <4>1, <4>2
    <3>2. CASE t = Wt(o)
      <4> DEFINE W == px.tok[Wt(o)]
      <4>1. /\ W.mode \in {"D", "E"} /\ (W.err # "OK" \/ W.ioSize = 0)
            /\ W.ioSize \in Nat
        BY <1>6, <1>13, <3>2
      <4>2. /\ W.mode = "D" => W.ioSize > 0 /\ (W.err # "OK" => d \in rst)
            /\ W.mode = "E" => d \in rst
        <5>1. WriteInv(o, d)
          BY <1>10, <2>2 DEF WriteAllInv
        <5> QED
          BY <5>1 DEF WriteInv
      <4> HIDE DEF W
      <4>3. d \in rst
        BY <4>1, <4>2
      <4> QED
        BY <4>3 DEF WholeReason
    <3> QED
      BY <1>7, <3>1, <3>2
  <2>3. batch' \subseteq batch
    BY <1>3
  <2> QED
    BY <1>3, <1>4, <1>5, <1>12, <2>1, <2>2, <2>3, DeleteWhole
<1>14. CASE ~(err # "OK" \/ n = 0) /\ t = Rt(o)
  <2>1. ReplyAll(S, o, n) /\ n \in Nat \ {0}
    BY <1>3, <1>6, <1>14 DEF CallbackAll
  <2> d # Null
    BY <1>10, <1>14 DEF WholeClient
  <2>2. /\ n = MsgSize /\ Len(out[d]) + n = taken[d] /\ Boundary(Len(out[d]))
        /\ \A i \in 1..n : recvBuf[o][i] = Len(out[d]) + i
    BY <1>6, <1>10, <1>14 DEF ReadAllInv
  <2>3. ToEcho(o, d, n) /\ Boundary(taken[d])
    BY <1>11, <2>2, NextBoundary DEF ToEcho
  <2> HIDE DEF n
  <2> PICK m \in Nat \ {0} : m = n
    BY <2>1
  <2>4. m = MsgSize /\ ReplyAll(S, o, m) /\ ToEcho(o, d, m) /\ batch' \subseteq batch
    BY <1>3, <2>1, <2>2, <2>3
  <2>5. WholeInv' /\ Elsewhere(o, d) /\ px'.tok[Rt(o)].mode = "N"
    BY <1>3, <1>5, <1>9, <2>3, <2>4, ReplyWhole
  <2>6. QuietRead(o)'
    BY <2>5 DEF QuietRead
  <2> QED
    BY <1>4, <1>12, <2>5, <2>6
<1>15. CASE ~(err # "OK" \/ n = 0) /\ t = Wt(o)
  <2>1. NextMessage(S, o, n)
    BY <1>3, <1>6, <1>8, <1>15 DEF CallbackAll
  <2> d # Null
    <3>1. px.tok[Rt(o)].mode = "N"
      BY <1>6, <1>8, <1>15 DEF Busy
    <3> QED
      BY <1>10, <3>1 DEF WholeClient
  <2>2. Len(out[d]) = taken[d] /\ Boundary(taken[d])
    BY <1>6, <1>10, <1>15 DEF WriteAllInv, WriteInv
  <2>3. /\ batch' \subseteq batch /\ StartRecvAll(S, o)
        /\ \A p \in Obj \ {o} : sendBuf'[p] = sendBuf[p]
    <3>1. sendBuf \in [Obj -> Buffer] /\ batch' \subseteq batch
      BY <1>3 DEF RunInv, CallInv, EchoTypeOK
    <3> QED
      BY <1>4, <1>6, <2>1, <3>1, TerminatedOK DEF NextMessage
  <2> HIDE DEF n, err
  <2>4. /\ WholeInv' /\ Elsewhere(o, d)
        /\ px'.tok[Rt(o)].mode = "A" => ~(Unread(d)' > 0)
    BY <1>3, <1>5, <1>9, <2>2, <2>3, StartRecvWhole
  <2>5. soc'[o] = d
    BY <2>3 DEF StartRecvAll
  <2>6. QuietRead(o)'
    BY <2>4, <2>5 DEF QuietRead, Unread
  <2> QED
    BY <1>4, <1>12, <2>4, <2>6
<1> QED
  BY <1>7, <1>13, <1>14, <1>15

\* EPOLLERR or EPOLLHUP: the client is deleted, with epoll because of a reset.
LEMMA ClosedEventWhole ==
  ASSUME RunInv, RunInv', WholeInv, NEW e, ClosedEvent(e),
         NEW o, o = e.h, NEW d, d = soc[o]
  PROVE  /\ o \in live /\ WholeInv' /\ Elsewhere(o, d) /\ o \notin live'
         /\ ready \ {d} \subseteq ready'
<1> DEFINE Z == Closed(px, o)
<1>1. /\ e \in batch /\ batch' = batch \ {e} /\ o # Listener /\ "HUP" \in e.ev
      /\ UNCHANGED <<scan, now>>
  BY DEF ClosedEvent, Take
<1>2. o \in Obj /\ o \in live
  BY <1>1, TakeMem, RunTypes DEF EventRec, Handler
<1>3. Step(px, Z, o)
  BY <1>2, RunTypes, ClosedStep
<1>4. Z \in Library /\ Timed(Z, now) /\ Apart(px, Z, o)
  BY <1>2, RunTypes, ClosedApart DEF WholeInv, ClockInv
<1>5. ClosedCallback(px, o) # {}
  BY <1>2 DEF ClosedCallback, RunInv, MemInv, Owned, Busy
<1>6. PICK t \in ClosedCallback(px, o) : Callback(Z, t, "ECONNRESET", 0)
  BY <1>5 DEF ClosedEvent
<1>7. Owner(t) = o
  BY <1>2, Owners DEF ClosedCallback
<1>8. Delete(Z, o) /\ ready \ {d} \subseteq ready'
  BY <1>6, <1>7, CallbackReady DEF Callback
<1>9. CalledBack(Z, o)
  BY <1>2, <1>3, <1>4 DEF CalledBack, Step
<1>10. Backend = "epoll" => WholeReason(d)
  BY <1>1 DEF WholeInv, HupInv, WholeReason
<1> HIDE DEF Z
<1>11. batch' \subseteq batch
  BY <1>1
<1> QED
  BY <1>1, <1>2, <1>8, <1>9, <1>10, <1>11, DeleteWhole

\* A step that moves no byte, token, client or connection
LEMMA SameWhole ==
  ASSUME WholeInv, HupInv', scan' <= now,
         UNCHANGED <<link, sent, taken, out, got, fin, rst, backlog, watch,
                     px, soc, now, live, recvBuf, sendBuf>>
  PROVE  WholeInv'
<1>1. \A c \in Conn : WholeConn(c)'
  BY DEF WholeInv, WholeConn, ConnInv, Whole
<1>2. ASSUME NEW o \in live PROVE WholeClient(o)'
  <2>1. WholeClient(o)
    BY <1>2 DEF WholeInv
  <2>2. ReadAllInv(o, soc[o]) => ReadAllInv(o, soc[o])'
    BY DEF ReadAllInv
  <2>3. WriteAllInv(o, soc[o]) => WriteAllInv(o, soc[o])'
    BY DEF WriteAllInv, WriteInv
  <2> QED
    BY <2>1, <2>2, <2>3 DEF WholeClient
<1>3. BacklogInv' /\ ClockInv'
  BY DEF WholeInv, BacklogInv, ClockInv
<1> QED
  BY <1>1, <1>2, <1>3 DEF WholeInv

-----------------------------------------------------------------------------
(* The other handlers.                                                     *)

\* EPOLLIN on a socket
LEMMA ReadEventWhole ==
  ASSUME RunInv, RunInv', WholeInv, NEW e, ReadEventAll(e),
         NEW o, o = e.h, NEW c, c = soc[o]
  PROVE  /\ o \in live /\ WholeInv' /\ Elsewhere(o, c)
         /\ px.tok[Rt(o)].mode = "A" => QuietRead(o)'
         /\ px.tok[Rt(o)].mode # "A" => UNCHANGED <<px, taken>>
<1>1. /\ e \in batch /\ batch' = batch \ {e} /\ o # Listener
      /\ UNCHANGED <<link, sent, out, got, fin, rst, backlog, watch, ready,
                     soc, scan, now, live, sendBuf>>
  BY DEF ReadEventAll, Take
<1>2. o \in live /\ o \in Obj
  BY <1>1, TakeMem, RunTypes DEF EventRec, Handler
<1>3. batch' \subseteq batch /\ HupInv' /\ scan' <= now
  BY <1>1, SameHup DEF WholeInv, ClockInv
<1>4. CASE px.tok[Rt(o)].mode # "A"
  <2>1. UNCHANGED <<px, taken, recvBuf>>
    BY <1>4 DEF ReadEventAll
  <2>2. Elsewhere(o, c)
    BY <1>1, <2>1 DEF Elsewhere, Apart
  <2> QED
    BY <1>1, <1>2, <1>3, <1>4, <2>1, <2>2, SameWhole
<1>5. CASE px.tok[Rt(o)].mode = "A"
  <2>1. /\ c # Null /\ c \in Conn /\ watch[c] = o /\ link[c] = "open"
        /\ ConnInv(c) /\ ReadAllInv(o, c)
    BY <1>2, <1>5, LivingWhole DEF WholeClient
  <2>2. /\ Rt(o) \in Token /\ Wt(o) \in Token /\ Wt(o) # Rt(o) /\ Owner(Rt(o)) = o
    BY <1>2, TokenPair, Owners
  <2> DEFINE R == px.tok[Rt(o)]
  <2>3. R.bufSize = MsgSize /\ R.ioSize \in Nat /\ R.ioSize < MsgSize
    <3>1. R \in TokenRec
      BY <2>2, RunTypes DEF Library
    <3>2. R.ioSize \in Nat
      BY <3>1 DEF TokenRec
    <3> QED
      BY <1>5, <2>1, <3>2 DEF ReadAllInv
  <2> PICK from \in Nat : from = R.ioSize
    BY <2>3
  <2> PICK r : r = ReadResult(c, MsgSize - from)
    OBVIOUS
  <2>4. r.ret \in Int /\ r.err \in Errno
    <3>1. MsgSize - from \in Nat
      BY <2>3
    <3> QED
      BY <2>1, <3>1, ReadResultOK DEF RunInv, CallInv, IsResult
  <2>5. /\ px' = OnReadAll(px, o, r) /\ taken' = AfterRead(c, r)
        /\ recvBuf' = ReceivedAt(o, c, r, from)
    BY <1>5, <2>3 DEF ReadEventAll
  <2> DEFINE n == R.ioSize + r.ret
             rec == [mode |-> IF r.ret = 0 THEN "D"
                              ELSE IF r.ret < 0
                              THEN IF r.err = "EAGAIN" THEN "A" ELSE "E"
                              ELSE IF n < R.bufSize THEN "A" ELSE "D",
                     bufSize |-> R.bufSize,
                     ioSize |-> IF r.ret = 0 THEN 0
                                ELSE IF r.ret < 0
                                THEN IF r.err = "EAGAIN" THEN R.ioSize ELSE 0
                                ELSE n,
                     err |-> r.err]
  <2>6. Puts(px, px', Rt(o), rec) /\ Timed(px', now)
    BY <1>2, <1>5, <2>4, <2>5, RunTypes, OnReadAllPuts DEF WholeInv, ClockInv
  <2>7. /\ rec.mode = IF r.ret = 0 THEN "D"
                      ELSE IF r.ret < 0 THEN IF r.err = "EAGAIN" THEN "A" ELSE "E"
                      ELSE IF from + r.ret < MsgSize THEN "A" ELSE "D"
        /\ rec.bufSize = MsgSize
        /\ rec.ioSize = IF r.ret = 0 THEN 0
                        ELSE IF r.ret < 0 THEN IF r.err = "EAGAIN" THEN from ELSE 0
                        ELSE from + r.ret
        /\ rec.err = r.err
    BY <2>3
  <2> HIDE DEF rec
  <2>8. Apart(px, px', o) /\ px'.tok[Rt(o)] = rec /\ px'.tok[Wt(o)] = px.tok[Wt(o)]
    <3>1. Apart(px, px', Owner(Rt(o))) /\ px'.tok[Rt(o)] = rec
      BY <2>2, <2>6, RunTypes, PutsApart
    <3>2. px'.tok[Wt(o)] = px.tok[Wt(o)]
      BY <2>2, <2>6, RunTypes DEF Puts, Library
    <3> QED
      BY <2>2, <3>1, <3>2
  <2>9. HasReadWhole(o, c)
    <3>1. /\ Boundary(Len(out[c])) /\ Len(out[c]) + from = taken[c] /\ from < MsgSize
          /\ \A i \in 1..from : recvBuf[o][i] = Len(out[c]) + i
      BY <1>5, <2>1 DEF ReadAllInv
    <3>2. /\ r = ReadResult(c, MsgSize - from) /\ taken' = AfterRead(c, r)
          /\ recvBuf' = ReceivedAt(o, c, r, from) /\ UNCHANGED <<out, sent, fin, rst>>
      BY <1>1, <2>5
    <3>3. /\ px'.tok[Rt(o)].mode =
               IF r.ret = 0 THEN "D"
               ELSE IF r.ret < 0 THEN IF r.err = "EAGAIN" THEN "A" ELSE "E"
               ELSE IF from + r.ret < MsgSize THEN "A" ELSE "D"
          /\ px'.tok[Rt(o)].bufSize = MsgSize
          /\ px'.tok[Rt(o)].ioSize =
               IF r.ret = 0 THEN 0
               ELSE IF r.ret < 0 THEN IF r.err = "EAGAIN" THEN from ELSE 0
               ELSE from + r.ret
          /\ px'.tok[Rt(o)].err = r.err
      BY <2>7, <2>8
    <3>4. ReadsWhole(o, c, from, r)
      BY <3>1, <3>2, <3>3 DEF ReadsWhole
    <3> QED
      BY <1>2, <2>1, <3>1, <3>4, ReadWholeStream DEF RunInv
  <2>10. Elsewhere(o, c)
    BY <1>1, <2>8, <2>9 DEF Elsewhere, HasReadWhole
  <2>11. soc'[o] = c /\ watch'[c] = o /\ link'[c] = "open" /\ watch'[c] # Null
    BY <1>1, <1>2, <2>1
  <2>12. WholeConn(c)'
    BY <1>1, <2>1, <2>9, <2>11, ReadConn
  <2>13. px'.tok[Wt(o)].mode = "N"
    BY <1>2, <1>5, <2>8 DEF RunInv, MemInv, Owned, Busy
  <2>14. WholeClient(o)'
    <3>1. WriteAllInv(o, c)'
      BY <2>13 DEF WriteAllInv, WriteInv
    <3> QED
      BY <2>1, <2>9, <2>11, <3>1 DEF WholeClient, HasReadWhole
  <2>15. BacklogInv'
    BY <1>1, BacklogSame DEF WholeInv, RunInv
  <2>16. WholeInv'
    BY <1>1, <1>2, <1>3, <2>1, <2>6, <2>10, <2>11, <2>12, <2>14, <2>15, WholeStep
  <2>17. QuietRead(o)'
    BY <2>9, <2>11 DEF QuietRead, Unread, HasReadWhole
  <2> QED
    BY <1>2, <1>5, <2>10, <2>16, <2>17
<1> QED
  BY <1>4, <1>5

\* EPOLLOUT on a socket
LEMMA WriteEventWhole ==
  ASSUME RunInv, RunInv', WholeInv, NEW e \in batch \cup {cur}, WriteEvent(e),
         NEW o, o = e.h, NEW c, c = soc[o]
  PROVE  /\ o \in live /\ WholeInv' /\ Elsewhere(o, c)
         /\ px'.tok[Rt(o)] = px.tok[Rt(o)]
<1>1. /\ o # Listener
      /\ UNCHANGED <<link, sent, taken, got, fin, rst, backlog, watch, ready,
                     soc, scan, now, live, recvBuf, sendBuf>>
      /\ \/ e \in batch /\ batch' = batch \ {e}
         \/ pc = "afterRead" /\ e = cur /\ o \notin deleted /\ batch' = batch
  BY DEF WriteEvent, WriteTurn, Take, evars
<1>2. o \in live /\ o \in Obj
  <2>1. CASE e \in batch /\ batch' = batch \ {e}
    BY <1>1, <2>1, TakeMem, RunTypes
  <2>2. CASE pc = "afterRead" /\ e = cur /\ o \notin deleted /\ batch' = batch
    BY <1>1, <2>2, RunTypes DEF RunInv, MemInv, BatchInv
  <2> QED
    BY <1>1, <2>1, <2>2
<1>3. batch' \subseteq batch /\ HupInv' /\ scan' <= now
  BY <1>1, SameHup DEF WholeInv, ClockInv
<1>4. CASE px.tok[Wt(o)].mode # "A"
  <2>1. UNCHANGED <<px, out>>
    BY <1>4 DEF WriteEvent
  <2>2. Elsewhere(o, c)
    BY <1>1, <2>1 DEF Elsewhere, Apart
  <2> QED
    BY <1>1, <1>2, <1>3, <1>4, <2>1, <2>2, SameWhole
<1>5. CASE px.tok[Wt(o)].mode = "A"
  <2>1. px.tok[Rt(o)].mode = "N"
    BY <1>2, <1>5 DEF RunInv, MemInv, Owned, Busy
  <2>2. /\ c # Null /\ c \in Conn /\ watch[c] = o /\ link[c] = "open"
        /\ ConnInv(c) /\ WriteAllInv(o, c)
    BY <1>2, <2>1, LivingWhole DEF WholeClient
  <2>3. WriteInv(o, c) /\ Boundary(taken[c]) /\ px.tok[Wt(o)].bufSize = MsgSize
    BY <1>5, <2>2 DEF WriteAllInv
  <2>4. /\ Elsewhere(o, c) /\ Wrote(o, c) /\ ConnInv(c)' /\ Timed(px', now)
        /\ px'.tok[Rt(o)] = px.tok[Rt(o)]
        /\ px'.tok[Wt(o)].bufSize = px.tok[Wt(o)].bufSize
    BY <1>2, <1>5, <2>2, <2>3, WriteEventBytes DEF WholeInv, ClockInv
  <2>5. soc'[o] = c /\ watch'[c] = o /\ px'.tok[Rt(o)].mode = "N"
    BY <1>1, <2>1, <2>2, <2>4
  <2>6. WholeClient(o)'
    <3>1. ReadAllInv(o, c)'
      BY <2>5 DEF ReadAllInv
    <3>2. WriteAllInv(o, c)'
      BY <1>1, <2>3, <2>4 DEF WriteAllInv, Wrote, Boundary
    <3> QED
      BY <2>2, <2>5, <3>1, <3>2 DEF WholeClient
  <2>7. WholeConn(c)'
    <3>1. Len(out'[c]) <= taken[c] /\ taken[c] = Whole(taken[c])
      BY <2>2, <2>3, <2>4, Counts, WholeAtBoundary DEF Wrote
    <3>2. Len(out'[c]) <= Whole(taken'[c]) /\ link'[c] # "closed"
      BY <1>1, <2>2, <3>1
    <3> QED
      BY <2>4, <3>2 DEF WholeConn, Whole
  <2>8. BacklogInv'
    BY <1>1, BacklogSame DEF WholeInv, RunInv
  <2>9. WholeInv'
    BY <1>1, <1>2, <1>3, <2>2, <2>4, <2>5, <2>6, <2>7, <2>8, WholeStep
  <2> QED
    BY <1>2, <2>4, <2>9
<1> QED
  BY <1>4, <1>5

\* Server::onAccept, after accept() has returned k: a new client on k, of which
\* nothing has been read, or, if _accept failed, on no connection.
LEMMA OnAcceptWhole ==
  ASSUME RunInv, RunInv', WholeInv, NEW k \in Conn \cup {Null}, NEW c \in {k, Null},
         OnAcceptAll(c), UNCHANGED <<batch, now, scan>>, BacklogInv',
         IF k = Null THEN link' = link
         ELSE /\ link[k] = "backlog"
              /\ link' = [link EXCEPT ![k] = IF c = Null THEN "blocking" ELSE "open"]
  PROVE  /\ WholeInv' /\ ready \subseteq ready' /\ (k # Null => watch[k] = Null)
         /\ \E o \in Obj : o \notin live /\ Elsewhere(o, k) /\ QuietRead(o)'
<1> PICK r : r = ReadResult(c, MsgSize)
  OBVIOUS
<1>1. PICK o \in Obj \ live, rtv \in Garbage, wtv \in Garbage :
        /\ px' = ReadAll(NewSocket(px, o, rtv, wtv), o, MsgSize, r, now)
        /\ taken' = AfterRead(c, r) /\ soc' = [soc EXCEPT ![o] = c]
        /\ live' = live \cup {o} /\ recvBuf' = ReceivedAt(o, c, r, 0)
        /\ IF c = Null THEN UNCHANGED <<watch, ready>>
           ELSE watch' = [watch EXCEPT ![c] = o] /\ ready \subseteq ready'
        /\ UNCHANGED <<sent, out, got, fin, rst, sendBuf>>
  BY DEF OnAcceptAll
<1> DEFINE S == NewSocket(px, o, rtv, wtv)
<1>2. r.ret \in Int /\ r.err \in Errno
  BY ReadResultOK DEF RunInv, CallInv, IsResult
<1>3. rtv \in Nat /\ wtv \in Nat /\ \A t \in px.timers : Owner(t) # o
  BY DEF RunInv, MemInv, Owned
<1>4. /\ S \in Library /\ Timed(S, now) /\ Apart(px, S, o)
      /\ S.tok[Rt(o)] = FreshToken /\ S.tok[Wt(o)] = FreshToken
  BY <1>3, RunTypes, NewSocketApart DEF WholeInv, ClockInv
<1>5. S.tok[Rt(o)].mode = "N" /\ S.tok[Wt(o)].mode = "N"
  BY <1>4 DEF FreshToken
<1>6. px' = ReadAll(S, o, MsgSize, r, now)
  BY <1>1
<1> HIDE DEF S
<1> DEFINE rec == [mode |-> IF r.ret < 0
                            THEN IF r.err = "EAGAIN" THEN "A" ELSE "E"
                            ELSE IF 0 < r.ret /\ r.ret < MsgSize THEN "A" ELSE "D",
                   bufSize |-> MsgSize,
                   ioSize |-> IF r.ret < 0 THEN 0 ELSE r.ret,
                   err |-> r.err]
<1>7. Puts(S, px', Rt(o), rec) /\ Timed(px', now)
  BY <1>2, <1>4, <1>5, <1>6, RunTypes, ReadAllPuts
<1>8. /\ rec.mode = IF r.ret = 0 THEN "D"
                    ELSE IF r.ret < 0 THEN IF r.err = "EAGAIN" THEN "A" ELSE "E"
                    ELSE IF 0 + r.ret < MsgSize THEN "A" ELSE "D"
      /\ rec.bufSize = MsgSize
      /\ rec.ioSize = IF r.ret = 0 THEN 0
                      ELSE IF r.ret < 0 THEN IF r.err = "EAGAIN" THEN 0 ELSE 0
                      ELSE 0 + r.ret
      /\ rec.err = r.err
  BY <1>2
<1> HIDE DEF rec
<1>9. Apart(px, px', o) /\ px'.tok[Rt(o)] = rec /\ px'.tok[Wt(o)].mode = "N"
  <2>1. Rt(o) \in Token /\ Wt(o) \in Token /\ Rt(o) # Wt(o) /\ Owner(Rt(o)) = o
    BY TokenPair, Owners
  <2>2. Apart(S, px', Owner(Rt(o))) /\ px'.tok[Rt(o)] = rec
    BY <1>4, <1>7, <2>1, PutsApart
  <2>3. px'.tok[Wt(o)] = S.tok[Wt(o)]
    BY <1>4, <1>7, <2>1, <2>2 DEF Puts, Library
  <2>4. Apart(px, px', o)
    BY <1>4, <2>1, <2>2 DEF Apart
  <2> QED
    BY <1>5, <2>2, <2>3, <2>4
<1>10. /\ soc'[o] = c /\ \A p \in Obj \ {o} : soc'[p] = soc[p] /\ (p \in live' => p \in live)
  BY <1>1 DEF RunInv, CallInv
<1>11. o \notin Announced /\ Announced' = Announced
  BY DEF RunInv, MemInv, BatchInv, Announced
<1>12. \A d \in Conn \ {k} : link'[d] = link[d] /\ watch'[d] = watch[d]
  BY <1>1 DEF RunInv, CallInv, KernelTypeOK
<1>13. k # Null => k \in Conn /\ WholeConn(k) /\ ConnInv(k) /\ watch[k] = Null
  BY DEF WholeInv, WholeConn, ConnInv
<1>14. CASE c = Null
  <2>1. r.ret = -1 /\ r.err = "EBADF"
    BY <1>14 DEF ReadResult, Result
  <2>2. taken' = taken
    BY <1>1, <2>1 DEF AfterRead
  <2>3. recvBuf' = recvBuf
    <3>1. recvBuf \in [Obj -> Buffer]
      BY DEF RunInv, CallInv, EchoTypeOK
    <3>2. \A i \in 1..BufSize : ~(0 < i /\ i <= 0 + r.ret)
      BY <2>1
    <3>3. recvBuf[o] = [i \in 1..BufSize |-> recvBuf[o][i]]
      BY <3>1 DEF Buffer
    <3>4. ReceivedAt(o, c, r, 0) = [recvBuf EXCEPT ![o] = recvBuf[o]]
      BY <3>1, <3>2, <3>3 DEF ReceivedAt
    <3> QED
      BY <1>1, <3>1, <3>4
  <2>4. px'.tok[Rt(o)].mode = "E" /\ px'.tok[Rt(o)].ioSize = 0
    BY <1>8, <1>9, <2>1
  <2>5. WholeClient(o)'
    BY <1>10, <1>14, <2>4 DEF WholeClient
  <2>6. Elsewhere(o, k)
    BY <1>1, <1>9, <1>10, <1>12, <2>2, <2>3 DEF Elsewhere
  <2>7. ASSUME k # Null PROVE WholeConn(k)'
    <3>1. k \in Conn /\ WholeConn(k) /\ link[k] = "backlog" /\ link'[k] = "blocking"
      BY <1>13, <1>14, <2>7 DEF RunInv, CallInv, KernelTypeOK
    <3>2. watch[k] = Null /\ watch' = watch /\ ConnInv(k)
      BY <1>1, <1>13, <1>14, <2>7
    <3>3. ConnInv(k)'
      BY <1>1, <2>2, <3>1, <3>2 DEF ConnInv
    <3> QED
      BY <1>1, <2>2, <3>1, <3>3 DEF WholeConn, Whole
  <2>8. WholeInv'
    BY <1>1, <1>7, <1>11, <1>13, <1>14, <2>5, <2>6, <2>7, WholeStep
  <2>9. QuietRead(o)'
    BY <2>4 DEF QuietRead
  <2> QED
    BY <1>1, <1>13, <1>14, <2>6, <2>8, <2>9
<1>15. CASE c # Null
  <2> k = c
    BY <1>15
  <2>1. c \in Conn /\ WholeConn(c) /\ ConnInv(c) /\ link[c] = "backlog" /\ watch[c] = Null
    BY <1>13, <1>15
  <2>2. taken[c] = 0 /\ Len(out[c]) = 0
    <3>1. taken[c] = 0 /\ Len(out[c]) <= taken[c]
      BY <2>1 DEF ConnInv
    <3> QED
      BY <2>1, <3>1, Counts
  <2>3. HasReadWhole(o, c)
    <3> PICK from \in Nat : from = 0
      OBVIOUS
    <3>1. /\ Boundary(Len(out[c])) /\ Len(out[c]) + from = taken[c] /\ from < MsgSize
          /\ \A i \in 1..from : recvBuf[o][i] = Len(out[c]) + i
      BY <2>2, FirstBoundary
    <3>2. /\ r = ReadResult(c, MsgSize - from) /\ taken' = AfterRead(c, r)
          /\ recvBuf' = ReceivedAt(o, c, r, from) /\ UNCHANGED <<out, sent, fin, rst>>
      BY <1>1
    <3>3. /\ px'.tok[Rt(o)].mode =
               IF r.ret = 0 THEN "D"
               ELSE IF r.ret < 0 THEN IF r.err = "EAGAIN" THEN "A" ELSE "E"
               ELSE IF from + r.ret < MsgSize THEN "A" ELSE "D"
          /\ px'.tok[Rt(o)].bufSize = MsgSize
          /\ px'.tok[Rt(o)].ioSize =
               IF r.ret = 0 THEN 0
               ELSE IF r.ret < 0 THEN IF r.err = "EAGAIN" THEN from ELSE 0
               ELSE from + r.ret
          /\ px'.tok[Rt(o)].err = r.err
      BY <1>8, <1>9
    <3>4. ReadsWhole(o, c, from, r)
      BY <3>1, <3>2, <3>3 DEF ReadsWhole
    <3> QED
      BY <2>1, <3>1, <3>4, ReadWholeStream DEF RunInv
  <2>4. Elsewhere(o, c)
    BY <1>1, <1>9, <1>10, <1>12, <2>3 DEF Elsewhere, HasReadWhole
  <2>5. link'[c] = "open" /\ watch'[c] = o /\ watch'[c] # Null
    BY <1>1, <1>15, <2>1 DEF RunInv, CallInv, KernelTypeOK
  <2>6. WholeConn(c)'
    BY <1>1, <2>1, <2>3, <2>5, ReadConn
  <2>7. WholeClient(o)'
    <3>1. WriteAllInv(o, c)'
      BY <1>9 DEF WriteAllInv, WriteInv
    <3> QED
      BY <1>10, <1>15, <2>3, <2>5, <3>1 DEF WholeClient, HasReadWhole
  <2>8. WholeInv'
    BY <1>1, <1>7, <1>11, <2>1, <2>4, <2>6, <2>7, WholeStep
  <2>9. QuietRead(o)'
    BY <1>10, <2>3 DEF QuietRead, Unread, HasReadWhole
  <2> QED
    BY <1>1, <1>15, <2>1, <2>4, <2>8, <2>9
<1> QED
  BY <1>14, <1>15

\* The turns of the loop of Acceptor::onRead
LEMMA AcceptWhole ==
  ASSUME RunInv, RunInv', WholeInv, AcceptCalls
  PROVE  /\ WholeInv' /\ ready \subseteq ready'
         /\ \E o \in Obj, c \in Conn \cup {Null} :
              /\ o \notin live /\ Elsewhere(o, c) /\ QuietRead(o)'
              /\ c # Null => watch[c] = Null
<1>1. CASE AcceptAll
  <2> PICK c : c = Head(backlog)
    OBVIOUS
  <2>1. /\ OnAcceptAll(c) /\ UNCHANGED <<batch, now, scan>> /\ backlog # <<>>
        /\ backlog' = Tail(backlog) /\ link' = [link EXCEPT ![c] = "open"]
    BY <1>1 DEF AcceptAll, loopVars
  <2>2. BacklogInv' /\ c \in Conn /\ link[c] = "backlog"
    BY <2>1, BacklogTail DEF RunInv, WholeInv
  <2>3. c # Null
    BY <2>2
  <2> QED
    BY <2>1, <2>2, <2>3, OnAcceptWhole
<1>2. CASE AcceptAllFails
  <2>1. OnAcceptAll(Null) /\ UNCHANGED <<batch, now, scan, link, backlog>>
    BY <1>2 DEF AcceptAllFails
  <2>2. BacklogInv'
    BY <2>1 DEF WholeInv, BacklogInv
  <2> QED
    BY <2>1, <2>2, OnAcceptWhole
<1>3. CASE AcceptAllUnset
  <2> PICK k : k = Head(backlog)
    OBVIOUS
  <2>1. /\ OnAcceptAll(Null) /\ UNCHANGED <<batch, now, scan>> /\ backlog # <<>>
        /\ backlog' = Tail(backlog) /\ link' = [link EXCEPT ![k] = "blocking"]
    BY <1>3 DEF AcceptAllUnset
  <2>2. BacklogInv' /\ k \in Conn /\ link[k] = "backlog"
    BY <2>1, BacklogTail DEF RunInv, WholeInv
  <2>3. k # Null
    BY <2>2
  <2> QED
    BY <2>1, <2>2, <2>3, OnAcceptWhole
<1> QED
  BY <1>1, <1>2, <1>3 DEF AcceptCalls

\* run() between two handlers, and the events of the listening socket
LEMMA LoopWhole ==
  ASSUME RunInv, WholeInv, Loop \/ AcceptDone \/ \E e \in batch \cup {cur} : AcceptEvent(e)
  PROVE  WholeInv'
<1>1. CASE \/ Loop /\ batch' \subseteq batch
           \/ AcceptDone \/ \E e \in batch \cup {cur} : AcceptEvent(e)
  <2>1. /\ batch' \subseteq batch /\ scan' \in {scan, now, 0}
        /\ UNCHANGED <<link, sent, taken, out, got, fin, rst, backlog, watch,
                       px, soc, now, live, recvBuf, sendBuf>>
    BY <1>1 DEF Loop, Poll, Interrupted, EndBatch, EndEvent, EndTimers, AcceptDone,
                AcceptEvent, Take, kvars, evars
  <2>2. scan \in Nat /\ now \in Nat /\ scan <= now
    BY DEF RunInv, LoopTyped, WholeInv, ClockInv
  <2>3. scan' <= now
    BY <2>1, <2>2
  <2>4. HupInv'
    BY <2>1, SameHup DEF WholeInv
  <2> QED
    BY <2>1, <2>3, <2>4, SameWhole
<1>2. CASE Loop /\ ~(batch' \subseteq batch)
  <2>1. Poll /\ UNCHANGED evars
    BY <1>2 DEF Loop, Interrupted, EndBatch, EndEvent, EndTimers
  <2>2. UNCHANGED <<link, sent, taken, out, got, fin, rst, backlog, watch,
                    px, soc, now, live, recvBuf, sendBuf, scan>>
    BY <1>2, <2>1 DEF Poll, evars
  <2>3. HupInv'
    BY <1>2, <2>1, PollHup
  <2>4. scan' <= now
    BY <2>2 DEF WholeInv, ClockInv
  <2> QED
    BY <2>2, <2>3, <2>4, SameWhole
<1> QED
  BY <1>1, <1>2

-----------------------------------------------------------------------------
(* The environment, and all of it.                                         *)

\* A peer's step on connection c
LEMMA PeerWhole ==
  ASSUME RunInv, RunInv', WholeInv, NEW c \in Conn,
         UNCHANGED <<px, soc, batch, scan, now, live, recvBuf, sendBuf>>,
         Connect(c) \/ PeerSend(c) \/ PeerFinish(c) \/ PeerReset(c) \/ PeerRecv(c)
  PROVE  WholeInv'
<1>1. /\ ConnInv(c)' /\ BacklogInv' /\ UNCHANGED <<taken, out, watch>>
      /\ \A d \in Conn \ {c} : link'[d] = link[d] /\ sent'[d] = sent[d] /\ got'[d] = got[d]
      /\ sent'[c] = sent[c] \/ c \notin fin
      /\ fin \subseteq fin' /\ rst \subseteq rst' /\ link'[c] # "closed"
  <2>1. KernelTypeOK /\ KernelTypeOK' /\ BacklogInv /\ ConnInv(c)
    BY DEF RunInv, CallInv, WholeInv, WholeConn
  <2> QED
    BY <2>1, PeerBytes
<1>2. ASSUME NEW d \in Conn PROVE WholeConn(d)'
  <2>1. WholeConn(d)
    BY DEF WholeInv
  <2>2. Len(out'[d]) <= Whole(taken'[d])
    BY <1>1, <2>1 DEF WholeConn
  <2>3. CASE d = c
    BY <1>1, <2>2, <2>3 DEF WholeConn
  <2>4. CASE d # c
    <3>1. link'[d] = link[d] /\ sent'[d] = sent[d] /\ got'[d] = got[d]
      BY <1>1, <2>4
    <3>2. ConnInv(d)'
      BY <1>1, <2>1, <3>1 DEF WholeConn, ConnInv
    <3> QED
      BY <1>1, <2>1, <2>2, <3>1, <3>2 DEF WholeConn, Whole
  <2> QED
    BY <2>3, <2>4
<1>3. ASSUME NEW o \in live PROVE WholeClient(o)'
  <2> PICK d : d = soc[o]
    OBVIOUS
  <2>1. CASE d = Null
    BY <1>3, <2>1, LivingWhole DEF WholeClient
  <2>2. CASE d # Null
    <3>1. watch[d] = o /\ ReadAllInv(o, d) /\ WriteAllInv(o, d) /\ d \in Conn
      BY <1>3, <2>2, LivingWhole
    <3>2. d \in fin => sent'[d] = sent[d]
      BY <1>1, <3>1
    <3>3. ReadAllInv(o, d)'
      BY <1>1, <3>1, <3>2 DEF ReadAllInv
    <3>4. WriteAllInv(o, d)'
      BY <1>1, <3>1 DEF WriteAllInv, WriteInv
    <3>5. soc'[o] = d /\ watch'[d] = o
      BY <1>1, <3>1
    <3> QED
      BY <2>2, <3>3, <3>4, <3>5 DEF WholeClient
  <2> QED
    BY <2>1, <2>2
<1>4. HupInv' /\ ClockInv'
  BY <1>1 DEF WholeInv, HupInv, ClockInv
<1> QED
  BY <1>1, <1>2, <1>3, <1>4 DEF WholeInv

\* Peers, signals and the clock
LEMMA EnvironmentWhole ==
  ASSUME RunInv, RunInv', WholeInv, Environment
  PROVE  WholeInv'
<1>1. ASSUME NEW c \in Conn, UNCHANGED <<pvars, evars>>,
             Connect(c) \/ PeerSend(c) \/ PeerFinish(c) \/ PeerReset(c) \/ PeerRecv(c)
      PROVE  WholeInv'
  <2>1. UNCHANGED <<px, soc, batch, scan, now, live, recvBuf, sendBuf>>
    BY <1>1 DEF pvars, evars, loopVars
  <2> QED
    BY <1>1, <2>1, PeerWhole
<1>2. CASE Signal /\ UNCHANGED evars
  <2>1. UNCHANGED <<link, sent, taken, out, got, fin, rst, backlog, watch,
                    px, soc, now, live, recvBuf, sendBuf, batch, scan>>
    BY <1>2 DEF Signal, kvars, loopVars, evars
  <2>2. HupInv' /\ scan' <= now
    BY <2>1, SameHup DEF WholeInv, ClockInv
  <2> QED
    BY <2>1, <2>2, SameWhole
<1>3. CASE Tick /\ UNCHANGED evars
  <2>1. UNCHANGED <<link, sent, taken, out, got, fin, rst, backlog, watch,
                    px, soc, live, recvBuf, sendBuf, batch, scan>>
    BY <1>3 DEF Tick, kvars, loopVars, evars
  <2>2. ClockInv'
    BY <1>3, TickClock DEF WholeInv
  <2>3. HupInv'
    BY <2>1, SameHup DEF WholeInv
  <2>4. \A c \in Conn : WholeConn(c)'
    BY <2>1 DEF WholeInv, WholeConn, ConnInv, Whole
  <2>5. ASSUME NEW o \in live PROVE WholeClient(o)'
    <3>1. WholeClient(o)
      BY <2>5 DEF WholeInv
    <3>2. ReadAllInv(o, soc[o]) => ReadAllInv(o, soc[o])'
      BY <2>1 DEF ReadAllInv
    <3>3. WriteAllInv(o, soc[o]) => WriteAllInv(o, soc[o])'
      BY <2>1 DEF WriteAllInv, WriteInv
    <3> QED
      BY <2>1, <3>1, <3>2, <3>3 DEF WholeClient
  <2>6. BacklogInv'
    BY <2>1 DEF WholeInv, BacklogInv
  <2> QED
    BY <2>1, <2>2, <2>3, <2>4, <2>5, <2>6 DEF WholeInv
<1> QED
  BY <1>1, <1>2, <1>3 DEF Environment, Peer

\* Nothing is connected, read or written at first.
LEMMA InitWhole == Init => WholeInv
<1> SUFFICES ASSUME Init PROVE WholeInv
  OBVIOUS
<1>1. StreamInv
  BY InitStream
<1>2. live = {} /\ \A c \in Conn : /\ link[c] = "idle" /\ taken[c] = 0
                                   /\ out[c] = <<>> /\ Len(out[c]) = 0
  BY DEF Init, KernelInit
<1>3. Len(<<>>) <= Whole(0)
  BY FirstBoundary, WholeAtBoundary
<1>4. ASSUME NEW c \in Conn PROVE WholeConn(c)
  BY <1>1, <1>2, <1>3 DEF WholeConn, StreamInv
<1> QED
  BY <1>1, <1>2, <1>4 DEF WholeInv, StreamInv

\* Every step keeps WholeInv.
LEMMA AllNextWhole ==
  RunInv /\ RunInv' /\ WholeInv /\ [ServerAll \/ Environment]_vars => WholeInv'
<1> SUFFICES ASSUME RunInv, RunInv', WholeInv, [ServerAll \/ Environment]_vars
             PROVE  WholeInv'
  OBVIOUS
<1>1. CASE Loop \/ AcceptDone
  BY <1>1, LoopWhole
<1>2. ASSUME NEW e \in batch \cup {cur},
             ClosedEvent(e) \/ AcceptEvent(e) \/ ReadEventAll(e) \/ WriteEvent(e)
      PROVE  WholeInv'
  <2>1. CASE AcceptEvent(e)
    BY <1>2, <2>1, LoopWhole
  <2>2. CASE ClosedEvent(e)
    BY <2>2, ClosedEventWhole
  <2>3. CASE ReadEventAll(e)
    BY <2>3, ReadEventWhole
  <2>4. CASE WriteEvent(e)
    BY <1>2, <2>4, WriteEventWhole
  <2> QED
    BY <1>2, <2>1, <2>2, <2>3, <2>4
<1>3. CASE AcceptCalls
  BY <1>3, AcceptWhole
<1>4. CASE CompleteAll
  BY <1>4, CompleteWhole
<1>5. CASE Environment
  BY <1>5, EnvironmentWhole
<1>6. CASE UNCHANGED vars
  <2>1. UNCHANGED <<link, sent, taken, out, got, fin, rst, backlog, watch,
                    px, soc, now, live, recvBuf, sendBuf, batch, scan>>
    BY <1>6 DEF vars, kvars, pvars, loopVars, evars
  <2>2. HupInv' /\ scan' <= now
    BY <2>1, SameHup DEF WholeInv, ClockInv
  <2> QED
    BY <2>1, <2>2, SameWhole
<1> QED
  BY <1>1, <1>2, <1>3, <1>4, <1>5, <1>6 DEF ServerAll, AcceptCalls

\* RunInv and WholeInv hold throughout.
LEMMA WholeAlways == AllSpec => [](RunInv /\ WholeInv)
BY AllInvariants, InitWhole, AllNextWhole, PTL DEF AllSpec

-----------------------------------------------------------------------------
(* The theorems about the messages.                                        *)

\* What is written back are the first bytes of the stream, and no more than the
\* whole messages among those read.
RepliesWhole ==
  \A c \in Conn : /\ out[c] = [i \in 1..Len(out[c]) |-> i]
                  /\ Len(out[c]) <= Whole(taken[c])

\* On epoll and on kqueue, what readAll and writeAll carry back are the bytes of
\* whole messages, in order, none twice and none of a message that is not
\* complete, however the stream was cut into reads and writes.
THEOREM RepliesAreWhole == AllSpec => []RepliesWhole
<1>1. WholeInv => RepliesWhole
  BY DEF WholeInv, WholeConn, ConnInv, RepliesWhole
<1> QED
  BY <1>1, WholeAlways, PTL

\* On epoll, what readAll and writeAll carry back are whole messages, in order,
\* however the stream was cut into reads and writes, and a peer that has not
\* reset is hung up on only when it has finished and has all of them: for every
\* size of message and of buffers, any number of peers and any order of events.
\* (The kqueue build hangs up on a peer that has finished sending before.)
THEOREM WholeMessagesEchoed ==
  ASSUME Backend = "epoll"
  PROVE  AllSpec => []EchoesWholeMessages
<1>1. WholeInv => EchoesWholeMessages
  BY DEF WholeInv, WholeConn, ConnInv, EchoesWholeMessages
<1> QED
  BY <1>1, WholeAlways, PTL

-----------------------------------------------------------------------------
(* The edges of the reads.                                                 *)

\* What has arrived of the message client o waits for has its edge.
ReadWaits(o) ==
  px.tok[Rt(o)].mode = "A" /\ Unread(soc[o]) > 0 => Resumes(o, "IN")

AllWait == \A o \in live : ReadWaits(o)

\* A client that waits for nothing that is there already
LEMMA QuietReadWaits == \A o : QuietRead(o)' => ReadWaits(o)'
BY DEF QuietRead, ReadWaits, Unread

\* A step of the server on client o takes no other client's edge away.
LEMMA AllEdgeStep ==
  ASSUME RunInv, RunInv', WholeInv, AllWait, NEW o \in Obj, NEW d \in Conn \cup {Null},
         Elsewhere(o, d), d # Null => watch[d] \in {o, Null}, ready \ {d} \subseteq ready',
         Spares(o), o \in live' => ReadWaits(o)'
  PROVE  AllWait'
<1>1. ASSUME NEW p \in live', p # o PROVE ReadWaits(p)'
  <2>1. p \in Obj /\ p \in live /\ soc'[p] = soc[p] /\ Rt(p) \in Token
    BY <1>1, RunTypes, TokenPair DEF Elsewhere, RunInv, CallInv, EchoTypeOK
  <2>2. px'.tok[Rt(p)] = px.tok[Rt(p)]
    BY <1>1, <2>1, Owners DEF Elsewhere, Apart
  <2> PICK c : c = soc[p]
    OBVIOUS
  <2>3. CASE px.tok[Rt(p)].mode # "A"
    BY <2>2, <2>3 DEF ReadWaits
  <2>4. CASE px.tok[Rt(p)].mode = "A"
    <3>1. c \in Conn /\ watch[c] = p
      BY <2>1, <2>4, LivingWhole DEF WholeClient
    <3>2. c # d
      BY <1>1, <2>1, <3>1
    <3>3. Unread(c)' = Unread(c)
      BY <3>1, <3>2 DEF Elsewhere, Unread
    <3>4. Resumes(p, "IN") => Resumes(p, "IN")'
      BY <1>1, <2>1, <3>2 DEF Resumes, Spares
    <3>5. ReadWaits(p) /\ soc[p] = c /\ soc'[p] = c
      BY <2>1 DEF AllWait
    <3> QED
      BY <2>2, <3>3, <3>4, <3>5 DEF ReadWaits, Unread
  <2> QED
    BY <2>3, <2>4
<1> QED
  BY <1>1 DEF AllWait

\* A step that leaves the clients, their connections and their edges alone
LEMMA AllEdgeSame ==
  ASSUME AllWait, UNCHANGED <<sent, taken, ready, px, soc, live>>,
         Spares(Listener), Listener \notin live
  PROVE  AllWait'
<1>1. ASSUME NEW o \in live PROVE ReadWaits(o)'
  <2>1. ReadWaits(o)
    BY <1>1 DEF AllWait
  <2>2. Resumes(o, "IN") => Resumes(o, "IN")'
    BY <1>1 DEF Resumes, Spares
  <2> QED
    BY <2>1, <2>2 DEF ReadWaits, Unread
<1> QED
  BY <1>1 DEF AllWait

\* run() between two handlers, unless it stops
LEMMA AllLoopEdge ==
  ASSUME RunInv, WholeInv, AllWait, Loop, pc' # "stopped"
  PROVE  AllWait'
<1>1. UNCHANGED <<sent, taken, px, soc, live>>
  BY DEF Loop, Poll, Interrupted, EndBatch, EndEvent, EndTimers, kvars, evars
<1>2. ASSUME NEW o \in live, px.tok[Rt(o)].mode = "A", Resumes(o, "IN"),
             Unread(soc[o]) > 0
      PROVE  Resumes(o, "IN")'
  <2>1. soc[o] \in Conn /\ watch[soc[o]] = o /\ o \in Obj
    BY <1>2, LivingWhole DEF WholeClient
  <2>2. CASE Poll
    <3>1. soc[o] \in ready
      BY <1>2, <2>2 DEF Resumes, Poll, RunInv, MemInv, BatchInv
    <3>2. "IN" \in Events(soc[o])
      BY <1>2, <2>1 DEF Events, EpollEvents, KqueueEvents, KqueueTests, Readable
    <3>3. ~stop
      BY <2>2 DEF Poll
    <3> DEFINE k == soc[o]
               reported == {x \in ready : Events(x) # {}}
               e == [h |-> HandlerOf(k), ev |-> Events(k)]
    <3>4. k \in reported
      BY <3>1, <3>2
    <3>5. batch' = {[h |-> HandlerOf(x), ev |-> Events(x)] : x \in reported}
      BY <2>2, <3>3, <3>4 DEF Poll
    <3>6. e \in batch'
      BY <3>4, <3>5
    <3>7. HandlerOf(k) = o
      BY <2>1 DEF HandlerOf
    <3>8. e.h = o /\ e.ev = Events(k)
      BY <3>7
    <3> HIDE DEF e, k
    <3>9. e.ev \cap {"IN", "HUP"} # {}
      BY <3>2, <3>8 DEF k
    <3> QED
      BY <3>6, <3>8, <3>9 DEF Resumes
  <2>3. CASE Interrupted \/ EndBatch \/ EndTimers \/ EndEvent
    BY <1>2, <2>3 DEF Resumes, Interrupted, EndBatch, EndTimers, EndEvent, kvars
  <2> QED
    BY <2>2, <2>3 DEF Loop
<1>3. ASSUME NEW o \in live PROVE ReadWaits(o)'
  <2>1. ReadWaits(o)
    BY <1>3 DEF AllWait
  <2>2. px.tok[Rt(o)].mode = "A" /\ Unread(soc[o]) > 0 => Resumes(o, "IN")'
    BY <1>2, <1>3, <2>1 DEF ReadWaits
  <2> QED
    BY <1>1, <2>2 DEF ReadWaits, Unread
<1> QED
  BY <1>1, <1>3 DEF AllWait

\* The handlers of the loop's events
LEMMA AllDispatchEdge ==
  ASSUME RunInv, RunInv', WholeInv, AllWait, NEW e \in batch \cup {cur},
         ClosedEvent(e) \/ AcceptEvent(e) \/ ReadEventAll(e) \/ WriteEvent(e)
  PROVE  AllWait'
<1> PICK o : o = e.h
  OBVIOUS
<1> PICK d : d = soc[o]
  OBVIOUS
<1>1. ASSUME o \in live
      PROVE  /\ o \in Obj /\ d \in Conn \cup {Null} /\ ReadWaits(o)
             /\ d # Null => watch[d] \in {o, Null}
  BY <1>1, LivingWhole DEF AllWait
<1>2. CASE AcceptEvent(e)
  <2>1. /\ e.h = Listener /\ batch' = batch \ {e}
        /\ UNCHANGED <<sent, taken, ready, px, soc, live>>
    BY <1>2 DEF AcceptEvent, Take, kvars, evars
  <2>2. Listener \notin live /\ Spares(Listener)
    BY <2>1, RunTypes DEF Spares
  <2> QED
    BY <2>1, <2>2, AllEdgeSame
<1>3. CASE ClosedEvent(e)
  <2>1. /\ o \in live /\ Elsewhere(o, d) /\ o \notin live' /\ ready \ {d} \subseteq ready'
    BY <1>3, ClosedEventWhole
  <2>2. Spares(o)
    BY <1>3 DEF ClosedEvent, Take, Spares
  <2> QED
    BY <1>1, <2>1, <2>2, AllEdgeStep
<1>4. CASE ReadEventAll(e)
  <2>1. /\ o \in live /\ Elsewhere(o, d)
        /\ px.tok[Rt(o)].mode = "A" => QuietRead(o)'
        /\ px.tok[Rt(o)].mode # "A" => UNCHANGED <<px, taken>>
    BY <1>4, ReadEventWhole
  <2>2. Spares(o) /\ ready' = ready
    BY <1>4 DEF ReadEventAll, Take, Spares
  <2>3. ReadWaits(o)'
    <3>1. CASE px.tok[Rt(o)].mode = "A"
      BY <2>1, <3>1, QuietReadWaits
    <3>2. CASE px.tok[Rt(o)].mode # "A"
      BY <2>1, <3>2 DEF ReadWaits
    <3> QED
      BY <3>1, <3>2
  <2> QED
    BY <1>1, <2>1, <2>2, <2>3, AllEdgeStep
<1>5. CASE WriteEvent(e)
  <2>1. o \in live /\ Elsewhere(o, d) /\ px'.tok[Rt(o)] = px.tok[Rt(o)]
    BY <1>5, WriteEventWhole
  <2>2. /\ \/ e \in batch /\ batch' = batch \ {e} /\ "IN" \notin e.ev
           \/ batch' = batch
        /\ "HUP" \notin e.ev /\ UNCHANGED <<sent, taken, ready, soc>>
    BY <1>5 DEF WriteEvent, WriteTurn, Take
  <2>3. Spares(o)
    BY <2>2 DEF Spares
  <2>4. Resumes(o, "IN") => Resumes(o, "IN")'
    BY <2>2 DEF Resumes
  <2>5. ReadWaits(o)'
    BY <1>1, <2>1, <2>2, <2>4 DEF ReadWaits, Unread
  <2> QED
    BY <1>1, <2>1, <2>2, <2>3, <2>5, AllEdgeStep
<1> QED
  BY <1>2, <1>3, <1>4, <1>5

\* Callbacks and Acceptor::onRead
LEMMA AllCallEdge ==
  ASSUME RunInv, RunInv', WholeInv, AllWait, CompleteAll \/ AcceptCalls \/ AcceptDone
  PROVE  AllWait'
<1>1. CASE CompleteAll
  <2> PICK t : t = Head(px.queue)
    OBVIOUS
  <2> PICK o : o = Owner(t)
    OBVIOUS
  <2> PICK d : d = soc[o]
    OBVIOUS
  <2>1. /\ o \in live /\ Elsewhere(o, d) /\ (o \in live' => QuietRead(o)')
        /\ ready \ {d} \subseteq ready'
    BY <1>1, CompleteWhole
  <2>2. o \in Obj /\ d \in Conn \cup {Null} /\ (d # Null => watch[d] \in {o, Null})
    BY <2>1, LivingWhole
  <2>3. Spares(o)
    BY <1>1 DEF CompleteAll, Spares
  <2> QED
    BY <2>1, <2>2, <2>3, AllEdgeStep, QuietReadWaits
<1>2. CASE AcceptCalls
  <2>1. PICK o \in Obj, d \in Conn \cup {Null} :
           /\ o \notin live /\ Elsewhere(o, d) /\ QuietRead(o)'
           /\ d # Null => watch[d] = Null
    BY <1>2, AcceptWhole
  <2>2. ready \subseteq ready'
    BY <1>2, AcceptWhole
  <2>3. Spares(o) /\ (d # Null => watch[d] \in {o, Null})
    BY <1>2, <2>1 DEF AcceptCalls, AcceptAll, AcceptAllFails, AcceptAllUnset, loopVars, Spares
  <2> QED
    BY <2>1, <2>2, <2>3, AllEdgeStep, QuietReadWaits
<1>3. CASE AcceptDone
  <2>1. batch' = batch /\ UNCHANGED <<sent, taken, ready, px, soc, live>>
    BY <1>3 DEF AcceptDone, kvars, evars
  <2>2. Listener \notin live /\ Spares(Listener)
    BY <2>1, RunTypes DEF Spares
  <2> QED
    BY <2>1, <2>2, AllEdgeSame
<1> QED
  BY <1>1, <1>2, <1>3

\* What a peer sends raises an edge, if the connection is watched.
LEMMA SendEdge ==
  ASSUME CallInv, NEW c \in Conn, NEW d \in Conn, watch[c] # Null,
         Connect(d) \/ PeerSend(d) \/ PeerFinish(d) \/ PeerReset(d) \/ PeerRecv(d)
  PROVE  ready \subseteq ready' /\ (Unread(c)' > 0 => Unread(c) > 0 \/ c \in ready')
<1>1. CASE PeerSend(d)
  <2>1. /\ sent' = [sent EXCEPT ![d] = sent[d] + 1] /\ ready' = ready \cup Edge(d)
        /\ UNCHANGED taken
    BY <1>1 DEF PeerSend
  <2>2. CASE c = d
    BY <2>1, <2>2 DEF Edge
  <2>3. CASE c # d
    BY <2>1, <2>3 DEF CallInv, KernelTypeOK, Unread
  <2> QED
    BY <2>2, <2>3
<1>2. CASE Connect(d) \/ PeerFinish(d) \/ PeerReset(d) \/ PeerRecv(d)
  BY <1>2 DEF Connect, PeerFinish, PeerReset, PeerRecv, Unread
<1> QED
  BY <1>1, <1>2

\* The environment takes no edge away, and raises one with what it sends.
LEMMA AllEnvironmentEdge ==
  ASSUME RunInv, WholeInv, AllWait, Environment
  PROVE  AllWait'
<1>1. CASE (Signal \/ Tick) /\ UNCHANGED evars
  <2>1. UNCHANGED <<sent, taken, ready, px, soc, live, batch>>
    BY <1>1 DEF Signal, Tick, kvars, loopVars, evars
  <2>2. Spares(Listener) /\ Listener \notin live
    BY <2>1, RunTypes DEF Spares
  <2> QED
    BY <2>1, <2>2, AllEdgeSame
<1>2. ASSUME NEW d \in Conn, UNCHANGED <<pvars, evars>>,
             Connect(d) \/ PeerSend(d) \/ PeerFinish(d) \/ PeerReset(d) \/ PeerRecv(d)
      PROVE  AllWait'
  <2>1. UNCHANGED <<px, soc, live, batch>>
    BY <1>2 DEF pvars, evars, loopVars
  <2>2. ASSUME NEW o \in live, px.tok[Rt(o)].mode = "A" PROVE ReadWaits(o)'
    <3> PICK c : c = soc[o]
      OBVIOUS
    <3>1. ReadWaits(o) /\ c \in Conn /\ watch[c] = o /\ watch[c] # Null
      BY <2>2, LivingWhole DEF AllWait, WholeClient
    <3>2. ready \subseteq ready' /\ (Unread(c)' > 0 => Unread(c) > 0 \/ c \in ready')
      BY <1>2, <3>1, SendEdge DEF RunInv
    <3>3. Resumes(o, "IN") \/ c \in ready' => Resumes(o, "IN")'
      BY <2>1, <3>2 DEF Resumes
    <3>4. soc[o] = c /\ soc'[o] = c
      BY <2>1
    <3>5. px.tok[Rt(o)].mode = "A" /\ Unread(c)' > 0 => Resumes(o, "IN")'
      BY <3>1, <3>2, <3>3, <3>4 DEF ReadWaits
    <3> QED
      BY <2>1, <3>4, <3>5 DEF ReadWaits, Unread
  <2>3. ASSUME NEW o \in live, px.tok[Rt(o)].mode # "A" PROVE ReadWaits(o)'
    BY <2>1, <2>3 DEF ReadWaits
  <2> QED
    BY <2>1, <2>2, <2>3 DEF AllWait
<1> QED
  BY <1>1, <1>2 DEF Environment, Peer

\* Until run() returns, every step keeps AllWait.
LEMMA AllNextEdge ==
  ASSUME RunInv, RunInv', WholeInv, AllWait, [ServerAll \/ Environment]_vars,
         pc' # "stopped"
  PROVE  AllWait'
<1>1. CASE Loop
  BY <1>1, AllLoopEdge
<1>2. ASSUME NEW e \in batch \cup {cur},
             ClosedEvent(e) \/ AcceptEvent(e) \/ ReadEventAll(e) \/ WriteEvent(e)
      PROVE  AllWait'
  BY <1>2, AllDispatchEdge
<1>3. CASE AcceptCalls \/ AcceptDone \/ CompleteAll
  BY <1>3, AllCallEdge
<1>4. CASE Environment
  BY <1>4, AllEnvironmentEdge
<1>5. CASE UNCHANGED vars
  <2>1. UNCHANGED <<sent, taken, ready, px, soc, live, batch>>
    BY <1>5 DEF vars, kvars, pvars, loopVars, evars
  <2>2. Spares(Listener) /\ Listener \notin live
    BY <2>1, RunTypes DEF Spares
  <2> QED
    BY <2>1, <2>2, AllEdgeSame
<1> QED
  BY <1>1, <1>2, <1>3, <1>4, <1>5 DEF ServerAll, AcceptCalls

\* Once run() has returned nothing happens.
LEMMA AllStoppedStays ==
  pc = "stopped" /\ [ServerAll \/ Environment]_vars => UNCHANGED vars
BY AllSteps, StoppedStays DEF AcceptCalls, AcceptAll, AcceptAllFails, AcceptAllUnset,
                              CompleteAll, ReadEventAll, Take

\* AllWait holds until run() returns.
LEMMA AllEdgeAlways == AllSpec => [](pc # "stopped" => AllWait)
<1>1. Init => AllWait
  BY DEF Init, AllWait
<1>2. /\ RunInv /\ RunInv' /\ WholeInv /\ (pc # "stopped" => AllWait)
      /\ [ServerAll \/ Environment]_vars
      => (pc # "stopped" => AllWait)'
  <2> SUFFICES ASSUME RunInv, RunInv', WholeInv, pc # "stopped" => AllWait,
                      [ServerAll \/ Environment]_vars, pc' # "stopped"
               PROVE  AllWait'
    OBVIOUS
  <2>1. pc # "stopped"
    BY AllStoppedStays DEF vars, pvars, loopVars
  <2> QED
    BY <2>1, AllNextEdge
<1> QED
  BY <1>1, <1>2, WholeAlways, PTL DEF AllSpec

\* As long as run() runs, what has arrived of a message that a client waits for
\* has an edge in the poller or an event in run()'s array, although onRead makes
\* one read() per event and does not read until EAGAIN: what that read() leaves
\* is behind the end of the message.  On epoll and on kqueue, for every size of
\* message.
THEOREM MessageEdgeKept == AllSpec => [](pc # "stopped" => DataResumes)
<1>1. RunInv /\ WholeInv /\ (pc # "stopped" => AllWait) => (pc # "stopped" => DataResumes)
  <2> SUFFICES ASSUME RunInv, WholeInv, AllWait, NEW o \in live,
                      Pending(px, Rt(o)), Unread(soc[o]) > 0
               PROVE  Resumes(o, "IN")
    BY DEF DataResumes
  <2>1. ReadWaits(o)
    BY DEF AllWait
  <2>2. px.tok[Rt(o)].mode = "A"
    <3>1. soc[o] # Null
      BY LivingWhole DEF WholeClient, Pending
    <3>2. ReadAllInv(o, soc[o])
      BY <3>1, LivingWhole
    <3> QED
      BY <3>2 DEF ReadAllInv, Pending
  <2> QED
    BY <2>1, <2>2 DEF ReadWaits
<1> QED
  BY <1>1, WholeAlways, AllEdgeAlways, PTL

-----------------------------------------------------------------------------
(* What the two servers have in common.                                    *)

\* The server that reads whole messages is as safe as that which reads what is
\* there: no access beyond a buffer although each read() starts where the last
\* one ended and a 0 is stored behind each message, no pointer of the loop
\* dangles, one operation at a time for each client, and whenever run() waits,
\* one client for each descriptor but those that _accept lost.
THEOREM MessageServerSafe ==
  AllSpec => [](/\ TypeOK /\ BufferSafe /\ TerminatorSafe
                /\ MemorySafe /\ OneOperation /\ NoLeak)
<1>1. RunInv => TypeOK /\ BufferSafe
  BY RunInvSplit DEF TypeInv
<1>2. RunInv => MemorySafe /\ OneOperation
  BY MemoryIsSafe, OperationsAreSingle
<1>3. RunInv /\ WholeInv => NoLeak
  <2> SUFFICES ASSUME RunInv, WholeInv, pc = "wait"
               PROVE  /\ \A o \in live : soc[o] \in Descriptors /\ watch[soc[o]] = o
                      /\ \A c \in Descriptors :
                           link[c] = "blocking" \/ \E o \in live : soc[o] = c
    BY DEF NoLeak
  <2>1. px.queue = <<>>
    BY DEF RunInv, Drained
  <2>2. ASSUME NEW o \in live PROVE soc[o] \in Descriptors /\ watch[soc[o]] = o
    <3>1. o \in Obj /\ Rt(o) \in Token
      BY <2>2, RunTypes, TokenPair
    <3>2. ~Queued(px, Rt(o))
      BY <2>1 DEF Queued
    <3>3. px.tok[Rt(o)].mode # "E"
      BY <3>1, <3>2, RunTypes DEF QueueExact
    <3>4. soc[o] # Null
      BY <2>2, <3>3, LivingWhole DEF WholeClient
    <3> QED
      BY <2>2, <3>4, LivingWhole DEF Descriptors
  <2>3. ASSUME NEW c \in Descriptors, link[c] # "blocking"
        PROVE  \E o \in live : soc[o] = c
    <3>1. c \in Conn /\ watch[c] # Null
      BY <2>3 DEF Descriptors, WholeInv, WholeConn, ConnInv
    <3>2. watch[c] \in live /\ soc[watch[c]] = c
      BY <3>1 DEF RunInv, MemInv, WatchInv
    <3> QED
      BY <3>2
  <2> QED
    BY <2>2, <2>3
<1>4. RunInv /\ WholeInv => TerminatorSafe
  <2> SUFFICES ASSUME RunInv, WholeInv, NEW o \in live, NEW t \in {Rt(o), Wt(o)},
                      px.tok[t].mode = "D"
               PROVE  px.tok[t].ioSize < BufSize
    BY DEF TerminatorSafe
  <2>1. o \in Obj /\ t \in Token /\ Busy(px, o)
    BY RunTypes, TokenPair DEF RunInv, MemInv, Owned
  <2>2. soc[o] # Null
    BY <2>1, LivingWhole DEF WholeClient, Busy
  <2>3. ReadAllInv(o, soc[o]) /\ WriteAllInv(o, soc[o])
    BY <2>2, LivingWhole
  <2>4. px.tok[t] \in TokenRec /\ px.tok[t].ioSize <= px.tok[t].bufSize
    BY <2>1, RunTypes DEF Library, RunInv, CallInv, Sound
  <2>5. px.tok[t].ioSize \in Nat
    BY <2>4 DEF TokenRec
  <2>6. CASE t = Rt(o)
    <3>1. px.tok[t].ioSize \in {0, MsgSize}
      BY <2>3, <2>6 DEF ReadAllInv
    <3> QED
      BY <3>1
  <2>7. CASE t = Wt(o)
    <3>1. px.tok[t].bufSize = MsgSize
      BY <2>3, <2>7 DEF WriteAllInv
    <3> QED
      BY <2>4, <2>5, <3>1
  <2> QED
    BY <2>6, <2>7
<1> QED
  BY <1>1, <1>2, <1>3, <1>4, WholeAlways, PTL

\* It calls handlers and callbacks only of objects that are alive.
THEOREM MessageCallsReachLiveObjects == AllSpec => CallsLiveObject
<1>1. /\ RunInv /\ RunInv' /\ WholeInv /\ [ServerAll \/ Environment]_vars
      => [CallsLive]_vars
  <2> SUFFICES ASSUME RunInv, RunInv', WholeInv, [ServerAll \/ Environment]_vars
               PROVE  CallsLive
    OBVIOUS
  <2>1. \A e \in batch \ batch' : e.h \in live \cup {Listener}
    BY DEF RunInv, MemInv, BatchInv, Announced
  <2>2. CASE [Next]_vars
    BY <2>2, NextCallsLive
  <2>3. CASE AcceptCalls
    BY <2>1, <2>3 DEF AcceptCalls, AcceptAll, AcceptAllFails, AcceptAllUnset, loopVars, CallsLive
  <2>4. ASSUME NEW e \in batch, ReadEventAll(e) PROVE CallsLive
    BY <2>1, <2>4 DEF ReadEventAll, CallsLive
  <2>5. CASE CompleteAll
    <3> PICK t : t = Head(px.queue)
      OBVIOUS
    <3>1. Owner(t) \in live
      BY <2>5, CompleteWhole
    <3>2. pc' = pc /\ CallbackAll(Dequeue(px), t, px.tok[t].err, px.tok[t].ioSize)
      BY <2>5 DEF CompleteAll
    <3>3. deleted' \subseteq deleted \cup {Owner(t)}
      BY <3>2 DEF CallbackAll, Delete, ReplyAll, WriteBack, NextMessage, StartRecvAll
    <3> QED
      BY <2>1, <3>1, <3>2, <3>3 DEF CallsLive
  <2> QED
    BY <2>2, <2>3, <2>4, <2>5, AllSteps
<1>2. AllSpec => [][CallsLive]_vars
  BY <1>1, WholeAlways, PTL DEF AllSpec
<1> QED
  BY <1>2 DEF CallsLiveObject, CallsLive
=============================================================================
