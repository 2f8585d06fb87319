---------------------------- MODULE AioEchoProofs ---------------------------
(***************************************************************************)
(* Proofs about AioEcho, for every value of the constants: its types and   *)
(* buffers; no pointer of the event loop dangles, and no operation is lost *)
(* or started twice; it implements the echo service, loses no edge, leaks  *)
(* no descriptor and keeps its timers in order.                            *)
(***************************************************************************)
EXTENDS AioEcho, AioSocketProofs, FiniteSetTheorems, SequenceTheorems

\* An edge is reported only for a descriptor in the interest list, so run()
\* never finds a null handler in an event.
ReadyWatched == \A k \in ready : k # Listener => watch[k] # Null

\* The inductive invariant behind TypeOK and BufferSafe.
TypeInv == TypeOK /\ BufferSafe /\ ReadyWatched

USE KernelAssumption, TimeoutAssumption, ProactorAssumption, AioEchoAssumption

\* BufferSafe is the bound of the library's lemmas.
LEMMA SoundIsBufferSafe ==
  px \in Library => (BufferSafe <=> Sound(px, BufSize))
BY DEF BufferSafe, Sound

LEMMA SoundIsBufferSafePrime ==
  Sound(px', BufSize) => px' \in Library /\ BufferSafe'
BY DEF BufferSafe, Sound

-----------------------------------------------------------------------------
(* System calls.                                                           *)

\* read() returns at most what it was asked for, and something only for a
\* connection.
LEMMA ReadResultOK ==
  ASSUME KernelTypeOK, NEW c \in Conn \cup {Null}, NEW size \in Nat
  PROVE  /\ IsResult(ReadResult(c, size), size)
         /\ ReadResult(c, size).ret > 0 => c \in Conn
<1> DEFINE r == ReadResult(c, size)
<1>1. CASE c = Null
  BY <1>1 DEF ReadResult, Result, IsResult, Errno
<1>2. CASE c \in Conn
  <2>1. Unread(c) \in Int
    BY <1>2 DEF KernelTypeOK, Unread
  <2> QED
    BY <1>2, <2>1 DEF ReadResult, Result, IsResult, Errno, Lesser
<1> QED
  BY <1>1, <1>2

\* So does write().
LEMMA WriteResultOK ==
  ASSUME KernelTypeOK, NEW c \in Conn \cup {Null}, NEW size \in Nat
  PROVE  /\ IsResult(WriteResult(c, size), size)
         /\ WriteResult(c, size).ret > 0 => c \in Conn
<1>1. CASE c = Null
  BY <1>1 DEF WriteResult, Result, IsResult, Errno
<1>2. CASE c \in Conn
  <2>1. TxFree(c) \in Int
    BY <1>2 DEF KernelTypeOK, TxFree
  <2> QED
    BY <1>2, <2>1 DEF WriteResult, Result, IsResult, Errno, Lesser
<1> QED
  BY <1>1, <1>2

\* The effect of a read() on the connection and on the buffer.
LEMMA AfterReadOK ==
  ASSUME KernelTypeOK, EchoTypeOK, NEW o \in Obj, NEW c, NEW r,
         r.ret \in Int, r.ret > 0 => c \in Conn
  PROVE  /\ AfterRead(c, r) \in [Conn -> Nat]
         /\ Received(o, c, r) \in [Obj -> Buffer]
<1>1. CASE ~(r.ret > 0)
  BY <1>1 DEF AfterRead, Received, KernelTypeOK, EchoTypeOK
<1>2. CASE r.ret > 0
  <2>1. taken[c] \in Nat /\ recvBuf[o] \in Buffer
    BY <1>2 DEF KernelTypeOK, EchoTypeOK
  <2>2. AfterReadBuf(c, r, recvBuf[o]) \in Buffer
    BY <2>1 DEF AfterReadBuf, Buffer
  <2> QED
    BY <1>2, <2>1, <2>2 DEF AfterRead, Received, KernelTypeOK, EchoTypeOK
<1> QED
  BY <1>1, <1>2

\* The effect of a write() from within a buffer.
LEMMA AfterWriteOK ==
  ASSUME KernelTypeOK, NEW c, NEW r, NEW buf \in Buffer, NEW from \in Nat,
         r.ret \in Int, from + r.ret <= BufSize, r.ret > 0 => c \in Conn
  PROVE  AfterWrite(c, r, buf, from) \in [Conn -> Seq(Nat)]
<1>1. CASE ~(r.ret > 0)
  BY <1>1 DEF AfterWrite, KernelTypeOK
<1>2. CASE r.ret > 0
  <2> DEFINE bytes == [i \in 1..r.ret |-> buf[from + i]]
  <2>1. bytes \in Seq(Nat)
    <3>1. r.ret \in Nat /\ \A i \in 1..r.ret : buf[from + i] \in Nat
      BY <1>2 DEF Buffer
    <3> QED
      BY <3>1
  <2> HIDE DEF bytes
  <2>2. out[c] \o bytes \in Seq(Nat)
    BY <1>2, <2>1 DEF KernelTypeOK
  <2> QED
    BY <1>2, <2>2 DEF AfterWrite, KernelTypeOK, bytes
<1> QED
  BY <1>1, <1>2

-----------------------------------------------------------------------------
(* Callbacks.                                                              *)

\* What TypeInv says of the variables a callback may change.
CallInv ==
  /\ KernelTypeOK
  /\ Sound(px, BufSize)
  /\ soc \in [Obj -> Conn \cup {Null}]
  /\ deleted \subseteq Handler
  /\ EchoTypeOK
  /\ ReadyWatched

LEMMA TypeInvCall == TypeInv => CallInv
BY SoundIsBufferSafe DEF TypeInv, TypeOK, ProactorTypeOK, CallInv

\* EchoClient::startRecv
LEMMA StartRecvTyped ==
  ASSUME CallInv, now \in Nat, NEW S, Sound(S, BufSize), NEW o \in Obj,
         StartRecv(S, o)
  PROVE  CallInv'
<1> DEFINE c == soc[o]
           r == IF S.tok[Rt(o)].mode = "N" THEN ReadResult(c, BufSize)
                ELSE Result(-1, "busy")
<1>1. /\ px' = ReadSome(S, o, BufSize, r, now)
      /\ taken' = AfterRead(c, r)
      /\ recvBuf' = Received(o, c, r)
      /\ UNCHANGED <<link, sent, out, got, fin, rst, backlog, watch, ready,
                     soc, deleted, live, sendBuf>>
  BY DEF StartRecv
<1>2. c \in Conn \cup {Null}
  BY DEF CallInv
<1>3. IsResult(r, BufSize) /\ (r.ret > 0 => c \in Conn)
  <2>1. /\ IsResult(Result(-1, "busy"), BufSize)
        /\ ~(Result(-1, "busy").ret > 0)
    BY DEF IsResult, Result, Errno
  <2>2. /\ IsResult(ReadResult(c, BufSize), BufSize)
        /\ ReadResult(c, BufSize).ret > 0 => c \in Conn
    BY <1>2, ReadResultOK DEF CallInv
  <2> QED
    BY <2>1, <2>2
<1> HIDE DEF c, r
<1>4. Sound(px', BufSize)
  BY <1>1, <1>3, ReadSomeSound
<1>5. taken' \in [Conn -> Nat] /\ recvBuf' \in [Obj -> Buffer]
  BY <1>1, <1>3, AfterReadOK DEF IsResult, CallInv
<1> QED
  BY <1>1, <1>4, <1>5 DEF CallInv, KernelTypeOK, EchoTypeOK, ReadyWatched

\* delete this
LEMMA DeleteTyped ==
  ASSUME CallInv, NEW S, Sound(S, BufSize), NEW o \in Obj, Delete(S, o)
  PROVE  CallInv'
<1>1. Sound(px', BufSize)
  BY DestroySocketSound DEF Delete
<1>2. EmptyBuffer \in Buffer
  BY DEF EmptyBuffer, Buffer
<1>3. EchoTypeOK' /\ soc' \in [Obj -> Conn \cup {Null}] /\ deleted' \subseteq Handler
  BY <1>2 DEF Delete, CallInv, EchoTypeOK, Handler
<1>4. KernelTypeOK' /\ ReadyWatched'
  <2>1. CASE soc[o] = Null
    BY <2>1 DEF Delete, Close, CallInv, KernelTypeOK, ReadyWatched
  <2>2. CASE soc[o] # Null
    <3>1. soc[o] \in Conn
      BY <2>2 DEF CallInv
    <3>2. /\ link' = [link EXCEPT ![soc[o]] = "closed"]
          /\ watch' = [watch EXCEPT ![soc[o]] = Null]
          /\ ready' = ready \ {soc[o]}
          /\ UNCHANGED <<sent, taken, out, got, fin, rst, backlog>>
      BY <2>2 DEF Delete, Close
    <3>3. KernelTypeOK'
      BY <3>1, <3>2 DEF CallInv, KernelTypeOK
    <3>4. ReadyWatched'
      BY <3>1, <3>2 DEF CallInv, KernelTypeOK, ReadyWatched
    <3> QED
      BY <3>3, <3>4
  <2> QED
    BY <2>1, <2>2
<1> QED
  BY <1>1, <1>3, <1>4 DEF CallInv

\* EchoClient::onRead: memcpy and writeAll stay within both buffers.
LEMMA WriteBackTyped ==
  ASSUME CallInv, now \in Nat, NEW S, Sound(S, BufSize), NEW o \in Obj,
         NEW n \in Nat, n <= BufSize, WriteBack(S, o, n), recvBuf' \in [Obj -> Buffer]
  PROVE  CallInv'
<1> DEFINE c == soc[o]
           copy == [i \in 1..BufSize |->
                      IF i <= n THEN recvBuf[o][i] ELSE sendBuf[o][i]]
           r == IF S.tok[Wt(o)].mode = "N" THEN WriteResult(c, n)
                ELSE Result(-1, "busy")
<1>1. /\ px' = WriteAll(S, o, n, r, now)
      /\ sendBuf' = [sendBuf EXCEPT ![o] = copy]
      /\ out' = AfterWrite(c, r, copy, 0)
      /\ UNCHANGED <<link, sent, taken, got, fin, rst, backlog, watch, ready,
                     soc, deleted, live>>
  BY DEF WriteBack
<1>2. c \in Conn \cup {Null}
  BY DEF CallInv
<1>3. copy \in Buffer
  BY DEF CallInv, EchoTypeOK, Buffer
<1>4. IsResult(r, n) /\ (r.ret > 0 => c \in Conn)
  <2>1. IsResult(Result(-1, "busy"), n) /\ ~(Result(-1, "busy").ret > 0)
    BY DEF IsResult, Result, Errno
  <2>2. /\ IsResult(WriteResult(c, n), n)
        /\ WriteResult(c, n).ret > 0 => c \in Conn
    BY <1>2, WriteResultOK DEF CallInv
  <2> QED
    BY <2>1, <2>2
<1> HIDE DEF c, r, copy
<1>5. Sound(px', BufSize)
  BY <1>1, <1>4, WriteAllSound
<1>6. out' \in [Conn -> Seq(Nat)]
  <2>1. r.ret \in Int /\ 0 + r.ret <= BufSize
    BY <1>4 DEF IsResult
  <2> QED
    BY <1>1, <1>3, <1>4, <2>1, AfterWriteOK DEF CallInv
<1> QED
  BY <1>1, <1>3, <1>5, <1>6 DEF CallInv, KernelTypeOK, EchoTypeOK, ReadyWatched

\* EchoClient::onRead
LEMMA ReplyTyped ==
  ASSUME CallInv, now \in Nat, NEW S, Sound(S, BufSize), NEW o \in Obj,
         NEW n \in Nat, n <= BufSize, Reply(S, o, n)
  PROVE  CallInv'
<1>1. WriteBack(S, o, n) /\ recvBuf' = recvBuf
  BY DEF Reply
<1>2. recvBuf' \in [Obj -> Buffer]
  BY <1>1 DEF CallInv, EchoTypeOK
<1> QED
  BY <1>1, <1>2, WriteBackTyped

\* Any callback, of any token, with any error and a count within the buffer.
LEMMA CallbackTyped ==
  ASSUME CallInv, now \in Nat, NEW S, Sound(S, BufSize), NEW t \in Token,
         NEW err, NEW n \in Nat, n <= BufSize, Callback(S, t, err, n)
  PROVE  CallInv'
<1>1. Owner(t) \in Obj
  BY DEF Token, Owner
<1>2. \/ Delete(S, Owner(t)) \/ Reply(S, Owner(t), n) \/ StartRecv(S, Owner(t))
  BY DEF Callback
<1> QED
  BY <1>1, <1>2, DeleteTyped, ReplyTyped, StartRecvTyped

-----------------------------------------------------------------------------
(* TypeInv is inductive.                                                   *)

\* The part of TypeInv that callbacks leave alone: run()'s own variables.
LoopTyped ==
  /\ pc \in PC
  /\ batch \subseteq EventRec
  /\ cur \in EventRec
  /\ stop \in BOOLEAN
  /\ now \in Nat
  /\ scan \in Nat

LEMMA TypeInvSplit == TypeInv <=> CallInv /\ LoopTyped
BY SoundIsBufferSafe
DEF TypeInv, TypeOK, ProactorTypeOK, CallInv, LoopTyped, Sound

LEMMA TypeInvSplitPrime == CallInv' /\ LoopTyped' => TypeInv'
BY SoundIsBufferSafePrime
DEF TypeInv, TypeOK, ProactorTypeOK, CallInv, LoopTyped

LEMMA InitTypeInv == Init => TypeInv
<1> SUFFICES ASSUME Init PROVE CallInv /\ LoopTyped
  BY TypeInvSplit
<1>1. KernelTypeOK /\ ReadyWatched
  BY DEF Init, KernelInit, KernelTypeOK, ReadyWatched
<1>2. Sound(px, BufSize)
  <2>1. FreshToken \in TokenRec /\ FreshToken.ioSize = 0 /\ FreshToken.bufSize = 0
    BY DEF FreshToken, TokenRec, Mode, Errno
  <2>2. px = NewLibrary
    BY DEF Init, ProactorInit
  <2> QED
    BY <2>1, <2>2 DEF NewLibrary, Sound, Library
<1>3. soc \in [Obj -> Conn \cup {Null}] /\ deleted \subseteq Handler /\ LoopTyped
  BY DEF Init, ProactorInit, Handler, LoopTyped, PC, EventRec, NoEvent
<1>4. EchoTypeOK
  BY DEF Init, EchoTypeOK, Buffer, EmptyBuffer
<1> QED
  BY <1>1, <1>2, <1>3, <1>4 DEF CallInv

\* The peers change the connections' data only.
LEMMA PeerTyped ==
  ASSUME CallInv, Peer, UNCHANGED <<px, soc, deleted, evars>>
  PROVE  CallInv'
<1> SUFFICES KernelTypeOK' /\ ReadyWatched'
  BY DEF CallInv, EchoTypeOK, evars
<1> PICK c \in Conn :
       Connect(c) \/ PeerSend(c) \/ PeerFinish(c) \/ PeerReset(c) \/ PeerRecv(c)
  BY DEF Peer
<1>1. CASE Connect(c)
  BY <1>1 DEF Connect, CallInv, KernelTypeOK, ReadyWatched
<1>2. CASE PeerSend(c)
  <2>1. /\ sent[c] < MaxSend /\ sent' = [sent EXCEPT ![c] = sent[c] + 1]
        /\ ready' = ready \cup Edge(c)
        /\ UNCHANGED <<link, taken, out, got, fin, rst, backlog, watch>>
    BY <1>2 DEF PeerSend
  <2>2. sent' \in [Conn -> 0..MaxSend]
    <3>1. sent \in [Conn -> 0..MaxSend]
      BY DEF CallInv, KernelTypeOK
    <3>2. sent[c] + 1 \in 0..MaxSend
      BY <2>1, <3>1
    <3> QED
      BY <2>1, <3>1, <3>2
  <2>3. ready' \subseteq Conn \cup {Listener} /\ ReadyWatched'
    BY <2>1 DEF CallInv, KernelTypeOK, ReadyWatched, Edge
  <2> QED
    BY <2>1, <2>2, <2>3 DEF CallInv, KernelTypeOK
<1>3. CASE PeerFinish(c)
  BY <1>3 DEF PeerFinish, CallInv, KernelTypeOK, ReadyWatched, Edge
<1>4. CASE PeerReset(c)
  BY <1>4 DEF PeerReset, CallInv, KernelTypeOK, ReadyWatched, Edge
<1>5. CASE PeerRecv(c)
  BY <1>5 DEF PeerRecv, CallInv, KernelTypeOK, ReadyWatched, Edge
<1> QED
  BY <1>1, <1>2, <1>3, <1>4, <1>5

\* What epoll_wait reports is an event of a handler.
LEMMA EventsTyped ==
  ASSUME CallInv, NEW k \in ready
  PROVE  [h |-> HandlerOf(k), ev |-> Events(k)] \in EventRec
<1>1. Events(k) \in SUBSET {"IN", "OUT", "HUP"}
  BY DEF Events, EpollEvents, KqueueEvents, KqueueTests
<1>2. HandlerOf(k) \in Handler
  BY DEF CallInv, KernelTypeOK, ReadyWatched, HandlerOf, Handler
<1> QED
  BY <1>1, <1>2 DEF EventRec

\* The steps of run() that call nobody.
LEMMA LoopStepTyped ==
  ASSUME CallInv, LoopTyped, Loop
  PROVE  CallInv' /\ LoopTyped'
<1> USE DEF LoopTyped, PC
<1>1. CASE Poll /\ UNCHANGED evars
  <2>1. CallInv'
    BY <1>1 DEF Poll, CallInv, KernelTypeOK, EchoTypeOK, ReadyWatched, evars
  <2>2. batch' \subseteq EventRec
    BY <1>1, EventsTyped DEF Poll
  <2>3. scan' \in Nat
    BY <1>1 DEF Poll
  <2> QED
    BY <1>1, <2>1, <2>2, <2>3 DEF Poll
<1>2. ASSUME UNCHANGED <<kvars, px, soc, deleted, evars>>
      PROVE  CallInv'
  BY <1>2 DEF CallInv, KernelTypeOK, EchoTypeOK, ReadyWatched, kvars, evars
<1>3. CASE Interrupted /\ UNCHANGED evars
  BY <1>2, <1>3 DEF Interrupted
<1>4. CASE EndBatch /\ UNCHANGED evars
  BY <1>2, <1>4 DEF EndBatch
<1>5. CASE EndEvent /\ UNCHANGED evars
  <2>1. NoEvent \in EventRec
    BY DEF NoEvent, EventRec, Handler
  <2> QED
    BY <1>2, <1>5, <2>1 DEF EndEvent
<1>6. CASE EndTimers /\ UNCHANGED evars
  BY <1>2, <1>6 DEF EndTimers
<1> QED
  BY <1>1, <1>3, <1>4, <1>5, <1>6 DEF Loop

\* EPOLLIN on a socket
LEMMA ReadEventTyped ==
  ASSUME CallInv, NEW e, e.h \in Obj, ReadEvent(e)
  PROVE  CallInv'
<1> DEFINE c == soc[e.h]
           t == px.tok[Rt(e.h)]
           r == ReadResult(c, t.bufSize)
<1>1. /\ UNCHANGED <<link, sent, out, got, fin, rst, backlog, watch, ready,
                     soc, live, sendBuf>>
      /\ deleted' = {}
  BY DEF ReadEvent
<1>2. CASE t.mode # "S"
  <2>1. UNCHANGED <<px, taken, recvBuf>>
    BY <1>2 DEF ReadEvent
  <2> QED
    BY <1>1, <2>1 DEF CallInv, KernelTypeOK, EchoTypeOK, ReadyWatched
<1>3. CASE t.mode = "S"
  <2>1. /\ px' = OnReadSome(px, e.h, r)
        /\ taken' = AfterRead(c, r)
        /\ recvBuf' = Received(e.h, c, r)
    BY <1>3 DEF ReadEvent
  <2>2. c \in Conn \cup {Null} /\ t.bufSize \in Nat
    BY TokenPair DEF CallInv, Sound, Library, TokenRec
  <2>3. /\ IsResult(r, t.bufSize) /\ r.ret \in Int
        /\ r.ret > 0 => c \in Conn
    BY <2>2, ReadResultOK DEF CallInv, IsResult
  <2> HIDE DEF r, c
  <2>4. Sound(px', BufSize)
    BY <2>1, <2>3, OnReadSomeSound DEF CallInv
  <2>5. taken' \in [Conn -> Nat] /\ recvBuf' \in [Obj -> Buffer]
    BY <2>1, <2>3, AfterReadOK DEF CallInv
  <2> QED
    BY <1>1, <2>4, <2>5 DEF CallInv, KernelTypeOK, EchoTypeOK, ReadyWatched
<1> QED
  BY <1>2, <1>3

\* EPOLLOUT on a socket
LEMMA WriteEventTyped ==
  ASSUME CallInv, NEW e, e.h \in Obj, WriteEvent(e)
  PROVE  CallInv'
<1> DEFINE c == soc[e.h]
           t == px.tok[Wt(e.h)]
           r == WriteResult(c, t.bufSize - t.ioSize)
<1>1. UNCHANGED <<link, sent, taken, got, fin, rst, backlog, watch, ready,
                  soc, deleted, evars>>
  BY DEF WriteEvent
<1>2. CASE t.mode # "A"
  <2>1. UNCHANGED <<px, out>>
    BY <1>2 DEF WriteEvent
  <2> QED
    BY <1>1, <2>1 DEF CallInv, KernelTypeOK, EchoTypeOK, ReadyWatched, evars
<1>3. CASE t.mode = "A"
  <2>1. px' = OnWriteAll(px, e.h, r) /\ out' = AfterWrite(c, r, sendBuf[e.h], t.ioSize)
    BY <1>3 DEF WriteEvent
  <2>2. /\ c \in Conn \cup {Null}
        /\ t.bufSize \in Nat /\ t.ioSize \in Nat
        /\ t.ioSize <= t.bufSize /\ t.bufSize <= BufSize
        /\ sendBuf[e.h] \in Buffer
    BY TokenPair DEF CallInv, EchoTypeOK, Sound, Library, TokenRec
  <2>3. t.bufSize - t.ioSize \in Nat
    BY <2>2
  <2>4. /\ IsResult(r, t.bufSize - t.ioSize)
        /\ r.ret > 0 => c \in Conn
    BY <2>2, <2>3, WriteResultOK DEF CallInv
  <2>5. r.ret \in Int /\ t.ioSize + r.ret <= BufSize
    <3>1. r.ret \in Int /\ r.ret <= t.bufSize - t.ioSize
      BY <2>4 DEF IsResult
    <3> HIDE DEF r, t
    <3> QED
      BY <2>2, <3>1
  <2> HIDE DEF r, c
  <2>6. Sound(px', BufSize)
    BY <2>1, <2>4, OnWriteAllSound DEF CallInv
  <2>7. out' \in [Conn -> Seq(Nat)]
    BY <2>1, <2>2, <2>4, <2>5, AfterWriteOK DEF CallInv
  <2> QED
    BY <1>1, <2>6, <2>7 DEF CallInv, KernelTypeOK, EchoTypeOK, ReadyWatched, evars
<1> QED
  BY <1>2, <1>3

\* EPOLLERR or EPOLLHUP on a socket
LEMMA ClosedEventTyped ==
  ASSUME CallInv, now \in Nat, NEW e, e.h \in Obj, ClosedEvent(e)
  PROVE  CallInv'
<1> DEFINE Z == Closed(px, e.h)
<1>1. Sound(Z, BufSize)
  BY ClosedSound DEF CallInv
<1> HIDE DEF Z
<1>2. CASE \E t \in ClosedCallback(px, e.h) : Callback(Z, t, "ECONNRESET", 0)
  <2>1. ClosedCallback(px, e.h) \subseteq Token
    BY TokenPair DEF ClosedCallback
  <2> QED
    BY <1>1, <1>2, <2>1, CallbackTyped
<1>3. CASE px' = Z /\ UNCHANGED <<kvars, soc, deleted, evars>>
  BY <1>1, <1>3 DEF CallInv, KernelTypeOK, EchoTypeOK, ReadyWatched, kvars, evars
<1> QED
  BY <1>2, <1>3 DEF ClosedEvent, Z

\* Server::onAccept
LEMMA OnAcceptTyped ==
  ASSUME CallInv, now \in Nat, NEW c \in Conn \cup {Null}, OnAccept(c),
         link' \in [Conn -> {"idle", "backlog", "open", "blocking", "closed"}],
         backlog' \in Seq(Conn), UNCHANGED deleted
  PROVE  CallInv'
<1> DEFINE r == ReadResult(c, BufSize)
<1> PICK o \in Obj \ live, rtv \in Garbage, wtv \in Garbage :
      /\ px' = ReadSome(NewSocket(px, o, rtv, wtv), o, BufSize, r, now)
      /\ taken' = AfterRead(c, r)
      /\ soc' = [soc EXCEPT ![o] = c]
      /\ live' = live \cup {o}
      /\ recvBuf' = Received(o, c, r)
      /\ IF c = Null THEN UNCHANGED <<watch, ready>>
         ELSE /\ watch' = [watch EXCEPT ![c] = o]
              /\ ready' = IF Events(c) = {} THEN ready ELSE ready \cup {c}
      /\ UNCHANGED <<sent, out, got, fin, rst, sendBuf>>
  BY DEF OnAccept
<1>1. IsResult(r, BufSize) /\ r.ret \in Int /\ (r.ret > 0 => c \in Conn)
  BY ReadResultOK DEF CallInv, IsResult
<1> HIDE DEF r
<1>2. Sound(px', BufSize)
  <2>1. rtv \in Nat /\ wtv \in Nat
    OBVIOUS
  <2>2. Sound(NewSocket(px, o, rtv, wtv), BufSize)
    BY <2>1, NewSocketSound DEF CallInv
  <2> QED
    BY <1>1, <2>2, ReadSomeSound
<1>3. taken' \in [Conn -> Nat] /\ recvBuf' \in [Obj -> Buffer]
  BY <1>1, AfterReadOK DEF CallInv
<1>4. /\ watch' \in [Conn -> Obj \cup {Null}]
      /\ ready' \subseteq Conn \cup {Listener}
      /\ ReadyWatched'
  <2>1. CASE c = Null
    BY <2>1 DEF CallInv, KernelTypeOK, ReadyWatched
  <2>2. CASE c # Null
    <3>1. /\ watch' = [watch EXCEPT ![c] = o]
          /\ ready' \subseteq ready \cup {c}
      BY <2>2
    <3> QED
      BY <2>2, <3>1 DEF CallInv, KernelTypeOK, ReadyWatched
  <2> QED
    BY <2>1, <2>2
<1>5. KernelTypeOK'
  BY <1>3, <1>4 DEF CallInv, KernelTypeOK
<1>6. EchoTypeOK' /\ soc' \in [Obj -> Conn \cup {Null}]
  BY <1>3 DEF CallInv, EchoTypeOK
<1> QED
  BY <1>2, <1>4, <1>5, <1>6 DEF CallInv

\* Every step keeps TypeInv.
LEMMA NextTypeInv == TypeInv /\ [Next]_vars => TypeInv'
<1> SUFFICES ASSUME CallInv, LoopTyped, [Next]_vars
             PROVE  CallInv' /\ LoopTyped'
  BY TypeInvSplit, TypeInvSplitPrime
<1> USE DEF LoopTyped
<1>1. CASE Loop
  BY <1>1, LoopStepTyped
<1>2. ASSUME NEW e \in batch \cup {cur}, Dispatch(e)
      PROVE  CallInv' /\ LoopTyped'
  <2>1. e \in EventRec /\ (e.h # Listener => e.h \in Obj)
    BY DEF EventRec, Handler
  <2>2. CASE ClosedEvent(e)
    <3>1. CallInv'
      BY <2>1, <2>2, ClosedEventTyped DEF ClosedEvent
    <3> QED
      BY <2>2, <3>1 DEF ClosedEvent, Take
  <2>3. CASE AcceptEvent(e)
    <3>1. CallInv'
      BY <2>3 DEF AcceptEvent, CallInv, KernelTypeOK, EchoTypeOK, ReadyWatched,
                  kvars, evars
    <3> QED
      BY <2>1, <2>3, <3>1 DEF AcceptEvent, Take, PC
  <2>4. CASE ReadEvent(e)
    <3>1. CallInv'
      BY <2>1, <2>4, ReadEventTyped DEF ReadEvent
    <3> QED
      BY <2>1, <2>4, <3>1 DEF ReadEvent, Take, PC
  <2>5. CASE WriteEvent(e)
    <3>1. CallInv'
      BY <2>1, <2>5, WriteEventTyped DEF WriteEvent
    <3> QED
      BY <2>1, <2>5, <3>1 DEF WriteEvent, WriteTurn, Take, PC
  <2> QED
    BY <1>2, <2>2, <2>3, <2>4, <2>5 DEF Dispatch
<1>3. CASE Accept \/ AcceptUnset
  <2>1. Head(backlog) \in Conn /\ Tail(backlog) \in Seq(Conn)
    BY <1>3 DEF Accept, AcceptUnset, CallInv, KernelTypeOK
  <2>2. /\ link' \in [Conn -> {"idle", "backlog", "open", "blocking", "closed"}]
        /\ backlog' \in Seq(Conn)
    BY <1>3, <2>1 DEF Accept, AcceptUnset, CallInv, KernelTypeOK
  <2>3. CallInv'
    BY <1>3, <2>1, <2>2, OnAcceptTyped DEF Accept, AcceptUnset, loopVars
  <2> QED
    BY <1>3, <2>3 DEF Accept, AcceptUnset, loopVars, PC
<1>4. CASE AcceptFails
  <2>1. CallInv'
    BY <1>4, OnAcceptTyped DEF AcceptFails, CallInv, KernelTypeOK
  <2> QED
    BY <1>4, <2>1 DEF AcceptFails, PC
<1>5. CASE AcceptDone
  <2>1. CallInv'
    BY <1>5 DEF AcceptDone, CallInv, KernelTypeOK, EchoTypeOK, ReadyWatched,
                kvars, evars
  <2> QED
    BY <1>5, <2>1 DEF AcceptDone, PC
<1>6. CASE Complete
  <2> DEFINE t == Head(px.queue)
  <2>1. t \in Token /\ Sound(Dequeue(px), BufSize)
    BY <1>6, DequeueSound DEF Complete, CallInv
  <2>2. px.tok[t].ioSize \in Nat /\ px.tok[t].ioSize <= BufSize
    BY <2>1 DEF CallInv, Sound, Library, TokenRec
  <2>3. Callback(Dequeue(px), t, px.tok[t].err, px.tok[t].ioSize)
    BY <1>6 DEF Complete
  <2> HIDE DEF t
  <2>4. CallInv'
    BY <2>1, <2>2, <2>3, CallbackTyped
  <2> QED
    BY <1>6, <2>4 DEF Complete
<1>7. CASE ExpireTimer
  <2> PICK t \in Expired(px, scan) : Callback(Expire(px, t), t, "ETIMEDOUT", 0)
    BY <1>7 DEF ExpireTimer
  <2>1. t \in Token /\ Sound(Expire(px, t), BufSize)
    BY ExpireSound DEF Expired, CallInv, Sound, Library
  <2>2. CallInv'
    BY <2>1, CallbackTyped
  <2> QED
    BY <1>7, <2>2 DEF ExpireTimer
<1>8. CASE Environment
  <2>1. CASE Peer /\ UNCHANGED <<pvars, evars>>
    BY <2>1, PeerTyped DEF pvars, loopVars
  <2>2. CASE (Signal \/ Tick) /\ UNCHANGED evars
    <3>1. /\ UNCHANGED <<link, sent, taken, out, got, fin, rst, backlog, watch,
                          ready, px, soc, pc, batch, cur, deleted, scan>>
          /\ UNCHANGED <<live, recvBuf, sendBuf>>
      BY <2>2 DEF Signal, Tick, kvars, loopVars, evars
    <3>2. CallInv'
      BY <3>1 DEF CallInv, KernelTypeOK, EchoTypeOK, ReadyWatched
    <3>3. stop' \in BOOLEAN
      BY <2>2, Zenon DEF Signal, Tick
    <3>4. now' \in Nat
      BY <2>2 DEF Signal, Tick
    <3> QED
      BY <3>1, <3>2, <3>3, <3>4
  <2> QED
    BY <1>8, <2>1, <2>2 DEF Environment
<1>9. CASE UNCHANGED vars
  BY <1>9 DEF vars, pvars, loopVars, CallInv, KernelTypeOK, EchoTypeOK,
              ReadyWatched, kvars, evars
<1> QED
  BY <1>1, <1>2, <1>3, <1>4, <1>5, <1>6, <1>7, <1>8, <1>9 DEF Next, Server

\* Every variable keeps its type.
THEOREM Typing == Spec => []TypeOK
<1>1. TypeInv => TypeOK
  BY DEF TypeInv
<1> QED
  BY <1>1, InitTypeInv, NextTypeInv, PTL DEF Spec

\* No read() or write() goes beyond recvBuf or sendBuf, whatever the sizes,
\* the number of connections and the results of the system calls.
THEOREM BuffersSafe == Spec => []BufferSafe
<1>1. TypeInv => BufferSafe
  BY DEF TypeInv
<1> QED
  BY <1>1, InitTypeInv, NextTypeInv, PTL DEF Spec

-----------------------------------------------------------------------------
(* The completion queue.                                                   *)

\* A callback that reports an error deletes its client: no completion is added.
LEMMA ErrorCallbackDrained ==
  ASSUME NEW S \in Library, S.queue = <<>>, NEW t \in Token,
         NEW err, err # "OK", NEW n, Callback(S, t, err, n)
  PROVE  px'.queue = <<>>
<1>1. Delete(S, Owner(t))
  BY DEF Callback
<1>2. Owner(t) \in Obj
  BY DEF Token, Owner
<1> QED
  BY <1>1, <1>2, DestroyKeepsEmpty DEF Delete

\* Every step keeps the queue empty where it must be.
LEMMA NextDrained == TypeInv /\ Drained /\ [Next]_vars => Drained'
<1> SUFFICES ASSUME px \in Library, batch \subseteq EventRec, Drained, [Next]_vars,
                    pc' \in {"wait", "dispatch", "timers"}
             PROVE  px'.queue = <<>>
  BY DEF Drained, TypeInv, TypeOK, ProactorTypeOK
<1>1. CASE Loop
  BY <1>1 DEF Loop, Poll, Interrupted, EndBatch, EndEvent, EventDone, EndTimers, Drained
<1>2. ASSUME NEW e \in batch \cup {cur}, Dispatch(e)
      PROVE  px'.queue = <<>>
  <2>1. CASE ClosedEvent(e)
    <3> DEFINE Z == Closed(px, e.h)
    <3>1. px.queue = <<>> /\ e.h \in Obj
      BY <2>1 DEF ClosedEvent, Take, Drained, EventRec, Handler
    <3>2. Z \in Library /\ Z.queue = <<>>
      BY <3>1, ClosedKeepsQueue
    <3>3. ClosedCallback(px, e.h) \subseteq Token
      BY <3>1, TokenPair DEF ClosedCallback
    <3>4. \/ \E t \in ClosedCallback(px, e.h) : Callback(Z, t, "ECONNRESET", 0)
          \/ px' = Z
      BY <2>1 DEF ClosedEvent
    <3> HIDE DEF Z
    <3> QED
      BY <3>2, <3>3, <3>4, ErrorCallbackDrained
  <2>2. CASE AcceptEvent(e) \/ ReadEvent(e) \/ WriteEvent(e)
    BY <2>2 DEF AcceptEvent, ReadEvent, WriteEvent
  <2> QED
    BY <1>2, <2>1, <2>2 DEF Dispatch
<1>3. CASE Accept \/ AcceptFails \/ AcceptUnset \/ AcceptDone
  BY <1>3 DEF Accept, AcceptFails, AcceptUnset, AcceptDone, loopVars
<1>4. CASE Complete
  BY <1>4 DEF Complete
<1>5. CASE ExpireTimer
  <2> PICK t \in Expired(px, scan) : Callback(Expire(px, t), t, "ETIMEDOUT", 0)
    BY <1>5 DEF ExpireTimer
  <2>1. t \in Token /\ px.queue = <<>>
    BY <1>5 DEF ExpireTimer, Expired, Drained, Library
  <2>2. Expire(px, t) \in Library /\ Expire(px, t).queue = <<>>
    BY <2>1, ExpireKeepsQueue
  <2> QED
    BY <2>1, <2>2, ErrorCallbackDrained
<1>6. CASE Environment
  <2>1. UNCHANGED <<px, pc>>
    BY <1>6 DEF Environment, pvars, loopVars, Signal, Tick
  <2> QED
    BY <2>1 DEF Drained
<1>7. CASE UNCHANGED vars
  BY <1>7 DEF vars, pvars, loopVars, Drained
<1> QED
  BY <1>1, <1>2, <1>3, <1>4, <1>5, <1>6, <1>7 DEF Next, Server

\* run() never waits, takes an event or expires a timer while a completion is
\* queued, so every completion is delivered in the round that produced it.
THEOREM CompletionsDrained == Spec => []Drained
<1>1. Init => Drained
  BY DEF Init, ProactorInit, NewLibrary, Drained
<1> QED
  BY <1>1, InitTypeInv, NextTypeInv, NextDrained, PTL DEF Spec

-----------------------------------------------------------------------------
(* Pointers and operations.                                                *)

\* The handlers with an event in run()'s array.
Announced == {e.h : e \in batch}

\* The interest list and Socket::_soc agree.
WatchInv ==
  \A c \in Conn : watch[c] # Null => watch[c] \in live /\ soc[watch[c]] = c

\* Each handler has one event at most; the one being dispatched has none left,
\* and is alive or in _deleted.
BatchInv ==
  /\ \A e, f \in batch : e.h = f.h => e = f
  /\ Announced \subseteq live \cup {Listener}
  /\ pc \in {"wait", "timers"} => batch = {}
  /\ pc = "accept" => cur.h = Listener
  /\ pc = "afterRead" /\ cur.h # Listener => cur.h \notin Announced
  /\ pc = "afterRead" /\ cur.h \notin deleted => cur.h \in live \cup {Listener}

\* The inductive invariant behind MemorySafe and OneOperation.
MemInv == Owned(px, live, Announced) /\ WatchInv /\ BatchInv

-----------------------------------------------------------------------------
(* Callbacks.                                                              *)

\* delete this
LEMMA DeleteEffect ==
  ASSUME CallInv, WatchInv, NEW S \in Library, QueueExact(S), NEW o \in Obj,
         Delete(S, o)
  PROVE  /\ Step(S, px', o) /\ Forgotten(px', o)
         /\ live' = live \ {o} /\ deleted' = deleted \cup {o}
         /\ WatchInv'
<1>1. Step(S, px', o) /\ Forgotten(px', o)
  BY DestroyStep DEF Delete
<1>2. /\ live' = live \ {o} /\ deleted' = deleted \cup {o}
      /\ soc' = [soc EXCEPT ![o] = Null]
  BY DEF Delete
<1>3. WatchInv'
  <2> SUFFICES ASSUME NEW c \in Conn, watch'[c] # Null
               PROVE  watch'[c] \in live' /\ soc'[watch'[c]] = c
    BY DEF WatchInv
  <2>1. watch' = watch \/ watch' = [watch EXCEPT ![soc[o]] = Null]
    BY DEF Delete, Close
  <2>2. watch'[c] = watch[c] /\ watch[c] \in Obj
    BY <2>1 DEF CallInv, KernelTypeOK
  <2>3. watch[c] \in live /\ soc[watch[c]] = c
    BY <2>2 DEF WatchInv
  <2>4. watch[c] # o
    <3> SUFFICES ASSUME watch[c] = o PROVE FALSE
      OBVIOUS
    <3>1. soc[o] = c /\ c # Null
      BY <2>3
    <3>2. watch' = [watch EXCEPT ![c] = Null]
      BY <3>1 DEF Delete, Close
    <3> QED
      BY <3>2 DEF CallInv, KernelTypeOK
  <2> QED
    BY <1>2, <2>2, <2>3, <2>4 DEF CallInv
<1> QED
  BY <1>1, <1>2, <1>3

\* EchoClient::startRecv of an idle client
LEMMA StartRecvEffect ==
  ASSUME CallInv, now \in Nat, WatchInv, NEW S \in Library, QueueExact(S),
         NEW o \in Obj, S.tok[Rt(o)].mode = "N", S.tok[Wt(o)].mode = "N",
         StartRecv(S, o)
  PROVE  /\ Step(S, px', o) /\ Busy(px', o)
         /\ live' = live /\ deleted' = deleted /\ WatchInv'
<1> DEFINE r == ReadResult(soc[o], BufSize)
<1>1. /\ px' = ReadSome(S, o, BufSize, r, now)
      /\ UNCHANGED <<watch, soc, live, deleted>>
  BY DEF StartRecv
<1>2. r.ret \in Int /\ r.err \in Errno
  BY ReadResultOK DEF CallInv, IsResult
<1> HIDE DEF r
<1>3. Moves(S, px', Rt(o))
  BY <1>1, <1>2, ReadSomeMoves
<1>4. Step(S, px', o) /\ px'.tok[Rt(o)].mode # "N"
  BY <1>3, TokenPair, Owners, MovesStep
<1>5. px'.tok[Wt(o)].mode = "N"
  BY <1>3, TokenPair, Owners DEF Moves
<1> QED
  BY <1>1, <1>4, <1>5 DEF Busy, WatchInv

\* EchoClient::onRead of an idle client
LEMMA WriteBackEffect ==
  ASSUME CallInv, now \in Nat, WatchInv, NEW S \in Library, QueueExact(S),
         NEW o \in Obj, S.tok[Rt(o)].mode = "N", S.tok[Wt(o)].mode = "N",
         NEW n \in Nat, WriteBack(S, o, n)
  PROVE  /\ Step(S, px', o) /\ Busy(px', o)
         /\ live' = live /\ deleted' = deleted /\ WatchInv'
<1> DEFINE r == WriteResult(soc[o], n)
<1>1. /\ px' = WriteAll(S, o, n, r, now)
      /\ UNCHANGED <<watch, soc, live, deleted>>
  BY DEF WriteBack
<1>2. r.ret \in Int /\ r.err \in Errno
  BY WriteResultOK DEF CallInv, IsResult
<1> HIDE DEF r
<1>3. Moves(S, px', Wt(o))
  BY <1>1, <1>2, WriteAllMoves
<1>4. Step(S, px', o) /\ px'.tok[Wt(o)].mode # "N"
  BY <1>3, TokenPair, Owners, MovesStep
<1>5. px'.tok[Rt(o)].mode = "N"
  BY <1>3, TokenPair, Owners DEF Moves
<1> QED
  BY <1>1, <1>4, <1>5 DEF Busy, WatchInv

\* A callback leaves its client with one operation under way, or deletes it.
LEMMA CallbackEffect ==
  ASSUME CallInv, now \in Nat, WatchInv, NEW S \in Library, QueueExact(S),
         NEW t \in Token, NEW err, NEW n \in Nat, Callback(S, t, err, n),
         \/ err # "OK"
         \/ S.tok[Rt(Owner(t))].mode = "N" /\ S.tok[Wt(Owner(t))].mode = "N"
  PROVE  /\ Step(S, px', Owner(t)) /\ WatchInv'
         /\ \/ /\ live' = live \ {Owner(t)} /\ Forgotten(px', Owner(t))
               /\ deleted' = deleted \cup {Owner(t)}
            \/ live' = live /\ deleted' = deleted /\ Busy(px', Owner(t))
<1> DEFINE o == Owner(t)
<1>1. o \in Obj
  BY DEF Token, Owner
<1>2. CASE err # "OK" \/ n <= 0
  <2>1. Delete(S, o)
    BY <1>2 DEF Callback
  <2> QED
    BY <1>1, <2>1, DeleteEffect
<1>3. CASE ~(err # "OK" \/ n <= 0)
  <2>1. WriteBack(S, o, n) \/ StartRecv(S, o)
    BY <1>3 DEF Callback, Reply
  <2> HIDE DEF o
  <2>2. S.tok[Rt(o)].mode = "N" /\ S.tok[Wt(o)].mode = "N"
    BY <1>3 DEF o
  <2>3. /\ Step(S, px', o) /\ Busy(px', o)
        /\ live' = live /\ deleted' = deleted /\ WatchInv'
    BY <1>1, <2>1, <2>2, StartRecvEffect, WriteBackEffect
  <2> QED
    BY <2>3 DEF o
<1> QED
  BY <1>2, <1>3

-----------------------------------------------------------------------------
(* The loop's steps.                                                       *)

\* What the steps below rely on.
RunInv == CallInv /\ LoopTyped /\ Drained /\ MemInv

\* The types those invariants give.
LEMMA RunTypes ==
  RunInv => /\ px \in Library /\ now \in Nat /\ QueueExact(px)
            /\ live \in SUBSET Obj /\ \A e \in batch : e \in EventRec
            /\ cur \in EventRec
BY DEF RunInv, CallInv, Sound, LoopTyped, EchoTypeOK, MemInv, Owned

\* A step on the socket of o, whose event, if it had one, is taken.
LEMMA StepMem ==
  ASSUME RunInv, NEW o \in Obj, Step(px, px', o), WatchInv',
         Announced' \subseteq Announced, o \notin Announced',
         \/ live' = live \ {o} /\ Forgotten(px', o)
         \/ live' = live \cup {o} /\ Busy(px', o)
  PROVE  /\ Owned(px', live', Announced')
         /\ Announced' \subseteq live' \cup {Listener}
<1>1. Owned(px, live, Announced)
  BY DEF RunInv, MemInv
<1>2. Owned(px', live', Announced')
  BY <1>1, RunTypes, StepOwned
<1> QED
  BY <1>2 DEF RunInv, MemInv, BatchInv

\* An event that is taken is the only one of its handler.
LEMMA TakeMem ==
  ASSUME RunInv, NEW e \in batch, batch' = batch \ {e}
  PROVE  /\ Announced' \subseteq Announced /\ e.h \notin Announced'
         /\ e.h \in Announced /\ e.h \in live \cup {Listener}
         /\ \A f, g \in batch' : f.h = g.h => f = g
BY DEF RunInv, MemInv, BatchInv, Announced

\* epoll_wait reports each handler once, and living handlers only.
LEMMA PollMem ==
  ASSUME RunInv, Poll, UNCHANGED evars
  PROVE  MemInv'
<1>1. /\ pc = "wait" /\ px.queue = <<>> /\ batch = {}
      /\ UNCHANGED <<px, live, watch, soc, cur, deleted>>
  BY DEF Poll, RunInv, Drained, MemInv, BatchInv, evars
<1>2. Owned(px', live', Announced')
  BY <1>1, RunTypes, SameOwned DEF RunInv, MemInv
<1>3. WatchInv'
  BY <1>1 DEF RunInv, MemInv, WatchInv
<1>4. CASE batch' = batch /\ pc' \in {"stopped", "timers"}
  BY <1>1, <1>2, <1>3, <1>4 DEF MemInv, BatchInv, Announced
<1>5. CASE /\ pc' = "dispatch"
           /\ batch' = {[h |-> HandlerOf(k), ev |-> Events(k)] :
                          k \in {k \in ready : Events(k) # {}}}
  <2>1. ASSUME NEW k \in ready
        PROVE  IF k = Listener THEN HandlerOf(k) = Listener
               ELSE HandlerOf(k) \in live \cap Obj /\ soc[HandlerOf(k)] = k
    BY DEF RunInv, CallInv, KernelTypeOK, EchoTypeOK, ReadyWatched, MemInv,
           WatchInv, HandlerOf
  <2>2. \A k, l \in ready : HandlerOf(k) = HandlerOf(l) => k = l
    BY <2>1
  <2>3. \A e, f \in batch' : e.h = f.h => e = f
    BY <1>5, <2>2
  <2>4. Announced' \subseteq live' \cup {Listener}
    BY <1>1, <1>5, <2>1 DEF Announced
  <2> QED
    BY <1>2, <1>3, <1>5, <2>3, <2>4 DEF MemInv, BatchInv
<1> QED
  BY <1>4, <1>5 DEF Poll

\* A step that changes no socket, client or token
LEMMA QuietMem ==
  ASSUME RunInv, UNCHANGED <<px, live, watch, soc>>, batch' \subseteq batch
  PROVE  /\ Owned(px', live', Announced') /\ WatchInv'
         /\ Announced' \subseteq live' \cup {Listener}
         /\ \A e, f \in batch' : e.h = f.h => e = f
<1>1. Announced' \subseteq Announced
  BY DEF Announced
<1> QED
  BY <1>1 DEF RunInv, MemInv, Owned, WatchInv, BatchInv

\* run() between two handlers
LEMMA LoopMem ==
  ASSUME RunInv, Loop
  PROVE  MemInv'
<1>1. CASE Poll /\ UNCHANGED evars
  BY <1>1, PollMem
<1>2. CASE (Interrupted \/ EndBatch \/ EndEvent \/ EndTimers) /\ UNCHANGED evars
  <2>1. UNCHANGED <<px, live, watch, soc, batch>>
    BY <1>2 DEF Interrupted, EndBatch, EndEvent, EndTimers, kvars, evars
  <2>2. pc' \notin {"accept", "afterRead"} /\ (pc' \in {"wait", "timers"} => batch = {})
    <3>1. CASE Interrupted
      BY <3>1 DEF Interrupted
    <3>2. CASE EndBatch
      BY <3>2 DEF EndBatch
    <3>3. CASE EndEvent
      BY <3>3 DEF EndEvent
    <3>4. CASE EndTimers
      BY <3>4 DEF EndTimers, RunInv, MemInv, BatchInv
    <3> QED
      BY <1>2, <3>1, <3>2, <3>3, <3>4
  <2> QED
    BY <2>1, <2>2, QuietMem DEF MemInv, BatchInv
<1> QED
  BY <1>1, <1>2 DEF Loop

\* EPOLLERR or EPOLLHUP
LEMMA ClosedEventMem ==
  ASSUME RunInv, NEW e, ClosedEvent(e)
  PROVE  MemInv' /\ deleted' \subseteq deleted \cup {e.h} /\ e.h \in live
<1> DEFINE o == e.h
           Z == Closed(px, o)
<1>1. /\ pc = "dispatch" /\ pc' = pc /\ e \in batch /\ batch' = batch \ {e}
      /\ o # Listener /\ px.queue = <<>>
  BY DEF ClosedEvent, Take, RunInv, Drained
<1>2. o \in Obj /\ o \in live
  BY <1>1, TakeMem, RunTypes DEF EventRec, Handler
<1>3. /\ Step(px, Z, o) /\ Z.queue = px.queue /\ Z.timers = px.timers
      /\ \A t \in Token : Z.tok[t].mode = px.tok[t].mode
  BY <1>2, RunTypes, ClosedStep
<1>4. Z \in Library /\ QueueExact(Z)
  BY <1>3 DEF Step
<1>5. \/ \E t \in ClosedCallback(px, o) : Callback(Z, t, "ECONNRESET", 0)
      \/ px' = Z /\ UNCHANGED <<kvars, soc, deleted, evars>>
  BY DEF ClosedEvent
<1>6. \A t \in ClosedCallback(px, o) : t \in Token /\ Owner(t) = o
  BY <1>2, TokenPair, Owners DEF ClosedCallback
<1> HIDE DEF Z, o
<1>7. /\ Announced' \subseteq Announced /\ o \notin Announced'
      /\ \A f, g \in batch' : f.h = g.h => f = g
  BY <1>1, TakeMem DEF o
<1>8. /\ Step(px, px', o) /\ WatchInv' /\ deleted' \subseteq deleted \cup {o}
      /\ \/ live' = live \ {o} /\ Forgotten(px', o)
         \/ live' = live \cup {o} /\ Busy(px', o)
  <2>1. ASSUME NEW t \in ClosedCallback(px, o), Callback(Z, t, "ECONNRESET", 0)
        PROVE  /\ Step(px, px', o) /\ WatchInv' /\ deleted' \subseteq deleted \cup {o}
               /\ \/ live' = live \ {o} /\ Forgotten(px', o)
                  \/ live' = live \cup {o} /\ Busy(px', o)
    <3>1. /\ Step(Z, px', o) /\ WatchInv' /\ deleted' \subseteq deleted \cup {o}
          /\ \/ live' = live \ {o} /\ Forgotten(px', o)
             \/ live' = live /\ Busy(px', o)
      BY <1>4, <1>6, <2>1, RunTypes, CallbackEffect DEF RunInv, MemInv
    <3>2. Step(px, px', o)
      BY <1>2, <1>3, <3>1, RunTypes, StepTrans
    <3> QED
      BY <1>2, <3>1, <3>2
  <2>2. CASE px' = Z /\ UNCHANGED <<kvars, soc, deleted, evars>>
    <3>1. Busy(Z, o)
      BY <1>2, <1>3, TokenPair DEF RunInv, MemInv, Owned, Busy
    <3>2. WatchInv'
      BY <2>2 DEF RunInv, MemInv, WatchInv, kvars, evars
    <3> QED
      BY <1>2, <1>3, <2>2, <3>1, <3>2 DEF evars
  <2> QED
    BY <1>5, <2>1, <2>2
<1>9. Owned(px', live', Announced') /\ Announced' \subseteq live' \cup {Listener}
  BY <1>2, <1>7, <1>8, StepMem
<1>10. BatchInv'
  BY <1>1, <1>7, <1>9 DEF BatchInv
<1> QED
  BY <1>2, <1>8, <1>9, <1>10, Zenon DEF MemInv, o

\* Server::onAccept creates a client where none lives, and starts its read.
LEMMA OnAcceptMem ==
  ASSUME RunInv, NEW c \in Conn \cup {Null}, OnAccept(c), UNCHANGED <<batch, deleted>>
  PROVE  /\ Owned(px', live', Announced') /\ WatchInv'
         /\ live \subseteq live'
         /\ Announced' \subseteq live' \cup {Listener}
<1> DEFINE r == ReadResult(c, BufSize)
<1> PICK o \in Obj \ live, rtv \in Garbage, wtv \in Garbage :
      /\ px' = ReadSome(NewSocket(px, o, rtv, wtv), o, BufSize, r, now)
      /\ soc' = [soc EXCEPT ![o] = c]
      /\ live' = live \cup {o}
      /\ IF c = Null THEN watch' = watch
         ELSE watch' = [watch EXCEPT ![c] = o]
  BY DEF OnAccept
<1> DEFINE S == NewSocket(px, o, rtv, wtv)
<1>1. /\ r.ret \in Int /\ r.err \in Errno
  BY ReadResultOK DEF RunInv, CallInv, IsResult
<1> HIDE DEF r
<1>2. Forgotten(px, o) /\ rtv \in Nat /\ wtv \in Nat
  BY DEF RunInv, MemInv, Owned, Forgotten, CallInv, Sound, Library
<1>3. /\ Step(px, S, o) /\ S.tok[Rt(o)].mode = "N" /\ S.tok[Wt(o)].mode = "N"
  BY <1>2, RunTypes, NewSocketStep
<1> HIDE DEF S
<1>4. S \in Library /\ QueueExact(S)
  BY <1>3 DEF Step
<1>5. Moves(S, px', Rt(o))
  BY <1>1, <1>3, <1>4, RunTypes, ReadSomeMoves DEF S
<1>6. Step(S, px', o) /\ Busy(px', o)
  <2>1. Step(S, px', o) /\ px'.tok[Rt(o)].mode # "N"
    BY <1>3, <1>4, <1>5, TokenPair, Owners, MovesStep
  <2>2. px'.tok[Wt(o)].mode = "N"
    BY <1>3, <1>5, TokenPair, Owners DEF Moves
  <2> QED
    BY <2>1, <2>2 DEF Busy
<1>7. Step(px, px', o)
  BY <1>3, <1>6, RunTypes, StepTrans
<1>8. WatchInv'
  <2> SUFFICES ASSUME NEW d \in Conn, watch'[d] # Null
               PROVE  watch'[d] \in live' /\ soc'[watch'[d]] = d
    BY DEF WatchInv
  <2>1. CASE watch'[d] = watch[d]
    <3>1. watch[d] \in live /\ soc[watch[d]] = d /\ watch[d] # o
      BY <2>1 DEF RunInv, MemInv, WatchInv
    <3> QED
      BY <2>1, <3>1, RunTypes DEF RunInv, CallInv
  <2>2. CASE watch'[d] # watch[d]
    <3>1. d = c /\ watch'[d] = o
      BY <2>2 DEF RunInv, CallInv, KernelTypeOK
    <3> QED
      BY <3>1 DEF RunInv, CallInv
  <2> QED
    BY <2>1, <2>2
<1>9. Announced' = Announced /\ o \notin Announced
  BY DEF RunInv, MemInv, BatchInv, Announced
<1> QED
  BY <1>6, <1>7, <1>8, <1>9, StepMem

\* The turns of the loop of Acceptor::onRead
LEMMA AcceptMem ==
  ASSUME RunInv, Accept \/ AcceptFails \/ AcceptUnset \/ AcceptDone
  PROVE  MemInv'
<1>1. pc = "accept" /\ pc' \in {"accept", "afterRead"} /\ cur' = cur /\ cur.h = Listener
      /\ batch' = batch /\ deleted' = deleted
  BY DEF Accept, AcceptFails, AcceptUnset, AcceptDone, loopVars, RunInv, MemInv, BatchInv
<1>2. /\ Owned(px', live', Announced') /\ WatchInv'
      /\ Announced' \subseteq live' \cup {Listener}
  <2>1. CASE Accept
    <3>1. Head(backlog) \in Conn
      BY <2>1 DEF Accept, RunInv, CallInv, KernelTypeOK
    <3> QED
      BY <1>1, <2>1, <3>1, OnAcceptMem DEF Accept
  <2>2. CASE AcceptFails \/ AcceptUnset
    BY <1>1, <2>2, OnAcceptMem DEF AcceptFails, AcceptUnset
  <2>3. CASE AcceptDone
    BY <2>3, QuietMem DEF AcceptDone, kvars, evars
  <2> QED
    BY <2>1, <2>2, <2>3
<1> QED
  BY <1>1, <1>2 DEF MemInv, BatchInv, RunInv

\* EPOLLIN on the listening socket
LEMMA AcceptEventMem ==
  ASSUME RunInv, NEW e, AcceptEvent(e)
  PROVE  MemInv'
<1>1. /\ batch' = batch \ {e} /\ pc' = "accept" /\ cur' = e /\ e.h = Listener
      /\ UNCHANGED <<px, live, watch, soc>>
  BY DEF AcceptEvent, Take, kvars, evars
<1> QED
  BY <1>1, QuietMem DEF MemInv, BatchInv

\* EPOLLIN on a socket
LEMMA ReadEventMem ==
  ASSUME RunInv, NEW e, ReadEvent(e)
  PROVE  MemInv'
<1> DEFINE o == e.h
           r == ReadResult(soc[o], px.tok[Rt(o)].bufSize)
<1>1. /\ e \in batch /\ batch' = batch \ {e} /\ o # Listener
      /\ pc' = "afterRead" /\ cur' = e
      /\ UNCHANGED <<live, watch, soc>>
  BY DEF ReadEvent, Take
<1>2. /\ o \in live /\ Announced' \subseteq Announced /\ o \notin Announced'
      /\ \A f, g \in batch' : f.h = g.h => f = g
  BY <1>1, TakeMem
<1>3. o \in Obj
  BY <1>2, RunTypes
<1>4. WatchInv'
  BY <1>1 DEF RunInv, MemInv, WatchInv
<1>5. /\ Owned(px', live', Announced')
      /\ Announced' \subseteq live' \cup {Listener}
  <2>1. CASE px.tok[Rt(o)].mode # "S"
    <3>1. px' = px
      BY <2>1 DEF ReadEvent
    <3> QED
      BY <1>1, <3>1, QuietMem
  <2>2. CASE px.tok[Rt(o)].mode = "S"
    <3>1. px' = OnReadSome(px, o, r)
      BY <2>2 DEF ReadEvent
    <3>2. soc[o] \in Conn \cup {Null} /\ px.tok[Rt(o)].bufSize \in Nat
      BY <1>3, TokenPair, RunTypes DEF RunInv, CallInv, Library, TokenRec
    <3>3. r.ret \in Int /\ r.err \in Errno
      BY <3>2, ReadResultOK DEF RunInv, CallInv, IsResult
    <3> HIDE DEF r, o
    <3>4. Moves(px, px', Rt(o))
      BY <1>3, <2>2, <3>1, <3>3, RunTypes, OnReadSomeMoves
    <3>5. Step(px, px', o) /\ px'.tok[Rt(o)].mode # "N"
      BY <1>3, <2>2, <3>4, TokenPair, Owners, RunTypes, MovesStep
    <3>6. px'.tok[Wt(o)].mode = px.tok[Wt(o)].mode
      BY <1>3, <3>4, TokenPair, Owners DEF Moves
    <3>7. Busy(px', o)
      BY <1>2, <2>2, <3>5, <3>6 DEF RunInv, MemInv, Owned, Busy
    <3>8. live' = live \cup {o}
      BY <1>1, <1>2
    <3> QED
      BY <1>2, <1>3, <1>4, <3>5, <3>7, <3>8, StepMem
  <2> QED
    BY <2>1, <2>2
<1> QED
  BY <1>1, <1>2, <1>4, <1>5 DEF MemInv, BatchInv

\* EPOLLOUT on a socket, whether it was readable too or not
LEMMA WriteEventMem ==
  ASSUME RunInv, NEW e \in batch \cup {cur}, WriteEvent(e)
  PROVE  MemInv'
<1> DEFINE o == e.h
           t == px.tok[Wt(o)]
           r == WriteResult(soc[o], t.bufSize - t.ioSize)
<1>1. /\ o # Listener /\ pc' = "afterWrite"
      /\ UNCHANGED <<live, watch, soc, deleted>>
      /\ \/ Take(e)
         \/ pc = "afterRead" /\ e = cur /\ o \notin deleted /\ batch' = batch
  BY DEF WriteEvent, WriteTurn, evars
<1>2. /\ o \in live /\ Announced' \subseteq Announced /\ o \notin Announced'
      /\ \A f, g \in batch' : f.h = g.h => f = g
  <2>1. CASE Take(e)
    BY <1>1, <2>1, TakeMem DEF Take
  <2>2. CASE pc = "afterRead" /\ e = cur /\ o \notin deleted /\ batch' = batch
    BY <1>1, <2>2 DEF RunInv, MemInv, BatchInv, Announced
  <2> QED
    BY <1>1, <2>1, <2>2
<1>3. o \in Obj
  BY <1>2, RunTypes
<1>4. WatchInv'
  BY <1>1 DEF RunInv, MemInv, WatchInv
<1>5. /\ Owned(px', live', Announced')
      /\ Announced' \subseteq live' \cup {Listener}
  <2>1. CASE t.mode # "A"
    <3>1. px' = px
      BY <2>1 DEF WriteEvent
    <3>2. batch' \subseteq batch
      BY <1>1 DEF Take
    <3> QED
      BY <1>1, <3>1, <3>2, QuietMem
  <2>2. CASE t.mode = "A"
    <3>1. px' = OnWriteAll(px, o, r)
      BY <2>2 DEF WriteEvent
    <3>2. soc[o] \in Conn \cup {Null} /\ t.bufSize - t.ioSize \in Nat
      BY <1>3, TokenPair, RunTypes DEF RunInv, CallInv, Sound, Library, TokenRec
    <3>3. r.ret \in Int /\ r.err \in Errno
      BY <3>2, WriteResultOK DEF RunInv, CallInv, IsResult
    <3> HIDE DEF r, o
    <3>4. px.tok[Wt(o)].mode = "A"
      BY <2>2 DEF t
    <3>5. Moves(px, px', Wt(o))
      BY <1>3, <3>1, <3>3, <3>4, RunTypes, OnWriteAllMoves
    <3>6. Step(px, px', o) /\ px'.tok[Wt(o)].mode # "N"
      BY <1>3, <3>4, <3>5, TokenPair, Owners, RunTypes, MovesStep
    <3>7. px'.tok[Rt(o)].mode = px.tok[Rt(o)].mode
      BY <1>3, <3>5, TokenPair, Owners DEF Moves
    <3>8. Busy(px', o)
      BY <1>2, <3>4, <3>6, <3>7 DEF RunInv, MemInv, Owned, Busy
    <3>9. live' = live \cup {o}
      BY <1>1, <1>2
    <3> QED
      BY <1>2, <1>3, <1>4, <3>6, <3>8, <3>9, StepMem
  <2> QED
    BY <2>1, <2>2
<1> QED
  BY <1>1, <1>2, <1>4, <1>5 DEF MemInv, BatchInv

\* A callback within a handler's turn or among the timers.
LEMMA CallbackMem ==
  ASSUME RunInv, UNCHANGED <<pc, batch, cur>>, NEW t \in Token,
         Owner(t) \in live \ Announced, NEW S, Step(px, S, Owner(t)), WatchInv',
         Step(S, px', Owner(t)),
         \/ /\ live' = live \ {Owner(t)} /\ Forgotten(px', Owner(t))
            /\ deleted' = deleted \cup {Owner(t)}
         \/ live' = live /\ deleted' = deleted /\ Busy(px', Owner(t))
  PROVE  MemInv'
<1> DEFINE o == Owner(t)
<1>1. o \in Obj /\ o \in live /\ Announced' = Announced /\ o \notin Announced
  BY RunTypes DEF Announced
<1> HIDE DEF o
<1>2. Step(px, px', o)
  BY <1>1, RunTypes, StepTrans DEF o
<1>3. \/ live' = live \ {o} /\ Forgotten(px', o)
      \/ live' = live \cup {o} /\ Busy(px', o)
  BY <1>1 DEF o
<1>4. Owned(px', live', Announced') /\ Announced' \subseteq live' \cup {Listener}
  BY <1>1, <1>2, <1>3, StepMem
<1>5. pc = "afterRead" /\ cur.h \notin deleted' => cur.h \in live' \cup {Listener}
  BY DEF RunInv, MemInv, BatchInv
<1> QED
  BY <1>4, <1>5 DEF MemInv, BatchInv, RunInv, Announced

\* One turn of the loop of _processCompletion
LEMMA CompleteMem ==
  ASSUME RunInv, Complete
  PROVE  /\ MemInv'
         /\ \A o \in deleted' \ deleted : o \in live
<1> DEFINE t == Head(px.queue)
           o == Owner(t)
           S == Dequeue(px)
<1>1. /\ t \in Token /\ Queued(px, t) /\ Step(px, S, o) /\ S.tok[t].mode = "N"
      /\ \A x \in Token \ {t} : S.tok[x].mode = px.tok[x].mode
  BY RunTypes, DequeueStep DEF Complete
<1>2. Callback(S, t, px.tok[t].err, px.tok[t].ioSize) /\ UNCHANGED <<pc, batch, cur>>
  BY DEF Complete
<1> HIDE DEF t, S
<1>3. o \in live \ Announced /\ o \in Obj
  BY <1>1, RunTypes DEF RunInv, MemInv, Owned
<1>4. px.tok[t].ioSize \in Nat /\ px.tok[t].mode \in {"D", "E"}
  BY <1>1, RunTypes DEF Library, TokenRec, QueueExact
<1>5. S.tok[Rt(o)].mode = "N" /\ S.tok[Wt(o)].mode = "N"
  <2>1. Busy(px, o) /\ t \in {Rt(o), Wt(o)} /\ Rt(o) # Wt(o)
    BY <1>1, <1>3, Owners DEF RunInv, MemInv, Owned
  <2> HIDE DEF o
  <2>2. Rt(o) \in Token /\ Wt(o) \in Token
    BY <1>3, TokenPair
  <2> QED
    BY <1>1, <1>4, <2>1, <2>2 DEF Busy
<1>6. S \in Library /\ QueueExact(S)
  BY <1>1 DEF Step
<1>7. /\ Step(S, px', o) /\ WatchInv'
      /\ \/ /\ live' = live \ {o} /\ Forgotten(px', o)
            /\ deleted' = deleted \cup {o}
         \/ live' = live /\ deleted' = deleted /\ Busy(px', o)
  BY <1>1, <1>2, <1>4, <1>5, <1>6, RunTypes, CallbackEffect DEF RunInv, MemInv
<1> QED
  BY <1>1, <1>2, <1>3, <1>7, CallbackMem

\* One turn of the loop of _processTimer
LEMMA ExpireMem ==
  ASSUME RunInv, ExpireTimer
  PROVE  /\ MemInv'
         /\ \A o \in deleted' \ deleted : o \in live
<1> PICK t \in Expired(px, scan) : Callback(Expire(px, t), t, "ETIMEDOUT", 0)
  BY DEF ExpireTimer
<1>1. UNCHANGED <<pc, batch, cur>> /\ pc = "timers"
  BY DEF ExpireTimer
<1>2. t \in Token /\ t \in px.timers
  BY RunTypes DEF Expired, Library
<1>3. px.queue = <<>> /\ batch = {} /\ Owner(t) \in live
  BY <1>1, <1>2 DEF RunInv, Drained, MemInv, BatchInv, Owned
<1> DEFINE S == Expire(px, t)
<1>4. Step(px, S, Owner(t))
  BY <1>2, <1>3, RunTypes, ExpireStep
<1> HIDE DEF S
<1>5. S \in Library /\ QueueExact(S)
  BY <1>4 DEF Step
<1>6. /\ Step(S, px', Owner(t)) /\ WatchInv'
      /\ \/ /\ live' = live \ {Owner(t)} /\ Forgotten(px', Owner(t))
            /\ deleted' = deleted \cup {Owner(t)}
         \/ live' = live /\ deleted' = deleted /\ Busy(px', Owner(t))
  BY <1>2, <1>5, RunTypes, CallbackEffect DEF RunInv, MemInv, S
<1>7. Owner(t) \in live \ Announced
  BY <1>3 DEF Announced
<1> QED
  BY <1>1, <1>2, <1>4, <1>6, <1>7, CallbackMem

\* The peers, the clock and signals leave the program's data alone.
LEMMA EnvironmentMem ==
  ASSUME RunInv, Environment \/ UNCHANGED vars
  PROVE  MemInv' /\ UNCHANGED <<pc, batch, deleted>>
<1>1. UNCHANGED <<px, live, watch, soc, pc, batch, cur, deleted>>
  BY DEF Environment, Peer, Connect, PeerSend, PeerFinish, PeerReset, PeerRecv,
         Signal, Tick, vars, kvars, pvars, loopVars, evars
<1>2. /\ Owned(px', live', Announced') /\ WatchInv'
      /\ Announced' \subseteq live' \cup {Listener}
  BY <1>1, QuietMem
<1>3. BatchInv'
  BY <1>1, <1>2 DEF RunInv, MemInv, BatchInv, Announced
<1> QED
  BY <1>1, <1>2, <1>3 DEF MemInv

-----------------------------------------------------------------------------
(* The theorems.                                                           *)

\* The invariants in the shape of the theorems and in that of the lemmas.
LEMMA RunInvSplit == TypeInv /\ Drained /\ MemInv <=> RunInv
BY TypeInvSplit DEF RunInv

\* Nothing is registered, queued or allocated at first.
LEMMA InitMemInv == Init => MemInv
<1> SUFFICES ASSUME Init PROVE MemInv
  OBVIOUS
<1>1. /\ px = NewLibrary /\ live = {} /\ batch = {} /\ pc = "wait"
      /\ watch = [c \in Conn |-> Null]
  BY DEF Init, ProactorInit, KernelInit
<1>2. Owned(px, live, Announced)
  BY <1>1 DEF Owned, NewLibrary, QueueExact, Queued, FreshToken
<1> QED
  BY <1>1, <1>2 DEF MemInv, WatchInv, BatchInv, Announced

\* Every step keeps MemInv.
LEMMA NextMemInv == RunInv /\ [Next]_vars => MemInv'
<1> SUFFICES ASSUME RunInv, [Next]_vars PROVE MemInv'
  OBVIOUS
<1>1. CASE Loop
  BY <1>1, LoopMem
<1>2. ASSUME NEW e \in batch \cup {cur}, Dispatch(e)
      PROVE  MemInv'
  BY <1>2, ClosedEventMem, AcceptEventMem, ReadEventMem, WriteEventMem DEF Dispatch
<1>3. CASE Accept \/ AcceptFails \/ AcceptUnset \/ AcceptDone
  BY <1>3, AcceptMem
<1>4. CASE Complete
  BY <1>4, CompleteMem
<1>5. CASE ExpireTimer
  BY <1>5, ExpireMem
<1>6. CASE Environment \/ UNCHANGED vars
  BY <1>6, EnvironmentMem
<1> QED
  BY <1>1, <1>2, <1>3, <1>4, <1>5, <1>6 DEF Next, Server

\* All the invariants together.
LEMMA Invariants == Spec => [](TypeInv /\ Drained /\ MemInv)
<1>1. Init => Drained
  BY DEF Init, ProactorInit, NewLibrary, Drained
<1> QED
  BY <1>1, InitTypeInv, InitMemInv, NextTypeInv, NextDrained, NextMemInv,
     RunInvSplit, PTL DEF Spec

\* No pointer the loop will follow dangles.
LEMMA MemoryIsSafe == RunInv => MemorySafe
<1> SUFFICES ASSUME RunInv PROVE MemorySafe
  OBVIOUS
<1>1. \A e \in batch : e.h \in live \cup {Listener}
  BY DEF RunInv, MemInv, BatchInv, Announced
<1>2. \A i \in DOMAIN px.queue : Owner(px.queue[i]) \in live
  <2> TAKE i \in DOMAIN px.queue
  <2>1. px.queue[i] \in Token /\ Queued(px, px.queue[i])
    BY RunTypes DEF Library, Queued
  <2> QED
    BY <2>1 DEF RunInv, MemInv, Owned
<1> QED
  BY <1>1, <1>2 DEF RunInv, MemInv, Owned, BatchInv, WatchInv, MemorySafe

\* No event in run()'s array, timer, queued completion or entry of the interest
\* list points to an object that is deleted, and _deleted names the handler of
\* the current event if that is gone: whatever the number of connections, the
\* order of events and the results of the system calls.
THEOREM NoDanglingPointer == Spec => []MemorySafe
BY MemoryIsSafe, Invariants, RunInvSplit, PTL

\* A client's two tokens are in the completion queue as their modes say.
LEMMA OperationsAreSingle == RunInv => OneOperation
<1> SUFFICES ASSUME RunInv, NEW o \in live
             PROVE  /\ Busy(px, o)
                    /\ \A t \in {Rt(o), Wt(o)} :
                         Cardinality({i \in DOMAIN px.queue : px.queue[i] = t}) =
                           IF px.tok[t].mode \in {"D", "E"} THEN 1 ELSE 0
  BY DEF OneOperation, Busy
<1>1. Busy(px, o)
  BY DEF RunInv, MemInv, Owned
<1>2. ASSUME NEW t \in {Rt(o), Wt(o)}
      PROVE  Cardinality({i \in DOMAIN px.queue : px.queue[i] = t}) =
               IF px.tok[t].mode \in {"D", "E"} THEN 1 ELSE 0
  <2> DEFINE places == {i \in DOMAIN px.queue : px.queue[i] = t}
  <2>1. t \in Token
    BY RunTypes, TokenPair
  <2>2. Queued(px, t) <=> px.tok[t].mode \in {"D", "E"}
    BY <2>1, RunTypes DEF QueueExact
  <2>3. CASE Queued(px, t)
    <3> PICK i \in DOMAIN px.queue : px.queue[i] = t
      BY <2>3 DEF Queued
    <3>1. places = {i}
      BY RunTypes DEF QueueExact
    <3> QED
      BY <2>2, <2>3, <3>1, FS_Singleton
  <2>4. CASE ~Queued(px, t)
    <3>1. places = {}
      BY <2>4 DEF Queued
    <3> QED
      BY <2>2, <2>4, <3>1, FS_EmptySet
  <2> QED
    BY <2>3, <2>4
<1> QED
  BY <1>1, <1>2

\* Each client has exactly one operation outstanding, so that neither readSome
\* nor writeAll is ever refused, and each token is linked exactly when its mode
\* says that its operation is over, and once.
THEOREM OneOperationAtATime == Spec => []OneOperation
BY OperationsAreSingle, Invariants, RunInvSplit, PTL

\* A step that calls only objects that are alive.
CallsLive ==
  /\ \A e \in batch \ batch' : e.h \in live \cup {Listener}
  /\ pc = "afterRead" /\ pc' = "afterWrite" => cur.h \in live
  /\ \A o \in deleted' \ deleted : o \in live

\* Every step is one.
LEMMA NextCallsLive == RunInv /\ [Next]_vars => CallsLive
<1> SUFFICES ASSUME RunInv, [Next]_vars PROVE CallsLive
  OBVIOUS
<1>1. \A e \in batch \ batch' : e.h \in live \cup {Listener}
  BY DEF RunInv, MemInv, BatchInv, Announced
<1>2. ASSUME pc = "afterRead", pc' = "afterWrite"
      PROVE  cur.h \in live
  <2>1. \E e \in batch \cup {cur} : WriteEvent(e)
    BY <1>2 DEF Next, Server, Loop, Poll, Interrupted, EndBatch, EndEvent,
                EndTimers, Dispatch, ClosedEvent, AcceptEvent, ReadEvent, Take,
                Accept, AcceptFails, AcceptUnset, AcceptDone, Complete, ExpireTimer, loopVars,
                Environment, Peer, Signal, Tick, vars, pvars
  <2> PICK e \in batch \cup {cur} : WriteEvent(e)
    BY <2>1
  <2>2. e = cur /\ e.h \notin deleted /\ e.h # Listener
    BY <1>2 DEF WriteEvent, WriteTurn, Take
  <2> QED
    BY <1>2, <2>2 DEF RunInv, MemInv, BatchInv
<1>3. ASSUME NEW o \in deleted' \ deleted
      PROVE  o \in live
  <2>1. CASE Complete \/ ExpireTimer
    BY <2>1, <1>3, CompleteMem, ExpireMem
  <2>2. CASE \E e \in batch : ClosedEvent(e)
    BY <2>2, <1>3, ClosedEventMem
  <2>3. CASE ~(Complete \/ ExpireTimer \/ \E e \in batch : ClosedEvent(e))
    <3>1. deleted' \subseteq deleted
      BY <2>3, EnvironmentMem
      DEF Next, Server, Loop, Poll, Interrupted, EndBatch, EndEvent, EndTimers,
          Dispatch, ClosedEvent, AcceptEvent, ReadEvent, WriteEvent, Take,
          Accept, AcceptFails, AcceptUnset, AcceptDone, loopVars
    <3> QED
      BY <1>3, <3>1
  <2> QED
    BY <2>1, <2>2, <2>3
<1> QED
  BY <1>1, <1>2, <1>3 DEF CallsLive

\* run() calls the handler of an event, and _processCompletion and
\* _processTimer a callback, only of an object that is alive.
THEOREM CallsReachLiveObjects == Spec => CallsLiveObject
<1>1. RunInv /\ [Next]_vars => [CallsLive]_vars
  BY NextCallsLive
<1>2. Spec => [][CallsLive]_vars
  BY <1>1, Invariants, RunInvSplit, PTL DEF Spec
<1> QED
  BY <1>2 DEF CallsLiveObject, CallsLive

-----------------------------------------------------------------------------
(* The invariant of the bytes.                                             *)

\* What has been written back to c are its first bytes, all of them read
\* before, and the send buffer holds no more than its size.
ConnInv(c) ==
  /\ out[c] = [i \in 1..Len(out[c]) |-> i]
  /\ Len(out[c]) <= taken[c] /\ taken[c] <= sent[c]
  /\ got[c] <= Len(out[c]) /\ Len(out[c]) - got[c] <= TxCap
  /\ link[c] \in {"idle", "backlog"} => taken[c] = 0
  /\ watch[c] # Null <=> link[c] = "open"

\* Where the read of client o on connection c is: waiting, with everything read
\* echoed; done, with the bytes to echo in recvBuf or at the end of the stream;
\* or failed.
ReadInv(o, c) ==
  LET R == px.tok[Rt(o)]
      n == Len(out[c])
  IN  /\ R.mode # "A"
      /\ R.mode = "S" => n = taken[c] /\ R.bufSize > 0
      /\ R.mode = "D" => /\ n + R.ioSize = taken[c]
                         /\ \A i \in 1..R.ioSize : recvBuf[o][i] = n + i
                         /\ R.ioSize = 0 => c \in fin /\ sent[c] = taken[c]
                         /\ R.err # "OK" => c \in rst
      /\ R.mode = "E" => c \in rst /\ R.ioSize = 0

\* Where its write is: sendBuf holds what is written of the last read and what
\* is not; or all is written; or it failed.
WriteInv(o, c) ==
  LET W == px.tok[Wt(o)]
      n == Len(out[c])
  IN  /\ W.mode # "S"
      /\ W.mode = "A" => /\ n - W.ioSize + W.bufSize = taken[c]
                         /\ W.ioSize < W.bufSize
                         /\ \A i \in 1..W.bufSize : sendBuf[o][i] = n - W.ioSize + i
      /\ W.mode = "D" => /\ n = taken[c] /\ W.ioSize > 0
                         /\ W.err # "OK" => c \in rst
      /\ W.mode = "E" => c \in rst /\ W.ioSize = 0

\* A client has a connection that is registered in its name, or is the one of
\* a failed accept(), whose read has failed.
ClientInv(o) ==
  IF soc[o] = Null THEN px.tok[Rt(o)].mode = "E" /\ px.tok[Rt(o)].ioSize = 0
  ELSE watch[soc[o]] = o /\ ReadInv(o, soc[o]) /\ WriteInv(o, soc[o])

\* The backlog holds each connection once, and only connections that are
\* waiting there.
BacklogInv ==
  /\ \A i, j \in 1..Len(backlog) : backlog[i] = backlog[j] => i = j
  /\ \A i \in 1..Len(backlog) : link[backlog[i]] = "backlog"

\* With epoll a hang-up that waits in run()'s array is a reset.
HupInv ==
  Backend = "epoll" =>
    \A e \in batch : e.h # Listener /\ "HUP" \in e.ev => soc[e.h] \in rst

\* The times of the timers, and of the scan.
ClockInv == Timed(px, now) /\ now <= MaxTime /\ scan <= now

StreamInv ==
  /\ \A c \in Conn : ConnInv(c)
  /\ \A o \in live : ClientInv(o)
  /\ BacklogInv /\ HupInv /\ ClockInv

\* What client o waits for and is there has its edge.  (The kqueue build does
\* not ask to be told that a socket is writable.)
WaitInv(o) ==
  /\ px.tok[Rt(o)].mode = "S" /\ Readable(soc[o]) => Resumes(o, "IN")
  /\ Backend = "epoll" =>
       (px.tok[Wt(o)].mode = "A" /\ Writable(soc[o]) => Resumes(o, "OUT"))

\* _deleted names no living handler when run() looks there.
EdgeInv ==
  /\ \A o \in live : WaitInv(o)
  /\ pc = "afterRead" /\ cur.h \in deleted => cur.h \notin live

-----------------------------------------------------------------------------
(* System calls and the bytes they move.                                   *)

\* The bytes n+1 to n+k written behind the first n.
LEMMA AppendBytes ==
  ASSUME NEW n \in Nat, NEW k \in Nat, NEW s, s = [i \in 1..n |-> i],
         NEW b, b = [i \in 1..k |-> n + i]
  PROVE  s \o b = [i \in 1..(n + k) |-> i] /\ Len(s \o b) = n + k
<1>1. s \in Seq(Nat) /\ b \in Seq(Nat) /\ Len(s) = n /\ Len(b) = k
  OBVIOUS
<1>2. \A i \in 1..n : s[i] = i
  OBVIOUS
<1>3. \A i \in 1..k : b[i] = n + i
  OBVIOUS
<1> DEFINE t == [i \in 1..(n + k) |-> i]
<1>4. t \in Seq(Nat) /\ Len(t) = n + k /\ \A i \in 1..(n + k) : t[i] = i
  OBVIOUS
<1> HIDE DEF t
<1>5. s \o b \in Seq(Nat) /\ Len(s \o b) = n + k
  BY <1>1
<1>6. ASSUME NEW i \in 1..(n + k) PROVE (s \o b)[i] = i
  <2>1. CASE i <= n
    <3>1. i \in 1..Len(s)
      BY <1>1, <2>1
    <3>2. (s \o b)[i] = s[i]
      BY <1>1, <3>1
    <3> QED
      BY <1>1, <1>2, <3>1, <3>2
  <2>2. CASE ~(i <= n)
    <3>1. i - n \in 1..k /\ n + (i - n) = i
      BY <2>2
    <3>2. (s \o b)[i] = b[i - n]
      BY <1>1, <2>2, <1>6
    <3> QED
      BY <1>3, <3>1, <3>2
  <2> QED
    BY <2>1, <2>2
<1>7. s \o b = t
  BY <1>4, <1>5, <1>6, SeqEqual
<1> QED
  BY <1>5, <1>7 DEF t

\* A read() of size bytes of c by o that returns r, when all that was read has
\* been echoed.
ReadsOn(o, c, size, r) ==
  /\ Len(out[c]) = taken[c] /\ size <= BufSize
  /\ r = ReadResult(c, size) /\ taken' = AfterRead(c, r)
  /\ recvBuf' = Received(o, c, r) /\ UNCHANGED <<out, sent, fin, rst>>
  /\ LET R == px'.tok[Rt(o)]
     IN  /\ R.mode = IF r.ret >= 0 THEN "D" ELSE IF r.err = "EAGAIN" THEN "S" ELSE "E"
         /\ r.ret >= 0 => R.ioSize = r.ret
         /\ ~(r.ret >= 0) /\ r.err # "EAGAIN" => R.ioSize = 0
         /\ R.err = r.err /\ R.bufSize > 0

\* What it leads to.
HasRead(o, c) ==
  /\ ReadInv(o, c)'
  /\ taken[c] <= taken'[c] /\ taken'[c] <= sent[c]
  /\ \A d \in Conn \ {c} : taken'[d] = taken[d]
  /\ \A p \in Obj \ {o} : recvBuf'[p] = recvBuf[p]
  /\ px'.tok[Rt(o)].mode = "S" => ~Readable(c)'

\* The bytes a read() hands over keep ReadInv.
LEMMA ReadStream ==
  ASSUME CallInv, NEW o \in Obj, NEW c \in Conn, ConnInv(c),
         NEW size \in Nat \ {0}, NEW r, ReadsOn(o, c, size, r)
  PROVE  HasRead(o, c)
<1> USE DEF ReadsOn
<1> DEFINE R == px'.tok[Rt(o)]
           n == Len(out[c])
<1>1. /\ taken \in [Conn -> Nat] /\ taken[c] \in Nat /\ sent[c] \in Nat /\ n \in Nat
      /\ recvBuf \in [Obj -> Buffer] /\ recvBuf[o] \in Buffer
  BY DEF CallInv, KernelTypeOK, EchoTypeOK
<1>2. c # Null /\ Unread(c) = sent[c] - taken[c] /\ Unread(c) >= 0
  BY <1>1 DEF Unread, ConnInv
<1> SUFFICES /\ /\ R.mode # "A"
                /\ R.mode = "S" => n = taken'[c]
                /\ R.mode = "D" => /\ n + R.ioSize = taken'[c]
                                   /\ \A i \in 1..R.ioSize : recvBuf'[o][i] = n + i
                                   /\ R.ioSize = 0 => c \in fin /\ sent[c] = taken'[c]
                                   /\ R.err # "OK" => c \in rst
                /\ R.mode = "E" => c \in rst /\ R.ioSize = 0
             /\ taken[c] <= taken'[c] /\ taken'[c] <= sent[c]
             /\ \A d \in Conn \ {c} : taken'[d] = taken[d]
             /\ \A p \in Obj \ {o} : recvBuf'[p] = recvBuf[p]
             /\ R.mode = "S" => ~(sent[c] - taken'[c] > 0 \/ c \in fin \cup rst)
  BY DEF HasRead, ReadInv, Readable, Unread
<1>3. CASE Unread(c) > 0
  <2>1. r.ret = Lesser(Unread(c), size) /\ r.err = "OK"
    BY <1>2, <1>3 DEF ReadResult, Result
  <2>2. r.ret \in Nat /\ r.ret > 0 /\ r.ret <= Unread(c) /\ r.ret <= size
    BY <1>1, <1>2, <1>3, <2>1 DEF Lesser
  <2>3. taken' = [taken EXCEPT ![c] = taken[c] + r.ret]
    BY <2>2 DEF AfterRead
  <2>4. recvBuf' = [recvBuf EXCEPT ![o] = AfterReadBuf(c, r, recvBuf[o])]
    BY <2>2 DEF Received
  <2>5. \A i \in 1..r.ret : AfterReadBuf(c, r, recvBuf[o])[i] = taken[c] + i
    BY <1>1, <2>2 DEF AfterReadBuf, Buffer
  <2>6. taken'[c] = taken[c] + r.ret /\ \A d \in Conn \ {c} : taken'[d] = taken[d]
    BY <1>1, <2>3
  <2>7. /\ \A i \in 1..r.ret : recvBuf'[o][i] = taken[c] + i
        /\ \A p \in Obj \ {o} : recvBuf'[p] = recvBuf[p]
    BY <1>1, <2>4, <2>5
  <2>8. R.mode = "D" /\ R.ioSize = r.ret /\ R.err = "OK"
    BY <2>1, <2>2
  <2> HIDE DEF R
  <2> QED
    BY <1>1, <1>2, <2>2, <2>6, <2>7, <2>8
<1>4. CASE ~(Unread(c) > 0)
  <2>1. ~(r.ret > 0) /\ r.ret \in Int
    BY <1>2, <1>4 DEF ReadResult, Result
  <2>2. taken' = taken /\ recvBuf' = recvBuf
    BY <2>1 DEF AfterRead, Received
  <2>3. sent[c] = taken[c]
    BY <1>1, <1>2, <1>4
  <2>4. CASE c \in rst
    <3>1. r.ret = -1 /\ r.err = "ECONNRESET"
      BY <1>2, <1>4, <2>4 DEF ReadResult, Result
    <3>2. R.mode = "E" /\ R.ioSize = 0
      BY <3>1
    <3> HIDE DEF R
    <3> QED
      BY <1>1, <2>2, <2>3, <2>4, <3>2
  <2>5. CASE c \notin rst /\ c \in fin
    <3>1. r.ret = 0 /\ r.err = "OK"
      BY <1>2, <1>4, <2>5 DEF ReadResult, Result
    <3>2. R.mode = "D" /\ R.ioSize = 0 /\ R.err = "OK"
      BY <3>1
    <3> HIDE DEF R
    <3> QED
      BY <1>1, <2>2, <2>3, <2>5, <3>2
  <2>6. CASE c \notin rst /\ c \notin fin
    <3>1. r.ret = -1 /\ r.err = "EAGAIN"
      BY <1>2, <1>4, <2>6 DEF ReadResult, Result
    <3>2. R.mode = "S"
      BY <3>1
    <3> HIDE DEF R
    <3> QED
      BY <1>1, <2>2, <2>3, <2>6, <3>2
  <2> QED
    BY <2>4, <2>5, <2>6
<1> QED
  BY <1>3, <1>4

\* A write() of size bytes of client o's buffer buf, from byte from + 1 on, that
\* returns r: the bytes that follow what is already written.
WritesOn(o, c, buf, from, size, r) ==
  /\ from + size <= BufSize /\ Len(out[c]) + size = taken[c]
  /\ \A i \in 1..(from + size) : buf[i] = Len(out[c]) - from + i
  /\ r = WriteResult(c, size) /\ out' = AfterWrite(c, r, buf, from)
  /\ sendBuf'[o] = buf /\ UNCHANGED <<taken, sent, got, rst>>
  /\ LET W == px'.tok[Wt(o)]
     IN  /\ W.mode = IF r.ret <= 0
                     THEN IF r.err = "EAGAIN" THEN "A" ELSE "E"
                     ELSE IF r.ret < size THEN "A" ELSE "D"
         /\ W.bufSize = from + size
         /\ W.ioSize = IF r.ret <= 0
                       THEN IF r.err = "EAGAIN" THEN from ELSE 0
                       ELSE from + r.ret
         /\ W.err = r.err

\* What it leads to.
Wrote(o, c) ==
  /\ WriteInv(o, c)'
  /\ out'[c] = [i \in 1..Len(out'[c]) |-> i]
  /\ Len(out[c]) <= Len(out'[c]) /\ Len(out'[c]) <= taken[c]
  /\ Len(out'[c]) - got[c] <= TxCap
  /\ \A d \in Conn \ {c} : out'[d] = out[d]
  /\ out' = [out EXCEPT ![c] = out'[c]]
  /\ px'.tok[Wt(o)].mode = "A" => ~Writable(c)'

\* The same of a write().
LEMMA WriteStream ==
  ASSUME CallInv, NEW o \in Obj, NEW c \in Conn, ConnInv(c),
         NEW buf \in Buffer, NEW from \in Nat, NEW size \in Nat \ {0},
         NEW r, WritesOn(o, c, buf, from, size, r)
  PROVE  Wrote(o, c)
<1> USE DEF WritesOn
<1> DEFINE W == px'.tok[Wt(o)]
           n == Len(out[c])
           m == Len(out'[c])
<1>1. /\ out \in [Conn -> Seq(Nat)] /\ out[c] \in Seq(Nat) /\ n \in Nat
      /\ taken[c] \in Nat /\ got[c] \in Nat /\ out[c] = [i \in 1..n |-> i]
      /\ TxFree(c) = TxCap - (n - got[c]) /\ TxFree(c) >= 0 /\ c # Null
      /\ taken[c] = n + size
  <2>1. /\ out \in [Conn -> Seq(Nat)] /\ taken[c] \in Nat /\ got[c] \in Nat
        /\ TxCap \in Nat /\ c # Null
    BY DEF CallInv, KernelTypeOK
  <2>2. out[c] \in Seq(Nat) /\ n \in Nat
    BY <2>1
  <2>3. out[c] = [i \in 1..n |-> i] /\ n - got[c] <= TxCap
    BY DEF ConnInv
  <2>4. taken[c] = n + size
    OBVIOUS
  <2>5. TxFree(c) = TxCap - (n - got[c])
    BY DEF TxFree
  <2> HIDE DEF n, WritesOn
  <2>6. TxFree(c) >= 0
    BY <2>1, <2>2, <2>3, <2>5
  <2> QED
    BY <2>1, <2>2, <2>3, <2>4, <2>5, <2>6
<1> SUFFICES /\ /\ W.mode # "S"
                /\ W.mode = "A" => /\ m - W.ioSize + W.bufSize = taken[c]
                                   /\ W.ioSize < W.bufSize
                                   /\ \A i \in 1..W.bufSize : buf[i] = m - W.ioSize + i
                /\ W.mode = "D" => /\ m = taken[c] /\ W.ioSize > 0
                                   /\ W.err # "OK" => c \in rst
                /\ W.mode = "E" => c \in rst /\ W.ioSize = 0
             /\ out'[c] = [i \in 1..m |-> i]
             /\ n <= m /\ m <= taken[c] /\ m - got[c] <= TxCap
             /\ \A d \in Conn \ {c} : out'[d] = out[d]
             /\ out' = [out EXCEPT ![c] = out'[c]]
             /\ W.mode = "A" => ~(TxCap - (m - got[c]) > 0 \/ c \in rst)
  BY DEF Wrote, WriteInv, Writable, TxFree
<1>2. CASE c \in rst
  <2>1. r.ret = -1 /\ r.err = "EPIPE"
    BY <1>1, <1>2 DEF WriteResult, Result
  <2>2. out' = out /\ W.mode = "E" /\ W.ioSize = 0
    BY <2>1 DEF AfterWrite
  <2> HIDE DEF W
  <2> QED
    BY <1>1, <1>2, <2>2
<1>3. CASE c \notin rst /\ ~(TxFree(c) > 0)
  <2>1. r.ret = -1 /\ r.err = "EAGAIN"
    BY <1>1, <1>3 DEF WriteResult, Result
  <2>2. out' = out /\ W.mode = "A" /\ W.ioSize = from /\ W.bufSize = from + size
    BY <2>1 DEF AfterWrite
  <2>3. m = n /\ \A i \in 1..(from + size) : buf[i] = n - from + i
    BY <2>2
  <2> HIDE DEF W, m, n, WritesOn
  <2>4. m - W.ioSize + W.bufSize = taken[c] /\ W.ioSize < W.bufSize
    BY <1>1, <2>2, <2>3
  <2>5. \A i \in 1..W.bufSize : buf[i] = m - W.ioSize + i
    BY <2>2, <2>3
  <2>6. n <= m /\ m <= taken[c] /\ m - got[c] <= TxCap
    BY <1>1, <2>3
  <2>7. /\ out'[c] = [i \in 1..m |-> i] /\ \A d \in Conn \ {c} : out'[d] = out[d]
        /\ out' = [out EXCEPT ![c] = out'[c]]
    BY <1>1, <2>2, <2>3
  <2>8. ~(TxCap - (m - got[c]) > 0 \/ c \in rst)
    BY <1>1, <1>3, <2>3
  <2> QED
    BY <2>2, <2>4, <2>5, <2>6, <2>7, <2>8
<1>4. CASE c \notin rst /\ TxFree(c) > 0
  <2> DEFINE k == Lesser(TxFree(c), size)
             b == [i \in 1..k |-> n + i]
  <2>1. /\ k \in Nat /\ k > 0 /\ k <= size /\ k <= TxFree(c) /\ (k < size => k = TxFree(c))
        /\ r.ret = k /\ r.err = "OK"
    BY <1>1, <1>4 DEF WriteResult, Result, Lesser
  <2> HIDE DEF k
  <2>2. [i \in 1..r.ret |-> buf[from + i]] = b
    <3>1. \A i \in 1..k : from + i \in 1..(from + size) /\ n - from + (from + i) = n + i
      BY <1>1, <2>1
    <3>2. \A i \in 1..k : buf[from + i] = n + i
      BY <3>1
    <3> QED
      BY <2>1, <3>2
  <2>3. out' = [out EXCEPT ![c] = out[c] \o b]
    <3>1. r.ret > 0
      BY <2>1
    <3> HIDE DEF b
    <3> QED
      BY <2>2, <3>1 DEF AfterWrite
  <2>4. out[c] \o b = [i \in 1..(n + k) |-> i] /\ Len(out[c] \o b) = n + k
    <3>1. out[c] = [i \in 1..n |-> i] /\ n \in Nat /\ k \in Nat
      BY <1>1, <2>1
    <3> HIDE DEF n, WritesOn
    <3> QED
      BY <3>1, AppendBytes
  <2>5. /\ out'[c] = out[c] \o b /\ m = n + k /\ out'[c] = [i \in 1..m |-> i]
        /\ \A d \in Conn \ {c} : out'[d] = out[d]
        /\ out' = [out EXCEPT ![c] = out'[c]]
    <3> HIDE DEF WritesOn, b
    <3>1. /\ out'[c] = out[c] \o b /\ \A d \in Conn \ {c} : out'[d] = out[d]
          /\ out' = [out EXCEPT ![c] = out'[c]]
      BY <1>1, <2>3
    <3> QED
      BY <2>4, <3>1
  <2> HIDE DEF m, n, W
  <2>6. n <= m /\ m <= taken[c] /\ m - got[c] <= TxCap /\ m \in Nat
    <3>1. n <= m /\ m <= taken[c] /\ m \in Nat
      BY <1>1, <2>1, <2>5
    <3>2. k <= TxCap - (n - got[c])
      BY <1>1, <2>1
    <3>3. TxCap \in Nat /\ m = n + k
      BY <2>5
    <3> HIDE DEF WritesOn
    <3>4. n \in Nat /\ k \in Nat /\ got[c] \in Nat
      BY <1>1, <2>1
    <3>5. m - got[c] <= TxCap
      BY <3>2, <3>3, <3>4
    <3> QED
      BY <3>1, <3>5
  <2>7. CASE k < size
    <3>1. W.mode = "A" /\ W.bufSize = from + size /\ W.ioSize = from + k
      BY <2>1, <2>7 DEF W
    <3>2. m - W.ioSize = n - from /\ W.ioSize < W.bufSize
      BY <1>1, <2>1, <2>5, <2>7, <3>1
    <3>3. m - W.ioSize + W.bufSize = taken[c]
      BY <1>1, <3>1, <3>2
    <3>4. \A i \in 1..W.bufSize : buf[i] = m - W.ioSize + i
      <4>1. \A i \in 1..(from + size) : buf[i] = n - from + i
        BY DEF n
      <4> HIDE DEF WritesOn
      <4> QED
        BY <3>1, <3>2, <4>1
    <3>5. ~(TxCap - (m - got[c]) > 0 \/ c \in rst)
      <4> HIDE DEF WritesOn
      <4> QED
        <5>1. k = TxCap - (n - got[c]) /\ m = n + k /\ c \notin rst
          BY <1>1, <1>4, <2>1, <2>5, <2>7
        <5>2. n \in Nat /\ got[c] \in Nat /\ TxCap \in Nat
          BY <1>1
        <5>3. m - got[c] = TxCap
          BY <5>1, <5>2
        <5> QED
          BY <5>1, <5>2, <5>3
    <3> QED
      BY <2>5, <2>6, <3>1, <3>2, <3>3, <3>4, <3>5
  <2>8. CASE ~(k < size)
    <3>1. W.mode = "D" /\ W.ioSize = from + k /\ W.err = "OK" /\ k = size
      BY <2>1, <2>8 DEF W
    <3>2. m = taken[c] /\ W.ioSize > 0
      BY <1>1, <2>1, <2>5, <3>1
    <3> QED
      BY <2>5, <2>6, <3>1, <3>2
  <2> QED
    BY <2>7, <2>8
<1> QED
  BY <1>2, <1>3, <1>4

-----------------------------------------------------------------------------
(* A step on one client.                                                   *)

\* The step concerns client o and connection d only.
Elsewhere(o, d) ==
  /\ \A p \in Obj \ {o} : /\ soc'[p] = soc[p]
                          /\ recvBuf'[p] = recvBuf[p] /\ sendBuf'[p] = sendBuf[p]
                          /\ p \in live' => p \in live
  /\ Apart(px, px', o)
  /\ \A c \in Conn \ {d} : /\ link'[c] = link[c] /\ taken'[c] = taken[c]
                           /\ out'[c] = out[c] /\ watch'[c] = watch[c]
  /\ UNCHANGED <<sent, got, fin, rst>>

\* The other clients and connections keep their invariants.
LEMMA ElsewhereInv ==
  ASSUME RunInv, RunInv', StreamInv, NEW o \in Obj, NEW d \in Conn \cup {Null},
         Elsewhere(o, d), d # Null => watch[d] \in {o, Null},
         d # Null => ConnInv(d)', o \in live' => ClientInv(o)'
  PROVE  (\A c \in Conn : ConnInv(c)') /\ (\A p \in live' : ClientInv(p)')
<1>1. ASSUME NEW c \in Conn PROVE ConnInv(c)'
  <2>1. CASE c = d
    BY <2>1
  <2>2. CASE c # d
    BY <2>2 DEF StreamInv, ConnInv, Elsewhere
  <2> QED
    BY <2>1, <2>2
<1>2. ASSUME NEW p \in live' PROVE ClientInv(p)'
  <2>1. CASE p = o
    BY <2>1
  <2>2. CASE p # o
    <3>1. p \in Obj /\ p \in live /\ ClientInv(p)
      BY <1>2, <2>2 DEF RunInv, CallInv, EchoTypeOK, Elsewhere, StreamInv
    <3>2. /\ px'.tok[Rt(p)] = px.tok[Rt(p)] /\ px'.tok[Wt(p)] = px.tok[Wt(p)]
          /\ soc'[p] = soc[p] /\ recvBuf'[p] = recvBuf[p] /\ sendBuf'[p] = sendBuf[p]
      BY <2>2, <3>1, TokenPair, Owners DEF Elsewhere, Apart
    <3>3. CASE soc[p] = Null
      BY <3>1, <3>2, <3>3 DEF ClientInv
    <3>4. CASE soc[p] # Null
      <4>1. soc[p] \in Conn /\ watch[soc[p]] = p
        BY <3>1, <3>4 DEF RunInv, CallInv, ClientInv
      <4>2. soc[p] # d
        BY <2>2, <3>1, <3>4, <4>1
      <4>3. /\ taken'[soc[p]] = taken[soc[p]] /\ out'[soc[p]] = out[soc[p]]
            /\ watch'[soc[p]] = watch[soc[p]]
        BY <4>1, <4>2 DEF Elsewhere
      <4>4. UNCHANGED <<sent, fin, rst>>
        BY DEF Elsewhere
      <4>5. ReadInv(p, soc[p]) /\ WriteInv(p, soc[p])
        BY <3>1, <3>4 DEF ClientInv
      <4>6. ReadInv(p, soc[p])'
        BY <3>2, <4>3, <4>4, <4>5 DEF ReadInv
      <4>7. WriteInv(p, soc[p])'
        BY <3>2, <4>3, <4>4, <4>5 DEF WriteInv
      <4> QED
        BY <3>2, <3>4, <4>1, <4>3, <4>6, <4>7 DEF ClientInv
    <3> QED
      BY <3>3, <3>4
  <2> QED
    BY <2>1, <2>2
<1> QED
  BY <1>1, <1>2

\* The backlog is not concerned if no connection leaves it.
LEMMA BacklogSame ==
  ASSUME BacklogInv, CallInv, UNCHANGED backlog,
         \A c \in Conn : link[c] = "backlog" => link'[c] = "backlog"
  PROVE  BacklogInv'
<1>1. \A i \in 1..Len(backlog) : backlog[i] \in Conn
  BY DEF CallInv, KernelTypeOK
<1> QED
  BY <1>1 DEF BacklogInv

\* A step of the server on one client
LEMMA ClientStep ==
  ASSUME RunInv, RunInv', StreamInv, NEW o \in Obj, NEW d \in Conn \cup {Null},
         Elsewhere(o, d), d # Null => watch[d] \in {o, Null},
         d # Null => ConnInv(d)', o \in live' => ClientInv(o)',
         Timed(px', now), UNCHANGED <<now, scan>>, BacklogInv', batch' \subseteq batch,
         o \in Announced' => soc'[o] = soc[o]
  PROVE  StreamInv'
<1>1. (\A c \in Conn : ConnInv(c)') /\ (\A p \in live' : ClientInv(p)')
  BY ElsewhereInv
<1>2. HupInv'
  <2> SUFFICES ASSUME Backend = "epoll", NEW e \in batch', e.h # Listener, "HUP" \in e.ev
               PROVE  soc'[e.h] \in rst'
    BY DEF HupInv
  <2>1. soc[e.h] \in rst
    BY DEF StreamInv, HupInv
  <2>2. e.h \in Obj /\ e.h \in Announced'
    BY DEF RunInv, LoopTyped, EventRec, Handler, Announced
  <2>3. soc'[e.h] = soc[e.h] /\ rst' = rst
    BY <2>2 DEF Elsewhere
  <2> QED
    BY <2>1, <2>3
<1>3. ClockInv'
  BY DEF StreamInv, ClockInv
<1> QED
  BY <1>1, <1>2, <1>3 DEF StreamInv

-----------------------------------------------------------------------------
(* What the peers see of it.                                               *)

\* Nothing
LEMMA Unseen ==
  ASSUME UNCHANGED <<sent, out, fin, rst>>,
         \A c \in Conn : \/ link'[c] = link[c]
                         \/ link[c] = "backlog" /\ link'[c] \in {"open", "blocking"}
  PROVE  UNCHANGED Service!svars
BY DEF Service!svars

\* The next bytes
LEMMA SeenReply ==
  ASSUME NEW c \in Conn, CallInv, CallInv', link[c] = "open",
         UNCHANGED <<link, sent, fin, rst>>,
         out' = [out EXCEPT ![c] = out'[c]],
         out[c] = [i \in 1..Len(out[c]) |-> i],
         out'[c] = [i \in 1..Len(out'[c]) |-> i],
         Len(out[c]) <= Len(out'[c]), Len(out'[c]) <= sent[c]
  PROVE  [Service!Next]_(Service!svars)
<1>1. Len(out[c]) \in Nat /\ Len(out'[c]) \in Nat /\ sent[c] \in Nat
  BY DEF CallInv, KernelTypeOK
<1>2. CASE Len(out'[c]) = Len(out[c])
  <2>1. out'[c] = out[c]
    BY <1>2
  <2>2. out' = out
    BY <2>1 DEF CallInv, KernelTypeOK
  <2> QED
    BY <2>2, Unseen
<1>3. CASE Len(out'[c]) # Len(out[c])
  <2> DEFINE m == Len(out'[c])
  <2>1. m \in Len(out[c]) + 1 .. sent[c]
    BY <1>1, <1>3
  <2>2. out' = [out EXCEPT ![c] = [i \in 1..m |-> i]]
    OBVIOUS
  <2>3. \E n \in Len(out[c]) + 1 .. sent[c] : out' = [out EXCEPT ![c] = [i \in 1..n |-> i]]
    BY <2>1, <2>2
  <2>4. Service!Reply(c)
    BY <2>3 DEF Service!Reply
  <2> QED
    BY <2>4 DEF Service!Next
<1> QED
  BY <1>2, <1>3

\* That the server hangs up, which it may for one of these reasons.
Reason(c) ==
  \/ c \in rst
  \/ c \in fin /\ Len(out[c]) = sent[c]
  \/ Timeout # 0 /\ MaxTime > Timeout

LEMMA SeenHangUp ==
  ASSUME NEW c \in Conn, CallInv, link[c] = "open", Reason(c),
         link' = [link EXCEPT ![c] = "closed"], UNCHANGED <<sent, out, fin, rst>>
  PROVE  [Service!Next]_(Service!svars)
<1>1. [d \in Conn |-> IF link'[d] \in {"backlog", "blocking"} THEN "open" ELSE link'[d]]
        = [[d \in Conn |-> IF link[d] \in {"backlog", "blocking"} THEN "open" ELSE link[d]]
             EXCEPT ![c] = "closed"]
  BY DEF CallInv, KernelTypeOK
<1>2. Service!HangUp(c)
  BY <1>1 DEF Service!HangUp, Reason
<1> QED
  BY <1>2 DEF Service!Next

-----------------------------------------------------------------------------
(* Callbacks.                                                              *)

\* What is known of client o when it is called back with the library's data S.
CalledBack(S, o) ==
  /\ S \in Library /\ QueueExact(S) /\ Timed(S, now) /\ Apart(px, S, o)
  /\ o \in live

\* The facts about a living client that the lemmas below start from.
LEMMA LivingClient ==
  ASSUME RunInv, StreamInv, NEW o \in live
  PROVE  /\ o \in Obj /\ ClientInv(o) /\ soc[o] \in Conn \cup {Null}
         /\ soc[o] # Null => /\ soc[o] \in Conn /\ watch[soc[o]] = o
                             /\ link[soc[o]] = "open" /\ ConnInv(soc[o])
                             /\ ReadInv(o, soc[o]) /\ WriteInv(o, soc[o])
<1>1. o \in Obj /\ ClientInv(o) /\ soc[o] \in Conn \cup {Null}
  BY DEF RunInv, CallInv, EchoTypeOK, StreamInv
<1>2. ASSUME soc[o] # Null
      PROVE  /\ soc[o] \in Conn /\ watch[soc[o]] = o
             /\ link[soc[o]] = "open" /\ ConnInv(soc[o])
             /\ ReadInv(o, soc[o]) /\ WriteInv(o, soc[o])
  <2>1. soc[o] \in Conn /\ watch[soc[o]] = o /\ o # Null
    BY <1>1, <1>2 DEF ClientInv
  <2>2. ConnInv(soc[o])
    BY <2>1 DEF StreamInv
  <2> QED
    BY <1>1, <1>2, <2>1, <2>2 DEF ClientInv, ConnInv
<1> QED
  BY <1>1, <1>2

\* delete this: the connection, if there is one, is closed.
LEMMA DeleteElsewhere ==
  ASSUME RunInv, RunInv', NEW S, NEW o, CalledBack(S, o), Delete(S, o),
         NEW d, d = soc[o]
  PROVE  /\ Elsewhere(o, d) /\ Timed(px', now)
         /\ o \notin live' /\ o \notin Announced'
         /\ IF d = Null THEN UNCHANGED <<link, watch>>
            ELSE /\ link' = [link EXCEPT ![d] = "closed"]
                 /\ watch' = [watch EXCEPT ![d] = Null]
         /\ d # Null /\ ConnInv(d) => ConnInv(d)'
<1>1. o \in Obj /\ d \in Conn \cup {Null} /\ o # Listener
  BY DEF CalledBack, RunInv, CallInv, EchoTypeOK
<1>2. /\ px' = DestroySocket(S, o) /\ soc' = [soc EXCEPT ![o] = Null]
      /\ live' = live \ {o}
      /\ recvBuf' = [recvBuf EXCEPT ![o] = EmptyBuffer]
      /\ sendBuf' = [sendBuf EXCEPT ![o] = EmptyBuffer]
      /\ Close(d) /\ UNCHANGED <<sent, taken, out, got, fin, rst, backlog>>
  BY DEF Delete
<1>3. Timed(px', now) /\ Apart(S, px', o) /\ now \in Nat
  BY <1>1, <1>2, RunTypes, DestroyApart DEF CalledBack
<1>4. Apart(px, px', o)
  BY <1>3 DEF Apart, CalledBack
<1>5. IF d = Null THEN UNCHANGED <<link, watch>>
      ELSE link' = [link EXCEPT ![d] = "closed"] /\ watch' = [watch EXCEPT ![d] = Null]
  BY <1>2 DEF Close
<1>6. \A c \in Conn \ {d} : link'[c] = link[c] /\ watch'[c] = watch[c]
  <2>1. /\ link \in [Conn -> {"idle", "backlog", "open", "blocking", "closed"}]
        /\ watch \in [Conn -> Obj \cup {Null}]
    BY DEF RunInv, CallInv, KernelTypeOK
  <2> QED
    BY <1>1, <1>5, <2>1
<1>7. \A p \in Obj \ {o} : /\ soc'[p] = soc[p] /\ recvBuf'[p] = recvBuf[p]
                           /\ sendBuf'[p] = sendBuf[p]
  <2>1. /\ soc \in [Obj -> Conn \cup {Null}] /\ recvBuf \in [Obj -> Buffer]
        /\ sendBuf \in [Obj -> Buffer]
    BY DEF RunInv, CallInv, EchoTypeOK
  <2> QED
    BY <1>1, <1>2, <2>1
<1>8. Elsewhere(o, d)
  BY <1>2, <1>4, <1>6, <1>7 DEF Elsewhere
<1>9. d # Null /\ ConnInv(d) => ConnInv(d)'
  BY <1>1, <1>2, <1>5 DEF ConnInv, RunInv, CallInv, KernelTypeOK
<1>10. o \notin live' /\ o \notin Announced'
  BY <1>1, <1>2 DEF RunInv, MemInv, BatchInv
<1> QED
  BY <1>3, <1>5, <1>8, <1>9, <1>10

\* delete this
LEMMA DeleteStream ==
  ASSUME RunInv, RunInv', StreamInv, NEW S, NEW o, CalledBack(S, o), Delete(S, o),
         NEW d, d = soc[o], UNCHANGED <<now, scan>>, batch' \subseteq batch
  PROVE  /\ StreamInv' /\ Elsewhere(o, d)
         /\ d = Null \/ Reason(d) => [Service!Next]_(Service!svars)
<1>1. /\ o \in Obj /\ d \in Conn \cup {Null} /\ ClientInv(o)
      /\ d # Null => d \in Conn /\ watch[d] = o /\ link[d] = "open" /\ ConnInv(d)
  BY LivingClient DEF CalledBack
<1>2. /\ Elsewhere(o, d) /\ Timed(px', now) /\ o \notin live' /\ o \notin Announced'
      /\ IF d = Null THEN UNCHANGED <<link, watch>>
         ELSE /\ link' = [link EXCEPT ![d] = "closed"]
              /\ watch' = [watch EXCEPT ![d] = Null]
      /\ d # Null => ConnInv(d)'
  BY <1>1, DeleteElsewhere
<1>3. UNCHANGED <<sent, out, fin, rst, backlog>>
  BY DEF Delete
<1>4. BacklogInv'
  <2>1. CallInv /\ BacklogInv
    BY DEF StreamInv, RunInv
  <2>2. link \in [Conn -> {"idle", "backlog", "open", "blocking", "closed"}]
    BY <2>1 DEF CallInv, KernelTypeOK
  <2>3. \A k \in Conn : link[k] = "backlog" => link'[k] = "backlog"
    BY <1>1, <1>2, <2>2
  <2> QED
    BY <1>3, <2>1, <2>3, BacklogSame
<1>5. StreamInv'
  BY <1>1, <1>2, <1>4, ClientStep
<1>6. CASE d = Null
  BY <1>2, <1>3, <1>5, <1>6, Unseen
<1>7. CASE d # Null
  BY <1>1, <1>2, <1>3, <1>5, <1>7, SeenHangUp DEF RunInv
<1> QED
  BY <1>6, <1>7

\* EchoClient::startRecv, when all that was read has been echoed
LEMMA StartRecvStream ==
  ASSUME RunInv, RunInv', StreamInv, NEW S, NEW o, CalledBack(S, o), StartRecv(S, o),
         S.tok[Rt(o)].mode = "N", S.tok[Wt(o)].mode = "N",
         NEW c, c = soc[o], c # Null, Len(out[c]) = taken[c],
         UNCHANGED <<now, scan>>, batch' \subseteq batch
  PROVE  /\ StreamInv' /\ Elsewhere(o, c)
         /\ UNCHANGED Service!svars
         /\ px'.tok[Wt(o)].mode = "N"
         /\ px'.tok[Rt(o)].mode = "S" => ~Readable(c)'
<1> DEFINE r == ReadResult(c, BufSize)
<1>1. /\ o \in Obj /\ c \in Conn /\ watch[c] = o /\ link[c] = "open" /\ ConnInv(c)
  BY LivingClient DEF CalledBack
<1>2. /\ px' = ReadSome(S, o, BufSize, r, now)
      /\ taken' = AfterRead(c, r) /\ recvBuf' = Received(o, c, r)
      /\ UNCHANGED <<link, sent, out, got, fin, rst, backlog, watch, ready,
                     soc, deleted, live, sendBuf>>
  BY DEF StartRecv
<1>3. r.ret \in Int /\ r.err \in Errno
  BY <1>1, ReadResultOK DEF RunInv, CallInv, IsResult
<1>4. r = ReadResult(c, BufSize)
  OBVIOUS
<1> HIDE DEF r
<1> DEFINE rec == [mode |-> IF r.ret >= 0 THEN "D"
                            ELSE IF r.err = "EAGAIN" THEN "S" ELSE "E",
                   bufSize |-> BufSize,
                   ioSize |-> IF r.ret >= 0 THEN r.ret ELSE 0,
                   err |-> r.err]
<1>5. Puts(S, px', Rt(o), rec) /\ Timed(px', now)
  BY <1>1, <1>2, <1>3, RunTypes, ReadSomePuts DEF CalledBack
<1>6. /\ rec.mode = IF r.ret >= 0 THEN "D" ELSE IF r.err = "EAGAIN" THEN "S" ELSE "E"
      /\ rec.bufSize = BufSize /\ rec.err = r.err
      /\ rec.ioSize = IF r.ret >= 0 THEN r.ret ELSE 0
  OBVIOUS
<1> HIDE DEF rec
<1>7. /\ Apart(S, px', o) /\ px'.tok[Rt(o)] = rec /\ px'.tok[Wt(o)] = S.tok[Wt(o)]
  <2>1. Rt(o) \in Token /\ Wt(o) \in Token /\ Rt(o) # Wt(o) /\ Owner(Rt(o)) = o
    BY <1>1, TokenPair, Owners
  <2>2. S \in Library /\ Apart(S, px', Owner(Rt(o))) /\ px'.tok[Rt(o)] = rec
    BY <1>5, <2>1, PutsApart DEF CalledBack
  <2>3. px'.tok[Wt(o)] = S.tok[Wt(o)]
    BY <1>5, <2>1, <2>2 DEF Puts, Library
  <2> QED
    BY <2>1, <2>2, <2>3
<1>8. Apart(px, px', o)
  BY <1>7 DEF Apart, CalledBack
<1>9. HasRead(o, c)
  <2> PICK res : res = r
    OBVIOUS
  <2>1. ReadsOn(o, c, BufSize, res)
    BY <1>2, <1>4, <1>6, <1>7 DEF ReadsOn
  <2> QED
    BY <1>1, <2>1, ReadStream DEF RunInv
<1>10. Elsewhere(o, c)
  BY <1>2, <1>8, <1>9 DEF Elsewhere, HasRead
<1>11. ConnInv(c)'
  <2>1. /\ taken[c] \in Nat /\ taken'[c] \in Nat /\ Len(out[c]) \in Nat
    BY <1>1 DEF RunInv, CallInv, KernelTypeOK
  <2> QED
    BY <1>1, <1>2, <1>9, <2>1 DEF ConnInv, HasRead
<1>12. ClientInv(o)'
  <2>1. WriteInv(o, c)'
    BY <1>7 DEF WriteInv
  <2>2. soc'[o] = c /\ c # Null /\ watch'[c] = o
    BY <1>1, <1>2
  <2> QED
    BY <1>9, <2>1, <2>2 DEF ClientInv, HasRead
<1>13. BacklogInv'
  BY <1>2, BacklogSame DEF StreamInv, RunInv
<1>14. StreamInv'
  BY <1>1, <1>2, <1>5, <1>10, <1>11, <1>12, <1>13, ClientStep
<1> QED
  BY <1>2, <1>7, <1>9, <1>10, <1>14, Unseen DEF HasRead

\* recvBuf holds the n bytes that follow what has been echoed, and nothing else
\* has been read.
ToEcho(o, c, n) ==
  /\ Len(out[c]) + n = taken[c]
  /\ \A i \in 1..n : recvBuf[o][i] = Len(out[c]) + i

\* EchoClient::onRead with these bytes: they are written.
LEMMA WriteBackBytes ==
  ASSUME RunInv, RunInv', NEW S, NEW o, CalledBack(S, o),
         NEW n \in Nat \ {0}, n <= BufSize, WriteBack(S, o, n),
         \A p \in Obj \ {o} : recvBuf'[p] = recvBuf[p],
         S.tok[Rt(o)].mode = "N", S.tok[Wt(o)].mode = "N",
         NEW c \in Conn, c = soc[o], ConnInv(c), ToEcho(o, c, n)
  PROVE  /\ Elsewhere(o, c) /\ Wrote(o, c) /\ ConnInv(c)' /\ Timed(px', now)
         /\ px'.tok[Rt(o)].mode = "N" /\ px'.tok[Wt(o)].bufSize = n
         /\ UNCHANGED <<link, backlog, watch, soc, live, sent, taken, fin, rst>>
<1> DEFINE r == WriteResult(c, n)
           copy == [i \in 1..BufSize |-> IF i <= n THEN recvBuf[o][i] ELSE sendBuf[o][i]]
<1>1. o \in Obj
  BY DEF CalledBack, RunInv, CallInv, EchoTypeOK
<1>2. /\ px' = WriteAll(S, o, n, r, now)
      /\ sendBuf' = [sendBuf EXCEPT ![o] = copy]
      /\ out' = AfterWrite(c, r, copy, 0)
      /\ UNCHANGED <<link, sent, taken, got, fin, rst, backlog, watch, ready,
                     soc, deleted, live>>
  BY DEF WriteBack
<1>3. r.ret \in Int /\ r.err \in Errno
  BY <1>1, WriteResultOK DEF RunInv, CallInv, IsResult
<1>4. r = WriteResult(c, n)
  OBVIOUS
<1>5. copy \in Buffer
  BY <1>1 DEF RunInv, CallInv, EchoTypeOK, Buffer
<1>6. \A i \in 1..(0 + n) : copy[i] = Len(out[c]) - 0 + i
  <2>1. Len(out[c]) \in Nat
    BY <1>1 DEF RunInv, CallInv, KernelTypeOK
  <2>2. ASSUME NEW i \in 1..n PROVE copy[i] = Len(out[c]) + i
    BY <2>2 DEF ToEcho
  <2> HIDE DEF copy
  <2> QED
    BY <2>1, <2>2
<1> HIDE DEF r, copy
<1> DEFINE rec == [mode |-> IF r.ret <= 0
                            THEN IF r.err = "EAGAIN" THEN "A" ELSE "E"
                            ELSE IF r.ret < n THEN "A" ELSE "D",
                   bufSize |-> n,
                   ioSize |-> IF r.ret <= 0 THEN 0 ELSE r.ret,
                   err |-> r.err]
<1>7. Puts(S, px', Wt(o), rec) /\ Timed(px', now)
  BY <1>1, <1>2, <1>3, RunTypes, WriteAllPuts DEF CalledBack
<1>8. /\ rec.mode = IF r.ret <= 0
                    THEN IF r.err = "EAGAIN" THEN "A" ELSE "E"
                    ELSE IF r.ret < n THEN "A" ELSE "D"
      /\ rec.bufSize = 0 + n /\ rec.err = r.err
      /\ rec.ioSize = IF r.ret <= 0
                      THEN IF r.err = "EAGAIN" THEN 0 ELSE 0
                      ELSE 0 + r.ret
  BY <1>3
<1> HIDE DEF rec
<1>9. /\ Apart(S, px', o) /\ px'.tok[Wt(o)] = rec /\ px'.tok[Rt(o)] = S.tok[Rt(o)]
  <2>1. Wt(o) \in Token /\ Rt(o) \in Token /\ Wt(o) # Rt(o) /\ Owner(Wt(o)) = o
    BY <1>1, TokenPair, Owners
  <2>2. S \in Library /\ Apart(S, px', Owner(Wt(o))) /\ px'.tok[Wt(o)] = rec
    BY <1>7, <2>1, PutsApart DEF CalledBack
  <2>3. px'.tok[Rt(o)] = S.tok[Rt(o)]
    BY <1>7, <2>1, <2>2 DEF Puts, Library
  <2> QED
    BY <2>1, <2>2, <2>3
<1>10. Apart(px, px', o)
  BY <1>9 DEF Apart, CalledBack
<1>11. sendBuf'[o] = copy /\ \A p \in Obj \ {o} : sendBuf'[p] = sendBuf[p]
  BY <1>1, <1>2 DEF RunInv, CallInv, EchoTypeOK
<1>12. Wrote(o, c)
  <2> PICK from \in Nat : from = 0
    OBVIOUS
  <2> PICK buf \in Buffer : buf = copy
    BY <1>5
  <2> PICK res : res = r
    OBVIOUS
  <2>1. from + n <= BufSize /\ Len(out[c]) + n = taken[c]
    BY DEF ToEcho
  <2>2. /\ CallInv /\ UNCHANGED <<taken, sent, got, rst>>
        /\ out' = AfterWrite(c, res, buf, from) /\ sendBuf'[o] = buf
        /\ res = WriteResult(c, n)
    BY <1>2, <1>4, <1>11 DEF RunInv
  <2>3. /\ px'.tok[Wt(o)].mode = IF res.ret <= 0
                                 THEN IF res.err = "EAGAIN" THEN "A" ELSE "E"
                                 ELSE IF res.ret < n THEN "A" ELSE "D"
        /\ px'.tok[Wt(o)].bufSize = from + n
        /\ px'.tok[Wt(o)].ioSize = IF res.ret <= 0
                                   THEN IF res.err = "EAGAIN" THEN from ELSE 0
                                   ELSE from + res.ret
        /\ px'.tok[Wt(o)].err = res.err
    BY <1>8, <1>9
  <2>4. \A i \in 1..(from + n) : buf[i] = Len(out[c]) - from + i
    <3>1. from + n = n /\ Len(out[c]) - from = Len(out[c])
      BY <1>1
    <3> QED
      BY <1>6, <3>1
  <2>5. WritesOn(o, c, buf, from, n, res)
    BY <2>1, <2>2, <2>3, <2>4 DEF WritesOn
  <2> QED
    BY <1>1, <2>2, <2>5, WriteStream
<1>13. Elsewhere(o, c)
  BY <1>2, <1>10, <1>11, <1>12 DEF Elsewhere, Wrote
<1>14. /\ Len(out[c]) \in Nat /\ Len(out'[c]) \in Nat /\ got[c] \in Nat
       /\ taken[c] \in Nat /\ sent[c] \in Nat
  <2>1. KernelTypeOK /\ KernelTypeOK'
    BY DEF RunInv, CallInv
  <2>2. out[c] \in Seq(Nat) /\ out'[c] \in Seq(Nat)
    BY <1>1, <2>1 DEF KernelTypeOK
  <2>3. got[c] \in Nat /\ taken[c] \in Nat /\ sent[c] \in Nat
    BY <1>1, <2>1 DEF KernelTypeOK
  <2> QED
    BY <2>2, <2>3, LenProperties
<1>15. ConnInv(c)'
  BY <1>1, <1>2, <1>12, <1>14 DEF ConnInv, Wrote
<1>16. px'.tok[Wt(o)].bufSize = n
  BY <1>8, <1>9
<1> QED
  BY <1>2, <1>7, <1>9, <1>12, <1>13, <1>15, <1>16

\* EchoClient::onRead with these bytes
LEMMA ReplyStream ==
  ASSUME RunInv, RunInv', StreamInv, NEW S, NEW o, CalledBack(S, o),
         NEW n \in Nat \ {0}, n <= BufSize, Reply(S, o, n),
         S.tok[Rt(o)].mode = "N", S.tok[Wt(o)].mode = "N",
         NEW c, c = soc[o], c # Null, ToEcho(o, c, n),
         UNCHANGED <<now, scan>>, batch' \subseteq batch
  PROVE  /\ StreamInv' /\ Elsewhere(o, c)
         /\ [Service!Next]_(Service!svars)
         /\ px'.tok[Rt(o)].mode = "N"
         /\ px'.tok[Wt(o)].mode = "A" => ~Writable(c)'
<1>1. /\ o \in Obj /\ c \in Conn /\ watch[c] = o /\ link[c] = "open" /\ ConnInv(c)
  BY LivingClient DEF CalledBack
<1>2. /\ Elsewhere(o, c) /\ Wrote(o, c) /\ ConnInv(c)' /\ Timed(px', now)
      /\ px'.tok[Rt(o)].mode = "N"
      /\ UNCHANGED <<link, backlog, watch, soc, live, sent, taken, fin, rst>>
  BY <1>1, WriteBackBytes DEF Reply
<1>3. ClientInv(o)'
  <2>1. ReadInv(o, c)'
    BY <1>2 DEF ReadInv
  <2>2. soc'[o] = c /\ c # Null /\ watch'[c] = o
    BY <1>1, <1>2
  <2> QED
    BY <1>2, <2>1, <2>2 DEF ClientInv, Wrote
<1>4. BacklogInv'
  BY <1>2, BacklogSame DEF StreamInv, RunInv
<1>5. StreamInv'
  BY <1>1, <1>2, <1>3, <1>4, ClientStep
<1>6. [Service!Next]_(Service!svars)
  <2>1. Len(out'[c]) <= sent[c] /\ out[c] = [i \in 1..Len(out[c]) |-> i]
    <3>1. /\ Len(out'[c]) <= taken[c] /\ taken[c] <= sent[c]
          /\ out[c] = [i \in 1..Len(out[c]) |-> i]
      BY <1>1, <1>2 DEF ConnInv, Wrote
    <3>2. KernelTypeOK /\ KernelTypeOK'
      BY DEF RunInv, CallInv
    <3>3. out'[c] \in Seq(Nat) /\ taken[c] \in Nat /\ sent[c] \in Nat
      BY <1>1, <3>2 DEF KernelTypeOK
    <3>4. Len(out'[c]) \in Nat
      BY <3>3, LenProperties
    <3> QED
      BY <3>1, <3>3, <3>4
  <2> QED
    BY <1>1, <1>2, <2>1, SeenReply DEF RunInv, Wrote
<1> QED
  BY <1>2, <1>5, <1>6 DEF Wrote

-----------------------------------------------------------------------------
(* The steps that call back.                                               *)

\* Client o waits for nothing that is there already.
Quiet(o) ==
  /\ px.tok[Rt(o)].mode = "S" => ~Readable(soc[o])
  /\ px.tok[Wt(o)].mode = "A" => ~Writable(soc[o])

\* Any callback leaves the edges of other connections alone.
LEMMA CallbackReady ==
  ASSUME NEW S, NEW t, NEW err, NEW n, Callback(S, t, err, n)
  PROVE  ready \ {soc[Owner(t)]} \subseteq ready'
<1>1. CASE Delete(S, Owner(t))
  BY <1>1 DEF Delete, Close
<1>2. CASE Reply(S, Owner(t), n)
  BY <1>2 DEF Reply, WriteBack
<1>3. CASE StartRecv(S, Owner(t))
  BY <1>3 DEF StartRecv
<1> QED
  BY <1>1, <1>2, <1>3 DEF Callback

\* One turn of the loop of _processCompletion
LEMMA CompleteStream ==
  ASSUME RunInv, RunInv', StreamInv, Complete,
         NEW t, t = Head(px.queue), NEW o, o = Owner(t), NEW d, d = soc[o]
  PROVE  /\ o \in live /\ StreamInv' /\ Elsewhere(o, d)
         /\ [Service!Next]_(Service!svars)
         /\ o \in live' => Quiet(o)'
<1> DEFINE S == Dequeue(px)
           err == px.tok[t].err
           n == px.tok[t].ioSize
<1>1. /\ t \in Token /\ Queued(px, t) /\ Step(px, S, o) /\ S.tok[t].mode = "N"
      /\ \A x \in Token \ {t} : S.tok[x].mode = px.tok[x].mode
  BY RunTypes, DequeueStep DEF Complete
<1>2. /\ S \in Library /\ Timed(S, now)
      /\ \A x \in Token \ {t} : S.tok[x] = px.tok[x]
  BY RunTypes, DequeueApart DEF Complete, StreamInv, ClockInv
<1>3. Callback(S, t, err, n) /\ UNCHANGED <<batch, scan, now>>
  BY DEF Complete
<1> HIDE DEF S
<1>4. o \in live /\ o \in Obj
  BY <1>1, RunTypes DEF RunInv, MemInv, Owned
<1>5. CalledBack(S, o)
  <2>1. QueueExact(S)
    BY <1>1 DEF Step
  <2>2. Apart(px, S, o)
    BY <1>2 DEF Apart
  <2> QED
    BY <1>2, <1>4, <2>1, <2>2 DEF CalledBack
<1>6. /\ px.tok[t] \in TokenRec /\ n \in Nat /\ n <= BufSize
      /\ px.tok[t].mode \in {"D", "E"}
  <2>1. px.tok[t] \in TokenRec
    BY <1>1, RunTypes DEF Library
  <2>2. n \in Nat /\ px.tok[t].bufSize \in Nat
    BY <2>1 DEF TokenRec
  <2>3. n <= px.tok[t].bufSize /\ px.tok[t].bufSize <= BufSize
    BY <1>1 DEF RunInv, CallInv, Sound
  <2>4. px.tok[t].mode \in {"D", "E"}
    BY <1>1, RunTypes DEF QueueExact
  <2>5. n <= BufSize
    BY <2>2, <2>3
  <2> QED
    BY <2>1, <2>2, <2>4, <2>5
<1>7. t = Rt(o) \/ t = Wt(o)
  BY <1>1, <1>4, Owners
<1>8. Busy(px, o) /\ Rt(o) \in Token /\ Wt(o) \in Token /\ Rt(o) # Wt(o)
  BY <1>4, TokenPair, Owners DEF RunInv, MemInv, Owned
<1>9. S.tok[Rt(o)].mode = "N" /\ S.tok[Wt(o)].mode = "N"
  BY <1>1, <1>6, <1>7, <1>8 DEF Busy
<1>10. /\ ClientInv(o) /\ d \in Conn \cup {Null}
       /\ d # Null => /\ d \in Conn /\ ConnInv(d) /\ ReadInv(o, d) /\ WriteInv(o, d)
  BY <1>4, LivingClient
<1>11. d # Null => taken[d] \in Nat /\ sent[d] \in Nat /\ Len(out[d]) \in Nat
  BY <1>10 DEF RunInv, CallInv, KernelTypeOK
<1>12. batch' \subseteq batch
  BY <1>3
<1>13. CASE err # "OK" \/ n = 0
  <2>1. Delete(S, o)
    BY <1>3, <1>6, <1>13 DEF Callback
  <2>2. ASSUME d # Null PROVE Reason(d)
    <3>1. CASE t = Rt(o)
      <4>1. ReadInv(o, d)
        BY <1>10, <2>2
      <4>2. CASE px.tok[t].mode = "D" /\ err = "OK"
        <5>1. n = 0 /\ d \in fin /\ sent[d] = taken[d] /\ Len(out[d]) + n = taken[d]
          BY <1>13, <3>1, <4>1, <4>2 DEF ReadInv
        <5>2. Len(out[d]) = sent[d]
          BY <1>11, <2>2, <5>1
        <5> QED
          BY <5>1, <5>2 DEF Reason
      <4>3. CASE ~(px.tok[t].mode = "D" /\ err = "OK")
        BY <1>6, <3>1, <4>1, <4>3 DEF ReadInv, Reason
      <4> QED
        BY <4>2, <4>3
    <3>2. CASE t = Wt(o)
      <4>1. WriteInv(o, d)
        BY <1>10, <2>2
      <4>2. d \in rst
        BY <1>6, <1>13, <3>2, <4>1 DEF WriteInv
      <4> QED
        BY <4>2 DEF Reason
    <3> QED
      BY <1>7, <3>1, <3>2
  <2>3. StreamInv' /\ Elsewhere(o, d) /\ [Service!Next]_(Service!svars)
    BY <1>3, <1>5, <1>12, <2>1, <2>2, DeleteStream
  <2>4. o \notin live'
    BY <2>1 DEF Delete
  <2> QED
    BY <1>4, <2>3, <2>4
<1>14. CASE ~(err # "OK" \/ n = 0) /\ t = Rt(o)
  <2>1. Reply(S, o, n) /\ n \in Nat \ {0}
    BY <1>3, <1>6, <1>14 DEF Callback
  <2>2. d # Null
    BY <1>10, <1>14 DEF ClientInv
  <2>3. ToEcho(o, d, n)
    <3>1. ReadInv(o, d)
      BY <1>10, <2>2
    <3> QED
      BY <1>6, <1>14, <3>1 DEF ReadInv, ToEcho
  <2> HIDE DEF n
  <2> PICK m \in Nat \ {0} : m = n
    BY <2>1
  <2>4. m <= BufSize /\ Reply(S, o, m) /\ ToEcho(o, d, m)
    BY <1>6, <2>1, <2>3
  <2>5. /\ StreamInv' /\ Elsewhere(o, d) /\ [Service!Next]_(Service!svars)
        /\ px'.tok[Rt(o)].mode = "N"
        /\ px'.tok[Wt(o)].mode = "A" => ~Writable(d)'
    BY <1>3, <1>5, <1>9, <1>12, <2>2, <2>4, ReplyStream
  <2>6. soc'[o] = d
    BY <2>1 DEF Reply, WriteBack
  <2>7. Quiet(o)'
    BY <2>5, <2>6 DEF Quiet, Writable, TxFree
  <2> QED
    BY <1>4, <2>5, <2>7
<1>15. CASE ~(err # "OK" \/ n = 0) /\ t = Wt(o)
  <2>1. StartRecv(S, o)
    BY <1>3, <1>6, <1>8, <1>15 DEF Callback
  <2>2. d # Null
    <3>1. px.tok[Rt(o)].mode = "N"
      BY <1>6, <1>8, <1>15 DEF Busy
    <3> QED
      BY <1>10, <3>1 DEF ClientInv
  <2>3. Len(out[d]) = taken[d]
    <3>1. WriteInv(o, d)
      BY <1>10, <2>2
    <3> QED
      BY <1>6, <1>15, <3>1 DEF WriteInv
  <2>4. /\ StreamInv' /\ Elsewhere(o, d) /\ UNCHANGED Service!svars
        /\ px'.tok[Wt(o)].mode = "N"
        /\ px'.tok[Rt(o)].mode = "S" => ~Readable(d)'
    BY <1>3, <1>5, <1>9, <1>12, <2>1, <2>2, <2>3, StartRecvStream
  <2>5. soc'[o] = d
    BY <2>1 DEF StartRecv
  <2>6. Quiet(o)'
    BY <2>4, <2>5 DEF Quiet, Readable, Unread
  <2> QED
    BY <1>4, <2>4, <2>6
<1> QED
  BY <1>7, <1>13, <1>14, <1>15

\* EPOLLERR or EPOLLHUP: the client is deleted, with epoll because of a reset.
LEMMA ClosedEventStream ==
  ASSUME RunInv, RunInv', StreamInv, NEW e, ClosedEvent(e),
         NEW o, o = e.h, NEW d, d = soc[o]
  PROVE  /\ o \in live /\ StreamInv' /\ Elsewhere(o, d) /\ o \notin live'
         /\ Backend = "epoll" => [Service!Next]_(Service!svars)
         /\ ready \ {d} \subseteq ready'
<1> DEFINE Z == Closed(px, o)
<1>1. /\ e \in batch /\ batch' = batch \ {e} /\ o # Listener /\ "HUP" \in e.ev
      /\ UNCHANGED <<scan, now>>
  BY DEF ClosedEvent, Take
<1>2. o \in Obj /\ o \in live
  BY <1>1, TakeMem, RunTypes DEF EventRec, Handler
<1>3. Step(px, Z, o)
  BY <1>2, RunTypes, ClosedStep
<1>4. Z \in Library /\ Timed(Z, now) /\ Apart(px, Z, o)
  BY <1>2, RunTypes, ClosedApart DEF StreamInv, ClockInv
<1>5. ClosedCallback(px, o) # {}
  BY <1>2 DEF ClosedCallback, RunInv, MemInv, Owned, Busy
<1>6. PICK t \in ClosedCallback(px, o) : Callback(Z, t, "ECONNRESET", 0)
  BY <1>5 DEF ClosedEvent
<1>7. Owner(t) = o
  BY <1>2, Owners DEF ClosedCallback
<1>8. Delete(Z, o) /\ ready \ {d} \subseteq ready'
  BY <1>6, <1>7, CallbackReady DEF Callback
<1>9. CalledBack(Z, o)
  BY <1>2, <1>3, <1>4 DEF CalledBack, Step
<1>10. Backend = "epoll" => Reason(d)
  BY <1>1 DEF StreamInv, HupInv, Reason
<1> HIDE DEF Z
<1>11. batch' \subseteq batch /\ o \notin live'
  BY <1>1, <1>8 DEF Delete
<1> QED
  BY <1>1, <1>2, <1>8, <1>9, <1>10, <1>11, DeleteStream

\* One turn of the loop of _processTimer: the client is deleted, TIMEOUT_MS after
\* the timer of its pending operation was set.
LEMMA ExpireStream ==
  ASSUME RunInv, RunInv', StreamInv, ExpireTimer
  PROVE  \E t \in Token :
           /\ t \in px.timers /\ px.tv[t] < now /\ Pending(px, t)
           /\ Owner(t) \in live /\ live' = live \ {Owner(t)}
           /\ StreamInv' /\ Elsewhere(Owner(t), soc[Owner(t)])
           /\ [Service!Next]_(Service!svars)
           /\ ready \ {soc[Owner(t)]} \subseteq ready'
<1> PICK t \in Expired(px, scan) : Callback(Expire(px, t), t, "ETIMEDOUT", 0)
  BY DEF ExpireTimer
<1> DEFINE S == Expire(px, t)
<1>1. /\ UNCHANGED <<batch, scan, now>> /\ pc = "timers" /\ px.queue = <<>>
  BY DEF ExpireTimer, RunInv, Drained
<1>2. t \in Token /\ t \in px.timers /\ px.tv[t] < scan
  BY RunTypes DEF Expired, Library
<1> PICK o \in Obj : o = Owner(t)
  BY <1>2 DEF Token, Owner
<1> PICK d : d = soc[o]
  OBVIOUS
<1>3. o \in live
  BY <1>2 DEF RunInv, MemInv, Owned
<1>4. Step(px, S, o)
  BY <1>1, <1>2, RunTypes, ExpireStep
<1>5. S \in Library /\ Timed(S, now) /\ Apart(px, S, o)
  BY <1>2, RunTypes, ExpireApart DEF StreamInv, ClockInv
<1>6. CalledBack(S, o)
  BY <1>3, <1>4, <1>5 DEF CalledBack, Step
<1>7. Delete(S, o) /\ ready \ {d} \subseteq ready'
  BY CallbackReady DEF Callback
<1> HIDE DEF S
<1>8. /\ Timeout # 0 /\ px.tok[t].mode # "N" /\ Timeout <= px.tv[t]
      /\ scan <= now /\ now <= MaxTime
  BY <1>2 DEF StreamInv, ClockInv, Timed
<1>9. px.tv[t] \in Nat /\ scan \in Nat /\ now \in Nat
  BY <1>2, RunTypes DEF Library, RunInv, LoopTyped
<1>10. px.tv[t] < now /\ MaxTime > Timeout
  BY <1>2, <1>8, <1>9
<1>11. Pending(px, t)
  <2>1. ~Queued(px, t)
    BY <1>1 DEF Queued
  <2>2. px.tok[t].mode \in Mode /\ px.tok[t].mode \notin {"D", "E"}
    BY <1>2, <2>1, RunTypes DEF QueueExact, Library, TokenRec
  <2> QED
    BY <1>8, <2>2 DEF Mode, Pending
<1>12. Reason(d)
  BY <1>8, <1>10 DEF Reason
<1>13. batch' \subseteq batch /\ live' = live \ {o}
  BY <1>1, <1>7 DEF Delete
<1>14. StreamInv' /\ Elsewhere(o, d) /\ [Service!Next]_(Service!svars)
  BY <1>1, <1>6, <1>7, <1>12, <1>13, DeleteStream
<1>15. Elsewhere(Owner(t), soc[Owner(t)])
  BY <1>14, Zenon
<1> QED
  BY <1>2, <1>3, <1>7, <1>10, <1>11, <1>13, <1>14, <1>15

-----------------------------------------------------------------------------
(* The other handlers.                                                     *)

\* A step that moves no byte, token, client or connection
LEMMA SameStream ==
  ASSUME StreamInv, HupInv', scan' <= now,
         UNCHANGED <<link, sent, taken, out, got, fin, rst, backlog, watch,
                     px, soc, now, live, recvBuf, sendBuf>>
  PROVE  StreamInv' /\ UNCHANGED Service!svars
<1>1. \A c \in Conn : ConnInv(c)'
  BY DEF StreamInv, ConnInv
<1>2. ASSUME NEW o \in live PROVE ClientInv(o)'
  <2>1. ClientInv(o)
    BY <1>2 DEF StreamInv
  <2>2. ReadInv(o, soc[o]) => ReadInv(o, soc[o])'
    BY DEF ReadInv
  <2>3. WriteInv(o, soc[o]) => WriteInv(o, soc[o])'
    BY DEF WriteInv
  <2> QED
    BY <2>1, <2>2, <2>3 DEF ClientInv
<1>3. BacklogInv' /\ ClockInv'
  BY DEF StreamInv, BacklogInv, ClockInv
<1>4. UNCHANGED Service!svars
  BY Unseen
<1> QED
  BY <1>1, <1>2, <1>3, <1>4 DEF StreamInv

\* Hang-ups that stay in run()'s array
LEMMA SameHup ==
  ASSUME HupInv, batch' \subseteq batch, UNCHANGED <<soc, rst>>
  PROVE  HupInv'
BY DEF HupInv

\* EPOLLIN on a socket
LEMMA ReadEventStream ==
  ASSUME RunInv, RunInv', StreamInv, NEW e, ReadEvent(e),
         NEW o, o = e.h, NEW c, c = soc[o]
  PROVE  /\ o \in live /\ StreamInv' /\ Elsewhere(o, c) /\ UNCHANGED Service!svars
         /\ px.tok[Rt(o)].mode = "S" => Quiet(o)'
         /\ px.tok[Rt(o)].mode # "S" => UNCHANGED <<px, taken>>
<1>1. /\ e \in batch /\ batch' = batch \ {e} /\ o # Listener
      /\ UNCHANGED <<link, sent, out, got, fin, rst, backlog, watch, ready,
                     soc, scan, now, live, sendBuf>>
  BY DEF ReadEvent, Take
<1>2. o \in live /\ o \in Obj
  BY <1>1, TakeMem, RunTypes DEF EventRec, Handler
<1>3. batch' \subseteq batch /\ HupInv' /\ scan' <= now
  BY <1>1, SameHup DEF StreamInv, ClockInv
<1>4. CASE px.tok[Rt(o)].mode # "S"
  <2>1. UNCHANGED <<px, taken, recvBuf>>
    BY <1>4 DEF ReadEvent
  <2>2. Elsewhere(o, c)
    BY <1>1, <2>1 DEF Elsewhere, Apart
  <2> QED
    BY <1>1, <1>2, <1>3, <1>4, <2>1, <2>2, SameStream
<1>5. CASE px.tok[Rt(o)].mode = "S"
  <2>1. /\ c # Null /\ c \in Conn /\ watch[c] = o /\ link[c] = "open"
        /\ ConnInv(c) /\ ReadInv(o, c)
    BY <1>2, <1>5, LivingClient DEF ClientInv
  <2>2. /\ Rt(o) \in Token /\ Wt(o) \in Token /\ Wt(o) # Rt(o) /\ Owner(Rt(o)) = o
    BY <1>2, TokenPair, Owners
  <2>3. px.tok[Rt(o)].bufSize \in Nat \ {0} /\ px.tok[Rt(o)].bufSize <= BufSize
    <3>1. px.tok[Rt(o)] \in TokenRec
      BY <2>2, RunTypes DEF Library
    <3>2. px.tok[Rt(o)].bufSize \in Nat
      BY <3>1 DEF TokenRec
    <3>3. px.tok[Rt(o)].bufSize <= BufSize
      BY <2>2 DEF RunInv, CallInv, Sound
    <3>4. px.tok[Rt(o)].bufSize > 0
      BY <1>5, <2>1 DEF ReadInv
    <3> QED
      BY <3>2, <3>3, <3>4
  <2> PICK size \in Nat \ {0} : size = px.tok[Rt(o)].bufSize
    BY <2>3
  <2> PICK r : r = ReadResult(c, size)
    OBVIOUS
  <2>4. r.ret \in Int /\ r.err \in Errno
    BY <2>1, ReadResultOK DEF RunInv, CallInv, IsResult
  <2>5. /\ px' = OnReadSome(px, o, r) /\ taken' = AfterRead(c, r)
        /\ recvBuf' = Received(o, c, r)
    BY <1>5 DEF ReadEvent
  <2> DEFINE R == px.tok[Rt(o)]
             rec == [mode |-> IF r.ret >= 0 THEN "D"
                              ELSE IF r.err = "EAGAIN" THEN "S" ELSE "E",
                     bufSize |-> R.bufSize,
                     ioSize |-> IF r.ret >= 0 THEN r.ret
                                ELSE IF r.err = "EAGAIN" THEN R.ioSize ELSE 0,
                     err |-> r.err]
  <2>6. Puts(px, px', Rt(o), rec) /\ Timed(px', now)
    BY <1>2, <1>5, <2>4, <2>5, RunTypes, OnReadSomePuts DEF StreamInv, ClockInv
  <2>7. /\ rec.mode = IF r.ret >= 0 THEN "D" ELSE IF r.err = "EAGAIN" THEN "S" ELSE "E"
        /\ rec.bufSize = size /\ rec.err = r.err
        /\ r.ret >= 0 => rec.ioSize = r.ret
        /\ ~(r.ret >= 0) /\ r.err # "EAGAIN" => rec.ioSize = 0
    OBVIOUS
  <2> HIDE DEF rec
  <2>8. Apart(px, px', o) /\ px'.tok[Rt(o)] = rec /\ px'.tok[Wt(o)] = px.tok[Wt(o)]
    <3>1. Apart(px, px', Owner(Rt(o))) /\ px'.tok[Rt(o)] = rec
      BY <2>2, <2>6, RunTypes, PutsApart
    <3>2. px'.tok[Wt(o)] = px.tok[Wt(o)]
      BY <2>2, <2>6, RunTypes DEF Puts, Library
    <3> QED
      BY <2>2, <3>1, <3>2
  <2>9. Len(out[c]) = taken[c]
    <3>1. ReadInv(o, c)
      BY <2>1
    <3> QED
      BY <1>5, <3>1 DEF ReadInv
  <2>10. HasRead(o, c)
    <3>1. ReadsOn(o, c, size, r)
      <4>1. /\ Len(out[c]) = taken[c] /\ size <= BufSize
            /\ r = ReadResult(c, size) /\ taken' = AfterRead(c, r)
            /\ recvBuf' = Received(o, c, r) /\ UNCHANGED <<out, sent, fin, rst>>
        BY <1>1, <2>3, <2>5, <2>9
      <4>2. /\ px'.tok[Rt(o)].mode = IF r.ret >= 0 THEN "D"
                                     ELSE IF r.err = "EAGAIN" THEN "S" ELSE "E"
            /\ r.ret >= 0 => px'.tok[Rt(o)].ioSize = r.ret
            /\ ~(r.ret >= 0) /\ r.err # "EAGAIN" => px'.tok[Rt(o)].ioSize = 0
            /\ px'.tok[Rt(o)].err = r.err /\ px'.tok[Rt(o)].bufSize > 0
        BY <2>7, <2>8
      <4> QED
        BY <4>1, <4>2 DEF ReadsOn
    <3> QED
      BY <1>2, <2>1, <3>1, ReadStream DEF RunInv
  <2>11. Elsewhere(o, c)
    BY <1>1, <2>8, <2>10 DEF Elsewhere, HasRead
  <2>12. ConnInv(c)'
    <3>1. taken[c] \in Nat /\ taken'[c] \in Nat /\ Len(out[c]) \in Nat
      BY <2>1 DEF RunInv, CallInv, KernelTypeOK
    <3> QED
      BY <1>1, <2>1, <2>10, <3>1 DEF ConnInv, HasRead
  <2>13. px'.tok[Wt(o)].mode = "N"
    BY <1>2, <1>5, <2>8 DEF RunInv, MemInv, Owned, Busy
  <2>14. soc'[o] = c /\ watch'[c] = o
    BY <1>1, <2>1
  <2>15. ClientInv(o)'
    <3>1. WriteInv(o, c)'
      BY <2>13 DEF WriteInv
    <3> QED
      BY <2>1, <2>10, <2>14, <3>1 DEF ClientInv, HasRead
  <2>16. BacklogInv'
    BY <1>1, BacklogSame DEF StreamInv, RunInv
  <2>17. StreamInv'
    BY <1>1, <1>2, <1>3, <2>1, <2>6, <2>11, <2>12, <2>14, <2>15, <2>16, ClientStep
  <2>18. Quiet(o)'
    BY <2>10, <2>13, <2>14 DEF Quiet, Readable, Unread, HasRead
  <2> QED
    BY <1>1, <1>2, <1>5, <2>11, <2>17, <2>18, Unseen
<1> QED
  BY <1>4, <1>5

\* Of b bytes i are written, l in all, and t are to be: b - i are left.
LEMMA LeftToWrite ==
  ASSUME NEW l \in Nat, NEW i \in Nat, NEW b \in Nat, NEW t \in Nat, l - i + b = t
  PROVE  l + (b - i) = t
OBVIOUS

\* EPOLLOUT on the socket of a client that writes: the next bytes are written.
LEMMA WriteEventBytes ==
  ASSUME RunInv, RunInv', Timed(px, now), NEW e, WriteEvent(e),
         NEW o \in live, o = e.h, o \in Obj, px.tok[Wt(o)].mode = "A",
         NEW c \in Conn, c = soc[o], ConnInv(c), WriteInv(o, c)
  PROVE  /\ Elsewhere(o, c) /\ Wrote(o, c) /\ ConnInv(c)' /\ Timed(px', now)
         /\ px'.tok[Rt(o)] = px.tok[Rt(o)]
         /\ px'.tok[Wt(o)].bufSize = px.tok[Wt(o)].bufSize
<1>1. UNCHANGED <<link, sent, taken, got, fin, rst, backlog, watch, ready,
                  soc, scan, now, live, recvBuf, sendBuf>>
  BY DEF WriteEvent, evars
<1>2. /\ Rt(o) \in Token /\ Wt(o) \in Token /\ Wt(o) # Rt(o) /\ Owner(Wt(o)) = o
  BY TokenPair, Owners
<1> DEFINE W == px.tok[Wt(o)]
<1>3. /\ W \in TokenRec /\ W.bufSize \in Nat /\ W.ioSize \in Nat
      /\ W.bufSize <= BufSize /\ W.ioSize < W.bufSize
  BY <1>2, RunTypes DEF WriteInv, Library, TokenRec, RunInv, CallInv, Sound
<1> PICK from \in Nat : from = W.ioSize
  BY <1>3
<1> PICK size \in Nat \ {0} : size = W.bufSize - W.ioSize
  BY <1>3
<1> PICK r : r = WriteResult(c, size)
  OBVIOUS
<1> PICK buf \in Buffer : buf = sendBuf[o]
  BY DEF RunInv, CallInv, EchoTypeOK
<1>4. r.ret \in Int /\ r.err \in Errno
  BY WriteResultOK DEF RunInv, CallInv, IsResult
<1>5. /\ px' = OnWriteAll(px, o, r) /\ out' = AfterWrite(c, r, buf, from)
  BY DEF WriteEvent
<1> DEFINE n == W.ioSize + r.ret
           rec == [mode |-> IF r.ret <= 0
                            THEN IF r.err = "EAGAIN" THEN "A" ELSE "E"
                            ELSE IF n < W.bufSize THEN "A" ELSE "D",
                   bufSize |-> W.bufSize,
                   ioSize |-> IF r.ret <= 0
                              THEN IF r.err = "EAGAIN" THEN W.ioSize ELSE 0
                              ELSE n,
                   err |-> r.err]
<1>6. Puts(px, px', Wt(o), rec) /\ Timed(px', now)
  BY <1>4, <1>5, RunTypes, OnWriteAllPuts
<1>7. from + size = W.bufSize /\ (n < W.bufSize <=> r.ret < size)
  BY <1>3, <1>4
<1>8. /\ rec.mode = IF r.ret <= 0
                    THEN IF r.err = "EAGAIN" THEN "A" ELSE "E"
                    ELSE IF r.ret < size THEN "A" ELSE "D"
      /\ rec.bufSize = from + size /\ rec.err = r.err
      /\ rec.ioSize = IF r.ret <= 0
                      THEN IF r.err = "EAGAIN" THEN from ELSE 0
                      ELSE from + r.ret
  BY <1>7
<1> rec.bufSize = W.bufSize
  OBVIOUS
<1> HIDE DEF rec
<1>9. Apart(px, px', o) /\ px'.tok[Wt(o)] = rec /\ px'.tok[Rt(o)] = px.tok[Rt(o)]
  <2>1. Apart(px, px', Owner(Wt(o))) /\ px'.tok[Wt(o)] = rec
    BY <1>2, <1>6, RunTypes, PutsApart
  <2>2. px'.tok[Rt(o)] = px.tok[Rt(o)]
    BY <1>2, <1>6, RunTypes DEF Puts, Library
  <2> QED
    BY <1>2, <2>1, <2>2
<1>10. Wrote(o, c)
  <2>1. Len(out[c]) \in Nat /\ taken[c] \in Nat
    BY DEF RunInv, CallInv, KernelTypeOK
  <2>2. /\ Len(out[c]) - W.ioSize + W.bufSize = taken[c]
        /\ \A i \in 1..W.bufSize : sendBuf[o][i] = Len(out[c]) - W.ioSize + i
    BY DEF WriteInv
  <2>3. from + size <= BufSize /\ Len(out[c]) + size = taken[c]
    <3>1. from + size = W.bufSize /\ size = W.bufSize - W.ioSize
      BY <1>7
    <3>2. W.ioSize \in Nat /\ W.bufSize \in Nat /\ W.bufSize <= BufSize
      BY <1>3
    <3>3. Len(out[c]) - W.ioSize + W.bufSize = taken[c]
      BY <2>2
    <3> HIDE DEF W
    <3>4. from + size <= BufSize
      BY <3>1, <3>2
    <3>5. Len(out[c]) + size = taken[c]
      <4> PICK i \in Nat, b \in Nat : i = W.ioSize /\ b = W.bufSize
        BY <3>2
      <4> PICK l \in Nat, t \in Nat : l = Len(out[c]) /\ t = taken[c]
        BY <2>1
      <4>1. l - i + b = t
        BY <3>3, Zenon
      <4>2. size = b - i
        BY <3>1, Zenon
      <4>3. l + (b - i) = t
        BY <4>1, LeftToWrite, SMTT(30)
      <4> QED
        BY <4>2, <4>3, Zenon
    <3> QED
      BY <3>4, <3>5
  <2>4. \A i \in 1..(from + size) : buf[i] = Len(out[c]) - from + i
    <3>1. from + size = W.bufSize /\ from = W.ioSize
      BY <1>7
    <3> QED
      BY <1>7, <2>2, <3>1
  <2>5. sendBuf'[o] = buf /\ UNCHANGED <<taken, sent, got, rst>> /\ CallInv
    BY <1>1 DEF RunInv
  <2>6. WritesOn(o, c, buf, from, size, r)
    BY <1>5, <1>8, <1>9, <2>3, <2>4, <2>5 DEF WritesOn
  <2> QED
    BY <2>5, <2>6, WriteStream
<1>11. Elsewhere(o, c)
  BY <1>1, <1>9, <1>10 DEF Elsewhere, Wrote
<1>12. /\ Len(out[c]) \in Nat /\ Len(out'[c]) \in Nat /\ got[c] \in Nat
       /\ taken[c] \in Nat /\ sent[c] \in Nat
  <2>1. KernelTypeOK /\ KernelTypeOK'
    BY DEF RunInv, CallInv
  <2>2. out[c] \in Seq(Nat) /\ out'[c] \in Seq(Nat)
    BY <2>1 DEF KernelTypeOK
  <2>3. got[c] \in Nat /\ taken[c] \in Nat /\ sent[c] \in Nat
    BY <2>1 DEF KernelTypeOK
  <2> QED
    BY <2>2, <2>3, LenProperties
<1>13. ConnInv(c)'
  <2> UNCHANGED <<taken, sent, got, link, watch>>
    BY <1>1
  <2>1. /\ out'[c] = [i \in 1..Len(out'[c]) |-> i]
        /\ Len(out[c]) <= Len(out'[c]) /\ Len(out'[c]) <= taken[c]
        /\ Len(out'[c]) - got[c] <= TxCap
    BY <1>10 DEF Wrote
  <2>2. /\ taken[c] <= sent[c] /\ got[c] <= Len(out[c])
        /\ link[c] \in {"idle", "backlog"} => taken[c] = 0
        /\ watch[c] # Null <=> link[c] = "open"
    BY DEF ConnInv
  <2>3. got[c] <= Len(out'[c])
    BY <1>12, <2>1, <2>2
  <2> QED
    BY <2>1, <2>2, <2>3 DEF ConnInv
<1>14. px'.tok[Wt(o)].bufSize = W.bufSize
  BY <1>9
<1> QED
  BY <1>6, <1>9, <1>10, <1>11, <1>13, <1>14

\* EPOLLOUT on a socket
LEMMA WriteEventStream ==
  ASSUME RunInv, RunInv', StreamInv, NEW e \in batch \cup {cur}, WriteEvent(e),
         NEW o, o = e.h, NEW c, c = soc[o]
  PROVE  /\ o \in live /\ StreamInv' /\ Elsewhere(o, c)
         /\ [Service!Next]_(Service!svars)
         /\ px.tok[Wt(o)].mode = "A" => Quiet(o)'
         /\ px.tok[Wt(o)].mode # "A" => UNCHANGED <<px, out>>
<1>1. /\ o # Listener
      /\ UNCHANGED <<link, sent, taken, got, fin, rst, backlog, watch, ready,
                     soc, scan, now, live, recvBuf, sendBuf>>
      /\ \/ e \in batch /\ batch' = batch \ {e}
         \/ pc = "afterRead" /\ e = cur /\ o \notin deleted /\ batch' = batch
  BY DEF WriteEvent, WriteTurn, Take, evars
<1>2. o \in live /\ o \in Obj
  <2>1. CASE e \in batch /\ batch' = batch \ {e}
    BY <1>1, <2>1, TakeMem, RunTypes
  <2>2. CASE pc = "afterRead" /\ e = cur /\ o \notin deleted /\ batch' = batch
    BY <1>1, <2>2, RunTypes DEF RunInv, MemInv, BatchInv
  <2> QED
    BY <1>1, <2>1, <2>2
<1>3. batch' \subseteq batch /\ HupInv' /\ scan' <= now
  BY <1>1, SameHup DEF StreamInv, ClockInv
<1>4. CASE px.tok[Wt(o)].mode # "A"
  <2>1. UNCHANGED <<px, out>>
    BY <1>4 DEF WriteEvent
  <2>2. Elsewhere(o, c)
    BY <1>1, <2>1 DEF Elsewhere, Apart
  <2> QED
    BY <1>1, <1>2, <1>3, <1>4, <2>1, <2>2, SameStream
<1>5. CASE px.tok[Wt(o)].mode = "A"
  <2>1. px.tok[Rt(o)].mode = "N"
    BY <1>2, <1>5 DEF RunInv, MemInv, Owned, Busy
  <2>2. /\ c # Null /\ c \in Conn /\ watch[c] = o /\ link[c] = "open"
        /\ ConnInv(c) /\ WriteInv(o, c)
    BY <1>2, <2>1, LivingClient DEF ClientInv
  <2>3. /\ Elsewhere(o, c) /\ Wrote(o, c) /\ ConnInv(c)' /\ Timed(px', now)
        /\ px'.tok[Rt(o)] = px.tok[Rt(o)]
    BY <1>2, <1>5, <2>2, WriteEventBytes DEF StreamInv, ClockInv
  <2>4. soc'[o] = c /\ watch'[c] = o /\ px'.tok[Rt(o)].mode = "N"
    BY <1>1, <2>1, <2>2, <2>3
  <2>5. ClientInv(o)'
    <3>1. ReadInv(o, c)'
      BY <2>4 DEF ReadInv
    <3> QED
      BY <2>2, <2>3, <2>4, <3>1 DEF ClientInv, Wrote
  <2>6. BacklogInv'
    BY <1>1, BacklogSame DEF StreamInv, RunInv
  <2>7. StreamInv'
    BY <1>1, <1>2, <1>3, <2>2, <2>3, <2>4, <2>5, <2>6, ClientStep
  <2>8. [Service!Next]_(Service!svars)
    <3>1. Len(out'[c]) <= sent[c] /\ out[c] = [i \in 1..Len(out[c]) |-> i]
      <4>1. /\ Len(out'[c]) <= taken[c] /\ taken[c] <= sent[c]
            /\ out[c] = [i \in 1..Len(out[c]) |-> i]
        BY <2>2, <2>3 DEF ConnInv, Wrote
      <4>2. KernelTypeOK /\ KernelTypeOK'
        BY DEF RunInv, CallInv
      <4>3. out'[c] \in Seq(Nat) /\ taken[c] \in Nat /\ sent[c] \in Nat
        BY <2>2, <4>2 DEF KernelTypeOK
      <4>4. Len(out'[c]) \in Nat
        BY <4>3, LenProperties
      <4> QED
        BY <4>1, <4>3, <4>4
    <3> QED
      BY <1>1, <2>2, <2>3, <3>1, SeenReply DEF RunInv, Wrote
  <2>9. Quiet(o)'
    BY <2>3, <2>4 DEF Quiet, Writable, TxFree, Wrote
  <2> QED
    BY <1>2, <1>5, <2>3, <2>7, <2>8, <2>9
<1> QED
  BY <1>4, <1>5

\* Taking the first connection out of the backlog
LEMMA BacklogTail ==
  ASSUME CallInv, BacklogInv, backlog # <<>>, backlog' = Tail(backlog),
         NEW to, link' = [link EXCEPT ![Head(backlog)] = to]
  PROVE  BacklogInv' /\ Head(backlog) \in Conn /\ link[Head(backlog)] = "backlog"
<1>1. /\ backlog \in Seq(Conn) /\ Len(backlog) \in Nat \ {0}
      /\ link \in [Conn -> {"idle", "backlog", "open", "blocking", "closed"}]
      /\ Head(backlog) = backlog[1] /\ backlog[1] \in Conn
  <2>1. link \in [Conn -> {"idle", "backlog", "open", "blocking", "closed"}] /\ backlog \in Seq(Conn)
    BY DEF CallInv, KernelTypeOK
  <2>2. Len(backlog) \in Nat \ {0}
    BY <2>1
  <2> QED
    BY <2>1, <2>2
<1>2. /\ Len(backlog') = Len(backlog) - 1
      /\ \A i \in 1..Len(backlog') : /\ i + 1 \in 1..Len(backlog)
                                     /\ backlog'[i] = backlog[i + 1]
  BY <1>1
<1>3. ASSUME NEW i \in 1..Len(backlog'), NEW j \in 1..Len(backlog'),
             backlog'[i] = backlog'[j]
      PROVE  i = j
  <2>1. i + 1 = j + 1
    BY <1>2, <1>3 DEF BacklogInv
  <2> QED
    BY <1>1, <1>2, <2>1
<1>4. ASSUME NEW i \in 1..Len(backlog') PROVE link'[backlog'[i]] = "backlog"
  <2>1. i + 1 \in 1..Len(backlog) /\ backlog'[i] = backlog[i + 1] /\ i + 1 # 1
    BY <1>1, <1>2
  <2>2. link[backlog[i + 1]] = "backlog" /\ backlog[i + 1] # backlog[1] /\ backlog[i + 1] \in Conn
    BY <1>1, <2>1 DEF BacklogInv
  <2> QED
    BY <1>1, <2>1, <2>2
<1> QED
  BY <1>1, <1>3, <1>4 DEF BacklogInv

\* Server::onAccept, after accept() has returned k: a new client on k, of which
\* nothing has been read, or, if _accept failed, on no connection.
LEMMA OnAcceptStream ==
  ASSUME RunInv, RunInv', StreamInv, NEW k \in Conn \cup {Null}, NEW c \in {k, Null},
         OnAccept(c), UNCHANGED <<batch, now, scan>>, BacklogInv',
         IF k = Null THEN link' = link
         ELSE /\ link[k] = "backlog"
              /\ link' = [link EXCEPT ![k] = IF c = Null THEN "blocking" ELSE "open"]
  PROVE  /\ StreamInv' /\ UNCHANGED Service!svars /\ ready \subseteq ready'
         /\ k # Null => watch[k] = Null
         /\ \E o \in Obj : o \notin live /\ Elsewhere(o, k) /\ Quiet(o)'
<1> PICK r : r = ReadResult(c, BufSize)
  OBVIOUS
<1>1. PICK o \in Obj \ live, rtv \in Garbage, wtv \in Garbage :
        /\ px' = ReadSome(NewSocket(px, o, rtv, wtv), o, BufSize, r, now)
        /\ taken' = AfterRead(c, r) /\ soc' = [soc EXCEPT ![o] = c]
        /\ live' = live \cup {o} /\ recvBuf' = Received(o, c, r)
        /\ IF c = Null THEN UNCHANGED <<watch, ready>>
           ELSE watch' = [watch EXCEPT ![c] = o] /\ ready \subseteq ready'
        /\ UNCHANGED <<sent, out, got, fin, rst, sendBuf>>
  BY DEF OnAccept
<1> DEFINE S == NewSocket(px, o, rtv, wtv)
<1>2. r.ret \in Int /\ r.err \in Errno
  BY ReadResultOK DEF RunInv, CallInv, IsResult
<1>3. rtv \in Nat /\ wtv \in Nat /\ \A t \in px.timers : Owner(t) # o
  BY DEF RunInv, MemInv, Owned
<1>4. /\ S \in Library /\ Timed(S, now) /\ Apart(px, S, o)
      /\ S.tok[Rt(o)] = FreshToken /\ S.tok[Wt(o)] = FreshToken
  BY <1>3, RunTypes, NewSocketApart DEF StreamInv, ClockInv
<1>5. S.tok[Rt(o)].mode = "N" /\ S.tok[Wt(o)].mode = "N"
  BY <1>4 DEF FreshToken
<1>6. px' = ReadSome(S, o, BufSize, r, now)
  BY <1>1
<1> HIDE DEF S
<1> DEFINE rec == [mode |-> IF r.ret >= 0 THEN "D"
                            ELSE IF r.err = "EAGAIN" THEN "S" ELSE "E",
                   bufSize |-> BufSize,
                   ioSize |-> IF r.ret >= 0 THEN r.ret ELSE 0,
                   err |-> r.err]
<1>7. Puts(S, px', Rt(o), rec) /\ Timed(px', now)
  BY <1>2, <1>4, <1>5, <1>6, RunTypes, ReadSomePuts
<1>8. /\ rec.mode = IF r.ret >= 0 THEN "D" ELSE IF r.err = "EAGAIN" THEN "S" ELSE "E"
      /\ rec.bufSize = BufSize /\ rec.err = r.err
      /\ r.ret >= 0 => rec.ioSize = r.ret
      /\ ~(r.ret >= 0) => rec.ioSize = 0
  OBVIOUS
<1> HIDE DEF rec
<1>9. Apart(px, px', o) /\ px'.tok[Rt(o)] = rec /\ px'.tok[Wt(o)].mode = "N"
  <2>1. Rt(o) \in Token /\ Wt(o) \in Token /\ Rt(o) # Wt(o) /\ Owner(Rt(o)) = o
    BY TokenPair, Owners
  <2>2. Apart(S, px', Owner(Rt(o))) /\ px'.tok[Rt(o)] = rec
    BY <1>4, <1>7, <2>1, PutsApart
  <2>3. px'.tok[Wt(o)] = S.tok[Wt(o)]
    BY <1>4, <1>7, <2>1, <2>2 DEF Puts, Library
  <2>4. Apart(px, px', o)
    BY <1>4, <2>1, <2>2 DEF Apart
  <2> QED
    BY <1>5, <2>2, <2>3, <2>4
<1>10. /\ soc'[o] = c /\ \A p \in Obj \ {o} : soc'[p] = soc[p] /\ (p \in live' => p \in live)
  BY <1>1 DEF RunInv, CallInv
<1>11. o \notin Announced /\ Announced' = Announced
  BY DEF RunInv, MemInv, BatchInv, Announced
<1>12. \A d \in Conn \ {k} : link'[d] = link[d] /\ watch'[d] = watch[d]
  BY <1>1 DEF RunInv, CallInv, KernelTypeOK
<1>13. UNCHANGED Service!svars
  <2>1. \A d \in Conn : \/ link'[d] = link[d]
                        \/ link[d] = "backlog" /\ link'[d] \in {"open", "blocking"}
    BY DEF RunInv, CallInv, KernelTypeOK
  <2> QED
    BY <1>1, <2>1, Unseen
<1>14. CASE c = Null
  <2>1. r.ret = -1 /\ r.err = "EBADF"
    BY <1>14 DEF ReadResult, Result
  <2>2. taken' = taken /\ recvBuf' = recvBuf
    BY <1>1, <2>1 DEF AfterRead, Received
  <2>3. px'.tok[Rt(o)].mode = "E" /\ px'.tok[Rt(o)].ioSize = 0
    BY <1>8, <1>9, <2>1
  <2>4. ClientInv(o)'
    BY <1>10, <1>14, <2>3 DEF ClientInv
  <2>5. Elsewhere(o, k)
    BY <1>1, <1>9, <1>10, <1>12, <2>2 DEF Elsewhere
  <2>6. ASSUME k # Null PROVE ConnInv(k)' /\ watch[k] = Null
    <3>1. k \in Conn /\ ConnInv(k) /\ link[k] = "backlog" /\ link'[k] = "blocking"
      BY <1>14, <2>6 DEF StreamInv, RunInv, CallInv, KernelTypeOK
    <3>2. watch[k] = Null /\ watch' = watch
      BY <1>1, <1>14, <3>1 DEF ConnInv
    <3> QED
      BY <1>1, <2>2, <3>1, <3>2 DEF ConnInv
  <2>7. StreamInv'
    BY <1>1, <1>7, <1>11, <1>14, <2>4, <2>5, <2>6, ClientStep
  <2>8. Quiet(o)'
    BY <1>9, <2>3 DEF Quiet
  <2> QED
    BY <1>1, <1>11, <1>13, <1>14, <2>5, <2>6, <2>7, <2>8
<1>15. CASE c # Null
  <2> k = c
    BY <1>15
  <2>1. c \in Conn /\ ConnInv(c) /\ link[c] = "backlog"
    BY <1>15 DEF StreamInv
  <2>2. /\ taken[c] = 0 /\ Len(out[c]) \in Nat /\ Len(out[c]) <= taken[c] /\ watch[c] = Null
    BY <2>1 DEF ConnInv, RunInv, CallInv, KernelTypeOK
  <2>3. Len(out[c]) = taken[c]
    BY <2>2
  <2>4. ReadsOn(o, c, BufSize, r)
    BY <1>1, <1>8, <1>9, <2>3 DEF ReadsOn
  <2>5. HasRead(o, c)
    BY <2>1, <2>4, ReadStream DEF RunInv
  <2>6. Elsewhere(o, c)
    BY <1>1, <1>9, <1>10, <1>12, <2>5 DEF Elsewhere, HasRead
  <2>7. link'[c] = "open" /\ watch'[c] = o
    BY <1>1, <1>15, <2>1 DEF RunInv, CallInv, KernelTypeOK
  <2>8. ConnInv(c)'
    <3>1. taken[c] \in Nat /\ taken'[c] \in Nat
      BY <2>1 DEF RunInv, CallInv, KernelTypeOK
    <3> QED
      BY <1>1, <2>1, <2>2, <2>5, <2>7, <3>1 DEF ConnInv, HasRead
  <2>9. ClientInv(o)'
    <3>1. WriteInv(o, c)'
      BY <1>9 DEF WriteInv
    <3> QED
      BY <1>10, <1>15, <2>5, <2>7, <3>1 DEF ClientInv, HasRead
  <2>10. StreamInv'
    BY <1>1, <1>7, <1>11, <2>1, <2>2, <2>6, <2>8, <2>9, ClientStep
  <2>11. Quiet(o)'
    BY <1>9, <1>10, <2>5 DEF Quiet, Readable, Unread, HasRead
  <2> QED
    BY <1>1, <1>11, <1>13, <1>15, <2>2, <2>6, <2>10, <2>11
<1> QED
  BY <1>14, <1>15

\* The turns of the loop of Acceptor::onRead
LEMMA AcceptStream ==
  ASSUME RunInv, RunInv', StreamInv, Accept \/ AcceptFails \/ AcceptUnset
  PROVE  /\ StreamInv' /\ UNCHANGED Service!svars /\ ready \subseteq ready'
         /\ \E o \in Obj, c \in Conn \cup {Null} :
              /\ o \notin live /\ Elsewhere(o, c) /\ Quiet(o)'
              /\ c # Null => watch[c] = Null
<1>1. CASE Accept
  <2> PICK c : c = Head(backlog)
    OBVIOUS
  <2>1. /\ OnAccept(c) /\ UNCHANGED <<batch, now, scan>> /\ backlog # <<>>
        /\ backlog' = Tail(backlog) /\ link' = [link EXCEPT ![c] = "open"]
    BY <1>1 DEF Accept, loopVars
  <2>2. BacklogInv' /\ c \in Conn /\ link[c] = "backlog"
    BY <2>1, BacklogTail DEF RunInv, StreamInv
  <2>3. c # Null
    BY <2>2
  <2> QED
    BY <2>1, <2>2, <2>3, OnAcceptStream
<1>2. CASE AcceptFails
  <2>1. OnAccept(Null) /\ UNCHANGED <<batch, now, scan, link, backlog>>
    BY <1>2 DEF AcceptFails
  <2>2. BacklogInv'
    BY <2>1 DEF StreamInv, BacklogInv
  <2> QED
    BY <2>1, <2>2, OnAcceptStream
<1>3. CASE AcceptUnset
  <2> PICK k : k = Head(backlog)
    OBVIOUS
  <2>1. /\ OnAccept(Null) /\ UNCHANGED <<batch, now, scan>> /\ backlog # <<>>
        /\ backlog' = Tail(backlog) /\ link' = [link EXCEPT ![k] = "blocking"]
    BY <1>3 DEF AcceptUnset
  <2>2. BacklogInv' /\ k \in Conn /\ link[k] = "backlog"
    BY <2>1, BacklogTail DEF RunInv, StreamInv
  <2>3. k # Null
    BY <2>2
  <2> QED
    BY <2>1, <2>2, <2>3, OnAcceptStream
<1> QED
  BY <1>1, <1>2, <1>3

\* With epoll a hang-up that epoll_wait reports is a reset.
LEMMA PollHup ==
  ASSUME RunInv, Poll, ~(batch' \subseteq batch)
  PROVE  HupInv'
<1>1. /\ batch' = {[h |-> HandlerOf(k), ev |-> Events(k)] :
                     k \in {k \in ready : Events(k) # {}}}
      /\ UNCHANGED <<rst, soc>>
  BY DEF Poll
<1>2. ASSUME NEW k \in ready, HandlerOf(k) # Listener, Backend = "epoll",
             "HUP" \in Events(k)
      PROVE  soc[HandlerOf(k)] \in rst
  <2>1. k # Listener /\ k \in Conn /\ watch[k] # Null /\ HandlerOf(k) = watch[k]
    BY <1>2 DEF HandlerOf, RunInv, CallInv, KernelTypeOK, ReadyWatched
  <2>2. soc[watch[k]] = k
    BY <2>1 DEF RunInv, MemInv, WatchInv
  <2>3. k \in rst
    BY <1>2, <2>1 DEF Events, EpollEvents
  <2> QED
    BY <2>1, <2>2, <2>3
<1> QED
  BY <1>1, <1>2 DEF HupInv

\* run() between two handlers, and the events of the listening socket
LEMMA LoopStream ==
  ASSUME RunInv, StreamInv, Loop \/ AcceptDone \/ \E e \in batch \cup {cur} : AcceptEvent(e)
  PROVE  StreamInv' /\ UNCHANGED Service!svars
<1>1. CASE \/ Loop /\ batch' \subseteq batch
           \/ AcceptDone \/ \E e \in batch \cup {cur} : AcceptEvent(e)
  <2>1. /\ batch' \subseteq batch /\ scan' \in {scan, now, 0}
        /\ UNCHANGED <<link, sent, taken, out, got, fin, rst, backlog, watch,
                       px, soc, now, live, recvBuf, sendBuf>>
    BY <1>1 DEF Loop, Poll, Interrupted, EndBatch, EndEvent, EndTimers, AcceptDone,
                AcceptEvent, Take, kvars, evars
  <2>2. scan \in Nat /\ now \in Nat /\ scan <= now
    BY DEF RunInv, LoopTyped, StreamInv, ClockInv
  <2>3. scan' <= now
    BY <2>1, <2>2
  <2>4. HupInv'
    BY <2>1, SameHup DEF StreamInv
  <2> QED
    BY <2>1, <2>3, <2>4, SameStream
<1>2. CASE Loop /\ ~(batch' \subseteq batch)
  <2>1. Poll /\ UNCHANGED evars
    BY <1>2 DEF Loop, Interrupted, EndBatch, EndEvent, EndTimers
  <2>2. UNCHANGED <<link, sent, taken, out, got, fin, rst, backlog, watch,
                    px, soc, now, live, recvBuf, sendBuf, scan>>
    BY <1>2, <2>1 DEF Poll, evars
  <2>3. HupInv'
    BY <1>2, <2>1, PollHup
  <2>4. scan' <= now
    BY <2>2 DEF StreamInv, ClockInv
  <2> QED
    BY <2>2, <2>3, <2>4, SameStream
<1> QED
  BY <1>1, <1>2

-----------------------------------------------------------------------------
(* The environment.                                                        *)

\* A peer's step on connection c, which touches no token, buffer or client
LEMMA PeerStream ==
  ASSUME RunInv, StreamInv, NEW c \in Conn,
         UNCHANGED <<taken, out, watch, px, soc, batch, scan, now, live, recvBuf, sendBuf>>,
         \A d \in Conn \ {c} : link'[d] = link[d] /\ sent'[d] = sent[d] /\ got'[d] = got[d],
         ConnInv(c)', sent'[c] = sent[c] \/ c \notin fin,
         fin \subseteq fin', rst \subseteq rst', BacklogInv'
  PROVE  StreamInv'
<1>1. ASSUME NEW d \in Conn PROVE ConnInv(d)'
  <2>1. CASE d # c
    BY <2>1 DEF StreamInv, ConnInv
  <2> QED
    BY <2>1
<1>2. ASSUME NEW o \in live PROVE ClientInv(o)'
  <2>1. ClientInv(o) /\ o \in Obj
    BY <1>2, LivingClient
  <2> PICK d : d = soc[o]
    OBVIOUS
  <2>2. CASE d = Null
    BY <2>1, <2>2 DEF ClientInv
  <2>3. CASE d # Null
    <3>1. watch[d] = o /\ ReadInv(o, d) /\ WriteInv(o, d) /\ d \in Conn
      BY <1>2, <2>3, LivingClient
    <3>2. ReadInv(o, d)'
      <4>1. d \in fin => sent'[d] = sent[d]
        BY <3>1
      <4> QED
        BY <3>1, <4>1 DEF ReadInv
    <3>3. WriteInv(o, d)'
      BY <3>1 DEF WriteInv
    <3>4. soc'[o] = d /\ watch'[d] = o
      BY <3>1
    <3> QED
      BY <2>3, <3>2, <3>3, <3>4 DEF ClientInv
  <2> QED
    BY <2>2, <2>3
<1>3. HupInv' /\ ClockInv'
  BY DEF StreamInv, HupInv, ClockInv
<1> QED
  BY <1>1, <1>2, <1>3 DEF StreamInv

\* What a peer does keeps the invariants of its connection and of the backlog.
LEMMA PeerBytes ==
  ASSUME KernelTypeOK, KernelTypeOK', BacklogInv, NEW c \in Conn, ConnInv(c),
         Connect(c) \/ PeerSend(c) \/ PeerFinish(c) \/ PeerReset(c) \/ PeerRecv(c)
  PROVE  /\ ConnInv(c)' /\ BacklogInv' /\ UNCHANGED <<taken, out, watch>>
         /\ \A d \in Conn \ {c} : link'[d] = link[d] /\ sent'[d] = sent[d] /\ got'[d] = got[d]
         /\ sent'[c] = sent[c] \/ c \notin fin
         /\ fin \subseteq fin' /\ rst \subseteq rst' /\ link'[c] # "closed"
<1>1. /\ sent[c] \in Nat /\ sent'[c] \in Nat /\ got[c] \in Nat
      /\ got'[c] \in Nat /\ taken[c] \in Nat /\ Len(out[c]) \in Nat
  BY DEF KernelTypeOK
<1>2. CASE Connect(c)
  <2>1. /\ link[c] = "idle" /\ link' = [link EXCEPT ![c] = "backlog"]
        /\ backlog' = Append(backlog, c)
        /\ UNCHANGED <<sent, taken, out, got, fin, rst, watch>>
    BY <1>2 DEF Connect
  <2>2. link'[c] = "backlog" /\ \A d \in Conn \ {c} : link'[d] = link[d]
    BY <2>1 DEF KernelTypeOK
  <2>3. ConnInv(c)'
    BY <1>1, <2>1, <2>2 DEF ConnInv
  <2>4. BacklogInv'
    <3>1. /\ backlog \in Seq(Conn) /\ Len(backlog) \in Nat
          /\ Len(backlog') = Len(backlog) + 1 /\ backlog'[Len(backlog) + 1] = c
          /\ \A i \in 1..Len(backlog) : backlog'[i] = backlog[i] /\ backlog[i] \in Conn
      BY <2>1 DEF KernelTypeOK
    <3>2. \A i \in 1..Len(backlog) : link[backlog[i]] = "backlog" /\ backlog[i] # c
      BY <2>1 DEF BacklogInv
    <3>3. \A i \in 1..Len(backlog') : i \in 1..Len(backlog) \/ i = Len(backlog) + 1
      BY <3>1
    <3>4. \A i \in 1..Len(backlog') : link'[backlog'[i]] = "backlog"
      BY <2>2, <3>1, <3>2, <3>3
    <3>5. \A i, j \in 1..Len(backlog') : backlog'[i] = backlog'[j] => i = j
      BY <3>1, <3>2, <3>3 DEF BacklogInv
    <3> QED
      BY <3>4, <3>5 DEF BacklogInv
  <2> QED
    BY <2>1, <2>2, <2>3, <2>4
<1>3. ASSUME link[c] \in {"backlog", "open", "blocking"}, link' = link, backlog' = backlog
      PROVE  BacklogInv' /\ link'[c] # "closed" /\ \A d \in Conn : link'[d] = link[d]
  BY <1>3 DEF BacklogInv
<1>4. CASE PeerSend(c)
  <2>1. /\ link[c] \in {"backlog", "open", "blocking"} /\ c \notin fin \cup rst /\ sent[c] < MaxSend
        /\ sent' = [sent EXCEPT ![c] = sent[c] + 1]
        /\ UNCHANGED <<link, taken, out, got, fin, rst, backlog, watch>>
    BY <1>4 DEF PeerSend
  <2>2. sent'[c] = sent[c] + 1 /\ \A d \in Conn \ {c} : sent'[d] = sent[d]
    BY <2>1 DEF KernelTypeOK
  <2>3. ConnInv(c)'
    BY <1>1, <2>1, <2>2 DEF ConnInv
  <2> QED
    BY <1>3, <2>1, <2>2, <2>3
<1>5. CASE PeerFinish(c)
  <2>1. /\ link[c] \in {"backlog", "open", "blocking"} /\ fin' = fin \cup {c}
        /\ UNCHANGED <<link, sent, taken, out, got, rst, backlog, watch>>
    BY <1>5 DEF PeerFinish
  <2>2. ConnInv(c)'
    BY <2>1 DEF ConnInv
  <2> QED
    BY <1>3, <2>1, <2>2
<1>6. CASE PeerReset(c)
  <2>1. /\ link[c] \in {"backlog", "open", "blocking"} /\ rst' = rst \cup {c}
        /\ UNCHANGED <<link, sent, taken, out, got, fin, backlog, watch>>
    BY <1>6 DEF PeerReset
  <2>2. ConnInv(c)'
    BY <2>1 DEF ConnInv
  <2> QED
    BY <1>3, <2>1, <2>2
<1>7. CASE PeerRecv(c)
  <2>1. /\ link[c] = "open" /\ got[c] < Len(out[c])
        /\ got' = [got EXCEPT ![c] = got[c] + 1]
        /\ UNCHANGED <<link, sent, taken, out, fin, rst, backlog, watch>>
    BY <1>7 DEF PeerRecv
  <2>2. got'[c] = got[c] + 1 /\ \A d \in Conn \ {c} : got'[d] = got[d]
    BY <2>1 DEF KernelTypeOK
  <2>3. ConnInv(c)'
    BY <1>1, <2>1, <2>2 DEF ConnInv
  <2> QED
    BY <1>3, <2>1, <2>2, <2>3
<1> QED
  BY <1>2, <1>4, <1>5, <1>6, <1>7

\* The clock ticks.
LEMMA TickClock ==
  ASSUME RunInv, ClockInv, Tick
  PROVE  ClockInv'
<1>1. /\ now < MaxTime /\ now' = now + 1 /\ UNCHANGED <<px, scan>>
  BY DEF Tick, loopVars
<1>2. /\ now \in Nat /\ scan \in Nat /\ \A t \in px.timers : px.tv[t] \in Nat
  BY RunTypes DEF Library, RunInv, LoopTyped
<1>3. ASSUME NEW t \in px.timers PROVE px.tv[t] <= (now + 1) + Timeout
  <2>1. px.tv[t] <= now + Timeout
    BY DEF ClockInv, Timed
  <2> QED
    BY <1>2, <2>1
<1>4. Timed(px', now')
  BY <1>1, <1>3 DEF ClockInv, Timed
<1>5. now' <= MaxTime /\ scan' <= now'
  BY <1>1, <1>2 DEF ClockInv
<1> QED
  BY <1>4, <1>5 DEF ClockInv

\* What a peer does is what the peers of the service may do.
LEMMA EnvironmentStream ==
  ASSUME RunInv, RunInv', StreamInv, Environment
  PROVE  StreamInv' /\ [Service!Next]_(Service!svars)
<1>1. KernelTypeOK /\ KernelTypeOK'
  BY DEF RunInv, CallInv
<1>2. ASSUME NEW c \in Conn, UNCHANGED <<pvars, evars>>,
             Connect(c) \/ PeerSend(c) \/ PeerFinish(c) \/ PeerReset(c) \/ PeerRecv(c)
      PROVE  StreamInv' /\ [Service!Next]_(Service!svars)
  <2>1. UNCHANGED <<px, soc, batch, scan, now, live, recvBuf, sendBuf>>
    BY <1>2 DEF pvars, evars, loopVars
  <2>2. StreamInv'
    <3>1. ConnInv(c) /\ BacklogInv
      BY <1>2 DEF StreamInv
    <3> QED
      BY <1>1, <1>2, <2>1, <3>1, PeerBytes, PeerStream
  <2> DEFINE phase == [d \in Conn |-> IF link[d] \in {"backlog", "blocking"} THEN "open" ELSE link[d]]
  <2>3. CASE Connect(c)
    <3>1. /\ link[c] = "idle" /\ link' = [link EXCEPT ![c] = "backlog"]
          /\ UNCHANGED <<sent, taken, out, got, fin, rst, watch>>
      BY <2>3 DEF Connect
    <3>2. link'[c] = "backlog" /\ \A d \in Conn \ {c} : link'[d] = link[d]
      BY <1>1, <1>2, <3>1 DEF KernelTypeOK
    <3>3. [d \in Conn |-> IF link'[d] \in {"backlog", "blocking"} THEN "open" ELSE link'[d]]
            = [phase EXCEPT ![c] = "open"]
      BY <3>2
    <3>4. Service!Open(c)
      BY <1>2, <3>1, <3>3 DEF Service!Open
    <3> QED
      BY <1>2, <2>2, <3>4 DEF Service!Next
  <2>4. ASSUME link[c] \in {"backlog", "open", "blocking"}, link' = link
        PROVE  phase[c] = "open"
    BY <1>2, <2>4
  <2>5. CASE PeerSend(c)
    <3>1. /\ link[c] \in {"backlog", "open", "blocking"} /\ c \notin fin \cup rst /\ sent[c] < MaxSend
          /\ sent' = [sent EXCEPT ![c] = sent[c] + 1]
          /\ UNCHANGED <<link, taken, out, got, fin, rst, backlog, watch>>
      BY <2>5 DEF PeerSend
    <3>2. Service!Send(c)
      BY <2>4, <3>1 DEF Service!Send
    <3> QED
      BY <1>2, <2>2, <3>2 DEF Service!Next
  <2>6. CASE PeerFinish(c)
    <3>1. /\ link[c] \in {"backlog", "open", "blocking"} /\ c \notin fin \cup rst
          /\ fin' = fin \cup {c}
          /\ UNCHANGED <<link, sent, taken, out, got, rst, backlog, watch>>
      BY <2>6 DEF PeerFinish
    <3>2. Service!Finish(c)
      BY <2>4, <3>1 DEF Service!Finish
    <3> QED
      BY <1>2, <2>2, <3>2 DEF Service!Next
  <2>7. CASE PeerReset(c)
    <3>1. /\ link[c] \in {"backlog", "open", "blocking"} /\ rst' = rst \cup {c}
          /\ UNCHANGED <<link, sent, taken, out, got, fin, backlog, watch>>
      BY <2>7 DEF PeerReset
    <3>2. Service!Reset(c)
      BY <2>4, <3>1 DEF Service!Reset
    <3> QED
      BY <1>2, <2>2, <3>2 DEF Service!Next
  <2>8. CASE PeerRecv(c)
    <3>1. UNCHANGED <<link, sent, taken, out, fin, rst, backlog, watch>>
      BY <2>8 DEF PeerRecv
    <3> QED
      BY <2>2, <3>1, Unseen
  <2> QED
    BY <1>2, <2>3, <2>5, <2>6, <2>7, <2>8
<1>3. CASE Signal /\ UNCHANGED evars
  <2>1. UNCHANGED <<link, sent, taken, out, got, fin, rst, backlog, watch,
                    px, soc, now, live, recvBuf, sendBuf, batch, scan>>
    BY <1>3 DEF Signal, kvars, loopVars, evars
  <2>2. HupInv' /\ scan' <= now
    BY <2>1, SameHup DEF StreamInv, ClockInv
  <2> QED
    BY <2>1, <2>2, SameStream
<1>4. CASE Tick /\ UNCHANGED evars
  <2>1. /\ now < MaxTime /\ now' = now + 1
        /\ UNCHANGED <<link, sent, taken, out, got, fin, rst, backlog, watch,
                       px, soc, live, recvBuf, sendBuf, batch, scan>>
    BY <1>4 DEF Tick, kvars, loopVars, evars
  <2>2. ClockInv'
    BY <1>4, TickClock DEF StreamInv
  <2>3. HupInv'
    BY <2>1, SameHup DEF StreamInv
  <2>4. \A c \in Conn : ConnInv(c)'
    BY <2>1 DEF StreamInv, ConnInv
  <2>5. ASSUME NEW o \in live PROVE ClientInv(o)'
    <3>1. ClientInv(o)
      BY <2>5 DEF StreamInv
    <3>2. ReadInv(o, soc[o]) => ReadInv(o, soc[o])'
      BY <2>1 DEF ReadInv
    <3>3. WriteInv(o, soc[o]) => WriteInv(o, soc[o])'
      BY <2>1 DEF WriteInv
    <3> QED
      BY <2>1, <3>1, <3>2, <3>3 DEF ClientInv
  <2>6. BacklogInv'
    BY <2>1 DEF StreamInv, BacklogInv
  <2>7. UNCHANGED Service!svars
    BY <2>1, Unseen
  <2> QED
    BY <2>1, <2>2, <2>3, <2>4, <2>5, <2>6, <2>7 DEF StreamInv
<1> QED
  BY <1>2, <1>3, <1>4 DEF Environment, Peer

-----------------------------------------------------------------------------
(* The theorems about the bytes, the descriptors and the timers.           *)

\* Nothing is connected, read or written at first.
LEMMA InitStream == Init => StreamInv
<1> SUFFICES ASSUME Init PROVE StreamInv
  OBVIOUS
<1>1. /\ px = NewLibrary /\ live = {} /\ batch = {} /\ now = 0 /\ scan = 0
      /\ backlog = <<>> /\ link = [c \in Conn |-> "idle"] /\ sent = [c \in Conn |-> 0]
      /\ taken = [c \in Conn |-> 0] /\ out = [c \in Conn |-> <<>>]
      /\ got = [c \in Conn |-> 0] /\ watch = [c \in Conn |-> Null]
  BY DEF Init, ProactorInit, KernelInit
<1>2. ASSUME NEW c \in Conn PROVE ConnInv(c)
  <2>1. out[c] = <<>> /\ Len(out[c]) = 0
    BY <1>1
  <2>2. out[c] = [i \in 1..Len(out[c]) |-> i]
    BY <2>1
  <2> QED
    BY <1>1, <2>1, <2>2 DEF ConnInv
<1>3. BacklogInv /\ HupInv
  BY <1>1 DEF BacklogInv, HupInv
<1>4. ClockInv
  BY <1>1 DEF ClockInv, Timed, NewLibrary
<1> QED
  BY <1>1, <1>2, <1>3, <1>4 DEF StreamInv

\* Every step keeps StreamInv and is, with epoll, a step of the service.
LEMMA NextStream ==
  ASSUME RunInv, RunInv', StreamInv, [Next]_vars
  PROVE  StreamInv' /\ (Backend = "epoll" => [Service!Next]_(Service!svars))
<1>1. CASE Loop \/ AcceptDone
  BY <1>1, LoopStream
<1>2. ASSUME NEW e \in batch \cup {cur}, Dispatch(e)
      PROVE  StreamInv' /\ (Backend = "epoll" => [Service!Next]_(Service!svars))
  <2>1. CASE AcceptEvent(e)
    BY <1>2, <2>1, LoopStream
  <2>2. CASE ClosedEvent(e)
    BY <2>2, ClosedEventStream
  <2>3. CASE ReadEvent(e)
    BY <2>3, ReadEventStream
  <2>4. CASE WriteEvent(e)
    BY <1>2, <2>4, WriteEventStream
  <2> QED
    BY <1>2, <2>1, <2>2, <2>3, <2>4 DEF Dispatch
<1>3. CASE Accept \/ AcceptFails \/ AcceptUnset
  BY <1>3, AcceptStream
<1>4. CASE Complete
  BY <1>4, CompleteStream
<1>5. CASE ExpireTimer
  BY <1>5, ExpireStream
<1>6. CASE Environment
  BY <1>6, EnvironmentStream
<1>7. CASE UNCHANGED vars
  <2>1. UNCHANGED <<link, sent, taken, out, got, fin, rst, backlog, watch,
                    px, soc, now, live, recvBuf, sendBuf, batch, scan>>
    BY <1>7 DEF vars, kvars, pvars, loopVars, evars
  <2>2. HupInv' /\ scan' <= now
    BY <2>1, SameHup DEF StreamInv, ClockInv
  <2> QED
    BY <2>1, <2>2, SameStream
<1> QED
  BY <1>1, <1>2, <1>3, <1>4, <1>5, <1>6, <1>7 DEF Next, Server

\* The same without the conditions the invariants give.
LEMMA NextRunStream == RunInv /\ RunInv' /\ StreamInv /\ [Next]_vars => StreamInv'
BY NextStream

\* RunInv and StreamInv hold throughout.
LEMMA StreamAlways == Spec => [](RunInv /\ StreamInv)
<1>1. Spec => []RunInv
  BY Invariants, RunInvSplit, PTL
<1> QED
  BY <1>1, InitStream, NextRunStream, PTL DEF Spec

\* Server and EchoClient, on epoll, implement the echo service: whatever the
\* number of connections and objects, the sizes of the buffers, the order of
\* events and the time that passes, every byte comes back once and in order, and
\* a connection is hung up on only for a reason.  (The kqueue build hangs up on
\* a peer that has finished sending before its bytes are written back.)
THEOREM EchoRefinement ==
  ASSUME Backend = "epoll"
  PROVE  Spec => EchoContract
<1>1. Init => Service!Init
  BY DEF Init, KernelInit, Service!Init
<1>2. RunInv /\ RunInv' /\ StreamInv /\ [Next]_vars => [Service!Next]_(Service!svars)
  BY NextStream
<1> QED
  BY <1>1, <1>2, StreamAlways, PTL DEF Spec, EchoContract, Service!Spec

\* Whenever run() waits, no client without a descriptor is left, and every
\* descriptor but those SetNonBlock failed for belongs to a client: whatever
\* fails, accept() and fcntl() included, nothing else leaks one.
THEOREM NoDescriptorLeak == Spec => []NoLeak
<1>1. RunInv /\ StreamInv => NoLeak
  <2> SUFFICES ASSUME RunInv, StreamInv, pc = "wait"
               PROVE  /\ \A o \in live : soc[o] \in Descriptors /\ watch[soc[o]] = o
                      /\ \A c \in Descriptors :
                           link[c] = "blocking" \/ \E o \in live : soc[o] = c
    BY DEF NoLeak
  <2>1. px.queue = <<>>
    BY DEF RunInv, Drained
  <2>2. ASSUME NEW o \in live PROVE soc[o] \in Descriptors /\ watch[soc[o]] = o
    <3>1. o \in Obj /\ Rt(o) \in Token
      BY <2>2, RunTypes, TokenPair
    <3>2. ~Queued(px, Rt(o))
      BY <2>1 DEF Queued
    <3>3. px.tok[Rt(o)].mode # "E"
      BY <3>1, <3>2, RunTypes DEF QueueExact
    <3>4. soc[o] # Null
      BY <2>2, <3>3, LivingClient DEF ClientInv
    <3> QED
      BY <2>2, <3>4, LivingClient DEF Descriptors
  <2>3. ASSUME NEW c \in Descriptors, link[c] # "blocking"
        PROVE  \E o \in live : soc[o] = c
    <3>1. c \in Conn /\ watch[c] # Null
      BY <2>3 DEF Descriptors, StreamInv, ConnInv
    <3>2. watch[c] \in live /\ soc[watch[c]] = c
      BY <3>1 DEF RunInv, MemInv, WatchInv
    <3> QED
      BY <3>2
  <2> QED
    BY <2>2, <2>3
<1> QED
  BY <1>1, StreamAlways, PTL

\* _timerList holds tokens of operations that are under way or just completed,
\* no two with the same tv, none due later than TIMEOUT_MS from now.
THEOREM TimersInOrder == Spec => []TimersSound
<1>1. RunInv /\ StreamInv => TimersSound
  BY DEF StreamInv, ClockInv, Timed, TimersSound
<1> QED
  BY <1>1, StreamAlways, PTL

\* _processTimer deletes a client only for a timer of its own, whose time is
\* over and whose operation is still pending.
THEOREM NoEarlyTimeout == Spec => TimeoutOnTime
<1> DEFINE Act == pc = "timers" =>
                    \A o \in live \ live' : \E t \in {Rt(o), Wt(o)} \cap px.timers :
                      px.tv[t] < now /\ Pending(px, t)
<1>1. RunInv /\ RunInv' /\ StreamInv /\ [Next]_vars => Act
  <2> SUFFICES ASSUME RunInv, RunInv', StreamInv, [Next]_vars, pc = "timers",
                      NEW o \in live \ live'
               PROVE  \E t \in {Rt(o), Wt(o)} \cap px.timers :
                        px.tv[t] < now /\ Pending(px, t)
    OBVIOUS
  <2>1. CASE ExpireTimer
    <3>1. PICK t \in Token : /\ t \in px.timers /\ px.tv[t] < now /\ Pending(px, t)
                             /\ live' = live \ {Owner(t)}
      BY <2>1, ExpireStream
    <3>2. Owner(t) = o /\ o \in Obj
      BY <3>1, RunTypes
    <3>3. t \in {Rt(o), Wt(o)}
      BY <3>2, Owners
    <3> QED
      BY <3>1, <3>3
  <2>2. CASE ~ExpireTimer
    <3>1. live' = live
      BY <2>2 DEF Next, Server, Loop, Dispatch, ClosedEvent, AcceptEvent, ReadEvent,
                  WriteEvent, WriteTurn, Take, Accept, AcceptFails, AcceptUnset, AcceptDone,
                  Complete, Environment, vars, evars
    <3> QED
      BY <3>1
  <2> QED
    BY <2>1, <2>2
<1>2. RunInv /\ RunInv' /\ StreamInv /\ [Next]_vars => [Act]_vars
  BY <1>1
<1> HIDE DEF Act
<1>3. Spec => [][Act]_vars
  BY <1>2, StreamAlways, PTL DEF Spec
<1> QED
  BY <1>3 DEF Act, TimeoutOnTime

-----------------------------------------------------------------------------
(* The edges.                                                              *)

\* Of the events in run()'s array only h's is taken.
Spares(h) == \A e \in batch : e.h # h => e \in batch'

\* A client that waits for nothing that is there already
LEMMA QuietWaits == \A o : Quiet(o)' => WaitInv(o)'
BY DEF Quiet, WaitInv, Readable, Writable, Unread, TxFree

\* A step of the server on client o takes no other client's edge away.
LEMMA EdgeStep ==
  ASSUME RunInv, RunInv', StreamInv, EdgeInv, NEW o \in Obj, NEW d \in Conn \cup {Null},
         Elsewhere(o, d), d # Null => watch[d] \in {o, Null}, ready \ {d} \subseteq ready',
         Spares(o),
         pc = "afterRead" => cur.h = o \/ (pc' = "afterRead" /\ cur' = cur),
         o \in live' => WaitInv(o)',
         pc' = "afterRead" /\ cur'.h \in deleted' => cur'.h \notin live'
  PROVE  EdgeInv'
<1>1. ASSUME NEW p \in live', p # o PROVE WaitInv(p)'
  <2>1. p \in Obj /\ p \in live /\ soc'[p] = soc[p] /\ Rt(p) \in Token /\ Wt(p) \in Token
    BY <1>1, RunTypes, TokenPair DEF Elsewhere, RunInv, CallInv, EchoTypeOK
  <2>2. px'.tok[Rt(p)] = px.tok[Rt(p)] /\ px'.tok[Wt(p)] = px.tok[Wt(p)]
    BY <1>1, <2>1, Owners DEF Elsewhere, Apart
  <2> PICK c : c = soc[p]
    OBVIOUS
  <2>3. CASE c = Null
    <3>1. px.tok[Rt(p)].mode = "E"
      <4>1. ClientInv(p)
        BY <2>1, LivingClient
      <4> QED
        BY <2>3, <4>1 DEF ClientInv
    <3>2. px.tok[Wt(p)].mode = "N"
      BY <2>1, <3>1 DEF RunInv, MemInv, Owned, Busy
    <3> QED
      BY <2>2, <3>1, <3>2 DEF WaitInv
  <2>4. CASE c # Null
    <3>1. c \in Conn /\ watch[c] = p
      BY <2>1, <2>4, LivingClient
    <3>2. c # d
      BY <1>1, <2>1, <3>1
    <3>3. /\ (Readable(c)' <=> Readable(c)) /\ (Writable(c)' <=> Writable(c))
      BY <3>1, <3>2 DEF Elsewhere, Readable, Writable, Unread, TxFree
    <3>4. \A side : Resumes(p, side) => Resumes(p, side)'
      BY <1>1, <2>1, <3>2 DEF Resumes, Spares
    <3>5. WaitInv(p)
      BY <2>1 DEF EdgeInv
    <3>6. soc[p] = c /\ soc'[p] = c
      BY <2>1
    <3>7. px.tok[Rt(p)].mode = "S" /\ Readable(c)' => Resumes(p, "IN")'
      BY <3>3, <3>4, <3>5, <3>6 DEF WaitInv
    <3>8. Backend = "epoll" /\ px.tok[Wt(p)].mode = "A" /\ Writable(c)' => Resumes(p, "OUT")'
      BY <3>3, <3>4, <3>5, <3>6 DEF WaitInv
    <3> QED
      BY <2>2, <3>6, <3>7, <3>8 DEF WaitInv, Readable, Writable, Unread, TxFree
  <2> QED
    BY <2>3, <2>4
<1> QED
  BY <1>1 DEF EdgeInv

\* run() between two handlers, unless it stops: epoll_wait turns the edges into
\* events, and an event is not left before all of it has been looked at.
LEMMA LoopEdge ==
  ASSUME RunInv, StreamInv, EdgeInv, Loop, pc' # "stopped"
  PROVE  EdgeInv'
<1>1. /\ UNCHANGED <<link, sent, taken, out, got, fin, rst, watch, px, soc, live>>
      /\ pc' # "afterRead"
  BY DEF Loop, Poll, Interrupted, EndBatch, EndEvent, EndTimers, kvars, evars
<1>2. ASSUME NEW o \in live, NEW side \in {"IN", "OUT"}, Resumes(o, side),
             side = "IN" => Readable(soc[o]),
             side = "OUT" => Backend = "epoll" /\ Writable(soc[o]), soc[o] # Null
      PROVE  Resumes(o, side)'
  <2>1. soc[o] \in Conn /\ watch[soc[o]] = o /\ o \in Obj
    BY <1>2, LivingClient
  <2>2. CASE Poll
    <3>1. soc[o] \in ready
      BY <1>2, <2>2 DEF Resumes, Poll, RunInv, MemInv, BatchInv
    <3>2. side \in Events(soc[o])
      BY <1>2, <2>1 DEF Events, EpollEvents, KqueueEvents, KqueueTests
    <3>3. ~stop
      BY <2>2 DEF Poll
    <3> DEFINE k == soc[o]
               reported == {x \in ready : Events(x) # {}}
               e == [h |-> HandlerOf(k), ev |-> Events(k)]
    <3>4. k \in reported
      BY <3>1, <3>2
    <3>5. batch' = {[h |-> HandlerOf(x), ev |-> Events(x)] : x \in reported}
      BY <2>2, <3>3, <3>4 DEF Poll
    <3>6. e \in batch'
      BY <3>4, <3>5
    <3>7. HandlerOf(k) = o
      BY <2>1 DEF HandlerOf
    <3>8. e.h = o /\ e.ev = Events(k)
      BY <3>7
    <3> HIDE DEF e, k
    <3>9. e.ev \cap {side, "HUP"} # {}
      BY <3>2, <3>8 DEF k
    <3> QED
      BY <3>6, <3>8, <3>9 DEF Resumes
  <2>3. CASE Interrupted \/ EndBatch \/ EndTimers
    BY <1>2, <2>3 DEF Resumes, Interrupted, EndBatch, EndTimers, kvars
  <2>4. CASE EndEvent
    <3>1. UNCHANGED <<ready, batch, soc>> /\ EventDone
      BY <2>4 DEF EndEvent, kvars
    <3>2. ~(pc = "afterRead" /\ cur.h = o /\ "OUT" \in cur.ev)
      BY <1>2, <2>1, <3>1 DEF EventDone, EdgeInv
    <3> QED
      BY <1>2, <3>1, <3>2 DEF Resumes
  <2> QED
    BY <2>2, <2>3, <2>4 DEF Loop
<1>3. ASSUME NEW o \in live PROVE WaitInv(o)'
  <2>1. WaitInv(o)
    BY <1>3 DEF EdgeInv
  <2>2. soc[o] = Null => px.tok[Rt(o)].mode = "E" /\ px.tok[Wt(o)].mode = "N"
    <3>1. ClientInv(o) /\ Busy(px, o)
      BY <1>3, LivingClient DEF RunInv, MemInv, Owned
    <3> QED
      BY <3>1 DEF ClientInv, Busy
  <2>3. px.tok[Rt(o)].mode = "S" /\ Readable(soc[o]) => Resumes(o, "IN")'
    BY <1>2, <1>3, <2>1, <2>2 DEF WaitInv
  <2>4. Backend = "epoll" /\ px.tok[Wt(o)].mode = "A" /\ Writable(soc[o]) => Resumes(o, "OUT")'
    BY <1>2, <1>3, <2>1, <2>2 DEF WaitInv
  <2> QED
    BY <1>1, <2>3, <2>4 DEF WaitInv, Readable, Writable, Unread, TxFree
<1> QED
  BY <1>1, <1>3 DEF EdgeInv

\* A step that leaves the clients, their connections and their edges alone
LEMMA SameEdge ==
  ASSUME EdgeInv, UNCHANGED <<sent, taken, out, got, fin, rst, ready, px, soc, live>>,
         Spares(Listener), Listener \notin live,
         pc # "afterRead" \/ (pc' = pc /\ cur' = cur),
         pc' = "afterRead" /\ cur'.h \in deleted' => cur'.h \notin live
  PROVE  EdgeInv'
<1>1. ASSUME NEW o \in live PROVE WaitInv(o)'
  <2>1. WaitInv(o)
    BY <1>1 DEF EdgeInv
  <2>2. \A side : Resumes(o, side) => Resumes(o, side)'
    BY <1>1 DEF Resumes, Spares
  <2>3. px.tok[Rt(o)].mode = "S" /\ Readable(soc[o]) => Resumes(o, "IN")'
    BY <2>1, <2>2 DEF WaitInv
  <2>4. Backend = "epoll" /\ px.tok[Wt(o)].mode = "A" /\ Writable(soc[o]) => Resumes(o, "OUT")'
    BY <2>1, <2>2 DEF WaitInv
  <2> QED
    BY <2>3, <2>4 DEF WaitInv, Readable, Writable, Unread, TxFree
<1> QED
  BY <1>1 DEF EdgeInv

\* The handlers of the loop's events
LEMMA DispatchEdge ==
  ASSUME RunInv, RunInv', StreamInv, EdgeInv, NEW e \in batch \cup {cur}, Dispatch(e)
  PROVE  EdgeInv'
<1> PICK o : o = e.h
  OBVIOUS
<1> PICK d : d = soc[o]
  OBVIOUS
<1>1. ASSUME o \in live
      PROVE  /\ o \in Obj /\ d \in Conn \cup {Null}
             /\ d # Null => watch[d] \in {o, Null}
             /\ WaitInv(o) /\ Busy(px, o)
  BY <1>1, LivingClient DEF EdgeInv, RunInv, MemInv, Owned
<1>2. CASE AcceptEvent(e)
  <2>1. /\ e.h = Listener /\ batch' = batch \ {e} /\ pc = "dispatch" /\ pc' = "accept"
        /\ UNCHANGED <<sent, taken, out, got, fin, rst, ready, px, soc, live>>
    BY <1>2 DEF AcceptEvent, Take, kvars, evars
  <2>2. Listener \notin live
    BY RunTypes
  <2>3. Spares(Listener)
    BY <2>1 DEF Spares
  <2>4. /\ pc # "afterRead" \/ (pc' = pc /\ cur' = cur)
        /\ pc' = "afterRead" /\ cur'.h \in deleted' => cur'.h \notin live
        /\ UNCHANGED <<sent, taken, out, got, fin, rst, ready, px, soc, live>>
    BY <2>1
  <2> QED
    BY <2>2, <2>3, <2>4, SameEdge
<1>3. CASE ClosedEvent(e)
  <2>1. /\ o \in live /\ Elsewhere(o, d) /\ o \notin live' /\ ready \ {d} \subseteq ready'
    BY <1>3, ClosedEventStream
  <2>2. Spares(o) /\ pc = "dispatch" /\ pc' = "dispatch"
    BY <1>3 DEF ClosedEvent, Take, Spares
  <2> QED
    BY <1>1, <2>1, <2>2, EdgeStep
<1>4. CASE ReadEvent(e)
  <2>1. /\ o \in live /\ Elsewhere(o, d)
        /\ px.tok[Rt(o)].mode = "S" => Quiet(o)'
        /\ px.tok[Rt(o)].mode # "S" => UNCHANGED <<px, taken>>
    BY <1>4, ReadEventStream
  <2>2. /\ e \in batch /\ batch' = batch \ {e} /\ pc = "dispatch" /\ pc' = "afterRead"
        /\ cur' = e /\ deleted' = {} /\ "HUP" \notin e.ev
        /\ UNCHANGED <<sent, out, got, fin, rst, ready, soc, live>>
    BY <1>4 DEF ReadEvent, Take
  <2>3. CASE px.tok[Rt(o)].mode = "S"
    <3>1. WaitInv(o)' /\ Spares(o)
      BY <2>1, <2>2, <2>3, QuietWaits DEF Spares
    <3> QED
      BY <1>1, <2>1, <2>2, <3>1, EdgeStep
  <2>4. CASE px.tok[Rt(o)].mode # "S"
    <3>1. Resumes(o, "OUT") => Resumes(o, "OUT")'
      <4>1. \A f \in batch : f.h = o => f = e
        BY <2>2 DEF RunInv, MemInv, BatchInv
      <4> QED
        BY <2>2, <4>1 DEF Resumes
    <3>2. Backend = "epoll" /\ px.tok[Wt(o)].mode = "A" /\ Writable(d) => Resumes(o, "OUT")'
      BY <1>1, <2>1, <3>1 DEF WaitInv
    <3>3. WaitInv(o)'
      BY <2>1, <2>2, <2>4, <3>2 DEF WaitInv, Writable, TxFree
    <3>4. Spares(o)
      BY <2>2 DEF Spares
    <3> QED
      BY <1>1, <2>1, <2>2, <3>3, <3>4, EdgeStep
  <2> QED
    BY <2>3, <2>4
<1>5. CASE WriteEvent(e)
  <2>1. /\ o \in live /\ Elsewhere(o, d)
        /\ px.tok[Wt(o)].mode = "A" => Quiet(o)'
        /\ px.tok[Wt(o)].mode # "A" => UNCHANGED <<px, out>>
    BY <1>5, WriteEventStream
  <2>2. /\ \/ e \in batch /\ batch' = batch \ {e} /\ "IN" \notin e.ev /\ pc = "dispatch"
           \/ batch' = batch /\ pc = "afterRead" /\ cur.h = o
        /\ pc' = "afterWrite" /\ "HUP" \notin e.ev
        /\ UNCHANGED <<sent, taken, got, fin, rst, ready, soc, live>>
    BY <1>5 DEF WriteEvent, WriteTurn, Take, evars
  <2>3. /\ Spares(o)
        /\ pc = "afterRead" => cur.h = o \/ (pc' = "afterRead" /\ cur' = cur)
        /\ pc' = "afterRead" /\ cur'.h \in deleted' => cur'.h \notin live'
        /\ ready \ {d} \subseteq ready'
    BY <2>2 DEF Spares
  <2>4. CASE px.tok[Wt(o)].mode = "A"
    <3>1. WaitInv(o)'
      BY <2>1, <2>4, QuietWaits
    <3> QED
      BY <1>1, <2>1, <2>3, <3>1, EdgeStep
  <2>5. CASE px.tok[Wt(o)].mode # "A"
    <3>1. Resumes(o, "IN") => Resumes(o, "IN")'
      <4>1. CASE e \in batch /\ batch' = batch \ {e} /\ "IN" \notin e.ev
        <5>1. \A f \in batch : f.h = o => f = e
          BY <4>1 DEF RunInv, MemInv, BatchInv
        <5> QED
          BY <2>2, <4>1, <5>1 DEF Resumes
      <4>2. CASE batch' = batch
        BY <2>2, <4>2 DEF Resumes
      <4> QED
        BY <2>2, <4>1, <4>2
    <3>2. px.tok[Rt(o)].mode = "S" /\ Readable(d) => Resumes(o, "IN")'
      BY <1>1, <2>1, <3>1 DEF WaitInv
    <3>3. WaitInv(o)'
      BY <2>1, <2>2, <2>5, <3>2 DEF WaitInv, Readable, Unread
    <3> QED
      BY <1>1, <2>1, <2>3, <3>3, EdgeStep
  <2> QED
    BY <2>4, <2>5
<1> QED
  BY <1>2, <1>3, <1>4, <1>5 DEF Dispatch

\* Callbacks and Acceptor::onRead
LEMMA CallEdge ==
  ASSUME RunInv, RunInv', StreamInv, EdgeInv,
         Complete \/ ExpireTimer \/ Accept \/ AcceptFails \/ AcceptUnset \/ AcceptDone
  PROVE  EdgeInv'
<1>1. CASE Complete
  <2> PICK t : t = Head(px.queue)
    OBVIOUS
  <2> PICK o : o = Owner(t)
    OBVIOUS
  <2> PICK d : d = soc[o]
    OBVIOUS
  <2>1. o \in live /\ Elsewhere(o, d) /\ (o \in live' => Quiet(o)')
    BY <1>1, CompleteStream
  <2>2. o \in Obj /\ d \in Conn \cup {Null} /\ (d # Null => watch[d] \in {o, Null})
    BY <2>1, LivingClient
  <2>3. UNCHANGED <<pc, batch, cur>> /\ Callback(Dequeue(px), t, px.tok[t].err, px.tok[t].ioSize)
    BY <1>1 DEF Complete
  <2>4. ready \ {d} \subseteq ready'
    BY <2>3, CallbackReady
  <2>5. \/ deleted' = deleted \cup {o} /\ live' = live \ {o}
        \/ deleted' = deleted /\ live' = live
    BY <2>3 DEF Callback, Delete, Reply, WriteBack, StartRecv
  <2>6. pc' = "afterRead" /\ cur'.h \in deleted' => cur'.h \notin live'
    BY <2>3, <2>5 DEF EdgeInv
  <2> QED
    BY <2>1, <2>2, <2>3, <2>4, <2>6, EdgeStep, QuietWaits DEF Spares
<1>2. CASE ExpireTimer
  <2>1. PICK t \in Token :
           /\ Owner(t) \in live /\ live' = live \ {Owner(t)}
           /\ Elsewhere(Owner(t), soc[Owner(t)])
           /\ ready \ {soc[Owner(t)]} \subseteq ready'
    BY <1>2, ExpireStream
  <2> PICK o : o = Owner(t)
    OBVIOUS
  <2> PICK d : d = soc[o]
    OBVIOUS
  <2>2. o \in Obj /\ d \in Conn \cup {Null} /\ (d # Null => watch[d] \in {o, Null})
    BY <2>1, LivingClient
  <2>3. UNCHANGED <<pc, batch, cur>> /\ pc = "timers"
    BY <1>2 DEF ExpireTimer
  <2>4. Elsewhere(o, d) /\ ready \ {d} \subseteq ready' /\ o \notin live'
    BY <2>1
  <2> QED
    BY <2>2, <2>3, <2>4, EdgeStep DEF Spares
<1>3. CASE Accept \/ AcceptFails \/ AcceptUnset
  <2>1. PICK o \in Obj, d \in Conn \cup {Null} :
           /\ o \notin live /\ Elsewhere(o, d) /\ Quiet(o)'
           /\ d # Null => watch[d] = Null
    BY <1>3, AcceptStream
  <2>2. ready \subseteq ready'
    BY <1>3, AcceptStream
  <2>3. pc = "accept" /\ batch' = batch /\ cur' = cur /\ cur.h = Listener
    BY <1>3 DEF Accept, AcceptFails, AcceptUnset, loopVars, RunInv, MemInv, BatchInv
  <2>4. Listener \notin live'
    BY DEF RunInv, CallInv, EchoTypeOK
  <2>5. d # Null => watch[d] \in {o, Null}
    BY <2>1
  <2> QED
    BY <2>1, <2>2, <2>3, <2>4, <2>5, EdgeStep, QuietWaits DEF Spares
<1>4. CASE AcceptDone
  <2>1. /\ pc = "accept" /\ batch' = batch /\ cur' = cur /\ cur.h = Listener
        /\ UNCHANGED <<sent, taken, out, got, fin, rst, ready, px, soc, live>>
    BY <1>4 DEF AcceptDone, kvars, evars, RunInv, MemInv, BatchInv
  <2>2. Listener \notin live
    BY RunTypes
  <2> QED
    BY <2>1, <2>2, SameEdge DEF Spares
<1> QED
  BY <1>1, <1>2, <1>3, <1>4

\* What a peer does raises the edge it must, for a connection that is watched.
LEMMA PeerEdge ==
  ASSUME CallInv, NEW c \in Conn, ConnInv(c), NEW d \in Conn, watch[c] # Null,
         Connect(d) \/ PeerSend(d) \/ PeerFinish(d) \/ PeerReset(d) \/ PeerRecv(d)
  PROVE  /\ ready \subseteq ready'
         /\ Readable(c)' => Readable(c) \/ c \in ready'
         /\ Backend = "epoll" /\ Writable(c)' => Writable(c) \/ c \in ready'
<1>1. KernelTypeOK
  BY DEF CallInv
<1>2. CASE Connect(d)
  BY <1>2 DEF Connect, Readable, Writable, Unread, TxFree
<1>3. CASE PeerSend(d)
  <2>1. /\ sent' = [sent EXCEPT ![d] = sent[d] + 1] /\ ready' = ready \cup Edge(d)
        /\ UNCHANGED <<taken, out, got, fin, rst>>
    BY <1>3 DEF PeerSend
  <2>2. CASE c = d
    BY <2>1, <2>2 DEF Edge, Writable, TxFree
  <2>3. CASE c # d
    BY <1>1, <2>1, <2>3 DEF KernelTypeOK, Readable, Writable, Unread, TxFree
  <2> QED
    BY <2>2, <2>3
<1>4. CASE PeerFinish(d)
  <2>1. /\ fin' = fin \cup {d} /\ ready' = ready \cup Edge(d)
        /\ UNCHANGED <<sent, taken, out, got, rst>>
    BY <1>4 DEF PeerFinish
  <2> QED
    BY <2>1 DEF Edge, Readable, Writable, Unread, TxFree
<1>5. CASE PeerReset(d)
  <2>1. /\ rst' = rst \cup {d} /\ ready' = ready \cup Edge(d)
        /\ UNCHANGED <<sent, taken, out, got, fin>>
    BY <1>5 DEF PeerReset
  <2> QED
    BY <2>1 DEF Edge, Readable, Writable, Unread, TxFree
<1>6. CASE PeerRecv(d)
  <2>1. /\ got' = [got EXCEPT ![d] = got[d] + 1]
        /\ ready' = IF TxFree(d) = 0 /\ Backend = "epoll" THEN ready \cup Edge(d) ELSE ready
        /\ UNCHANGED <<sent, taken, out, fin, rst>>
    BY <1>6 DEF PeerRecv
  <2>2. Readable(c)' <=> Readable(c)
    BY <2>1 DEF Readable, Unread
  <2>3. CASE c # d
    <3>1. got'[c] = got[c]
      BY <1>1, <2>1, <2>3 DEF KernelTypeOK
    <3> QED
      BY <2>1, <2>2, <3>1 DEF Writable, TxFree
  <2>4. CASE c = d
    <3>1. /\ TxFree(c) >= 0 /\ TxFree(c) \in Int
      BY <1>1 DEF KernelTypeOK, ConnInv, TxFree
    <3>2. CASE TxFree(c) = 0
      BY <2>1, <2>2, <2>4, <3>2 DEF Edge
    <3>3. CASE TxFree(c) > 0
      BY <2>1, <2>2, <3>3 DEF Writable
    <3> QED
      BY <2>1, <3>1, <3>2, <3>3
  <2> QED
    BY <2>3, <2>4
<1> QED
  BY <1>2, <1>3, <1>4, <1>5, <1>6

\* The environment takes no edge away, and raises one with everything it does.
LEMMA EnvironmentEdge ==
  ASSUME RunInv, RunInv', StreamInv, EdgeInv, Environment
  PROVE  EdgeInv'
<1>1. CASE (Signal \/ Tick) /\ UNCHANGED evars
  <2>1. UNCHANGED <<sent, taken, out, got, fin, rst, ready, px, soc, live,
                    batch, pc, cur, deleted>>
    BY <1>1 DEF Signal, Tick, kvars, loopVars, evars
  <2>2. Spares(Listener) /\ Listener \notin live
    BY <2>1, RunTypes DEF Spares
  <2>3. pc' = "afterRead" /\ cur'.h \in deleted' => cur'.h \notin live
    BY <2>1 DEF EdgeInv
  <2> QED
    BY <2>1, <2>2, <2>3, SameEdge
<1>2. ASSUME NEW d \in Conn, UNCHANGED <<pvars, evars>>,
             Connect(d) \/ PeerSend(d) \/ PeerFinish(d) \/ PeerReset(d) \/ PeerRecv(d)
      PROVE  EdgeInv'
  <2>1. UNCHANGED <<px, soc, live, batch, pc, cur, deleted>>
    BY <1>2 DEF pvars, evars, loopVars
  <2>2. ASSUME NEW o \in live PROVE WaitInv(o)'
    <3>1. WaitInv(o) /\ ClientInv(o) /\ Busy(px, o)
      BY <2>2, LivingClient DEF EdgeInv, RunInv, MemInv, Owned
    <3> PICK c : c = soc[o]
      OBVIOUS
    <3>2. CASE c = Null
      <4>1. px.tok[Rt(o)].mode = "E" /\ px.tok[Wt(o)].mode = "N"
        BY <3>1, <3>2 DEF ClientInv, Busy
      <4> QED
        BY <2>1, <4>1 DEF WaitInv
    <3>3. CASE c # Null
      <4>1. c \in Conn /\ ConnInv(c) /\ watch[c] = o /\ watch[c] # Null
        BY <2>2, <3>3, LivingClient
      <4>2. /\ ready \subseteq ready'
            /\ Readable(c)' => Readable(c) \/ c \in ready'
            /\ Backend = "epoll" /\ Writable(c)' => Writable(c) \/ c \in ready'
        BY <1>2, <4>1, PeerEdge DEF RunInv
      <4>3. \A side : Resumes(o, side) \/ c \in ready' => Resumes(o, side)'
        BY <2>1, <4>2 DEF Resumes
      <4>4. soc[o] = c /\ soc'[o] = c
        BY <2>1
      <4>5. px.tok[Rt(o)].mode = "S" /\ Readable(c)' => Resumes(o, "IN")'
        BY <3>1, <4>2, <4>3, <4>4 DEF WaitInv
      <4>6. Backend = "epoll" /\ px.tok[Wt(o)].mode = "A" /\ Writable(c)' => Resumes(o, "OUT")'
        BY <3>1, <4>2, <4>3, <4>4 DEF WaitInv
      <4> QED
        BY <2>1, <4>4, <4>5, <4>6 DEF WaitInv, Readable, Writable, Unread, TxFree
    <3> QED
      BY <3>2, <3>3
  <2> QED
    BY <2>1, <2>2 DEF EdgeInv
<1> QED
  BY <1>1, <1>2 DEF Environment, Peer

\* Once run() has returned nothing happens.
LEMMA StoppedStays == pc = "stopped" /\ [Next]_vars => UNCHANGED vars
BY DEF Next, Server, Loop, Poll, Interrupted, EndBatch, EndEvent, EventDone, EndTimers,
       Dispatch, ClosedEvent, AcceptEvent, ReadEvent, WriteEvent, WriteTurn, Take,
       Accept, AcceptFails, AcceptUnset, AcceptDone, Complete, ExpireTimer, Environment, Ended

\* Until run() returns, every step keeps EdgeInv.
LEMMA NextEdge ==
  ASSUME RunInv, RunInv', StreamInv, EdgeInv, [Next]_vars, pc' # "stopped"
  PROVE  EdgeInv'
<1>1. CASE Loop
  BY <1>1, LoopEdge
<1>2. ASSUME NEW e \in batch \cup {cur}, Dispatch(e)
      PROVE  EdgeInv'
  BY <1>2, DispatchEdge
<1>3. CASE Accept \/ AcceptFails \/ AcceptUnset \/ AcceptDone \/ Complete \/ ExpireTimer
  BY <1>3, CallEdge
<1>4. CASE Environment
  BY <1>4, EnvironmentEdge
<1>5. CASE UNCHANGED vars
  <2>1. UNCHANGED <<sent, taken, out, got, fin, rst, ready, px, soc, live,
                    batch, pc, cur, deleted>>
    BY <1>5 DEF vars, kvars, pvars, loopVars, evars
  <2>2. Spares(Listener) /\ Listener \notin live
    BY <2>1, RunTypes DEF Spares
  <2>3. pc' = "afterRead" /\ cur'.h \in deleted' => cur'.h \notin live
    BY <2>1 DEF EdgeInv
  <2> QED
    BY <2>1, <2>2, <2>3, SameEdge
<1> QED
  BY <1>1, <1>2, <1>3, <1>4, <1>5 DEF Next, Server

\* EdgeInv holds until run() returns.
LEMMA EdgeAlways == Spec => [](pc # "stopped" => EdgeInv)
<1>1. Init => EdgeInv
  BY DEF Init, ProactorInit, EdgeInv
<1>2. RunInv /\ RunInv' /\ StreamInv /\ (pc # "stopped" => EdgeInv) /\ [Next]_vars
        => (pc # "stopped" => EdgeInv)'
  <2> SUFFICES ASSUME RunInv, RunInv', StreamInv, pc # "stopped" => EdgeInv,
                      [Next]_vars, pc' # "stopped"
               PROVE  EdgeInv'
    OBVIOUS
  <2>1. pc # "stopped"
    BY StoppedStays DEF vars, pvars, loopVars
  <2> QED
    BY <2>1, NextEdge
<1> QED
  BY <1>1, <1>2, StreamAlways, PTL DEF Spec

\* As long as run() runs, a pending read whose data, end or reset has arrived
\* has an edge in the poller or an event in run()'s array: with edge-triggered
\* polling no arrival is missed, on epoll and on kqueue, whatever the order in
\* which peers, handlers, deletions and reused objects follow each other.
THEOREM ReadEdgeKept == Spec => [](pc # "stopped" => ReadResumes)
<1>1. RunInv /\ StreamInv /\ (pc # "stopped" => EdgeInv) => (pc # "stopped" => ReadResumes)
  <2> SUFFICES ASSUME RunInv, StreamInv, EdgeInv, NEW o \in live,
                      Pending(px, Rt(o)), Readable(soc[o])
               PROVE  Resumes(o, "IN")
    BY DEF ReadResumes
  <2>1. WaitInv(o) /\ ClientInv(o)
    BY DEF EdgeInv, StreamInv
  <2>2. px.tok[Rt(o)].mode = "S"
    BY <2>1 DEF ClientInv, ReadInv, Pending
  <2> QED
    BY <2>1, <2>2 DEF WaitInv
<1> QED
  BY <1>1, StreamAlways, EdgeAlways, PTL

\* The same, on epoll, of a pending write and room in the send buffer.  (The
\* kqueue build registers a socket for reading only.)
THEOREM WriteEdgeKept ==
  ASSUME Backend = "epoll"
  PROVE  Spec => [](pc # "stopped" => WriteResumes)
<1>1. RunInv /\ StreamInv /\ (pc # "stopped" => EdgeInv) => (pc # "stopped" => WriteResumes)
  <2> SUFFICES ASSUME RunInv, StreamInv, EdgeInv, NEW o \in live,
                      Pending(px, Wt(o)), Writable(soc[o])
               PROVE  Resumes(o, "OUT")
    BY DEF WriteResumes
  <2>1. WaitInv(o) /\ ClientInv(o) /\ Busy(px, o)
    BY DEF EdgeInv, StreamInv, RunInv, MemInv, Owned
  <2>2. px.tok[Wt(o)].mode = "A"
    BY <2>1 DEF ClientInv, WriteInv, Pending, Busy
  <2> QED
    BY <2>1, <2>2 DEF WaitInv
<1> QED
  BY <1>1, StreamAlways, EdgeAlways, PTL

-----------------------------------------------------------------------------
(* The listening socket.                                                   *)

\* While a connection waits in the backlog there is a descriptor left for it,
\* if there is one for each connection.
LEMMA DescriptorLeft ==
  ASSUME IsFiniteSet(Conn), Cardinality(Conn) <= FdLimit, CallInv, BacklogInv,
         backlog # <<>>
  PROVE  Cardinality(Descriptors) < FdLimit
<1> DEFINE c == Head(backlog)
<1>1. backlog \in Seq(Conn) /\ 1 \in 1..Len(backlog) /\ c = backlog[1] /\ c \in Conn
  BY DEF CallInv, KernelTypeOK
<1>2. link[c] = "backlog"
  BY <1>1 DEF BacklogInv
<1>3. Descriptors \subseteq Conn \ {c}
  BY <1>2 DEF Descriptors
<1> HIDE DEF c
<1>4. /\ IsFiniteSet(Conn \ {c}) /\ Cardinality(Conn \ {c}) = Cardinality(Conn) - 1
      /\ Cardinality(Conn) \in Nat
  BY <1>1, FS_RemoveElement, FS_CardinalityType
<1>5. Cardinality(Descriptors) <= Cardinality(Conn \ {c}) /\ IsFiniteSet(Descriptors)
  BY <1>3, <1>4, FS_Subset
<1>6. Cardinality(Descriptors) \in Nat
  BY <1>5, FS_CardinalityType
<1> QED
  BY <1>4, <1>5, <1>6

\* A step that leaves the backlog and the listening socket's edge alone
LEMMA SameAccept ==
  ASSUME AcceptResumes, backlog' = backlog, Listener \in ready => Listener \in ready',
         \A e \in batch : e.h = Listener => e \in batch', pc # "accept" \/ pc' = "accept"
  PROVE  AcceptResumes'
BY DEF AcceptResumes

\* Until run() returns, every step keeps the listening socket's edge.
LEMMA NextAccept ==
  ASSUME IsFiniteSet(Conn), Cardinality(Conn) <= FdLimit, AcceptFaults = {},
         RunInv, RunInv', StreamInv, AcceptResumes, [Next]_vars, pc' # "stopped"
  PROVE  AcceptResumes'
<1>1. CASE Poll
  <2>1. pc = "wait" /\ batch = {} /\ backlog' = backlog /\ ~stop
    BY <1>1 DEF Poll, RunInv, MemInv, BatchInv
  <2>2. CASE backlog = <<>>
    BY <2>1, <2>2 DEF AcceptResumes
  <2>3. CASE backlog # <<>>
    <3> DEFINE reported == {k \in ready : Events(k) # {}}
               e == [h |-> HandlerOf(Listener), ev |-> Events(Listener)]
    <3>1. Listener \in ready
      BY <2>1, <2>3 DEF AcceptResumes
    <3>2. Events(Listener) # {} /\ HandlerOf(Listener) = Listener
      BY <2>3 DEF Events, HandlerOf
    <3>3. Listener \in reported
      BY <3>1, <3>2
    <3>4. batch' = {[h |-> HandlerOf(k), ev |-> Events(k)] : k \in reported}
      BY <1>1, <2>1, <3>3 DEF Poll
    <3>5. e \in batch' /\ e.h = Listener
      BY <3>2, <3>3, <3>4
    <3> QED
      BY <3>5 DEF AcceptResumes
  <2> QED
    BY <2>2, <2>3
<1>2. CASE Interrupted \/ EndBatch \/ EndEvent \/ EndTimers
  <2>1. UNCHANGED <<backlog, ready, batch>> /\ pc # "accept"
    BY <1>2 DEF Interrupted, EndBatch, EndEvent, EventDone, EndTimers, kvars
  <2> QED
    BY <2>1, SameAccept
<1>3. ASSUME NEW e \in batch \cup {cur}, Dispatch(e) PROVE AcceptResumes'
  <2>1. CASE AcceptEvent(e)
    BY <2>1 DEF AcceptEvent, AcceptResumes
  <2>2. CASE ClosedEvent(e)
    <3> PICK o : o = e.h
      OBVIOUS
    <3> PICK d : d = soc[o]
      OBVIOUS
    <3>1. o \in live /\ ready \ {d} \subseteq ready'
      BY <2>2, ClosedEventStream
    <3>2. d # Listener
      BY <3>1, LivingClient
    <3>3. /\ batch' = batch \ {e} /\ e.h # Listener /\ pc = "dispatch"
          /\ backlog' = backlog
      BY <2>2 DEF ClosedEvent, Take, Callback, Delete, kvars
    <3> QED
      BY <3>1, <3>2, <3>3, SameAccept
  <2>3. CASE ReadEvent(e) \/ WriteEvent(e)
    <3>1. /\ batch \ {e} \subseteq batch' /\ e.h # Listener
          /\ pc # "accept" /\ UNCHANGED <<backlog, ready>>
      BY <2>3 DEF ReadEvent, WriteEvent, WriteTurn, Take
    <3> QED
      BY <3>1, SameAccept
  <2> QED
    BY <1>3, <2>1, <2>2, <2>3 DEF Dispatch
<1>4. CASE Accept
  <2>1. pc' = "accept"
    BY <1>4 DEF Accept, loopVars
  <2> QED
    BY <2>1 DEF AcceptResumes
<1>5. CASE AcceptFails
  <2> SUFFICES ASSUME backlog # <<>> PROVE FALSE
    BY <1>5 DEF AcceptFails, AcceptResumes
  <2>1. Cardinality(Descriptors) >= FdLimit
    BY <1>5 DEF AcceptFails
  <2>2. Cardinality(Descriptors) < FdLimit
    BY DescriptorLeft DEF RunInv, StreamInv
  <2>3. Descriptors \subseteq Conn
    BY DEF Descriptors
  <2>4. Cardinality(Descriptors) \in Nat
    BY <2>3, FS_Subset, FS_CardinalityType
  <2> QED
    BY <2>1, <2>2, <2>4
<1>6. CASE AcceptDone
  BY <1>6 DEF AcceptDone, AcceptResumes, kvars
<1>7. CASE Complete
  <2> PICK t : t = Head(px.queue)
    OBVIOUS
  <2> PICK o : o = Owner(t)
    OBVIOUS
  <2> PICK d : d = soc[o]
    OBVIOUS
  <2>1. o \in live
    BY <1>7, CompleteStream
  <2>2. d # Listener
    BY <2>1, LivingClient
  <2>3. /\ Callback(Dequeue(px), t, px.tok[t].err, px.tok[t].ioSize)
        /\ batch' = batch /\ pc # "accept"
    BY <1>7 DEF Complete
  <2>4. ready \ {d} \subseteq ready'
    BY <2>3, CallbackReady
  <2>5. backlog' = backlog
    BY <2>3 DEF Callback, Delete, Reply, WriteBack, StartRecv
  <2> QED
    BY <2>2, <2>3, <2>4, <2>5, SameAccept
<1>8. CASE ExpireTimer
  <2>1. PICK t \in Token : Owner(t) \in live /\ ready \ {soc[Owner(t)]} \subseteq ready'
    BY <1>8, ExpireStream
  <2>2. soc[Owner(t)] # Listener
    BY <2>1, LivingClient
  <2>3. backlog' = backlog /\ batch' = batch /\ pc # "accept"
    BY <1>8 DEF ExpireTimer, Callback, Delete
  <2> QED
    BY <2>1, <2>2, <2>3, SameAccept
<1>9. CASE Environment \/ UNCHANGED vars
  <2>1. UNCHANGED <<batch, pc>>
    BY <1>9, EnvironmentMem
  <2>2. Listener \in ready' \/ (backlog' = backlog /\ ready \subseteq ready')
    BY <1>9 DEF Environment, Peer, Connect, PeerSend, PeerFinish, PeerReset, PeerRecv,
                Signal, Tick, vars, kvars
  <2>3. CASE Listener \in ready'
    BY <2>3 DEF AcceptResumes
  <2>4. CASE backlog' = backlog /\ ready \subseteq ready'
    BY <2>1, <2>4, SameAccept
  <2> QED
    BY <2>2, <2>3, <2>4
<1>10. ~AcceptUnset
  BY DEF AcceptUnset
<1> QED
  BY <1>1, <1>2, <1>3, <1>4, <1>5, <1>6, <1>7, <1>8, <1>9, <1>10 DEF Next, Server, Loop

\* As long as run() runs, and neither call of _accept fails, a connection in the
\* backlog has the listening socket's edge in the poller, its event in run()'s
\* array, or Acceptor::onRead at work.  (When accept() or fcntl() fails, for
\* want of a descriptor or otherwise, the edge is used up and the backlog waits
\* for the next connection.)
THEOREM AcceptEdgeKept ==
  ASSUME IsFiniteSet(Conn), Cardinality(Conn) <= FdLimit, AcceptFaults = {}
  PROVE  Spec => [](pc # "stopped" => AcceptResumes)
<1>1. Init => AcceptResumes
  BY DEF Init, KernelInit, AcceptResumes
<1>2. RunInv /\ RunInv' /\ StreamInv /\ (pc # "stopped" => AcceptResumes) /\ [Next]_vars
        => (pc # "stopped" => AcceptResumes)'
  <2> SUFFICES ASSUME RunInv, RunInv', StreamInv, pc # "stopped" => AcceptResumes,
                      [Next]_vars, pc' # "stopped"
               PROVE  AcceptResumes'
    OBVIOUS
  <2>1. pc # "stopped"
    BY StoppedStays DEF vars, pvars, loopVars
  <2> QED
    BY <2>1, NextAccept
<1> QED
  BY <1>1, <1>2, StreamAlways, PTL DEF Spec
=============================================================================
