------------------------------ MODULE AioEcho -------------------------------
(***************************************************************************)
(* The echo server of src/aio/echo on the aio library: Server accepts a    *)
(* connection and creates an EchoClient, which reads some bytes, writes    *)
(* them all back, and reads again; an error, an end of file or a timeout   *)
(* deletes it.                                                             *)
(***************************************************************************)
EXTENDS Proactor

CONSTANTS
  BufSize,  \* sizeof(recvBuf)
  FdLimit,  \* connections that may be open before accept() fails (EMFILE)
  AcceptFaults,  \* the calls of _accept that may fail for another reason
  Garbage   \* what the memory of an uninitialised Token::tv may hold

ASSUME AioEchoAssumption ==
  /\ BufSize \in Nat \ {0}
  /\ FdLimit \in Nat
  /\ AcceptFaults \subseteq {"accept", "fcntl"}
  /\ Garbage \subseteq Nat /\ Garbage # {}

VARIABLES
  live,      \* the EchoClients allocated and not deleted
  recvBuf,   \* EchoClient::recvBuf of each object
  sendBuf    \* EchoClient::sendBuf

evars == <<live, recvBuf, sendBuf>>
vars == <<kvars, pvars, evars>>

Buffer == [1..BufSize -> Nat]
EmptyBuffer == [i \in 1..BufSize |-> 0]

EchoTypeOK ==
  /\ live \subseteq Obj
  /\ recvBuf \in [Obj -> Buffer]
  /\ sendBuf \in [Obj -> Buffer]

\* What every variable ranges over: the declarations of src/aio.
TypeOK == KernelTypeOK /\ ProactorTypeOK /\ EchoTypeOK

Init ==
  /\ KernelInit
  /\ ProactorInit
  /\ live = {}
  /\ recvBuf = [o \in Obj |-> EmptyBuffer]
  /\ sendBuf = [o \in Obj |-> EmptyBuffer]

-----------------------------------------------------------------------------
(* EchoClient.  Each operator is what a call does to the state, given the  *)
(* library's data S at the call.                                           *)

\* The bytes a read of object o's socket leaves in recvBuf.
Received(o, c, r) ==
  IF r.ret > 0 THEN [recvBuf EXCEPT ![o] = AfterReadBuf(c, r, @)] ELSE recvBuf

\* Mistake: wait for the next event without trying to read first.
StartRecvLazy(S, o) ==
  /\ px' = Await(InitToken(S, Rt(o), BufSize, "OK"), Rt(o), 0, "S", now)
  /\ UNCHANGED <<kvars, soc, deleted, evars>>

\* EchoClient::startRecv
StartRecv(S, o) ==
  LET c == soc[o]
      r == IF S.tok[Rt(o)].mode = "N" THEN ReadResult(c, BufSize)
           ELSE Result(-1, "busy")
  IN  /\ px' = ReadSome(S, o, BufSize, r, now)
      /\ taken' = AfterRead(c, r)
      /\ recvBuf' = Received(o, c, r)
      /\ UNCHANGED <<link, sent, out, got, fin, rst, backlog, watch, ready,
                     soc, deleted, live, sendBuf>>

\* delete this: ~EchoClient closes the socket, ~Socket forgets its tokens.
Delete(S, o) ==
  /\ px' = DestroySocket(S, o)
  /\ soc' = [soc EXCEPT ![o] = Null]
  /\ deleted' = deleted \cup {o}
  /\ live' = live \ {o}
  /\ recvBuf' = [recvBuf EXCEPT ![o] = EmptyBuffer]
  /\ sendBuf' = [sendBuf EXCEPT ![o] = EmptyBuffer]
  /\ Close(soc[o])
  /\ UNCHANGED <<sent, taken, out, got, fin, rst, backlog>>

\* memcpy of n bytes to sendBuf, and writeAll
WriteBack(S, o, n) ==
  LET c == soc[o]
      copy == [i \in 1..BufSize |-> IF i <= n THEN recvBuf[o][i] ELSE sendBuf[o][i]]
      r == IF S.tok[Wt(o)].mode = "N" THEN WriteResult(c, n)
           ELSE Result(-1, "busy")
  IN  /\ px' = WriteAll(S, o, n, r, now)
      /\ sendBuf' = [sendBuf EXCEPT ![o] = copy]
      /\ out' = AfterWrite(c, r, copy, 0)
      /\ UNCHANGED <<link, sent, taken, got, fin, rst, backlog, watch, ready,
                     soc, deleted, live>>

\* EchoClient::onRead with data
Reply(S, o, n) == WriteBack(S, o, n) /\ UNCHANGED recvBuf

\* EchoClient::onRead and onWrite, the callbacks of the two tokens: on an
\* error or on 0 bytes the client goes, otherwise it turns to the other token.
Callback(S, t, err, n) ==
  IF err # "OK" \/ n <= 0 THEN Delete(S, Owner(t))
  ELSE IF t = Rt(Owner(t)) THEN Reply(S, Owner(t), n)
  ELSE StartRecv(S, Owner(t))

-----------------------------------------------------------------------------
(* The loop's steps that call back.                                        *)

\* Taking event e out of what epoll_wait returned.
Take(e) == pc = "dispatch" /\ e \in batch /\ batch' = batch \ {e}

\* EPOLLERR or EPOLLHUP: onClose, and on to the next event.  The completion
\* queue is not drained and _deleted not cleared.  (Nothing hangs up the
\* listening socket while run() runs.)
ClosedEvent(e) ==
  /\ Take(e)
  /\ e.h # Listener /\ "HUP" \in e.ev
  /\ LET Z == Closed(px, e.h)
         cb == ClosedCallback(px, e.h)
     IN  IF cb # {} THEN \E t \in cb : Callback(Z, t, "ECONNRESET", 0)
         ELSE px' = Z /\ UNCHANGED <<kvars, soc, deleted, evars>>
  /\ UNCHANGED <<pc, cur, scan, stop, now>>

\* EPOLLIN on the listening socket
AcceptEvent(e) ==
  /\ Take(e)
  /\ e.h = Listener
  /\ pc' = "accept"
  /\ cur' = e
  /\ deleted' = {}
  /\ UNCHANGED <<kvars, px, soc, scan, stop, now, evars>>

\* Server::onAccept: new EchoClient(c, proactor), then startRecv.  c is Null
\* when _accept() failed.
OnAccept(c) ==
  \E o \in Obj \ live, rtv \in Garbage, wtv \in Garbage :
    LET r == ReadResult(c, BufSize)
    IN  /\ px' = ReadSome(NewSocket(px, o, rtv, wtv), o, BufSize, r, now)
        /\ taken' = AfterRead(c, r)
        /\ soc' = [soc EXCEPT ![o] = c]
        /\ live' = live \cup {o}
        /\ recvBuf' = Received(o, c, r)
        /\ IF c = Null THEN UNCHANGED <<watch, ready>>
           ELSE /\ watch' = [watch EXCEPT ![c] = o]
                /\ ready' = IF Events(c) = {} THEN ready ELSE ready \cup {c}
        /\ UNCHANGED <<sent, out, got, fin, rst, sendBuf>>

\* One turn of the loop of Acceptor::onRead: accept() returns a connection ...
Accept ==
  /\ pc = "accept"
  /\ backlog # <<>>
  /\ Cardinality(Descriptors) < FdLimit
  /\ link' = [link EXCEPT ![Head(backlog)] = "open"]
  /\ backlog' = Tail(backlog)
  /\ OnAccept(Head(backlog))
  /\ UNCHANGED <<loopVars, stop, now>>

\* ... or an error, which is passed on with soc = -1 and ends the loop (EMFILE
\* comes whether or not a connection is waiting) ...
AcceptFails ==
  /\ pc = "accept"
  /\ Cardinality(Descriptors) >= FdLimit \/ "accept" \in AcceptFaults
  /\ pc' = "afterRead"
  /\ OnAccept(Null)
  /\ UNCHANGED <<link, backlog, batch, cur, deleted, scan, stop, now>>

\* ... or a connection that SetNonBlock fails for: _accept returns -1 too, and
\* its descriptor, which nothing holds any more, stays open ...
AcceptUnset ==
  /\ pc = "accept"
  /\ "fcntl" \in AcceptFaults
  /\ backlog # <<>>
  /\ Cardinality(Descriptors) < FdLimit
  /\ link' = [link EXCEPT ![Head(backlog)] = "blocking"]
  /\ backlog' = Tail(backlog)
  /\ pc' = "afterRead"
  /\ OnAccept(Null)
  /\ UNCHANGED <<batch, cur, deleted, scan, stop, now>>

\* Mistake: one accept() per event.
AcceptDoneEarly ==
  /\ pc = "accept"
  /\ pc' = "afterRead"
  /\ UNCHANGED <<kvars, px, soc, batch, cur, deleted, scan, stop, now, evars>>

\* ... or EAGAIN.
AcceptDone ==
  /\ pc = "accept"
  /\ backlog = <<>>
  /\ pc' = "afterRead"
  /\ UNCHANGED <<kvars, px, soc, batch, cur, deleted, scan, stop, now, evars>>

\* EPOLLIN on a socket: _deleted.clear() and Socket::onRead, which does
\* nothing unless a read is pending.
ReadEvent(e) ==
  LET c == soc[e.h]
      t == px.tok[Rt(e.h)]
      r == ReadResult(c, t.bufSize)
  IN  /\ Take(e)
      /\ e.h # Listener /\ "IN" \in e.ev /\ "HUP" \notin e.ev
      /\ pc' = "afterRead"
      /\ cur' = e
      /\ deleted' = {}
      /\ IF t.mode = "S"
         THEN /\ px' = OnReadSome(px, e.h, r)
              /\ taken' = AfterRead(c, r)
              /\ recvBuf' = Received(e.h, c, r)
         ELSE UNCHANGED <<px, taken, recvBuf>>
      /\ UNCHANGED <<link, sent, out, got, fin, rst, backlog, watch, ready,
                     soc, scan, stop, now, live, sendBuf>>

\* Mistake: _deleted is not searched.
WriteTurnUnchecked(e) ==
  \/ Take(e) /\ "IN" \notin e.ev
  \/ pc = "afterRead" /\ px.queue = <<>> /\ e = cur /\ UNCHANGED batch

\* It is the turn of e's EPOLLOUT: the socket was not readable, or its onRead is
\* over and has not deleted it.
WriteTurn(e) ==
  \/ Take(e) /\ "IN" \notin e.ev
  \/ /\ pc = "afterRead" /\ px.queue = <<>>
     /\ e = cur /\ e.h \notin deleted
     /\ UNCHANGED batch

\* EPOLLOUT on a socket: Socket::onWrite, which does nothing unless a write is
\* pending.  The event is the one epoll_wait reported, however old.
WriteEvent(e) ==
  LET o == e.h
      t == px.tok[Wt(o)]
      c == soc[o]
      r == WriteResult(c, t.bufSize - t.ioSize)
  IN  /\ WriteTurn(e)
      /\ e.h # Listener /\ "OUT" \in e.ev /\ "HUP" \notin e.ev
      /\ pc' = "afterWrite"
      /\ cur' = e
      /\ IF t.mode = "A"
         THEN /\ px' = OnWriteAll(px, o, r)
              /\ out' = AfterWrite(c, r, sendBuf[o], t.ioSize)
         ELSE UNCHANGED <<px, out>>
      /\ UNCHANGED <<link, sent, taken, got, fin, rst, backlog, watch, ready,
                     soc, deleted, scan, stop, now, evars>>

\* One turn of the loop of _processCompletion.
Complete ==
  /\ pc \in {"afterRead", "afterWrite"}
  /\ px.queue # <<>>
  /\ LET t == Head(px.queue)
     IN  Callback(Dequeue(px), t, px.tok[t].err, px.tok[t].ioSize)
  /\ UNCHANGED <<pc, batch, cur, scan, stop, now>>

\* One turn of the loop of _processTimer.
ExpireTimer ==
  /\ pc = "timers"
  /\ \E t \in Expired(px, scan) : Callback(Expire(px, t), t, "ETIMEDOUT", 0)
  /\ UNCHANGED <<pc, batch, cur, scan, stop, now>>

-----------------------------------------------------------------------------
Dispatch(e) ==
  ClosedEvent(e) \/ AcceptEvent(e) \/ ReadEvent(e) \/ WriteEvent(e)

Loop == (Poll \/ Interrupted \/ EndBatch \/ EndEvent \/ EndTimers) /\ UNCHANGED evars

Server ==
  \/ Loop
  \/ \E e \in batch \cup {cur} : Dispatch(e)
  \/ Accept \/ AcceptFails \/ AcceptUnset \/ AcceptDone
  \/ Complete \/ ExpireTimer

\* Until the process ends; what the peers see after that is not modelled.
Environment ==
  /\ ~Ended
  /\ \/ Peer /\ UNCHANGED <<pvars, evars>>
     \/ (Signal \/ Tick) /\ UNCHANGED evars

Next == Server \/ Environment

Spec == Init /\ [][Next]_vars

\* The one thread of the process keeps running.
FairSpec == Spec /\ WF_vars(Server)
-----------------------------------------------------------------------------
(* Safety.                                                                 *)

\* No read() or write() is given memory beyond its buffer: what is done of an
\* operation never exceeds what was asked for, and that never exceeds the size
\* of recvBuf and sendBuf (buf + ioSize, bufSize - ioSize in onRead, onWrite).
BufferSafe ==
  \A t \in Token :
    px.tok[t].ioSize <= px.tok[t].bufSize /\ px.tok[t].bufSize <= BufSize

\* No pointer the loop will follow is dangling: events waiting in run()'s
\* array, the event being dispatched unless _deleted holds its handler,
\* _timerList, the completion queue, and the interest list, whose entry is
\* also the entry of the very object that owns the descriptor.
MemorySafe ==
  /\ \A e \in batch : e.h \in live \cup {Listener}
  /\ pc = "afterRead" /\ cur.h \notin deleted => cur.h \in live \cup {Listener}
  /\ \A t \in px.timers : Owner(t) \in live
  /\ \A i \in DOMAIN px.queue : Owner(px.queue[i]) \in live
  /\ \A c \in Conn : watch[c] # Null => watch[c] \in live /\ soc[watch[c]] = c

\* run() calls a handler, and _processCompletion and _processTimer a callback,
\* only of an object that is alive (the purpose of _deleted, and of _remove
\* and _popTimer in ~Socket).
CallsLiveObject ==
  [][/\ \A e \in batch \ batch' : e.h \in live \cup {Listener}
     /\ pc = "afterRead" /\ pc' = "afterWrite" => cur.h \in live
     /\ \A o \in deleted' \ deleted : o \in live]_vars

\* One echo is one read followed by one write: each client has exactly one
\* operation outstanding, so neither readSome nor writeAll is ever refused as
\* "in progress", and a token is in the completion queue, once, exactly when
\* its mode says the operation is over.
OneOperation ==
  \A o \in live :
    /\ (px.tok[Rt(o)].mode = "N") # (px.tok[Wt(o)].mode = "N")
    /\ \A t \in {Rt(o), Wt(o)} :
         Cardinality({i \in DOMAIN px.queue : px.queue[i] = t}) =
           IF px.tok[t].mode \in {"D", "E"} THEN 1 ELSE 0

\* run() waits, takes the next event and expires timers only with an empty
\* completion queue: no completion is left behind until another event comes.
Drained == pc \in {"wait", "dispatch", "timers"} => px.queue = <<>>

\* A pending read whose data (or end, or reset) has arrived, and a pending
\* write with room in the send buffer, will be resumed: the edge is still in
\* the kernel, or in the events run() has yet to dispatch.  With edge-triggered
\* polling a lost edge is a connection that hangs.
Resumes(o, side) ==
  \/ soc[o] \in ready
  \/ \E e \in batch : e.h = o /\ e.ev \cap {side, "HUP"} # {}
  \/ side = "OUT" /\ pc = "afterRead" /\ cur.h = o /\ "OUT" \in cur.ev

ReadResumes ==
  \A o \in live :
    Pending(px, Rt(o)) /\ Readable(soc[o]) => Resumes(o, "IN")

WriteResumes ==
  \A o \in live :
    Pending(px, Wt(o)) /\ Writable(soc[o]) => Resumes(o, "OUT")

\* A connection in the backlog will be accepted: as long as _accept does not
\* fail Acceptor::onRead stops at EAGAIN only, so the edge of the listening
\* socket is not used up before.
AcceptResumes ==
  backlog # <<>> =>
    \/ Listener \in ready
    \/ \E e \in batch : e.h = Listener
    \/ pc = "accept"

\* Between two rounds every client has a descriptor of its own, registered with
\* the poller, so that one created with the -1 of a failed _accept() is gone;
\* and every descriptor of the process belongs to a client, but for those that
\* _accept itself lost, because SetNonBlock failed: no other way through the
\* callbacks, failing or not, leaks one.
NoLeak ==
  pc = "wait" =>
    /\ \A o \in live : soc[o] \in Descriptors /\ watch[soc[o]] = o
    /\ \A c \in Descriptors : link[c] = "blocking" \/ \E o \in live : soc[o] = c

\* _timerList is consistent: its tokens are of pending or just completed
\* operations, no two have the same tv (it is a set by tv), and none is later
\* than TIMEOUT_MS from now.
TimersSound ==
  \A t \in px.timers :
    /\ px.tok[t].mode # "N"
    /\ px.tv[t] <= now + Timeout
    /\ \A x \in px.timers : px.tv[x] = px.tv[t] => x = t

\* A client is deleted by _processTimer only when TIMEOUT_MS have passed since
\* the timer of its pending operation was set: it is never the timer of another
\* client, nor of an operation whose completion is already queued.
TimeoutOnTime ==
  [][pc = "timers" =>
       \A o \in live \ live' : \E t \in {Rt(o), Wt(o)} \cap px.timers :
         px.tv[t] < now /\ Pending(px, t)]_vars

\* Every pending operation has its timer: TIMEOUT_MS is given to every call,
\* and _processCompletion takes out of the timers the completed token only.
PendingHasTimer ==
  \A o \in live : \A t \in {Rt(o), Wt(o)} :
    Pending(px, t) => t \in px.timers

\* The server as its peers see it.
Service == INSTANCE EchoService WITH
  phase <- [c \in Conn |-> IF link[c] \in {"backlog", "blocking"} THEN "open" ELSE link[c]],
  request <- sent, reply <- out, finished <- fin, reset <- rst,
  Expires <- Timeout # 0 /\ MaxTime > Timeout

\* Server and EchoClient implement the echo service: through partial reads and
\* writes, reused buffers and reused objects no byte is lost, repeated or
\* reordered, and a peer that has neither reset nor let time run out is hung up
\* on only when all it sent is written back.
EchoContract == Service!Spec

-----------------------------------------------------------------------------
(* Liveness.                                                               *)

\* What a peer sends comes back, as long as the peer keeps reading and does
\* not reset the connection: no partial read or write is left unfinished.
EchoedEventually == Service!Answered

\* The EchoClient of every peer that has finished or reset is deleted.
ReleasedEventually == Service!Released

\* After SIGINT or SIGTERM run() returns.
StopsEventually == stop ~> Ended

\* An operation whose time is over does not stay in the timers.
ExpiresEventually ==
  \A t \in Token :
    t \in px.timers /\ px.tv[t] < now
      ~> t \notin px.timers \/ px.tv[t] >= now \/ Ended

\* A peer that keeps reading what is sent to it.
EchoFairSpec == FairSpec /\ \A c \in Conn : WF_vars(PeerRecv(c) /\ Environment)
=============================================================================
