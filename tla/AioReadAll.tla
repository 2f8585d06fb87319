----------------------------- MODULE AioReadAll -----------------------------
(***************************************************************************)
(* A server that reads whole messages: the EchoClient of src/aio/test in   *)
(* mode 1, which calls readAll where that of src/aio/echo calls readSome.  *)
(* The rest of the two servers is the same.                                *)
(***************************************************************************)
EXTENDS AioEcho

CONSTANT MsgSize   \* readLen, the size of a request

\* A request is shorter than the buffers, 76 of 1024 bytes, and readAll and
\* writeAll are given no timeout.
ASSUME AioReadAllAssumption == MsgSize \in 1 .. BufSize - 1 /\ Timeout = 0

-----------------------------------------------------------------------------
\* Mistake: the bytes go to the start of the buffer.
ReceivedAtStart(o, c, r, from) ==
  [recvBuf EXCEPT ![o] = [i \in 1..BufSize |->
     IF i <= r.ret THEN taken[c] + i ELSE @[i]]]

\* The bytes a read to recvBuf + from leaves there.
ReceivedAt(o, c, r, from) ==
  [recvBuf EXCEPT ![o] = [i \in 1..BufSize |->
     IF from < i /\ i <= from + r.ret THEN taken[c] + i - from ELSE @[i]]]

\* Mistake: wait for the next event without trying to read first.
StartRecvAllLazy(S, o) ==
  /\ px' = Await(InitToken(S, Rt(o), MsgSize, "OK"), Rt(o), 0, "A", now)
  /\ UNCHANGED <<kvars, soc, deleted, live, recvBuf>>

\* EchoClient::startRecv
StartRecvAll(S, o) ==
  LET c == soc[o]
      r == IF S.tok[Rt(o)].mode = "N" THEN ReadResult(c, MsgSize)
           ELSE Result(-1, "busy")
  IN  /\ px' = ReadAll(S, o, MsgSize, r, now)
      /\ taken' = AfterRead(c, r)
      /\ recvBuf' = ReceivedAt(o, c, r, 0)
      /\ UNCHANGED <<link, sent, out, got, fin, rst, backlog, watch, ready,
                     soc, deleted, live>>

\* buf[n] = 0, which ends the n bytes as a string (to be logged).  Element
\* n + 1 of the model is buf[n].
Terminated(buf, o, n) == [buf EXCEPT ![o] = [@ EXCEPT ![n + 1] = 0]]

\* EchoClient::onRead with data.  The memcpy of n bytes leaves the 0 behind.
ReplyAll(S, o, n) == WriteBack(S, o, n) /\ recvBuf' = Terminated(recvBuf, o, n)

\* EchoClient::onWrite with n bytes written
NextMessage(S, o, n) == StartRecvAll(S, o) /\ sendBuf' = Terminated(sendBuf, o, n)

\* EchoClient::onRead and onWrite
CallbackAll(S, t, err, n) ==
  IF err # "OK" \/ n <= 0 THEN Delete(S, Owner(t))
  ELSE IF t = Rt(Owner(t)) THEN ReplyAll(S, Owner(t), n)
  ELSE NextMessage(S, Owner(t), n)

\* Server::onAccept; c is Null when _accept() failed.
OnAcceptAll(c) ==
  \E o \in Obj \ live, rtv \in Garbage, wtv \in Garbage :
    LET r == ReadResult(c, MsgSize)
    IN  /\ px' = ReadAll(NewSocket(px, o, rtv, wtv), o, MsgSize, r, now)
        /\ taken' = AfterRead(c, r)
        /\ soc' = [soc EXCEPT ![o] = c]
        /\ live' = live \cup {o}
        /\ recvBuf' = ReceivedAt(o, c, r, 0)
        /\ IF c = Null THEN UNCHANGED <<watch, ready>>
           ELSE /\ watch' = [watch EXCEPT ![c] = o]
                /\ ready' = IF Events(c) = {} THEN ready ELSE ready \cup {c}
        /\ UNCHANGED <<sent, out, got, fin, rst, sendBuf>>

\* The loop of Acceptor::onRead, as in AioEcho: accept() returns a connection,
AcceptAll ==
  /\ pc = "accept"
  /\ backlog # <<>>
  /\ Cardinality(Descriptors) < FdLimit
  /\ link' = [link EXCEPT ![Head(backlog)] = "open"]
  /\ backlog' = Tail(backlog)
  /\ OnAcceptAll(Head(backlog))
  /\ UNCHANGED <<loopVars, stop, now>>

\* or an error,
AcceptAllFails ==
  /\ pc = "accept"
  /\ Cardinality(Descriptors) >= FdLimit \/ "accept" \in AcceptFaults
  /\ pc' = "afterRead"
  /\ OnAcceptAll(Null)
  /\ UNCHANGED <<link, backlog, batch, cur, deleted, scan, stop, now>>

\* or a connection that stays blocking and is lost.
AcceptAllUnset ==
  /\ pc = "accept"
  /\ "fcntl" \in AcceptFaults
  /\ backlog # <<>>
  /\ Cardinality(Descriptors) < FdLimit
  /\ link' = [link EXCEPT ![Head(backlog)] = "blocking"]
  /\ backlog' = Tail(backlog)
  /\ pc' = "afterRead"
  /\ OnAcceptAll(Null)
  /\ UNCHANGED <<batch, cur, deleted, scan, stop, now>>

\* EPOLLIN on a socket: one read() of what is missing of the message.
ReadEventAll(e) ==
  LET c == soc[e.h]
      t == px.tok[Rt(e.h)]
      r == ReadResult(c, t.bufSize - t.ioSize)
  IN  /\ Take(e)
      /\ e.h # Listener /\ "IN" \in e.ev /\ "HUP" \notin e.ev
      /\ pc' = "afterRead"
      /\ cur' = e
      /\ deleted' = {}
      /\ IF t.mode = "A"
         THEN /\ px' = OnReadAll(px, e.h, r)
              /\ taken' = AfterRead(c, r)
              /\ recvBuf' = ReceivedAt(e.h, c, r, t.ioSize)
         ELSE UNCHANGED <<px, taken, recvBuf>>
      /\ UNCHANGED <<link, sent, out, got, fin, rst, backlog, watch, ready,
                     soc, scan, stop, now, live, sendBuf>>

\* One turn of the loop of _processCompletion.
CompleteAll ==
  /\ pc \in {"afterRead", "afterWrite"}
  /\ px.queue # <<>>
  /\ LET t == Head(px.queue)
     IN  CallbackAll(Dequeue(px), t, px.tok[t].err, px.tok[t].ioSize)
  /\ UNCHANGED <<pc, batch, cur, scan, stop, now>>

-----------------------------------------------------------------------------
ServerAll ==
  \/ Loop
  \/ \E e \in batch \cup {cur} :
       ClosedEvent(e) \/ AcceptEvent(e) \/ ReadEventAll(e) \/ WriteEvent(e)
  \/ AcceptAll \/ AcceptAllFails \/ AcceptAllUnset \/ AcceptDone
  \/ CompleteAll

AllSpec == Init /\ [][ServerAll \/ Environment]_vars

\* The server's thread keeps running, and the peers keep reading.
AllFairSpec ==
  /\ AllSpec
  /\ WF_vars(ServerAll)
  /\ \A c \in Conn : WF_vars(PeerRecv(c) /\ Environment)

-----------------------------------------------------------------------------
\* How many of n bytes are in whole messages.
Whole(n) == n - (n % MsgSize)

\* What is written back are the bytes of whole messages, in order, however
\* they were cut into reads; and a peer that has not reset is hung up on only
\* when it has finished and all its whole messages are written back.
EchoesWholeMessages ==
  \A c \in Conn :
    /\ out[c] = [i \in 1..Len(out[c]) |-> i]
    /\ Len(out[c]) <= Whole(taken[c])
    /\ link[c] = "closed" /\ c \notin rst =>
         c \in fin /\ Len(out[c]) = Whole(sent[c])

\* Data that has arrived for a pending readAll will be read: onRead makes one
\* read() per event, of all that is missing, so what it leaves unread is only
\* there when the message is complete.
DataResumes ==
  \A o \in live :
    Pending(px, Rt(o)) /\ Unread(soc[o]) > 0 => Resumes(o, "IN")

\* Every 0 that ends the bytes of an operation that is done falls in the buffer.
TerminatorSafe ==
  \A o \in live : \A t \in {Rt(o), Wt(o)} :
    px.tok[t].mode = "D" => px.tok[t].ioSize < BufSize

\* A whole message comes back, as long as the peer reads and does not reset,
\* and unless SetNonBlock failed for its connection.
MessageEchoed ==
  \A c \in Conn : \A n \in 1..MaxSend :
    Whole(sent[c]) >= n ~> Len(out[c]) >= n \/ c \in rst \/ link[c] = "blocking"
=============================================================================
