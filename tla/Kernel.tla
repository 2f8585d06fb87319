------------------------------- MODULE Kernel -------------------------------
(***************************************************************************)
(* The environment of the aio servers, modelled from the system calls      *)
(* src/aio makes: TCP connections opened, used and dropped by peers, the   *)
(* listener's backlog, and an edge-triggered readiness queue (epoll with   *)
(* EPOLLET on Linux, kqueue with EV_CLEAR on Darwin).                      *)
(*                                                                         *)
(* Byte number i of a connection's inbound stream is the number i, so what *)
(* a server writes shows at once what it lost, repeated or reordered.      *)
(***************************************************************************)
EXTENDS Integers, Sequences, FiniteSets

CONSTANTS
  Conn,      \* the connections peers may open
  Obj,       \* heap slots for the server's per-connection objects
  Listener,  \* the handler of the listening socket
  Null,      \* INVALID_SOCKET, and the null pointer
  Backend,   \* which proactor_*.cpp is linked: "epoll" or "kqueue"
  MaxSend,   \* bound: bytes a peer sends on a connection
  TxCap      \* size of a socket's send buffer

ASSUME KernelAssumption ==
  /\ Listener \notin Conn \cup Obj
  /\ Null \notin Conn \cup Obj \cup {Listener}
  /\ Backend \in {"epoll", "kqueue"}
  /\ MaxSend \in Nat
  /\ TxCap \in Nat \ {0}

VARIABLES
  link,     \* where each connection is: idle, in the backlog, open (accepted),
            \* blocking (accepted, but never made non-blocking), closed by us
  sent,     \* bytes that have arrived from the peer
  taken,    \* bytes read() has handed to the server
  out,      \* the bytes write() has accepted, in order
  got,      \* how many of them the peer has consumed
  fin, rst, \* connections whose peer has finished sending / has reset
  backlog,  \* connections accept() has not returned yet, oldest first
  watch,    \* the interest list: the handler stored in ev.data.ptr / udata
  ready     \* handles with an edge the poller has not reported yet

kvars == <<link, sent, taken, out, got, fin, rst, backlog, watch, ready>>

KernelTypeOK ==
  /\ link \in [Conn -> {"idle", "backlog", "open", "blocking", "closed"}]
  /\ sent \in [Conn -> 0..MaxSend]
  /\ taken \in [Conn -> Nat]
  /\ out \in [Conn -> Seq(Nat)]
  /\ got \in [Conn -> Nat]
  /\ fin \subseteq Conn
  /\ rst \subseteq Conn
  /\ backlog \in Seq(Conn)
  /\ watch \in [Conn -> Obj \cup {Null}]
  /\ ready \subseteq Conn \cup {Listener}

KernelInit ==
  /\ link = [c \in Conn |-> "idle"]
  /\ sent = [c \in Conn |-> 0]
  /\ taken = [c \in Conn |-> 0]
  /\ out = [c \in Conn |-> <<>>]
  /\ got = [c \in Conn |-> 0]
  /\ fin = {}
  /\ rst = {}
  /\ backlog = <<>>
  /\ watch = [c \in Conn |-> Null]
  /\ ready = {}

-----------------------------------------------------------------------------
(* Readiness.                                                              *)

Unread(c) == sent[c] - taken[c]

TxFree(c) == TxCap - (Len(out[c]) - got[c])

Readable(c) == Unread(c) > 0 \/ c \in fin \cup rst

Writable(c) == TxFree(c) > 0 \/ c \in rst

\* What run() sees in ev.events: a socket is registered for EPOLLIN and
\* EPOLLOUT, EPOLLERR and EPOLLHUP come with a reset, and a peer that has
\* only finished sending is readable (read() will return 0).
EpollEvents(c) ==
  (IF Readable(c) THEN {"IN"} ELSE {})
    \cup (IF Writable(c) THEN {"OUT"} ELSE {})
    \cup (IF c \in rst THEN {"HUP"} ELSE {})

\* The kqueue loop tests ev.flags against the filter numbers EVFILT_READ (-1)
\* and EVFILT_WRITE (-2); any flag bit but the lowest passes both tests, so
\* every event that is not EV_EOF calls onRead and then onWrite.  EV_EOF is
\* raised as soon as the peer has finished sending.
KqueueTests(c) == {"IN", "OUT"} \cup (IF c \in fin \cup rst THEN {"HUP"} ELSE {})

\* A socket is registered with EVFILT_READ | EVFILT_READ: for reading only.
KqueueEvents(c) == IF Readable(c) THEN KqueueTests(c) ELSE {}

Events(k) ==
  IF k = Listener THEN (IF backlog = <<>> THEN {} ELSE {"IN"})
  ELSE IF Backend = "epoll" THEN EpollEvents(k) ELSE KqueueEvents(k)

\* The edge an arrival on connection c raises, if somebody watches it.
Edge(c) == IF watch[c] = Null THEN {} ELSE {c}

-----------------------------------------------------------------------------
(* The peers.                                                              *)

Connect(c) ==
  /\ link[c] = "idle"
  /\ link' = [link EXCEPT ![c] = "backlog"]
  /\ backlog' = Append(backlog, c)
  /\ ready' = ready \cup {Listener}
  /\ UNCHANGED <<sent, taken, out, got, fin, rst, watch>>

PeerSend(c) ==
  /\ link[c] \in {"backlog", "open", "blocking"}
  /\ c \notin fin \cup rst
  /\ sent[c] < MaxSend
  /\ sent' = [sent EXCEPT ![c] = @ + 1]
  /\ ready' = ready \cup Edge(c)
  /\ UNCHANGED <<link, taken, out, got, fin, rst, backlog, watch>>

\* The peer closes its sending side; it may still read.
PeerFinish(c) ==
  /\ link[c] \in {"backlog", "open", "blocking"}
  /\ c \notin fin \cup rst
  /\ fin' = fin \cup {c}
  /\ ready' = ready \cup Edge(c)
  /\ UNCHANGED <<link, sent, taken, out, got, rst, backlog, watch>>

PeerReset(c) ==
  /\ link[c] \in {"backlog", "open", "blocking"}
  /\ c \notin rst
  /\ rst' = rst \cup {c}
  /\ ready' = ready \cup Edge(c)
  /\ UNCHANGED <<link, sent, taken, out, got, fin, backlog, watch>>

\* The peer consumes a byte.  A send buffer that was full becomes writable:
\* an edge for epoll; the kqueue build never registered for it.
PeerRecv(c) ==
  /\ link[c] = "open"
  /\ c \notin rst
  /\ got[c] < Len(out[c])
  /\ got' = [got EXCEPT ![c] = @ + 1]
  /\ ready' = IF TxFree(c) = 0 /\ Backend = "epoll"
              THEN ready \cup Edge(c) ELSE ready
  /\ UNCHANGED <<link, sent, taken, out, fin, rst, backlog, watch>>

Peer ==
  \E c \in Conn :
    Connect(c) \/ PeerSend(c) \/ PeerFinish(c) \/ PeerReset(c) \/ PeerRecv(c)

-----------------------------------------------------------------------------
(* System calls: the result of one, and its effect on the connection.      *)
(* A result is the return value and the errno that goes with it.           *)

Result(n, e) == [ret |-> n, err |-> e]

Lesser(a, b) == IF a <= b THEN a ELSE b

\* ::read(soc, buf, size) on a nonblocking socket
ReadResult(c, size) ==
  IF c = Null THEN Result(-1, "EBADF")
  ELSE IF Unread(c) > 0 THEN Result(Lesser(Unread(c), size), "OK")
  ELSE IF c \in rst THEN Result(-1, "ECONNRESET")
  ELSE IF c \in fin THEN Result(0, "OK")
  ELSE Result(-1, "EAGAIN")

\* ::write(soc, buf, size) on a nonblocking socket, size > 0
WriteResult(c, size) ==
  IF c = Null THEN Result(-1, "EBADF")
  ELSE IF c \in rst THEN Result(-1, "EPIPE")
  ELSE IF TxFree(c) > 0 THEN Result(Lesser(TxFree(c), size), "OK")
  ELSE Result(-1, "EAGAIN")

\* What a read() that returned r leaves in the buffer.
AfterReadBuf(c, r, buf) ==
  [i \in DOMAIN buf |-> IF i <= r.ret THEN taken[c] + i ELSE buf[i]]

AfterRead(c, r) ==
  IF r.ret > 0 THEN [taken EXCEPT ![c] = @ + r.ret] ELSE taken

\* write() takes its bytes from buf + from.
AfterWrite(c, r, buf, from) ==
  IF r.ret > 0
  THEN [out EXCEPT ![c] = @ \o [i \in 1..r.ret |-> buf[from + i]]]
  ELSE out

\* ::close(soc) for a socket that is in the interest list, or for no socket
Close(c) ==
  IF c = Null THEN UNCHANGED <<link, watch, ready>>
  ELSE /\ link' = [link EXCEPT ![c] = "closed"]
       /\ watch' = [watch EXCEPT ![c] = Null]
       /\ ready' = ready \ {c}

\* The descriptors of connections the process has.
Descriptors == {c \in Conn : link[c] \in {"open", "blocking"}}
=============================================================================
