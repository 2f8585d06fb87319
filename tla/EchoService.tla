---------------------------- MODULE EchoService -----------------------------
(***************************************************************************)
(* What every echo server of the repository promises, whatever it is built *)
(* on (README.md: an "echo network i/o benchmark"): a connection gets back *)
(* the bytes it sent, in order and each once, and is hung up only for a    *)
(* reason.  Byte i of a request is the number i.                           *)
(***************************************************************************)
EXTENDS Naturals, Sequences

CONSTANTS
  Conn,     \* the connections
  MaxSend,  \* bound: bytes sent on a connection
  Expires   \* whether the server also hangs up on a connection that is idle

VARIABLES
  phase,     \* of each connection: idle, open, closed
  request,   \* how many bytes its client has sent
  reply,     \* what the server has written back
  finished,  \* connections whose client will send no more
  reset      \* connections the client has reset

svars == <<phase, request, reply, finished, reset>>

Init ==
  /\ phase = [c \in Conn |-> "idle"]
  /\ request = [c \in Conn |-> 0]
  /\ reply = [c \in Conn |-> <<>>]
  /\ finished = {}
  /\ reset = {}

Open(c) ==
  /\ phase[c] = "idle"
  /\ phase' = [phase EXCEPT ![c] = "open"]
  /\ UNCHANGED <<request, reply, finished, reset>>

Send(c) ==
  /\ phase[c] = "open" /\ c \notin finished \cup reset
  /\ request[c] < MaxSend
  /\ request' = [request EXCEPT ![c] = @ + 1]
  /\ UNCHANGED <<phase, reply, finished, reset>>

Finish(c) ==
  /\ phase[c] = "open" /\ c \notin reset
  /\ finished' = finished \cup {c}
  /\ UNCHANGED <<phase, request, reply, reset>>

Reset(c) ==
  /\ phase[c] = "open"
  /\ reset' = reset \cup {c}
  /\ UNCHANGED <<phase, request, reply, finished>>

\* The server writes back the next bytes, as many as it likes.
Reply(c) ==
  /\ phase[c] = "open"
  /\ \E n \in Len(reply[c]) + 1 .. request[c] :
       reply' = [reply EXCEPT ![c] = [i \in 1..n |-> i]]
  /\ UNCHANGED <<phase, request, finished, reset>>

HangUp(c) ==
  /\ phase[c] = "open"
  /\ \/ c \in reset
     \/ c \in finished /\ Len(reply[c]) = request[c]
     \/ Expires
  /\ phase' = [phase EXCEPT ![c] = "closed"]
  /\ UNCHANGED <<request, reply, finished, reset>>

Next ==
  \E c \in Conn :
    Open(c) \/ Send(c) \/ Finish(c) \/ Reset(c) \/ Reply(c) \/ HangUp(c)

Spec == Init /\ [][Next]_svars

\* What is sent comes back.
Answered ==
  \A c \in Conn : \A n \in 1..MaxSend :
    request[c] >= n ~> Len(reply[c]) >= n \/ c \in reset

\* A connection whose client has gone is let go.
Released ==
  \A c \in Conn :
    c \in finished \cup reset /\ phase[c] = "open" ~> phase[c] = "closed"
=============================================================================
