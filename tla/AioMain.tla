------------------------------ MODULE AioMain -------------------------------
(***************************************************************************)
(* main() of src/aio/echo: what happens before and after Proactor::run,    *)
(* where each call may fail and a signal may come between any two.  What   *)
(* run() does in between is module AioEcho; here it serves some clients.   *)
(* A process that has ended is started again.                              *)
(***************************************************************************)
EXTENDS Naturals, FiniteSets

CONSTANTS
  MaxClients,   \* bound: clients at one time
  MaxRuns       \* bound: how often the program is started

ASSUME AioMainAssumption == MaxClients \in Nat /\ MaxRuns \in Nat

VARIABLES
  pc,         \* where main() is, or how the process ended
  handled,    \* signals whose handler is SigHandler
  global,     \* g_proactor: "null", "valid", or "dead" after main()
  stop,       \* Proactor::_stop
  epoll,      \* Proactor::_fd is open
  soc,        \* Acceptor::_soc is open
  state,      \* what has been done to it
  watched,    \* it is in the interest list
  clients,    \* EchoClients with an open connection
  code,       \* what main() returns
  lingering,  \* the kernel keeps closed connections of the port (TIME_WAIT)
  runs        \* how often the program was started

vars == <<pc, handled, global, stop, epoll, soc, state, watched, clients, code,
          lingering, runs>>

\* The calls on the listening socket, in order, and all of main().
Setup == {"socket", "setsockopt", "nonblock", "bind", "listen", "register"}
PC == {"sigint", "sigterm", "sigpipe", "construct", "create", "run", "unwind",
       "leave", "exited", "killed", "crashed"} \cup Setup

Sig == {"INT", "TERM", "PIPE"}

Ended == pc \in {"exited", "killed", "crashed"}

TypeOK ==
  /\ pc \in PC
  /\ handled \subseteq Sig
  /\ global \in {"null", "valid", "dead"}
  /\ stop \in BOOLEAN
  /\ epoll \in BOOLEAN
  /\ soc \in BOOLEAN
  /\ state \subseteq {"nonblocking", "bound", "listening"}
  /\ watched \in BOOLEAN
  /\ clients \in 0 .. MaxClients
  /\ code \in {0, 1}
  /\ lingering \in BOOLEAN
  /\ runs \in Nat

\* A new process, at the start of main().
Init ==
  /\ pc = "sigint"
  /\ handled = {}
  /\ global = "null"
  /\ stop = FALSE
  /\ epoll = FALSE
  /\ soc = FALSE
  /\ state = {}
  /\ watched = FALSE
  /\ clients = 0
  /\ code = 0
  /\ lingering = FALSE
  /\ runs = 1

-----------------------------------------------------------------------------
(* Start-up.                                                               *)

\* Mistake: SIGPIPE is left to its default, like SIGSEGV.
HandlesTwo(s) == handled' = handled \cup ({s} \ {"PIPE"})

Handles(s) == handled' = handled \cup {s}

\* SetSigHandler
SetSigHandler ==
  /\ \/ pc = "sigint" /\ Handles("INT") /\ pc' = "sigterm"
     \/ pc = "sigterm" /\ Handles("TERM") /\ pc' = "sigpipe"
     \/ pc = "sigpipe" /\ Handles("PIPE") /\ pc' = "construct"
  /\ UNCHANGED <<global, stop, epoll, soc, state, watched, clients, code,
                 lingering, runs>>

\* The Proactor is constructed and g_proactor set.
Construct ==
  /\ pc = "construct"
  /\ stop' = FALSE
  /\ global' = "valid"
  /\ pc' = "create"
  /\ UNCHANGED <<handled, epoll, soc, state, watched, clients, code, lingering,
                 runs>>

\* Proactor::create.  If it fails there is no Server to be destroyed.
Create ==
  /\ pc = "create"
  /\ \/ epoll' = TRUE /\ pc' = "socket" /\ UNCHANGED code
     \/ code' = 1 /\ pc' = "leave" /\ UNCHANGED epoll
  /\ UNCHANGED <<handled, global, stop, soc, state, watched, clients, lingering,
                 runs>>

\* One call of Acceptor::listen: it goes on to the next.
Done(label, to) == pc = label /\ pc' = to

Socket ==
  /\ Done("socket", "setsockopt")
  /\ soc' = TRUE
  /\ UNCHANGED <<handled, global, stop, epoll, state, watched, clients, code,
                 lingering, runs>>

\* SO_REUSEADDR is set to 0, which it was.
SetOption ==
  /\ Done("setsockopt", "nonblock")
  /\ UNCHANGED <<handled, global, stop, epoll, soc, state, watched, clients,
                 code, lingering, runs>>

\* Mistake: the flag is taken away, not set.
SetNonBlockClears ==
  /\ Done("nonblock", "bind")
  /\ state' = state \ {"nonblocking"}
  /\ UNCHANGED <<handled, global, stop, epoll, soc, watched, clients, code,
                 lingering, runs>>

\* SetNonBlock: F_GETFL and F_SETFL
SetNonBlock ==
  /\ Done("nonblock", "bind")
  /\ state' = state \cup {"nonblocking"}
  /\ UNCHANGED <<handled, global, stop, epoll, soc, watched, clients, code,
                 lingering, runs>>

\* Without SO_REUSEADDR the port is refused while connections linger.
Bind ==
  /\ Done("bind", "listen")
  /\ ~lingering
  /\ state' = state \cup {"bound"}
  /\ UNCHANGED <<handled, global, stop, epoll, soc, watched, clients, code,
                 lingering, runs>>

Listen ==
  /\ Done("listen", "register")
  /\ state' = state \cup {"listening"}
  /\ UNCHANGED <<handled, global, stop, epoll, soc, watched, clients, code,
                 lingering, runs>>

\* Mistake: run() starts with _stop = false.
RegisterResets ==
  /\ Done("register", "run")
  /\ watched' = TRUE
  /\ stop' = FALSE
  /\ UNCHANGED <<handled, global, epoll, soc, state, clients, code, lingering,
                 runs>>

\* _register, and into run()
Register ==
  /\ Done("register", "run")
  /\ watched' = TRUE
  /\ UNCHANGED <<handled, global, stop, epoll, soc, state, clients, code,
                 lingering, runs>>

\* One of the calls fails: startAccept returns false and main() returns 1.
ListenFails ==
  /\ pc \in Setup
  /\ pc' = "unwind"
  /\ code' = 1
  /\ UNCHANGED <<handled, global, stop, epoll, soc, state, watched, clients,
                 lingering, runs>>

-----------------------------------------------------------------------------
(* run(), and the end.                                                     *)

\* Clients come and go; what main() sees of AioEcho.  A connection that the
\* server closed first lingers.
Serve ==
  /\ pc = "run"
  /\ \/ /\ clients < MaxClients /\ clients' = clients + 1
        /\ UNCHANGED lingering
     \/ /\ clients > 0 /\ clients' = clients - 1
        /\ lingering' \in {lingering, TRUE}
  /\ UNCHANGED <<pc, handled, global, stop, epoll, soc, state, watched, code,
                 runs>>

RunEnds(result) ==
  /\ pc = "run"
  /\ code' = result
  /\ epoll' = FALSE
  /\ watched' = FALSE
  /\ pc' = "unwind"
  /\ UNCHANGED <<handled, global, stop, soc, state, clients, lingering, runs>>

\* epoll_wait has returned, by an event, the poll interval or a signal, and
\* _stop is set.
RunStops == stop /\ RunEnds(0)

\* Mistake: the loop is left, and run() returns true.
RunFailsQuietly == ~stop /\ RunEnds(0)

\* epoll_wait has failed, or was interrupted by a signal that does not stop.
RunFails == ~stop /\ RunEnds(1)

\* ~Server and ~Acceptor: _remove, whose result is not looked at (run() has
\* closed _fd already), and close.
Unwind ==
  /\ pc = "unwind"
  /\ soc' = FALSE
  /\ state' = {}
  /\ watched' = FALSE
  /\ pc' = "leave"
  /\ UNCHANGED <<handled, global, stop, epoll, clients, code, lingering, runs>>

\* The process ends: the kernel closes what is open, also the connections of
\* EchoClients, which nobody deletes.
Vanish(how) ==
  /\ pc' = how
  /\ epoll' = FALSE
  /\ soc' = FALSE
  /\ state' = {}
  /\ watched' = FALSE
  /\ lingering' = (lingering \/ clients > 0)
  /\ clients' = 0
  /\ UNCHANGED <<handled, global, stop, code, runs>>

\* main() has returned and the Proactor is gone; g_proactor still points to it
\* while the static objects are destroyed ...
Leave ==
  /\ pc = "leave" /\ global = "valid"
  /\ global' = "dead"
  /\ UNCHANGED <<pc, handled, stop, epoll, soc, state, watched, clients, code,
                 lingering, runs>>

\* ... until the process is gone.
Exit == pc = "leave" /\ global = "dead" /\ Vanish("exited")

Main ==
  \/ SetSigHandler \/ Construct \/ Create
  \/ Socket \/ SetOption \/ SetNonBlock \/ Bind \/ Listen \/ Register
  \/ ListenFails
  \/ RunStops \/ Unwind \/ Leave \/ Exit

-----------------------------------------------------------------------------
\* A signal: the default action ends the process; SigHandler ignores SIGPIPE
\* and calls g_proactor->stop() for the others, which is a write to address 0,
\* or to memory that is no longer main()'s (and may do nothing there).
Signal(s) ==
  /\ ~Ended
  /\ \/ s \notin handled /\ Vanish("killed")
     \/ s \in handled \ {"PIPE"} /\ global \in {"null", "dead"} /\ Vanish("crashed")
     \/ /\ s \in handled \ {"PIPE"} /\ global = "valid"
        /\ stop' = TRUE
        /\ UNCHANGED <<pc, handled, global, epoll, soc, state, watched, clients,
                       code, lingering, runs>>

\* The kernel forgets the closed connections.
Expire ==
  /\ lingering
  /\ lingering' = FALSE
  /\ UNCHANGED <<pc, handled, global, stop, epoll, soc, state, watched, clients,
                 code, runs>>

Restart ==
  /\ Ended /\ runs < MaxRuns
  /\ pc' = "sigint"
  /\ handled' = {}
  /\ global' = "null"
  /\ stop' = FALSE
  /\ code' = 0
  /\ runs' = runs + 1
  /\ UNCHANGED <<epoll, soc, state, watched, clients, lingering>>

Next == Main \/ RunFails \/ Serve \/ (\E s \in Sig : Signal(s)) \/ Expire \/ Restart

Spec == Init /\ [][Next]_vars

\* The process keeps running: epoll_wait returns after the poll interval at
\* the latest.
FairSpec == Spec /\ WF_vars(Main)

-----------------------------------------------------------------------------
\* A listening socket that run() will be told about does not block: accept()
\* is called until it says EAGAIN, and a socket that blocks there stops the
\* one thread for all clients.  And run() starts with all of it done.
AcceptNeverBlocks ==
  /\ watched => soc /\ state = {"nonblocking", "bound", "listening"}
  /\ pc = "run" => watched /\ epoll

\* Whatever failed, and however far start-up came, main() returns with the
\* listening socket closed, and returns 0 only if it was told to stop.
ReturnsTruth ==
  pc = "leave" => ~soc /\ ~watched /\ (code = 0 => stop)

\* From create() to the return of main() no SIGINT, SIGTERM or SIGPIPE ends
\* the process other than through run().  (Before, g_proactor is not set, and
\* after, it dangles: there the handler that is to stop the server crashes it.)
SignalsHandled ==
  [][pc' # pc /\ pc' \in {"killed", "crashed"} =>
       pc \in {"sigint", "sigterm", "sigpipe", "construct", "leave"}]_vars

\* A stop is honoured whenever it comes, also during start-up.
StopHonoured == stop ~> Ended
=============================================================================
