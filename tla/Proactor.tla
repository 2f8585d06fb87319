------------------------------ MODULE Proactor ------------------------------
(***************************************************************************)
(* aio::Proactor::run, the event loop, up to the application's callbacks:  *)
(* poll, dispatch each reported event, drain the completion queue after    *)
(* each handler, then expire timers.  One thread runs it; peers, the clock *)
(* and signals interleave with it at every step.  A step of the loop makes *)
(* at most one system call on a connection.                                *)
(***************************************************************************)
EXTENDS AioSocket

CONSTANTS
  MaxTime,    \* bound: the clock stops here
  Signals     \* what may arrive: "stop" (SIGINT, SIGTERM), "other" (SIGCONT...)

ASSUME ProactorAssumption ==
  /\ MaxTime \in Nat
  /\ Signals \subseteq {"stop", "other"}

VARIABLES
  px,       \* the library's data: tokens, timers, completion queue
  soc,      \* Socket::_soc of each object, Null for INVALID_SOCKET
  pc,       \* where the loop is
  batch,    \* events epoll_wait returned that are not dispatched yet
  cur,      \* the event being dispatched
  deleted,  \* _deleted
  stop,     \* _stop
  now,      \* gettimeofday
  scan      \* the time _processTimer read when it started

loopVars == <<pc, batch, cur, deleted, scan>>
pvars == <<px, soc, loopVars, stop, now>>

Handler == Obj \cup {Listener}

EventRec == [h : Handler, ev : SUBSET {"IN", "OUT", "HUP"}]

NoEvent == [h |-> Listener, ev |-> {}]

PC == {"wait", "dispatch", "accept", "afterRead", "afterWrite", "timers",
       "stopped", "failed"}

ProactorTypeOK ==
  /\ px \in Library
  /\ soc \in [Obj -> Conn \cup {Null}]
  /\ pc \in PC
  /\ batch \subseteq EventRec
  /\ cur \in EventRec
  /\ deleted \subseteq Handler
  /\ stop \in BOOLEAN
  /\ now \in Nat
  /\ scan \in Nat

ProactorInit ==
  /\ px = NewLibrary
  /\ soc = [o \in Obj |-> Null]
  /\ pc = "wait"
  /\ batch = {}
  /\ cur = NoEvent
  /\ deleted = {}
  /\ stop = FALSE
  /\ now = 0
  /\ scan = 0

\* run() has returned, and with it main().
Ended == pc \in {"stopped", "failed"}

\* The handler a handle is registered with.
HandlerOf(k) == IF k = Listener THEN Listener ELSE watch[k]

-----------------------------------------------------------------------------
\* epoll_wait (or kevent) returns what is ready now, or nothing after the poll
\* interval; edges it has looked at are gone.  _stop is tested before the
\* result is used.
Poll ==
  LET reported == {k \in ready : Events(k) # {}}
  IN  /\ pc = "wait"
      /\ ready' = {}
      /\ \/ stop /\ pc' = "stopped" /\ UNCHANGED <<batch, scan>>
         \/ /\ ~stop
            /\ reported # {}
            /\ pc' = "dispatch"
            /\ batch' = {[h |-> HandlerOf(k), ev |-> Events(k)] : k \in reported}
            /\ UNCHANGED scan
         \/ /\ ~stop
            /\ reported = {}
            /\ pc' = "timers"
            /\ scan' = now
            /\ UNCHANGED batch
      /\ UNCHANGED <<link, sent, taken, out, got, fin, rst, backlog, watch,
                     px, soc, cur, deleted, stop, now>>

\* A signal ends epoll_wait with EINTR, which run() takes for a failure.
Interrupted ==
  /\ "other" \in Signals
  /\ pc = "wait"
  /\ pc' = IF stop THEN "stopped" ELSE "failed"
  /\ UNCHANGED <<kvars, px, soc, batch, cur, deleted, scan, stop, now>>

\* The for loop has dispatched every event.
EndBatch ==
  /\ pc = "dispatch"
  /\ batch = {}
  /\ pc' = "timers"
  /\ scan' = now
  /\ UNCHANGED <<kvars, px, soc, batch, cur, deleted, stop, now>>

\* Mistakes: one completion is processed, not all; EPOLLOUT is looked at only
\* if there was no EPOLLIN.
EventDoneEarly ==
  \/ pc = "afterWrite"
  \/ pc = "afterRead" /\ "OUT" \notin cur.ev

EventDoneShort == pc \in {"afterRead", "afterWrite"} /\ px.queue = <<>>

\* The handler's completions are drained and there is nothing more to do for
\* its event: it was only readable, or its handler is in _deleted, or onWrite
\* has been called.  (Acceptor::onWrite does nothing.)
EventDone ==
  /\ px.queue = <<>>
  /\ \/ pc = "afterWrite"
     \/ pc = "afterRead" /\ "OUT" \notin cur.ev
     \/ pc = "afterRead" /\ cur.h \in deleted \cup {Listener}

EndEvent ==
  /\ EventDone
  /\ pc' = "dispatch"
  /\ cur' = NoEvent
  /\ UNCHANGED <<kvars, px, soc, batch, deleted, scan, stop, now>>

\* No timer is due any more.
EndTimers ==
  /\ pc = "timers"
  /\ Expired(px, scan) = {}
  /\ pc' = "wait"
  /\ scan' = 0
  /\ UNCHANGED <<kvars, px, soc, batch, cur, deleted, stop, now>>

-----------------------------------------------------------------------------
(* Outside the loop's thread.                                              *)

\* SigHandler: SIGINT or SIGTERM calls Proactor::stop.
Signal ==
  /\ "stop" \in Signals
  /\ ~stop
  /\ stop' = TRUE
  /\ UNCHANGED <<kvars, px, soc, loopVars, now>>

Tick ==
  /\ now < MaxTime
  /\ now' = now + 1
  /\ UNCHANGED <<kvars, px, soc, loopVars, stop>>
=============================================================================
