----------------------------- MODULE AioSocket ------------------------------
(***************************************************************************)
(* aio::Socket and the parts of aio::Proactor it calls: the tokens of an   *)
(* asynchronous read or write, the completion queue and the timer set.     *)
(*                                                                         *)
(* The library's data is one record S,                                     *)
(*     tok     a Token for the read (rt) and the write (wt) of each object *)
(*     tv      Token::tv, the key a token has, or would have, in the set   *)
(*     timers  _timerList, a std::set ordered (and made unique) by tv      *)
(*     queue   the tokens linked behind _head, oldest first                *)
(* and each procedure is an operator from a record to a record.  A         *)
(* procedure that makes a system call takes its result r as an argument.   *)
(***************************************************************************)
EXTENDS Kernel

CONSTANT Timeout   \* TIMEOUT_MS, in ticks of the clock; 0 is "no timeout"

ASSUME TimeoutAssumption == Timeout \in Nat

Token == Obj \X {"rt", "wt"}
Rt(o) == <<o, "rt">>
Wt(o) == <<o, "wt">>
Owner(t) == t[1]

\* Token::NONE, SOME, ALL, DONE, ERR
Mode == {"N", "S", "A", "D", "E"}

Errno == {"OK", "EAGAIN", "EBADF", "ECONNRESET", "EPIPE", "ETIMEDOUT", "busy"}

TokenRec == [mode : Mode, bufSize : Nat, ioSize : Nat, err : Errno]

Library == [tok : [Token -> TokenRec], tv : [Token -> Nat],
            timers : SUBSET Token, queue : Seq(Token)]

\* Token::Token, which leaves tv uninitialised.
FreshToken == [mode |-> "N", bufSize |-> 0, ioSize |-> 0, err |-> "OK"]

\* Proactor::Proactor: nothing queued, no timer, no socket yet.
NewLibrary == [tok |-> [t \in Token |-> FreshToken], tv |-> [t \in Token |-> 0],
               timers |-> {}, queue |-> <<>>]

Pending(S, t) == S.tok[t].mode \in {"S", "A"}

Queued(S, t) == \E i \in DOMAIN S.queue : S.queue[i] = t

-----------------------------------------------------------------------------
(* Token                                                                   *)

\* Token::init, and the err.clear() and err.set() of _read and _write
InitToken(S, t, size, err) ==
  [S EXCEPT !.tok[t] =
     [mode |-> "N", bufSize |-> size, ioSize |-> 0, err |-> err]]

SetTokenAdds(S, t, n, m) ==   \* mistake: set() and add() confused
  [S EXCEPT !.tok[t] = [@ EXCEPT !.ioSize = @ + n, !.mode = m]]

SetToken(S, t, n, m) ==
  [S EXCEPT !.tok[t] = [@ EXCEPT !.ioSize = n, !.mode = m]]

SetErr(S, t, err) == [S EXCEPT !.tok[t] = [@ EXCEPT !.err = err]]

-----------------------------------------------------------------------------
(* The completion queue and the timers                                     *)

Enqueue(S, t) == [S EXCEPT !.queue = Append(@, t)]

\* Proactor::_remove(Token*), for a token anywhere in the list.  A token that
\* is not linked (prev is NULL) is left alone by the only caller, ~Socket.
Unlink(S, t) ==
  IF Queued(S, t)
  THEN LET pos == CHOOSE i \in DOMAIN S.queue : S.queue[i] = t
       IN  [S EXCEPT !.queue = SubSeq(@, 1, pos - 1) \o SubSeq(@, pos + 1, Len(@))]
  ELSE S

PopTimerNot(S, t) == S   \* mistake: the timer is left behind

\* _timerList.erase(token) erases by key: whatever token has an equal tv.
PopTimer(S, t) == [S EXCEPT !.timers = {x \in @ : S.tv[x] # S.tv[t]}]

\* _timerList.insert(token) does nothing if the set holds an equal tv.
PushTimer(S, t, now) ==
  IF Timeout = 0 THEN S
  ELSE LET key == now + Timeout
           clash == \E x \in S.timers \ {t} : S.tv[x] = key
       IN  [S EXCEPT !.tv[t] = key, !.timers = IF clash THEN @ ELSE @ \cup {t}]

\* The two ways a read or write step ends: hand the token to the completion
\* queue, or keep it and wait for the next event.
Deliver(S, t, n, m) == Enqueue(SetToken(S, t, n, m), t)

Await(S, t, n, m, now) == PushTimer(SetToken(S, t, n, m), t, now)

-----------------------------------------------------------------------------
(* Socket: starting an operation                                           *)

\* Mistake: wait for the next event whatever the error was.
ReadSomeBlind(S, o, size, r, now) ==
  LET Z == InitToken(S, Rt(o), size, r.err)
  IN  IF r.ret >= 0 THEN Deliver(Z, Rt(o), r.ret, "D")
      ELSE Await(Z, Rt(o), 0, "S", now)

\* Socket::readSome.  The caller passes the result of read(), which is not
\* called at all while a read is in progress.
ReadSome(S, o, size, r, now) ==
  LET t == Rt(o)
      Z == InitToken(S, t, size, r.err)
  IN  IF S.tok[t].mode # "N" THEN SetErr(S, t, "busy")
      ELSE IF r.ret >= 0 THEN Deliver(Z, t, r.ret, "D")
      ELSE IF r.err = "EAGAIN" THEN Await(Z, t, 0, "S", now)
      ELSE Deliver(Z, t, 0, "E")

\* Socket::readAll.  What is missing after a short read is left to onRead.
ReadAll(S, o, size, r, now) ==
  LET t == Rt(o)
      Z == InitToken(S, t, size, r.err)
  IN  IF S.tok[t].mode # "N" THEN SetErr(S, t, "busy")
      ELSE IF r.ret < 0
      THEN IF r.err = "EAGAIN" THEN Await(Z, t, 0, "A", now)
           ELSE Deliver(Z, t, 0, "E")
      ELSE IF 0 < r.ret /\ r.ret < size THEN Await(Z, t, r.ret, "A", now)
      ELSE Deliver(Z, t, r.ret, "D")

\* Mistake: a short write is taken for the whole.
WriteAllShort(S, o, size, r, now) ==
  LET Z == InitToken(S, Wt(o), size, r.err)
  IN  IF r.ret > 0 THEN Deliver(Z, Wt(o), r.ret, "D")
      ELSE IF r.err = "EAGAIN" THEN Await(Z, Wt(o), 0, "A", now)
      ELSE Deliver(Z, Wt(o), 0, "E")

\* Socket::writeAll
WriteAll(S, o, size, r, now) ==
  LET t == Wt(o)
      Z == InitToken(S, t, size, r.err)
  IN  IF S.tok[t].mode # "N" THEN SetErr(S, t, "busy")
      ELSE IF r.ret <= 0
      THEN IF r.err = "EAGAIN" THEN Await(Z, t, 0, "A", now)
           ELSE Deliver(Z, t, 0, "E")
      ELSE IF r.ret < size THEN Await(Z, t, r.ret, "A", now)
      ELSE Deliver(Z, t, r.ret, "D")

-----------------------------------------------------------------------------
(* Socket: going on when an event arrives                                  *)

\* Mistake: the -1 of read() is passed on as the number of bytes.
OnReadSomeRaw(S, o, r) ==
  IF r.err = "EAGAIN" THEN SetErr(S, Rt(o), r.err)
  ELSE Deliver(SetErr(S, Rt(o), r.err), Rt(o), r.ret,
               IF r.ret >= 0 THEN "D" ELSE "E")

\* Socket::onRead for a token in mode SOME
OnReadSome(S, o, r) ==
  LET t == Rt(o)
      Z == SetErr(S, t, r.err)
  IN  IF r.ret >= 0 THEN Deliver(Z, t, r.ret, "D")
      ELSE IF r.err = "EAGAIN" THEN Z
      ELSE Deliver(Z, t, 0, "E")

\* Mistake: set() for add().
OnReadAllSets(S, o, r) ==
  LET t == Rt(o)
      Z == SetErr(S, t, r.err)
  IN  IF r.ret = 0 THEN Deliver(Z, t, 0, "D")
      ELSE IF r.ret < 0
      THEN IF r.err = "EAGAIN" THEN Z ELSE Deliver(Z, t, 0, "E")
      ELSE IF r.ret < S.tok[t].bufSize THEN SetToken(Z, t, r.ret, "A")
      ELSE Deliver(Z, t, r.ret, "D")

\* Socket::onRead for a token in mode ALL.  A stream that ends in the middle
\* is reported with 0 bytes.
OnReadAll(S, o, r) ==
  LET t == Rt(o)
      Z == SetErr(S, t, r.err)
      n == S.tok[t].ioSize + r.ret
  IN  IF r.ret = 0 THEN Deliver(Z, t, 0, "D")
      ELSE IF r.ret < 0
      THEN IF r.err = "EAGAIN" THEN Z ELSE Deliver(Z, t, 0, "E")
      ELSE IF n < S.tok[t].bufSize THEN SetToken(Z, t, n, "A")
      ELSE Deliver(Z, t, n, "D")

\* Socket::onWrite for a token in mode ALL
OnWriteAll(S, o, r) ==
  LET t == Wt(o)
      Z == SetErr(S, t, r.err)
      n == S.tok[t].ioSize + r.ret
  IN  IF r.ret <= 0
      THEN IF r.err = "EAGAIN" THEN Z ELSE Deliver(Z, t, 0, "E")
      ELSE IF n < S.tok[t].bufSize THEN SetToken(Z, t, n, "A")
      ELSE Deliver(Z, t, n, "D")

\* What Socket::onClose writes, and the callback it then calls with 0 bytes:
\* the read's, or the write's if a read is queued for completion.
Closed(S, o) == SetErr(SetErr(S, Rt(o), "ECONNRESET"), Wt(o), "ECONNRESET")

ClosedCallback(S, o) ==
  IF S.tok[Rt(o)].mode # "D" THEN {Rt(o)}
  ELSE {t \in {Wt(o)} : S.tok[t].mode # "D"}

-----------------------------------------------------------------------------
(* Socket: life and death; a completion; an expiry                         *)

\* Socket::Socket(soc, proactor): two new tokens.  Their tv is whatever the
\* memory held: rtv and wtv.
NewSocket(S, o, rtv, wtv) ==
  [S EXCEPT !.tok = [@ EXCEPT ![Rt(o)] = FreshToken, ![Wt(o)] = FreshToken],
            !.tv = [@ EXCEPT ![Rt(o)] = rtv, ![Wt(o)] = wtv]]

\* Socket::~Socket after the descriptor is closed.  The memory is freed: what
\* it holds from now on is never read, so it gets one value.
DestroySocket(S, o) ==
  LET U == Unlink(Unlink(S, Rt(o)), Wt(o))
  IN  NewSocket(PopTimer(PopTimer(U, Rt(o)), Wt(o)), o, 0, 0)

\* Mistakes: the token keeps its mode, or its place in the queue.
DequeueKeepsMode(S) ==
  PopTimer([S EXCEPT !.queue = Tail(@)], Head(S.queue))

DequeueNot(S) ==
  SetToken(PopTimer(S, Head(S.queue)), Head(S.queue),
           S.tok[Head(S.queue)].ioSize, "N")

\* One turn of the loop of _processCompletion, up to the callback.
Dequeue(S) ==
  LET t == Head(S.queue)
      Z == PopTimer([S EXCEPT !.queue = Tail(@)], t)
  IN  SetToken(Z, t, S.tok[t].ioSize, "N")

\* Mistakes: <= for <, and a bound that is one off.
ExpiredEarly(S, scan) == {t \in S.timers : S.tv[t] <= scan}

ExpiredLate(S, scan) == {t \in S.timers : S.tv[t] + 1 < scan}

\* The tokens _processTimer would expire next: begin() of the set, if its tv
\* is before the time the scan read at its start.
Expired(S, scan) ==
  {t \in S.timers : /\ S.tv[t] < scan
                    /\ \A x \in S.timers : S.tv[t] <= S.tv[x]}

\* One turn of the loop of _processTimer, up to the callback: erase(itr).
Expire(S, t) ==
  SetErr(SetToken([S EXCEPT !.timers = @ \ {t}], t, S.tok[t].ioSize, "N"),
         t, "ETIMEDOUT")
=============================================================================
