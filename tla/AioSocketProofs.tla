--------------------------- MODULE AioSocketProofs --------------------------
(***************************************************************************)
(* What the procedures of AioSocket preserve, for every value of the       *)
(* constants.                                                              *)
(***************************************************************************)
EXTENDS AioSocket, TLAPS

\* The library's data is well typed, no operation has done more than it was
\* asked to, and none was asked for more than max bytes.
Sound(S, max) ==
  /\ S \in Library
  /\ \A t \in Token : /\ S.tok[t].ioSize <= S.tok[t].bufSize
                      /\ S.tok[t].bufSize <= max

\* S and Z have the same buffers.
SameSizes(S, Z) == \A t \in Token : Z.tok[t].bufSize = S.tok[t].bufSize

\* Token::Token starts both tokens of an object (proactor.h:78, 152-153).
LEMMA TokenPair == \A o \in Obj : Rt(o) \in Token /\ Wt(o) \in Token
BY DEF Token, Rt, Wt

\* Token::init starts an operation that has done nothing yet.
LEMMA InitTokenSound ==
  ASSUME NEW max \in Nat, NEW S, Sound(S, max), NEW t \in Token,
         NEW size \in Nat, size <= max, NEW err \in Errno
  PROVE  /\ Sound(InitToken(S, t, size, err), max)
         /\ InitToken(S, t, size, err).tok =
              [S.tok EXCEPT ![t] = [mode |-> "N", bufSize |-> size,
                                    ioSize |-> 0, err |-> err]]
<1> DEFINE rec == [mode |-> "N", bufSize |-> size, ioSize |-> 0, err |-> err]
<1>1. rec \in TokenRec
  BY DEF TokenRec, Mode
<1>2. InitToken(S, t, size, err) = [S EXCEPT !.tok = [S.tok EXCEPT ![t] = rec]]
  BY DEF InitToken, Sound, Library
<1> HIDE DEF rec
<1>3. Sound([S EXCEPT !.tok = [S.tok EXCEPT ![t] = rec]], max)
  <2>1. rec.ioSize <= rec.bufSize /\ rec.bufSize <= max
    BY DEF rec
  <2> QED
    BY <1>1, <2>1 DEF Sound, Library
<1>4. [S EXCEPT !.tok = [S.tok EXCEPT ![t] = rec]].tok = [S.tok EXCEPT ![t] = rec]
  BY DEF Sound, Library
<1> QED
  BY <1>2, <1>3, <1>4 DEF rec

\* Token::set keeps the bound if the new count is within it.
LEMMA SetTokenSound ==
  ASSUME NEW max \in Nat, NEW S, Sound(S, max), NEW t \in Token, NEW m \in Mode,
         NEW n \in Nat, n <= S.tok[t].bufSize
  PROVE  /\ Sound(SetToken(S, t, n, m), max)
         /\ SameSizes(S, SetToken(S, t, n, m))
<1>1. S \in Library /\ S.tok[t] \in TokenRec /\ S.tok \in [Token -> TokenRec]
  BY DEF Sound, Library
<1> DEFINE rec == [S.tok[t] EXCEPT !.ioSize = n, !.mode = m]
<1>2. /\ rec \in TokenRec /\ rec.ioSize = n /\ rec.bufSize = S.tok[t].bufSize
  BY <1>1 DEF TokenRec
<1>3. SetToken(S, t, n, m) = [S EXCEPT !.tok = [S.tok EXCEPT ![t] = rec]]
  BY <1>1 DEF SetToken, Library
<1> HIDE DEF rec
<1>4. [S EXCEPT !.tok = [S.tok EXCEPT ![t] = rec]] \in Library
  BY <1>1, <1>2 DEF Library
<1>5. [S EXCEPT !.tok = [S.tok EXCEPT ![t] = rec]].tok = [S.tok EXCEPT ![t] = rec]
  BY <1>1 DEF Library
<1>6. \A x \in Token : [S.tok EXCEPT ![t] = rec][x] = IF x = t THEN rec ELSE S.tok[x]
  BY <1>1
<1> QED
  BY <1>2, <1>3, <1>4, <1>5, <1>6 DEF Sound, SameSizes

\* Error::set touches nothing else.
LEMMA SetErrSound ==
  ASSUME NEW max \in Nat, NEW S, Sound(S, max), NEW t \in Token, NEW err \in Errno
  PROVE  /\ Sound(SetErr(S, t, err), max)
         /\ SameSizes(S, SetErr(S, t, err))
         /\ SetErr(S, t, err).tok[t].ioSize = S.tok[t].ioSize
BY DEF Sound, Library, TokenRec, SetErr, SameSizes

\* Proactor::_enqueue
LEMMA EnqueueSound ==
  ASSUME NEW max \in Nat, NEW S, Sound(S, max), NEW t \in Token
  PROVE  Sound(Enqueue(S, t), max) /\ SameSizes(S, Enqueue(S, t))
<1>1. Append(S.queue, t) \in Seq(Token)
  BY DEF Sound, Library
<1> QED
  BY <1>1 DEF Sound, Library, Enqueue, SameSizes

\* Proactor::_remove(Token*)
LEMMA UnlinkSound ==
  ASSUME NEW max \in Nat, NEW S, Sound(S, max), NEW t \in Token
  PROVE  Sound(Unlink(S, t), max) /\ SameSizes(S, Unlink(S, t))
<1>1. CASE ~Queued(S, t)
  BY <1>1 DEF Unlink, SameSizes
<1>2. CASE Queued(S, t)
  <2> DEFINE pos == CHOOSE i \in DOMAIN S.queue : S.queue[i] = t
             q == SubSeq(S.queue, 1, pos - 1)
                    \o SubSeq(S.queue, pos + 1, Len(S.queue))
  <2>1. S.queue \in Seq(Token) /\ pos \in 1..Len(S.queue)
    BY <1>2 DEF Queued, Sound, Library
  <2> HIDE DEF pos
  <2>2. q \in Seq(Token)
    <3>1. SubSeq(S.queue, 1, pos - 1) \in Seq(Token)
      BY <2>1
    <3>2. SubSeq(S.queue, pos + 1, Len(S.queue)) \in Seq(Token)
      BY <2>1
    <3> QED
      BY <3>1, <3>2
  <2>3. Unlink(S, t) = [S EXCEPT !.queue = q]
    BY <1>2 DEF Unlink, pos, Sound, Library
  <2> HIDE DEF q
  <2> QED
    BY <2>2, <2>3 DEF Sound, Library, SameSizes
<1> QED
  BY <1>1, <1>2

\* Proactor::_popTimer
LEMMA PopTimerSound ==
  ASSUME NEW max \in Nat, NEW S, Sound(S, max), NEW t \in Token
  PROVE  Sound(PopTimer(S, t), max) /\ SameSizes(S, PopTimer(S, t))
BY DEF Sound, Library, PopTimer, SameSizes

\* Proactor::_pushTimer
LEMMA PushTimerSound ==
  ASSUME NEW max \in Nat, NEW S, Sound(S, max), NEW t \in Token, NEW time \in Nat
  PROVE  Sound(PushTimer(S, t, time), max) /\ SameSizes(S, PushTimer(S, t, time))
<1>1. CASE Timeout = 0
  BY <1>1 DEF PushTimer, SameSizes
<1>2. CASE Timeout # 0
  <2> DEFINE key == time + Timeout
             set == IF \E x \in S.timers \ {t} : S.tv[x] = key
                    THEN S.timers ELSE S.timers \cup {t}
             keys == [S.tv EXCEPT ![t] = key]
  <2>1. keys \in [Token -> Nat] /\ set \in SUBSET Token
    BY TimeoutAssumption DEF Sound, Library
  <2>2. PushTimer(S, t, time) = [S EXCEPT !.tv = keys, !.timers = set]
    BY <1>2 DEF PushTimer, Sound, Library
  <2> HIDE DEF keys, set
  <2> QED
    BY <2>1, <2>2 DEF Sound, Library, SameSizes
<1> QED
  BY <1>1, <1>2

-----------------------------------------------------------------------------
\* An operation that is handed to the completion queue.
LEMMA DeliverSound ==
  ASSUME NEW max \in Nat, NEW S, Sound(S, max), NEW t \in Token, NEW m \in Mode,
         NEW n \in Nat, n <= S.tok[t].bufSize
  PROVE  Sound(Deliver(S, t, n, m), max)
BY SetTokenSound, EnqueueSound DEF Deliver

\* An operation that waits for an event.
LEMMA AwaitSound ==
  ASSUME NEW max \in Nat, NEW S, Sound(S, max), NEW t \in Token, NEW m \in Mode,
         NEW n \in Nat, n <= S.tok[t].bufSize, NEW time \in Nat
  PROVE  Sound(Await(S, t, n, m, time), max)
BY SetTokenSound, PushTimerSound DEF Await

\* What a system call asked for size bytes may return.
IsResult(r, size) == r.ret \in Int /\ r.ret <= size /\ r.err \in Errno

\* Socket::readSome, whatever read() returned and whatever was in progress.
LEMMA ReadSomeSound ==
  ASSUME NEW max \in Nat, NEW S, Sound(S, max), NEW o \in Obj,
         NEW size \in Nat, size <= max, NEW r, IsResult(r, size), NEW time \in Nat
  PROVE  Sound(ReadSome(S, o, size, r, time), max)
<1> DEFINE t == Rt(o)
           Z == InitToken(S, t, size, r.err)
<1>1. t \in Token
  BY TokenPair
<1>2. Sound(SetErr(S, t, "busy"), max)
  BY <1>1, SetErrSound DEF Errno
<1>3. Sound(Z, max) /\ Z.tok[t].bufSize = size
  <2>1. /\ Sound(Z, max)
        /\ Z.tok = [S.tok EXCEPT ![t] = [mode |-> "N", bufSize |-> size,
                                         ioSize |-> 0, err |-> r.err]]
    BY <1>1, InitTokenSound DEF IsResult
  <2>2. S.tok \in [Token -> TokenRec]
    BY DEF Sound, Library
  <2> QED
    BY <1>1, <2>1, <2>2
<1> HIDE DEF Z, t
<1>4. r.ret >= 0 => Sound(Deliver(Z, t, r.ret, "D"), max)
  BY <1>1, <1>3, DeliverSound DEF IsResult, Mode
<1>5. Sound(Await(Z, t, 0, "S", time), max)
  BY <1>1, <1>3, AwaitSound DEF Mode
<1>6. Sound(Deliver(Z, t, 0, "E"), max)
  BY <1>1, <1>3, DeliverSound DEF Mode
<1> QED
  BY <1>2, <1>4, <1>5, <1>6, Zenon DEF ReadSome, Z, t

\* Socket::readAll
LEMMA ReadAllSound ==
  ASSUME NEW max \in Nat, NEW S, Sound(S, max), NEW o \in Obj,
         NEW size \in Nat, size <= max, NEW r, IsResult(r, size), NEW time \in Nat
  PROVE  Sound(ReadAll(S, o, size, r, time), max)
<1> DEFINE t == Rt(o)
           Z == InitToken(S, t, size, r.err)
<1>1. t \in Token
  BY TokenPair
<1>2. Sound(SetErr(S, t, "busy"), max)
  BY <1>1, SetErrSound DEF Errno
<1>3. Sound(Z, max) /\ Z.tok[t].bufSize = size
  <2>1. /\ Sound(Z, max)
        /\ Z.tok = [S.tok EXCEPT ![t] = [mode |-> "N", bufSize |-> size,
                                         ioSize |-> 0, err |-> r.err]]
    BY <1>1, InitTokenSound DEF IsResult
  <2>2. S.tok \in [Token -> TokenRec]
    BY DEF Sound, Library
  <2> QED
    BY <1>1, <2>1, <2>2
<1> HIDE DEF Z, t
<1>4. ~(r.ret < 0) => Sound(Deliver(Z, t, r.ret, "D"), max)
  BY <1>1, <1>3, DeliverSound DEF IsResult, Mode
<1>5. Sound(Await(Z, t, 0, "A", time), max)
  BY <1>1, <1>3, AwaitSound DEF Mode
<1>6. Sound(Deliver(Z, t, 0, "E"), max)
  BY <1>1, <1>3, DeliverSound DEF Mode
<1>7. ~(r.ret < 0) => Sound(Await(Z, t, r.ret, "A", time), max)
  BY <1>1, <1>3, AwaitSound DEF IsResult, Mode
<1> QED
  BY <1>2, <1>4, <1>5, <1>6, <1>7, Zenon DEF ReadAll, Z, t

\* Socket::writeAll
LEMMA WriteAllSound ==
  ASSUME NEW max \in Nat, NEW S, Sound(S, max), NEW o \in Obj,
         NEW size \in Nat, size <= max, NEW r, IsResult(r, size), NEW time \in Nat
  PROVE  Sound(WriteAll(S, o, size, r, time), max)
<1> DEFINE t == Wt(o)
           Z == InitToken(S, t, size, r.err)
<1>1. t \in Token
  BY TokenPair
<1>2. Sound(SetErr(S, t, "busy"), max)
  BY <1>1, SetErrSound DEF Errno
<1>3. Sound(Z, max) /\ Z.tok[t].bufSize = size
  <2>1. /\ Sound(Z, max)
        /\ Z.tok = [S.tok EXCEPT ![t] = [mode |-> "N", bufSize |-> size,
                                         ioSize |-> 0, err |-> r.err]]
    BY <1>1, InitTokenSound DEF IsResult
  <2>2. S.tok \in [Token -> TokenRec]
    BY DEF Sound, Library
  <2> QED
    BY <1>1, <2>1, <2>2
<1> HIDE DEF Z, t
<1>4. ~(r.ret <= 0) => Sound(Deliver(Z, t, r.ret, "D"), max)
  BY <1>1, <1>3, DeliverSound DEF IsResult, Mode
<1>5. Sound(Await(Z, t, 0, "A", time), max)
  BY <1>1, <1>3, AwaitSound DEF Mode
<1>6. Sound(Deliver(Z, t, 0, "E"), max)
  BY <1>1, <1>3, DeliverSound DEF Mode
<1>7. ~(r.ret <= 0) => Sound(Await(Z, t, r.ret, "A", time), max)
  BY <1>1, <1>3, AwaitSound DEF IsResult, Mode
<1> QED
  BY <1>2, <1>4, <1>5, <1>6, <1>7, Zenon DEF WriteAll, Z, t

\* Socket::onRead: read() is given the whole buffer of the operation.
LEMMA OnReadSomeSound ==
  ASSUME NEW max \in Nat, NEW S, Sound(S, max), NEW o \in Obj,
         NEW r, IsResult(r, S.tok[Rt(o)].bufSize)
  PROVE  Sound(OnReadSome(S, o, r), max)
<1> DEFINE t == Rt(o)
           Z == SetErr(S, t, r.err)
<1>1. t \in Token
  BY TokenPair
<1>2. Sound(Z, max) /\ Z.tok[t].bufSize = S.tok[t].bufSize
  BY <1>1, SetErrSound DEF IsResult, SameSizes
<1>3. Z.tok[t].bufSize \in Nat
  BY <1>1, <1>2 DEF Sound, Library, TokenRec
<1>4. r.ret \in Int /\ r.ret <= Z.tok[t].bufSize
  BY <1>2 DEF IsResult
<1> HIDE DEF Z, t
<1>5. r.ret >= 0 => Sound(Deliver(Z, t, r.ret, "D"), max)
  BY <1>1, <1>2, <1>4, DeliverSound DEF Mode
<1>6. Sound(Deliver(Z, t, 0, "E"), max)
  BY <1>1, <1>2, <1>3, DeliverSound DEF Mode
<1> QED
  BY <1>2, <1>5, <1>6, Zenon DEF OnReadSome, Z, t

\* Socket::onRead: read() is given what is missing of the message.
LEMMA OnReadAllSound ==
  ASSUME NEW max \in Nat, NEW S, Sound(S, max), NEW o \in Obj,
         NEW r, IsResult(r, S.tok[Rt(o)].bufSize - S.tok[Rt(o)].ioSize)
  PROVE  Sound(OnReadAll(S, o, r), max)
<1> DEFINE t == Rt(o)
           Z == SetErr(S, t, r.err)
           n == S.tok[t].ioSize + r.ret
<1>1. t \in Token
  BY TokenPair
<1>2. Sound(Z, max) /\ Z.tok[t].bufSize = S.tok[t].bufSize
  BY <1>1, SetErrSound DEF IsResult, SameSizes
<1>3. S.tok[t].bufSize \in Nat /\ S.tok[t].ioSize \in Nat
  BY <1>1 DEF Sound, Library, TokenRec
<1>4. ~(r.ret = 0) /\ ~(r.ret < 0) => n \in Nat /\ n <= Z.tok[t].bufSize
  BY <1>2, <1>3 DEF IsResult
<1> HIDE DEF Z, t, n
<1>5. ~(r.ret = 0) /\ ~(r.ret < 0) => Sound(SetToken(Z, t, n, "A"), max)
  BY <1>1, <1>2, <1>4, SetTokenSound DEF Mode
<1>6. ~(r.ret = 0) /\ ~(r.ret < 0) => Sound(Deliver(Z, t, n, "D"), max)
  BY <1>1, <1>2, <1>4, DeliverSound DEF Mode
<1>7. Sound(Deliver(Z, t, 0, "E"), max)
  BY <1>1, <1>2, <1>3, DeliverSound DEF Mode
<1>8. Sound(Deliver(Z, t, 0, "D"), max)
  BY <1>1, <1>2, <1>3, DeliverSound DEF Mode
<1> QED
  BY <1>2, <1>5, <1>6, <1>7, <1>8, Zenon DEF OnReadAll, Z, t, n

\* Socket::onWrite: write() is given what is left of the operation.
LEMMA OnWriteAllSound ==
  ASSUME NEW max \in Nat, NEW S, Sound(S, max), NEW o \in Obj,
         NEW r, IsResult(r, S.tok[Wt(o)].bufSize - S.tok[Wt(o)].ioSize)
  PROVE  Sound(OnWriteAll(S, o, r), max)
<1> DEFINE t == Wt(o)
           Z == SetErr(S, t, r.err)
           n == S.tok[t].ioSize + r.ret
<1>1. t \in Token
  BY TokenPair
<1>2. Sound(Z, max) /\ Z.tok[t].bufSize = S.tok[t].bufSize
  BY <1>1, SetErrSound DEF IsResult, SameSizes
<1>3. S.tok[t].bufSize \in Nat /\ S.tok[t].ioSize \in Nat
  BY <1>1 DEF Sound, Library, TokenRec
<1>4. ~(r.ret <= 0) => n \in Nat /\ n <= Z.tok[t].bufSize
  BY <1>2, <1>3 DEF IsResult
<1> HIDE DEF Z, t, n
<1>5. ~(r.ret <= 0) => Sound(SetToken(Z, t, n, "A"), max)
  BY <1>1, <1>2, <1>4, SetTokenSound DEF Mode
<1>6. ~(r.ret <= 0) => Sound(Deliver(Z, t, n, "D"), max)
  BY <1>1, <1>2, <1>4, DeliverSound DEF Mode
<1>7. Sound(Deliver(Z, t, 0, "E"), max)
  BY <1>1, <1>2, <1>3, DeliverSound DEF Mode
<1> QED
  BY <1>2, <1>5, <1>6, <1>7, Zenon DEF OnWriteAll, Z, t, n

-----------------------------------------------------------------------------
\* Socket::onClose
LEMMA ClosedSound ==
  ASSUME NEW max \in Nat, NEW S, Sound(S, max), NEW o \in Obj
  PROVE  Sound(Closed(S, o), max)
BY TokenPair, SetErrSound DEF Closed, Errno

\* Socket::Socket
LEMMA NewSocketSound ==
  ASSUME NEW max \in Nat, NEW S, Sound(S, max), NEW o \in Obj,
         NEW rtv \in Nat, NEW wtv \in Nat
  PROVE  Sound(NewSocket(S, o, rtv, wtv), max)
<1> DEFINE toks == [S.tok EXCEPT ![Rt(o)] = FreshToken, ![Wt(o)] = FreshToken]
           keys == [S.tv EXCEPT ![Rt(o)] = rtv, ![Wt(o)] = wtv]
<1>1. FreshToken \in TokenRec /\ FreshToken.ioSize = 0 /\ FreshToken.bufSize = 0
  BY DEF FreshToken, TokenRec, Mode, Errno
<1>2. toks \in [Token -> TokenRec] /\ keys \in [Token -> Nat]
  BY <1>1, TokenPair DEF Sound, Library
<1>3. \A t \in Token : toks[t].ioSize <= toks[t].bufSize /\ toks[t].bufSize <= max
  <2> TAKE t \in Token
  <2>1. CASE t \in {Rt(o), Wt(o)}
    BY <1>1, <2>1 DEF Sound, Library
  <2>2. CASE t \notin {Rt(o), Wt(o)}
    BY <2>2 DEF Sound, Library
  <2> QED
    BY <2>1, <2>2
<1>4. NewSocket(S, o, rtv, wtv) = [S EXCEPT !.tok = toks, !.tv = keys]
  BY DEF NewSocket, Sound, Library
<1> HIDE DEF toks, keys
<1> QED
  BY <1>2, <1>3, <1>4 DEF Sound, Library

\* Socket::~Socket
LEMMA DestroySocketSound ==
  ASSUME NEW max \in Nat, NEW S, Sound(S, max), NEW o \in Obj
  PROVE  Sound(DestroySocket(S, o), max)
<1> DEFINE U == Unlink(Unlink(S, Rt(o)), Wt(o))
           P == PopTimer(PopTimer(U, Rt(o)), Wt(o))
<1>1. Sound(U, max)
  BY TokenPair, UnlinkSound
<1> HIDE DEF U
<1>2. Sound(P, max)
  BY <1>1, TokenPair, PopTimerSound
<1> HIDE DEF P
<1> QED
  BY <1>2, NewSocketSound DEF DestroySocket, P, U

\* The completion that _processCompletion takes from the queue.
LEMMA DequeueSound ==
  ASSUME NEW max \in Nat, NEW S, Sound(S, max), S.queue # <<>>
  PROVE  /\ Head(S.queue) \in Token
         /\ Sound(Dequeue(S), max)
<1> DEFINE t == Head(S.queue)
           R == [S EXCEPT !.queue = Tail(S.queue)]
<1>1. t \in Token /\ Tail(S.queue) \in Seq(Token)
  BY DEF Sound, Library
<1>2. Sound(R, max) /\ R.tok = S.tok
  BY <1>1 DEF Sound, Library
<1> HIDE DEF R, t
<1>3. Sound(PopTimer(R, t), max) /\ SameSizes(R, PopTimer(R, t))
  BY <1>1, <1>2, PopTimerSound
<1>4. /\ S.tok[t].ioSize \in Nat
      /\ S.tok[t].ioSize <= PopTimer(R, t).tok[t].bufSize
  BY <1>1, <1>2, <1>3 DEF SameSizes, Sound, Library, TokenRec
<1>5. Sound(SetToken(PopTimer(R, t), t, S.tok[t].ioSize, "N"), max)
  BY <1>1, <1>3, <1>4, SetTokenSound DEF Mode
<1> QED
  BY <1>1, <1>5 DEF Dequeue, R, t

\* The timer that _processTimer takes from the set.
LEMMA ExpireSound ==
  ASSUME NEW max \in Nat, NEW S, Sound(S, max), NEW t \in Token
  PROVE  Sound(Expire(S, t), max)
<1> DEFINE R == [S EXCEPT !.timers = S.timers \ {t}]
<1>1. Sound(R, max) /\ R.tok = S.tok
  BY DEF Sound, Library
<1>2. S.tok[t].ioSize \in Nat /\ S.tok[t].ioSize <= R.tok[t].bufSize
  BY <1>1 DEF Sound, Library, TokenRec
<1> HIDE DEF R
<1>3. Sound(SetToken(R, t, S.tok[t].ioSize, "N"), max)
  BY <1>1, <1>2, SetTokenSound DEF Mode
<1> QED
  BY <1>3, SetErrSound DEF Expire, R, Errno

-----------------------------------------------------------------------------
\* Deleting a socket adds nothing to the completion queue.
LEMMA DestroyKeepsEmpty ==
  ASSUME NEW S \in Library, NEW o \in Obj, S.queue = <<>>
  PROVE  DestroySocket(S, o).queue = <<>>
<1>1. \A t : Unlink(S, t) = S
  BY DEF Unlink, Queued
<1>2. ASSUME NEW R \in Library, NEW t \in Token
      PROVE  PopTimer(R, t) \in Library /\ PopTimer(R, t).queue = R.queue
  BY DEF PopTimer, Library
<1>3. ASSUME NEW R \in Library
      PROVE  NewSocket(R, o, 0, 0).queue = R.queue
  BY DEF NewSocket, Library
<1> QED
  BY <1>1, <1>2, <1>3, TokenPair DEF DestroySocket

\* Token::set and Error::set leave the queue alone.
LEMMA SetTokenKeepsQueue ==
  ASSUME NEW S \in Library, NEW t \in Token, NEW n \in Nat, NEW m \in Mode
  PROVE  SetToken(S, t, n, m) \in Library /\ SetToken(S, t, n, m).queue = S.queue
BY DEF SetToken, Library, TokenRec

LEMMA SetErrKeepsQueue ==
  ASSUME NEW S \in Library, NEW t \in Token, NEW err \in Errno
  PROVE  SetErr(S, t, err) \in Library /\ SetErr(S, t, err).queue = S.queue
BY DEF SetErr, Library, TokenRec

\* So does onClose.
LEMMA ClosedKeepsQueue ==
  ASSUME NEW S \in Library, NEW o \in Obj
  PROVE  Closed(S, o) \in Library /\ Closed(S, o).queue = S.queue
BY TokenPair, SetErrKeepsQueue DEF Closed, Errno

\* So does an expiry.
LEMMA ExpireKeepsQueue ==
  ASSUME NEW S \in Library, NEW t \in Token
  PROVE  Expire(S, t) \in Library /\ Expire(S, t).queue = S.queue
<1> DEFINE R == [S EXCEPT !.timers = S.timers \ {t}]
           P == SetToken(R, t, S.tok[t].ioSize, "N")
<1>1. R \in Library /\ R.queue = S.queue
  BY DEF Library
<1>2. S.tok[t].ioSize \in Nat
  BY DEF Library, TokenRec
<1> HIDE DEF R
<1>3. P \in Library /\ P.queue = S.queue
  BY <1>1, <1>2, SetTokenKeepsQueue DEF Mode
<1> HIDE DEF P
<1> QED
  BY <1>3, SetErrKeepsQueue DEF Expire, P, R, Errno

-----------------------------------------------------------------------------
(* The completion queue and the tokens' modes say the same, and every      *)
(* procedure keeps them in step.                                           *)

\* Each token is linked at most once, and is linked exactly when its mode says
\* that its operation is over.
QueueExact(S) ==
  /\ \A i, j \in DOMAIN S.queue : S.queue[i] = S.queue[j] => i = j
  /\ \A t \in Token : Queued(S, t) <=> S.tok[t].mode \in {"D", "E"}

\* Z differs from S at most in the token t.
Touches(S, Z, t) ==
  /\ Z \in Library
  /\ Z.queue = S.queue
  /\ Z.timers = S.timers
  /\ \A x \in Token \ {t} : Z.tok[x].mode = S.tok[x].mode

\* From S to Z the operation of t has been left pending or has come to its end.
Moves(S, Z, t) ==
  /\ Z \in Library
  /\ Z.timers \subseteq S.timers \cup {t}
  /\ \A x \in Token \ {t} : Z.tok[x].mode = S.tok[x].mode
  /\ \/ Z.queue = S.queue /\ Z.tok[t].mode \in {"S", "A"}
     \/ Z.queue = Append(S.queue, t) /\ Z.tok[t].mode \in {"D", "E"}

-----------------------------------------------------------------------------
\* A token that is written to stays the only one touched.
LEMMA ReplaceTouches ==
  ASSUME NEW S \in Library, NEW t \in Token, NEW Z, Touches(S, Z, t),
         NEW rec \in TokenRec
  PROVE  /\ Touches(S, [Z EXCEPT !.tok = [Z.tok EXCEPT ![t] = rec]], t)
         /\ [Z EXCEPT !.tok = [Z.tok EXCEPT ![t] = rec]].tok[t] = rec
<1> DEFINE f == [Z.tok EXCEPT ![t] = rec]
<1>1. Z \in Library
  BY DEF Touches
<1>2. f \in [Token -> TokenRec] /\ f[t] = rec /\ \A x \in Token \ {t} : f[x] = Z.tok[x]
  BY <1>1 DEF Library
<1> HIDE DEF f
<1>3. /\ [Z EXCEPT !.tok = f] \in Library
      /\ [Z EXCEPT !.tok = f].tok = f
      /\ [Z EXCEPT !.tok = f].queue = Z.queue
      /\ [Z EXCEPT !.tok = f].timers = Z.timers
  BY <1>1, <1>2 DEF Library
<1>4. Touches(S, [Z EXCEPT !.tok = f], t)
  BY <1>2, <1>3 DEF Touches
<1> QED
  BY <1>2, <1>3, <1>4 DEF f

\* Token::init
LEMMA InitTokenTouches ==
  ASSUME NEW S \in Library, NEW t \in Token, NEW size \in Nat, NEW err \in Errno
  PROVE  Touches(S, InitToken(S, t, size, err), t)
<1> DEFINE rec == [mode |-> "N", bufSize |-> size, ioSize |-> 0, err |-> err]
<1>1. rec \in TokenRec
  BY DEF TokenRec, Mode
<1>2. InitToken(S, t, size, err) = [S EXCEPT !.tok = [S.tok EXCEPT ![t] = rec]]
  BY DEF InitToken, Library
<1>3. Touches(S, S, t)
  BY DEF Touches
<1> HIDE DEF rec
<1> QED
  BY <1>1, <1>2, <1>3, ReplaceTouches

\* Token::set
LEMMA SetTokenTouches ==
  ASSUME NEW S \in Library, NEW t \in Token, NEW n \in Nat, NEW m \in Mode,
         NEW Z, Touches(S, Z, t)
  PROVE  /\ Touches(S, SetToken(Z, t, n, m), t)
         /\ SetToken(Z, t, n, m).tok[t].mode = m
<1> DEFINE rec == [Z.tok[t] EXCEPT !.ioSize = n, !.mode = m]
<1>1. Z \in Library /\ Z.tok[t] \in TokenRec
  BY DEF Touches, Library
<1>2. rec \in TokenRec /\ rec.mode = m
  BY <1>1 DEF TokenRec
<1>3. SetToken(Z, t, n, m) = [Z EXCEPT !.tok = [Z.tok EXCEPT ![t] = rec]]
  BY <1>1 DEF SetToken, Library
<1> HIDE DEF rec
<1> QED
  BY <1>2, <1>3, ReplaceTouches

\* Error::set
LEMMA SetErrTouches ==
  ASSUME NEW S \in Library, NEW t \in Token, NEW err \in Errno
  PROVE  /\ Touches(S, SetErr(S, t, err), t)
         /\ SetErr(S, t, err).tok[t].mode = S.tok[t].mode
<1> DEFINE rec == [S.tok[t] EXCEPT !.err = err]
<1>1. S.tok[t] \in TokenRec
  BY DEF Library
<1>2. rec \in TokenRec /\ rec.mode = S.tok[t].mode
  BY <1>1 DEF TokenRec
<1>3. SetErr(S, t, err) = [S EXCEPT !.tok = [S.tok EXCEPT ![t] = rec]]
  BY DEF SetErr, Library
<1>4. Touches(S, S, t)
  BY DEF Touches
<1> HIDE DEF rec
<1> QED
  BY <1>2, <1>3, <1>4, ReplaceTouches

\* Proactor::_enqueue of an operation that is over
LEMMA DeliverMoves ==
  ASSUME NEW S \in Library, NEW Z, NEW t \in Token, Touches(S, Z, t),
         NEW n \in Nat, NEW m \in {"D", "E"}
  PROVE  Moves(S, Deliver(Z, t, n, m), t)
<1> DEFINE Y == SetToken(Z, t, n, m)
<1>m. m \in Mode
  BY DEF Mode
<1>1. Touches(S, Y, t) /\ Y.tok[t].mode = m
  BY <1>m, SetTokenTouches
<1> HIDE DEF Y
<1>2. Append(Y.queue, t) \in Seq(Token)
  BY <1>1 DEF Touches, Library
<1> QED
  BY <1>1, <1>2 DEF Touches, Deliver, Enqueue, Y, Moves, Library

\* Proactor::_pushTimer of an operation that waits
LEMMA AwaitMoves ==
  ASSUME NEW S \in Library, NEW Z, NEW t \in Token, Touches(S, Z, t),
         NEW n \in Nat, NEW m \in {"S", "A"}, NEW time \in Nat
  PROVE  Moves(S, Await(Z, t, n, m, time), t)
<1> DEFINE Y == SetToken(Z, t, n, m)
<1>m. m \in Mode
  BY DEF Mode
<1>1. Touches(S, Y, t) /\ Y.tok[t].mode = m
  BY <1>m, SetTokenTouches
<1> HIDE DEF Y
<1>2. CASE Timeout = 0
  BY <1>1, <1>2 DEF Touches, Await, PushTimer, Y, Moves
<1>3. CASE Timeout # 0
  <2> DEFINE key == time + Timeout
             set == IF \E x \in Y.timers \ {t} : Y.tv[x] = key
                    THEN Y.timers ELSE Y.timers \cup {t}
             keys == [Y.tv EXCEPT ![t] = key]
  <2>1. keys \in [Token -> Nat] /\ set \in SUBSET Token /\ set \subseteq Y.timers \cup {t}
    BY <1>1, TimeoutAssumption DEF Touches, Library
  <2>2. PushTimer(Y, t, time) = [Y EXCEPT !.tv = keys, !.timers = set]
    BY <1>1, <1>3 DEF PushTimer, Touches, Library
  <2> HIDE DEF keys, set
  <2> QED
    BY <1>1, <2>1, <2>2 DEF Touches, Await, Y, Moves, Library
<1> QED
  BY <1>2, <1>3

-----------------------------------------------------------------------------
\* Socket::readSome when no read is in progress
LEMMA ReadSomeMoves ==
  ASSUME NEW S \in Library, NEW o \in Obj, S.tok[Rt(o)].mode = "N",
         NEW size \in Nat, NEW r, r.ret \in Int, r.err \in Errno, NEW time \in Nat
  PROVE  Moves(S, ReadSome(S, o, size, r, time), Rt(o))
<1> DEFINE t == Rt(o)
           Z == InitToken(S, t, size, r.err)
<1>1. t \in Token /\ Touches(S, Z, t)
  BY TokenPair, InitTokenTouches
<1> HIDE DEF Z, t
<1>2. /\ r.ret >= 0 => Moves(S, Deliver(Z, t, r.ret, "D"), t)
      /\ Moves(S, Deliver(Z, t, 0, "E"), t)
      /\ Moves(S, Await(Z, t, 0, "S", time), t)
  BY <1>1, DeliverMoves, AwaitMoves
<1> QED
  BY <1>2, Zenon DEF ReadSome, Z, t

\* Socket::readAll when no read is in progress
LEMMA ReadAllMoves ==
  ASSUME NEW S \in Library, NEW o \in Obj, S.tok[Rt(o)].mode = "N",
         NEW size \in Nat, NEW r, r.ret \in Int, r.err \in Errno, NEW time \in Nat
  PROVE  Moves(S, ReadAll(S, o, size, r, time), Rt(o))
<1> DEFINE t == Rt(o)
           Z == InitToken(S, t, size, r.err)
<1>1. t \in Token /\ Touches(S, Z, t)
  BY TokenPair, InitTokenTouches
<1> HIDE DEF Z, t
<1>2. /\ ~(r.ret < 0) => Moves(S, Deliver(Z, t, r.ret, "D"), t)
      /\ Moves(S, Deliver(Z, t, 0, "E"), t)
      /\ ~(r.ret < 0) => Moves(S, Await(Z, t, r.ret, "A", time), t)
      /\ Moves(S, Await(Z, t, 0, "A", time), t)
  BY <1>1, DeliverMoves, AwaitMoves
<1> QED
  BY <1>2, Zenon DEF ReadAll, Z, t

\* Socket::writeAll when no write is in progress
LEMMA WriteAllMoves ==
  ASSUME NEW S \in Library, NEW o \in Obj, S.tok[Wt(o)].mode = "N",
         NEW size \in Nat, NEW r, r.ret \in Int, r.err \in Errno, NEW time \in Nat
  PROVE  Moves(S, WriteAll(S, o, size, r, time), Wt(o))
<1> DEFINE t == Wt(o)
           Z == InitToken(S, t, size, r.err)
<1>1. t \in Token /\ Touches(S, Z, t)
  BY TokenPair, InitTokenTouches
<1> HIDE DEF Z, t
<1>2. /\ ~(r.ret <= 0) => Moves(S, Deliver(Z, t, r.ret, "D"), t)
      /\ Moves(S, Deliver(Z, t, 0, "E"), t)
      /\ ~(r.ret <= 0) => Moves(S, Await(Z, t, r.ret, "A", time), t)
      /\ Moves(S, Await(Z, t, 0, "A", time), t)
  BY <1>1, DeliverMoves, AwaitMoves
<1> QED
  BY <1>2, Zenon DEF WriteAll, Z, t

\* Socket::onRead for a pending read
LEMMA OnReadSomeMoves ==
  ASSUME NEW S \in Library, NEW o \in Obj, S.tok[Rt(o)].mode = "S",
         NEW r, r.ret \in Int, r.err \in Errno
  PROVE  Moves(S, OnReadSome(S, o, r), Rt(o))
<1> DEFINE t == Rt(o)
           Z == SetErr(S, t, r.err)
<1>1. t \in Token /\ Touches(S, Z, t) /\ Z.tok[t].mode = "S"
  BY TokenPair, SetErrTouches
<1> HIDE DEF Z, t
<1>2. /\ r.ret >= 0 => Moves(S, Deliver(Z, t, r.ret, "D"), t)
      /\ Moves(S, Deliver(Z, t, 0, "E"), t)
  BY <1>1, DeliverMoves
<1>3. Moves(S, Z, t)
  BY <1>1 DEF Touches, Moves
<1> QED
  BY <1>2, <1>3, Zenon DEF OnReadSome, Z, t

\* Socket::onRead for a pending readAll
LEMMA OnReadAllMoves ==
  ASSUME NEW S \in Library, NEW o \in Obj, S.tok[Rt(o)].mode = "A",
         NEW r, r.ret \in Int, r.err \in Errno
  PROVE  Moves(S, OnReadAll(S, o, r), Rt(o))
<1> DEFINE t == Rt(o)
           Z == SetErr(S, t, r.err)
           n == S.tok[t].ioSize + r.ret
<1>1. t \in Token /\ Touches(S, Z, t) /\ Z.tok[t].mode = "A"
  BY TokenPair, SetErrTouches
<1>2. ~(r.ret = 0) /\ ~(r.ret < 0) => n \in Nat
  BY <1>1 DEF Library, TokenRec
<1> HIDE DEF Z, t, n
<1>3. /\ ~(r.ret = 0) /\ ~(r.ret < 0) => Moves(S, Deliver(Z, t, n, "D"), t)
      /\ Moves(S, Deliver(Z, t, 0, "E"), t)
      /\ Moves(S, Deliver(Z, t, 0, "D"), t)
  BY <1>1, <1>2, DeliverMoves
<1>4. Moves(S, Z, t)
  BY <1>1 DEF Touches, Moves
<1>5. ~(r.ret = 0) /\ ~(r.ret < 0) => Moves(S, SetToken(Z, t, n, "A"), t)
  <2> SUFFICES ASSUME ~(r.ret = 0) /\ ~(r.ret < 0)
               PROVE  Moves(S, SetToken(Z, t, n, "A"), t)
    OBVIOUS
  <2>m. n \in Nat /\ "A" \in Mode
    BY <1>2 DEF Mode
  <2>1. /\ Touches(S, SetToken(Z, t, n, "A"), t)
        /\ SetToken(Z, t, n, "A").tok[t].mode = "A"
    BY <1>1, <2>m, SetTokenTouches
  <2> QED
    BY <2>1 DEF Touches, Moves
<1> QED
  BY <1>3, <1>4, <1>5, Zenon DEF OnReadAll, Z, t, n

\* Socket::onWrite for a pending write
LEMMA OnWriteAllMoves ==
  ASSUME NEW S \in Library, NEW o \in Obj, S.tok[Wt(o)].mode = "A",
         NEW r, r.ret \in Int, r.err \in Errno
  PROVE  Moves(S, OnWriteAll(S, o, r), Wt(o))
<1> DEFINE t == Wt(o)
           Z == SetErr(S, t, r.err)
           n == S.tok[t].ioSize + r.ret
<1>1. t \in Token /\ Touches(S, Z, t) /\ Z.tok[t].mode = "A"
  BY TokenPair, SetErrTouches
<1>2. ~(r.ret <= 0) => n \in Nat
  BY <1>1 DEF Library, TokenRec
<1> HIDE DEF Z, t, n
<1>3. /\ ~(r.ret <= 0) => Moves(S, Deliver(Z, t, n, "D"), t)
      /\ Moves(S, Deliver(Z, t, 0, "E"), t)
  BY <1>1, <1>2, DeliverMoves
<1>4. Moves(S, Z, t)
  BY <1>1 DEF Touches, Moves
<1>5. ~(r.ret <= 0) => Moves(S, SetToken(Z, t, n, "A"), t)
  <2> SUFFICES ASSUME ~(r.ret <= 0) PROVE Moves(S, SetToken(Z, t, n, "A"), t)
    OBVIOUS
  <2>m. n \in Nat /\ "A" \in Mode
    BY <1>2 DEF Mode
  <2>1. /\ Touches(S, SetToken(Z, t, n, "A"), t)
        /\ SetToken(Z, t, n, "A").tok[t].mode = "A"
    BY <1>1, <2>m, SetTokenTouches
  <2> QED
    BY <2>1 DEF Touches, Moves
<1> QED
  BY <1>3, <1>4, <1>5, Zenon DEF OnWriteAll, Z, t, n

\* None of them links a token twice or forgets one.
LEMMA MovesExact ==
  ASSUME NEW S \in Library, QueueExact(S), NEW t \in Token,
         S.tok[t].mode \notin {"D", "E"}, NEW Z, Moves(S, Z, t)
  PROVE  QueueExact(Z)
<1>1. ~Queued(S, t)
  BY DEF QueueExact
<1>2. CASE Z.queue = S.queue /\ Z.tok[t].mode \in {"S", "A"}
  BY <1>1, <1>2 DEF QueueExact, Moves, Queued
<1>3. CASE Z.queue = Append(S.queue, t) /\ Z.tok[t].mode \in {"D", "E"}
  <2> DEFINE n == Len(S.queue)
  <2>1. /\ n \in Nat /\ DOMAIN S.queue = 1..n
        /\ DOMAIN Z.queue = 1..(n + 1)
        /\ Z.queue[n + 1] = t
        /\ \A i \in 1..n : Z.queue[i] = S.queue[i]
    <3>1. S.queue \in Seq(Token) /\ Z.queue = Append(S.queue, t)
      BY <1>3 DEF Library
    <3> QED
      BY <3>1
  <2>2. \A i \in 1..n : S.queue[i] # t
    BY <1>1, <2>1 DEF Queued
  <2> HIDE DEF n
  <2>3. \A i, j \in DOMAIN Z.queue : Z.queue[i] = Z.queue[j] => i = j
    <3>1. \A i, j \in 1..n : S.queue[i] = S.queue[j] => i = j
      BY <2>1 DEF QueueExact
    <3>2. \A i \in 1..n : Z.queue[i] # t
      BY <2>1, <2>2
    <3>3. \A i, j \in 1..n : Z.queue[i] = Z.queue[j] => i = j
      BY <2>1, <3>1
    <3>4. DOMAIN Z.queue = (1..n) \cup {n + 1}
      BY <2>1
    <3> QED
      BY <2>1, <3>2, <3>3, <3>4
  <2>4. \A x \in Token : Queued(Z, x) <=> x = t \/ Queued(S, x)
    <3> TAKE x \in Token
    <3>1. Queued(Z, x) <=> \E i \in 1..(n + 1) : Z.queue[i] = x
      BY <2>1 DEF Queued
    <3>2. Queued(S, x) <=> \E i \in 1..n : Z.queue[i] = x
      BY <2>1 DEF Queued
    <3>3. \A i \in 1..(n + 1) : i = n + 1 \/ i \in 1..n
      BY <2>1
    <3> QED
      BY <2>1, <3>1, <3>2, <3>3
  <2> QED
    BY <1>3, <2>3, <2>4 DEF QueueExact, Moves
<1> QED
  BY <1>2, <1>3 DEF Moves

-----------------------------------------------------------------------------
(* What a procedure does to one object's tokens leaves the others alone.   *)

\* Z comes from S by operations on the socket of o.
Step(S, Z, o) ==
  /\ Z \in Library
  /\ QueueExact(Z)
  /\ \A x \in Token : Owner(x) # o => Z.tok[x].mode = S.tok[x].mode
  /\ \A x \in Token : Queued(Z, x) => Queued(S, x) \/ Owner(x) = o
  /\ \A x \in Z.timers : x \in S.timers \/ Owner(x) = o

\* No token of o is linked or has a timer.
Forgotten(S, o) ==
  \A t \in Token : Owner(t) = o => ~Queued(S, t) /\ t \notin S.timers

\* Which tokens an object has: rt and wt of its Socket.
LEMMA Owners == \A o \in Obj : /\ Owner(Rt(o)) = o /\ Owner(Wt(o)) = o
                               /\ Rt(o) # Wt(o)
                               /\ \A t \in Token : Owner(t) = o => t \in {Rt(o), Wt(o)}
BY DEF Owner, Rt, Wt, Token

\* One step on a socket after another is a step on it.
LEMMA StepTrans ==
  ASSUME NEW S \in Library, NEW Y, NEW Z, NEW o \in Obj, Step(S, Y, o), Step(Y, Z, o)
  PROVE  Step(S, Z, o)
<1>1. Z.timers \subseteq Token
  BY DEF Step, Library
<1> QED
  BY <1>1 DEF Step

\* An operation started or continued
LEMMA MovesStep ==
  ASSUME NEW S \in Library, QueueExact(S), NEW o \in Obj, NEW t \in Token,
         Owner(t) = o, S.tok[t].mode \notin {"D", "E"}, NEW Z, Moves(S, Z, t)
  PROVE  Step(S, Z, o) /\ Z.tok[t].mode # "N"
<1>1. QueueExact(Z)
  BY MovesExact
<1>2. Z.tok[t].mode # "N"
  BY DEF Moves
<1>3. \A x \in Token : Queued(Z, x) => Queued(S, x) \/ x = t
  <2> TAKE x \in Token
  <2>1. CASE x = t
    BY <2>1
  <2>2. CASE x # t
    BY <1>1, <2>2 DEF QueueExact, Moves
  <2> QED
    BY <2>1, <2>2
<1> QED
  BY <1>1, <1>2, <1>3 DEF Moves, Step

\* Socket::onClose
LEMMA ClosedStep ==
  ASSUME NEW S \in Library, QueueExact(S), NEW o \in Obj
  PROVE  /\ Step(S, Closed(S, o), o)
         /\ \A t \in Token : Closed(S, o).tok[t].mode = S.tok[t].mode
         /\ Closed(S, o).queue = S.queue /\ Closed(S, o).timers = S.timers
<1> DEFINE Y == SetErr(S, Rt(o), "ECONNRESET")
           Z == SetErr(Y, Wt(o), "ECONNRESET")
<1>1. /\ Touches(S, Y, Rt(o)) /\ Y.tok[Rt(o)].mode = S.tok[Rt(o)].mode
      /\ Y \in Library
  BY TokenPair, SetErrTouches DEF Errno, Touches
<1>2. Touches(Y, Z, Wt(o)) /\ Z.tok[Wt(o)].mode = Y.tok[Wt(o)].mode
  BY <1>1, TokenPair, SetErrTouches DEF Errno
<1> HIDE DEF Y, Z
<1>3. /\ \A t \in Token : Z.tok[t].mode = S.tok[t].mode
      /\ Z.queue = S.queue /\ Z.timers = S.timers /\ Z \in Library
  <2>1. \A t \in Token : Y.tok[t].mode = S.tok[t].mode
    BY <1>1 DEF Touches
  <2>2. \A t \in Token : Z.tok[t].mode = Y.tok[t].mode
    BY <1>2 DEF Touches
  <2> QED
    BY <1>1, <1>2, <2>1, <2>2 DEF Touches
<1>4. Step(S, Z, o)
  BY <1>3 DEF Step, QueueExact, Queued
<1> QED
  BY <1>3, <1>4, Zenon DEF Closed, Z, Y

\* Socket::Socket, where no socket lives
LEMMA NewSocketStep ==
  ASSUME NEW S \in Library, QueueExact(S), NEW o \in Obj, Forgotten(S, o),
         NEW rtv \in Nat, NEW wtv \in Nat
  PROVE  /\ Step(S, NewSocket(S, o, rtv, wtv), o)
         /\ Forgotten(NewSocket(S, o, rtv, wtv), o)
         /\ \A t \in {Rt(o), Wt(o)} : NewSocket(S, o, rtv, wtv).tok[t].mode = "N"
<1> DEFINE toks == [S.tok EXCEPT ![Rt(o)] = FreshToken, ![Wt(o)] = FreshToken]
           keys == [S.tv EXCEPT ![Rt(o)] = rtv, ![Wt(o)] = wtv]
           Z == NewSocket(S, o, rtv, wtv)
<1>1. FreshToken \in TokenRec /\ FreshToken.mode = "N"
  BY DEF FreshToken, TokenRec, Mode, Errno
<1>2. toks \in [Token -> TokenRec] /\ keys \in [Token -> Nat]
  BY <1>1, TokenPair DEF Library
<1>3. /\ \A t \in {Rt(o), Wt(o)} : toks[t].mode = "N"
      /\ \A t \in Token : Owner(t) # o => toks[t].mode = S.tok[t].mode
  BY <1>1, TokenPair, Owners DEF Library
<1>4. Z = [S EXCEPT !.tok = toks, !.tv = keys]
  BY DEF NewSocket, Library
<1> HIDE DEF toks, keys, Z
<1>5. /\ Z \in Library /\ Z.queue = S.queue /\ Z.timers = S.timers
      /\ Z.tok = toks
  BY <1>2, <1>4 DEF Library
<1>6. \A t \in Token : Queued(Z, t) <=> Queued(S, t)
  BY <1>5 DEF Queued
<1>7. \A t \in Token : Queued(Z, t) <=> Z.tok[t].mode \in {"D", "E"}
  <2> TAKE t \in Token
  <2>1. CASE Owner(t) = o
    BY <1>3, <1>5, <1>6, <2>1, Owners DEF Forgotten
  <2>2. CASE Owner(t) # o
    BY <1>3, <1>5, <1>6, <2>2 DEF QueueExact
  <2> QED
    BY <2>1, <2>2
<1> QED
  BY <1>3, <1>5, <1>6, <1>7 DEF Step, QueueExact, Forgotten, Z

-----------------------------------------------------------------------------
(* Tokens that leave the queue.                                            *)

\* Each token is linked at most once: the first half of QueueExact.
Once(S) == \A i, j \in DOMAIN S.queue : S.queue[i] = S.queue[j] => i = j

\* Proactor::_remove(Token*) takes out the token, and no other.
LEMMA UnlinkRemoves ==
  ASSUME NEW S \in Library, Once(S), NEW t \in Token
  PROVE  /\ Unlink(S, t) \in Library /\ Once(Unlink(S, t))
         /\ Unlink(S, t).tok = S.tok /\ Unlink(S, t).timers = S.timers
         /\ \A x \in Token : Queued(Unlink(S, t), x) <=> Queued(S, x) /\ x # t
<1>1. CASE ~Queued(S, t)
  BY <1>1 DEF Unlink
<1>2. CASE Queued(S, t)
  <2> DEFINE n == Len(S.queue)
             pos == CHOOSE i \in DOMAIN S.queue : S.queue[i] = t
             a == SubSeq(S.queue, 1, pos - 1)
             b == SubSeq(S.queue, pos + 1, Len(S.queue))
             q == a \o b
  <2>1. /\ S.queue \in Seq(Token) /\ n \in Nat /\ DOMAIN S.queue = 1..n
        /\ pos \in 1..n /\ S.queue[pos] = t
    BY <1>2 DEF Queued, Library
  <2> HIDE DEF pos
  <2>2. /\ a \in Seq(Token) /\ Len(a) = pos - 1
        /\ \A i \in 1..(pos - 1) : a[i] = S.queue[i]
    BY <2>1
  <2>3. /\ b \in Seq(Token) /\ Len(b) = n - pos
        /\ \A i \in 1..(n - pos) : b[i] = S.queue[pos + i]
    BY <2>1
  <2>4. Unlink(S, t) = [S EXCEPT !.queue = q]
    BY <1>2 DEF Unlink, pos, Library
  <2> HIDE DEF a, b, n
  <2>5. /\ q \in Seq(Token) /\ Len(q) = n - 1 /\ DOMAIN q = 1..(n - 1)
        /\ \A i \in 1..(n - 1) :
             q[i] = S.queue[IF i < pos THEN i ELSE i + 1]
    <3>1. q \in Seq(Token) /\ Len(q) = n - 1 /\ DOMAIN q = 1..(n - 1)
      <4>1. q \in Seq(Token) /\ Len(q) = Len(a) + Len(b)
        BY <2>2, <2>3
      <4>2. Len(a) + Len(b) = n - 1
        BY <2>1, <2>2, <2>3
      <4> QED
        BY <4>1, <4>2
    <3>2. ASSUME NEW i \in 1..(n - 1)
          PROVE  q[i] = S.queue[IF i < pos THEN i ELSE i + 1]
      <4>1. CASE i < pos
        BY <2>1, <2>2, <2>3, <4>1
      <4>2. CASE ~(i < pos)
        <5>1. q[i] = b[i - (pos - 1)]
          BY <2>1, <2>2, <2>3, <4>2
        <5>2. i - (pos - 1) \in 1..(n - pos) /\ pos + (i - (pos - 1)) = i + 1
          BY <2>1, <4>2
        <5> QED
          BY <2>3, <4>2, <5>1, <5>2
      <4> QED
        BY <4>1, <4>2
    <3> QED
      BY <3>1, <3>2
  <2> HIDE DEF q
  <2> DEFINE Z == Unlink(S, t)
  <2>6. Z \in Library /\ Z.queue = q /\ Z.tok = S.tok /\ Z.timers = S.timers
    BY <2>4, <2>5 DEF Library
  <2> HIDE DEF Z
  <2>7. Once(Z)
    <3> SUFFICES ASSUME NEW i \in 1..(n - 1), NEW j \in 1..(n - 1), q[i] = q[j]
                 PROVE  i = j
      BY <2>5, <2>6 DEF Once
    <3> DEFINE k == IF i < pos THEN i ELSE i + 1
               l == IF j < pos THEN j ELSE j + 1
    <3>1. k \in 1..n /\ l \in 1..n
      BY <2>1
    <3>2. S.queue[k] = S.queue[l]
      BY <2>5
    <3>3. k = l
      <4> HIDE DEF k, l
      <4> QED
        BY <2>1, <3>1, <3>2 DEF Once
    <3> QED
      BY <2>1, <3>3
  <2>8. \A x \in Token : Queued(Z, x) <=> Queued(S, x) /\ x # t
    <3> TAKE x \in Token
    <3>1. ASSUME Queued(Z, x) PROVE Queued(S, x) /\ x # t
      <4> PICK i \in 1..(n - 1) : S.queue[IF i < pos THEN i ELSE i + 1] = x
        BY <2>5, <2>6, <3>1 DEF Queued
      <4> DEFINE k == IF i < pos THEN i ELSE i + 1
      <4>1. k \in 1..n /\ k # pos
        BY <2>1
      <4>2. S.queue[k] = x
        OBVIOUS
      <4> HIDE DEF k
      <4> QED
        BY <2>1, <4>1, <4>2 DEF Queued, Once
    <3>2. ASSUME Queued(S, x), x # t PROVE Queued(Z, x)
      <4> PICK k \in 1..n : S.queue[k] = x
        BY <2>1, <3>2 DEF Queued
      <4> DEFINE i == IF k < pos THEN k ELSE k - 1
      <4>1. i \in 1..(n - 1) /\ (IF i < pos THEN i ELSE i + 1) = k
        BY <2>1, <3>2
      <4> HIDE DEF i
      <4> QED
        BY <2>5, <2>6, <4>1 DEF Queued
    <3> QED
      BY <3>1, <3>2
  <2> QED
    BY <2>6, <2>7, <2>8 DEF Z
<1> QED
  BY <1>1, <1>2

\* Proactor::_popTimer takes out the token, and perhaps others with its key.
LEMMA PopTimerRemoves ==
  ASSUME NEW S \in Library, NEW t \in Token
  PROVE  /\ PopTimer(S, t) \in Library
         /\ PopTimer(S, t).tok = S.tok /\ PopTimer(S, t).queue = S.queue
         /\ PopTimer(S, t).timers \subseteq S.timers \ {t}
BY DEF PopTimer, Library

\* Socket::~Socket leaves no pointer to its tokens.
LEMMA DestroyStep ==
  ASSUME NEW S \in Library, QueueExact(S), NEW o \in Obj
  PROVE  Step(S, DestroySocket(S, o), o) /\ Forgotten(DestroySocket(S, o), o)
<1> DEFINE r == Rt(o)
           w == Wt(o)
           U == Unlink(S, r)
           V == Unlink(U, w)
           P == PopTimer(V, r)
           Q == PopTimer(P, w)
           toks == [Q.tok EXCEPT ![r] = FreshToken, ![w] = FreshToken]
           keys == [Q.tv EXCEPT ![r] = 0, ![w] = 0]
           Z == NewSocket(Q, o, 0, 0)
<1>1. r \in Token /\ w \in Token /\ Once(S)
  BY TokenPair DEF Once, QueueExact
<1>2. /\ U \in Library /\ Once(U) /\ U.tok = S.tok /\ U.timers = S.timers
      /\ \A x \in Token : Queued(U, x) <=> Queued(S, x) /\ x # r
  BY <1>1, UnlinkRemoves
<1> HIDE DEF U
<1>3. /\ V \in Library /\ Once(V) /\ V.tok = U.tok /\ V.timers = U.timers
      /\ \A x \in Token : Queued(V, x) <=> Queued(U, x) /\ x # w
  BY <1>1, <1>2, UnlinkRemoves
<1> HIDE DEF V
<1>4. /\ P \in Library /\ P.tok = V.tok /\ P.queue = V.queue
      /\ P.timers \subseteq V.timers \ {r}
  BY <1>1, <1>3, PopTimerRemoves
<1> HIDE DEF P
<1>5. /\ Q \in Library /\ Q.tok = P.tok /\ Q.queue = P.queue
      /\ Q.timers \subseteq P.timers \ {w}
  BY <1>1, <1>4, PopTimerRemoves
<1> HIDE DEF Q
<1>6. FreshToken \in TokenRec /\ FreshToken.mode = "N"
  BY DEF FreshToken, TokenRec, Mode, Errno
<1>7. /\ toks \in [Token -> TokenRec] /\ keys \in [Token -> Nat]
      /\ \A t \in {r, w} : toks[t].mode = "N"
      /\ \A t \in Token : Owner(t) # o => toks[t].mode = S.tok[t].mode
  <2>1. Q.tok \in [Token -> TokenRec] /\ Q.tv \in [Token -> Nat] /\ Q.tok = S.tok
    BY <1>2, <1>3, <1>4, <1>5 DEF Library
  <2> QED
    BY <1>1, <1>6, <2>1, Owners
<1>8. Z = [Q EXCEPT !.tok = toks, !.tv = keys]
  BY <1>5 DEF NewSocket, Library
<1> HIDE DEF toks, keys, Z
<1>9. Z \in Library /\ Z.queue = V.queue /\ Z.timers = Q.timers /\ Z.tok = toks
  BY <1>4, <1>5, <1>7, <1>8 DEF Library
<1>10. \A x \in Token : Queued(Z, x) <=> Queued(S, x) /\ x \notin {r, w}
  <2>1. \A x : Queued(Z, x) <=> Queued(V, x)
    BY <1>9 DEF Queued
  <2> QED
    BY <1>2, <1>3, <2>1
<1>11. Z.timers \subseteq S.timers \ {r, w}
  BY <1>2, <1>3, <1>4, <1>5, <1>9
<1>12. \A x \in Token : Queued(Z, x) <=> Z.tok[x].mode \in {"D", "E"}
  <2> TAKE x \in Token
  <2>1. CASE x \in {r, w}
    BY <1>7, <1>9, <1>10, <2>1
  <2>2. CASE x \notin {r, w}
    BY <1>7, <1>9, <1>10, <2>2, Owners DEF QueueExact
  <2> QED
    BY <2>1, <2>2
<1>13. Once(Z)
  BY <1>3, <1>9 DEF Once
<1>14. Forgotten(Z, o)
  <2>1. \A t \in Token : Owner(t) = o => t \in {r, w}
    BY Owners
  <2> QED
    BY <1>10, <1>11, <2>1 DEF Forgotten
<1>15. Step(S, Z, o)
  BY <1>7, <1>9, <1>10, <1>11, <1>12, <1>13 DEF Step, QueueExact, Once, Library
<1> QED
  BY <1>14, <1>15, Zenon DEF DestroySocket, Z, Q, P, V, U

\* The completion that _processCompletion takes from the queue.
LEMMA DequeueStep ==
  ASSUME NEW S \in Library, QueueExact(S), S.queue # <<>>
  PROVE  LET t == Head(S.queue)
             Z == Dequeue(S)
         IN  /\ t \in Token /\ Queued(S, t)
             /\ Step(S, Z, Owner(t))
             /\ Z.tok[t].mode = "N"
             /\ \A x \in Token \ {t} : Z.tok[x].mode = S.tok[x].mode
<1> DEFINE t == Head(S.queue)
           R == [S EXCEPT !.queue = Tail(S.queue)]
           P == PopTimer(R, t)
           Z == SetToken(P, t, S.tok[t].ioSize, "N")
           n == Len(S.queue)
<1>1. /\ S.queue \in Seq(Token) /\ n \in Nat \ {0} /\ DOMAIN S.queue = 1..n
      /\ S.queue[1] = t /\ t \in Token
      /\ Tail(S.queue) \in Seq(Token) /\ DOMAIN Tail(S.queue) = 1..(n - 1)
      /\ \A i \in 1..(n - 1) : Tail(S.queue)[i] = S.queue[i + 1]
  BY DEF Library
<1>2. R \in Library /\ R.tok = S.tok /\ R.timers = S.timers /\ R.queue = Tail(S.queue)
  BY <1>1 DEF Library
<1>3. Queued(S, t)
  BY <1>1 DEF Queued
<1> HIDE DEF t, R, n
<1>4. P \in Library /\ P.tok = S.tok /\ P.queue = Tail(S.queue) /\ P.timers \subseteq S.timers
  BY <1>1, <1>2, PopTimerRemoves
<1> HIDE DEF P
<1>5. /\ Z \in Library /\ Z.queue = Tail(S.queue) /\ Z.timers \subseteq S.timers
      /\ Z.tok[t].mode = "N"
      /\ \A x \in Token \ {t} : Z.tok[x].mode = S.tok[x].mode
  <2>1. S.tok[t].ioSize \in Nat /\ "N" \in Mode
    BY <1>1 DEF Library, TokenRec, Mode
  <2>2. Touches(P, P, t)
    BY <1>4 DEF Touches
  <2>3. Touches(P, Z, t) /\ Z.tok[t].mode = "N"
    BY <1>1, <1>4, <2>1, <2>2, SetTokenTouches
  <2> QED
    BY <1>4, <2>3 DEF Touches
<1> HIDE DEF Z
<1>6. \A i, j \in 1..(n - 1) : Z.queue[i] = Z.queue[j] => i = j
  <2> TAKE i, j \in 1..(n - 1)
  <2>1. i + 1 \in 1..n /\ j + 1 \in 1..n
    BY <1>1
  <2>2. Z.queue[i] = S.queue[i + 1] /\ Z.queue[j] = S.queue[j + 1]
    BY <1>1, <1>5
  <2>3. S.queue[i + 1] = S.queue[j + 1] => i + 1 = j + 1
    BY <1>1, <2>1 DEF QueueExact
  <2> QED
    BY <2>2, <2>3
<1>7. \A x \in Token : Queued(Z, x) <=> Queued(S, x) /\ x # t
  <2> TAKE x \in Token
  <2>1. ASSUME Queued(Z, x) PROVE Queued(S, x) /\ x # t
    <3> PICK i \in 1..(n - 1) : S.queue[i + 1] = x
      BY <1>1, <1>5, <2>1 DEF Queued
    <3>1. i + 1 \in 1..n /\ 1 \in 1..n /\ i + 1 # 1
      BY <1>1
    <3> QED
      BY <1>1, <3>1 DEF Queued, QueueExact
  <2>2. ASSUME Queued(S, x), x # t PROVE Queued(Z, x)
    <3> PICK k \in 1..n : S.queue[k] = x
      BY <1>1, <2>2 DEF Queued
    <3>1. k - 1 \in 1..(n - 1) /\ (k - 1) + 1 = k
      BY <1>1, <2>2
    <3>2. Z.queue[k - 1] = x
      BY <1>1, <1>5, <3>1
    <3> QED
      BY <1>1, <1>5, <3>1, <3>2 DEF Queued
  <2> QED
    BY <2>1, <2>2
<1>8. QueueExact(Z)
  BY <1>1, <1>5, <1>6, <1>7 DEF QueueExact
<1>9. Step(S, Z, Owner(t))
  BY <1>5, <1>7, <1>8 DEF Step
<1> QED
  BY <1>1, <1>3, <1>5, <1>9, Zenon DEF Dequeue, Z, P, R, t

\* The timer that _processTimer takes from the set, no completion being queued.
LEMMA ExpireStep ==
  ASSUME NEW S \in Library, QueueExact(S), S.queue = <<>>, NEW t \in Token
  PROVE  Step(S, Expire(S, t), Owner(t)) /\ Expire(S, t).queue = <<>>
<1> DEFINE R == [S EXCEPT !.timers = S.timers \ {t}]
           P == SetToken(R, t, S.tok[t].ioSize, "N")
           Z == SetErr(P, t, "ETIMEDOUT")
<1>1. R \in Library /\ R.queue = <<>> /\ R.tok = S.tok /\ R.timers \subseteq S.timers
  BY DEF Library
<1> HIDE DEF R
<1>2. /\ P \in Library /\ P.queue = <<>> /\ P.timers \subseteq S.timers
      /\ P.tok[t].mode = "N" /\ \A x \in Token \ {t} : P.tok[x].mode = S.tok[x].mode
  <2>1. S.tok[t].ioSize \in Nat /\ "N" \in Mode
    BY DEF Library, TokenRec, Mode
  <2>2. Touches(R, R, t)
    BY <1>1 DEF Touches
  <2>3. Touches(R, P, t) /\ P.tok[t].mode = "N"
    BY <1>1, <2>1, <2>2, SetTokenTouches
  <2> QED
    BY <1>1, <2>3 DEF Touches
<1> HIDE DEF P
<1>3. /\ Z \in Library /\ Z.queue = <<>> /\ Z.timers \subseteq S.timers
      /\ Z.tok[t].mode = "N" /\ \A x \in Token \ {t} : Z.tok[x].mode = S.tok[x].mode
  <2>1. Touches(P, Z, t) /\ Z.tok[t].mode = P.tok[t].mode
    BY <1>2, SetErrTouches DEF Errno
  <2> QED
    BY <1>2, <2>1 DEF Touches
<1> HIDE DEF Z
<1>4. \A x : ~Queued(Z, x) /\ ~Queued(S, x)
  BY <1>3 DEF Queued
<1>5. QueueExact(Z)
  <2>1. \A x \in Token : Z.tok[x].mode \notin {"D", "E"}
    BY <1>3, <1>4 DEF QueueExact
  <2> QED
    BY <1>3, <1>4, <2>1 DEF QueueExact
<1>6. Step(S, Z, Owner(t))
  BY <1>3, <1>4, <1>5 DEF Step
<1> QED
  BY <1>3, <1>6, Zenon DEF Expire, Z, P, R

-----------------------------------------------------------------------------
(* Who owns what is linked.                                                *)

\* The read and the write of o are not both idle and not both under way.
Busy(S, o) == (S.tok[Rt(o)].mode = "N") # (S.tok[Wt(o)].mode = "N")

\* Only the tokens of living objects are linked or have a timer, none is linked
\* whose object has yet to hear of an event, and each object is busy.
Owned(S, alive, announced) ==
  /\ QueueExact(S)
  /\ \A t \in Token : Queued(S, t) => Owner(t) \in alive \ announced
  /\ \A t \in S.timers : Owner(t) \in alive
  /\ \A o \in alive : Busy(S, o)

\* Operations on a living object that leave it busy, or on one that is being
\* created or deleted, keep that so.
LEMMA StepOwned ==
  ASSUME NEW S \in Library, NEW alive \in SUBSET Obj, NEW ann,
         Owned(S, alive, ann), NEW o \in Obj, NEW Z, Step(S, Z, o),
         NEW alive2, NEW ann2, ann2 \subseteq ann, o \notin ann2,
         \/ alive2 = alive \ {o} /\ Forgotten(Z, o)
         \/ alive2 = alive \cup {o} /\ Busy(Z, o)
  PROVE  Owned(Z, alive2, ann2)
<1>1. QueueExact(Z) /\ Z.timers \subseteq Token
  BY DEF Step, Library
<1>2. ASSUME NEW t \in Token, Queued(Z, t)
      PROVE  Owner(t) \in alive2 \ ann2
  BY <1>2 DEF Step, Owned, Forgotten
<1>3. ASSUME NEW t \in Z.timers
      PROVE  Owner(t) \in alive2
  BY <1>1, <1>3 DEF Step, Owned, Forgotten
<1>4. ASSUME NEW p \in alive2
      PROVE  Busy(Z, p)
  <2>1. CASE p = o
    BY <1>4, <2>1
  <2>2. CASE p # o
    <3>1. p \in alive /\ p \in Obj
      BY <1>4, <2>2
    <3>2. /\ Z.tok[Rt(p)].mode = S.tok[Rt(p)].mode
          /\ Z.tok[Wt(p)].mode = S.tok[Wt(p)].mode
      BY <2>2, <3>1, TokenPair, Owners DEF Step
    <3> QED
      BY <3>1, <3>2 DEF Owned, Busy
  <2> QED
    BY <2>1, <2>2
<1> QED
  BY <1>1, <1>2, <1>3, <1>4 DEF Owned

\* A step that touches no queue, timer or mode
LEMMA SameOwned ==
  ASSUME NEW S \in Library, NEW alive \in SUBSET Obj, NEW ann,
         Owned(S, alive, ann), NEW Z \in Library, Z.queue = S.queue,
         Z.timers = S.timers, \A t \in Token : Z.tok[t].mode = S.tok[t].mode,
         NEW ann2, ann2 \subseteq ann \/ S.queue = <<>>
  PROVE  Owned(Z, alive, ann2)
<1>1. \A t : Queued(Z, t) <=> Queued(S, t)
  BY DEF Queued
<1>2. QueueExact(Z)
  BY <1>1 DEF Owned, QueueExact
<1>3. \A t : Queued(S, t) => ann2 \subseteq ann
  BY DEF Queued
<1>4. \A o \in alive : Busy(Z, o)
  BY TokenPair DEF Owned, Busy
<1> QED
  BY <1>1, <1>2, <1>3, <1>4 DEF Owned
-----------------------------------------------------------------------------
(* The timers.                                                             *)

\* _timerList holds tokens of operations that are under way or just over, no two
\* with the same tv, each between TIMEOUT_MS from the start and from now.
Timed(S, time) ==
  \A t \in S.timers :
    /\ Timeout # 0
    /\ S.tok[t].mode # "N"
    /\ Timeout <= S.tv[t] /\ S.tv[t] <= time + Timeout
    /\ \A x \in S.timers : S.tv[x] = S.tv[t] => x = t

\* Z has the record rec in token t, and S's everywhere else.
Puts(S, Z, t, rec) == Z \in Library /\ Z.tok = [S.tok EXCEPT ![t] = rec]

\* No timer is set, reset or popped.
KeepsTimers(S, Z) == Z.timers = S.timers /\ Z.tv = S.tv

\* Of two writes to a token the second counts.
LEMMA PutsTwice ==
  ASSUME NEW S \in Library, NEW Y, NEW Z, NEW t \in Token, NEW a, NEW b,
         Puts(S, Y, t, a), Puts(Y, Z, t, b)
  PROVE  Puts(S, Z, t, b)
BY DEF Puts, Library

\* Token::init
LEMMA InitTokenPuts ==
  ASSUME NEW S \in Library, NEW t \in Token, NEW size \in Nat, NEW err \in Errno
  PROVE  /\ Puts(S, InitToken(S, t, size, err), t,
                 [mode |-> "N", bufSize |-> size, ioSize |-> 0, err |-> err])
         /\ KeepsTimers(S, InitToken(S, t, size, err))
<1> DEFINE rec == [mode |-> "N", bufSize |-> size, ioSize |-> 0, err |-> err]
<1>1. rec \in TokenRec
  BY DEF TokenRec, Mode
<1>2. InitToken(S, t, size, err) = [S EXCEPT !.tok = [S.tok EXCEPT ![t] = rec]]
  BY DEF InitToken, Library
<1> HIDE DEF rec
<1>3. [S.tok EXCEPT ![t] = rec] \in [Token -> TokenRec]
  BY <1>1 DEF Library
<1>4. /\ Puts(S, InitToken(S, t, size, err), t, rec)
      /\ KeepsTimers(S, InitToken(S, t, size, err))
  BY <1>2, <1>3 DEF Puts, KeepsTimers, Library
<1> QED
  BY <1>4 DEF rec

\* Token::set
LEMMA SetTokenPuts ==
  ASSUME NEW S \in Library, NEW t \in Token, NEW n \in Nat, NEW m \in Mode
  PROVE  /\ Puts(S, SetToken(S, t, n, m), t,
                 [mode |-> m, bufSize |-> S.tok[t].bufSize, ioSize |-> n,
                  err |-> S.tok[t].err])
         /\ KeepsTimers(S, SetToken(S, t, n, m))
<1> DEFINE rec == [mode |-> m, bufSize |-> S.tok[t].bufSize, ioSize |-> n,
                   err |-> S.tok[t].err]
<1>1. S.tok[t] \in TokenRec
  BY DEF Library
<1>2. rec \in TokenRec /\ rec = [S.tok[t] EXCEPT !.ioSize = n, !.mode = m]
  <2> DEFINE E == [S.tok[t] EXCEPT !.ioSize = n, !.mode = m]
  <2>1. rec \in TokenRec
    BY <1>1 DEF TokenRec
  <2>2. E \in TokenRec /\ E.mode = m /\ E.ioSize = n
    BY <1>1 DEF TokenRec
  <2>3. E.bufSize = rec.bufSize /\ E.err = rec.err /\ rec.mode = m /\ rec.ioSize = n
    BY <1>1 DEF TokenRec
  <2> HIDE DEF E, rec
  <2>4. rec = E
    BY <2>1, <2>2, <2>3 DEF TokenRec
  <2> QED
    BY <2>1, <2>4 DEF E
<1>3. SetToken(S, t, n, m) = [S EXCEPT !.tok = [S.tok EXCEPT ![t] = rec]]
  BY <1>2 DEF SetToken, Library
<1> HIDE DEF rec
<1>4. [S.tok EXCEPT ![t] = rec] \in [Token -> TokenRec]
  BY <1>2 DEF Library
<1>5. /\ Puts(S, SetToken(S, t, n, m), t, rec)
      /\ KeepsTimers(S, SetToken(S, t, n, m))
  BY <1>3, <1>4 DEF Puts, KeepsTimers, Library
<1> QED
  BY <1>5 DEF rec

\* Error::set
LEMMA SetErrPuts ==
  ASSUME NEW S \in Library, NEW t \in Token, NEW err \in Errno
  PROVE  /\ Puts(S, SetErr(S, t, err), t,
                 [mode |-> S.tok[t].mode, bufSize |-> S.tok[t].bufSize,
                  ioSize |-> S.tok[t].ioSize, err |-> err])
         /\ KeepsTimers(S, SetErr(S, t, err))
<1> DEFINE rec == [mode |-> S.tok[t].mode, bufSize |-> S.tok[t].bufSize,
                   ioSize |-> S.tok[t].ioSize, err |-> err]
<1>1. S.tok[t] \in TokenRec
  BY DEF Library
<1>2. rec \in TokenRec /\ rec = [S.tok[t] EXCEPT !.err = err]
  BY <1>1 DEF TokenRec
<1>3. SetErr(S, t, err) = [S EXCEPT !.tok = [S.tok EXCEPT ![t] = rec]]
  BY <1>2 DEF SetErr, Library
<1> HIDE DEF rec
<1>4. [S.tok EXCEPT ![t] = rec] \in [Token -> TokenRec]
  BY <1>2 DEF Library
<1>5. Puts(S, SetErr(S, t, err), t, rec) /\ KeepsTimers(S, SetErr(S, t, err))
  BY <1>3, <1>4 DEF Puts, KeepsTimers, Library
<1> QED
  BY <1>5 DEF rec

\* A token that has a timer may be written to, but not made idle.
LEMMA PutsTimed ==
  ASSUME NEW S \in Library, NEW Z, NEW t \in Token, NEW rec, NEW time \in Nat,
         Timed(S, time), Puts(S, Z, t, rec), KeepsTimers(S, Z),
         rec.mode # "N" \/ t \notin S.timers
  PROVE  Timed(Z, time)
BY DEF Timed, Puts, KeepsTimers, Library

\* Proactor::_popTimer
LEMMA PopTimerTimed ==
  ASSUME NEW S \in Library, NEW t \in Token, NEW time \in Nat, Timed(S, time)
  PROVE  /\ Timed(PopTimer(S, t), time) /\ PopTimer(S, t) \in Library
         /\ PopTimer(S, t).tok = S.tok /\ PopTimer(S, t).tv = S.tv
         /\ PopTimer(S, t).timers \subseteq S.timers \ {t}
BY DEF PopTimer, Library, Timed

\* Proactor::_pushTimer, for an operation that has no timer yet
LEMMA PushTimerTimed ==
  ASSUME NEW S \in Library, NEW t \in Token, NEW time \in Nat, Timed(S, time),
         t \notin S.timers, S.tok[t].mode # "N"
  PROVE  /\ Timed(PushTimer(S, t, time), time)
         /\ PushTimer(S, t, time) \in Library
         /\ PushTimer(S, t, time).tok = S.tok
<1>1. CASE Timeout = 0
  BY <1>1 DEF PushTimer
<1>2. CASE Timeout # 0
  <2> DEFINE key == time + Timeout
             clash == \E x \in S.timers \ {t} : S.tv[x] = key
             set == IF clash THEN S.timers ELSE S.timers \cup {t}
             keys == [S.tv EXCEPT ![t] = key]
             Z == PushTimer(S, t, time)
  <2>1. keys \in [Token -> Nat] /\ set \in SUBSET Token /\ key \in Nat
    BY TimeoutAssumption DEF Library
  <2>2. Z = [S EXCEPT !.tv = keys, !.timers = set]
    BY <1>2 DEF PushTimer, Library
  <2>3. /\ \A x \in S.timers : keys[x] = S.tv[x]
        /\ keys[t] = key
        /\ \A x \in set : \/ x \in S.timers
                          \/ x = t /\ \A y \in S.timers : S.tv[y] # key
    <3>1. keys[t] = key /\ \A x \in S.timers : keys[x] = S.tv[x]
      BY DEF Library
    <3>2. \/ set = S.timers
          \/ set = S.timers \cup {t} /\ \A y \in S.timers : S.tv[y] # key
      <4>1. CASE clash
        BY <4>1
      <4>2. CASE ~clash
        BY <4>2
      <4> QED
        BY <4>1, <4>2
    <3> HIDE DEF set, keys, key
    <3> QED
      BY <3>1, <3>2
  <2> HIDE DEF keys, set, Z
  <2>4. Z \in Library /\ Z.tok = S.tok /\ Z.tv = keys /\ Z.timers = set
    BY <2>1, <2>2 DEF Library
  <2>5. ASSUME NEW x \in set
        PROVE  /\ S.tok[x].mode # "N"
               /\ Timeout <= keys[x] /\ keys[x] <= time + Timeout
               /\ \A y \in set : keys[y] = keys[x] => y = x
    <3>1. /\ S.tok[x].mode # "N"
          /\ Timeout <= keys[x] /\ keys[x] <= time + Timeout
      BY <2>3, <2>5, TimeoutAssumption DEF Timed
    <3>2. ASSUME NEW y \in set, keys[y] = keys[x] PROVE y = x
      BY <2>3, <2>5, <3>2 DEF Timed
    <3> QED
      BY <3>1, <3>2
  <2>6. Timed(Z, time)
    BY <1>2, <2>4, <2>5 DEF Timed
  <2> QED
    BY <2>4, <2>6 DEF Z
<1> QED
  BY <1>1, <1>2

\* The completion queue has no part in this.
LEMMA EnqueueKeeps ==
  ASSUME NEW S \in Library, NEW t \in Token
  PROVE  /\ Enqueue(S, t) \in Library /\ Enqueue(S, t).tok = S.tok
         /\ KeepsTimers(S, Enqueue(S, t))
<1>1. Append(S.queue, t) \in Seq(Token)
  BY DEF Library
<1> QED
  BY <1>1 DEF Enqueue, KeepsTimers, Library

LEMMA UnlinkKeeps ==
  ASSUME NEW S \in Library, NEW t \in Token
  PROVE  Unlink(S, t).tok = S.tok /\ KeepsTimers(S, Unlink(S, t))
BY DEF Unlink, KeepsTimers, Library

-----------------------------------------------------------------------------
(* What each procedure leaves in the tokens.                               *)

\* An operation of t that is over.
LEMMA DeliverPuts ==
  ASSUME NEW S \in Library, NEW t \in Token, NEW n \in Nat, NEW m \in {"D", "E"},
         NEW time \in Nat, Timed(S, time)
  PROVE  /\ Puts(S, Deliver(S, t, n, m), t,
                 [mode |-> m, bufSize |-> S.tok[t].bufSize, ioSize |-> n,
                  err |-> S.tok[t].err])
         /\ Timed(Deliver(S, t, n, m), time)
<1> DEFINE rec == [mode |-> m, bufSize |-> S.tok[t].bufSize, ioSize |-> n,
                   err |-> S.tok[t].err]
           Y == SetToken(S, t, n, m)
           Z == Enqueue(Y, t)
<1>1. Puts(S, Y, t, rec) /\ KeepsTimers(S, Y)
  BY SetTokenPuts DEF Mode
<1>2. rec.mode # "N"
  OBVIOUS
<1> HIDE DEF Y, rec
<1>3. Timed(Y, time) /\ Y \in Library
  BY <1>1, <1>2, PutsTimed DEF Puts
<1>4. Z \in Library /\ Z.tok = Y.tok /\ KeepsTimers(Y, Z)
  BY <1>3, EnqueueKeeps
<1> HIDE DEF Z
<1>5. Puts(S, Z, t, rec) /\ Timed(Z, time)
  BY <1>1, <1>3, <1>4 DEF Puts, Timed, KeepsTimers
<1> QED
  BY <1>5, Zenon DEF Deliver, Y, Z, rec

\* An operation of t that is left pending.
LEMMA AwaitPuts ==
  ASSUME NEW S \in Library, NEW t \in Token, NEW n \in Nat, NEW m \in {"S", "A"},
         NEW time \in Nat, Timed(S, time), t \notin S.timers
  PROVE  /\ Puts(S, Await(S, t, n, m, time), t,
                 [mode |-> m, bufSize |-> S.tok[t].bufSize, ioSize |-> n,
                  err |-> S.tok[t].err])
         /\ Timed(Await(S, t, n, m, time), time)
<1> DEFINE rec == [mode |-> m, bufSize |-> S.tok[t].bufSize, ioSize |-> n,
                   err |-> S.tok[t].err]
           Y == SetToken(S, t, n, m)
           Z == PushTimer(Y, t, time)
<1>1. Puts(S, Y, t, rec) /\ KeepsTimers(S, Y)
  BY SetTokenPuts DEF Mode
<1>2. rec.mode # "N"
  OBVIOUS
<1> HIDE DEF Y
<1>3. Timed(Y, time) /\ Y \in Library /\ t \notin Y.timers /\ Y.tok[t].mode # "N"
  <2> HIDE DEF rec
  <2>1. Timed(Y, time) /\ Y \in Library
    BY <1>1, <1>2, PutsTimed DEF Puts
  <2>2. Y.tok[t] = rec
    BY <1>1 DEF Puts, Library
  <2> QED
    BY <1>1, <1>2, <2>1, <2>2 DEF KeepsTimers
<1> HIDE DEF rec
<1>4. Timed(Z, time) /\ Z \in Library /\ Z.tok = Y.tok
  BY <1>3, PushTimerTimed
<1> HIDE DEF Z
<1>5. Puts(S, Z, t, rec) /\ Timed(Z, time)
  BY <1>1, <1>4 DEF Puts
<1> QED
  BY <1>5, Zenon DEF Await, Y, Z, rec

\* Token::init of an idle token, which has no timer.
LEMMA InitIdle ==
  ASSUME NEW S \in Library, NEW t \in Token, NEW size \in Nat, NEW err \in Errno,
         NEW time \in Nat, Timed(S, time), S.tok[t].mode = "N"
  PROVE  LET Z == InitToken(S, t, size, err)
         IN  /\ Z \in Library /\ Timed(Z, time) /\ t \notin Z.timers
             /\ Puts(S, Z, t, [mode |-> "N", bufSize |-> size, ioSize |-> 0, err |-> err])
             /\ Z.tok[t].bufSize = size /\ Z.tok[t].err = err
<1> DEFINE rec == [mode |-> "N", bufSize |-> size, ioSize |-> 0, err |-> err]
           Z == InitToken(S, t, size, err)
<1>1. t \notin S.timers
  BY DEF Timed
<1>2. Puts(S, Z, t, rec) /\ KeepsTimers(S, Z)
  BY InitTokenPuts
<1>3. rec.bufSize = size /\ rec.err = err
  OBVIOUS
<1> HIDE DEF Z, rec
<1>4. Timed(Z, time) /\ Z \in Library /\ t \notin Z.timers
  BY <1>1, <1>2, PutsTimed DEF Puts, KeepsTimers
<1>5. Z.tok[t] = rec
  BY <1>2 DEF Puts, Library
<1> QED
  BY <1>2, <1>3, <1>4, <1>5, Zenon DEF Z, rec

\* Socket::readSome of an idle token
LEMMA ReadSomePuts ==
  ASSUME NEW S \in Library, NEW o \in Obj, S.tok[Rt(o)].mode = "N",
         NEW size \in Nat, NEW r, r.ret \in Int, r.err \in Errno,
         NEW time \in Nat, Timed(S, time)
  PROVE  LET Z == ReadSome(S, o, size, r, time)
         IN  /\ Puts(S, Z, Rt(o),
                     [mode |-> IF r.ret >= 0 THEN "D"
                               ELSE IF r.err = "EAGAIN" THEN "S" ELSE "E",
                      bufSize |-> size,
                      ioSize |-> IF r.ret >= 0 THEN r.ret ELSE 0,
                      err |-> r.err])
             /\ Timed(Z, time)
<1> DEFINE t == Rt(o)
           Y == InitToken(S, t, size, r.err)
           Rec(m, n) == [mode |-> m, bufSize |-> size, ioSize |-> n, err |-> r.err]
           Z == ReadSome(S, o, size, r, time)
<1>1. t \in Token
  BY TokenPair
<1>2. /\ Y \in Library /\ Timed(Y, time) /\ t \notin Y.timers
      /\ Puts(S, Y, t, Rec("N", 0))
      /\ Y.tok[t].bufSize = size /\ Y.tok[t].err = r.err
  BY <1>1, InitIdle
<1>3. Z = IF r.ret >= 0 THEN Deliver(Y, t, r.ret, "D")
          ELSE IF r.err = "EAGAIN" THEN Await(Y, t, 0, "S", time)
          ELSE Deliver(Y, t, 0, "E")
  BY DEF ReadSome
<1> HIDE DEF Y, Z, t
<1>4. CASE r.ret >= 0
  <2>1. r.ret \in Nat /\ Z = Deliver(Y, t, r.ret, "D")
    BY <1>3, <1>4
  <2>2. Puts(Y, Z, t, Rec("D", r.ret)) /\ Timed(Z, time)
    BY <1>1, <1>2, <2>1, DeliverPuts
  <2>3. Puts(S, Z, t, Rec("D", r.ret))
    BY <1>1, <1>2, <2>2, PutsTwice
  <2> QED
    BY <1>4, <2>2, <2>3 DEF t, Z
<1>5. CASE ~(r.ret >= 0) /\ r.err = "EAGAIN"
  <2>1. Puts(Y, Z, t, Rec("S", 0)) /\ Timed(Z, time)
    BY <1>1, <1>2, <1>3, <1>5, AwaitPuts
  <2>2. Puts(S, Z, t, Rec("S", 0))
    BY <1>1, <1>2, <2>1, PutsTwice
  <2> QED
    BY <1>5, <2>1, <2>2 DEF t, Z
<1>6. CASE ~(r.ret >= 0) /\ r.err # "EAGAIN"
  <2>1. Puts(Y, Z, t, Rec("E", 0)) /\ Timed(Z, time)
    BY <1>1, <1>2, <1>3, <1>6, DeliverPuts
  <2>2. Puts(S, Z, t, Rec("E", 0))
    BY <1>1, <1>2, <2>1, PutsTwice
  <2> QED
    BY <1>6, <2>1, <2>2 DEF t, Z
<1> QED
  BY <1>4, <1>5, <1>6

\* Socket::readAll of an idle token
LEMMA ReadAllPuts ==
  ASSUME NEW S \in Library, NEW o \in Obj, S.tok[Rt(o)].mode = "N",
         NEW size \in Nat, NEW r, r.ret \in Int, r.err \in Errno,
         NEW time \in Nat, Timed(S, time)
  PROVE  LET Z == ReadAll(S, o, size, r, time)
         IN  /\ Puts(S, Z, Rt(o),
                     [mode |-> IF r.ret < 0
                               THEN IF r.err = "EAGAIN" THEN "A" ELSE "E"
                               ELSE IF 0 < r.ret /\ r.ret < size THEN "A" ELSE "D",
                      bufSize |-> size,
                      ioSize |-> IF r.ret < 0 THEN 0 ELSE r.ret,
                      err |-> r.err])
             /\ Timed(Z, time)
<1> DEFINE t == Rt(o)
           Y == InitToken(S, t, size, r.err)
           Rec(m, n) == [mode |-> m, bufSize |-> size, ioSize |-> n, err |-> r.err]
           Z == ReadAll(S, o, size, r, time)
           short == 0 < r.ret /\ r.ret < size
<1>1. t \in Token
  BY TokenPair
<1>2. /\ Y \in Library /\ Timed(Y, time) /\ t \notin Y.timers
      /\ Puts(S, Y, t, Rec("N", 0))
      /\ Y.tok[t].bufSize = size /\ Y.tok[t].err = r.err
  BY <1>1, InitIdle
<1>3. Z = IF r.ret < 0
          THEN IF r.err = "EAGAIN" THEN Await(Y, t, 0, "A", time)
               ELSE Deliver(Y, t, 0, "E")
          ELSE IF short THEN Await(Y, t, r.ret, "A", time)
          ELSE Deliver(Y, t, r.ret, "D")
  BY DEF ReadAll
<1> HIDE DEF Y, Z, t, short
<1>4. CASE r.ret < 0 /\ r.err = "EAGAIN"
  <2>1. Puts(Y, Z, t, Rec("A", 0)) /\ Timed(Z, time)
    BY <1>1, <1>2, <1>3, <1>4, AwaitPuts
  <2>2. Puts(S, Z, t, Rec("A", 0))
    BY <1>1, <1>2, <2>1, PutsTwice
  <2> QED
    BY <1>4, <2>1, <2>2 DEF t, Z
<1>5. CASE r.ret < 0 /\ r.err # "EAGAIN"
  <2>1. Puts(Y, Z, t, Rec("E", 0)) /\ Timed(Z, time)
    BY <1>1, <1>2, <1>3, <1>5, DeliverPuts
  <2>2. Puts(S, Z, t, Rec("E", 0))
    BY <1>1, <1>2, <2>1, PutsTwice
  <2> QED
    BY <1>5, <2>1, <2>2 DEF t, Z
<1>6. CASE ~(r.ret < 0) /\ short
  <2>1. r.ret \in Nat /\ Z = Await(Y, t, r.ret, "A", time)
    BY <1>3, <1>6
  <2>2. Puts(Y, Z, t, Rec("A", r.ret)) /\ Timed(Z, time)
    BY <1>1, <1>2, <2>1, AwaitPuts
  <2>3. Puts(S, Z, t, Rec("A", r.ret))
    BY <1>1, <1>2, <2>2, PutsTwice
  <2> QED
    BY <1>6, <2>2, <2>3 DEF t, Z, short
<1>7. CASE ~(r.ret < 0) /\ ~short
  <2>1. r.ret \in Nat /\ Z = Deliver(Y, t, r.ret, "D")
    BY <1>3, <1>7
  <2>2. Puts(Y, Z, t, Rec("D", r.ret)) /\ Timed(Z, time)
    BY <1>1, <1>2, <2>1, DeliverPuts
  <2>3. Puts(S, Z, t, Rec("D", r.ret))
    BY <1>1, <1>2, <2>2, PutsTwice
  <2> QED
    BY <1>7, <2>2, <2>3 DEF t, Z, short
<1> QED
  BY <1>4, <1>5, <1>6, <1>7

\* Socket::writeAll of an idle token
LEMMA WriteAllPuts ==
  ASSUME NEW S \in Library, NEW o \in Obj, S.tok[Wt(o)].mode = "N",
         NEW size \in Nat, NEW r, r.ret \in Int, r.err \in Errno,
         NEW time \in Nat, Timed(S, time)
  PROVE  LET Z == WriteAll(S, o, size, r, time)
         IN  /\ Puts(S, Z, Wt(o),
                     [mode |-> IF r.ret <= 0
                               THEN IF r.err = "EAGAIN" THEN "A" ELSE "E"
                               ELSE IF r.ret < size THEN "A" ELSE "D",
                      bufSize |-> size,
                      ioSize |-> IF r.ret <= 0 THEN 0 ELSE r.ret,
                      err |-> r.err])
             /\ Timed(Z, time)
<1> DEFINE t == Wt(o)
           Y == InitToken(S, t, size, r.err)
           Rec(m, n) == [mode |-> m, bufSize |-> size, ioSize |-> n, err |-> r.err]
           Z == WriteAll(S, o, size, r, time)
<1>1. t \in Token
  BY TokenPair
<1>2. /\ Y \in Library /\ Timed(Y, time) /\ t \notin Y.timers
      /\ Puts(S, Y, t, Rec("N", 0))
      /\ Y.tok[t].bufSize = size /\ Y.tok[t].err = r.err
  BY <1>1, InitIdle
<1>3. Z = IF r.ret <= 0
          THEN IF r.err = "EAGAIN" THEN Await(Y, t, 0, "A", time)
               ELSE Deliver(Y, t, 0, "E")
          ELSE IF r.ret < size THEN Await(Y, t, r.ret, "A", time)
          ELSE Deliver(Y, t, r.ret, "D")
  BY DEF WriteAll
<1> HIDE DEF Y, Z, t
<1>4. CASE r.ret <= 0 /\ r.err = "EAGAIN"
  <2>1. Puts(Y, Z, t, Rec("A", 0)) /\ Timed(Z, time)
    BY <1>1, <1>2, <1>3, <1>4, AwaitPuts
  <2>2. Puts(S, Z, t, Rec("A", 0))
    BY <1>1, <1>2, <2>1, PutsTwice
  <2> QED
    BY <1>4, <2>1, <2>2 DEF t, Z
<1>5. CASE r.ret <= 0 /\ r.err # "EAGAIN"
  <2>1. Puts(Y, Z, t, Rec("E", 0)) /\ Timed(Z, time)
    BY <1>1, <1>2, <1>3, <1>5, DeliverPuts
  <2>2. Puts(S, Z, t, Rec("E", 0))
    BY <1>1, <1>2, <2>1, PutsTwice
  <2> QED
    BY <1>5, <2>1, <2>2 DEF t, Z
<1>6. CASE ~(r.ret <= 0) /\ r.ret < size
  <2>1. r.ret \in Nat /\ Z = Await(Y, t, r.ret, "A", time)
    BY <1>3, <1>6
  <2>2. Puts(Y, Z, t, Rec("A", r.ret)) /\ Timed(Z, time)
    BY <1>1, <1>2, <2>1, AwaitPuts
  <2>3. Puts(S, Z, t, Rec("A", r.ret))
    BY <1>1, <1>2, <2>2, PutsTwice
  <2> QED
    BY <1>6, <2>2, <2>3 DEF t, Z
<1>7. CASE ~(r.ret <= 0) /\ ~(r.ret < size)
  <2>1. r.ret \in Nat /\ Z = Deliver(Y, t, r.ret, "D")
    BY <1>3, <1>7
  <2>2. Puts(Y, Z, t, Rec("D", r.ret)) /\ Timed(Z, time)
    BY <1>1, <1>2, <2>1, DeliverPuts
  <2>3. Puts(S, Z, t, Rec("D", r.ret))
    BY <1>1, <1>2, <2>2, PutsTwice
  <2> QED
    BY <1>7, <2>2, <2>3 DEF t, Z
<1> QED
  BY <1>4, <1>5, <1>6, <1>7

\* Error::set of a token that is not idle
LEMMA SetErrBusy ==
  ASSUME NEW S \in Library, NEW t \in Token, NEW err \in Errno,
         NEW time \in Nat, Timed(S, time)
  PROVE  LET Z == SetErr(S, t, err)
             R == S.tok[t]
         IN  /\ Z \in Library /\ Timed(Z, time)
             /\ Puts(S, Z, t, [mode |-> R.mode, bufSize |-> R.bufSize,
                               ioSize |-> R.ioSize, err |-> err])
             /\ Z.tok[t].bufSize = R.bufSize /\ Z.tok[t].err = err
             /\ Z.tok[t].mode = R.mode /\ Z.tok[t].ioSize = R.ioSize
<1> DEFINE R == S.tok[t]
           rec == [mode |-> R.mode, bufSize |-> R.bufSize, ioSize |-> R.ioSize, err |-> err]
           Z == SetErr(S, t, err)
<1>1. Puts(S, Z, t, rec) /\ KeepsTimers(S, Z)
  BY SetErrPuts
<1>2. /\ rec.bufSize = R.bufSize /\ rec.err = err /\ rec.ioSize = R.ioSize
      /\ rec.mode = R.mode
  OBVIOUS
<1>3. rec.mode # "N" \/ t \notin S.timers
  BY DEF Timed
<1> HIDE DEF Z, rec
<1>4. Timed(Z, time) /\ Z \in Library
  BY <1>1, <1>3, PutsTimed DEF Puts
<1>5. Z.tok[t] = rec
  BY <1>1 DEF Puts, Library
<1> QED
  BY <1>1, <1>2, <1>4, <1>5, Zenon DEF Z, rec, R

\* Socket::onRead of a token in mode SOME
LEMMA OnReadSomePuts ==
  ASSUME NEW S \in Library, NEW o \in Obj, S.tok[Rt(o)].mode = "S",
         NEW r, r.ret \in Int, r.err \in Errno, NEW time \in Nat, Timed(S, time)
  PROVE  LET Z == OnReadSome(S, o, r)
             R == S.tok[Rt(o)]
         IN  /\ Puts(S, Z, Rt(o),
                     [mode |-> IF r.ret >= 0 THEN "D"
                               ELSE IF r.err = "EAGAIN" THEN "S" ELSE "E",
                      bufSize |-> R.bufSize,
                      ioSize |-> IF r.ret >= 0 THEN r.ret
                                 ELSE IF r.err = "EAGAIN" THEN R.ioSize ELSE 0,
                      err |-> r.err])
             /\ Timed(Z, time)
<1> DEFINE t == Rt(o)
           R == S.tok[t]
           Y == SetErr(S, t, r.err)
           Rec(m, n) == [mode |-> m, bufSize |-> R.bufSize, ioSize |-> n, err |-> r.err]
           Z == OnReadSome(S, o, r)
<1>1. t \in Token
  BY TokenPair
<1>2. /\ Y \in Library /\ Timed(Y, time)
      /\ Puts(S, Y, t, Rec("S", R.ioSize))
      /\ Y.tok[t].bufSize = R.bufSize /\ Y.tok[t].err = r.err
  BY <1>1, SetErrBusy
<1>3. Z = IF r.ret >= 0 THEN Deliver(Y, t, r.ret, "D")
          ELSE IF r.err = "EAGAIN" THEN Y ELSE Deliver(Y, t, 0, "E")
  BY DEF OnReadSome
<1> HIDE DEF Y, Z, t
<1>4. CASE r.ret >= 0
  <2>1. r.ret \in Nat /\ Z = Deliver(Y, t, r.ret, "D")
    BY <1>3, <1>4
  <2>2. Puts(Y, Z, t, Rec("D", r.ret)) /\ Timed(Z, time)
    BY <1>1, <1>2, <2>1, DeliverPuts
  <2>3. Puts(S, Z, t, Rec("D", r.ret))
    BY <1>1, <1>2, <2>2, PutsTwice
  <2> QED
    BY <1>4, <2>2, <2>3 DEF t, Z
<1>5. CASE ~(r.ret >= 0) /\ r.err = "EAGAIN"
  BY <1>2, <1>3, <1>5 DEF t, Z
<1>6. CASE ~(r.ret >= 0) /\ r.err # "EAGAIN"
  <2>1. Puts(Y, Z, t, Rec("E", 0)) /\ Timed(Z, time)
    BY <1>1, <1>2, <1>3, <1>6, DeliverPuts
  <2>2. Puts(S, Z, t, Rec("E", 0))
    BY <1>1, <1>2, <2>1, PutsTwice
  <2> QED
    BY <1>6, <2>1, <2>2 DEF t, Z
<1> QED
  BY <1>4, <1>5, <1>6

\* Socket::onRead of a token in mode ALL
LEMMA OnReadAllPuts ==
  ASSUME NEW S \in Library, NEW o \in Obj, S.tok[Rt(o)].mode = "A",
         NEW r, r.ret \in Int, r.err \in Errno, NEW time \in Nat, Timed(S, time)
  PROVE  LET Z == OnReadAll(S, o, r)
             R == S.tok[Rt(o)]
             n == R.ioSize + r.ret
         IN  /\ Puts(S, Z, Rt(o),
                     [mode |-> IF r.ret = 0 THEN "D"
                               ELSE IF r.ret < 0
                               THEN IF r.err = "EAGAIN" THEN "A" ELSE "E"
                               ELSE IF n < R.bufSize THEN "A" ELSE "D",
                      bufSize |-> R.bufSize,
                      ioSize |-> IF r.ret = 0 THEN 0
                                 ELSE IF r.ret < 0
                                 THEN IF r.err = "EAGAIN" THEN R.ioSize ELSE 0
                                 ELSE n,
                      err |-> r.err])
             /\ Timed(Z, time)
<1> DEFINE t == Rt(o)
           R == S.tok[t]
           n == R.ioSize + r.ret
           Y == SetErr(S, t, r.err)
           Rec(m, k) == [mode |-> m, bufSize |-> R.bufSize, ioSize |-> k, err |-> r.err]
           Z == OnReadAll(S, o, r)
<1>1. t \in Token /\ R.ioSize \in Nat
  BY TokenPair DEF Library, TokenRec
<1>2. /\ Y \in Library /\ Timed(Y, time)
      /\ Puts(S, Y, t, Rec("A", R.ioSize))
      /\ Y.tok[t].bufSize = R.bufSize /\ Y.tok[t].err = r.err
  BY <1>1, SetErrBusy
<1>3. Y.tok[t].mode = "A"
  BY <1>1, SetErrBusy
<1>4. Z = IF r.ret = 0 THEN Deliver(Y, t, 0, "D")
          ELSE IF r.ret < 0
          THEN IF r.err = "EAGAIN" THEN Y ELSE Deliver(Y, t, 0, "E")
          ELSE IF n < R.bufSize THEN SetToken(Y, t, n, "A")
          ELSE Deliver(Y, t, n, "D")
  BY DEF OnReadAll
<1>5. ~(r.ret = 0) /\ ~(r.ret < 0) => n \in Nat
  BY <1>1
<1> HIDE DEF Y, Z, t, n
<1>6. CASE ~(r.ret = 0) /\ r.ret < 0 /\ r.err = "EAGAIN"
  BY <1>2, <1>4, <1>6 DEF t, Z
<1>7. CASE ~(r.ret = 0) /\ r.ret < 0 /\ r.err # "EAGAIN"
  <2>1. Puts(Y, Z, t, Rec("E", 0)) /\ Timed(Z, time)
    BY <1>1, <1>2, <1>4, <1>7, DeliverPuts
  <2>2. Puts(S, Z, t, Rec("E", 0))
    BY <1>1, <1>2, <2>1, PutsTwice
  <2> QED
    BY <1>7, <2>1, <2>2 DEF t, Z
<1>8. CASE r.ret = 0
  <2>1. Z = Deliver(Y, t, 0, "D")
    BY <1>4, <1>8
  <2>2. Puts(Y, Z, t, Rec("D", 0)) /\ Timed(Z, time)
    BY <1>1, <1>2, <2>1, DeliverPuts
  <2>3. Puts(S, Z, t, Rec("D", 0))
    BY <1>1, <1>2, <2>2, PutsTwice
  <2> QED
    BY <1>8, <2>2, <2>3 DEF t, Z
<1>9. CASE ~(r.ret = 0) /\ ~(r.ret < 0) /\ n < R.bufSize
  <2>1. Z = SetToken(Y, t, n, "A")
    BY <1>4, <1>9
  <2>2. Puts(Y, Z, t, Rec("A", n)) /\ KeepsTimers(Y, Z)
    BY <1>1, <1>2, <1>5, <1>9, <2>1, SetTokenPuts DEF Mode
  <2>3. Timed(Z, time)
    BY <1>1, <1>2, <2>2, PutsTimed
  <2>4. Puts(S, Z, t, Rec("A", n))
    BY <1>1, <1>2, <2>2, PutsTwice
  <2> QED
    BY <1>9, <2>3, <2>4 DEF t, Z, n
<1>10. CASE ~(r.ret = 0) /\ ~(r.ret < 0) /\ ~(n < R.bufSize)
  <2>1. Z = Deliver(Y, t, n, "D")
    BY <1>4, <1>10
  <2>2. Puts(Y, Z, t, Rec("D", n)) /\ Timed(Z, time)
    BY <1>1, <1>2, <1>5, <1>10, <2>1, DeliverPuts
  <2>3. Puts(S, Z, t, Rec("D", n))
    BY <1>1, <1>2, <2>2, PutsTwice
  <2> QED
    BY <1>10, <2>2, <2>3 DEF t, Z, n
<1> QED
  BY <1>6, <1>7, <1>8, <1>9, <1>10, Zenon

\* Socket::onWrite of a token in mode ALL
LEMMA OnWriteAllPuts ==
  ASSUME NEW S \in Library, NEW o \in Obj, S.tok[Wt(o)].mode = "A",
         NEW r, r.ret \in Int, r.err \in Errno, NEW time \in Nat, Timed(S, time)
  PROVE  LET Z == OnWriteAll(S, o, r)
             W == S.tok[Wt(o)]
             n == W.ioSize + r.ret
         IN  /\ Puts(S, Z, Wt(o),
                     [mode |-> IF r.ret <= 0
                               THEN IF r.err = "EAGAIN" THEN "A" ELSE "E"
                               ELSE IF n < W.bufSize THEN "A" ELSE "D",
                      bufSize |-> W.bufSize,
                      ioSize |-> IF r.ret <= 0
                                 THEN IF r.err = "EAGAIN" THEN W.ioSize ELSE 0
                                 ELSE n,
                      err |-> r.err])
             /\ Timed(Z, time)
<1> DEFINE t == Wt(o)
           W == S.tok[t]
           n == W.ioSize + r.ret
           Y == SetErr(S, t, r.err)
           Rec(m, k) == [mode |-> m, bufSize |-> W.bufSize, ioSize |-> k, err |-> r.err]
           Z == OnWriteAll(S, o, r)
<1>1. t \in Token /\ W.ioSize \in Nat
  BY TokenPair DEF Library, TokenRec
<1>2. /\ Y \in Library /\ Timed(Y, time)
      /\ Puts(S, Y, t, Rec("A", W.ioSize))
      /\ Y.tok[t].bufSize = W.bufSize /\ Y.tok[t].err = r.err
  BY <1>1, SetErrBusy
<1>3. Y.tok[t].mode = "A"
  BY <1>1, SetErrBusy
<1>4. Z = IF r.ret <= 0
          THEN IF r.err = "EAGAIN" THEN Y ELSE Deliver(Y, t, 0, "E")
          ELSE IF n < W.bufSize THEN SetToken(Y, t, n, "A")
          ELSE Deliver(Y, t, n, "D")
  BY DEF OnWriteAll
<1>5. ~(r.ret <= 0) => n \in Nat
  BY <1>1
<1> HIDE DEF Y, Z, t, n
<1>6. CASE r.ret <= 0 /\ r.err = "EAGAIN"
  BY <1>2, <1>4, <1>6 DEF t, Z
<1>7. CASE r.ret <= 0 /\ r.err # "EAGAIN"
  <2>1. Puts(Y, Z, t, Rec("E", 0)) /\ Timed(Z, time)
    BY <1>1, <1>2, <1>4, <1>7, DeliverPuts
  <2>2. Puts(S, Z, t, Rec("E", 0))
    BY <1>1, <1>2, <2>1, PutsTwice
  <2> QED
    BY <1>7, <2>1, <2>2 DEF t, Z
<1>8. CASE ~(r.ret <= 0) /\ n < W.bufSize
  <2>1. Puts(Y, Z, t, Rec("A", n)) /\ KeepsTimers(Y, Z)
    BY <1>1, <1>2, <1>4, <1>5, <1>8, SetTokenPuts DEF Mode
  <2>2. Timed(Z, time)
    BY <1>1, <1>2, <2>1, PutsTimed
  <2>3. Puts(S, Z, t, Rec("A", n))
    BY <1>1, <1>2, <2>1, PutsTwice
  <2> QED
    BY <1>8, <2>2, <2>3 DEF t, Z, n
<1>9. CASE ~(r.ret <= 0) /\ ~(n < W.bufSize)
  <2>1. Puts(Y, Z, t, Rec("D", n)) /\ Timed(Z, time)
    BY <1>1, <1>2, <1>4, <1>5, <1>9, DeliverPuts
  <2>2. Puts(S, Z, t, Rec("D", n))
    BY <1>1, <1>2, <2>1, PutsTwice
  <2> QED
    BY <1>9, <2>1, <2>2 DEF t, Z, n
<1> QED
  BY <1>6, <1>7, <1>8, <1>9

\* From S to Z the tokens of other objects than o have not changed.
Apart(S, Z, o) == \A x \in Token : Owner(x) # o => Z.tok[x] = S.tok[x]

\* A write to a token of o leaves the others alone.
LEMMA PutsApart ==
  ASSUME NEW S \in Library, NEW Z, NEW t \in Token, NEW rec, Puts(S, Z, t, rec)
  PROVE  Apart(S, Z, Owner(t)) /\ Z.tok[t] = rec /\ Z \in Library
BY DEF Puts, Apart, Library

\* Error::set
LEMMA SetErrApart ==
  ASSUME NEW S \in Library, NEW t \in Token, NEW err \in Errno,
         NEW time \in Nat, Timed(S, time)
  PROVE  LET Z == SetErr(S, t, err)
         IN  Z \in Library /\ Timed(Z, time) /\ Apart(S, Z, Owner(t))
<1> DEFINE R == S.tok[t]
           Z == SetErr(S, t, err)
           rec == [mode |-> R.mode, bufSize |-> R.bufSize, ioSize |-> R.ioSize, err |-> err]
<1>1. Z \in Library /\ Timed(Z, time) /\ Puts(S, Z, t, rec)
  BY SetErrBusy
<1> HIDE DEF rec
<1>2. Apart(S, Z, Owner(t))
  BY <1>1, PutsApart
<1> QED
  BY <1>1, <1>2

\* Socket::onClose
LEMMA ClosedApart ==
  ASSUME NEW S \in Library, NEW o \in Obj, NEW time \in Nat, Timed(S, time)
  PROVE  LET Z == Closed(S, o) IN Z \in Library /\ Timed(Z, time) /\ Apart(S, Z, o)
<1> DEFINE Y == SetErr(S, Rt(o), "ECONNRESET")
           Z == SetErr(Y, Wt(o), "ECONNRESET")
<1>1. Rt(o) \in Token /\ Wt(o) \in Token /\ Owner(Rt(o)) = o /\ Owner(Wt(o)) = o
  BY TokenPair, Owners
<1>2. Y \in Library /\ Timed(Y, time) /\ Apart(S, Y, o)
  BY <1>1, SetErrApart DEF Errno
<1> HIDE DEF Y
<1>3. Z \in Library /\ Timed(Z, time) /\ Apart(Y, Z, o)
  BY <1>1, <1>2, SetErrApart DEF Errno
<1> HIDE DEF Z
<1>4. Apart(S, Z, o)
  BY <1>2, <1>3 DEF Apart
<1> QED
  BY <1>3, <1>4, Zenon DEF Closed, Y, Z

\* Socket::Socket, where no token is linked or has a timer
LEMMA NewSocketApart ==
  ASSUME NEW S \in Library, NEW o \in Obj, NEW time \in Nat, Timed(S, time),
         \A t \in S.timers : Owner(t) # o, NEW rtv \in Nat, NEW wtv \in Nat
  PROVE  LET Z == NewSocket(S, o, rtv, wtv)
         IN  /\ Z \in Library /\ Timed(Z, time) /\ Apart(S, Z, o)
             /\ Z.tok[Rt(o)] = FreshToken /\ Z.tok[Wt(o)] = FreshToken
<1> DEFINE toks == [S.tok EXCEPT ![Rt(o)] = FreshToken, ![Wt(o)] = FreshToken]
           keys == [S.tv EXCEPT ![Rt(o)] = rtv, ![Wt(o)] = wtv]
           Z == NewSocket(S, o, rtv, wtv)
<1>1. FreshToken \in TokenRec
  BY DEF FreshToken, TokenRec, Mode, Errno
<1>2. Rt(o) \in Token /\ Wt(o) \in Token /\ Rt(o) # Wt(o)
  BY TokenPair, Owners
<1>3. /\ toks \in [Token -> TokenRec] /\ keys \in [Token -> Nat]
      /\ toks[Rt(o)] = FreshToken /\ toks[Wt(o)] = FreshToken
      /\ \A t \in Token : Owner(t) # o => toks[t] = S.tok[t] /\ keys[t] = S.tv[t]
  BY <1>1, <1>2, Owners DEF Library
<1>4. Z = [S EXCEPT !.tok = toks, !.tv = keys]
  BY DEF NewSocket, Library
<1> HIDE DEF toks, keys, Z
<1>5. Z \in Library /\ Z.tok = toks /\ Z.tv = keys /\ Z.timers = S.timers
  BY <1>3, <1>4 DEF Library
<1>6. Apart(S, Z, o)
  BY <1>3, <1>5 DEF Apart
<1>7. Timed(Z, time)
  <2>1. \A t \in S.timers : t \in Token /\ Z.tok[t] = S.tok[t] /\ Z.tv[t] = S.tv[t]
    BY <1>3, <1>5 DEF Library
  <2> QED
    BY <1>5, <2>1 DEF Timed
<1> QED
  BY <1>3, <1>5, <1>6, <1>7, Zenon DEF Z

\* Socket::~Socket
LEMMA DestroyApart ==
  ASSUME NEW S \in Library, QueueExact(S), NEW o \in Obj, NEW time \in Nat,
         Timed(S, time)
  PROVE  LET Z == DestroySocket(S, o) IN Timed(Z, time) /\ Apart(S, Z, o)
<1> DEFINE r == Rt(o)
           w == Wt(o)
           U == Unlink(S, r)
           V == Unlink(U, w)
           P == PopTimer(V, r)
           Q == PopTimer(P, w)
<1>1. r \in Token /\ w \in Token /\ Once(S)
  BY TokenPair DEF Once, QueueExact
<1>2. U \in Library /\ Once(U) /\ U.tok = S.tok /\ KeepsTimers(S, U)
  BY <1>1, UnlinkRemoves, UnlinkKeeps
<1> HIDE DEF U
<1>3. V \in Library /\ V.tok = U.tok /\ KeepsTimers(U, V)
  BY <1>1, <1>2, UnlinkRemoves, UnlinkKeeps
<1> HIDE DEF V
<1>4. Timed(V, time) /\ V.tok = S.tok
  BY <1>2, <1>3 DEF Timed, KeepsTimers
<1>5. Timed(P, time) /\ P \in Library /\ P.tok = S.tok /\ P.timers \subseteq V.timers \ {r}
  BY <1>1, <1>3, <1>4, PopTimerTimed
<1> HIDE DEF P
<1>6. Timed(Q, time) /\ Q \in Library /\ Q.tok = S.tok /\ Q.timers \subseteq P.timers \ {w}
  BY <1>1, <1>5, PopTimerTimed
<1> HIDE DEF Q
<1>7. \A t \in Q.timers : Owner(t) # o
  <2>1. Q.timers \subseteq Token /\ \A t \in Token : Owner(t) = o => t \in {r, w}
    BY <1>6, Owners DEF Library
  <2> QED
    BY <1>5, <1>6, <2>1
<1> DEFINE Z == NewSocket(Q, o, 0, 0)
<1>8. Timed(Z, time) /\ Apart(Q, Z, o)
  BY <1>6, <1>7, NewSocketApart
<1> HIDE DEF Z
<1>9. Apart(S, Z, o)
  BY <1>6, <1>8 DEF Apart
<1> QED
  BY <1>8, <1>9, Zenon DEF DestroySocket, Z, Q, P, V, U, r, w

\* What _processCompletion does before it calls back
LEMMA DequeueApart ==
  ASSUME NEW S \in Library, S.queue # <<>>, NEW time \in Nat, Timed(S, time)
  PROVE  LET t == Head(S.queue)
             Z == Dequeue(S)
         IN  /\ Z \in Library /\ Timed(Z, time)
             /\ \A x \in Token \ {t} : Z.tok[x] = S.tok[x]
<1> DEFINE t == Head(S.queue)
           R == [S EXCEPT !.queue = Tail(S.queue)]
           P == PopTimer(R, t)
           Z == SetToken(P, t, S.tok[t].ioSize, "N")
<1>1. t \in Token /\ Tail(S.queue) \in Seq(Token)
  BY DEF Library
<1>2. R \in Library /\ R.tok = S.tok /\ R.timers = S.timers /\ R.tv = S.tv
  BY <1>1 DEF Library
<1>3. S.tok[t].ioSize \in Nat /\ "N" \in Mode
  BY <1>1 DEF Library, TokenRec, Mode
<1> HIDE DEF t, R
<1>4. Timed(R, time)
  BY <1>2 DEF Timed
<1>5. Timed(P, time) /\ P \in Library /\ P.tok = S.tok /\ t \notin P.timers
  BY <1>1, <1>2, <1>4, PopTimerTimed
<1> HIDE DEF P
<1> DEFINE rec == [mode |-> "N", bufSize |-> P.tok[t].bufSize,
                   ioSize |-> S.tok[t].ioSize, err |-> P.tok[t].err]
<1>6. Puts(P, Z, t, rec) /\ KeepsTimers(P, Z)
  BY <1>1, <1>3, <1>5, SetTokenPuts
<1> HIDE DEF Z, rec
<1>7. Timed(Z, time)
  BY <1>1, <1>5, <1>6, PutsTimed
<1>8. Z \in Library /\ \A x \in Token \ {t} : Z.tok[x] = S.tok[x]
  BY <1>1, <1>5, <1>6 DEF Puts, Library
<1> QED
  BY <1>7, <1>8, Zenon DEF Dequeue, Z, P, R, t

\* What _processTimer does before it calls back
LEMMA ExpireApart ==
  ASSUME NEW S \in Library, NEW t \in Token, NEW time \in Nat, Timed(S, time)
  PROVE  LET Z == Expire(S, t) IN Z \in Library /\ Timed(Z, time) /\ Apart(S, Z, Owner(t))
<1> DEFINE R == [S EXCEPT !.timers = S.timers \ {t}]
           P == SetToken(R, t, S.tok[t].ioSize, "N")
           Z == SetErr(P, t, "ETIMEDOUT")
<1>1. R \in Library /\ R.tok = S.tok /\ R.timers = S.timers \ {t} /\ R.tv = S.tv
  BY DEF Library
<1>2. S.tok[t].ioSize \in Nat /\ "N" \in Mode
  BY DEF Library, TokenRec, Mode
<1> HIDE DEF R
<1>3. Timed(R, time) /\ t \notin R.timers
  BY <1>1 DEF Timed
<1> DEFINE rec == [mode |-> "N", bufSize |-> R.tok[t].bufSize,
                   ioSize |-> S.tok[t].ioSize, err |-> R.tok[t].err]
<1>4. Puts(R, P, t, rec) /\ KeepsTimers(R, P)
  BY <1>1, <1>2, SetTokenPuts
<1> HIDE DEF P, rec
<1>5. Timed(P, time) /\ Apart(R, P, Owner(t)) /\ P \in Library
  BY <1>1, <1>3, <1>4, PutsTimed, PutsApart
<1>6. Z \in Library /\ Timed(Z, time) /\ Apart(P, Z, Owner(t))
  BY <1>5, SetErrApart DEF Errno
<1> HIDE DEF Z
<1>7. Apart(S, Z, Owner(t))
  BY <1>1, <1>5, <1>6 DEF Apart
<1> QED
  BY <1>6, <1>7, Zenon DEF Expire, Z, P, R
=============================================================================
