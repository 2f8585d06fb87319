--------------------------- MODULE AioMainProofs ----------------------------
(***************************************************************************)
(* main() of the echo server, for any number of clients and restarts.      *)
(***************************************************************************)
EXTENDS AioMain, TLAPS

AllDone == {"nonblocking", "bound", "listening"}

\* How far start-up has come, by where main() is.
SetupInv ==
  /\ pc \in {"sigint", "sigterm", "sigpipe", "construct", "create", "socket",
             "leave", "exited", "killed", "crashed"} => ~soc /\ state = {}
  /\ pc \in {"setsockopt", "nonblock"} => soc /\ state = {}
  /\ pc = "bind" => soc /\ state = {"nonblocking"}
  /\ pc = "listen" => soc /\ state = {"nonblocking", "bound"}
  /\ pc \in {"register", "run"} => soc /\ state = AllDone
  /\ watched <=> pc = "run"
  /\ pc \in Setup \cup {"run"} => epoll

\* What a signal finds: once g_proactor is set, all three are handled.
SignalInv ==
  /\ pc = "sigterm" => "INT" \in handled
  /\ pc = "sigpipe" => {"INT", "TERM"} \subseteq handled
  /\ pc \in {"construct", "create", "run", "unwind"} \cup Setup => handled = Sig
  /\ pc \in {"create", "run", "unwind"} \cup Setup => global = "valid"

\* On its way out main() returns 0 only after a stop.
CodeInv == pc \in {"unwind", "leave"} /\ code = 0 => stop

MainInv == TypeOK /\ SetupInv /\ SignalInv /\ CodeInv

-----------------------------------------------------------------------------
\* A new process satisfies the invariant.
LEMMA MainInvInitially == Init => MainInv
<1> SUFFICES ASSUME Init PROVE MainInv
  OBVIOUS
<1>1. TypeOK
  <2>1. clients \in 0 .. MaxClients /\ runs \in Nat /\ code \in {0, 1}
    BY AioMainAssumption DEF Init, TypeOK
  <2>2. pc \in PC /\ handled \subseteq Sig /\ global \in {"null", "valid", "dead"}
    BY AioMainAssumption DEF Init, TypeOK, PC
  <2>3. state \subseteq AllDone
    BY AioMainAssumption DEF Init, TypeOK, AllDone
  <2>4. /\ stop \in BOOLEAN /\ epoll \in BOOLEAN /\ soc \in BOOLEAN
        /\ watched \in BOOLEAN /\ lingering \in BOOLEAN
    BY AioMainAssumption DEF Init, TypeOK
  <2> QED
    BY <2>1, <2>2, <2>3, <2>4 DEF TypeOK, AllDone
<1>2. SetupInv
  BY DEF Init, SetupInv, Setup
<1>3. SignalInv /\ CodeInv
  BY DEF Init, SignalInv, CodeInv, Setup
<1> QED
  BY <1>1, <1>2, <1>3 DEF MainInv

\* Every step before run(), and a failure of one, keeps the invariant.
LEMMA StartKeeps ==
  ASSUME MainInv,
         SetSigHandler \/ Construct \/ Create \/ Socket \/ SetOption \/ SetNonBlock
           \/ Bind \/ Listen \/ Register \/ ListenFails
  PROVE  MainInv'
<1> USE DEF MainInv, TypeOK, SetupInv, SignalInv, CodeInv, PC, Setup, Sig, AllDone
<1>1. CASE SetSigHandler
  <2>1. TypeOK'
    BY <1>1 DEF SetSigHandler, Handles, MainInv, TypeOK, PC, Setup
  <2>2. SetupInv'
    BY <1>1 DEF SetSigHandler, Handles, MainInv, SetupInv, Setup, AllDone
  <2>3. SignalInv'
    BY <1>1 DEF SetSigHandler, Handles, MainInv, SignalInv, Setup, Sig
  <2>4. CodeInv'
    BY <1>1 DEF SetSigHandler, Handles, MainInv, CodeInv
  <2> QED
    BY <2>1, <2>2, <2>3, <2>4 DEF MainInv
<1>2. CASE Construct
  BY <1>2 DEF Construct
<1>3. CASE Create
  <2>1. TypeOK'
    BY <1>3 DEF Create, MainInv, TypeOK, PC, Setup
  <2>2. SetupInv'
    BY <1>3 DEF Create, MainInv, SetupInv, Setup, AllDone
  <2>3. SignalInv'
    BY <1>3 DEF Create, MainInv, SignalInv, Setup, Sig
  <2>4. CodeInv'
    BY <1>3 DEF Create, MainInv, CodeInv
  <2> QED
    BY <2>1, <2>2, <2>3, <2>4 DEF MainInv
<1>4. CASE Socket
  BY <1>4 DEF Socket, Done
<1>5. CASE SetOption
  BY <1>5 DEF SetOption, Done
<1>6. CASE SetNonBlock
  BY <1>6 DEF SetNonBlock, Done
<1>7. CASE Bind
  BY <1>7 DEF Bind, Done
<1>8. CASE Listen
  BY <1>8 DEF Listen, Done
<1>9. CASE Register
  BY <1>9 DEF Register, Done
<1>10. CASE ListenFails
  BY <1>10 DEF ListenFails
<1> HIDE DEF MainInv, TypeOK, SetupInv, SignalInv, CodeInv, PC, Setup, Sig, AllDone
<1> QED
  BY <1>1, <1>2, <1>3, <1>4, <1>5, <1>6, <1>7, <1>8, <1>9, <1>10

\* The end of the process, whoever ends it, keeps the invariant.
LEMMA VanishKeeps ==
  ASSUME MainInv, NEW how \in {"exited", "killed", "crashed"}, Vanish(how)
  PROVE  MainInv'
<1>1. TypeOK'
  <2>1. clients' \in 0 .. MaxClients /\ runs' \in Nat /\ code' \in {0, 1}
    BY AioMainAssumption DEF Vanish, MainInv, TypeOK
  <2>2. pc' \in PC /\ handled' \subseteq Sig /\ global' \in {"null", "valid", "dead"}
    BY AioMainAssumption DEF Vanish, MainInv, TypeOK, PC
  <2>3. state' \subseteq AllDone
    BY AioMainAssumption DEF Vanish, MainInv, TypeOK, AllDone
  <2>4. /\ stop' \in BOOLEAN /\ epoll' \in BOOLEAN /\ soc' \in BOOLEAN
        /\ watched' \in BOOLEAN /\ lingering' \in BOOLEAN
    BY AioMainAssumption DEF Vanish, MainInv, TypeOK
  <2> QED
    BY <2>1, <2>2, <2>3, <2>4 DEF TypeOK, AllDone
<1>2. SetupInv'
  BY AioMainAssumption DEF Vanish, MainInv, SetupInv, Setup, AllDone
<1>3. SignalInv'
  BY AioMainAssumption DEF Vanish, MainInv, SignalInv, Setup, Sig
<1>4. CodeInv'
  BY AioMainAssumption DEF Vanish, MainInv, CodeInv
<1> QED
  BY <1>1, <1>2, <1>3, <1>4 DEF MainInv

\* run() and what follows keep the invariant.
LEMMA EndKeeps ==
  ASSUME MainInv,
         Serve \/ RunStops \/ RunFails \/ Unwind \/ Leave \/ Exit \/ Expire \/ Restart
  PROVE  MainInv'
<1> USE DEF MainInv, TypeOK, SetupInv, SignalInv, CodeInv, PC, Setup, Sig, AllDone
<1>1. CASE Serve
  <2>1. TypeOK'
    <3>1. clients' \in 0 .. MaxClients /\ runs' \in Nat /\ code' \in {0, 1}
      <4>1. clients \in 0 .. MaxClients /\ MaxClients \in Nat
        BY AioMainAssumption DEF MainInv, TypeOK
      <4>2. \/ clients < MaxClients /\ clients' = clients + 1
            \/ clients > 0 /\ clients' = clients - 1
        BY <1>1 DEF Serve
      <4>3. clients' \in 0 .. MaxClients
        BY <4>1, <4>2
      <4> QED
        BY <1>1, <4>3 DEF Serve, MainInv, TypeOK
    <3>2. pc' \in PC /\ handled' \subseteq Sig /\ global' \in {"null", "valid", "dead"}
      BY <1>1, AioMainAssumption DEF Serve, MainInv, TypeOK, PC
    <3>3. state' \subseteq AllDone
      BY <1>1, AioMainAssumption DEF Serve, MainInv, TypeOK, AllDone
    <3>4. /\ stop' \in BOOLEAN /\ epoll' \in BOOLEAN /\ soc' \in BOOLEAN
          /\ watched' \in BOOLEAN /\ lingering' \in BOOLEAN
      BY <1>1, AioMainAssumption DEF Serve, MainInv, TypeOK
    <3> QED
      BY <3>1, <3>2, <3>3, <3>4 DEF TypeOK, AllDone
  <2>2. SetupInv'
    BY <1>1, AioMainAssumption DEF Serve, MainInv, SetupInv, Setup, AllDone
  <2>3. SignalInv'
    BY <1>1, AioMainAssumption DEF Serve, MainInv, SignalInv, Setup, Sig
  <2>4. CodeInv'
    BY <1>1, AioMainAssumption DEF Serve, MainInv, CodeInv
  <2> QED
    BY <2>1, <2>2, <2>3, <2>4 DEF MainInv
<1>2. CASE RunStops
  <2>1. TypeOK'
    BY <1>2 DEF RunStops, RunEnds, MainInv, TypeOK, PC, Setup
  <2>2. SetupInv'
    BY <1>2 DEF RunStops, RunEnds, MainInv, SetupInv, Setup, AllDone
  <2>3. SignalInv'
    BY <1>2 DEF RunStops, RunEnds, MainInv, SignalInv, Setup, Sig
  <2>4. CodeInv'
    BY <1>2 DEF RunStops, RunEnds, MainInv, CodeInv
  <2> QED
    BY <2>1, <2>2, <2>3, <2>4 DEF MainInv
<1>3. CASE RunFails
  <2>1. TypeOK'
    BY <1>3 DEF RunFails, RunEnds, MainInv, TypeOK, PC, Setup
  <2>2. SetupInv'
    BY <1>3 DEF RunFails, RunEnds, MainInv, SetupInv, Setup, AllDone
  <2>3. SignalInv'
    BY <1>3 DEF RunFails, RunEnds, MainInv, SignalInv, Setup, Sig
  <2>4. CodeInv'
    BY <1>3 DEF RunFails, RunEnds, MainInv, CodeInv
  <2> QED
    BY <2>1, <2>2, <2>3, <2>4 DEF MainInv
<1>4. CASE Unwind
  BY <1>4 DEF Unwind
<1>5. CASE Leave
  BY <1>5 DEF Leave
<1>6. CASE Expire
  <2>1. TypeOK'
    BY <1>6 DEF Expire, MainInv, TypeOK, PC, Setup
  <2>2. SetupInv'
    BY <1>6 DEF Expire, MainInv, SetupInv, Setup, AllDone
  <2>3. SignalInv'
    BY <1>6 DEF Expire, MainInv, SignalInv, Setup, Sig
  <2>4. CodeInv'
    BY <1>6 DEF Expire, MainInv, CodeInv
  <2> QED
    BY <2>1, <2>2, <2>3, <2>4 DEF MainInv
<1>7. CASE Restart
  <2>1. TypeOK'
    <3>1. clients' \in 0 .. MaxClients /\ runs' \in Nat /\ code' \in {0, 1}
      BY <1>7 DEF Restart, MainInv, TypeOK
    <3>2. pc' \in PC /\ handled' \subseteq Sig /\ global' \in {"null", "valid", "dead"}
      BY <1>7 DEF Restart, MainInv, TypeOK, PC
    <3>3. state' \subseteq AllDone
      BY <1>7 DEF Restart, MainInv, TypeOK, AllDone
    <3>4. /\ stop' \in BOOLEAN /\ epoll' \in BOOLEAN /\ soc' \in BOOLEAN
          /\ watched' \in BOOLEAN /\ lingering' \in BOOLEAN
      BY <1>7 DEF Restart, MainInv, TypeOK
    <3> QED
      BY <3>1, <3>2, <3>3, <3>4 DEF TypeOK, AllDone
  <2>2. SetupInv'
    BY <1>7 DEF Restart, Ended, MainInv, SetupInv, Setup, AllDone
  <2>3. SignalInv'
    BY <1>7 DEF Restart, Ended, MainInv, SignalInv, Setup, Sig
  <2>4. CodeInv'
    BY <1>7 DEF Restart, Ended, MainInv, CodeInv
  <2> QED
    BY <2>1, <2>2, <2>3, <2>4 DEF MainInv
<1> HIDE DEF MainInv, TypeOK, SetupInv, SignalInv, CodeInv, PC, Setup, Sig, AllDone
<1>8. CASE Exit
  BY <1>8, VanishKeeps DEF Exit
<1> QED
  BY <1>1, <1>2, <1>3, <1>4, <1>5, <1>6, <1>7, <1>8

\* A signal keeps the invariant.
LEMMA SignalKeeps ==
  ASSUME MainInv, NEW s \in Sig, Signal(s)
  PROVE  MainInv'
<1>1. CASE Vanish("killed") \/ Vanish("crashed")
  BY <1>1, VanishKeeps
<1>2. CASE /\ stop' = TRUE
           /\ UNCHANGED <<pc, handled, global, epoll, soc, state, watched,
                          clients, code, lingering, runs>>
  BY <1>2 DEF MainInv, TypeOK, SetupInv, SignalInv, CodeInv
<1> QED
  BY <1>1, <1>2 DEF Signal

\* Every step keeps the invariant.
LEMMA MainInvKept ==
  ASSUME MainInv, [Next]_vars
  PROVE  MainInv'
<1>1. CASE Main \/ RunFails \/ Serve \/ Expire \/ Restart
  BY <1>1, StartKeeps, EndKeeps DEF Main
<1>2. CASE \E s \in Sig : Signal(s)
  BY <1>2, SignalKeeps
<1>3. CASE UNCHANGED vars
  BY <1>3 DEF vars, MainInv, TypeOK, SetupInv, SignalInv, CodeInv
<1> QED
  BY <1>1, <1>2, <1>3 DEF Next

-----------------------------------------------------------------------------
\* The variables of main() always have their types.
THEOREM MainTyping == Spec => []TypeOK
<1>1. MainInv => TypeOK
  BY DEF MainInv
<1> QED
  BY <1>1, MainInvInitially, MainInvKept, PTL DEF Spec

\* run() starts with a socket that listens and does not block, whatever came
\* before.
THEOREM ListenerReady == Spec => []AcceptNeverBlocks
<1>1. MainInv => AcceptNeverBlocks
  BY DEF MainInv, SetupInv, AcceptNeverBlocks, AllDone
<1> QED
  BY <1>1, MainInvInitially, MainInvKept, PTL DEF Spec

\* main() closes the listening socket on every way out and returns 0 only if
\* it was told to stop.
THEOREM ExitHonest == Spec => []ReturnsTruth
<1>1. MainInv => ReturnsTruth
  BY DEF MainInv, SetupInv, CodeInv, ReturnsTruth
<1> QED
  BY <1>1, MainInvInitially, MainInvKept, PTL DEF Spec

\* A signal ends the process only before g_proactor is set or after main().
THEOREM SignalsSafe == Spec => SignalsHandled
<1> DEFINE Allowed == pc' # pc /\ pc' \in {"killed", "crashed"} =>
                        pc \in {"sigint", "sigterm", "sigpipe", "construct", "leave"}
<1>1. MainInv /\ [Next]_vars => [Allowed]_vars
  <2> SUFFICES ASSUME MainInv, Next, pc' # pc, pc' \in {"killed", "crashed"}
               PROVE  pc \in {"sigint", "sigterm", "sigpipe", "construct", "leave"}
    OBVIOUS
  <2>1. CASE \E s \in Sig : Signal(s)
    <3>1. PICK s \in Sig : Signal(s)
      BY <2>1
    <3>2. /\ ~Ended
          /\ s \notin handled \/ global \in {"null", "dead"}
      BY <3>1 DEF Signal
    <3>3. pc \in PC
      BY DEF MainInv, TypeOK
    <3> QED
      BY <3>2, <3>3 DEF MainInv, SignalInv, PC, Setup, Ended
  <2>2. CASE Main \/ RunFails \/ Serve \/ Expire \/ Restart
    BY <2>2 DEF Main, SetSigHandler, Construct, Create, Socket, SetOption,
                SetNonBlock, Bind, Listen, Register, ListenFails, RunStops, Unwind,
                Leave, Exit, Vanish, Done, RunEnds, RunFails, Serve, Expire, Restart
  <2> QED
    BY <2>1, <2>2 DEF Next
<1> QED
  BY <1>1, MainInvInitially, MainInvKept, PTL DEF Spec, SignalsHandled
=============================================================================
