---------------------- MODULE XwaylandLifecycle_proofs ----------------------
(***************************************************************************)
(* However often Xwayland dies, and however its starts fail, there is one  *)
(* Xwayland at most, and its client and its window manager are known by    *)
(* the right process.                                                      *)
(***************************************************************************)
EXTENDS XwaylandLifecycle, TLAPS

\* Before the event loop there is nothing, after it no process id.
PhaseOK ==
  /\ phase = "boot" => pid = None /\ client = None /\ calling = None
  /\ phase = "ended" => pid = None

\* The client was accepted from the Xwayland there is, or from the last one.
ClientIsXwayland ==
  client # None => conn[client] = "accepted" /\ pid \in {client, None}

\* A timer that is armed belongs to a window manager that may try again.
AttemptsLeft ==
  wmState = "connecting" /\ calling = None => attempts < MaxAttempts

IInv ==
  /\ TypeOK
  /\ PhaseOK
  /\ OneXwayland
  /\ ClientIsWatched
  /\ ClientIsXwayland
  /\ ManagerIsCurrent
  /\ AttemptsLeft

(***************************************************************************)
(* What a start leaves, called with no Xwayland left in reaped.            *)
(***************************************************************************)
Reaped(reaped) ==
  /\ reaped \in [Process -> {"unborn", "alive", "zombie", "reaped"}]
  /\ \A p \in Process : reaped[p] \notin {"alive", "zombie"}
  /\ \A p \in Unborn : reaped[p] = "unborn"

Started ==
  /\ pid' \in Process \cup {None}
  /\ proc' \in [Process -> {"unborn", "alive", "zombie", "reaped"}]
  /\ \A p \in Process : proc'[p] \in {"alive", "zombie"} => p = pid'
  /\ wmFd' \in Process \cup {None}
  /\ xwm' \in Process \cup {None}
  /\ xwm' # None => pid' = xwm' /\ wmFd' = xwm'
  /\ wmState' \in {"connecting", "ready", "failed"}
  /\ attempts' \in 0 .. MaxAttempts
  /\ \/ wmState' = "connecting" /\ attempts' = 0
     \/ UNCHANGED <<wmState, attempts>>

\* start_xwayland with start_xwm_async, whichever step fails.
LEMMA StartLemma ==
  ASSUME TypeOK, NEW reaped, Reaped(reaped), Start(reaped)
  PROVE  Started
<1>1. CASE StartFails(reaped)
  BY <1>1, XwaylandAssumption DEF StartFails, NoManager, Reaped, Started, TypeOK
<1>2. CASE ExitsAtOnce(reaped)
  BY <1>2, XwaylandAssumption
     DEF ExitsAtOnce, NoManager, Reaped, Started, TypeOK, Unborn
<1>3. CASE Starts(reaped)
  BY <1>3, XwaylandAssumption
     DEF Starts, NewManager, Reaped, Started, TypeOK, Unborn
<1>4. CASE StartsWithoutManager(reaped)
  BY <1>4, XwaylandAssumption
     DEF StartsWithoutManager, NoManager, Reaped, Started, TypeOK, Unborn
<1>5. QED
  BY <1>1, <1>2, <1>3, <1>4 DEF Start

\* restart_xwayland: it starts Xwayland, or changes nothing but what the
\* handler that calls it found.
LEMMA RestartLemma ==
  ASSUME TypeOK, NEW q, NEW c, NEW reaped, Restart(q, c, reaped),
         MayRestart(q, c) => Reaped(reaped)
  PROVE  \/ MayRestart(q, c) /\ Started
         \/ pid' = q /\ proc' = reaped /\ UNCHANGED <<wmFd, manager>>
<1>1. CASE MayRestart(q, c)
  BY <1>1, StartLemma DEF Restart
<1>2. CASE ~MayRestart(q, c)
  BY <1>2 DEF Restart
<1>3. QED
  BY <1>1, <1>2

\* The state at the call of main satisfies the invariant.
LEMMA InitInv == Init => IInv
  BY XwaylandAssumption
     DEF Init, IInv, TypeOK, PhaseOK, OneXwayland, ClientIsWatched,
         ClientIsXwayland, ManagerIsCurrent, AttemptsLeft

\* Boot and the three handlers that start, lose or find an Xwayland.
LEMMA BootInv == IInv /\ Boot => IInv'
<1> SUFFICES ASSUME IInv, Boot PROVE IInv'
  OBVIOUS
<1> USE XwaylandAssumption
<1>1. Reaped(proc)
  BY DEF IInv, TypeOK, PhaseOK, OneXwayland, Boot, Reaped, Unborn
<1>2. Started
  BY <1>1, StartLemma DEF IInv, Boot
<1>3. phase' = "loop" /\ client = None /\ calling = None
      /\ UNCHANGED <<client, conn, watched, calling, listeners>>
  BY DEF IInv, PhaseOK, Boot
<1>4. TypeOK'
  BY <1>2, <1>3 DEF IInv, TypeOK, Started
<1>5. OneXwayland' /\ ManagerIsCurrent'
  BY <1>2, <1>3 DEF Started, OneXwayland, ManagerIsCurrent
<1>6. AttemptsLeft'
  BY <1>2, <1>3 DEF IInv, TypeOK, Started, AttemptsLeft
<1>7. QED
  BY <1>3, <1>4, <1>5, <1>6
     DEF IInv, PhaseOK, ClientIsWatched, ClientIsXwayland

LEMMA AcceptInv == ASSUME NEW p \in Process PROVE IInv /\ Accept(p) => IInv'
<1> SUFFICES ASSUME IInv, Accept(p) PROVE IInv'
  OBVIOUS
<1> USE XwaylandAssumption
<1>1. TypeOK' /\ PhaseOK'
  BY DEF IInv, TypeOK, PhaseOK, Accept, Dispatching, manager
<1>2. OneXwayland' /\ ManagerIsCurrent' /\ AttemptsLeft'
  BY DEF IInv, OneXwayland, ManagerIsCurrent, AttemptsLeft, Accept, manager
<1>3. pid = p => client = None
  BY DEF IInv, TypeOK, ClientIsXwayland, Accept
<1>4. ClientIsWatched' /\ ClientIsXwayland'
  BY <1>3 DEF IInv, TypeOK, ClientIsWatched, ClientIsXwayland, Accept
<1>5. QED
  BY <1>1, <1>2, <1>4 DEF IInv

LEMMA ClientGoneInv ==
  ASSUME NEW p \in Process PROVE IInv /\ ClientGone(p) => IInv'
<1> SUFFICES ASSUME IInv, ClientGone(p) PROVE IInv'
  OBVIOUS
<1> USE XwaylandAssumption
<1>1. /\ phase \in {"loop", "leaving"} /\ calling = None
      /\ conn' = [conn EXCEPT ![p] = "closed"] /\ watched' = watched \ {p}
      /\ UNCHANGED <<phase, calling, listeners>>
  BY DEF ClientGone, Dispatching
<1>2. CASE p \in watched
  <2>1. p = client
    BY <1>2 DEF IInv, ClientIsWatched
  <2>2. client' = None /\ watched' = {}
    BY <1>2, <2>1 DEF IInv, ClientIsWatched, ClientGone
  <2>3. \/ pid = None /\ Started
        \/ UNCHANGED <<pid, proc, wmFd, manager>>
    <3>1. MayRestart(pid, None) => Reaped(proc)
      BY DEF IInv, TypeOK, OneXwayland, MayRestart, Reaped, Unborn
    <3>2. Restart(pid, None, proc)
      BY <1>2 DEF ClientGone
    <3>3. QED
      BY <3>1, <3>2, RestartLemma DEF IInv, MayRestart
  <2>4. CASE pid = None /\ Started
    <3>1. TypeOK'
      <4>1. conn' \in [Process -> {"none", "queued", "accepted", "closed"}]
        BY <1>1 DEF IInv, TypeOK
      <4>2. QED
        BY <1>1, <2>2, <2>4, <4>1 DEF IInv, TypeOK, Started
    <3>2. OneXwayland' /\ ManagerIsCurrent'
      BY <1>1, <2>4 DEF Started, OneXwayland, ManagerIsCurrent
    <3>3. AttemptsLeft'
      BY <1>1, <2>4 DEF IInv, TypeOK, Started, AttemptsLeft
    <3>4. QED
      BY <1>1, <2>2, <3>1, <3>2, <3>3
         DEF IInv, PhaseOK, ClientIsWatched, ClientIsXwayland
  <2>5. CASE UNCHANGED <<pid, proc, wmFd, manager>>
    BY <1>1, <2>2, <2>5
       DEF IInv, TypeOK, PhaseOK, OneXwayland, ClientIsWatched,
           ClientIsXwayland, ManagerIsCurrent, AttemptsLeft, manager
  <2>6. QED
    BY <2>3, <2>4, <2>5
<1>3. CASE p \notin watched
  <2>1. UNCHANGED <<pid, client, proc, wmFd, manager>>
    BY <1>3 DEF ClientGone
  <2>2. client # None => client # p
    BY <1>3 DEF IInv, ClientIsWatched
  <2>3. ClientIsWatched' /\ ClientIsXwayland'
    BY <1>1, <1>3, <2>1, <2>2 DEF IInv, TypeOK, ClientIsWatched, ClientIsXwayland
  <2>4. QED
    BY <1>1, <2>1, <2>3
       DEF IInv, TypeOK, PhaseOK, OneXwayland, ManagerIsCurrent, AttemptsLeft,
           manager
<1>4. QED
  BY <1>2, <1>3

LEMMA ReapInv == ASSUME NEW p \in Process PROVE IInv /\ Reap(p) => IInv'
<1> SUFFICES ASSUME IInv, Reap(p) PROVE IInv'
  OBVIOUS
<1> USE XwaylandAssumption
<1> DEFINE reaped == [proc EXCEPT ![p] = "reaped"]
<1>1. /\ phase \in {"loop", "leaving"} /\ calling = None
      /\ UNCHANGED <<phase, client, conn, watched, calling, listeners>>
  BY DEF Reap, Dispatching
<1>2. pid = p /\ Reaped(reaped)
  BY DEF IInv, TypeOK, OneXwayland, Reap, Reaped, Unborn
<1>3. Restart(None, client, reaped)
  BY <1>2 DEF Reap
<1>4. \/ client = None /\ Started
      \/ pid' = None /\ proc' = reaped /\ UNCHANGED <<wmFd, manager>>
  BY <1>2, <1>3, RestartLemma DEF IInv, MayRestart
<1>5. CASE client = None /\ Started
  <2>1. TypeOK'
    BY <1>1, <1>5 DEF IInv, TypeOK, Started
  <2>2. OneXwayland' /\ ManagerIsCurrent'
    BY <1>1, <1>5 DEF Started, OneXwayland, ManagerIsCurrent
  <2>3. AttemptsLeft'
    BY <1>1, <1>5 DEF IInv, TypeOK, Started, AttemptsLeft
  <2>4. QED
    BY <1>1, <1>5, <2>1, <2>2, <2>3
       DEF IInv, PhaseOK, ClientIsWatched, ClientIsXwayland
<1>6. CASE pid' = None /\ proc' = reaped /\ UNCHANGED <<wmFd, manager>>
  <2>1. TypeOK'
    BY <1>1, <1>2, <1>6 DEF IInv, TypeOK, Reaped, manager
  <2>2. OneXwayland'
    BY <1>2, <1>6 DEF OneXwayland, Reaped
  <2>3. QED
    BY <1>1, <1>6, <2>1, <2>2
       DEF IInv, PhaseOK, ClientIsWatched, ClientIsXwayland, ManagerIsCurrent,
           AttemptsLeft, manager
<1>7. QED
  BY <1>4, <1>5, <1>6

\* The timer of the window manager, and the return of its call.
LEMMA ConnectInv == IInv /\ (Connect \/ Return) => IInv'
<1> SUFFICES ASSUME IInv, Connect \/ Return PROVE IInv'
  OBVIOUS
<1> USE XwaylandAssumption
<1>1. UNCHANGED <<phase, pid, client, proc, conn, watched, xwm>>
  BY DEF Connect, Return
<1>2. OneXwayland' /\ ClientIsWatched' /\ ClientIsXwayland'
  BY <1>1 DEF IInv, OneXwayland, ClientIsWatched, ClientIsXwayland
<1>3. CASE Connect
  <2>1. TypeOK' /\ PhaseOK'
    BY <1>1, <1>3
       DEF IInv, TypeOK, PhaseOK, AttemptsLeft, Connect, Retry, Dispatching
  <2>2. ManagerIsCurrent'
    BY <1>1, <1>3 DEF IInv, ManagerIsCurrent, Connect
  <2>3. AttemptsLeft'
    BY <1>3 DEF IInv, TypeOK, AttemptsLeft, Connect, Retry, Dispatching
  <2>4. QED
    BY <1>2, <2>1, <2>2, <2>3 DEF IInv
<1>4. CASE Return
  <2>1. listeners' \subseteq Process
    BY <1>4 DEF IInv, TypeOK, ManagerIsCurrent, Return, FinishInit, Registered
  <2>2. TypeOK' /\ PhaseOK'
    <3>1. wmState' \in {"connecting", "ready", "failed"}
      BY <1>4 DEF Return, Retry, FinishInit
    <3>2. calling' = None /\ UNCHANGED <<wmFd, attempts>>
      BY <1>4 DEF Return
    <3>3. QED
      BY <1>1, <2>1, <3>1, <3>2 DEF IInv, TypeOK, PhaseOK
  <2>3. ManagerIsCurrent' /\ AttemptsLeft'
    BY <1>1, <1>4
       DEF IInv, TypeOK, ManagerIsCurrent, AttemptsLeft, Return, Retry, FinishInit
  <2>4. QED
    BY <1>2, <2>2, <2>3 DEF IInv
<1>5. QED
  BY <1>3, <1>4

\* The invariant of the specification.
THEOREM Soundness == Spec => []IInv
<1>1. IInv /\ [Next]_vars => IInv'
  <2> SUFFICES ASSUME IInv, [Next]_vars PROVE IInv'
    OBVIOUS
  <2> USE XwaylandAssumption
  <2>1. CASE Terminate
    BY <2>1
       DEF IInv, TypeOK, PhaseOK, OneXwayland, ClientIsWatched,
           ClientIsXwayland, ManagerIsCurrent, AttemptsLeft, Terminate, manager
  <2>2. CASE Leave
    <3>1. TypeOK'
      BY <2>2 DEF IInv, TypeOK, Leave, NoManager
    <3>2. OneXwayland'
      BY <2>2 DEF IInv, OneXwayland, Leave
    <3>3. QED
      BY <2>2, <3>1, <3>2
         DEF IInv, TypeOK, PhaseOK, ClientIsWatched, ClientIsXwayland,
             ManagerIsCurrent, AttemptsLeft, Leave, NoManager
  <2>3. CASE \E p \in Process : Open(p)
    <3> PICK p \in Process : Open(p)
      BY <2>3
    <3>1. client # p
      BY DEF IInv, ClientIsXwayland, Open
    <3>2. TypeOK' /\ ClientIsXwayland'
      BY <3>1 DEF IInv, TypeOK, ClientIsXwayland, Open, manager
    <3>3. QED
      BY <3>2
         DEF IInv, PhaseOK, OneXwayland, ClientIsWatched, ManagerIsCurrent,
             AttemptsLeft, Open, manager
  <2>4. CASE \E p \in Process : Die(p)
    <3> PICK p \in Process : Die(p)
      BY <2>4
    <3>1. TypeOK' /\ OneXwayland'
      BY DEF IInv, TypeOK, OneXwayland, Die, manager
    <3>2. QED
      BY <3>1
         DEF IInv, PhaseOK, ClientIsWatched, ClientIsXwayland,
             ManagerIsCurrent, AttemptsLeft, Die, manager
  <2>5. CASE UNCHANGED vars
    BY <2>5
       DEF IInv, TypeOK, PhaseOK, OneXwayland, ClientIsWatched,
           ClientIsXwayland, ManagerIsCurrent, AttemptsLeft, vars, manager
  <2>6. QED
    BY <2>1, <2>2, <2>3, <2>4, <2>5, BootInv, AcceptInv, ClientGoneInv,
       ReapInv, ConnectInv DEF Next
<1>2. QED
  BY InitInv, <1>1, PTL DEF Spec

\* Type correctness of the process ids, clients and window managers.
THEOREM TypeCorrect == Spec => []TypeOK
<1>1. IInv => TypeOK
  BY DEF IInv
<1>2. QED
  BY <1>1, Soundness, PTL

\* Never two Xwaylands, never one that is not reaped, however the two
\* handlers of a death and the failures of a start fall.
THEOREM AtMostOne == Spec => []OneXwayland
<1>1. IInv => OneXwayland
  BY DEF IInv
<1>2. QED
  BY <1>1, Soundness, PTL

\* The bridge ends with every Xwayland it started reaped.
THEOREM EndsClean == Spec => []NothingLeftBehind
<1>1. IInv => NothingLeftBehind
  BY XwaylandAssumption
     DEF IInv, TypeOK, PhaseOK, OneXwayland, NothingLeftBehind
<1>2. QED
  BY <1>1, Soundness, PTL

\* Both together, as the runs check them: xwayland_sigchld_handler and
\* stop_xwayland lose sight of no process.
THEOREM ProcessesKnown == Spec => []NoneIsLost
<1>1. OneXwayland /\ NothingLeftBehind => NoneIsLost
  BY DEF NoneIsLost
<1>2. QED
  BY <1>1, AtMostOne, EndsClean, PTL

\* on_xwayland_client_destroy clears the pointer to the client it is for.
THEOREM ClientKnown == Spec => []ClientIsWatched
<1>1. IInv => ClientIsWatched
  BY DEF IInv
<1>2. QED
  BY <1>1, Soundness, PTL

\* The window manager talks to the Xwayland it was created for.
THEOREM ManagerKnown == Spec => []ManagerIsCurrent
<1>1. IInv => ManagerIsCurrent
  BY DEF IInv
<1>2. QED
  BY <1>1, Soundness, PTL

\* Client and window manager together, as the runs check them.
THEOREM PeersKnown == Spec => []PeersAreCurrent
<1>1. IInv => PeersAreCurrent
  BY DEF IInv, PeersAreCurrent
<1>2. QED
  BY <1>1, Soundness, PTL
===========================================================================
