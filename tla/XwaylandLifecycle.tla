------------------------- MODULE XwaylandLifecycle -------------------------
(***************************************************************************)
(* Starting, losing and restarting Xwayland (wayland_bridge.c), and the    *)
(* connection of the X window manager to it (xwm.c).                       *)
(*                                                                         *)
(* Xwayland is a child process and a Wayland client.  When it dies the     *)
(* bridge hears of it twice, in either order: SIGCHLD for the process and  *)
(* the destruction of the client.  Each handler tries the restart, which   *)
(* happens once both are through.  Handlers run one at a time, so the flag *)
(* xwayland_restart_pending is never seen set and is left out, and so is   *)
(* the display number, which is set and reset with the process id.         *)
(*                                                                         *)
(* One handler waits: the window manager connects with a blocking call.    *)
(* Nothing else runs until Xwayland answers, which an Xwayland does once   *)
(* its own connection to the bridge is served, or closes the socket.       *)
(*                                                                         *)
(* An operator named after another one with a suffix is that operator with *)
(* a mistake; see SurfaceBuffers.                                          *)
(***************************************************************************)
EXTENDS Naturals, FiniteSets

CONSTANTS
  Process,      \* Xwayland processes, in the order of their fork or not
  None,         \* no process: -1 or NULL
  Failures,     \* what may fail
  MaxAttempts,  \* connection attempts of the window manager, 20 in the code
  ListenerCap   \* clipboard listener slots left to window managers

\* "slow": Xwayland is not set up when the timer of the window manager fires.
Failure == {"start", "exit", "xwm", "slow", "connect", "init"}

ASSUME XwaylandAssumption ==
  /\ None \notin Process
  /\ Failures \subseteq Failure
  /\ MaxAttempts \in Nat \ {0}
  /\ ListenerCap \in Nat

VARIABLES
  phase,      \* of the bridge: before the event loop, in it, leaving it, out
  pid,        \* xwayland_pid
  client,     \* xwayland_wl_client
  proc,       \* the life of each process
  conn,       \* the Wayland connection each process opens
  watched,    \* clients with on_xwayland_client_destroy attached
  wmFd,       \* xwayland_wm_fd: the process the socket leads to
  xwm,        \* the window manager, by the process it was made for
  wmState,    \* its state
  attempts,   \* its connection_attempts
  calling,    \* the process xcb_connect_to_fd waits for
  listeners   \* window managers in clipboard_listeners

manager == <<xwm, wmState, attempts>>
vars == <<phase, pid, client, proc, conn, watched, wmFd, manager, calling,
          listeners>>

TypeOK ==
  /\ phase \in {"boot", "loop", "leaving", "ended"}
  /\ pid \in Process \cup {None}
  /\ client \in Process \cup {None}
  /\ proc \in [Process -> {"unborn", "alive", "zombie", "reaped"}]
  /\ conn \in [Process -> {"none", "queued", "accepted", "closed"}]
  /\ watched \subseteq Process
  /\ wmFd \in Process \cup {None}
  /\ xwm \in Process \cup {None}
  /\ wmState \in {"connecting", "ready", "failed"}
  /\ attempts \in 0 .. MaxAttempts
  /\ calling \in Process \cup {None}
  /\ listeners \subseteq Process

Init ==
  /\ phase = "boot"
  /\ pid = None /\ client = None
  /\ proc = [p \in Process |-> "unborn"]
  /\ conn = [p \in Process |-> "none"]
  /\ watched = {}
  /\ wmFd = None /\ calling = None
  /\ xwm = None /\ wmState = "connecting" /\ attempts = 0
  /\ listeners = {}

\* The event loop runs: a last round after the terminate request included.
Dispatching == phase \in {"loop", "leaving"} /\ calling = None

Unborn == {p \in Process : proc[p] = "unborn"}

---------------------------------------------------------------------------
(* start_xwayland, start_xwm_async, stop_xwayland *)

NoManager == xwm' = None /\ UNCHANGED <<wmState, attempts>>

NewManager(p) == xwm' = p /\ wmState' = "connecting" /\ attempts' = 0

\* start_xwayland gives up before the fork, or the fork fails, as it does
\* when the processes of the instance are used up.
StartFails(reaped) ==
  /\ "start" \in Failures \/ Unborn = {}
  /\ pid' = None /\ proc' = reaped
  /\ NoManager
  /\ UNCHANGED wmFd

\* The process exits within the half second start_xwayland waits: it is
\* reaped there, and the window manager socket stays behind.
ExitsAtOnce(reaped) ==
  /\ "exit" \in Failures
  /\ \E p \in Unborn :
       /\ pid' = None /\ proc' = [reaped EXCEPT ![p] = "reaped"]
       /\ wmFd' = p
  /\ NoManager

Starts_OldSocket(reaped) ==
  \E p \in Unborn :
    /\ pid' = p /\ proc' = [reaped EXCEPT ![p] = "alive"]
    /\ wmFd' = IF wmFd = None THEN p ELSE wmFd
    /\ NewManager(p)

Starts(reaped) ==
  \E p \in Unborn :
    /\ pid' = p /\ proc' = [reaped EXCEPT ![p] = "alive"]
    /\ wmFd' = p
    /\ NewManager(p)

\* The window manager cannot be created: at a restart Xwayland is stopped
\* again, killed and reaped on the spot.
StartsWithoutManager(reaped) ==
  /\ "xwm" \in Failures
  /\ \E p \in Unborn :
       /\ wmFd' = p
       /\ IF phase = "boot"
          THEN pid' = p /\ proc' = [reaped EXCEPT ![p] = "alive"]
          ELSE pid' = None /\ proc' = [reaped EXCEPT ![p] = "reaped"]
  /\ NoManager

Start(reaped) ==
  \/ StartFails(reaped)
  \/ ExitsAtOnce(reaped)
  \/ Starts(reaped)
  \/ StartsWithoutManager(reaped)

\* restart_xwayland may go on, with q and c for the process id and the client.
MayRestart_AnyClient(q, c) == phase = "loop" /\ q = None

MayRestart_AnyProcess(q, c) == phase = "loop" /\ c = None

MayRestart(q, c) == phase = "loop" /\ q = None /\ c = None

\* restart_xwayland, called with the processes in reaped.
Restart(q, c, reaped) ==
  IF MayRestart(q, c)
  THEN Start(reaped)
  ELSE pid' = q /\ proc' = reaped /\ UNCHANGED <<wmFd, manager>>

---------------------------------------------------------------------------
(* Handlers *)

\* main, up to wl_display_run
Boot ==
  /\ phase = "boot"
  /\ phase' = "loop"
  /\ Start(proc)
  /\ UNCHANGED <<client, conn, watched, calling, listeners>>

\* bridge_client_created, called when the connection of p is accepted
Accept(p) ==
  /\ Dispatching
  /\ conn[p] = "queued"
  /\ conn' = [conn EXCEPT ![p] = "accepted"]
  /\ IF pid = p
     THEN client' = p /\ watched' = watched \cup {p}
     ELSE UNCHANGED <<client, watched>>
  /\ UNCHANGED <<phase, pid, proc, wmFd, manager, calling, listeners>>

\* on_xwayland_client_destroy: the connection of p is closed, because p is
\* dead or because it broke the protocol.
ClientGone_NoRestart(p) ==
  /\ Dispatching
  /\ conn[p] = "accepted"
  /\ conn' = [conn EXCEPT ![p] = "closed"]
  /\ watched' = watched \ {p}
  /\ client' = IF p \in watched THEN None ELSE client
  /\ UNCHANGED <<phase, pid, proc, wmFd, manager, calling, listeners>>

ClientGone(p) ==
  /\ Dispatching
  /\ conn[p] = "accepted"
  /\ conn' = [conn EXCEPT ![p] = "closed"]
  /\ watched' = watched \ {p}
  /\ IF p \in watched
     THEN client' = None /\ Restart(pid, None, proc)
     ELSE UNCHANGED <<pid, client, proc, wmFd, manager>>
  /\ UNCHANGED <<phase, calling, listeners>>

\* xwayland_sigchld_handler, one turn of its loop
Reap(p) ==
  LET reaped == [proc EXCEPT ![p] = "reaped"]
  IN
  /\ Dispatching
  /\ proc[p] = "zombie"
  /\ IF pid = p
     THEN Restart(None, client, reaped)
     ELSE proc' = reaped /\ UNCHANGED <<pid, wmFd, manager>>
  /\ UNCHANGED <<phase, client, conn, watched, calling, listeners>>

\* signal_handler, or the connection to Plexy is lost
Terminate ==
  /\ phase = "loop"
  /\ phase' = "leaving"
  /\ UNCHANGED <<pid, client, proc, conn, watched, wmFd, manager, calling,
                 listeners>>

\* The end of main: stop_xwayland kills the process, if any, and reaps it.
Leave_Unreaped ==
  /\ phase = "leaving" /\ calling = None
  /\ phase' = "ended"
  /\ NoManager
  /\ UNCHANGED <<pid, client, proc, conn, watched, wmFd, calling, listeners>>

Leave ==
  /\ phase = "leaving" /\ calling = None
  /\ phase' = "ended"
  /\ NoManager
  /\ pid' = None
  /\ proc' = [p \in Process |-> IF p = pid THEN "reaped" ELSE proc[p]]
  /\ UNCHANGED <<client, conn, watched, wmFd, calling, listeners>>

---------------------------------------------------------------------------
(* The connection of the window manager: xwm_connection_timer *)

\* Another try after n of them, or none any more.
Retry_OneMore(n) == wmState' = IF n > MaxAttempts THEN "failed" ELSE "connecting"

Retry(n) == wmState' = IF n >= MaxAttempts THEN "failed" ELSE "connecting"

\* bridge_clipboard_register_change_listener, without room a no-op
Registered ==
  IF Cardinality(listeners) < ListenerCap THEN listeners \cup {xwm} ELSE listeners

\* xwm_finish_init, which may fail before or after the registration.
FinishInit ==
  \/ wmState' = "ready" /\ listeners' = Registered
  \/ /\ "init" \in Failures
     /\ wmState' = "failed"
     /\ listeners' \in {listeners, Registered}

\* Xwayland serves X clients, or has closed the socket.
Answers(p) == proc[p] # "alive" \/ conn[p] = "accepted"

\* The timer fires: the socket is taken, once and for all, and the call made.
Connect_Uncounted ==
  /\ Dispatching
  /\ xwm # None /\ wmState = "connecting"
  /\ attempts' = attempts
  /\ wmFd' = None /\ calling' = wmFd
  /\ IF wmFd = None
     THEN Retry(attempts + 1)
     ELSE ("slow" \in Failures \/ Answers(wmFd)) /\ UNCHANGED wmState
  /\ UNCHANGED <<phase, pid, client, proc, conn, watched, xwm, listeners>>

Connect ==
  /\ Dispatching
  /\ xwm # None /\ wmState = "connecting"
  /\ attempts' = attempts + 1
  /\ wmFd' = None /\ calling' = wmFd
  /\ IF wmFd = None
     THEN Retry(attempts + 1)
     ELSE ("slow" \in Failures \/ Answers(wmFd)) /\ UNCHANGED wmState
  /\ UNCHANGED <<phase, pid, client, proc, conn, watched, xwm, listeners>>

\* The call returns; a failed connection closes the socket.
Return ==
  /\ calling # None /\ Answers(calling)
  /\ calling' = None
  /\ \/ /\ proc[calling] # "alive" \/ "connect" \in Failures
        /\ Retry(attempts) /\ UNCHANGED listeners
     \/ proc[calling] = "alive" /\ FinishInit
  /\ UNCHANGED <<phase, pid, client, proc, conn, watched, wmFd, xwm, attempts>>

---------------------------------------------------------------------------
(* Xwayland *)

Open(p) ==
  /\ proc[p] = "alive" /\ conn[p] = "none"
  /\ conn' = [conn EXCEPT ![p] = "queued"]
  /\ UNCHANGED <<phase, pid, client, proc, watched, wmFd, manager, calling,
                 listeners>>

Die(p) ==
  /\ proc[p] = "alive"
  /\ proc' = [proc EXCEPT ![p] = "zombie"]
  /\ UNCHANGED <<phase, pid, client, conn, watched, wmFd, manager, calling,
                 listeners>>

---------------------------------------------------------------------------
Next ==
  \/ Boot \/ Connect \/ Return \/ Terminate \/ Leave
  \/ \E p \in Process : Accept(p) \/ ClientGone(p) \/ Reap(p) \/ Open(p) \/ Die(p)

Spec == Init /\ [][Next]_vars

(***************************************************************************)
(* The event loop serves every source that is ready, the kernel closes the *)
(* connections of a dead process, and an Xwayland whose connection was     *)
(* closed exits.  An Xwayland connects, unless it dies; nothing says that  *)
(* it dies.                                                                *)
(***************************************************************************)
Fairness ==
  /\ WF_vars(Boot)
  /\ WF_vars(Connect) /\ WF_vars(Return)
  /\ \A p \in Process :
       /\ WF_vars(Open(p)) /\ WF_vars(Accept(p))
       /\ WF_vars(Reap(p))
       /\ WF_vars(proc[p] # "alive" /\ ClientGone(p))
       /\ WF_vars(conn[p] = "closed" /\ Die(p))

FairSpec == Spec /\ Fairness

---------------------------------------------------------------------------
(* Properties *)

(***************************************************************************)
(* The process the bridge knows of is the only one there is: whatever the  *)
(* order of the two deaths and whichever step of a restart fails, no       *)
(* second Xwayland is started beside a first and none is left unreaped.    *)
(***************************************************************************)
OneXwayland == \A p \in Process : proc[p] \in {"alive", "zombie"} => p = pid

\* Nothing the bridge started survives it.
NothingLeftBehind ==
  phase = "ended" => \A p \in Process : proc[p] \in {"unborn", "reaped"}

\* No process is ever lost sight of: there is one at most while the bridge
\* runs, and none when it has ended.
NoneIsLost == OneXwayland /\ NothingLeftBehind

(***************************************************************************)
(* xwayland_wl_client is the one client that is watched, and no other: the *)
(* destroy handler, which clears it without looking whose client is gone,  *)
(* is never called for an earlier one.                                     *)
(***************************************************************************)
ClientIsWatched == watched = {client} \ {None}

\* The window manager connects to the Xwayland it was made for, and that is
\* the one that runs.
ManagerIsCurrent ==
  /\ calling \in {xwm, None}
  /\ xwm # None => pid \in {xwm, None} /\ wmFd \in {xwm, None}

(***************************************************************************)
(* The bridge knows its peers: the client it watches is the Xwayland's,    *)
(* and the window manager, its socket and its call belong to the process   *)
(* that runs, through every order of death, restart and connection.        *)
(***************************************************************************)
PeersAreCurrent == TypeOK /\ ClientIsWatched /\ ManagerIsCurrent

(***************************************************************************)
(* A clipboard change calls the listeners: "Wayland clipboard changed,     *)
(* claimed X11 CLIPBOARD selection" is said by the window manager there    *)
(* is, not by one that was freed with an earlier Xwayland.                 *)
(***************************************************************************)
ListenersAreLive == phase = "loop" => listeners \subseteq {xwm}

\* "connection failed, retrying": a window manager that will try to connect
\* again has a socket to connect to.
RetryHasSocket ==
  xwm # None /\ wmState = "connecting" => wmFd # None \/ calling # None

Up == pid # None /\ proc[pid] = "alive"

\* A start or a restart failed half way: no process, client or manager is left.
GivenUp == pid = None /\ client = None /\ xwm = None

\* While the bridge runs, a dead Xwayland is replaced, or a start has failed.
XwaylandReturns == ~Up ~> (Up \/ phase # "loop" \/ GivenUp)

Connecting(p) == phase = "loop" /\ xwm = p /\ wmState = "connecting"

\* The call waits for an Xwayland that waits to be accepted by the loop the
\* call is made from.
EachWaits(p) == calling = p /\ proc[p] = "alive" /\ conn[p] = "queued"

(***************************************************************************)
(* "XWM async connection initiated, will retry until ready": a window      *)
(* manager that connects is ready or gives up, if it stays.  The call is   *)
(* not asynchronous, and for an Xwayland that is slow to set up the two    *)
(* wait for each other; nothing else keeps it connecting for ever.         *)
(***************************************************************************)
ManagerSettles ==
  \A p \in Process : Connecting(p) ~> (~Connecting(p) \/ EachWaits(p))
=============================================================================
