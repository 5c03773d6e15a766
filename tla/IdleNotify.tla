----------------------------- MODULE IdleNotify -----------------------------
(***************************************************************************)
(* Idle notifications (wl_idle_notify.c): each has a timer, which activity *)
(* starts again and which says idled once.  Inhibitors change nothing, and *)
(* neither does the kind of notification that is to ignore them.           *)
(*                                                                         *)
(* Time passes in ticks.  A timer fires at its time or later.              *)
(***************************************************************************)
EXTENDS Naturals

CONSTANTS
  Notification,  \* addresses of idle_notification
  Timeout,       \* timeouts asked for, in ticks
  LongQuiet,     \* no longer quiet is told from longer ones
  NoNotification

ASSUME IdleAssumption == Timeout \subseteq 0..LongQuiet /\ LongQuiet \in Nat

VARIABLES
  notifs,  \* the notifications there are
  quiet    \* history: ticks since a notification was made or heard activity

idleVars == <<notifs, quiet>>

\* A timer of 0 is not armed: wl_event_source_timer_update disarms it.
Notif == [timeout : Timeout, idled : BOOLEAN, left : 0..LongQuiet, armed : BOOLEAN]
Notifs == {n \in Notification : notifs[n] # NoNotification}

IdleTypeOK ==
  /\ notifs \in [Notification -> Notif \cup {NoNotification}]
  /\ quiet \in [Notification -> 0..LongQuiet]

IdleInit ==
  /\ notifs = [n \in Notification |-> NoNotification]
  /\ quiet = [n \in Notification |-> 0]

---------------------------------------------------------------------------
\* wl_event_source_timer_update
Armed_OneMore(x) == [x EXCEPT !.left = x.timeout + 1, !.armed = x.timeout # 0]

Armed(x) == [x EXCEPT !.left = x.timeout, !.armed = x.timeout # 0]

\* create_notification
CreateNotification(n, timeout) ==
  /\ notifs[n] = NoNotification
  /\ notifs' = [notifs EXCEPT ![n] =
       Armed([timeout |-> timeout, idled |-> FALSE, left |-> 0, armed |-> FALSE])]
  /\ quiet' = [quiet EXCEPT ![n] = 0]

\* notification_resource_destroy
DestroyNotification(n) ==
  /\ n \in Notifs
  /\ notifs' = [notifs EXCEPT ![n] = NoNotification]
  /\ quiet' = [quiet EXCEPT ![n] = 0]

\* idle_timer_callback; a timer fires once for each time it is armed.
IdleTimer(n) ==
  /\ n \in Notifs /\ notifs[n].armed /\ notifs[n].left = 0
  /\ notifs' = [notifs EXCEPT ![n].armed = FALSE, ![n].idled = TRUE]
  /\ UNCHANGED quiet

\* bridge_idle_notify_activity, for every event of an input device
Activity_OnlyResumes ==
  /\ Notifs # {}
  /\ notifs' = [n \in Notification |->
       IF n \in Notifs /\ notifs[n].idled THEN Armed([notifs[n] EXCEPT !.idled = FALSE])
       ELSE notifs[n]]
  /\ quiet' = [n \in Notification |-> 0]

Activity_NoTimer ==
  /\ Notifs # {}
  /\ notifs' = [n \in Notification |->
       IF n \in Notifs /\ ~notifs[n].idled THEN Armed(notifs[n])
       ELSE IF n \in Notifs THEN [notifs[n] EXCEPT !.idled = FALSE] ELSE notifs[n]]
  /\ quiet' = [n \in Notification |-> 0]

Activity ==
  /\ Notifs # {}
  /\ notifs' = [n \in Notification |->
       IF n \in Notifs THEN Armed([notifs[n] EXCEPT !.idled = FALSE]) ELSE notifs[n]]
  /\ quiet' = [n \in Notification |-> 0]

\* Time passes.
Tick ==
  /\ notifs' = [n \in Notification |->
       IF n \in Notifs /\ notifs[n].left > 0 THEN [notifs[n] EXCEPT !.left = @ - 1]
       ELSE notifs[n]]
  /\ quiet' = [n \in Notification |->
       IF n \in Notifs /\ quiet[n] < LongQuiet THEN quiet[n] + 1 ELSE quiet[n]]

IdleNext ==
  \/ \E n \in Notification :
       \/ \E t \in Timeout : CreateNotification(n, t)
       \/ DestroyNotification(n) \/ IdleTimer(n)
  \/ Activity \/ Tick

IdleSpec == IdleInit /\ [][IdleNext]_idleVars

---------------------------------------------------------------------------
(* A client that is told idled has seen no activity for the time it asked  *)
(* for, however timers and input interleave and whenever it came.          *)
IdledIsQuiet ==
  \A n \in Notifs : notifs[n].idled => quiet[n] >= notifs[n].timeout

(* A notification that has not said idled will, if all stays quiet: its    *)
(* timer runs, unless the timeout is 0, of which it never hears.           *)
QuietWillBeTold ==
  \A n \in Notifs : ~notifs[n].idled => notifs[n].armed \/ notifs[n].timeout = 0

(***************************************************************************)
(* A notification is idled only after quiet of its length, and while it is *)
(* not, a timer runs that will tell it.                                    *)
(***************************************************************************)
IdleOK ==
  /\ IdleTypeOK /\ IdledIsQuiet /\ QuietWillBeTold
=============================================================================
