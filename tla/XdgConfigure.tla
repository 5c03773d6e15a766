---------------------------- MODULE XdgConfigure ----------------------------
(***************************************************************************)
(* The configure handshake of one toplevel (xdg_shell.c, event_forward.c): *)
(* the client asks for states, Plexy has the last word and sends configure *)
(* events, the client is sent xdg configures and acknowledges them.        *)
(* Requests and events cross on the connection to Plexy.                   *)
(*                                                                         *)
(* Two functions send a configure.  send_toplevel_configure appends it to  *)
(* pending_configures, send_xdg_toplevel_configure does not.               *)
(*                                                                         *)
(* Plexy is external: it grants what is asked and sends a configure when   *)
(* its state changed; it may send one at any time, with no size as well.   *)
(* Left out: sizes beyond `known', activation, tiling, bounds, and the     *)
(* configures of popups, which take a serial and keep nothing.  The surface *)
(* has one toplevel; what a second one leaves is in XdgToplevels.          *)
(***************************************************************************)
EXTENDS Naturals, SequencesExt, Queues

CONSTANTS
  MaxSerial, \* bound on the configures sent
  MaxQueue   \* bound on requests, and on events, under way

ASSUME ConfigureAssumption == MaxSerial \in Nat /\ MaxQueue \in Nat

VARIABLES
  role,     \* "none", "xdg_surface", "toplevel"
  flags,    \* maximized, fullscreen and resizing of the surface
  known,    \* last_configured_width and height are set
  serial,   \* configure_serial
  pending,  \* pending_configures, their serials
  acked,    \* last_acked_serial
  said,     \* the states of the last configure the client was sent
  listed,   \* serials that were appended to pending
  highest,  \* the highest serial acknowledged
  wm,       \* Plexy's states of the window
  requests, \* to Plexy: <<state, on>>
  events    \* from Plexy: [states, sized]

client == <<serial, pending, said, listed>>
plexy == <<wm, requests, events>>
configureVars == <<role, flags, known, acked, highest, client, plexy>>

Asked == {"maximized", "fullscreen"}
State == Asked \cup {"resizing"}

ConfigureTypeOK ==
  /\ role \in {"none", "xdg_surface", "toplevel"}
  /\ flags \subseteq State /\ said \subseteq State /\ wm \subseteq State
  /\ known \in BOOLEAN
  /\ serial \in 0..MaxSerial /\ acked \in 0..MaxSerial /\ highest \in 0..MaxSerial
  /\ pending \in Seq(1..serial) /\ listed \subseteq 1..serial
  /\ requests \in Seq(Asked \X BOOLEAN)
  /\ events \in Seq([states : SUBSET State, sized : BOOLEAN])

ConfigureInit ==
  /\ role = "none" /\ flags = {} /\ known = FALSE
  /\ serial = 0 /\ pending = <<>> /\ acked = 0 /\ said = {}
  /\ listed = {} /\ highest = 0
  /\ wm = {} /\ requests = <<>> /\ events = <<>>

With(S, x, on) == IF on THEN S \cup {x} ELSE S \ {x}

---------------------------------------------------------------------------
(* Sending *)

\* send_toplevel_configure with xdg_configure_create
SendListed_Early(states) ==
  /\ serial < MaxSerial
  /\ serial' = serial + 1 /\ said' = states
  /\ pending' = Append(pending, serial)
  /\ listed' = listed \cup {serial + 1}

SendListed(states) ==
  /\ serial < MaxSerial
  /\ serial' = serial + 1 /\ said' = states
  /\ pending' = Append(pending, serial + 1)
  /\ listed' = listed \cup {serial + 1}

\* send_xdg_toplevel_configure
SendUnlisted(states) ==
  /\ serial < MaxSerial
  /\ serial' = serial + 1 /\ said' = states
  /\ UNCHANGED <<pending, listed>>

---------------------------------------------------------------------------
(* Requests *)

\* xdg_wm_base_get_xdg_surface
GetXdgSurface ==
  /\ role = "none" /\ serial = 0
  /\ role' = "xdg_surface" /\ pending' = <<>>
  /\ UNCHANGED <<flags, known, serial, said, listed, acked, highest, plexy>>

\* xdg_surface_get_toplevel
OpenToplevel ==
  /\ role = "xdg_surface" /\ serial = 0
  /\ role' = "toplevel"
  /\ SendListed(flags)
  /\ UNCHANGED <<flags, known, acked, highest, plexy>>

\* xdg_toplevel_set_maximized and unset_maximized
SetMaximized(on) ==
  /\ role = "toplevel" /\ Len(requests) < MaxQueue
  /\ flags' = With(flags, "maximized", on)
  /\ requests' = Append(requests, <<"maximized", on>>)
  /\ UNCHANGED <<role, known, acked, highest, client, wm, events>>

\* xdg_toplevel_set_fullscreen and unset_fullscreen
SetFullscreen(on) ==
  /\ role = "toplevel" /\ Len(requests) < MaxQueue
  /\ flags' = With(flags, "fullscreen", on)
  /\ requests' = Append(requests, <<"fullscreen", on>>)
  /\ SendListed(flags')
  /\ UNCHANGED <<role, known, acked, highest, wm, events>>

\* xdg_surface_ack_configure, with a serial the client was sent
AckConfigure_Exact(n) ==
  /\ role # "none" /\ n \in 1..serial
  /\ pending' = Without(pending, {n})
  /\ acked' = n /\ highest' = IF n > highest THEN n ELSE highest
  /\ flags' = flags \ {"resizing"}
  /\ UNCHANGED <<role, known, serial, said, listed, plexy>>

AckConfigure(n) ==
  /\ role # "none" /\ n \in 1..serial
  /\ pending' = Without(pending, 1..n)
  /\ acked' = n /\ highest' = IF n > highest THEN n ELSE highest
  /\ flags' = flags \ {"resizing"}
  /\ UNCHANGED <<role, known, serial, said, listed, plexy>>

\* xdg_toplevel_destroy; the window and what was pending stay.
CloseToplevel ==
  /\ role = "toplevel"
  /\ role' = "xdg_surface"
  /\ UNCHANGED <<flags, known, acked, highest, client, plexy>>

\* xdg_surface_destroy
DestroyXdgSurface ==
  /\ role = "xdg_surface" /\ serial > 0
  /\ role' = "none" /\ pending' = <<>> /\ listed' = {}
  /\ UNCHANGED <<flags, known, serial, said, acked, highest, plexy>>

---------------------------------------------------------------------------
(* Plexy *)

\* What Plexy sends, when it must: a configure with its states.
Announce(states, must) ==
  \E sized \in BOOLEAN :
    \/ /\ Len(events) < MaxQueue
       /\ events' = Append(events, [states |-> states, sized |-> sized])
    \/ ~must /\ UNCHANGED events

\* Plexy grants a request.
Grant ==
  /\ requests # <<>>
  /\ wm' = With(wm, Head(requests)[1], Head(requests)[2])
  /\ requests' = Tail(requests)
  /\ Announce(wm', wm' # wm)
  /\ UNCHANGED <<role, flags, known, acked, highest, client>>

\* The user changes the window.
UserChanges(states) ==
  /\ serial > 0 /\ wm' = states
  /\ Announce(states, TRUE)
  /\ UNCHANGED <<role, flags, known, acked, highest, requests, client>>

\* forward_configure.  Without a size, now or earlier, the states are taken
\* and the client is not told.
ForwardConfigure_Sticky ==
  LET e == Head(events)
  IN
  /\ events # <<>>
  /\ events' = Tail(events)
  /\ flags' = (flags \cap {"fullscreen"}) \cup e.states
  /\ known' = (known \/ e.sized)
  /\ IF known' /\ role = "toplevel" THEN SendUnlisted(flags') ELSE UNCHANGED client
  /\ UNCHANGED <<role, acked, highest, wm, requests>>

ForwardConfigure ==
  LET e == Head(events)
  IN
  /\ events # <<>>
  /\ events' = Tail(events)
  /\ flags' = e.states
  /\ known' = (known \/ e.sized)
  /\ IF known' /\ role = "toplevel" THEN SendUnlisted(flags') ELSE UNCHANGED client
  /\ UNCHANGED <<role, acked, highest, wm, requests>>

ConfigureNext ==
  \/ GetXdgSurface \/ OpenToplevel \/ CloseToplevel \/ DestroyXdgSurface
  \/ \E on \in BOOLEAN : SetMaximized(on) \/ SetFullscreen(on)
  \/ \E n \in 1..MaxSerial : AckConfigure(n)
  \/ Grant \/ ForwardConfigure
  \/ \E states \in SUBSET State : UserChanges(states)

ConfigureSpec == ConfigureInit /\ [][ConfigureNext]_configureVars

---------------------------------------------------------------------------
(* Properties *)

(***************************************************************************)
(* What is pending is what the client has neither acknowledged nor         *)
(* overtaken, in the order it was sent, whatever the order of the          *)
(* acknowledgements and of the serials that are not kept.                  *)
(***************************************************************************)
PendingIsUnanswered ==
  /\ ToSet(pending) = {n \in listed : n > highest}
  /\ \A i, j \in DOMAIN pending : i < j => pending[i] < pending[j]

(***************************************************************************)
(* When requests and events have all arrived, client, surface and Plexy    *)
(* agree whether the window is maximized and fullscreen, however they      *)
(* crossed, once a size is known.  (An acknowledgement clears `resizing'   *)
(* on the surface alone.)                                                  *)
(***************************************************************************)
StatesAgree ==
  role = "toplevel" /\ known /\ requests = <<>> /\ events = <<>> =>
    /\ flags \cap Asked = wm \cap Asked
    /\ said \cap Asked = wm \cap Asked

(***************************************************************************)
(* Bridge, client and Plexy agree on configures: the ones kept are those   *)
(* not acked, through acks that skip or go back, and when nothing is in    *)
(* flight all three have the same states.                                  *)
(***************************************************************************)
ConfigureOK ==
  /\ ConfigureTypeOK /\ PendingIsUnanswered /\ StatesAgree
=============================================================================
