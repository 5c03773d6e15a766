---------------------------- MODULE KeyboardSeat ----------------------------
(***************************************************************************)
(* Keyboard focus: what moves it (focus events of Plexy, presses, raw      *)
(* presses, popup grabs, activation), who is told (the wl_keyboard of the  *)
(* client and its text input), and what takes it away (popups, surfaces    *)
(* and clients that go).  event_forward.c, raw_input.c, xdg_shell.c,       *)
(* wl_seat.c, wl_text_input.c, wl_xdg_activation.c; with them the session  *)
(* lock of wl_session_lock.c, under which presses and keys are dropped.    *)
(*                                                                         *)
(* There are five ways to move the focus, each written out by hand in the  *)
(* code, and they do not tell the same parties.                            *)
(*                                                                         *)
(* Left out: modifiers and keymap, raising windows, the configure events   *)
(* that follow a focus, the X focus, and the keys themselves.  A client    *)
(* has at most one wl_keyboard and one text input.  Clients destroy a      *)
(* popup before its surface and before its parent, as xdg-shell asks; one  *)
(* that dies does not.                                                     *)
(***************************************************************************)
EXTENDS FiniteSets

CONSTANTS
  Client,     \* clients of the bridge
  Surface,    \* addresses of surfaces
  Owner,      \* the client of each surface
  Popup,      \* surfaces clients give the popup role
  Parent,     \* the parent of each popup, None for the other surfaces
  X11,        \* surfaces of X11 windows
  Passive,    \* X11 windows a press does not focus: transients and menus
  Menu,       \* X11 windows that never take the focus
  Typing,     \* clients with a text input
  Plugs,      \* clients that release their wl_keyboard and get another
  Mortal,     \* clients that die; others come with the same addresses
  Lock,       \* session lock objects
  LockClient, \* their client
  None

ASSUME KeyboardAssumption ==
  /\ Owner \in [Surface -> Client]
  /\ Popup \subseteq Surface /\ X11 \subseteq Surface \ Popup
  /\ Parent \in [Surface -> Surface \cup {None}]
  /\ \A s \in Surface : s \in Popup <=> Parent[s] # None
  /\ Passive \subseteq X11 /\ Menu \subseteq Passive
  /\ Typing \subseteq Client /\ Plugs \subseteq Client /\ Mortal \subseteq Client
  /\ LockClient \in Client
  /\ None \notin Surface \cup Client

VARIABLES
  surfaces,  \* surfaces that exist
  popups,    \* those that have an xdg_popup and a window
  grabbed,   \* popups that asked for a grab
  keyboards, \* clients that have a wl_keyboard
  enabled,   \* clients whose text input is enabled
  kb,        \* the focus and what was told about it, see Seats
  locks,     \* lock objects that exist
  locked     \* session_locked

vars == <<surfaces, popups, grabbed, keyboards, enabled, kb, locks, locked>>

OrNone(S) == S \cup {None}

Seats ==
  [focus    : OrNone(Surface),              \* keyboard_focus
   told     : SUBSET Surface,               \* enter sent, leave not
   late     : SUBSET Client,                \* got their keyboard after the focus
   at       : [Client -> OrNone(Surface)],  \* entered_surface of the text input
   unaware  : SUBSET Client,                \* whose text input missed a change
   grab     : OrNone(Popup),                \* grabbed_popup
   grabDied : BOOLEAN]                      \* its client is gone

TypeOK ==
  /\ surfaces \subseteq Surface
  /\ popups \subseteq Popup /\ grabbed \subseteq popups
  /\ keyboards \subseteq Client /\ enabled \subseteq Typing
  /\ kb \in Seats
  /\ locks \subseteq Lock /\ locked \in BOOLEAN

Init ==
  /\ surfaces = Surface
  /\ popups = {} /\ grabbed = {}
  /\ keyboards = Client \ Plugs
  /\ enabled = {}
  /\ kb = [focus |-> None, told |-> {}, late |-> {},
           at |-> [c \in Client |-> None], unaware |-> {},
           grab |-> None, grabDied |-> FALSE]
  /\ locks = {} /\ locked = FALSE

---------------------------------------------------------------------------
(* What is told *)

\* wl_keyboard.enter and leave, to the keyboards of the client
Entered(k, s) ==
  IF Owner[s] \in keyboards
  THEN [k EXCEPT !.told = @ \cup {s}, !.late = @ \ {Owner[s]}]
  ELSE k

Left(k, s) == IF s = None THEN k ELSE [k EXCEPT !.told = @ \ {s}]

\* bridge_text_input_notify_focus
TextEntered(k, s) ==
  LET c == Owner[s]
  IN IF c \notin enabled \/ k.at[c] = s THEN k
     ELSE [k EXCEPT !.at[c] = s, !.unaware = @ \ {c}]

TextLeft(k, s) ==
  IF s # None /\ k.at[Owner[s]] = s THEN [k EXCEPT !.at[Owner[s]] = None] ELSE k

\* The focus is taken without a word to the text input.
Unseen(k, s) ==
  IF s # None /\ k.at[Owner[s]] = s
  THEN [k EXCEPT !.unaware = @ \cup {Owner[s]}] ELSE k

---------------------------------------------------------------------------
(* The ways to move the focus *)

\* forward_focus_in
FocusedIn_TextStays(k, s) ==
  IF s \in Menu \/ s \in popups \/ k.focus = s THEN k
  ELSE Entered(TextEntered([Left(k, k.focus) EXCEPT !.focus = s], s), s)

FocusedIn(k, s) ==
  IF s \in Menu \/ s \in popups \/ k.focus = s THEN k
  ELSE Entered(TextEntered([Left(TextLeft(k, k.focus), k.focus) EXCEPT !.focus = s],
                           s), s)

NoGrab(k) == [k EXCEPT !.grab = None, !.grabDied = FALSE]

\* forward_focus_out
FocusedOut(k, s) ==
  LET q == [k EXCEPT !.focus = IF @ = s THEN None ELSE @]
  IN Left(TextLeft(IF s \in popups /\ q.grab = s THEN NoGrab(q) ELSE q, s), s)

\* The keyboard part of forward_pointer_button
Pressed(k, s) ==
  IF s \in popups \/ s \in Passive \/ k.focus = s THEN k
  ELSE Entered(TextEntered([Left(TextLeft(k, k.focus), k.focus) EXCEPT !.focus = s],
                           s), s)

\* popup_grab, and bridge_raw_pointer_button with the left button
Seized_NoLeave(k, s) == Entered([Unseen(k, k.focus) EXCEPT !.focus = s], s)

Seized_NoEnter(k, s) == [Left(Unseen(k, k.focus), k.focus) EXCEPT !.focus = s]

Seized(k, s) ==
  Entered([Left(Unseen(k, k.focus), k.focus) EXCEPT !.focus = s], s)

\* A press outside the grabbing popup and its children dismisses it.
Dismissed(k, s) ==
  IF k.grab = None \/ k.grab \in {s, Parent[s]} THEN k
  ELSE NoGrab(k)

---------------------------------------------------------------------------
(* Events *)

NoRequest == UNCHANGED <<surfaces, popups, grabbed, keyboards, enabled, locks, locked>>

\* A surface that gets events has a window.
Window(s) == s \in surfaces /\ (s \in Popup => s \in popups)

FocusIn(s) == Window(s) /\ kb' = FocusedIn(kb, s) /\ NoRequest

FocusOut(s) == Window(s) /\ kb' = FocusedOut(kb, s) /\ NoRequest

\* A press on the window of s.  There is no target outside its input region
\* or when raw mode is on.
Press(s, hit) ==
  /\ Window(s) /\ ~locked
  /\ kb' = IF hit THEN Pressed(Dismissed(kb, s), s) ELSE Dismissed(kb, s)
  /\ NoRequest

\* Raw presses go to the surface with the pointer focus, locked or not.
RawPress(s) ==
  /\ s \in surfaces \ X11 /\ kb.focus # s
  /\ kb' = Seized(kb, s)
  /\ NoRequest

\* forward_key: bridge_text_input_try_commit_key enters the text input late.
Key(s) ==
  /\ Window(s) /\ ~locked /\ kb.focus = s /\ s \notin X11
  /\ kb' = TextEntered(kb, s)
  /\ NoRequest

---------------------------------------------------------------------------
(* Requests *)

\* activation_activate, with a token that is found
Activate(s) ==
  /\ Window(s)
  /\ kb' = FocusedIn(IF kb.focus \in {None, s} THEN kb ELSE FocusedOut(kb, kb.focus), s)
  /\ NoRequest

\* xdg_surface_get_popup and the commit that maps it
GetPopup(p) ==
  /\ p \in (Popup \cap surfaces) \ popups /\ Window(Parent[p])
  /\ popups' = popups \cup {p}
  /\ UNCHANGED <<surfaces, grabbed, keyboards, enabled, kb, locks, locked>>

\* popup_grab
Grab_NoPopup(p) ==
  /\ p \in Popup \cap surfaces
  /\ grabbed' = grabbed \cup {p}
  /\ kb' = [Seized(kb, p) EXCEPT !.grab = p, !.grabDied = FALSE]
  /\ UNCHANGED <<surfaces, popups, keyboards, enabled, locks, locked>>

Grab(p) ==
  /\ p \in popups
  /\ grabbed' = grabbed \cup {p}
  /\ kb' = [Seized(kb, p) EXCEPT !.grab = p, !.grabDied = FALSE]
  /\ UNCHANGED <<surfaces, popups, keyboards, enabled, locks, locked>>

\* popup_destroy: the parent gets the focus back when it is no popup itself.
PopupDestroy_KeepsGrab(p) ==
  /\ p \in popups /\ \A q \in popups : Parent[q] # p
  /\ popups' = popups \ {p} /\ grabbed' = grabbed \ {p}
  /\ kb' = IF kb.grab = p /\ p \in grabbed THEN FocusedIn(kb, Parent[p]) ELSE kb
  /\ UNCHANGED <<surfaces, keyboards, enabled, locks, locked>>

PopupDestroy(p) ==
  /\ p \in popups /\ \A q \in popups : Parent[q] # p
  /\ popups' = popups \ {p} /\ grabbed' = grabbed \ {p}
  /\ kb' = IF kb.grab # p THEN kb
           ELSE IF p \in grabbed /\ Window(Parent[p])
           THEN FocusedIn(NoGrab(kb), Parent[p])
           ELSE NoGrab(kb)
  /\ UNCHANGED <<surfaces, keyboards, enabled, locks, locked>>

\* seat_get_keyboard: no enter, also when the focus is on the client.
GetKeyboard(c) ==
  /\ c \in Plugs \ keyboards
  /\ keyboards' = keyboards \cup {c}
  /\ kb' = [kb EXCEPT !.late = IF kb.focus # None /\ Owner[kb.focus] = c
                               THEN @ \cup {c} ELSE @]
  /\ UNCHANGED <<surfaces, popups, grabbed, enabled, locks, locked>>

\* keyboard_resource_destroy
ReleaseKeyboard(c) ==
  /\ c \in Plugs \cap keyboards
  /\ keyboards' = keyboards \ {c}
  /\ kb' = [kb EXCEPT !.told = {s \in @ : Owner[s] # c}, !.late = @ \ {c}]
  /\ UNCHANGED <<surfaces, popups, grabbed, enabled, locks, locked>>

\* text_input_enable
Enable(c) ==
  /\ c \in Typing
  /\ enabled' = enabled \cup {c}
  /\ kb' = IF kb.focus = None \/ Owner[kb.focus] # c \/ kb.at[c] = kb.focus THEN kb
           ELSE [kb EXCEPT !.at[c] = kb.focus, !.unaware = @ \ {c}]
  /\ UNCHANGED <<surfaces, popups, grabbed, keyboards, locks, locked>>

\* text_input_disable
Disable(c) ==
  /\ c \in Typing
  /\ enabled' = enabled \ {c}
  /\ kb' = [kb EXCEPT !.at[c] = None, !.unaware = @ \ {c}]
  /\ UNCHANGED <<surfaces, popups, grabbed, keyboards, locks, locked>>

\* bridge_surface_destroy; the text input keeps the surface.
DestroySurface_KeepsFocus(s) ==
  /\ s \in surfaces \ (popups \cup X11) /\ \A q \in popups : Parent[q] # s
  /\ surfaces' = surfaces \ {s}
  /\ kb' = [Unseen(kb, s) EXCEPT !.told = @ \ {s}]
  /\ UNCHANGED <<popups, grabbed, keyboards, enabled, locks, locked>>

DestroySurface(s) ==
  /\ s \in surfaces \ (popups \cup X11) /\ \A q \in popups : Parent[q] # s
  /\ surfaces' = surfaces \ {s}
  /\ kb' = [Unseen(kb, s) EXCEPT !.focus = IF @ = s THEN None ELSE @,
                                 !.told = @ \ {s}]
  /\ UNCHANGED <<popups, grabbed, keyboards, enabled, locks, locked>>

\* bridge_surface_create
CreateSurface(s) ==
  /\ s \in Surface \ surfaces
  /\ surfaces' = surfaces \cup {s}
  /\ UNCHANGED <<popups, grabbed, keyboards, enabled, kb, locks, locked>>

---------------------------------------------------------------------------
(* Session lock *)

\* manager_lock: any number of locks is granted.
LockSession(l) ==
  /\ l \notin locks
  /\ locks' = locks \cup {l} /\ locked' = TRUE
  /\ UNCHANGED <<surfaces, popups, grabbed, keyboards, enabled, kb>>

\* lock_unlock_and_destroy, and lock_destroy, which unlocks as well
Unlock_Destroyed(l) ==
  /\ l \in locks
  /\ locks' = locks \ {l} /\ UNCHANGED locked
  /\ UNCHANGED <<surfaces, popups, grabbed, keyboards, enabled, kb>>

Unlock(l) ==
  /\ l \in locks
  /\ locks' = locks \ {l} /\ locked' = FALSE
  /\ UNCHANGED <<surfaces, popups, grabbed, keyboards, enabled, kb>>

---------------------------------------------------------------------------
(* A client dies: libwayland destroys its resources one by one, surfaces    *)
(* before their popups, and no other handler comes in between.  Nothing     *)
(* clears grabbed_popup then.                                               *)
ClientGone(c) ==
  LET mine == {s \in Surface : Owner[s] = c}
  IN
  /\ c \in Mortal
  /\ surfaces' = surfaces \ mine
  /\ popups' = popups \ mine /\ grabbed' = grabbed \ mine
  /\ keyboards' = keyboards \ (Plugs \cap {c})
  /\ enabled' = enabled \ {c}
  /\ kb' = [kb EXCEPT !.focus = IF @ \in mine THEN None ELSE @,
                      !.told = @ \ mine, !.late = @ \ {c},
                      !.at[c] = None, !.unaware = @ \ {c},
                      !.grabDied = @ \/ kb.grab \in mine]
  /\ IF c = LockClient /\ locks # {} THEN locks' = {} /\ locked' = FALSE
     ELSE UNCHANGED <<locks, locked>>

Next ==
  \/ \E s \in Surface :
       \/ FocusIn(s) \/ FocusOut(s) \/ RawPress(s) \/ Key(s) \/ Activate(s)
       \/ \E hit \in BOOLEAN : Press(s, hit)
       \/ GetPopup(s) \/ Grab(s) \/ PopupDestroy(s)
       \/ CreateSurface(s) \/ DestroySurface(s)
  \/ \E c \in Client :
       \/ GetKeyboard(c) \/ ReleaseKeyboard(c) \/ Enable(c) \/ Disable(c)
       \/ ClientGone(c)
  \/ \E l \in Lock : LockSession(l) \/ Unlock(l)

Spec == Init /\ [][Next]_vars

---------------------------------------------------------------------------
(* Properties *)

(***************************************************************************)
(* No client is left with the keyboard: by whichever of the five ways the  *)
(* focus moved, the one surface that was sent an enter and no leave is the *)
(* one that has the focus.                                                 *)
(***************************************************************************)
OneTold == kb.told \subseteq {kb.focus}

(***************************************************************************)
(* Keys follow an enter: when the client of the focus has a keyboard, that *)
(* keyboard was sent an enter for the focus, unless the client asked for   *)
(* it only afterwards.                                                     *)
(***************************************************************************)
EnterBeforeKeys ==
  kb.focus # None /\ Owner[kb.focus] \in keyboards \ kb.late => kb.focus \in kb.told

\* The focus is on a surface that exists, through the destruction of
\* popups, surfaces and clients, and never on an X11 menu.
FocusIsLive == kb.focus \in OrNone(surfaces \ Menu)

\* grabbed_popup is a popup that is open, unless it died with its client.
GrabIsOpen == kb.grab \in OrNone(popups) \/ kb.grabDied

(***************************************************************************)
(* A text input that is entered is entered on the focus, except where a    *)
(* grab, a raw press or a destruction took the focus from it, none of      *)
(* which tells text inputs.                                                *)
(***************************************************************************)
TextFollows == \A c \in Client \ kb.unaware : kb.at[c] \in {None, kb.focus}

\* The session is locked only while some client holds a lock object that
\* unlocks it: nobody is locked out, whatever the order in which several
\* locks are taken and released, and when their client dies.
NoLockout == locked => locks # {}

(***************************************************************************)
(* The keyboard is at one client: keys and enters pair up through seizure  *)
(* by popups, keyboards that come late and surfaces and clients that die;  *)
(* the grab is of a popup that is open, text input follows the focus, and  *)
(* a locked session has a lock that can end it.                            *)
(***************************************************************************)
KeyboardOK ==
  /\ TypeOK /\ OneTold /\ EnterBeforeKeys /\ FocusIsLive /\ GrabIsOpen
  /\ TextFollows /\ NoLockout
===========================================================================
