------------------------------ MODULE TextInput ------------------------------
(***************************************************************************)
(* Text between input methods and the fields they write into               *)
(* (wl_text_input.c, wl_input_method.c, and the injection of text into X11 *)
(* windows of xwm.c).  A text input collects events and applies them at a  *)
(* done; which text input an input method writes to is looked up anew for  *)
(* each request, so focus may move between the text and its done.          *)
(*                                                                         *)
(* Left out: what is written and the tables between characters and keys;   *)
(* surrounding text, purpose and rectangle, which are stored and passed    *)
(* on; popups of input methods, whose requests do nothing.  A Wayland      *)
(* client has one surface: KeyboardSeat has the addresses of surfaces.     *)
(* X11 windows want input and are not override-redirect: XwmFocus has what *)
(* becomes of the focus of the others.                                     *)
(***************************************************************************)
EXTENDS FiniteSets, SequencesExt, Queues

CONSTANTS
  TextField,   \* text_input objects
  TextClient,  \* Wayland clients
  FieldOwner,  \* the client of each text_input
  XField,      \* X11 windows
  XSurface,    \* surfaces of Xwayland, which get windows and lose them
  InputMethod, \* input_method objects
  NoField

ASSUME TextAssumption ==
  /\ FieldOwner \in [TextField -> TextClient]
  /\ XSurface \cap TextClient = {}
  /\ NoField \notin TextClient \cup XSurface \cup XField \cup InputMethod \cup TextField

VARIABLES
  fields,     \* text_input_clients, the newest first
  enabledAt,  \* those enabled
  inField,    \* those whose entered_surface is set
  unfinished, \* those sent something since their last done
  typing,     \* keyboard_focus: a client, a surface of Xwayland or NoField
  unaware,    \* history: those whose client's focus changed untold
  xfocus,     \* focus_window of the X11 window manager
  xmapped,    \* X11 windows that are mapped
  xsurfaces,  \* surfaces of Xwayland that exist
  windowOf,   \* their xwm_window
  focusedX,   \* history: the window `typing' had when it got the focus
  misdirected,\* history: text was typed into another window than that
  methods,    \* input methods that exist
  active,     \* active_input_method
  toldOn,     \* those whose last word was activate
  orphaned    \* history: a text input went without being disabled

textVars == <<fields, enabledAt, inField, unfinished, typing, unaware,
              xfocus, xmapped, xsurfaces, windowOf, focusedX, misdirected,
              methods, active, toldOn, orphaned>>
fieldVars == <<fields, enabledAt, inField, unfinished, unaware>>
methodVars == <<methods, active, toldOn, orphaned>>
pairVars == <<xmapped, xsurfaces, windowOf>>
xVars == <<xfocus, pairVars, misdirected>>

Focusable == TextClient \cup XSurface
Of(c) == {t \in ToSet(fields) : FieldOwner[t] = c}

TextTypeOK ==
  /\ fields \in Seq(TextField) /\ IsInjective(fields)
  /\ enabledAt \subseteq ToSet(fields) /\ unaware \subseteq ToSet(fields)
  /\ {inField, unfinished} \subseteq SUBSET enabledAt
  /\ typing \in Focusable \cup {NoField}
  /\ {xfocus, focusedX} \subseteq XField \cup {NoField}
  /\ xmapped \subseteq XField /\ xsurfaces \subseteq XSurface
  /\ windowOf \in [XSurface -> XField \cup {NoField}] /\ misdirected \in BOOLEAN
  /\ methods \subseteq InputMethod /\ toldOn \subseteq methods
  /\ active \in methods \cup {NoField} /\ orphaned \in BOOLEAN

TextInit ==
  /\ fields = <<>> /\ enabledAt = {} /\ inField = {} /\ unfinished = {}
  /\ typing = NoField /\ unaware = {}
  /\ xfocus = NoField /\ xmapped = {} /\ xsurfaces = {}
  /\ windowOf = [s \in XSurface |-> NoField]
  /\ focusedX = NoField /\ misdirected = FALSE
  /\ methods = {} /\ active = NoField /\ toldOn = {} /\ orphaned = FALSE

---------------------------------------------------------------------------
\* bridge_ime_get_focused_text_input
Receiver ==
  LET mine == Keeping(fields, {t \in enabledAt : FieldOwner[t] = typing})
  IN IF mine = <<>> THEN NoField ELSE Head(mine)

\* bridge_text_input_notify_focus: text_input_send_leave_if_needed for the
\* text inputs of the client that loses the focus, text_input_send_enter_if_needed
\* for those of the one that gets it; each sends done.
FocusTold_NoDone(loser, winner) ==
  LET left == inField \cap Of(loser)
      came == (enabledAt \ inField) \cap Of(winner)
  IN /\ inField' = (inField \ left) \cup came
     /\ UNCHANGED unfinished
     /\ unaware' = unaware \ (left \cup came)

FocusTold(loser, winner) ==
  LET left == inField \cap Of(loser)
      came == (enabledAt \ inField) \cap Of(winner)
  IN /\ inField' = (inField \ left) \cup came
     /\ unfinished' = unfinished \ (left \cup came)
     /\ unaware' = unaware \ (left \cup came)

WindowAt(f) == IF f \in XSurface THEN windowOf[f] ELSE NoField
Present == TextClient \cup xsurfaces

\* forward_focus_in and the press of forward_pointer_button.  The focused
\* window of X11 follows, but for a surface that has no window, or none yet.
FocusMoves_NoXFocus(f) ==
  /\ f \in Present /\ typing # f
  /\ typing' = f /\ FocusTold(typing, f) /\ focusedX' = WindowAt(f)
  /\ UNCHANGED <<fields, enabledAt, xVars, methodVars>>

FocusMoves(f) ==
  /\ f \in Present /\ typing # f
  /\ typing' = f /\ FocusTold(typing, f) /\ focusedX' = WindowAt(f)
  /\ xfocus' = IF WindowAt(f) # NoField THEN WindowAt(f) ELSE xfocus
  /\ UNCHANGED <<fields, enabledAt, pairVars, misdirected, methodVars>>

\* forward_focus_in for the surface that has the focus already
FocusAgain ==
  /\ WindowAt(typing) # NoField
  /\ xfocus' = WindowAt(typing) /\ focusedX' = WindowAt(typing)
  /\ UNCHANGED <<fieldVars, typing, pairVars, misdirected, methodVars>>

\* The focus goes from f, if f has it.
Unfocused(f) ==
  /\ typing' = IF typing = f THEN NoField ELSE typing
  /\ focusedX' = IF typing = f THEN NoField ELSE focusedX

\* forward_focus_out, which may be late: the X focus goes whichever window
\* of X11 it is for.
FocusLeaves(f) ==
  /\ f \in Present /\ Unfocused(f) /\ FocusTold(f, NoField)
  /\ xfocus' = IF WindowAt(f) # NoField THEN NoField ELSE xfocus
  /\ UNCHANGED <<fields, enabledAt, pairVars, misdirected, methodVars>>

\* popup_grab, bridge_raw_pointer_button and bridge_surface_destroy move the
\* focus to a Wayland surface or to none and tell no text input.
FocusSeized(f) ==
  /\ f \in TextClient \cup {NoField} /\ typing # f
  /\ typing' = f /\ focusedX' = NoField
  /\ unaware' = unaware \cup Of(typing) \cup Of(f)
  /\ UNCHANGED <<fields, enabledAt, inField, unfinished, xVars, methodVars>>

---------------------------------------------------------------------------
(* Windows of X11 and surfaces of Xwayland come, find each other and go,   *)
(* each on its own.                                                        *)

XAppears(s) ==
  /\ s \notin xsurfaces /\ xsurfaces' = xsurfaces \cup {s}
  /\ UNCHANGED <<fieldVars, typing, xfocus, xmapped, windowOf, focusedX, misdirected, methodVars>>

\* handle_map_notify
XMaps(x) ==
  /\ x \notin xmapped /\ xmapped' = xmapped \cup {x}
  /\ UNCHANGED <<fieldVars, typing, xfocus, xsurfaces, windowOf, focusedX, misdirected, methodVars>>

\* xwm_bind_surface_window, of a window that has no surface, mapped or not
XPairs(s, x) ==
  /\ s \in xsurfaces /\ windowOf[s] \notin xmapped
  /\ \A r \in XSurface : windowOf[r] # x
  /\ windowOf' = [windowOf EXCEPT ![s] = x]
  /\ UNCHANGED <<fieldVars, typing, xfocus, xmapped, xsurfaces, focusedX, misdirected, methodVars>>

Unpaired(x) == windowOf' = [s \in XSurface |-> IF windowOf[s] = x THEN NoField ELSE windowOf[s]]

\* handle_unmap_notify: the surface stays, with the focus if it has it, and
\* the window keeps that of X11.
XUnmaps(x) ==
  /\ x \in xmapped /\ xmapped' = xmapped \ {x} /\ Unpaired(x)
  /\ UNCHANGED <<fieldVars, typing, xfocus, xsurfaces, focusedX, misdirected, methodVars>>

\* xwm_window_destroy; the id may be taken by another window at once.
XDestroyed(x) ==
  /\ xmapped' = xmapped \ {x} /\ Unpaired(x)
  /\ xfocus' = IF xfocus = x THEN NoField ELSE xfocus
  /\ UNCHANGED <<fieldVars, typing, xsurfaces, focusedX, misdirected, methodVars>>

\* bridge_surface_destroy
XVanishes(s) ==
  /\ s \in xsurfaces /\ xsurfaces' = xsurfaces \ {s} /\ Unfocused(s)
  /\ windowOf' = [windowOf EXCEPT ![s] = NoField]
  /\ UNCHANGED <<fieldVars, xfocus, xmapped, misdirected, methodVars>>

---------------------------------------------------------------------------
(* Requests of the fields *)

GetTextInput(t) ==
  /\ t \notin ToSet(fields) /\ fields' = <<t>> \o fields
  /\ UNCHANGED <<enabledAt, inField, unfinished, unaware, typing, focusedX, xVars, methodVars>>

\* text_input_resource_destroy: the input method is not told.
DestroyTextInput(t) ==
  /\ t \in ToSet(fields) /\ fields' = Without(fields, {t})
  /\ enabledAt' = enabledAt \ {t} /\ inField' = inField \ {t}
  /\ unfinished' = unfinished \ {t} /\ unaware' = unaware \ {t}
  /\ orphaned' = (orphaned \/ t \in enabledAt)
  /\ UNCHANGED <<typing, focusedX, xVars, methods, active, toldOn>>

\* bridge_ime_notify_text_input_state
ActiveTold(on) ==
  toldOn' = IF on THEN toldOn \cup ({active} \ {NoField}) ELSE toldOn \ {active}

EnableField_AnyFocus(t) ==
  /\ t \in ToSet(fields) /\ enabledAt' = enabledAt \cup {t}
  /\ LET came == {t} \ inField
     IN /\ inField' = inField \cup came
        /\ unfinished' = unfinished \ came /\ unaware' = unaware \ came
  /\ ActiveTold(TRUE) /\ orphaned' = FALSE
  /\ UNCHANGED <<fields, typing, focusedX, xVars, methods, active>>

EnableField(t) ==
  /\ t \in ToSet(fields) /\ enabledAt' = enabledAt \cup {t}
  /\ LET came == {t} \cap (Of(typing) \ inField)
     IN /\ inField' = inField \cup came
        /\ unfinished' = unfinished \ came /\ unaware' = unaware \ came
  /\ ActiveTold(TRUE) /\ orphaned' = FALSE
  /\ UNCHANGED <<fields, typing, focusedX, xVars, methods, active>>

\* What was enabled before is not looked at: any client's disable ends it.
DisableField_StaysOn(t) ==
  /\ t \in ToSet(fields) /\ enabledAt' = enabledAt \ {t}
  /\ inField' = inField \ {t} /\ unfinished' = unfinished \ {t} /\ unaware' = unaware \ {t}
  /\ ActiveTold(t \notin inField)
  /\ UNCHANGED <<fields, typing, focusedX, xVars, methods, active, orphaned>>

DisableField(t) ==
  /\ t \in ToSet(fields) /\ enabledAt' = enabledAt \ {t}
  /\ inField' = inField \ {t} /\ unfinished' = unfinished \ {t} /\ unaware' = unaware \ {t}
  /\ ActiveTold(FALSE)
  /\ UNCHANGED <<fields, typing, focusedX, xVars, methods, active, orphaned>>

\* text_input_commit and im_commit: done
Finished(t) == unfinished' = unfinished \ {t}

CommitState(t) ==
  /\ t \in ToSet(fields) /\ Finished(t)
  /\ UNCHANGED <<fields, enabledAt, inField, unaware, typing, focusedX, xVars, methodVars>>

\* bridge_text_input_try_commit_key, of a key that writes or deletes
TypedKey ==
  /\ LET here == Of(typing) \cap enabledAt
     IN /\ inField' = inField \cup here /\ unfinished' = unfinished \ here
        /\ unaware' = unaware \ (here \ inField)
  /\ UNCHANGED <<fields, enabledAt, typing, focusedX, xVars, methodVars>>

---------------------------------------------------------------------------
(* Requests of the input methods; the bridge serves all of them, not only  *)
(* the active one.                                                         *)

\* The new one is not told of a field enabled before it.
GetInputMethod(i) ==
  /\ i \notin methods /\ methods' = methods \cup {i} /\ active' = i
  /\ UNCHANGED <<fieldVars, typing, focusedX, xVars, toldOn, orphaned>>

DestroyInputMethod_StaysActive(i) ==
  /\ i \in methods /\ methods' = methods \ {i} /\ toldOn' = toldOn \ {i}
  /\ UNCHANGED <<fieldVars, typing, focusedX, xVars, active, orphaned>>

DestroyInputMethod(i) ==
  /\ i \in methods /\ methods' = methods \ {i} /\ toldOn' = toldOn \ {i}
  /\ active' = IF active = i THEN NoField ELSE active
  /\ UNCHANGED <<fieldVars, typing, focusedX, xVars, orphaned>>

\* xwm_inject_text, xwm_send_key_event: keys for the focused window of X11,
\* if it is mapped.
Inject ==
  misdirected' = (misdirected \/ /\ typing \in XSurface /\ xfocus \in xmapped
                                 /\ focusedX \notin {xfocus, NoField})

\* im_commit_string and im_delete_surrounding; im_set_preedit_string has no
\* part for X11.
MethodWrites(i) ==
  /\ i \in methods
  /\ IF Receiver # NoField
     THEN unfinished' = unfinished \cup {Receiver} /\ UNCHANGED misdirected
     ELSE Inject /\ UNCHANGED unfinished
  /\ UNCHANGED <<fields, enabledAt, inField, unaware, typing, focusedX, xfocus, pairVars, methodVars>>

\* im_commit
MethodCommits(i) ==
  /\ i \in methods /\ Receiver # NoField /\ Finished(Receiver)
  /\ UNCHANGED <<fields, enabledAt, inField, unaware, typing, focusedX, xVars, methodVars>>

TextNext ==
  \/ \E f \in Focusable : FocusMoves(f) \/ FocusLeaves(f)
  \/ \E f \in Focusable \cup {NoField} : FocusSeized(f)
  \/ FocusAgain \/ TypedKey
  \/ \E s \in XSurface : XAppears(s) \/ XVanishes(s) \/ \E x \in XField : XPairs(s, x)
  \/ \E x \in XField : XMaps(x) \/ XUnmaps(x) \/ XDestroyed(x)
  \/ \E t \in TextField :
       GetTextInput(t) \/ DestroyTextInput(t) \/ EnableField(t) \/ DisableField(t) \/ CommitState(t)
  \/ \E i \in InputMethod :
       GetInputMethod(i) \/ DestroyInputMethod(i) \/ MethodWrites(i) \/ MethodCommits(i)

TextSpec == TextInit /\ [][TextNext]_textVars

---------------------------------------------------------------------------
\* SafetyProperty: what an input method wrote and has not finished is with a
\* field that the next done can still reach: nothing stays behind, to be
\* applied by some later done, in a field that was told it lost the focus.
NothingLeftUnfinished ==
  \A t \in unfinished : FieldOwner[t] = typing \/ t \in unaware

\* SafetyProperty: a field that was told it has the focus has it, or its
\* client lost it in one of the ways that tell no text input.
EnteredHasFocus ==
  \A t \in inField : FieldOwner[t] = typing \/ t \in unaware

\* SafetyProperty: while a surface of Xwayland has the focus that had a window
\* when it got it, text is typed into that window and no other, although the
\* keys go where the window manager set its own focus and late focus-outs,
\* unmaps and new surfaces come between.  A surface without a window leaves
\* the X11 focus where it was: there text does go to another window.
InjectedIntoFocus == ~misdirected

\* SafetyProperty: an input method that is on has a field to write to, unless
\* one went without being disabled.
OnServesSomeone == active \in toldOn => enabledAt # {} \/ orphaned

(***************************************************************************)
(* Every change a text input is told of ends with done, no text input is   *)
(* inside a surface without the focus, text for a surface that came to the *)
(* focus with an X11 window is injected into that window alone, and the    *)
(* input method is on only for a text input that is enabled.               *)
(***************************************************************************)
TextOK ==
  /\ TextTypeOK /\ NothingLeftUnfinished /\ EnteredHasFocus
  /\ InjectedIntoFocus /\ OnServesSomeone
=============================================================================
