---------------------------- MODULE XwmSelections ----------------------------
(***************************************************************************)
(* CLIPBOARD and PRIMARY between X11 and the bridge (xwm.c).  The window   *)
(* manager claims a selection when a Wayland client sets a text, fetches   *)
(* the text when an X11 application claims it, and then claims it itself.  *)
(* What the X server says of the owners reaches it later, through a queue. *)
(*                                                                         *)
(* A request of the window manager is served when it is sent: the server   *)
(* keeps their order.  The chunks of an INCR transfer are one step, its    *)
(* end.  A text is its number, in the order the texts were set: a copy of  *)
(* an application gets it when the server sees the claim.                  *)
(***************************************************************************)
EXTENDS Naturals, Sequences

CONSTANTS
  MaxEvents, \* bound on the events the window manager has not read
  MaxTexts   \* bound on the texts set in all

ASSUME XwmSelectionAssumption == MaxEvents \in Nat \ {0} /\ MaxTexts \in Nat

Selection == {"clipboard", "primary"}
NoText == 0
Copy == 1..MaxTexts
Text == 0..MaxTexts

VARIABLES
  xowner,   \* the owner the X server knows: the manager, an application, none
  copy,     \* what the last application to claim the selection has copied
  xevents,  \* events sent to the manager and not yet read, oldest first
  claimed,  \* clipboard_owner and primary_owner
  hasText,  \* external_selection_active and external_primary_active
  xtext,    \* external_selection_text and external_primary_text
  owed,     \* conversions the application with a copy has yet to answer
  incr,     \* the INCR transfer under way, if any
  texts,    \* history: how many texts were set in all
  newest,   \* history: the text set last, for each selection
  xlost     \* history: the newest text was refused, cut off or overridden

xbridgeVars == <<claimed, hasText, xtext, incr>>
xhistoryVars == <<texts, newest, xlost>>
xselectionVars == <<xowner, copy, xevents, xbridgeVars, owed, xhistoryVars>>

XEvent == [kind : {"app", "none", "request", "text", "incr", "refused"},
           of : Selection, text : Text]
Transfer == [of : Selection \cup {"none"}, text : Text]

XselectionTypeOK ==
  /\ xowner \in [Selection -> {"manager", "app", "none"}]
  /\ copy \in [Selection -> Text]
  /\ xevents \in Seq(XEvent) /\ Len(xevents) <= MaxEvents
  /\ claimed \in [Selection -> BOOLEAN] /\ hasText \in [Selection -> BOOLEAN]
  /\ xtext \in [Selection -> Text] /\ newest \in [Selection -> Text]
  /\ owed \in [Selection -> [Copy -> Nat]]
  /\ incr \in Transfer /\ texts \in Text
  /\ xlost \in [Selection -> BOOLEAN]

XselectionInit ==
  /\ xowner = [s \in Selection |-> "none"] /\ copy = [s \in Selection |-> NoText]
  /\ xevents = <<>>
  /\ claimed = [s \in Selection |-> FALSE] /\ hasText = [s \in Selection |-> FALSE]
  /\ xtext = [s \in Selection |-> NoText] /\ newest = [s \in Selection |-> NoText]
  /\ owed = [s \in Selection |-> [n \in Copy |-> 0]]
  /\ incr = [of |-> "none", text |-> NoText] /\ texts = 0
  /\ xlost = [s \in Selection |-> FALSE]

---------------------------------------------------------------------------
Event(kind, s, n) == [kind |-> kind, of |-> s, text |-> n]
Told(kind, s, n) == \E i \in DOMAIN xevents : xevents[i] = Event(kind, s, n)
Room == Len(xevents) < MaxEvents

\* A text is set: it is the newest of s.
Sets(s) ==
  /\ texts < MaxTexts /\ texts' = texts + 1
  /\ newest' = [newest EXCEPT ![s] = texts + 1]

\* xwm_on_wayland_clipboard_change and xwm_on_wayland_primary_change, at a
\* change of the text of s: an empty text claims nothing and gives up
\* nothing.  The manager's own claims come back to it as events it ignores.
TextIs(s, n, there) ==
  /\ xtext' = [xtext EXCEPT ![s] = n] /\ hasText' = [hasText EXCEPT ![s] = there]
  /\ xowner' = [xowner EXCEPT ![s] = IF there THEN "manager" ELSE @]
  /\ claimed' = [claimed EXCEPT ![s] = there \/ @]

\* A Wayland client or Plexy sets the clipboard.  The primary selection of
\* Wayland goes to the clipboard too, as in Selections.
WaylandText(there) ==
  /\ Sets("clipboard") /\ TextIs("clipboard", texts + 1, there)
  /\ xlost' = [xlost EXCEPT !["clipboard"] = FALSE]
  /\ UNCHANGED <<copy, xevents, owed, incr>>

---------------------------------------------------------------------------
(* X11 applications *)

AppClaims(s) ==
  /\ Room /\ Sets(s)
  /\ xowner' = [xowner EXCEPT ![s] = "app"] /\ copy' = [copy EXCEPT ![s] = texts + 1]
  /\ xevents' = Append(xevents, Event("app", s, texts + 1))
  /\ xlost' = [xlost EXCEPT ![s] = FALSE]
  /\ UNCHANGED <<xbridgeVars, owed>>

\* A copy the manager has not got by then cannot be had for sure.
AppLeaves(s) ==
  /\ Room /\ xowner[s] = "app"
  /\ xowner' = [xowner EXCEPT ![s] = "none"]
  /\ xevents' = Append(xevents, Event("none", s, NoText))
  /\ xlost' = [xlost EXCEPT ![s] = xtext[s] # newest[s] \/ @]
  /\ UNCHANGED <<copy, xbridgeVars, owed, texts, newest>>

\* It answers a conversion: with the text, with INCR, or with nothing.
AppAnswers(s, n, kind) ==
  /\ Room /\ owed[s][n] > 0
  /\ owed' = [owed EXCEPT ![s][n] = @ - 1]
  /\ xevents' = Append(xevents, Event(kind, s, n))
  /\ UNCHANGED <<xowner, copy, xbridgeVars, xhistoryVars>>

---------------------------------------------------------------------------
(* The window manager reads its events *)

Reads(kind, s, n) == xevents # <<>> /\ Head(xevents) = Event(kind, s, n)

\* The server hands a conversion to whoever has the selection by now.
Converts(s) ==
  \/ /\ xowner[s] = "app"
     /\ owed' = [owed EXCEPT ![s][copy[s]] = @ + 1] /\ xevents' = Tail(xevents)
  \/ /\ xowner[s] = "manager"
     /\ xevents' = Append(Tail(xevents), Event("request", s, NoText)) /\ UNCHANGED owed
  \/ /\ xowner[s] = "none"
     /\ xevents' = Append(Tail(xevents), Event("refused", s, NoText)) /\ UNCHANGED owed

\* handle_xfixes_selection_notify: an application has s.
OwnerChanged_StillOurs(s, n) ==
  /\ Reads("app", s, n)
  /\ Converts(s)
  /\ UNCHANGED <<xowner, copy, xbridgeVars, xhistoryVars>>

OwnerChanged_NotAsked(s, n) ==
  /\ Reads("app", s, n)
  /\ claimed' = [claimed EXCEPT ![s] = FALSE]
  /\ xevents' = Tail(xevents)
  /\ UNCHANGED <<xowner, copy, hasText, xtext, owed, incr, xhistoryVars>>

OwnerChanged(s, n) ==
  /\ Reads("app", s, n)
  /\ claimed' = [claimed EXCEPT ![s] = FALSE]
  /\ Converts(s)
  /\ UNCHANGED <<xowner, copy, hasText, xtext, incr, xhistoryVars>>

\* handle_xfixes_selection_notify: nobody has s.
OwnerGone(s) ==
  /\ Reads("none", s, NoText)
  /\ claimed' = [claimed EXCEPT ![s] = FALSE]
  /\ xevents' = Tail(xevents)
  /\ UNCHANGED <<xowner, copy, hasText, xtext, owed, incr, xhistoryVars>>

\* handle_selection_request, of the manager to itself
SelectionRequest(s) ==
  /\ Reads("request", s, NoText)
  /\ xevents' = Append(Tail(xevents),
                       IF claimed[s] /\ hasText[s] THEN Event("text", s, xtext[s])
                       ELSE Event("refused", s, NoText))
  /\ UNCHANGED <<xowner, copy, xbridgeVars, owed, xhistoryVars>>

\* handle_selection_notify with the text: the listeners claim the selection
\* for it, also when an application has claimed it for a newer one since.
SelectionNotify_ToTheClipboard(s, n) ==
  /\ Reads("text", s, n)
  /\ xevents' = Tail(xevents) /\ TextIs("clipboard", n, TRUE)
  /\ xlost' = [xlost EXCEPT !["clipboard"] = n # newest["clipboard"]]
  /\ UNCHANGED <<copy, owed, incr, texts, newest>>

SelectionNotify(s, n) ==
  /\ Reads("text", s, n)
  /\ xevents' = Tail(xevents) /\ TextIs(s, n, TRUE)
  /\ xlost' = [xlost EXCEPT ![s] = n # newest[s]]
  /\ UNCHANGED <<copy, owed, incr, texts, newest>>

\* handle_selection_notify without a property, or with an empty one
SelectionRefused(s, n) ==
  /\ Reads("refused", s, n)
  /\ xevents' = Tail(xevents)
  /\ xlost' = [xlost EXCEPT ![s] = n = newest[s] \/ @]
  /\ UNCHANGED <<xowner, copy, xbridgeVars, owed, texts, newest>>

\* handle_selection_notify with INCR: there is one buffer, and a transfer
\* under way is dropped for the new one.
SelectionIncr(s, n) ==
  /\ Reads("incr", s, n)
  /\ xevents' = Tail(xevents) /\ incr' = [of |-> s, text |-> n]
  /\ xlost' = [r \in Selection |->
                xlost[r] \/ (incr # incr' /\ incr = [of |-> r, text |-> newest[r]])]
  /\ UNCHANGED <<xowner, copy, claimed, hasText, xtext, owed, texts, newest>>

\* handle_property_notify, the end of INCR: whatever was transferred is the
\* clipboard.  A transfer may also be empty or run out of memory.
IncrEnds(there) ==
  /\ incr.of # "none"
  /\ incr' = [of |-> "none", text |-> NoText]
  /\ IF there THEN TextIs("clipboard", incr.text, TRUE)
     ELSE UNCHANGED <<hasText, xtext, xowner, claimed>>
  /\ xlost' = [r \in Selection |->
                IF there /\ r = "clipboard" THEN incr.text # newest[r]
                ELSE xlost[r] \/ incr = [of |-> r, text |-> newest[r]]]
  /\ UNCHANGED <<copy, xevents, owed, texts, newest>>

XselectionNext ==
  \/ \E there \in BOOLEAN : WaylandText(there) \/ IncrEnds(there)
  \/ \E s \in Selection :
       \/ AppClaims(s) \/ AppLeaves(s) \/ OwnerGone(s) \/ SelectionRequest(s)
       \/ \E n \in Copy, kind \in {"text", "incr", "refused"} : AppAnswers(s, n, kind)
       \/ \E n \in Text :
            \/ OwnerChanged(s, n) \/ SelectionNotify(s, n)
            \/ SelectionRefused(s, n) \/ SelectionIncr(s, n)

XselectionSpec == XselectionInit /\ [][XselectionNext]_xselectionVars

---------------------------------------------------------------------------
(* The manager answers for a selection only while the server says it has   *)
(* it, or the news that it lost it is still unread.                        *)
ClaimIsHonest ==
  \A s \in Selection :
    claimed[s] => \/ xowner[s] = "manager"
                  \/ \E n \in Text : Told("app", s, n) \/ Told("none", s, n)

\* A text is on its way to the bridge: the news of it is unread, an answer
\* is owed, unread or being transferred.
Coming(s, n) ==
  \/ \E kind \in {"app", "text", "incr", "refused"} : Told(kind, s, n)
  \/ n \in Copy /\ owed[s][n] > 0
  \/ incr = [of |-> s, text |-> n]

(* What was copied last, in Wayland or in X11, is what the bridge has, or  *)
(* it is on its way.  Lost, and recorded as such, is a copy that the       *)
(* application refused or left before it was fetched, one whose INCR       *)
(* transfer another cut off or whose PRIMARY was filed under CLIPBOARD,    *)
(* and one the manager's own claim for an older text has overridden.       *)
NewestIsHeld ==
  \A s \in Selection : xlost[s] \/ xtext[s] = newest[s] \/ Coming(s, newest[s])

(***************************************************************************)
(* The bridge answers for an X11 selection only while the X server says    *)
(* so, and has the text set last once the queue is read, unless that text  *)
(* was lost in one of the ways recorded.                                   *)
(***************************************************************************)
XselectionOK ==
  /\ XselectionTypeOK /\ ClaimIsHonest /\ NewestIsHeld
=============================================================================
