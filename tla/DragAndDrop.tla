----------------------------- MODULE DragAndDrop -----------------------------
(***************************************************************************)
(* Drag and drop (wl_data_device.c): one active source, and the data       *)
(* device of the client under the pointer as its target.                   *)
(*                                                                         *)
(* Left out: a second start_drag during a drag, and a source or device     *)
(* that goes away during one, of which the code forgets neither.           *)
(* A client has at most one device, and offers are not told apart.         *)
(***************************************************************************)
EXTENDS FiniteSets

CONSTANTS
  DragSource,  \* addresses of wl_data_source
  Dropper,     \* clients
  Nowhere      \* no source, no device

ASSUME DragAssumption == Nowhere \notin DragSource \cup Dropper

Action == {"copy", "move", "ask"}

VARIABLES
  active_drag_source,
  target,        \* the client of active_drag_target_device
  dragDevices,   \* clients with a data device
  dragActions,   \* the actions the source offers
  entered,       \* history: devices sent enter, and neither leave nor drop
  chosen         \* history: the action both sides were sent last

dragVars == <<active_drag_source, target, dragDevices, dragActions, entered,
              chosen>>

DragTypeOK ==
  /\ active_drag_source \in DragSource \cup {Nowhere}
  /\ target \in Dropper \cup {Nowhere}
  /\ dragDevices \subseteq Dropper /\ dragActions \subseteq Action
  /\ entered \subseteq dragDevices
  /\ chosen \subseteq Action

DragInit ==
  /\ active_drag_source = Nowhere /\ target = Nowhere
  /\ dragDevices = {} /\ dragActions = {}
  /\ entered = {} /\ chosen = {}

\* data_device_manager_get_data_device
GetDragDevice(c) ==
  /\ c \notin dragDevices /\ dragDevices' = dragDevices \cup {c}
  /\ UNCHANGED <<active_drag_source, target, dragActions, entered, chosen>>

\* data_device_start_drag, after data_source_set_actions
StartDrag(s, actions) ==
  /\ active_drag_source = Nowhere
  /\ active_drag_source' = s /\ target' = Nowhere
  /\ dragActions' = actions
  /\ UNCHANGED <<dragDevices, entered, chosen>>

\* The action sent with an enter
ActionAt(c) ==
  IF c = target \/ c \notin dragDevices THEN chosen
  ELSE IF dragActions = {} \/ "copy" \in dragActions THEN {"copy"}
  ELSE dragActions

\* bridge_data_device_pointer_motion over a surface of c.  The target is a
\* client: its surfaces are not told apart.
Motion_NoLeave(c) ==
  /\ target' = IF c \in dragDevices THEN c ELSE Nowhere
  /\ entered' = entered \cup ({c} \cap dragDevices)
  /\ chosen' = ActionAt(c)

Motion_NoDevice(c) ==
  /\ target' = c
  /\ entered' = (entered \ {target}) \cup {c}
  /\ chosen' = ActionAt(c)

Motion(c) ==
  /\ target' = IF c \in dragDevices THEN c ELSE Nowhere
  /\ entered' = (entered \ {target}) \cup ({c} \cap dragDevices)
  /\ chosen' = ActionAt(c)

PointerMotion(c) ==
  /\ active_drag_source # Nowhere
  /\ Motion(c)
  /\ UNCHANGED <<active_drag_source, dragDevices, dragActions>>

\* bridge_data_device_pointer_button, a release over a surface of c: first
\* a motion, then the drop on the target it leaves, or the end.
Release(c) ==
  /\ active_drag_source # Nowhere
  /\ entered' = (entered \ {target}) \ ({c} \cap dragDevices)
  /\ chosen' = ActionAt(c)
  /\ active_drag_source' = Nowhere /\ target' = Nowhere
  /\ UNCHANGED <<dragDevices, dragActions>>

\* data_offer_set_actions: the action the target prefers, if both have it,
\* or the first of copy, move and ask that both have.
Choice_Unmasked(theirs, preferred) ==
  IF preferred \in theirs THEN {preferred}
  ELSE LET both == dragActions \cap theirs
       IN IF "copy" \in both THEN {"copy"}
          ELSE IF "move" \in both THEN {"move"} ELSE both \cap {"ask"}

Choice(theirs, preferred) ==
  LET both == dragActions \cap theirs
  IN IF preferred \in both THEN {preferred}
     ELSE IF "copy" \in both THEN {"copy"}
     ELSE IF "move" \in both THEN {"move"} ELSE both \cap {"ask"}

SetActions(theirs, preferred) ==
  /\ target # Nowhere
  /\ chosen' = Choice(theirs, preferred)
  /\ UNCHANGED <<active_drag_source, target, dragDevices, dragActions, entered>>

DragNext ==
  \/ \E c \in Dropper : GetDragDevice(c) \/ PointerMotion(c) \/ Release(c)
  \/ \E s \in DragSource, actions \in SUBSET Action : StartDrag(s, actions)
  \/ \E theirs \in SUBSET Action, preferred \in Action : SetActions(theirs, preferred)

DragSpec == DragInit /\ [][DragNext]_dragVars

---------------------------------------------------------------------------
(* One client at a time is inside a drag: every enter is ended by a leave  *)
(* or a drop before the next, and none outlives the drag.                  *)
TargetIsEntered ==
  /\ target = Nowhere => entered = {}
  /\ target # Nowhere => entered = {target} /\ active_drag_source # Nowhere

(* The client that is dropped on does what the source can do; copy stands  *)
(* for a source that named no action.                                      *)
ActionIsOffered ==
  active_drag_source # Nowhere /\ target # Nowhere
    => chosen \subseteq dragActions \/ (dragActions = {} /\ chosen = {"copy"})

(***************************************************************************)
(* The drag is over at most one client, the one that was told so, and the  *)
(* action chosen is one both sides offered.                                *)
(***************************************************************************)
DragOK ==
  /\ DragTypeOK /\ TargetIsEntered /\ ActionIsOffered
=============================================================================
