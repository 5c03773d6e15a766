----------------------------- MODULE Positioner -----------------------------
(***************************************************************************)
(* Where a popup goes: the xdg_positioner a client fills in and the        *)
(* position computed from it when a popup is made or repositioned          *)
(* (xdg_shell.c).  Constraint adjustment, reactivity and the parent's size *)
(* are stored by the code and never read, and left out.                    *)
(*                                                                         *)
(* Integer division is C's, which rounds toward zero.  Overflow of int32   *)
(* is left out: coordinates are small.                                     *)
(***************************************************************************)
EXTENDS Integers

CONSTANTS
  Length, \* sizes and anchor sizes clients set
  Coord,  \* anchor positions and offsets clients set
  NoPopup

ASSUME PopupAssumption == Length \subseteq Int /\ Coord \subseteq Int

VARIABLES
  pos,   \* the positioner
  popup, \* the size of the popup, or NoPopup
  at     \* its position, NoPopup once the positioner has changed again

popupVars == <<pos, popup, at>>

Edge == {"none", "top", "bottom", "left", "right", "top_left", "bottom_left",
         "top_right", "bottom_right"}

Half(n) == IF n < 0 THEN -((-n) \div 2) ELSE n \div 2

PopupInit ==
  /\ pos = [w |-> 0, h |-> 0, x |-> 0, y |-> 0, aw |-> 0, ah |-> 0,
            anchor |-> "none", gravity |-> "none", dx |-> 0, dy |-> 0]
  /\ popup = NoPopup /\ at = NoPopup

---------------------------------------------------------------------------
Changed == at' = NoPopup /\ UNCHANGED popup

\* positioner_set_size
SetSize(w, h) == pos' = [pos EXCEPT !.w = w, !.h = h] /\ Changed

\* positioner_set_anchor_rect
SetAnchorRect(x, y, w, h) ==
  pos' = [pos EXCEPT !.x = x, !.y = y, !.aw = w, !.ah = h] /\ Changed

\* positioner_set_anchor, positioner_set_gravity
SetAnchor(e) == pos' = [pos EXCEPT !.anchor = e] /\ Changed

SetGravity(e) == pos' = [pos EXCEPT !.gravity = e] /\ Changed

\* positioner_set_offset
SetOffset(x, y) == pos' = [pos EXCEPT !.dx = x, !.dy = y] /\ Changed

\* positioner_calculate_position: the switch over the anchor
AnchorPoint(p) ==
  CASE p.anchor = "top"          -> <<p.x + Half(p.aw), p.y>>
    [] p.anchor = "bottom"       -> <<p.x + Half(p.aw), p.y + p.ah>>
    [] p.anchor = "left"         -> <<p.x, p.y + Half(p.ah)>>
    [] p.anchor = "right"        -> <<p.x + p.aw, p.y + Half(p.ah)>>
    [] p.anchor = "top_left"     -> <<p.x, p.y>>
    [] p.anchor = "bottom_left"  -> <<p.x, p.y + p.ah>>
    [] p.anchor = "top_right"    -> <<p.x + p.aw, p.y>>
    [] p.anchor = "bottom_right" -> <<p.x + p.aw, p.y + p.ah>>
    [] OTHER                     -> <<p.x + Half(p.aw), p.y + Half(p.ah)>>

\* positioner_calculate_position: the switch over the gravity
Shift_LeftNotCentred(p) ==
  CASE p.gravity = "top"         -> <<Half(p.w), p.h>>
    [] p.gravity = "bottom"      -> <<Half(p.w), 0>>
    [] p.gravity = "left"        -> <<p.w, 0>>
    [] p.gravity = "right"       -> <<0, Half(p.h)>>
    [] p.gravity = "top_left"    -> <<p.w, p.h>>
    [] p.gravity = "bottom_left" -> <<p.w, 0>>
    [] p.gravity = "top_right"   -> <<0, p.h>>
    [] p.gravity = "bottom_right" -> <<0, 0>>
    [] OTHER                     -> <<Half(p.w), Half(p.h)>>

Shift(p) ==
  CASE p.gravity = "top"         -> <<Half(p.w), p.h>>
    [] p.gravity = "bottom"      -> <<Half(p.w), 0>>
    [] p.gravity = "left"        -> <<p.w, Half(p.h)>>
    [] p.gravity = "right"       -> <<0, Half(p.h)>>
    [] p.gravity = "top_left"    -> <<p.w, p.h>>
    [] p.gravity = "bottom_left" -> <<p.w, 0>>
    [] p.gravity = "top_right"   -> <<0, p.h>>
    [] p.gravity = "bottom_right" -> <<0, 0>>
    [] OTHER                     -> <<Half(p.w), Half(p.h)>>

\* positioner_calculate_position
Position(p) ==
  [x |-> AnchorPoint(p)[1] - Shift(p)[1] + p.dx,
   y |-> AnchorPoint(p)[2] - Shift(p)[2] + p.dy]

\* xdg_surface_get_popup: a size that is not set is 200.
PlacePopup ==
  /\ popup = NoPopup
  /\ popup' = [w |-> IF pos.w > 0 THEN pos.w ELSE 200,
               h |-> IF pos.h > 0 THEN pos.h ELSE 200]
  /\ at' = Position(pos)
  /\ UNCHANGED pos

\* popup_reposition: a size that is not set stays.
Reposition ==
  /\ popup # NoPopup
  /\ popup' = [w |-> IF pos.w > 0 THEN pos.w ELSE popup.w,
               h |-> IF pos.h > 0 THEN pos.h ELSE popup.h]
  /\ at' = Position(pos)
  /\ UNCHANGED pos

PopupNext ==
  \/ \E w, h \in Length : SetSize(w, h)
  \/ \E x \in Coord, w, h \in Length : SetAnchorRect(x, x, w, h)
  \/ \E e \in Edge : SetAnchor(e) \/ SetGravity(e)
  \/ \E x \in Coord : SetOffset(x, x)
  \/ PlacePopup \/ Reposition

PopupSpec == PopupInit /\ [][PopupNext]_popupVars

---------------------------------------------------------------------------
(* Properties *)

\* The side of an edge on an axis: -1 for the low one, 1 for the high one
SideX(e) == IF e \in {"left", "top_left", "bottom_left"} THEN -1
            ELSE IF e \in {"right", "top_right", "bottom_right"} THEN 1 ELSE 0

SideY(e) == IF e \in {"top", "top_left", "top_right"} THEN -1
            ELSE IF e \in {"bottom", "bottom_left", "bottom_right"} THEN 1 ELSE 0

\* The popup from low, of length len, goes in direction g from the point at
\* side a of the rectangle from r, of length rlen; centred within one unit.
Touches(low, len, g, r, rlen, a) ==
  LET point == 2 * r + (1 + a) * rlen
      met   == 2 * low + (1 - g) * len
  IN met - point \in IF a = 0 /\ g = 0 THEN {-1, 0, 1}
                     ELSE IF a = 0 THEN {-1, 0} ELSE IF g = 0 THEN {0, 1} ELSE {0}

(***************************************************************************)
(* Each axis for itself, a popup touches the anchor point with the side    *)
(* opposite to its gravity: the nine anchors and nine gravities the code   *)
(* spells out are all the combinations of a rule for one axis.  It is said *)
(* of popups whose size was set and whose anchor rectangle has no negative *)
(* size, as xdg-shell demands: a popup without gets the default size at    *)
(* the place of an empty one.                                              *)
(***************************************************************************)
PopupTouchesAnchor ==
  at # NoPopup /\ pos.w > 0 /\ pos.h > 0 /\ pos.aw >= 0 /\ pos.ah >= 0 =>
    /\ Touches(at.x - pos.dx, popup.w, SideX(pos.gravity),
               pos.x, pos.aw, SideX(pos.anchor))
    /\ Touches(at.y - pos.dy, popup.h, SideY(pos.gravity),
               pos.y, pos.ah, SideY(pos.anchor))
=============================================================================
