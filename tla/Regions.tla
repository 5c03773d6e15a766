------------------------------- MODULE Regions -------------------------------
(***************************************************************************)
(* Regions (wl_compositor.c): the list of rectangles a wl_region keeps,    *)
(* the copy a surface takes of it for its input, and the copy Plexy is     *)
(* told of the window, in physical pixels. One axis; a rectangle is a      *)
(* span of it.                                                             *)
(*                                                                         *)
(* Left out: memory that runs out, and the opaque region, which is copied  *)
(* the same way and only read for X11 windows.                             *)
(***************************************************************************)
EXTENDS Integers, Sequences

CONSTANTS
  Region,    \* addresses of bridge_region_resource
  RegionX, RegionWidth, \* origins and widths a client sends
  MaxOps,    \* bound on the rectangles of a region
  OutputScale, \* scales of outputs, in halves
  NoRegion

ASSUME RegionAssumption ==
  /\ NoRegion \notin Region /\ RegionX \subseteq Int /\ RegionWidth \subseteq Int
  /\ MaxOps \in Nat /\ OutputScale \subseteq Nat \ {0, 1} /\ 2 \in OutputScale

VARIABLES
  ops,          \* of each region, NoRegion: no such resource
  input_region, \* ops copied by the surface, NoRegion: input_region_set is false
  role,         \* "toplevel": always takes all input
  has_window,
  output_scale, \* of the output the surface is on
  plexy_region, \* what Plexy has been told of the window, NoRegion: no region mode
  told_scale    \* history: the scale it was told at

regionVars == <<ops, input_region, role, has_window, output_scale, plexy_region, told_scale>>

Op == [add : BOOLEAN, x : Int, w : Nat]

IsOps(s) == s \in Seq(Op)

RegionsTypeOK ==
  /\ \A r \in Region : ops[r] = NoRegion \/ (IsOps(ops[r]) /\ Len(ops[r]) <= MaxOps)
  /\ input_region = NoRegion \/ IsOps(input_region)
  /\ role \in {"toplevel", "popup", "subsurface"} /\ has_window \in BOOLEAN
  /\ {output_scale, told_scale} \subseteq OutputScale
  /\ plexy_region = NoRegion \/ IsOps(plexy_region)

RegionsInit ==
  /\ ops = [r \in Region |-> NoRegion] /\ input_region = NoRegion
  /\ role \in {"toplevel", "popup", "subsurface"} /\ has_window = FALSE
  /\ output_scale = 2 /\ told_scale = 2 /\ plexy_region = NoRegion

---------------------------------------------------------------------------
\* Conversion to an integer drops the fraction, towards zero.
Truncated(halves) == IF halves >= 0 THEN halves \div 2 ELSE -((-halves) \div 2)

Physical_OriginUnscaled(s, scale) ==
  [i \in DOMAIN s |-> [add |-> s[i].add, x |-> s[i].x, w |-> (s[i].w * scale + 1) \div 2]]

\* The spans sent for the surface: the origin truncated, the width rounded
Physical(s, scale) ==
  [i \in DOMAIN s |-> [add |-> s[i].add, x |-> Truncated(s[i].x * scale),
                       w |-> (s[i].w * scale + 1) \div 2]]

\* bridge_sync_input_region_to_plexy
SyncRegion_AnyRole(region, window) ==
  IF ~window THEN UNCHANGED <<plexy_region, told_scale>>
  ELSE /\ plexy_region' = (IF region = NoRegion THEN NoRegion
                           ELSE Physical(region, output_scale))
       /\ told_scale' = output_scale

SyncRegion(region, window) ==
  IF ~window THEN UNCHANGED <<plexy_region, told_scale>>
  ELSE /\ plexy_region' = (IF role = "toplevel" \/ region = NoRegion THEN NoRegion
                           ELSE Physical(region, output_scale))
       /\ told_scale' = output_scale

CreateRegion(r) ==
  /\ ops[r] = NoRegion /\ ops' = [ops EXCEPT ![r] = <<>>]
  /\ UNCHANGED <<input_region, role, has_window, output_scale, plexy_region, told_scale>>

AppendOp_KeepsEmpty(r, add, x, w) ==
  /\ ops[r] # NoRegion /\ Len(ops[r]) < MaxOps
  /\ ops' = [ops EXCEPT ![r] = Append(@, [add |-> add, x |-> x, w |-> w])]
  /\ UNCHANGED <<input_region, role, has_window, output_scale, plexy_region, told_scale>>

\* region_add, region_subtract: an empty rectangle is not kept.
AppendOp(r, add, x, w) ==
  /\ ops[r] # NoRegion /\ Len(ops[r]) < MaxOps
  /\ ops' = (IF w <= 0 THEN ops
             ELSE [ops EXCEPT ![r] = Append(@, [add |-> add, x |-> x, w |-> w])])
  /\ UNCHANGED <<input_region, role, has_window, output_scale, plexy_region, told_scale>>

DestroyRegion(r) ==
  /\ ops[r] # NoRegion /\ ops' = [ops EXCEPT ![r] = NoRegion]
  /\ UNCHANGED <<input_region, role, has_window, output_scale, plexy_region, told_scale>>

\* surface_set_input_region, with a region or with none
SetInputRegion(region) ==
  /\ input_region' = region
  /\ SyncRegion(region, has_window)
  /\ UNCHANGED <<ops, role, has_window, output_scale>>

\* Every place that creates a window of a surface sends its region.
CreateWindow ==
  /\ ~has_window /\ has_window' = TRUE
  /\ SyncRegion(input_region, TRUE)
  /\ UNCHANGED <<ops, input_region, role, output_scale>>

\* The window is destroyed with the surface's role; a new one knows no region.
DestroyWindow ==
  /\ has_window /\ has_window' = FALSE /\ plexy_region' = NoRegion
  /\ UNCHANGED <<ops, input_region, role, output_scale, told_scale>>

\* The surface moves to another output: nothing is sent again.
MoveToOutput(scale) ==
  /\ output_scale' = scale
  /\ UNCHANGED <<ops, input_region, role, has_window, plexy_region, told_scale>>

RegionsNext ==
  \/ \E r \in Region : CreateRegion(r) \/ DestroyRegion(r)
       \/ (ops[r] # NoRegion /\ SetInputRegion(ops[r]))
       \/ \E add \in BOOLEAN, x \in RegionX, w \in RegionWidth : AppendOp(r, add, x, w)
  \/ SetInputRegion(NoRegion) \/ CreateWindow \/ DestroyWindow
  \/ \E s \in OutputScale : MoveToOutput(s)

RegionsSpec == RegionsInit /\ [][RegionsNext]_regionVars

---------------------------------------------------------------------------
\* point_in_rect
InRect(op, p) == op.x <= p /\ p < op.x + op.w

\* The scan of bridge_surface_input_region_contains: the last rectangle that
\* holds the point decides.
ContainsPoint_First(s, p) ==
  LET hits == {i \in DOMAIN s : InRect(s[i], p)}
  IN hits # {} /\ s[CHOOSE i \in hits : \A j \in hits : i <= j].add

ContainsPoint(s, p) ==
  LET hits == {i \in DOMAIN s : InRect(s[i], p)}
  IN hits # {} /\ s[CHOOSE i \in hits : \A j \in hits : j <= i].add

\* bridge_surface_input_region_contains
TakesInput(p) ==
  role = "toplevel" \/ input_region = NoRegion \/ ContainsPoint(input_region, p)

\* The points of a region as wl_region defines it: a rectangle added is
\* united with what is there, one subtracted is taken away.
SetOf(s) ==
  LET span(op) == op.x..(op.x + op.w - 1)
      built[n \in 0..Len(s)] ==
        IF n = 0 THEN {}
        ELSE IF s[n].add THEN built[n - 1] \cup span(s[n])
        ELSE built[n - 1] \ span(s[n])
  IN built[Len(s)]

Reach == -8..8

\* SafetyProperty: the point the last rectangle decides is the point of the
\* set the rectangles build one after the other.
HitIsSetOf ==
  \A r \in Region : ops[r] # NoRegion =>
    \A p \in Reach : ContainsPoint(ops[r], p) = (p \in SetOf(ops[r]))

\* SafetyProperty: on an output of scale 1 that the surface has not left, Plexy
\* gives a window the points the bridge takes, whatever order the region, the
\* window and the role came in, and whatever became of the wl_region since.
PlexyTakesTheSame ==
  has_window /\ told_scale = 2 /\ output_scale = 2 =>
    \A p \in Reach :
      TakesInput(p) = (plexy_region = NoRegion \/ ContainsPoint(plexy_region, p))

\* SafetyProperty: at the scale Plexy was told, the edges of every rectangle
\* are within a physical pixel of where they belong.
EdgesAreNear ==
  has_window /\ plexy_region # NoRegion =>
    \A i \in DOMAIN plexy_region :
      LET was == input_region[i]
          is == plexy_region[i]
      IN /\ 2 * is.x - was.x * told_scale \in -1..1
         /\ 2 * (is.x + is.w) - (was.x + was.w) * told_scale \in -2..2

(***************************************************************************)
(* A list of operations is the set it stands for, Plexy has the same one   *)
(* at the same scale, and scaled edges are within a pixel of their place.  *)
(***************************************************************************)
RegionsOK ==
  /\ RegionsTypeOK /\ HitIsSetOf /\ PlexyTakesTheSame /\ EdgesAreNear
=============================================================================
