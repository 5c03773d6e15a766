------------------------------ MODULE Viewports ------------------------------
(***************************************************************************)
(* Which part of a client's buffer is shown, and how large (wl_compositor. *)
(* c, wl_viewporter.c): the viewport, the window geometry and the buffer   *)
(* scale of one surface, along one axis, in wl_fixed units. The other axis *)
(* is the same, and fails a commit the same way.                           *)
(*                                                                         *)
(* Left out: the values of pixels; a buffer shown without a copy, which is *)
(* shown whole whatever is set here; what lies between the rows, which the *)
(* copy of an ARGB buffer as it is takes along, after the last row as well *)
(* (wl_compositor.c:421); negative scales; the destruction of the surface  *)
(* under its viewport.                                                     *)
(***************************************************************************)
EXTENDS Integers

CONSTANTS
  Unit,     \* fixed-point units of a pixel, 256 in the code
  Width,    \* widths of buffers
  Origin,   \* origins of sources (in units) and of geometries (in pixels)
  Extent,   \* the same of their extents
  Scale,    \* buffer scales a client sets
  Viewport, \* wp_viewport resources
  Unset

ASSUME ViewportAssumption ==
  /\ Unit \in Nat \ {0} /\ Width \subseteq Nat \ {0} /\ Scale \subseteq Nat
  /\ Origin \subseteq Int /\ Extent \subseteq Int /\ Unset \notin Viewport

VARIABLES
  viewport_resource, \* of the surface
  source, destination, \* of the viewport, Unset: unset
  window_geometry,   \* Unset: unset
  is_toplevel, fullscreen, buffer_scale,
  shown,             \* the mapping of the buffer shown and its width
  bytes              \* that its format has for a pixel

viewportVars == <<viewport_resource, source, destination, window_geometry,
                  is_toplevel, fullscreen, buffer_scale, shown, bytes>>
shownVars == <<shown, bytes>>
settings == <<source, destination, window_geometry, is_toplevel, fullscreen, buffer_scale>>

Span == [x : Origin, w : Extent]

Mapping == [x : Nat, w : Nat \ {0}, size : Nat \ {0}, of : Width]

ViewportsTypeOK ==
  /\ viewport_resource \in Viewport \cup {Unset}
  /\ source \in Span \cup {Unset} /\ destination \in Extent \cup {Unset}
  /\ window_geometry \in Span \cup {Unset}
  /\ is_toplevel \in BOOLEAN /\ fullscreen \in BOOLEAN /\ buffer_scale \in Scale \cup {1}
  /\ shown \in Mapping \cup {Unset} /\ bytes \in {2, 4}

ViewportsInit ==
  /\ viewport_resource = Unset /\ source = Unset /\ destination = Unset
  /\ window_geometry = Unset /\ is_toplevel \in BOOLEAN /\ fullscreen = FALSE
  /\ buffer_scale = 1 /\ shown = Unset /\ bytes = 4

---------------------------------------------------------------------------
\* The part of a span inside a buffer of the given extent, Unset if none is.
Clip_Empty(span, extent) ==
  LET lo == IF span.x < 0 THEN 0 ELSE span.x
      hi == IF span.x + span.w > extent THEN extent ELSE span.x + span.w
  IN IF lo >= extent THEN Unset ELSE [x |-> lo, w |-> hi - lo]

Clip(span, extent) ==
  LET lo == IF span.x < 0 THEN 0 ELSE span.x
      hi == IF span.x + span.w > extent THEN extent ELSE span.x + span.w
  IN IF lo >= extent \/ hi <= lo THEN Unset ELSE [x |-> lo, w |-> hi - lo]

\* buffer_extent_to_surface_extent: the nearest pixel, one at least
LogicalExtent(extent, scale) ==
  IF scale <= 1 THEN (2 * extent + Unit) \div (2 * Unit)
  ELSE LET logical == (2 * extent + scale * Unit) \div (2 * scale * Unit)
       IN IF logical > 0 THEN logical ELSE 1

LogicalContent == ~fullscreen

GeometryCrop == LogicalContent /\ is_toplevel
                /\ window_geometry # Unset /\ window_geometry.w > 0

EffectiveScale == IF buffer_scale > 0 THEN buffer_scale ELSE 1

\* compute_viewport_mapping
Mapped_Unscaled(width) ==
  LET whole == IF source # Unset THEN Clip(source, width * Unit)
               ELSE [x |-> 0, w |-> width * Unit]
      crop == Clip([x |-> window_geometry.x * Unit, w |-> window_geometry.w * Unit],
                   width * Unit)
      part == IF GeometryCrop /\ source = Unset /\ destination = Unset THEN crop ELSE whole
      size == IF destination # Unset THEN destination
              ELSE LogicalExtent(part.w, IF LogicalContent THEN EffectiveScale ELSE 1)
  IN IF whole = Unset \/ part = Unset THEN Unset
     ELSE IF size = 0 THEN Unset
     ELSE [x |-> part.x, w |-> part.w, size |-> size, of |-> width]

Mapped(width) ==
  LET whole == IF source # Unset THEN Clip(source, width * Unit)
               ELSE [x |-> 0, w |-> width * Unit]
      unit == EffectiveScale * Unit
      crop == Clip([x |-> window_geometry.x * unit, w |-> window_geometry.w * unit],
                   width * Unit)
      part == IF GeometryCrop /\ source = Unset /\ destination = Unset THEN crop ELSE whole
      size == IF destination # Unset THEN destination
              ELSE LogicalExtent(part.w, IF LogicalContent THEN EffectiveScale ELSE 1)
  IN IF whole = Unset \/ part = Unset THEN Unset
     ELSE IF size = 0 THEN Unset
     ELSE [x |-> part.x, w |-> part.w, size |-> size, of |-> width]

---------------------------------------------------------------------------
\* viewporter_get_viewport: a second one of a surface is an error.
GetViewport(v) ==
  /\ viewport_resource = Unset
  /\ viewport_resource' = v
  /\ UNCHANGED <<settings, shownVars>>

SetSource(x, w) ==
  /\ viewport_resource # Unset /\ w > 0
  /\ source' = [x |-> x, w |-> w]
  /\ UNCHANGED <<viewport_resource, destination, window_geometry, is_toplevel, fullscreen,
                 buffer_scale, shownVars>>

SetDestination(w) ==
  /\ viewport_resource # Unset /\ w > 0
  /\ destination' = w
  /\ UNCHANGED <<viewport_resource, source, window_geometry, is_toplevel, fullscreen,
                 buffer_scale, shownVars>>

\* viewport_resource_destroy
DestroyViewport_KeepsSource ==
  /\ viewport_resource # Unset
  /\ viewport_resource' = Unset /\ destination' = Unset
  /\ UNCHANGED <<source, window_geometry, is_toplevel, fullscreen, buffer_scale, shownVars>>

DestroyViewport ==
  /\ viewport_resource # Unset
  /\ viewport_resource' = Unset /\ source' = Unset /\ destination' = Unset
  /\ UNCHANGED <<window_geometry, is_toplevel, fullscreen, buffer_scale, shownVars>>

\* xdg_surface_set_window_geometry takes any rectangle.
SetWindowGeometry(x, w) ==
  /\ window_geometry' = [x |-> x, w |-> w]
  /\ UNCHANGED <<viewport_resource, source, destination, is_toplevel, fullscreen,
                 buffer_scale, shownVars>>

SetBufferScale(scale) ==
  /\ buffer_scale' = scale
  /\ UNCHANGED <<viewport_resource, source, destination, window_geometry, is_toplevel,
                 fullscreen, shownVars>>

ToggleFullscreen ==
  /\ is_toplevel /\ fullscreen' = ~fullscreen
  /\ UNCHANGED <<viewport_resource, source, destination, window_geometry, is_toplevel,
                 buffer_scale, shownVars>>

\* surface_commit with a buffer that is copied, of n bytes a pixel: one that
\* maps to nothing is not shown, and what was shown stays.
CommitMapped(width, n) ==
  /\ IF Mapped(width) = Unset THEN UNCHANGED shownVars
     ELSE shown' = Mapped(width) /\ bytes' = n
  /\ UNCHANGED <<viewport_resource, settings>>

ViewportsNext ==
  \/ \E v \in Viewport : GetViewport(v)
  \/ \E x \in Origin, w \in Extent : SetSource(x, w) \/ SetWindowGeometry(x, w)
  \/ \E w \in Extent : SetDestination(w)
  \/ DestroyViewport \/ ToggleFullscreen
  \/ \E s \in Scale : SetBufferScale(s)
  \/ \E width \in Width, n \in {2, 4} : CommitMapped(width, n)

ViewportsSpec == ViewportsInit /\ [][ViewportsNext]_viewportVars

---------------------------------------------------------------------------
\* The buffer pixel meant for pixel d: copy_shm_to_plexy, and
\* copy_rgba_to_plexy_with_viewport when nothing is scaled.
Nearest(m, d) ==
  LET p == (2 * m.size * m.x + (2 * d + 1) * m.w) \div (2 * m.size * Unit)
  IN IF p >= m.of THEN m.of - 1 ELSE p

\* The pixels of n bytes that are read for it: four bytes, at four times its
\* number, whatever the format.
Fetched(m, d, n) == {b \div n : b \in (4 * Nearest(m, d))..(4 * Nearest(m, d) + 3)}

\* The two pixels copy_rgba_to_plexy_with_viewport blends for pixel d
Blended_Unclamped(m, d) ==
  LET left == (2 * m.size * m.x + (2 * d + 1) * m.w - m.size * Unit) \div (2 * m.size * Unit)
  IN {left, left + 1}

Blended(m, d) ==
  LET at == 2 * m.size * m.x + (2 * d + 1) * m.w - m.size * Unit
      left == IF at < 0 THEN 0 ELSE at \div (2 * m.size * Unit)
      clamped == IF left >= m.of THEN m.of - 1 ELSE left
  IN {clamped, IF clamped + 1 < m.of THEN clamped + 1 ELSE clamped}

\* plexy_local_to_wayland_local: where in the surface the pointer is said to be
PointerAt(d) ==
  IF LogicalContent \/ destination # Unset
  THEN IF GeometryCrop /\ destination = Unset THEN d + window_geometry.x ELSE d
  ELSE IF buffer_scale > 1 THEN d \div buffer_scale ELSE d

\* SafetyProperty: whatever a client sets, in a format of four bytes every
\* pixel shown is one of its buffer and of the part of it the mapping names,
\* and blending takes no pixel outside the buffer and at most one beyond the
\* part on each side.  Nothing like it holds of the formats of two bytes, which
\* are read as if they had four.
CopiesStayInside ==
  shown # Unset /\ bytes = 4 =>
    \A d \in 0..(shown.size - 1) :
      /\ \A p \in Fetched(shown, d, bytes) :
           p \in 0..(shown.of - 1) /\ p * Unit < shown.x + shown.w /\ (p + 1) * Unit > shown.x
      /\ \A p \in Blended(shown, d) :
           /\ p \in 0..(shown.of - 1)
           /\ p * Unit < shown.x + shown.w + Unit /\ (p + 2) * Unit > shown.x

\* SafetyProperty: a source and a destination are in force only while the
\* viewport that set them exists.
SourceHasViewport == viewport_resource = Unset => source = Unset /\ destination = Unset

\* SafetyProperty: without a viewport and with a geometry that starts inside
\* the surface, a pointer over a pixel of what a commit of four bytes a pixel
\* would show is told the surface coordinate of the buffer pixel there, to
\* within one.
PointerHitsPixel ==
  (source = Unset /\ destination = Unset
     /\ (window_geometry # Unset => window_geometry.x >= 0)) =>
    \A width \in Width :
      Mapped(width) # Unset =>
        \A d \in 0..(Mapped(width).size - 1) :
          \A p \in Fetched(Mapped(width), d, 4) :
            PointerAt(d) - (p \div EffectiveScale) \in -1..1

(***************************************************************************)
(* Of buffers with four bytes a pixel, the pixels copied to the window are *)
(* of the part meant, and a pointer on a pixel is reported where that      *)
(* pixel came from, through every change of the settings.                  *)
(***************************************************************************)
ViewportsOK ==
  /\ ViewportsTypeOK /\ CopiesStayInside /\ SourceHasViewport
  /\ PointerHitsPixel
=============================================================================
