---------------------------- MODULE DoubleBuffers ----------------------------
(***************************************************************************)
(* The two Plexy buffers of a surface (surface_commit, wl_compositor.c):   *)
(* made anew when the size changes, drawn or pointed at a descriptor at    *)
(* the back, attached, and swapped. Each call into Plexy may fail.         *)
(*                                                                         *)
(* Left out: what SurfaceBuffers has, the holding and releasing of client  *)
(* buffers; damage; viewports, but for the size a buffer is shown at.      *)
(***************************************************************************)
EXTENDS Naturals

CONSTANTS
  PlexyBuffer,  \* addresses of PlexyBuffer
  ClientBuffer, \* buffers a client attaches
  Kind,         \* of each: "shm", "fd" (a dmabuf with a descriptor), "texture"
  Size, Target, \* of each: its size, and the size it is shown at
  NoImage

ASSUME DoubleBufferAssumption ==
  /\ NoImage \notin PlexyBuffer \cup ClientBuffer
  /\ Kind \in [ClientBuffer -> {"shm", "fd", "texture"}]
  /\ Size \in [ClientBuffer -> Nat] /\ Target \in [ClientBuffer -> Nat]

VARIABLES
  plexy,    \* front and back, the buffers there are, their images, and the one on screen
  latest,   \* current_buffer
  updated,  \* buffer_updated of the last commit
  again     \* history: the last commit was of the current buffer, without a copy

doubleVars == <<plexy, latest, updated, again>>

Image == [kind : {"memory", "dmabuf"}, size : Nat, of : ClientBuffer \cup {NoImage}]

Blank == [kind |-> "memory", size |-> 0, of |-> NoImage]

DoubleTypeOK ==
  /\ {plexy.front, plexy.back, plexy.displayed} \subseteq PlexyBuffer \cup {NoImage}
  /\ plexy.front = plexy.back => plexy.front = NoImage
  /\ plexy.alive \subseteq PlexyBuffer /\ plexy.image \in [PlexyBuffer -> Image]
  /\ latest \in ClientBuffer \cup {NoImage}
  /\ updated \in BOOLEAN /\ again \in BOOLEAN

DoubleInit ==
  /\ plexy = [front |-> NoImage, back |-> NoImage, displayed |-> NoImage, alive |-> {},
              image |-> [p \in PlexyBuffer |-> Blank]]
  /\ latest = NoImage /\ updated = FALSE /\ again = FALSE

---------------------------------------------------------------------------
Whole(p) == p.front # NoImage /\ p.back # NoImage

\* plexy_destroy_buffer of what there is of the two
Dropped_StaysSet(p) ==
  [p EXCEPT !.alive = @ \ {p.front, p.back},
            !.displayed = IF @ \in {p.front, p.back} THEN NoImage ELSE @]

Dropped(p) ==
  [p EXCEPT !.alive = @ \ {p.front, p.back}, !.front = NoImage, !.back = NoImage,
            !.displayed = IF @ \in {p.front, p.back} THEN NoImage ELSE @]

\* Both destroyed and made again; either may fail.
Remade(p, image) ==
  LET gone == Dropped(p)
      free == (PlexyBuffer \ gone.alive) \cup {NoImage}
  IN {[gone EXCEPT !.front = pair[1], !.back = pair[2],
                   !.alive = @ \cup ({pair[1], pair[2]} \ {NoImage}),
                   !.image = [b \in PlexyBuffer |->
                                IF b \in {pair[1], pair[2]} THEN image ELSE @[b]]] :
      pair \in {q \in free \X free : q[1] # q[2] \/ q[1] = NoImage}}

Drawn(p, b) == [p EXCEPT !.image[p.back] = [@ EXCEPT !.of = b]]

Shown_NotSwapped(p) == [p EXCEPT !.displayed = p.back]

Shown_HalfSwapped(p) == [p EXCEPT !.displayed = p.back, !.front = p.back]

\* plexy_window_commit of the back buffer, and the swap
Shown(p) == [p EXCEPT !.displayed = p.back, !.front = p.back, !.back = p.front]

\* A commit that returns early leaves current_buffer as it is.
GivenUpWith(p) == plexy' = p /\ updated' = FALSE /\ UNCHANGED <<latest, again>>

Latched(p, b, shows) ==
  /\ plexy' = (IF shows THEN Shown(p) ELSE p)
  /\ latest' = b /\ updated' = shows

\* The image of a dmabuf may not be mapped: then nothing can be copied to it.
Copied(p) == IF p.image[p.back].kind = "memory" THEN {TRUE} ELSE BOOLEAN

Resized(p, size) == ~Whole(p) \/ p.image[p.back].size # size

\* surface_commit with a buffer of shared memory: copied at every commit.
CommitShm(b) ==
  /\ Kind[b] = "shm"
  /\ \E p \in IF Resized(plexy, Target[b])
              THEN Remade(plexy, [Blank EXCEPT !.size = Target[b]]) ELSE {plexy} :
       IF ~Whole(p) THEN GivenUpWith(p)
       ELSE \E copied \in Copied(p), attached \in BOOLEAN :
              IF ~copied THEN GivenUpWith(p)
              ELSE Latched(Drawn(p, b), b, attached) /\ again' = FALSE

\* The readback path: copied only if the buffer is not the current one.
Readback(p, b, renew) ==
  \E q \in IF renew \/ Resized(p, Target[b])
           THEN Remade(p, [Blank EXCEPT !.size = Target[b]]) ELSE {p} :
    IF ~Whole(q) THEN GivenUpWith(q)
    ELSE /\ \/ Latched(q, b, FALSE)
            \/ /\ b # latest /\ TRUE \in Copied(q)
               /\ \E attached \in BOOLEAN : Latched(Drawn(q, b), b, attached)
         /\ again' = (b = latest)

\* What the zero-copy path makes of the two buffers, and whether it goes on:
\* the back one is given the descriptor only if the buffer is not current.
Pointed_Always(b) ==
  LET image == [kind |-> "dmabuf", size |-> Size[b], of |-> b]
  IN IF Resized(plexy, Size[b])
     THEN {IF Whole(p) THEN <<p, TRUE>> ELSE <<Dropped(p), FALSE>> : p \in Remade(plexy, image)}
     ELSE {<<plexy, TRUE>>}

Pointed(b) ==
  LET image == [kind |-> "dmabuf", size |-> Size[b], of |-> b]
  IN IF Resized(plexy, Size[b])
     THEN {IF Whole(p) THEN <<p, TRUE>> ELSE <<Dropped(p), FALSE>> : p \in Remade(plexy, image)}
     ELSE IF latest # b
     THEN {<<[plexy EXCEPT !.image[plexy.back] = image], TRUE>>, <<plexy, FALSE>>}
     ELSE {<<plexy, TRUE>>}

\* surface_commit with a dmabuf
CommitDmabuf(b) ==
  \/ Kind[b] = "texture" /\ Readback(plexy, b, FALSE)
  \/ /\ Kind[b] = "fd"
     /\ \E r \in Pointed(b) :
          \/ r[2] /\ Latched(r[1], b, TRUE) /\ again' = (b = latest)
          \/ Readback(r[1], b, Resized(plexy, Size[b]))

\* The wl_buffer of the current buffer goes.
BufferGone == latest # NoImage /\ latest' = NoImage /\ UNCHANGED <<plexy, updated, again>>

\* bridge_surface_destroy, and the next surface
SurfaceGone ==
  /\ plexy' = Dropped(plexy) /\ latest' = NoImage /\ updated' = FALSE /\ again' = FALSE

DoubleNext ==
  \/ \E b \in ClientBuffer : CommitShm(b) \/ CommitDmabuf(b)
  \/ BufferGone \/ SurfaceGone

DoubleSpec == DoubleInit /\ [][DoubleNext]_doubleVars

---------------------------------------------------------------------------
\* SafetyProperty: whichever calls fail, the Plexy buffers there are are
\* exactly the two of the surface: none leaks and none is destroyed twice.
BuffersAreOwned ==
  plexy.alive = {plexy.front, plexy.back} \ {NoImage}

\* SafetyProperty: the buffer on screen is the front one, so that a commit
\* never draws into, or points elsewhere, what is being shown.
ScreenIsFront == plexy.displayed # NoImage => plexy.displayed = plexy.front

\* SafetyProperty: what a commit puts on screen is the client's buffer it
\* committed, unless that was the current one already and was not copied.
ScreenIsCommitted ==
  updated /\ latest # NoImage /\ ~again => plexy.image[plexy.displayed].of = latest

(***************************************************************************)
(* Whichever calls fail, the surface owns the Plexy buffers there are,     *)
(* draws only into the one not shown, and shows what was committed last.   *)
(***************************************************************************)
DoubleOK ==
  /\ DoubleTypeOK /\ BuffersAreOwned /\ ScreenIsFront /\ ScreenIsCommitted
=============================================================================
