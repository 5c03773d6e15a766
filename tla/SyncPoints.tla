----------------------------- MODULE SyncPoints -----------------------------
(***************************************************************************)
(* Explicit synchronisation of one surface (wl_drm_syncobj.c): a commit    *)
(* brings the point at which the client waits for its buffer to come back. *)
(* The points move on in process_commit, at the head of surface_commit,    *)
(* the buffers later in it, if at all; a release signals the point of the  *)
(* previous buffer, wherever surface_commit or frame_done sends one.       *)
(*                                                                         *)
(* Left out: timelines, the wait for the acquire point (16 ms at most, and *)
(* its failure is ignored), protocol errors, and a bridge without a DRM    *)
(* device, where points neither move nor are signalled.  The points of the *)
(* instance are numbered in the order the client makes them.               *)
(*                                                                         *)
(* Points and buffers do not always move together: a commit overwrites the *)
(* point of a previous buffer that is still held, and signals that of the  *)
(* buffer on the screen in its place; a commit of the current buffer, and  *)
(* one dropped half way, move the points alone.                            *)
(***************************************************************************)
EXTENDS Naturals

CONSTANTS
  SyncBuffer,  \* wl_buffers
  MaxPoint,    \* bound on the release points a client makes
  NoBuffer

ASSUME SyncAssumption == MaxPoint \in Nat /\ NoBuffer \notin SyncBuffer

VARIABLES
  syncSurface,  \* the surface has a syncobj_surface
  acquire,      \* its has_pending_acquire
  release,      \* its pending release point, 0: none
  latest,       \* the last point the client made
  pendingBuf, currentBuf, previousBuf,
  currentPoint, \* current_buf_release_point, 0: no current_buf_has_release
  previousPoint,
  pointOf,      \* history: the point a buffer was committed with
  released,     \* history: points of the releases sent
  signalled,    \* points signalled
  apart         \* history: a commit has parted a point from its buffer

syncVars == <<syncSurface, acquire, release, latest, pendingBuf, currentBuf,
              previousBuf, currentPoint, previousPoint, pointOf, released,
              signalled, apart>>
slots == <<currentBuf, previousBuf, currentPoint, previousPoint, pointOf,
           released, signalled, apart>>

Point == 0..MaxPoint
Slot == SyncBuffer \cup {NoBuffer}

SyncTypeOK ==
  /\ syncSurface \in BOOLEAN /\ acquire \in BOOLEAN /\ apart \in BOOLEAN
  /\ {release, latest, currentPoint, previousPoint} \subseteq Point
  /\ {pendingBuf, currentBuf, previousBuf} \subseteq Slot
  /\ pointOf \in [SyncBuffer -> Point]
  /\ released \subseteq 1..latest /\ signalled \subseteq 1..latest
  /\ ~syncSurface => ~acquire /\ release = 0

SyncInit ==
  /\ syncSurface = FALSE /\ acquire = FALSE /\ release = 0 /\ latest = 0
  /\ pendingBuf = NoBuffer /\ currentBuf = NoBuffer /\ previousBuf = NoBuffer
  /\ currentPoint = 0 /\ previousPoint = 0
  /\ pointOf = [b \in SyncBuffer |-> 0]
  /\ released = {} /\ signalled = {} /\ apart = FALSE

---------------------------------------------------------------------------
(* Requests of the client *)

\* manager_get_surface
GetSyncSurface ==
  /\ ~syncSurface /\ syncSurface' = TRUE
  /\ UNCHANGED <<acquire, release, latest, pendingBuf, slots>>

\* syncobj_surface_resource_destroy: the points of the surface stay with it.
DestroySyncSurface_KeepsPoints ==
  /\ syncSurface /\ syncSurface' = FALSE
  /\ UNCHANGED <<acquire, release, latest, pendingBuf, slots>>

DestroySyncSurface ==
  /\ syncSurface /\ syncSurface' = FALSE /\ acquire' = FALSE /\ release' = 0
  /\ UNCHANGED <<latest, pendingBuf, slots>>

SetAcquirePoint ==
  /\ syncSurface /\ acquire' = TRUE
  /\ UNCHANGED <<syncSurface, release, latest, pendingBuf, slots>>

SetReleasePoint ==
  /\ syncSurface /\ latest < MaxPoint
  /\ latest' = latest + 1 /\ release' = latest + 1
  /\ UNCHANGED <<syncSurface, acquire, pendingBuf, slots>>

AttachBuffer(b) ==
  /\ pendingBuf' = b
  /\ UNCHANGED <<syncSurface, acquire, release, latest, slots>>

\* bridge_syncobj_process_commit, what it refuses left to the client: points
\* without a buffer, one point without the other.
MayCommit == acquire = (release # 0) /\ (acquire => pendingBuf # NoBuffer)

PointsMoved_Kept ==
  IF acquire THEN <<previousPoint, release>> ELSE <<previousPoint, currentPoint>>

PointsMoved ==
  IF acquire THEN <<currentPoint, release>> ELSE <<previousPoint, currentPoint>>

Consume ==
  /\ acquire' = FALSE /\ release' = 0
  /\ UNCHANGED <<syncSurface, latest>>

\* wl_buffer_send_release of buffer b, and bridge_syncobj_signal_release
\* with the previous point p: what is released and what is signalled.
ReleasedWith(b) == IF b = NoBuffer \/ pointOf[b] = 0 THEN {} ELSE {pointOf[b]}
SignalledWith(b, p) == IF b = NoBuffer \/ p = 0 THEN {} ELSE {p}

\* A release of the previous buffer clears prev_buf_has_release.
PointLeft(b, p) == IF b = NoBuffer THEN p ELSE 0

\* surface_commit with a buffer Plexy takes: the points move, the buffers
\* rotate, and without a frame to wait for the previous one is released too.
CommitBuffer(shown) ==
  /\ pendingBuf # NoBuffer /\ MayCommit
  /\ Consume
  /\ pendingBuf' = NoBuffer
  /\ pointOf' = [pointOf EXCEPT ![pendingBuf] = release]
  /\ LET moved == PointsMoved
         again == pendingBuf = currentBuf
         out == IF again THEN NoBuffer ELSE previousBuf
         prev == IF again THEN previousBuf ELSE currentBuf
         left == PointLeft(out, moved[1])
     IN /\ currentBuf' = pendingBuf
        /\ previousBuf' = IF shown THEN prev ELSE NoBuffer
        /\ currentPoint' = moved[2]
        /\ previousPoint' = IF shown THEN left ELSE PointLeft(prev, left)
        /\ released' = released \cup ReleasedWith(out)
                       \cup IF shown THEN {} ELSE ReleasedWith(prev)
        /\ signalled' = signalled \cup SignalledWith(out, moved[1])
                        \cup IF shown THEN {} ELSE SignalledWith(prev, left)
        /\ apart' = (apart \/ /\ currentPoint # 0
                              /\ ~acquire \/ again \/ previousBuf # NoBuffer)

\* The early returns of surface_commit behind process_commit.  A subsurface
\* whose parent has no window keeps its pending buffer, the others lose it.
CommitDropped(keeps) ==
  /\ MayCommit /\ Consume
  /\ pendingBuf' = IF keeps THEN pendingBuf ELSE NoBuffer
  /\ previousPoint' = PointsMoved[1] /\ currentPoint' = PointsMoved[2]
  /\ apart' = (apart \/ acquire)
  /\ UNCHANGED <<currentBuf, previousBuf, pointOf, released, signalled>>

\* The previous buffer is released: by a commit without a buffer,
CommitNothing ==
  /\ pendingBuf = NoBuffer /\ currentBuf # NoBuffer /\ MayCommit
  /\ previousBuf' = NoBuffer /\ previousPoint' = PointLeft(previousBuf, previousPoint)
  /\ released' = released \cup ReleasedWith(previousBuf)
  /\ signalled' = signalled \cup SignalledWith(previousBuf, previousPoint)
  /\ UNCHANGED <<syncSurface, acquire, release, latest, pendingBuf, currentBuf,
                 currentPoint, pointOf, apart>>

\* or by forward_frame_done.
FrameDoneSignals ==
  /\ previousBuf # NoBuffer
  /\ previousBuf' = NoBuffer /\ previousPoint' = 0
  /\ released' = released \cup ReleasedWith(previousBuf)
  /\ signalled' = signalled \cup SignalledWith(previousBuf, previousPoint)
  /\ UNCHANGED <<syncSurface, acquire, release, latest, pendingBuf, currentBuf,
                 currentPoint, pointOf, apart>>

\* The destroy handlers of the three slots; the point stays where it is.
ForgetBuffer(b) ==
  /\ b \in {pendingBuf, currentBuf, previousBuf}
  /\ pendingBuf' = IF pendingBuf = b THEN NoBuffer ELSE pendingBuf
  /\ currentBuf' = IF currentBuf = b THEN NoBuffer ELSE currentBuf
  /\ previousBuf' = IF previousBuf = b THEN NoBuffer ELSE previousBuf
  /\ UNCHANGED <<syncSurface, acquire, release, latest, currentPoint,
                 previousPoint, pointOf, released, signalled, apart>>

SyncNext ==
  \/ GetSyncSurface \/ DestroySyncSurface \/ SetAcquirePoint \/ SetReleasePoint
  \/ \E b \in SyncBuffer : AttachBuffer(b) \/ ForgetBuffer(b)
  \/ \E choice \in BOOLEAN : CommitBuffer(choice) \/ CommitDropped(choice)
  \/ CommitNothing \/ FrameDoneSignals

SyncSpec == SyncInit /\ [][SyncNext]_syncVars

---------------------------------------------------------------------------
(* Points are signalled in the order they were committed, each once, and   *)
(* the last one never: it waits for the commit that replaces it.  This     *)
(* holds of every commit, also where points and buffers have come apart.   *)
PointsInOrder ==
  /\ \A p \in signalled :
       p < currentPoint /\ (previousPoint # 0 => p < previousPoint)
  /\ previousPoint # 0 => previousPoint < currentPoint
  /\ release # 0 => currentPoint < release

(* A point is signalled when its buffer is released, neither earlier nor   *)
(* not at all, for a client that waits for its frames, sends points with   *)
(* each buffer once it sent one, and whose commits are not dropped.  For   *)
(* others it need not be: bridge_syncobj_process_commit shifts the points   *)
(* before the buffers rotate, so that a second commit before frame_done    *)
(* signals the point of the buffer still on the screen.                    *)
PointsMatchReleases == ~apart => signalled = released

(***************************************************************************)
(* Release points are signalled in order and once, never the one of the    *)
(* last commit, and for a client that keeps to one buffer a frame each of  *)
(* them with the release of its own buffer.                                *)
(***************************************************************************)
SyncOK ==
  /\ SyncTypeOK /\ PointsInOrder /\ PointsMatchReleases
=============================================================================
