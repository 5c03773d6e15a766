-------------------------- MODULE SurfaceBuffers --------------------------
(***************************************************************************)
(* The life of wl_buffers on a wl_surface: attach, commit, release and     *)
(* destruction, as wl_compositor.c, forward_frame_done (event_forward.c)   *)
(* and bridge_surface_destroy (wayland_bridge.c) implement them.           *)
(*                                                                         *)
(* A surface holds up to three buffers: the one attached for the next      *)
(* commit (pending_buffer), the one last committed (current_buffer) and    *)
(* the one that commit replaced (previous_buffer), which is released when  *)
(* Plexy reports the frame done.  A client may destroy a wl_buffer at any  *)
(* moment, so each held pointer has a listener, embedded in the surface,   *)
(* on the destroy signal of the buffer it points to.  Code moves the       *)
(* pointer and the listener separately; the two must never disagree.       *)
(*                                                                         *)
(* The bridge is one event-loop thread: a request or an event is handled   *)
(* to completion.  The destruction of a buffer is the exception worth its  *)
(* own steps: libwayland pops the listeners one at a time, and the loop    *)
(* ends only when the ring of the buffer is empty.                         *)
(*                                                                         *)
(* An operator named after another one with a suffix (Arm_Never would be   *)
(* one of Arm) is that operator with a mistake a change of the code could  *)
(* make.  None is used here; each shows that a property would notice.      *)
(***************************************************************************)
EXTENDS WlList

CONSTANTS
  Surface,    \* the bridge_surface structures
  Buffer,     \* the wl_buffer resources
  None,       \* the null pointer
  Outcomes,   \* what processing a committed buffer may come to
  Reuse,      \* which buffers still held a client may attach again
  Callbacks,  \* which per-frame answers clients request
  RoleKinds   \* which role objects clients create

Outcome == {"shown", "not_shown", "abandoned", "unknown_type"}

\* The three listeners of a surface, one for each buffer pointer.
Slot == {"pending", "current", "previous"}
Listener == Surface \X Slot

\* The nodes of the list heap: the head of each buffer and every listener.
Node == Buffer \cup Listener

ASSUME SurfaceBuffersAssumption ==
  /\ None \notin Node
  /\ None \notin Surface
  /\ Buffer \cap Listener = {}
  /\ Outcomes \subseteq Outcome
  /\ Reuse \subseteq {"current", "previous"}
  /\ Callbacks \subseteq {"frame", "feedback"}
  /\ RoleKinds \subseteq {"toplevel", "popup", "subsurface"}

VARIABLES
  surfaces,   \* surfaces whose bridge_surface exists
  buffers,    \* buffers whose wl_resource exists
  hold,       \* pending_buffer, current_buffer and previous_buffer
  links,      \* the list heap: the listeners and the destroy signals
  emitting,   \* the buffer whose destroy signal is being emitted, or None
  roles,      \* xdg_surface, xdg_popup and wl_subsurface objects present
  parent,     \* subsurface_parent
  window,     \* the Plexy window: none, with callbacks, or without (bare)
  awaiting,   \* surfaces for which Plexy owes a frame_done
  frames,     \* stage of the wl_callbacks in frame_callbacks
  feedbacks,  \* stage of the wp_presentation_feedback objects
  busy,       \* the client's view: committed here and not released since
  stranded,   \* history: what was due was lost with the window
  leaked      \* history: surfaces that left a listener linked for nothing

held  == <<hold, links>>
scene == <<surfaces, buffers, roles, parent>>
due   == <<awaiting, frames, feedbacks, stranded>>
owed  == <<busy, due, leaked>>
vars  == <<surfaces, buffers, hold, links, emitting, roles, parent, window,
           awaiting, frames, feedbacks, busy, stranded, leaked>>

NoHold == [k \in Slot |-> None]

\* A callback waits until a commit of a surface with a window carries it.
Stage == {"waiting", "armed"}

TypeOK ==
  /\ surfaces \subseteq Surface
  /\ buffers \subseteq Buffer
  /\ hold \in [Surface -> [Slot -> Buffer \cup {None}]]
  /\ links \in Heap(Node, None)
  /\ emitting \in Buffer \cup {None}
  /\ roles \in [Surface -> SUBSET {"xdg_surface", "popup", "subsurface"}]
  /\ parent \in [Surface -> Surface \cup {None}]
  /\ window \in [Surface -> {"none", "full", "bare"}]
  /\ awaiting \subseteq Surface
  /\ frames \in [Surface -> SUBSET Stage]
  /\ feedbacks \in [Surface -> SUBSET Stage]
  /\ busy \in [Surface -> SUBSET Buffer]
  /\ stranded \subseteq Surface
  /\ leaked \subseteq Surface

Init ==
  /\ surfaces = {}
  /\ buffers = {}
  /\ hold = [s \in Surface |-> NoHold]
  /\ links = [nxt |-> [n \in Node |-> n], prv |-> [n \in Node |-> n]]
  /\ emitting = None
  /\ roles = [s \in Surface |-> {}]
  /\ parent = [s \in Surface |-> None]
  /\ window = [s \in Surface |-> "none"]
  /\ awaiting = {}
  /\ frames = [s \in Surface |-> {}]
  /\ feedbacks = [s \in Surface |-> {}]
  /\ busy = [s \in Surface |-> {}]
  /\ stranded = {}
  /\ leaked = {}

---------------------------------------------------------------------------
(* Helpers *)

\* The event loop is free and the surface exists.
Serving(s) == emitting = None /\ s \in surfaces

IsSubsurface(s) == "subsurface" \in roles[s]

ParentReady(s) == parent[s] # None /\ window[parent[s]] # "none"

\* wl_list_remove of the listener of a slot that holds a buffer, from links h.
Removed(h, s, k) == IF hold[s][k] # None THEN ListRemove(h, <<s, k>>, None) ELSE h

\* The pending buffer is let go, its listener unlinked.
LetGoPending_Forgotten(s) == links

LetGoPending(s) ==
  IF hold[s].pending # None THEN ListUnlink(links, <<s, "pending">>, None) ELSE links

(***************************************************************************)
(* The rotation of surface_commit: the previous buffer is released, the    *)
(* current one becomes the previous one and the pending one the current    *)
(* one, each listener following its pointer.                               *)
(***************************************************************************)
RotatedLinks_CurrentStays(s) ==
  LET retired == IF hold[s].current # None
                 THEN AddListener(Removed(links, s, "previous"),
                                  hold[s].current, <<s, "previous">>)
                 ELSE Removed(links, s, "previous")
  IN  AddListener(ListUnlink(retired, <<s, "pending">>, None),
                  hold[s].pending, <<s, "current">>)

RotatedLinks_PreviousDeaf(s) ==
  LET retired == IF hold[s].current # None
                 THEN ListUnlink(Removed(links, s, "previous"), <<s, "current">>, None)
                 ELSE Removed(links, s, "previous")
  IN  AddListener(ListUnlink(retired, <<s, "pending">>, None),
                  hold[s].pending, <<s, "current">>)

RotatedLinks(s) ==
  LET released == Removed(links, s, "previous")
      retired  == IF hold[s].current # None
                  THEN AddListener(ListUnlink(released, <<s, "current">>, None),
                                   hold[s].current, <<s, "previous">>)
                  ELSE released
  IN  AddListener(ListUnlink(retired, <<s, "pending">>, None),
                  hold[s].pending, <<s, "current">>)

RotatedHold(s) == [hold[s] EXCEPT !.pending = None,
                                  !.current = hold[s].pending,
                                  !.previous = hold[s].current]

\* A buffer committed a second time in a row skips the rotation.
LatchedLinks(s) ==
  IF hold[s].current # hold[s].pending THEN RotatedLinks(s) ELSE links

LatchedHold(s) ==
  IF hold[s].current # hold[s].pending
  THEN RotatedHold(s)
  ELSE [hold[s] EXCEPT !.pending = None]

ReleasedByLatch_Nothing(s) == {}

ReleasedByLatch(s) ==
  IF hold[s].current # hold[s].pending THEN {hold[s].previous} ELSE {}

\* The skipped rotation clears pending_buffer and leaves its listener linked.
LeakedByLatch(s) == IF hold[s].current # hold[s].pending THEN {} ELSE {s}

(***************************************************************************)
(* wl_buffer.release of the previous buffer, with its listener unlinked:   *)
(* h and r are the links and the buffers of s at that point.               *)
(***************************************************************************)
LinksAfterRelease(h, r, s) ==
  IF r.previous # None THEN ListUnlink(h, <<s, "previous">>, None) ELSE h

HoldAfterRelease_Kept(r) == r

HoldAfterRelease(r) == [r EXCEPT !.previous = None]

\* Everything due on s is answered: callbacks, feedback, the previous buffer.
AnswerAll_ButFrames(s, h, r, inUse) ==
  /\ feedbacks' = [feedbacks EXCEPT ![s] = {}]
  /\ links' = LinksAfterRelease(h, r, s)
  /\ hold' = [hold EXCEPT ![s] = HoldAfterRelease(r)]
  /\ busy' = [busy EXCEPT ![s] = inUse \ {r.previous}]
  /\ stranded' = stranded \ {s}
  /\ UNCHANGED frames

AnswerAll(s, h, r, inUse) ==
  /\ frames' = [frames EXCEPT ![s] = {}]
  /\ feedbacks' = [feedbacks EXCEPT ![s] = {}]
  /\ links' = LinksAfterRelease(h, r, s)
  /\ hold' = [hold EXCEPT ![s] = HoldAfterRelease(r)]
  /\ busy' = [busy EXCEPT ![s] = inUse \ {r.previous}]
  /\ stranded' = stranded \ {s}

\* The commit carries the callbacks requested so far.
Arm(stages) == IF stages = {} THEN {} ELSE {"armed"}

\* The plexy_window the commit goes on with: a subsurface gets its own, a
\* popup without event callbacks, with its first buffer.
WindowAtCommit(s, w) ==
  \/ window[s] # "none" /\ w = window[s]
  \/ /\ window[s] = "none"
     /\ IsSubsurface(s)
     /\ hold[s].pending # None
     /\ w = "bare"

\* surface_commit runs on past the checks that come before the buffer.
CommitProceeds(s) ==
  /\ Serving(s)
  /\ IsSubsurface(s) => ParentReady(s)

\* What a window change leaves behind with nobody to answer it.
Due(s) == \/ "armed" \in frames[s] \cup feedbacks[s]
          \/ hold[s].previous # None

StrandIfDue(s) ==
  stranded' = IF Due(s) THEN stranded \cup {s} ELSE stranded

---------------------------------------------------------------------------
(* Resources come and go *)

\* bridge_surface_create
CreateSurface(s) ==
  /\ emitting = None
  /\ s \notin surfaces
  /\ surfaces' = surfaces \cup {s}
  /\ hold' = [hold EXCEPT ![s] = NoHold]
  /\ links' = ListInit(ListInit(ListInit(links, <<s, "previous">>),
                                <<s, "current">>), <<s, "pending">>)
  /\ busy' = [busy EXCEPT ![s] = {}]
  /\ UNCHANGED <<buffers, emitting, roles, parent, window, due, leaked>>

CreateBuffer(b) ==
  /\ emitting = None
  /\ b \notin buffers
  /\ buffers' = buffers \cup {b}
  /\ links' = ListInit(links, b)
  /\ UNCHANGED <<surfaces, hold, emitting, roles, parent, window, owed>>

\* The lists once a surface is gone.
LinksAfterDestroy_PendingStays(s) ==
  Removed(Removed(links, s, "previous"), s, "current")

LinksAfterDestroy(s) ==
  Removed(Removed(Removed(links, s, "previous"), s, "current"), s, "pending")

(***************************************************************************)
(* bridge_surface_destroy.  Held buffers are not released: the client gets *)
(* no wl_buffer.release for them any more.                                 *)
(***************************************************************************)
DestroySurface(s) ==
  /\ Serving(s)
  /\ surfaces' = surfaces \ {s}
  /\ links' = LinksAfterDestroy(s)
  /\ hold' = [hold EXCEPT ![s] = NoHold]
  /\ frames' = [frames EXCEPT ![s] = {}]
  /\ feedbacks' = [feedbacks EXCEPT ![s] = {}]
  /\ window' = [window EXCEPT ![s] = "none"]
  /\ roles' = [roles EXCEPT ![s] = {}]
  /\ parent' = [t \in Surface |-> IF t = s \/ parent[t] = s THEN None ELSE parent[t]]
  /\ awaiting' = awaiting \ {s}
  /\ stranded' = stranded \ {s}
  /\ UNCHANGED <<buffers, emitting, busy, leaked>>

\* wl_buffer.destroy, or the client is gone: the destroy signal is emitted.
DestroyBuffer(b) ==
  /\ emitting = None
  /\ b \in buffers
  /\ emitting' = b
  /\ UNCHANGED <<scene, held, window, owed>>

(***************************************************************************)
(* One turn of the loop of wl_priv_signal_final_emit: pop the first        *)
(* listener and notify it.  The handler, handle_pending_buffer_destroy or  *)
(* one of its two siblings, clears the pointer of its own slot, whatever   *)
(* buffer that pointer holds.  A listener in a surface already freed is    *)
(* read after free: the model stops there, as a crashed bridge does, and   *)
(* NotifiedSlotHoldsBuffer says that it never comes to that.               *)
(***************************************************************************)
NotifyDestroy ==
  LET l == links.nxt[emitting]
  IN
  /\ emitting # None
  /\ l \in Listener /\ l[1] \in surfaces
  /\ links' = ListUnlink(links, l, None)
  /\ hold' = [hold EXCEPT ![l[1]][l[2]] = None]
  /\ UNCHANGED <<scene, emitting, window, owed>>

\* The ring is empty: the resource is freed.
FreeBuffer ==
  /\ emitting # None
  /\ links.nxt[emitting] = emitting
  /\ buffers' = buffers \ {emitting}
  /\ busy' = [s \in Surface |-> busy[s] \ {emitting}]
  /\ emitting' = None
  /\ UNCHANGED <<surfaces, roles, parent, held, window, due, leaked>>

---------------------------------------------------------------------------
(* Roles and windows *)

GetXdgSurface(s) ==
  /\ Serving(s)
  /\ "xdg_surface" \notin roles[s]
  /\ roles' = [roles EXCEPT ![s] = @ \cup {"xdg_surface"}]
  /\ UNCHANGED <<surfaces, buffers, emitting, parent, held, window, owed>>

XdgSurfaceDestroy(s) ==
  /\ Serving(s)
  /\ "xdg_surface" \in roles[s]
  /\ roles' = [roles EXCEPT ![s] = @ \ {"xdg_surface"}]
  /\ UNCHANGED <<surfaces, buffers, emitting, parent, held, window, owed>>

(***************************************************************************)
(* xdg_surface_get_toplevel: the Plexy window is created at once.  A       *)
(* window the surface already has is overwritten, not destroyed, and its   *)
(* events still arrive.                                                    *)
(***************************************************************************)
GetToplevel(s) ==
  /\ Serving(s)
  /\ "toplevel" \in RoleKinds
  /\ "xdg_surface" \in roles[s]
  /\ window' = [window EXCEPT ![s] = "full"]
  /\ IF s \in awaiting THEN UNCHANGED stranded ELSE StrandIfDue(s)
  /\ UNCHANGED <<scene, emitting, held, busy, awaiting, frames, feedbacks, leaked>>

(***************************************************************************)
(* xdg_surface_get_popup destroys the window the surface has; its own may  *)
(* fail to be created.  No frame_done arrives for a destroyed window.      *)
(***************************************************************************)
GetPopup(s) ==
  /\ Serving(s)
  /\ "popup" \in RoleKinds
  /\ "xdg_surface" \in roles[s]
  /\ "popup" \notin roles[s]
  /\ roles' = [roles EXCEPT ![s] = @ \cup {"popup"}]
  /\ \E w \in {"none", "full"} : window' = [window EXCEPT ![s] = w]
  /\ StrandIfDue(s)
  /\ awaiting' = awaiting \ {s}
  /\ UNCHANGED <<surfaces, buffers, emitting, parent, held, busy, frames, feedbacks, leaked>>

\* popup_destroy, popup_resource_destroy
PopupDestroy(s) ==
  /\ Serving(s)
  /\ "popup" \in roles[s]
  /\ roles' = [roles EXCEPT ![s] = @ \ {"popup"}]
  /\ window' = [window EXCEPT ![s] = "none"]
  /\ StrandIfDue(s)
  /\ awaiting' = awaiting \ {s}
  /\ UNCHANGED <<surfaces, buffers, emitting, parent, held, busy, frames, feedbacks, leaked>>

GetSubsurface(s, p) ==
  /\ Serving(s)
  /\ "subsurface" \in RoleKinds
  /\ p \in surfaces
  /\ roles[s] \cap {"xdg_surface", "subsurface"} = {}
  /\ roles' = [roles EXCEPT ![s] = @ \cup {"subsurface"}]
  /\ parent' = [parent EXCEPT ![s] = p]
  /\ UNCHANGED <<surfaces, buffers, emitting, held, window, owed>>

\* subsurface_handle_destroy: the window stays.
SubsurfaceDestroy(s) ==
  /\ Serving(s)
  /\ IsSubsurface(s)
  /\ roles' = [roles EXCEPT ![s] = @ \ {"subsurface"}]
  /\ parent' = [parent EXCEPT ![s] = None]
  /\ UNCHANGED <<surfaces, buffers, emitting, held, window, owed>>

---------------------------------------------------------------------------
(* Requests on wl_surface *)

\* The buffers a client may attach: which ones it reuses before their
\* release is the environment's choice, bounded by Reuse.
MayAttach(s, b) ==
  /\ b = hold[s].current => "current" \in Reuse
  /\ b = hold[s].previous => "previous" \in Reuse

\* surface_attach: the old pending buffer is let go, the new one listened to.
Attach(s, b) ==
  /\ Serving(s)
  /\ b \in buffers /\ MayAttach(s, b)
  /\ links' = AddListener(LetGoPending(s), b, <<s, "pending">>)
  /\ hold' = [hold EXCEPT ![s].pending = b]
  /\ UNCHANGED <<scene, emitting, window, owed>>

AttachNull(s) ==
  /\ Serving(s)
  /\ hold[s].pending # None
  /\ links' = LetGoPending(s)
  /\ hold' = [hold EXCEPT ![s].pending = None]
  /\ UNCHANGED <<scene, emitting, window, owed>>

\* surface_frame
Frame(s) ==
  /\ Serving(s)
  /\ "frame" \in Callbacks
  /\ frames' = [frames EXCEPT ![s] = @ \cup {"waiting"}]
  /\ UNCHANGED <<scene, held, emitting, window, busy, awaiting, feedbacks, stranded, leaked>>

\* presentation_feedback_request
RequestFeedback(s) ==
  /\ Serving(s)
  /\ "feedback" \in Callbacks
  /\ feedbacks' = [feedbacks EXCEPT ![s] = @ \cup {"waiting"}]
  /\ UNCHANGED <<scene, held, emitting, window, busy, awaiting, frames, stranded, leaked>>

---------------------------------------------------------------------------
(***************************************************************************)
(* surface_commit.  One action for each way through it.  A commit of a     *)
(* surface that has no window and gets none changes nothing here.          *)
(***************************************************************************)

\* A subsurface whose parent has no window: the callbacks are done at once,
\* the pending buffer waits.
CommitParentNotReady(s) ==
  /\ Serving(s)
  /\ IsSubsurface(s) /\ ~ParentReady(s)
  /\ frames' = [frames EXCEPT ![s] = {}]
  /\ UNCHANGED <<scene, held, emitting, window, busy, awaiting, feedbacks, stranded, leaked>>

\* Nothing attached: what was due is answered now, with no new frame.
CommitNoBuffer(s) ==
  /\ CommitProceeds(s)
  /\ window[s] # "none"
  /\ hold[s].pending = None
  /\ \/ /\ hold[s].current = None
        /\ frames' = [frames EXCEPT ![s] = {}]
        /\ UNCHANGED <<held, busy, feedbacks, stranded>>
     \/ /\ hold[s].current # None
        /\ AnswerAll(s, links, hold[s], busy[s])
  /\ UNCHANGED <<scene, emitting, window, awaiting, leaked>>

(***************************************************************************)
(* The buffer is attached to the window and committed; Plexy will report   *)
(* the frame done if the window has callbacks.                             *)
(***************************************************************************)
CommitShown(s, w) ==
  /\ "shown" \in Outcomes
  /\ CommitProceeds(s) /\ WindowAtCommit(s, w)
  /\ hold[s].pending # None
  /\ window' = [window EXCEPT ![s] = w]
  /\ links' = LatchedLinks(s)
  /\ hold' = [hold EXCEPT ![s] = LatchedHold(s)]
  /\ busy' = [busy EXCEPT ![s] = (@ \cup {hold[s].pending}) \ ReleasedByLatch(s)]
  /\ frames' = [frames EXCEPT ![s] = Arm(@)]
  /\ feedbacks' = [feedbacks EXCEPT ![s] = Arm(@)]
  /\ awaiting' = IF w = "full" THEN awaiting \cup {s} ELSE awaiting
  /\ stranded' = IF w = "full" THEN stranded \ {s} ELSE stranded
  /\ leaked' = leaked \cup LeakedByLatch(s)
  /\ UNCHANGED <<scene, emitting>>

\* plexy_window_attach failed, or no readback of a DMA-BUF was possible:
\* the pointers rotate all the same and everything due is answered.
CommitNotShown(s, w) ==
  /\ "not_shown" \in Outcomes
  /\ CommitProceeds(s) /\ WindowAtCommit(s, w)
  /\ hold[s].pending # None
  /\ window' = [window EXCEPT ![s] = w]
  /\ AnswerAll(s, LatchedLinks(s), LatchedHold(s),
               (busy[s] \cup {hold[s].pending}) \ ReleasedByLatch(s))
  /\ leaked' = leaked \cup LeakedByLatch(s)
  /\ UNCHANGED <<scene, emitting, awaiting>>

(***************************************************************************)
(* The exits in the middle: no viewport mapping, no Plexy buffers, a       *)
(* failed copy.  pending_buffer is cleared, its listener stays linked, the *)
(* buffer is never released and the callbacks are not answered.            *)
(***************************************************************************)
CommitAbandoned(s, w) ==
  /\ "abandoned" \in Outcomes
  /\ CommitProceeds(s) /\ WindowAtCommit(s, w)
  /\ hold[s].pending # None
  /\ window' = [window EXCEPT ![s] = w]
  /\ hold' = [hold EXCEPT ![s].pending = None]
  /\ busy' = [busy EXCEPT ![s] = @ \cup {hold[s].pending}]
  /\ frames' = [frames EXCEPT ![s] = Arm(@)]
  /\ feedbacks' = [feedbacks EXCEPT ![s] = Arm(@)]
  /\ leaked' = leaked \cup {s}
  /\ UNCHANGED <<scene, emitting, links, awaiting, stranded>>

\* The buffer is of neither kind (a single-pixel buffer is such a one): it
\* is dropped, its listener stays linked, and the commit goes on without it.
CommitUnknownType(s) ==
  LET dropped == [hold[s] EXCEPT !.pending = None]
      inUse   == busy[s] \cup {hold[s].pending}
  IN
  /\ "unknown_type" \in Outcomes
  /\ CommitProceeds(s)
  /\ window[s] # "none"
  /\ hold[s].pending # None
  /\ \/ /\ hold[s].current = None
        /\ frames' = [frames EXCEPT ![s] = {}]
        /\ hold' = [hold EXCEPT ![s] = dropped]
        /\ busy' = [busy EXCEPT ![s] = inUse]
        /\ UNCHANGED <<links, feedbacks, stranded>>
     \/ /\ hold[s].current # None
        /\ AnswerAll(s, links, dropped, inUse)
  /\ leaked' = leaked \cup {s}
  /\ UNCHANGED <<scene, emitting, window, awaiting>>

---------------------------------------------------------------------------
(* Events from Plexy *)

\* forward_frame_done
FrameDone(s) ==
  /\ Serving(s)
  /\ s \in awaiting
  /\ awaiting' = awaiting \ {s}
  /\ AnswerAll(s, links, hold[s], busy[s])
  /\ UNCHANGED <<scene, emitting, window, leaked>>

---------------------------------------------------------------------------
Lifecycle ==
  \/ \E s \in Surface : CreateSurface(s) \/ DestroySurface(s)
  \/ \E b \in Buffer : CreateBuffer(b) \/ DestroyBuffer(b)
  \/ NotifyDestroy
  \/ FreeBuffer

Roles ==
  \E s \in Surface :
    \/ GetXdgSurface(s) \/ XdgSurfaceDestroy(s)
    \/ GetToplevel(s) \/ GetPopup(s) \/ PopupDestroy(s)
    \/ \E p \in Surface \ {s} : GetSubsurface(s, p)
    \/ SubsurfaceDestroy(s)

Requests ==
  \E s \in Surface :
    \/ \E b \in Buffer : Attach(s, b)
    \/ AttachNull(s)
    \/ Frame(s)
    \/ RequestFeedback(s)
    \/ CommitParentNotReady(s)
    \/ CommitNoBuffer(s)
    \/ \E w \in {"full", "bare"} :
         CommitShown(s, w) \/ CommitNotShown(s, w) \/ CommitAbandoned(s, w)
    \/ CommitUnknownType(s)

Next == Lifecycle \/ Roles \/ Requests \/ \E s \in Surface : FrameDone(s)

Spec == Init /\ [][Next]_vars

(***************************************************************************)
(* The loop of a destroy signal runs on the event-loop thread until it     *)
(* ends, and Plexy reports every committed frame done in the end.  Nothing *)
(* is assumed of the clients.                                              *)
(***************************************************************************)
Fairness ==
  /\ WF_vars(NotifyDestroy)
  /\ WF_vars(FreeBuffer)
  /\ \A s \in Surface : SF_vars(FrameDone(s))

FairSpec == Spec /\ Fairness

---------------------------------------------------------------------------
(* Properties *)

\* The list each node is meant to be in: a live buffer heads its own, a
\* listener is in the one of the buffer its slot points to.
HomeOf(slots, live) ==
  [n \in Node |-> IF n \in Buffer
                  THEN IF n \in live THEN n ELSE None
                  ELSE slots[n[1]][n[2]]]

Home == HomeOf(hold, buffers)

(***************************************************************************)
(* Every listener is in the list of the buffer its pointer holds, and in   *)
(* no other, and every destroy signal reaches exactly those: the pointer   *)
(* moves of attach, of the rotation in commit, of frame_done and of        *)
(* surface destruction keep pointers and lists together.  They come apart  *)
(* in no other way than by the exits of commit that record a leak.         *)
(***************************************************************************)
ListenersMatchPointers == leaked = {} => Rings(links, Home, None)

(***************************************************************************)
(* No surface points to a buffer that is gone, so wl_buffer.release is     *)
(* never sent to a freed resource, however destruction interleaves with    *)
(* attach and commit.                                                      *)
(***************************************************************************)
HeldBuffersExist ==
  \A s \in Surface : \A k \in Slot : hold[s][k] # None => hold[s][k] \in buffers

(***************************************************************************)
(* The listener popped by a destroy signal belongs to an existing surface  *)
(* and its slot holds the buffer being destroyed: "Pending buffer          *)
(* destroyed" (and its two siblings) is said of the buffer that is.        *)
(***************************************************************************)
NotifiedSlotHoldsBuffer ==
  emitting # None =>
    LET l == links.nxt[emitting]
    IN  l \in Listener => l[1] \in surfaces /\ hold[l[1]][l[2]] = emitting

(***************************************************************************)
(* The client's view of which buffers a surface uses, computed from the    *)
(* requests it sent and the releases it got alone, is the bridge's: no     *)
(* buffer in use is released, none that is not stays unreleased.           *)
(***************************************************************************)
ReleaseAccounting ==
  emitting = None =>
    \A s \in surfaces : busy[s] = {hold[s].current, hold[s].previous} \ {None}

(***************************************************************************)
(* Whatever waits for a frame_done has one coming: committed callbacks,    *)
(* presentation feedback and the replaced buffer of a window with          *)
(* callbacks, unless they were stranded by a change of the window.         *)
(***************************************************************************)
FrameDoneOwed ==
  \A s \in surfaces :
    window[s] = "full" /\ s \notin stranded /\ Due(s) => s \in awaiting

(***************************************************************************)
(* The inductive invariant behind the three properties above.  What they   *)
(* lack: a surface that does not exist holds nothing, the buffer whose     *)
(* signal is emitted is still there, and every listener can be reached     *)
(* from the head of its list, so that the emission misses none.            *)
(***************************************************************************)
Detached == \A s \in Surface \ surfaces : hold[s] = NoHold

EmittingExists == emitting # None => emitting \in buffers

Sound ==
  leaked = {} =>
    /\ TypeOK
    /\ Detached
    /\ EmittingExists
    /\ HeldBuffersExist
    /\ WellLinked(links, Home, None)

(***************************************************************************)
(* What a leak cannot break.  Only the pending listener is ever forgotten, *)
(* so only its node may be linked while others still point to it, and      *)
(* every corruption of the lists goes through it or through the head of a  *)
(* dead buffer.  A pointer to one of the other listeners is always         *)
(* answered by one back, and nothing points to one that listens to         *)
(* nothing.                                                                *)
(***************************************************************************)
Steady == Surface \X {"current", "previous"}

Mutual(h) ==
  \A x \in Steady, u \in Node : /\ h.nxt[u] = x => h.prv[x] = u
                                /\ h.prv[u] = x => h.nxt[x] = u

Loose(h, x) == \A u \in Node \ {x} : h.nxt[u] # x /\ h.prv[u] # x

\* The lists h against the slots of the surfaces present: the previous
\* pointers named are those that the list operations of the bridge follow.
Sturdy(h, slots, present) ==
  /\ h \in Heap(Node, None)
  /\ Mutual(h)
  /\ \A x \in Steady : slots[x[1]][x[2]] = None => Loose(h, x)
  /\ \A b \in Buffer : h.prv[b] # None
  /\ \A s \in present : h.prv[<<s, "pending">>] # None
  /\ \A x \in Listener : slots[x[1]][x[2]] # None => h.prv[x] # None

(***************************************************************************)
(* Whatever was leaked, and however attach, commit, frame_done and the     *)
(* destructions of buffers and surfaces follow one another: an insertion   *)
(* finds the end of its list and a removal the node before, so the state   *)
(* keeps its type.  (The node after may be null once the surface of a      *)
(* forgotten listener is freed.  The bridge crashes there; the write       *)
(* through null is none here, and what is shown holds up to that point.)   *)
(***************************************************************************)
Intact == TypeOK /\ Detached /\ Sturdy(links, hold, surfaces)

\* A client that reuses no current buffer never commits one twice in a row.
Fresh ==
  \A s \in Surface : hold[s].pending # None => hold[s].pending # hold[s].current

(***************************************************************************)
(* What a shown commit leaves due is answered while the window stays: the  *)
(* client gets its callbacks and its replaced buffer back.                 *)
(***************************************************************************)
DueIsAnswered ==
  \A s \in Surface :
    (Due(s) /\ window[s] = "full" /\ s \notin stranded)
      ~> (~Due(s) \/ window[s] # "full" \/ s \in stranded)

(***************************************************************************)
(* BufferHold, with a buffer gone from the start of its destroy signal on. *)
(* The signal then moves nothing any more: popping its listeners and the   *)
(* freeing of the resource are steps that nobody sees.                     *)
(***************************************************************************)
VisibleHold ==
  [s \in Surface |-> [k \in Slot |->
     IF hold[s][k] = emitting THEN None ELSE hold[s][k]]]

Abstract == INSTANCE BufferHold WITH buffers <- buffers \ {emitting},
                                     hold <- VisibleHold

\* The pointers, the listeners and the stepwise signal together do what the
\* one-step destruction of BufferHold does, and no pointer moves otherwise.
ImplementsBufferHold == Abstract!Spec
===========================================================================
