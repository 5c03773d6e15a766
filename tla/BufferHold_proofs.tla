-------------------------- MODULE BufferHold_proofs -------------------------
(***************************************************************************)
(* What follows from the soundness of SurfaceBuffers, for every number of  *)
(* surfaces and buffers and without the leaking exits of commit: it        *)
(* implements BufferHold, every answer the client waits for has a          *)
(* frame_done coming, and the buffers in use are those it has not got      *)
(* back.                                                                   *)
(***************************************************************************)
EXTENDS SurfaceBuffers_proofs

---------------------------------------------------------------------------
(***************************************************************************)
(* SurfaceBuffers implements BufferHold.                                   *)
(***************************************************************************)

\* The three things every step keeps, and what a notification says.
Kept == leaked = {} /\ Sound /\ Fresh /\ NotifiedSlotHoldsBuffer

\* They hold in every reachable state.
LEMMA Keeps == ASSUME NoLeakingExit PROVE Spec => []Kept
  BY NothingLeaks, NotificationsAreTrue, PTL DEF Kept

\* Nothing is hidden while no signal is emitted.
LEMMA AllVisible ==
  ASSUME Sound, leaked = {}, emitting = None
  PROVE  VisibleHold = hold /\ buffers \ {emitting} = buffers
<1>1. hold \in Slots /\ None \notin buffers
  BY GoodIsSound, HoldType, SurfaceBuffersAssumption DEF Good, TypeOK, Node
<1> QED
  BY <1>1 DEF VisibleHold, Slots

\* The initial state maps to the initial state.
LEMMA InitImplements == Init => Abstract!Init
<1> SUFFICES ASSUME Init PROVE Abstract!Init
  OBVIOUS
<1>1. surfaces = {} /\ buffers \ {emitting} = {}
  BY DEF Init
<1>2. VisibleHold = [s \in Surface |-> Abstract!Nothing]
  BY DEF Init, VisibleHold, NoHold, Slot, Abstract!Nothing
<1> QED
  BY <1>1, <1>2 DEF Abstract!Init
\* With no signal emitted before or after it, a step of the pointers is a
\* step of the promise with the same pointers.
LEMMA SameEyes ==
  ASSUME Kept, Kept', emitting = None, emitting' = None
  PROVE  /\ VisibleHold = hold /\ VisibleHold' = hold'
         /\ buffers \ {emitting} = buffers /\ (buffers \ {emitting})' = buffers'
         /\ hold \in Slots
<1>1. VisibleHold = hold /\ buffers \ {emitting} = buffers
  BY AllVisible DEF Kept
<1>2. hold \in Slots /\ hold' \in Slots /\ None \notin buffers'
  BY GoodIsSound, HoldType, SurfaceBuffersAssumption DEF Kept, Sound, TypeOK, Node, Slots
<1>3. VisibleHold' = hold'
  BY <1>2 DEF VisibleHold, Slots
<1> QED
  BY <1>1, <1>2, <1>3

\* Creation and destruction of surfaces and buffers, signals included.
LEMMA LifecycleImplements ==
  ASSUME Kept, Kept', Lifecycle
  PROVE  [Abstract!Next]_(Abstract!vars)
<1>0. /\ hold \in Slots /\ hold' \in Slots
      /\ None \notin Buffer /\ buffers \subseteq Buffer /\ buffers' \subseteq Buffer
  BY SurfaceBuffersAssumption DEF Kept, Sound, TypeOK, Node, Slots
<1>1. ASSUME NEW s \in Surface, CreateSurface(s) PROVE Abstract!Create(s)
  <2>1. emitting = None /\ emitting' = None /\ s \notin surfaces
    BY <1>1 DEF CreateSurface
  <2>2. hold[s] = NoHold
    BY <2>1 DEF Kept, Sound, Detached
  <2>3. hold' = hold
    BY <1>0, <1>1, <2>2 DEF CreateSurface, Slots
  <2> QED
    BY <1>1, <2>1, <2>3, SameEyes DEF CreateSurface, Abstract!Create
<1>2. ASSUME NEW s \in Surface, DestroySurface(s) PROVE Abstract!Destroy(s)
  <2>1. emitting = None /\ emitting' = None
    BY <1>2 DEF DestroySurface, Serving
  <2>2. NoHold = Abstract!Nothing
    BY DEF NoHold, Slot, Abstract!Nothing
  <2> QED
    BY <1>2, <2>1, <2>2, SameEyes DEF DestroySurface, Serving, Abstract!Destroy
<1>3. ASSUME NEW b \in Buffer, CreateBuffer(b) PROVE Abstract!Import(b)
  <2>1. emitting = None /\ emitting' = None
    BY <1>3 DEF CreateBuffer
  <2> QED
    BY <1>3, <2>1, SameEyes DEF CreateBuffer, Abstract!Import
<1>4. ASSUME NEW b \in Buffer, DestroyBuffer(b) PROVE Abstract!Forget(b)
  <2>1. /\ emitting = None /\ emitting' = b /\ b \in buffers
        /\ buffers' = buffers /\ hold' = hold /\ surfaces' = surfaces
    BY <1>4 DEF DestroyBuffer, scene, held
  <2>2. VisibleHold = hold /\ buffers \ {emitting} = buffers
    BY <2>1, AllVisible DEF Kept
  <2>3. VisibleHold' = [s \in Surface |-> [k \in DOMAIN hold[s] |->
                          IF hold[s][k] = b THEN None ELSE hold[s][k]]]
    BY <1>0, <2>1 DEF VisibleHold, Slots
  <2> QED
    BY <2>1, <2>2, <2>3 DEF Abstract!Forget
<1>5. CASE NotifyDestroy
  <2>0. PICK s \in Surface, k \in Slot : links.nxt[emitting] = <<s, k>>
    BY <1>5 DEF NotifyDestroy, Listener
  <2>1. hold' = [hold EXCEPT ![s] = [@ EXCEPT ![k] = None]]
    BY <1>5, <2>0 DEF NotifyDestroy
  <2>2. /\ emitting' = emitting /\ buffers' = buffers /\ surfaces' = surfaces
        /\ emitting # None
    BY <1>5 DEF NotifyDestroy, scene
  <2>3. hold[s][k] = emitting
    BY <2>0, <2>2 DEF Kept, NotifiedSlotHoldsBuffer, Listener
  <2>4. VisibleHold' = VisibleHold
    BY <1>0, <2>1, <2>2, <2>3 DEF VisibleHold, Slots
  <2> QED
    BY <2>2, <2>4 DEF Abstract!vars
<1>6. CASE FreeBuffer
  <2>1. /\ emitting # None /\ emitting' = None /\ surfaces' = surfaces
        /\ buffers' = buffers \ {emitting} /\ hold' = hold
    BY <1>6 DEF FreeBuffer, held
  <2>2. \A s \in Surface, k \in Slot : hold[s][k] # emitting
    BY <2>1 DEF Kept, Sound, HeldBuffersExist
  <2>3. VisibleHold' = VisibleHold
    BY <1>0, <2>1, <2>2 DEF VisibleHold
  <2>4. (buffers \ {emitting})' = buffers \ {emitting}
    BY <1>0, <2>1
  <2> QED
    BY <2>1, <2>3, <2>4 DEF Abstract!vars
<1> QED
  BY <1>1, <1>2, <1>3, <1>4, <1>5, <1>6 DEF Lifecycle, Abstract!Next

\* Requests on a surface, and the frame_done that answers one.
LEMMA RequestsImplement ==
  ASSUME NoLeakingExit, Kept, Kept',
         Requests \/ \E s \in Surface : FrameDone(s)
  PROVE  [Abstract!Next]_(Abstract!vars)
<1>0. PICK s \in Surface :
        /\ Serving(s) /\ emitting' = emitting
        /\ surfaces' = surfaces /\ buffers' = buffers
        /\ \/ hold' = hold
           \/ \E b \in buffers \cup {None} : hold' = [hold EXCEPT ![s].pending = b]
           \/ hold' = [hold EXCEPT ![s] = HoldAfterRelease(hold[s])]
           \/ /\ hold[s].pending # None
              /\ \/ hold' = [hold EXCEPT ![s] = LatchedHold(s)]
                 \/ hold' = [hold EXCEPT ![s] = HoldAfterRelease(LatchedHold(s))]
  <2>1. CASE \E s \in Surface : FrameDone(s)
    BY <2>1 DEF FrameDone, AnswerAll, scene
  <2>2. CASE Requests
    <3>1. PICK s \in Surface :
            \/ \E b \in Buffer : Attach(s, b)
            \/ AttachNull(s)
            \/ Frame(s) \/ RequestFeedback(s) \/ CommitParentNotReady(s)
            \/ CommitNoBuffer(s)
            \/ \E w \in {"full", "bare"} :
                 CommitShown(s, w) \/ CommitNotShown(s, w) \/ CommitAbandoned(s, w)
            \/ CommitUnknownType(s)
      BY <2>2 DEF Requests
    <3>2. CASE \E b \in Buffer : Attach(s, b)
      BY <3>2 DEF Attach, scene
    <3>3. CASE AttachNull(s)
      BY <3>3 DEF AttachNull, scene
    <3>4. CASE Frame(s) \/ RequestFeedback(s) \/ CommitParentNotReady(s)
      BY <3>4 DEF Frame, RequestFeedback, CommitParentNotReady, scene, held
    <3>5. CASE CommitNoBuffer(s)
      BY <3>5 DEF CommitNoBuffer, CommitProceeds, AnswerAll, scene, held
    <3>6. CASE \E w \in {"full", "bare"} : CommitShown(s, w)
      BY <3>6 DEF CommitShown, CommitProceeds, scene
    <3>7. CASE \E w \in {"full", "bare"} : CommitNotShown(s, w)
      BY <3>7 DEF CommitNotShown, CommitProceeds, AnswerAll, scene
    <3>8. CASE \/ \E w \in {"full", "bare"} : CommitAbandoned(s, w)
               \/ CommitUnknownType(s)
      BY <3>8 DEF CommitAbandoned, CommitUnknownType, NoLeakingExit
    <3> QED
      BY <3>1, <3>2, <3>3, <3>4, <3>5, <3>6, <3>7, <3>8
  <2> QED
    BY <2>1, <2>2
<1>1. /\ VisibleHold = hold /\ VisibleHold' = hold'
      /\ buffers \ {emitting} = buffers /\ (buffers \ {emitting})' = buffers'
      /\ hold \in Slots /\ s \in surfaces
  BY <1>0, SameEyes DEF Serving
<1>2. CASE hold' = hold
  BY <1>0, <1>1, <1>2 DEF Abstract!vars
<1>3. CASE \E b \in buffers \cup {None} : hold' = [hold EXCEPT ![s].pending = b]
  <2>1. PICK b \in buffers \cup {None} : Abstract!Attach(s, b)
    BY <1>0, <1>1, <1>3 DEF Abstract!Attach
  <2>2. b \in Buffer \cup {None}
    BY DEF Kept, Sound, TypeOK
  <2> QED
    BY <2>1, <2>2 DEF Abstract!Next
<1>4. CASE hold' = [hold EXCEPT ![s] = HoldAfterRelease(hold[s])]
  <2>1. Abstract!Release(s)
    BY <1>0, <1>1, <1>4 DEF HoldAfterRelease, Abstract!Release, Slots
  <2> QED
    BY <2>1 DEF Abstract!Next
<1>5. CASE /\ hold[s].pending # None
           /\ \/ hold' = [hold EXCEPT ![s] = LatchedHold(s)]
              \/ hold' = [hold EXCEPT ![s] = HoldAfterRelease(LatchedHold(s))]
  <2>1. LatchedHold(s) = RotatedHold(s)
    BY <1>5 DEF Kept, Fresh, LatchedHold
  <2>2. \E kept \in BOOLEAN :
          hold' = [hold EXCEPT ![s] = [k \in Slot |->
                    CASE k = "pending" -> None
                      [] k = "current" -> hold[s].pending
                      [] OTHER -> IF kept THEN hold[s].current ELSE None]]
    BY <1>1, <1>5, <2>1 DEF RotatedHold, HoldAfterRelease, Slots, Slot
  <2>3. \E kept \in BOOLEAN : Abstract!Latch(s, kept)
    BY <1>0, <1>1, <1>5, <2>2 DEF Abstract!Latch, Slot
  <2> QED
    BY <2>3 DEF Abstract!Next
<1> QED
  BY <1>0, <1>2, <1>3, <1>4, <1>5

\* Every step of the bridge is a step of the promise or none at all.
LEMMA NextImplements ==
  ASSUME NoLeakingExit, Kept, Kept', [Next]_vars
  PROVE  [Abstract!Next]_(Abstract!vars)
<1>1. CASE Roles
  <2>1. UNCHANGED <<surfaces, buffers, emitting, hold>>
    BY <1>1 DEF Roles, GetXdgSurface, XdgSurfaceDestroy, GetToplevel, GetPopup,
                PopupDestroy, GetSubsurface, SubsurfaceDestroy, held, scene
  <2> QED
    BY <2>1 DEF Abstract!vars, VisibleHold
<1>2. CASE UNCHANGED vars
  BY <1>2 DEF vars, Abstract!vars, VisibleHold
<1> QED
  BY <1>1, <1>2, LifecycleImplements, RequestsImplement DEF Next

(***************************************************************************)
(* Listeners and the stepwise destroy signal implement the promise: with   *)
(* no leaking exit, every behaviour is one of BufferHold, in which a       *)
(* destroyed buffer leaves all the surfaces in one step.                   *)
(***************************************************************************)
THEOREM Implements == ASSUME NoLeakingExit PROVE Spec => ImplementsBufferHold
<1>1. Kept /\ Kept' /\ [Next]_vars => [Abstract!Next]_(Abstract!vars)
  BY NextImplements
<1> QED
  BY <1>1, InitImplements, Keeps, PTL DEF Spec, ImplementsBufferHold, Abstract!Spec

---------------------------------------------------------------------------
(***************************************************************************)
(* What is due to the client: every answer has a frame_done coming, and    *)
(* the buffers in use are those it has not got back.                       *)
(***************************************************************************)

\* The type invariant, in the form the steps below use.
LEMMA Typed == ASSUME NoLeakingExit PROVE Spec => [](TypeOK /\ Detached)
<1>1. leaked = {} /\ Sound /\ Fresh => TypeOK /\ Detached
  BY DEF Sound
<1> QED
  BY <1>1, NothingLeaks, PTL

---------------------------------------------------------------------------
(* Frame_done is owed *)

\* FrameDoneOwed without the restriction to existing surfaces: the window and
\* the debts of a surface that is created are those it had before.
OwedEverywhere ==
  \A s \in Surface :
    window[s] = "full" /\ s \notin stranded /\ Due(s) => s \in awaiting

\* An answer leaves nothing due on its surface and the others as they were.
LEMMA NothingDue ==
  ASSUME TypeOK, NEW s \in Surface, NEW h, NEW inUse,
         NEW r \in [Slot -> Buffer \cup {None}], AnswerAll(s, h, r, inUse)
  PROVE  /\ ~Due(s)'
         /\ \A t \in Surface \ {s} :
              /\ frames'[t] = frames[t] /\ feedbacks'[t] = feedbacks[t]
              /\ hold'[t] = hold[t] /\ (t \in stranded' <=> t \in stranded)
<1>1. /\ frames' = [frames EXCEPT ![s] = {}]
      /\ feedbacks' = [feedbacks EXCEPT ![s] = {}]
      /\ hold' = [hold EXCEPT ![s] = [r EXCEPT !["previous"] = None]]
      /\ stranded' = stranded \ {s}
  BY DEF AnswerAll, HoldAfterRelease
<1>2. hold'[s].previous = None
  BY <1>1 DEF TypeOK, Slot
<1> QED
  BY <1>1, <1>2 DEF TypeOK, Due

\* The steps of a surface that change its window record what they strand.
LEMMA OwedRoles ==
  ASSUME TypeOK, OwedEverywhere, Roles
  PROVE  OwedEverywhere'
<1>1. PICK s \in Surface :
        \/ GetXdgSurface(s) \/ XdgSurfaceDestroy(s)
        \/ GetToplevel(s) \/ GetPopup(s) \/ PopupDestroy(s)
        \/ \E p \in Surface \ {s} : GetSubsurface(s, p)
        \/ SubsurfaceDestroy(s)
  BY DEF Roles
<1>2. CASE \/ GetXdgSurface(s) \/ XdgSurfaceDestroy(s) \/ SubsurfaceDestroy(s)
           \/ \E p \in Surface \ {s} : GetSubsurface(s, p)
  <2>1. UNCHANGED <<hold, window, frames, feedbacks, awaiting, stranded>>
    BY <1>2 DEF GetXdgSurface, XdgSurfaceDestroy, SubsurfaceDestroy, GetSubsurface,
                held, owed, due
  <2> QED
    BY <2>1 DEF OwedEverywhere, Due
<1>3. CASE GetToplevel(s)
  <2>1. /\ UNCHANGED <<hold, frames, feedbacks, awaiting>>
        /\ \A t \in Surface \ {s} : window'[t] = window[t]
        /\ IF s \in awaiting THEN stranded' = stranded ELSE StrandIfDue(s)
    BY <1>3 DEF GetToplevel, held, TypeOK
  <2> QED
    BY <2>1 DEF OwedEverywhere, Due, StrandIfDue
<1>4. CASE GetPopup(s) \/ PopupDestroy(s)
  <2>1. /\ UNCHANGED <<hold, frames, feedbacks>>
        /\ awaiting' = awaiting \ {s}
        /\ \A t \in Surface \ {s} : window'[t] = window[t]
        /\ StrandIfDue(s)
    BY <1>4 DEF GetPopup, PopupDestroy, held, TypeOK
  <2> QED
    BY <2>1 DEF OwedEverywhere, Due, StrandIfDue
<1> QED
  BY <1>1, <1>2, <1>3, <1>4

\* Creation, destruction, and the steps of a destroy signal.
LEMMA OwedLifecycle ==
  ASSUME TypeOK, Detached, OwedEverywhere, Lifecycle
  PROVE  OwedEverywhere'
<1>1. ASSUME NEW s \in Surface, CreateSurface(s) PROVE OwedEverywhere'
  <2>1. /\ UNCHANGED <<window, frames, feedbacks, awaiting, stranded>>
        /\ hold' = [hold EXCEPT ![s] = NoHold] /\ s \notin surfaces
    BY <1>1 DEF CreateSurface, due
  <2>2. hold' = hold
    BY <2>1 DEF Detached, TypeOK
  <2> QED
    BY <2>1, <2>2 DEF OwedEverywhere, Due
<1>2. ASSUME NEW s \in Surface, DestroySurface(s) PROVE OwedEverywhere'
  <2>1. /\ window'[s] = "none"
        /\ \A t \in Surface \ {s} :
             /\ window'[t] = window[t] /\ frames'[t] = frames[t]
             /\ feedbacks'[t] = feedbacks[t] /\ hold'[t] = hold[t]
             /\ (t \in awaiting' <=> t \in awaiting)
             /\ (t \in stranded' <=> t \in stranded)
    BY <1>2 DEF DestroySurface, TypeOK
  <2> QED
    BY <2>1 DEF OwedEverywhere, Due
<1>3. ASSUME NEW b \in Buffer, CreateBuffer(b) \/ DestroyBuffer(b)
      PROVE  OwedEverywhere'
  <2>1. UNCHANGED <<hold, window, frames, feedbacks, awaiting, stranded>>
    BY <1>3 DEF CreateBuffer, DestroyBuffer, held, owed, due
  <2> QED
    BY <2>1 DEF OwedEverywhere, Due
<1>4. CASE NotifyDestroy
  <2>1. PICK s \in Surface, k \in Slot :
          hold' = [hold EXCEPT ![s] = [@ EXCEPT ![k] = None]]
    BY <1>4 DEF NotifyDestroy, Listener
  <2>2. UNCHANGED <<window, frames, feedbacks, awaiting, stranded>>
    BY <1>4 DEF NotifyDestroy, owed, due
  <2>3. \A t \in Surface : hold'[t].previous \in {hold[t].previous, None}
    BY <2>1 DEF TypeOK, Slot
  <2> QED
    BY <2>2, <2>3 DEF OwedEverywhere, Due
<1>5. CASE FreeBuffer
  <2>1. UNCHANGED <<hold, window, frames, feedbacks, awaiting, stranded>>
    BY <1>5 DEF FreeBuffer, held, due
  <2> QED
    BY <2>1 DEF OwedEverywhere, Due
<1> QED
  BY <1>1, <1>2, <1>3, <1>4, <1>5 DEF Lifecycle

\* What the pointers come to at a commit has the type of the pointers.
LEMMA LatchedType ==
  ASSUME TypeOK, NEW s \in Surface
  PROVE  LatchedHold(s) \in [Slot -> Buffer \cup {None}]
<1>1. /\ hold[s] \in [Slot -> Buffer \cup {None}]
      /\ {"pending", "current", "previous"} = Slot
  BY DEF TypeOK, Slot
<1> QED
  BY <1>1 DEF LatchedHold, RotatedHold

\* A commit arms callbacks only when Plexy will report the frame, and answers
\* what is due when it will not.
LEMMA OwedRequests ==
  ASSUME NoLeakingExit, TypeOK, OwedEverywhere, Requests
  PROVE  OwedEverywhere'
<1>1. PICK s \in Surface :
        \/ \E b \in Buffer : Attach(s, b)
        \/ AttachNull(s)
        \/ Frame(s) \/ RequestFeedback(s) \/ CommitParentNotReady(s)
        \/ CommitNoBuffer(s)
        \/ \E w \in {"full", "bare"} :
             CommitShown(s, w) \/ CommitNotShown(s, w) \/ CommitAbandoned(s, w)
        \/ CommitUnknownType(s)
  BY DEF Requests
<1>2. CASE AttachNull(s) \/ \E b \in Buffer : Attach(s, b)
  <2>1. UNCHANGED <<window, frames, feedbacks, awaiting, stranded>>
    BY <1>2 DEF Attach, AttachNull, owed, due
  <2>2. PICK b \in Buffer \cup {None} :
          hold' = [hold EXCEPT ![s] = [@ EXCEPT !["pending"] = b]]
    BY <1>2 DEF Attach, AttachNull
  <2>3. \A t \in Surface : hold'[t].previous = hold[t].previous
    BY <2>2 DEF TypeOK, Slot
  <2> QED
    BY <2>1, <2>3 DEF OwedEverywhere, Due
<1>3. CASE Frame(s) \/ RequestFeedback(s) \/ CommitParentNotReady(s)
  <2>1. UNCHANGED <<hold, window, awaiting, stranded>>
    BY <1>3 DEF Frame, RequestFeedback, CommitParentNotReady, held
  <2>2. \A t \in Surface :
          "armed" \in frames'[t] \cup feedbacks'[t]
            => "armed" \in frames[t] \cup feedbacks[t]
    BY <1>3 DEF Frame, RequestFeedback, CommitParentNotReady, TypeOK
  <2> QED
    BY <2>1, <2>2 DEF OwedEverywhere, Due
<1>4. CASE CommitNoBuffer(s)
  <2>1. UNCHANGED <<window, awaiting>>
    BY <1>4 DEF CommitNoBuffer
  <2>2. CASE /\ frames' = [frames EXCEPT ![s] = {}]
             /\ UNCHANGED <<held, feedbacks, stranded>>
    <3>1. \A t \in Surface : frames'[t] \subseteq frames[t]
      BY <2>2 DEF TypeOK
    <3> QED
      BY <2>1, <2>2, <3>1 DEF held, OwedEverywhere, Due
  <2>3. CASE AnswerAll(s, links, hold[s], busy[s])
    <3>1. hold[s] \in [Slot -> Buffer \cup {None}]
      BY DEF TypeOK
    <3> QED
      BY <2>1, <2>3, <3>1, NothingDue DEF OwedEverywhere, Due
  <2> QED
    BY <1>4, <2>2, <2>3 DEF CommitNoBuffer
<1>5. ASSUME NEW w \in {"full", "bare"}, CommitShown(s, w) PROVE OwedEverywhere'
  <2>1. /\ window'[s] = w
        /\ w = "full" => s \in awaiting'
        /\ \A t \in Surface \ {s} :
             /\ window'[t] = window[t] /\ frames'[t] = frames[t]
             /\ feedbacks'[t] = feedbacks[t] /\ hold'[t] = hold[t]
             /\ (t \in awaiting' <=> t \in awaiting)
             /\ (t \in stranded' <=> t \in stranded)
    BY <1>5 DEF CommitShown, TypeOK
  <2> QED
    BY <2>1 DEF OwedEverywhere, Due
<1>6. ASSUME NEW w \in {"full", "bare"}, CommitNotShown(s, w) PROVE OwedEverywhere'
  <2>1. /\ AnswerAll(s, LatchedLinks(s), LatchedHold(s),
                     (busy[s] \cup {hold[s].pending}) \ ReleasedByLatch(s))
        /\ awaiting' = awaiting
        /\ \A t \in Surface \ {s} : window'[t] = window[t]
    BY <1>6 DEF CommitNotShown, TypeOK
  <2>2. LatchedHold(s) \in [Slot -> Buffer \cup {None}]
    BY LatchedType
  <2>3. /\ ~Due(s)'
        /\ \A t \in Surface \ {s} :
             /\ frames'[t] = frames[t] /\ feedbacks'[t] = feedbacks[t]
             /\ hold'[t] = hold[t] /\ (t \in stranded' <=> t \in stranded)
    BY <2>1, <2>2, NothingDue
  <2> QED
    BY <2>1, <2>3 DEF OwedEverywhere, Due
<1>7. CASE \/ CommitUnknownType(s)
           \/ \E w \in {"full", "bare"} : CommitAbandoned(s, w)
  BY <1>7 DEF CommitUnknownType, CommitAbandoned, NoLeakingExit
<1> QED
  BY <1>1, <1>2, <1>3, <1>4, <1>5, <1>6, <1>7

\* Every step keeps the frame_done owed.
LEMMA OwedNext ==
  ASSUME NoLeakingExit, TypeOK, Detached, OwedEverywhere, [Next]_vars
  PROVE  OwedEverywhere'
<1>1. CASE \E s \in Surface : FrameDone(s)
  <2>1. PICK s \in Surface : FrameDone(s)
    BY <1>1
  <2>2. /\ AnswerAll(s, links, hold[s], busy[s])
        /\ window' = window /\ awaiting' = awaiting \ {s}
        /\ hold[s] \in [Slot -> Buffer \cup {None}]
    BY <2>1 DEF FrameDone, TypeOK
  <2>3. /\ ~Due(s)'
        /\ \A t \in Surface \ {s} :
             /\ frames'[t] = frames[t] /\ feedbacks'[t] = feedbacks[t]
             /\ hold'[t] = hold[t] /\ (t \in stranded' <=> t \in stranded)
    BY <2>2, NothingDue
  <2> QED
    BY <2>2, <2>3 DEF OwedEverywhere, Due
<1>2. CASE UNCHANGED vars
  BY <1>2 DEF vars, OwedEverywhere, Due
<1> QED
  BY <1>1, <1>2, OwedLifecycle, OwedRoles, OwedRequests DEF Next

(***************************************************************************)
(* Armed callbacks, armed feedback and a replaced buffer on a window with  *)
(* callbacks always have a frame_done coming, unless a change of the       *)
(* window stranded them.                                                   *)
(***************************************************************************)
THEOREM AnswersAreOwed == ASSUME NoLeakingExit PROVE Spec => []FrameDoneOwed
<1>1. Init => OwedEverywhere
  BY DEF Init, OwedEverywhere
<1>2. TypeOK /\ Detached /\ OwedEverywhere /\ [Next]_vars => OwedEverywhere'
  BY OwedNext
<1>3. OwedEverywhere /\ TypeOK => FrameDoneOwed
  BY DEF OwedEverywhere, FrameDoneOwed, TypeOK
<1> QED
  BY <1>1, <1>2, <1>3, Typed, PTL DEF Spec

---------------------------------------------------------------------------
(* Releases add up *)

\* The client attaches no buffer that the surface still uses.
NoReuse == NoLeakingExit /\ Reuse = {}

\* No buffer is in two slots of a surface.
Apart ==
  \A s \in Surface :
    /\ hold[s].pending # None => hold[s].pending \notin {hold[s].current, hold[s].previous}
    /\ hold[s].current # None => hold[s].current # hold[s].previous

\* ReleaseAccounting with the buffer left out whose destroy signal is being
\* emitted: some slots have been told and others not.
Balanced ==
  \A s \in surfaces :
    busy[s] \ {emitting} = {hold[s].current, hold[s].previous} \ {None, emitting}

\* The pointers of a surface, in the terms the accounts need.
LEMMA HeldType ==
  ASSUME TypeOK
  PROVE  /\ hold \in [Surface -> [Slot -> Buffer \cup {None}]]
         /\ busy \in [Surface -> SUBSET Buffer]
         /\ None \notin Buffer
         /\ "pending" \in Slot /\ "current" \in Slot /\ "previous" \in Slot
BY SurfaceBuffersAssumption DEF TypeOK, Slot, Node

\* A step that changes the pointers and the accounts of one surface only has
\* to balance that one.
LEMMA OneSurface ==
  ASSUME TypeOK, Apart, Balanced, emitting' = emitting,
         NEW s \in Surface, surfaces' = surfaces,
         NEW r \in [Slot -> Buffer \cup {None}], NEW inUse \in SUBSET Buffer,
         hold' = [hold EXCEPT ![s] = r], busy' = [busy EXCEPT ![s] = inUse],
         r["pending"] # None => r["pending"] \notin {r["current"], r["previous"]},
         r["current"] # None => r["current"] # r["previous"],
         inUse \ {emitting} = {r["current"], r["previous"]} \ {None, emitting}
  PROVE  Apart' /\ Balanced'
<1>1. /\ hold'[s] = r /\ busy'[s] = inUse
      /\ \A t \in Surface \ {s} : hold'[t] = hold[t] /\ busy'[t] = busy[t]
  BY HeldType
<1>2. Apart'
  BY <1>1 DEF Apart
<1>3. ASSUME NEW t \in surfaces PROVE
        busy'[t] \ {emitting} = {hold'[t].current, hold'[t].previous} \ {None, emitting}
  <2>1. CASE t = s
    BY <1>1, <2>1
  <2>2. CASE t # s
    <3>1. t \in Surface
      BY DEF TypeOK
    <3> QED
      BY <1>1, <2>2, <3>1 DEF Balanced
  <2> QED
    BY <2>1, <2>2
<1> QED
  BY <1>2, <1>3 DEF Balanced

\* What a commit makes of the pointers and the accounts, and after it the
\* release of the replaced buffer.
LEMMA LatchBalanced ==
  ASSUME TypeOK, Apart, Balanced, emitting = None,
         NEW s \in surfaces, hold[s].pending # None,
         NEW r, r = LatchedHold(s),
         NEW inUse, inUse = (busy[s] \cup {hold[s].pending}) \ ReleasedByLatch(s)
  PROVE  /\ r \in [Slot -> Buffer \cup {None}] /\ inUse \in SUBSET Buffer
         /\ r["pending"] = None
         /\ r["current"] # None /\ r["current"] # r["previous"]
         /\ inUse = {r["current"], r["previous"]} \ {None}
<1>0. s \in Surface
  BY DEF TypeOK
<1>1. hold[s].pending \notin {hold[s].current, hold[s].previous}
  BY <1>0 DEF Apart
<1>2. r = RotatedHold(s) /\ ReleasedByLatch(s) = {hold[s].previous}
  BY <1>1 DEF LatchedHold, ReleasedByLatch
<1>3. /\ r \in [Slot -> Buffer \cup {None}]
      /\ r["pending"] = None
      /\ r["current"] = hold[s].pending /\ r["previous"] = hold[s].current
  <2>1. hold[s] \in [Slot -> Buffer \cup {None}]
    BY <1>0, HeldType
  <2>2. r = [[[hold[s] EXCEPT !["pending"] = None]
                       EXCEPT !["current"] = hold[s].pending]
                       EXCEPT !["previous"] = hold[s].current]
    BY <1>2 DEF RotatedHold
  <2>3. {"pending", "current", "previous"} = Slot
    BY DEF Slot
  <2> QED
    BY <2>1, <2>2, <2>3
<1>4. busy[s] = {hold[s].current, hold[s].previous} \ {None} /\ busy[s] \subseteq Buffer
  <2>1. busy[s] \ {None} = {hold[s].current, hold[s].previous} \ {None, None}
    BY DEF Balanced
  <2> QED
    BY <1>0, <2>1, HeldType
<1>5. hold[s].current # None => hold[s].current # hold[s].previous
  BY <1>0 DEF Apart
<1>6. hold[s].pending \in Buffer
  BY <1>0, HeldType
<1>7. inUse = {hold[s].pending, hold[s].current} \ {None}
  BY <1>1, <1>2, <1>4, <1>5
<1>8. inUse \in SUBSET Buffer
  BY <1>4, <1>6
<1>9. inUse = {r["current"], r["previous"]} \ {None}
  BY <1>3, <1>7
<1>10. r["current"] # None /\ r["current"] # r["previous"]
  BY <1>1, <1>3
<1> QED
  BY <1>3, <1>8, <1>9, <1>10

\* The release of the previous buffer keeps the accounts balanced.
LEMMA AnswerBalanced ==
  ASSUME TypeOK, Apart, Balanced, emitting = None, emitting' = emitting,
         NEW s \in Surface, surfaces' = surfaces,
         NEW h, NEW r \in [Slot -> Buffer \cup {None}], NEW inUse \in SUBSET Buffer,
         AnswerAll(s, h, r, inUse),
         r["pending"] # None => r["pending"] \notin {r["current"], r["previous"]},
         r["current"] # None => r["current"] # r["previous"],
         inUse = {r["current"], r["previous"]} \ {None}
  PROVE  Apart' /\ Balanced'
<1> DEFINE kept == [r EXCEPT !["previous"] = None]
           rest == inUse \ {r["previous"]}
<1>1. hold' = [hold EXCEPT ![s] = kept] /\ busy' = [busy EXCEPT ![s] = rest]
  BY DEF AnswerAll, HoldAfterRelease
<1>2. /\ kept \in [Slot -> Buffer \cup {None}]
      /\ kept["pending"] = r["pending"] /\ kept["current"] = r["current"]
      /\ kept["previous"] = None
  BY HeldType DEF Slot
<1>3. rest \in SUBSET Buffer /\ rest = {r["current"]} \ {None}
  OBVIOUS
<1>4. rest \ {emitting} = {kept["current"], kept["previous"]} \ {None, emitting}
  BY <1>2, <1>3
<1> HIDE DEF kept, rest
<1> QED
  BY <1>1, <1>2, <1>3, <1>4, OneSurface

\* Destruction takes a buffer out of the accounts with its last pointer.
LEMMA LifecycleBalanced ==
  ASSUME TypeOK, TypeOK', HeldBuffersExist', NotifiedSlotHoldsBuffer,
         Detached, Apart, Balanced, Lifecycle
  PROVE  Apart' /\ Balanced'
<1>1. ASSUME NEW s \in Surface, CreateSurface(s) PROVE Apart' /\ Balanced'
  <2>1. /\ s \notin surfaces /\ surfaces' = surfaces \cup {s}
        /\ hold' = [hold EXCEPT ![s] = NoHold] /\ busy' = [busy EXCEPT ![s] = {}]
        /\ emitting' = emitting
    BY <1>1 DEF CreateSurface
  <2>2. hold' = hold /\ hold[s] = NoHold
    BY <2>1 DEF Detached, TypeOK
  <2>3. /\ busy'[s] = {} /\ hold'[s].current = None /\ hold'[s].previous = None
        /\ \A t \in surfaces : busy'[t] = busy[t]
    BY <2>1, <2>2, HeldType DEF NoHold, TypeOK
  <2>4. ASSUME NEW t \in surfaces'
        PROVE  busy'[t] \ {emitting'}
                 = {hold'[t].current, hold'[t].previous} \ {None, emitting'}
    <3>1. CASE t = s
      BY <2>3, <3>1
    <3>2. CASE t \in surfaces
      BY <2>1, <2>2, <2>3, <3>2 DEF Balanced
    <3> QED
      BY <2>1, <3>1, <3>2
  <2> QED
    BY <2>2, <2>4 DEF Apart, Balanced
<1>2. ASSUME NEW s \in Surface, DestroySurface(s) PROVE Apart' /\ Balanced'
  <2>1. /\ surfaces' = surfaces \ {s} /\ hold' = [hold EXCEPT ![s] = NoHold]
        /\ busy' = busy /\ emitting' = emitting
    BY <1>2 DEF DestroySurface
  <2>2. /\ hold'[s].pending = None /\ hold'[s].current = None
        /\ \A t \in Surface \ {s} : hold'[t] = hold[t]
    BY <2>1, HeldType DEF NoHold
  <2> QED
    BY <2>1, <2>2 DEF Apart, Balanced, TypeOK
<1>3. ASSUME NEW b \in Buffer, CreateBuffer(b) PROVE Apart' /\ Balanced'
  <2>1. UNCHANGED <<surfaces, hold, emitting, busy>>
    BY <1>3 DEF CreateBuffer, owed
  <2> QED
    BY <2>1 DEF Apart, Balanced
<1>4. ASSUME NEW b \in Buffer, DestroyBuffer(b) PROVE Apart' /\ Balanced'
  <2>1. UNCHANGED <<surfaces, hold, busy>> /\ emitting = None /\ emitting' = b
    BY <1>4 DEF DestroyBuffer, scene, held, owed
  <2>2. ASSUME NEW t \in surfaces
        PROVE  busy[t] \ {b} = {hold[t].current, hold[t].previous} \ {None, b}
    <3>1. busy[t] \ {None} = {hold[t].current, hold[t].previous} \ {None}
      BY <2>1 DEF Balanced
    <3>2. None \notin busy[t]
      BY HeldType DEF TypeOK
    <3> QED
      BY <3>1, <3>2
  <2> QED
    BY <2>1, <2>2 DEF Apart, Balanced
<1>5. CASE NotifyDestroy
  <2>1. PICK s \in surfaces, k \in Slot : links.nxt[emitting] = <<s, k>>
    BY <1>5 DEF NotifyDestroy, Listener
  <2>2. /\ hold' = [hold EXCEPT ![s] = [@ EXCEPT ![k] = None]] /\ emitting # None
        /\ UNCHANGED <<surfaces, busy, emitting>>
    BY <1>5, <2>1 DEF NotifyDestroy, scene, owed
  <2>3. s \in Surface /\ hold[s][k] = emitting
    BY <2>1, <2>2 DEF NotifiedSlotHoldsBuffer, Listener, TypeOK
  <2>4. /\ hold'[s] = [hold[s] EXCEPT ![k] = None]
        /\ \A t \in Surface \ {s} : hold'[t] = hold[t]
    BY <2>2, <2>3, HeldType
  <2>5. \A j \in Slot : hold'[s][j] = IF j = k THEN None ELSE hold[s][j]
    BY <2>3, <2>4, HeldType
  <2>6. Apart'
    BY <2>4, <2>5, HeldType DEF Apart
  <2>7. {hold'[s].current, hold'[s].previous} \ {None, emitting}
          = {hold[s].current, hold[s].previous} \ {None, emitting}
    BY <2>3, <2>5, HeldType
  <2>8. ASSUME NEW t \in surfaces
        PROVE  busy[t] \ {emitting}
                 = {hold'[t].current, hold'[t].previous} \ {None, emitting}
    BY <2>4, <2>7 DEF Balanced, TypeOK
  <2> QED
    BY <2>2, <2>6, <2>8 DEF Balanced
<1>6. CASE FreeBuffer
  <2>1. /\ UNCHANGED <<surfaces, hold>> /\ emitting' = None
        /\ buffers' = buffers \ {emitting}
        /\ busy' = [s \in Surface |-> busy[s] \ {emitting}]
    BY <1>6 DEF FreeBuffer, held
  <2>2. ASSUME NEW t \in surfaces
        PROVE  busy'[t] \ {None} = {hold[t].current, hold[t].previous} \ {None}
    <3>1. t \in Surface
      BY DEF TypeOK
    <3>2. hold[t].current # None => hold[t].current # emitting
      BY <2>1, <3>1, HeldType DEF HeldBuffersExist
    <3>3. hold[t].previous # None => hold[t].previous # emitting
      BY <2>1, <3>1, HeldType DEF HeldBuffersExist
    <3>4. busy'[t] = busy[t] \ {emitting} /\ None \notin busy[t]
      BY <2>1, <3>1, HeldType
    <3>5. busy[t] \ {emitting} = {hold[t].current, hold[t].previous} \ {None, emitting}
      BY DEF Balanced
    <3> QED
      BY <3>2, <3>3, <3>4, <3>5
  <2> QED
    BY <2>1, <2>2 DEF Apart, Balanced
<1> QED
  BY <1>1, <1>2, <1>3, <1>4, <1>5, <1>6 DEF Lifecycle

\* Requests and frame_done: each commit takes one buffer in use and gives back
\* the one before last, or more.
LEMMA RequestsBalanced ==
  ASSUME NoReuse, TypeOK, Apart, Balanced,
         Requests \/ \E s \in Surface : FrameDone(s)
  PROVE  Apart' /\ Balanced'
<1>1. ASSUME NEW s \in Surface, Serving(s)
      PROVE  /\ hold[s] \in [Slot -> Buffer \cup {None}] /\ busy[s] \in SUBSET Buffer
             /\ hold[s].pending # None
                  => hold[s].pending \notin {hold[s].current, hold[s].previous}
             /\ hold[s].current # None => hold[s].current # hold[s].previous
             /\ busy[s] = {hold[s].current, hold[s].previous} \ {None}
  <2>1. busy[s] \ {None} = {hold[s].current, hold[s].previous} \ {None, None}
    BY <1>1 DEF Serving, Balanced
  <2> QED
    BY <1>1, <2>1, HeldType DEF Apart
<1>2. CASE \E s \in Surface : FrameDone(s)
  <2>1. PICK s \in Surface : FrameDone(s)
    BY <1>2
  <2>2. /\ AnswerAll(s, links, hold[s], busy[s]) /\ Serving(s)
        /\ emitting = None /\ UNCHANGED <<emitting, surfaces>>
    BY <2>1 DEF FrameDone, scene, Serving
  <2> QED
    BY <1>1, <2>2, AnswerBalanced
<1>3. CASE Requests
  <2>1. PICK s \in Surface :
          \/ \E b \in Buffer : Attach(s, b)
          \/ AttachNull(s)
          \/ Frame(s) \/ RequestFeedback(s) \/ CommitParentNotReady(s)
          \/ CommitNoBuffer(s)
          \/ \E w \in {"full", "bare"} :
               CommitShown(s, w) \/ CommitNotShown(s, w) \/ CommitAbandoned(s, w)
          \/ CommitUnknownType(s)
    BY <1>3 DEF Requests
  <2>2. CASE AttachNull(s) \/ \E b \in Buffer : Attach(s, b)
    <3>1. PICK b \in Buffer \cup {None} :
            /\ hold' = [hold EXCEPT ![s] = [@ EXCEPT !["pending"] = b]]
            /\ b # None => b \notin {hold[s].current, hold[s].previous}
      BY <2>2 DEF Attach, AttachNull, MayAttach, NoReuse
    <3>2. UNCHANGED <<surfaces, emitting, busy>>
      BY <2>2 DEF Attach, AttachNull, scene, owed
    <3>3. /\ hold'[s].pending = b /\ hold'[s].current = hold[s].current
          /\ hold'[s].previous = hold[s].previous
          /\ \A t \in Surface \ {s} : hold'[t] = hold[t]
      BY <3>1, HeldType
    <3>4. Apart'
      BY <3>1, <3>3 DEF Apart
    <3>5. Balanced'
      BY <3>2, <3>3 DEF Balanced, TypeOK
    <3> QED
      BY <3>4, <3>5
  <2>3. CASE Frame(s) \/ RequestFeedback(s) \/ CommitParentNotReady(s)
    <3>1. UNCHANGED <<surfaces, hold, emitting, busy>>
      BY <2>3 DEF Frame, RequestFeedback, CommitParentNotReady, scene, held
    <3> QED
      BY <3>1 DEF Apart, Balanced
  <2>4. CASE CommitNoBuffer(s)
    <3>1. Serving(s) /\ emitting = None /\ UNCHANGED <<emitting, surfaces>>
      BY <2>4 DEF CommitNoBuffer, CommitProceeds, Serving, scene
    <3>2. CASE UNCHANGED <<held, busy>>
      BY <3>1, <3>2 DEF Apart, Balanced, held
    <3>3. CASE AnswerAll(s, links, hold[s], busy[s])
      BY <1>1, <3>1, <3>3, AnswerBalanced
    <3> QED
      BY <2>4, <3>2, <3>3 DEF CommitNoBuffer
  <2>5. ASSUME NEW w \in {"full", "bare"}, CommitShown(s, w) \/ CommitNotShown(s, w)
        PROVE  Apart' /\ Balanced'
    <3> DEFINE inUse == (busy[s] \cup {hold[s].pending}) \ ReleasedByLatch(s)
    <3>1. /\ s \in surfaces /\ emitting = None /\ hold[s].pending # None
          /\ UNCHANGED <<emitting, surfaces>>
      BY <2>5 DEF CommitShown, CommitNotShown, CommitProceeds, Serving, scene
    <3>2. /\ LatchedHold(s) \in [Slot -> Buffer \cup {None}]
          /\ inUse \in SUBSET Buffer
          /\ LatchedHold(s)["pending"] = None
          /\ LatchedHold(s)["current"] # None
          /\ LatchedHold(s)["current"] # LatchedHold(s)["previous"]
          /\ inUse = {LatchedHold(s)["current"], LatchedHold(s)["previous"]} \ {None}
      BY <3>1, LatchBalanced
    <3>3. CASE CommitShown(s, w)
      <4>1. hold' = [hold EXCEPT ![s] = LatchedHold(s)]
        BY <3>3 DEF CommitShown
      <4>2. busy' = [busy EXCEPT ![s] = inUse]
        BY <3>3 DEF CommitShown
      <4> HIDE DEF inUse
      <4>3. inUse \ {emitting} = {LatchedHold(s)["current"],
                                  LatchedHold(s)["previous"]} \ {None, emitting}
        BY <3>1, <3>2
      <4> QED
        BY <3>1, <3>2, <4>1, <4>2, <4>3, OneSurface
    <3>4. CASE CommitNotShown(s, w)
      <4>1. AnswerAll(s, LatchedLinks(s), LatchedHold(s), inUse)
        BY <3>4 DEF CommitNotShown
      <4> HIDE DEF inUse
      <4> QED
        BY <3>1, <3>2, <4>1, AnswerBalanced
    <3> QED
      BY <2>5, <3>3, <3>4
  <2>6. CASE \/ CommitUnknownType(s)
             \/ \E w \in {"full", "bare"} : CommitAbandoned(s, w)
    BY <2>6 DEF CommitUnknownType, CommitAbandoned, NoReuse, NoLeakingExit
  <2> QED
    BY <2>1, <2>2, <2>3, <2>4, <2>5, <2>6
<1> QED
  BY <1>2, <1>3

\* Every step keeps the accounts balanced.
LEMMA NextBalanced ==
  ASSUME NoReuse, TypeOK, TypeOK', HeldBuffersExist', NotifiedSlotHoldsBuffer,
         Detached, Apart, Balanced, [Next]_vars
  PROVE  Apart' /\ Balanced'
<1>1. CASE Roles
  <2>1. UNCHANGED <<surfaces, emitting, hold, busy>>
    BY <1>1 DEF Roles, GetXdgSurface, XdgSurfaceDestroy, GetToplevel, GetPopup,
                PopupDestroy, GetSubsurface, SubsurfaceDestroy, held, scene, owed
  <2> QED
    BY <2>1 DEF Apart, Balanced
<1>2. CASE UNCHANGED vars
  BY <1>2 DEF vars, Apart, Balanced
<1> QED
  BY <1>1, <1>2, LifecycleBalanced, RequestsBalanced DEF Next

(***************************************************************************)
(* The client and the bridge agree on the buffers in use: every buffer the *)
(* surface uses has been committed and not released, and every one that    *)
(* was committed and is used no more has been released.                    *)
(***************************************************************************)
THEOREM ReleasesAddUp == ASSUME NoReuse PROVE Spec => []ReleaseAccounting
<1>0. NoLeakingExit
  BY DEF NoReuse
<1>1. Init => Apart /\ Balanced
  BY DEF Init, Apart, Balanced, NoHold, Slot
<1>2. /\ TypeOK /\ TypeOK' /\ HeldBuffersExist' /\ NotifiedSlotHoldsBuffer
      /\ Detached /\ Apart /\ Balanced /\ [Next]_vars
      => Apart' /\ Balanced'
  BY NextBalanced
<1>3. TypeOK /\ Balanced => ReleaseAccounting
  <2> SUFFICES ASSUME TypeOK, Balanced, emitting = None, NEW s \in surfaces
               PROVE  busy[s] = {hold[s].current, hold[s].previous} \ {None}
    BY DEF ReleaseAccounting
  <2>1. busy[s] \ {None} = {hold[s].current, hold[s].previous} \ {None, None}
    BY DEF Balanced
  <2>2. None \notin busy[s]
    BY HeldType DEF TypeOK
  <2> QED
    BY <2>1, <2>2
<1> QED
  BY <1>0, <1>1, <1>2, <1>3, Typed, NoDanglingBuffer, NotificationsAreTrue, PTL DEF Spec
=============================================================================
