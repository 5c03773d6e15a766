# Verification of wayland-bridge

wayland-bridge is one process with one event loop. It is the Wayland compositor
of its clients (and of Xwayland, whose X11 window manager it also is) and a
client of PlexyShell, to which it talks through libplexy. It translates: a
`wl_surface` becomes a Plexy window, a commit a Plexy attach and commit, a Plexy
event a Wayland event. The code is under `src/src/wayland/`; the
`*-protocol.[ch]` files are generated, and libplexy (`src/include/plexy*.h`),
libwayland, xcb, EGL and DRM are external.

This directory holds TLA+ models of that code, TLC runs that check them on small
instances, and TLAPS proofs for every instance.

    tlc -config SurfaceBuffersLinks.cfg SurfaceBuffers
    tlapm Seat_proofs.tla

## Inventory

Every handler runs to its end on the event-loop thread. What makes the program
hard is therefore not threads but **order**: the requests of several clients,
the events of Plexy and of X, the death of a client or of Xwayland and the
destruction of single objects interleave freely between handlers, and each
handler works on pointers other handlers may have left behind. Two things do
interleave inside a handler: the emission of a destroy signal, which calls back
into the bridge once per listener, and the blocking call that connects the X11
window manager. And three peers keep state of their own that is changed by
requests and told by events: Plexy, the X server, and Xwayland as a Wayland client.

| Component | State | Hard behaviour; what makes it correct | Modules |
|---|---|---|---|
| Surfaces and buffers (`wl_compositor.c`, `wl_shm.c`, `wl_presentation.c`) | pending, current, previous buffer and their destroy listeners; callbacks; shm pools; two Plexy buffers | buffers destroyed at any moment, frame_done late, early exits: pointers and listeners agree, each buffer is released once, callbacks are answered, the screen shows the last commit | SurfaceBuffers, ShmPools, DoubleBuffers |
| Regions, viewports and scale (`wl_compositor.c`, `wl_viewporter.c`, `event_forward.c`) | operations of regions; source, destination, geometry, scale | the way of a pixel to the screen and of the pointer back, set in any order | Regions, Viewports |
| Roles and windows (`xdg_shell.c`, `wl_xdg_dialog.c`, `wl_xdg_decoration.c`, `wl_subcompositor.c`) | role objects, parents, modes; configure serials; window ids and their cache; stacking lists | objects are taken apart in any order; requests and configures cross | XdgToplevels, XdgConfigure, Subsurfaces, Positioner |
| Keyboard focus, popups, session lock (`event_forward.c`, `raw_input.c`, `wl_seat.c`, `wl_session_lock.c`) | `keyboard_focus`, `grabbed_popup`, who was told what, lock objects | five ways to move the focus, written out by hand; popups, surfaces and clients go | KeyboardSeat |
| Pointer focus, constraints, raw input (`input_router.c`, `wl_pointer_constraints.c`, `raw_input.c`, `event_forward.c`) | `pointer_focus`, deferred enter, constraints, raw mode, gestures, emulated touch | three routes of events; pointers that come late; one-shot constraints | PointerSeat |
| Explicit synchronisation, fifo (`wl_drm_syncobj.c`, `wl_fifo.c`) | pending, current, previous release point | points and buffers are moved by different code | SyncPoints |
| Idle (`wl_idle_notify.c`, `wl_idle_inhibit.c`) | timers | activity against timers | IdleNotify |
| Xwayland lifecycle (`wayland_bridge.c`, `xwm.c`) | process, client, socket, window manager | the two deaths come in either order: exactly one restart | XwaylandLifecycle |
| Start and shutdown (`wayland_bridge.c`) | what `main` has made | each step may fail; a signal may come first | BridgeMain |
| X11 window manager (`xwm.c`) | windows, pairing, focus, geometry, states, properties | two connections, and events that tell of a state the server has left since | XwmWindows, XwmFocus, XwmGeometry, XwmStates, XwmProperties |
| Data transfer (`wl_data_device.c`, `wl_primary_selection.c`, `wl_data_control.c`, `xwm.c`) | sources, one shared text, X11 claims, drag | four writers; texts read over pipes; claims that cross | Selections, XwmSelections, DragAndDrop |
| Outputs (`wl_output.c`, `event_forward.c`) | globals; outputs a surface entered, at most four | globals replaced one by one; windows replaced | Outputs |
| DMA-BUF import (`wl_dmabuf.c`) | graphics set up, parameter objects, descriptors, format table | each step may fail: each descriptor is closed once | Dmabuf |
| Text input and input method (`wl_text_input.c`, `wl_input_method.c`, `xwm.c`) | text inputs, active input method, injected text | focus moves between a text and its done | TextInput |
| Activation and toplevel lists (`wl_xdg_activation.c`) | tokens | good once, for some time, perhaps without their object | ActivationTokens |
| Per-surface settings (`wl_alpha_modifier.c`, `wl_content_type.c` and their like) | one attribute each | set and read | |
| Protocol code | generated tables | | |

`PROJECT.json` lists each with its files and status, and under `hazards` what is
hard to test, line by line, with the properties that would catch it going wrong.

## Plan

Everything above is modelled up to what the last section leaves out. What a
careful team would do next, in this order:

1. Compose what is now checked side by side: KeyboardSeat with XdgToplevels
   (focus and window ids through the destruction of surfaces), XwmWindows with
   XwaylandLifecycle (what a restart leaves of the windows), Selections with
   XwmSelections (one clipboard over both sides).
2. Prove what the compositions of item 1 add. Every invariant the runs check today has
   its proof.
3. An abstract specification for focus (one focus that is entered and left in turn),
   like BufferHold for buffers and X11Pairing for X11 windows.

## Modules

| Module | Content |
|---|---|
| `WlList` | libwayland's intrusive list (external), as pure operators on a heap of next and previous pointers, and what it means for a heap to agree with an intended placement of nodes |
| `SurfaceBuffers` | the buffers of surfaces, their listeners, windows, frame_done |
| `BufferHold` | what SurfaceBuffers promises: no lists, destruction in one step |
| `X11Pairing` | what XwmWindows promises: window and surface paired by whichever comes last, with no lists and no second attempt |
| `ShmPools`, `DoubleBuffers` | memory under client buffers; the two Plexy buffers of a surface |
| `Regions`, `Viewports` | the arithmetic of input regions and of crop and scale |
| `XdgToplevels`, `XdgConfigure`, `Subsurfaces`, `Positioner` | windows of xdg-shell, their handshake, trees, places of popups |
| `KeyboardSeat`, `PointerSeat` | the two foci with what hangs on them |
| `SyncPoints`, `IdleNotify`, `ActivationTokens`, `Outputs`, `Dmabuf`, `TextInput` | one protocol each |
| `Selections`, `XwmSelections`, `DragAndDrop` | the clipboard on the Wayland and on the X11 side, drags |
| `XwmWindows`, `XwmFocus`, `XwmGeometry`, `XwmStates`, `XwmProperties` | the X11 window manager |
| `Queues` | what is left of a list or queue when some of its elements go, used by the modules that have such loops |
| `XwaylandLifecycle`, `BridgeMain` | processes: Xwayland's and the bridge's own |
| `MCWindows`, `MCSeat`, `MCPointer` | sums: instances of several modules. The other runs are of a module itself |
| `SurfaceBuffers_proofs`, `BufferHold_proofs`, `XwaylandLifecycle_proofs` | theorems about these modules and their proofs |
| `Windows_proofs`, `Seat_proofs`, `Pointer_proofs`, `X11_proofs` | the same, about several modules each, one after the other |
| `Queues_proofs` | lemmas on queues and on induction that the last five share |

In every module a definition carries the name of its function, or names it in the
comment above, and variables have the names of the fields they stand for, unless
a field is a pointer whose direction a name can say (`surfaceOf`, `windowOf`).
The header of a module says what of its files is left out. A definition
`Name_Mistake` is `Name` with a plausible mistake (see Runs) and is part of no
specification. Variables commented "history" are no state of the code: they
record what a property has to know, most often that one of the exceptions named
in "Facts" below was met.

### SurfaceBuffers

State and code:

| Variable | Code |
|---|---|
| `surfaces`, `buffers` | `bridge_surface` structures and `wl_buffer` resources that exist |
| `hold` | `pending_buffer`, `current_buffer`, `previous_buffer` |
| `links` | the `link` of the three `*_buffer_destroy_listener`s and the head of each resource's destroy signal |
| `emitting` | the loop of libwayland's final signal emission is running for this buffer |
| `roles`, `parent` | xdg_surface, popup and subsurface role objects; `subsurface_parent` |
| `window` | `plexy_window`: none, with event callbacks (`full`), without (`bare`) |
| `awaiting` | Plexy owes a frame_done (environment) |
| `frames`, `feedbacks` | frame callbacks and presentation feedbacks: none, waiting for a commit, carried by one |
| `busy` | the client's account: committed to this surface, not released since |
| `stranded`, `leaked` | history: debts whose window is gone; listeners left linked |

`links` is the real data structure: a doubly linked ring in which linking a
linked node or forgetting to unlink one corrupts the ring of another buffer. A
model with a set of listeners per buffer could not express the mistakes that
matter here. A destroy signal is several steps (`DestroyBuffer`, one
`NotifyDestroy` per popped listener, `FreeBuffer`); while it is emitted no other
handler runs.

`surface_commit` is one action per way through it: parent not ready, no buffer,
shown, not shown, abandoned, buffer of unknown type. Which one a committed buffer
takes is data (sizes, formats, allocation, Plexy's answer), so it is a choice
among the constant `Outcomes`. `Reuse` says which buffers clients attach again
before their release, `Callbacks` and `RoleKinds` what else they ask for.

Left out, because the properties do not tell it apart: contents, damage, regions,
viewport, the swap of the two Plexy buffers, z-order and the synchronisation
points (each in a module of its own below), the fifo barrier, which nothing
reads, and the shutdown flag `bridge->running` (BridgeMain). `awaiting` is a flag per surface: Plexy
may merge the frames of several commits, and the handler answers everything at
once. `plexy_window_commit` failing is only logged by the code; the model takes
the frame as reported. A client has one popup role object per surface at a time.
Where creating the window of a toplevel fails the client gets a protocol error;
its end is the destruction of its surfaces. X11 surfaces are in XwmWindows.
After a leak a signal may reach a listener inside a freed surface: the bridge
then reads freed memory and the model stops.

### XwaylandLifecycle

State and code:

| Variable | Code |
|---|---|
| `phase` | where `main` is, with `bridge->running`: `loop` is the event loop while running, `leaving` the last round after it was told to end |
| `pid`, `client` | `xwayland_pid`, `xwayland_wl_client` |
| `watched` | clients with `on_xwayland_client_destroy` attached |
| `wmFd` | `xwayland_wm_fd`, as the process at the other end |
| `xwm`, `wmState`, `attempts` | the window manager, by the process it was made for; `state`, `connection_attempts` |
| `calling` | `xcb_connect_to_fd` waits for this process |
| `listeners` | window managers in `clipboard_listeners` (`primary_listeners` is filled and left alike) |
| `proc`, `conn` | Xwayland itself (environment): the process, and its Wayland connection as the bridge's socket sees it |

`Boot`, `Accept`, `ClientGone`, `Reap`, `Terminate`, `Leave`, `Connect` and `Return`
are the handlers; `Open` and `Die` are Xwayland's. `Start` is `start_xwayland` with
`start_xwm_async`, one disjunct for each step that may fail; `Restart` is
`restart_xwayland`, a part of the two handlers that call it. `Connect` and `Return` are one
handler split at its blocking call: while `calling` is set nothing else of the bridge runs, but
processes go on. `Failures` says what may fail in an instance. `xwayland_restart_pending` is
left out: it is set and cleared within one handler. A failed allocation of the
destroy listener (which would leave `xwayland_wl_client` set for ever), the reuse
of a process id, and `PLEXY_SKIP_XWM` are not modelled. The hangup handler of the X connection changes none of
this state. An Xwayland is taken to serve its window manager once its own
connection to the bridge is served, an assumption about a program that is not in
this repository; its intermediate round trips are taken together in `Accept`.

### Windows: XdgToplevels, XdgConfigure, Subsurfaces, Positioner

`XdgToplevels` keeps one record per surface (`surf`) with the fields of
`bridge_surface` that make a window what it is, and beside it `told`, what Plexy
knows. Type, parent and decoration are each told by whichever request changes
them; `behind` records the cases the code leaves Plexy in the dark about (a
parent that gets its window later, a dialog made modal before there is a window).
`FromWindowId` is the look-up through the one-entry cache, which every event of
Plexy makes.

`XdgConfigure` has three parties in one state: the flags the bridge keeps, the
serials and states the client was sent, and Plexy with its two queues. `Grant`
is Plexy (external); `ForwardConfigure` is the handler of its event, and
`UserChanges` an event nobody asked for.

`Subsurfaces` has the two kinds of parent the code has: the one a wl_subsurface
was made with (`object`) and the one its surface has now (`parentOf`).
`Positioner` is arithmetic: setters, and a position computed at two of them.

### KeyboardSeat and PointerSeat

`kb` is one record: the focus, who was told enter (`told`), where each text input
is entered (`at`), and the grab. The five ways to move the focus (`FocusIn` and
`FocusOut` of Plexy, `Press`, `RawPress`, `Grab`, `Activate`) do not tell the same
parties in the code; each is a function on `kb`, so that an action is a chain of
them in the order of the code. Popups, surfaces and whole clients go
(`PopupDestroy`, `DestroySurface`, `ClientGone`), the last in any order of
resources.

`seat` is the same for the pointer: `focus`, whose pointer and surface the router
holds (`ptr`, `surf`), the deferred enter, and per address of a surface its
constraint. Whether a point is inside the input region and how far the pointer
moved are choices of the event. `SyncRawInput` is the idle callback that switches
the raw mode; `raw` is what it switched to.

### The X11 window manager

`XwmWindows` pairs windows and surfaces. X11 events and Wayland requests arrive on
two connections; `Prompt` says whether the UnmapNotify of a window is read before
the destruction of its surface, as Xwayland usually has it, or may come later
(the run `xwm_surfaces`). Each showing of a window has a serial, and history
`made` says which showing a surface is for. `viewable` is what the X server has
mapped, `mapped` what the bridge takes for mapped; they differ because
`handle_map_notify` passes over the notice that comes through the root window
(xwm.c:1110), and the bridge selects the one of the window itself only when it
reads its creation (462). The serial of a surface is taken and the two are paired
without a look at `mapped`, and so may a popup be opened.

`X11Pairing` is its contract. The code looks for a partner in three places: when a window is told its
serial, when a surface is, and once more at the surface's first commit; and it keeps two
lists of those that wait, which other events change. The contract has none of that: whichever of window
and surface comes last pairs the two in that step, and only the unmapping of the
window or the end of the surface parts them. A surface offers itself (`Offered`) for the
serial in its `xwayland_surface`, while it has one.

`XwmFocus`, `XwmGeometry`, `XwmStates` and `XwmProperties` each model one aspect of
one window or set of windows, against an X server that has moved on since it sent
its events (`notices`, `changes`) or a Plexy that answers late (`answers`). They do
not share state with each other or with XwmWindows: what a handler does to
another aspect is left out of each and is in the other's action for it. In
XwmGeometry a popup is opened when its window is paired, whether `isMapped` or
not (`OpenPopup`), when the notice of the map is read, with a tiny window moved to the pointer
(`MapPopup`), or when it has grown; notices of a window that is not `isMapped` move no popup.

### Selections, XwmSelections, DragAndDrop

Three protocols have a current source each and share one text. A text is known by
who wrote it, and `Cut` of it is what was read of it before a hangup. Reading a pipe is a
start and an end (`CaptureDone`, `TakeDone` and
their failures), and everything may happen in between. The callbacks look for a hangup
before they read, so that a reading ends with all of the text, some, or none. `XwmSelections` has the
X server's owner (`xowner`), the queue of events the window manager has not read,
and the bridge's two claims. A drag is its source, its target and who was told.

### The smaller modules

| Module | State and code | Notable |
|---|---|---|
| `ShmPools` | `ref_count`, mapped `size` and the geometry of buffers of `wl_shm.c` | `validate_bounds` is translated with its shorter last row |
| `DoubleBuffers` | `front`, `back`, their images, the one on screen | each call into Plexy may fail; client buffers are copied, pointed to by descriptor, or read back from a texture |
| `Regions` | operations of regions, the surface's copy, Plexy's copy | scaled edge by edge, truncated as C does |
| `Viewports` | viewport, window geometry, buffer scale; the mapping a commit computes | one axis, fixed point |
| `SyncPoints` | pending, current, previous buffer and point | points move in `process_commit`, buffers later, if at all |
| `IdleNotify` | notifications with their timers | time in ticks; a timer fires late |
| `ActivationTokens` | the list of tokens, their age | a token outlives its object |
| `Outputs` | globals; `entered_output_ids`, `current_output_id` | globals are made in steps that fail; windows are replaced |
| `Dmabuf` | what the graphics start has made; parameter objects with descriptors; rows of the format table | `DmabufStart` is parameterised by the step that fails |
| `TextInput` | text inputs, input methods, X11 injection | each request looks its field up anew; X11 windows are mapped, paired with surfaces, unmapped and destroyed each on its own, and an unmap leaves the surface and both foci |
| `BridgeMain` | how far `main` is, what it has made | a signal and the loss of Plexy at any time |

## Runs

Twelve runs; all but the last three are about one module each.

| Run | Config | Instance | Distinct states | Question |
|---|---|---|---|---|
| `links` | `SurfaceBuffersLinks` | 2 surfaces, 2 buffers, toplevels | 222 k | do pointers, listeners and notifications agree, and is it BufferHold? |
| `roles` | `SurfaceBuffersRoles` | 2 surfaces, 1 buffer, all roles, frame callbacks | 2.13 M | does a window change lose a debt it does not record? |
| `release` | `SurfaceBuffersRelease` | 1 surface, 3 buffers, callbacks and feedback, fair | 102 k | is the client's account the bridge's; is what is due answered? |
| `exits` | `SurfaceBuffersExits` | 1 surface, 3 buffers, every outcome, every reuse | 243 k | do list operations stay defined after a leak (`Intact`); is there no other leak than the recorded ones? |
| `leak` | `SurfaceBuffersLeak` | 1 surface, 2 buffers | counterexample | see Findings |
| `xwayland` | `XwaylandLifecycle` | 3 Xwaylands, every failure, fair | 20 k | one Xwayland, the right client and window manager; does it return, does the manager settle? |
| `xwayland_listeners` | `XwaylandLifecycleListeners` | 3 Xwaylands, nothing fails | counterexample | see Findings |
| `xwayland_retry` | `XwaylandLifecycleRetry` | 3 Xwaylands, connections fail | counterexample | see Findings |
| `xwm_surfaces` | `XwmWindowsSurfaces` | 2 X11 windows, 2 surfaces, late unmaps | counterexample | see Findings |
| `windows` | `Windows` | sum of 9 modules | 727 k (symmetry) | below |
| `seat` | `Seat` | sum of 10 modules | 855 k | below |
| `pointer` | `Pointer` | sum of 6 modules | 451 k | below |

### The sums

`MCWindows`, `MCSeat` and `MCPointer` extend several modules that share no state. A
behaviour picks one of them (`part`) and takes its steps; the others are at rest
in their initial state. Such a run checks each module as a run of its own with
the same bounds would, and claims nothing about interactions between them. The invariant of a
part, `...OK`, is the conjunction of its type invariant and of named safety
properties; each of these has at least one mutant of its own.

| Part | Run | Property | What its named parts say |
|---|---|---|---|
| XdgToplevels | `windows` | `ToplevelsOK` | the cache answers with live surfaces only (`CacheIsLive`); parents live (`ParentIsLive`); a modal toplevel has a dialog or met one that outlived its toplevel (`ModalHasDialog`); type, parent and mode Plexy was told are those of the surface (`WindowFollows`) |
| XdgConfigure | `windows` | `ConfigureOK` | pending serials are sent and unanswered, through acks that skip or go back (`PendingIsUnanswered`); with nothing in flight, client, bridge and Plexy have the same states (`StatesAgree`) |
| Subsurfaces | `windows` | `TreeOK` | each stacking list holds exactly the children (`StackHoldsChildren`); following parents ends (`ParentsEnd`) |
| Positioner | `windows` | `PopupTouchesAnchor` | a popup's side or centre lies on the anchor's, at each gravity, odd sizes included |
| XwmWindows | `windows` | `XwmOK`, `ImplementsPairing` | window and surface point to each other (`PairIsMutual`), the surface is the one made for that showing (`PairedAsMade`), none waits for the other with both there (`NoneWaitsForOther`), a pair is shown unless it is a popup put off (`PairedIsShown`), a popup is of a window the server has mapped (`PopupIsViewable`); pairing is that of X11Pairing |
| XwmFocus | `windows` | `XfocusOK` | nobody gets a focus it was not given (`NoneSteals`) |
| SyncPoints | `windows` | `SyncOK` | points are signalled in the order of their commits, once, the last one never, whatever the client commits (`PointsInOrder`); they are those of the buffers released, unless points and buffers have come apart (`PointsMatchReleases`, see Facts for the rest) |
| ActivationTokens | `windows` | `TokensOK` | a token is good once (`UsedOnce`), also without its object (`OrphansMayBeUsed`) |
| DragAndDrop | `windows` | `DragOK` | the target is the one device entered (`TargetIsEntered`); the action is offered (`ActionIsOffered`) |
| KeyboardSeat | `seat` | `KeyboardOK` | one surface was told enter, the focus (`OneTold`), before any key (`EnterBeforeKeys`), and it lives (`FocusIsLive`); the grab is open (`GrabIsOpen`); text inputs follow unless passed over (`TextFollows`); a locked session has a lock object that unlocks it (`NoLockout`) |
| Selections | `seat` | `SelectionsOK` | current sources live (`SelectionIsLive`); the writers agree on one text (`OneClipboard`); with no pipe open it is the last one set, or what was read of it before a hangup (`SettledIsLatest`); the focused client and the controllers were told of it (`FocusedIsTold`, `WatcherIsTold`) |
| XwmSelections | `seat` | `XselectionOK` | a claim is the server's, or the news of its loss is unread (`ClaimIsHonest`); the text copied last, in Wayland or X11, is what the bridge has or on its way, unless lost in a way recorded (`NewestIsHeld`) |
| XwmGeometry | `seat` | `GeometryOK`, `OpensOnOutput` | with all notices read, cache and popup agree with the server (`CacheSettles`, `PopupSettles`, for windows the bridge was told are mapped); a window opens with its upper edge on the output, and hangs below it by its title bar at most |
| XwmStates | `seat` | `StatesOK` | the advertised state is the bridge's (`AdvertisedIsTrue`); with all answers read it is Plexy's, but for requests taken back before they were answered (`ModesSettle`) |
| XwmProperties | `seat` | `PropertiesOK` | what is cached is what is set, once events are read (`CacheIsCurrent`); Plexy has the name and type that follow (`PlexyKnowsTheWindow`) |
| Outputs | `seat` | `OutputsOK` | the globals offered are all of a list or none (`GlobalsAreWhole`); the scale is of an output the window is on (`ScaleIsOfOutputShown`) |
| ShmPools | `seat` | `ShmOK` | every row is mapped (`RowsAreMapped`); no mapping without a reference (`NoPoolLeaks`) |
| IdleNotify | `seat` | `IdleOK` | idled only after quiet (`IdledIsQuiet`); who waits has a timer (`QuietWillBeTold`) |
| BridgeMain | `seat` | `MainOK` | a stop undoes all that was made, in order (`StopsInOrder`); a failed start leaves no more than display, dmabuf, logger and weston (`LeftByFailure`) and no peer (`NoPeerIsLeft`); what is served takes commits (`ServedIsRunning`) |
| PointerSeat | `pointer` | `PointerOK`, `ActivatedByFocus` | one surface inside (`OneInside`), live (`SeatIsLive`); raw mode and cursor follow the constraints (`RawFollows`, `LockHidesCursor`); gestures have their button (`GesturesHeld`); a constraint activates on the focus only |
| Viewports | `pointer` | `ViewportsOK` | at four bytes a pixel, nothing outside the buffer is copied (`CopiesStayInside`), no setting outlives its viewport (`SourceHasViewport`), the pointer hits the pixel shown (`PointerHitsPixel`) |
| Regions | `pointer` | `RegionsOK` | a list of operations means the set it builds (`HitIsSetOf`); Plexy has the same (`PlexyTakesTheSame`), scaled to within a pixel (`EdgesAreNear`) |
| DoubleBuffers | `pointer` | `DoubleOK` | no Plexy buffer leaks or goes twice (`BuffersAreOwned`), none on screen is drawn into (`ScreenIsFront`), the screen shows the last commit (`ScreenIsCommitted`) |
| Dmabuf | `pointer` | `DmabufOK` | a failed start leaves nothing, or all but the table with dmabuf off (`NothingHalfMade`); each descriptor has one owner who knows it (`OneOwner`, `DescriptorsAreNamed`); the format table is large enough (`RowsFit`) |
| TextInput | `pointer` | `TextOK` | no text stays behind in a field that lost the focus (`NothingLeftUnfinished`); entered fields have it (`EnteredHasFocus`); text for a surface that came to the focus with an X11 window is injected there (`InjectedIntoFocus`); an input method that is on has a field (`OnServesSomeone`) |

`HitIsSetOf` and `PopupTouchesAnchor` compare an algorithm of the code with a reference
definition; `EdgesAreNear`, `CopiesStayInside` and `PointerHitsPixel` bound its error.

### The other properties

- `ListenersMatchPointers`: each listener is in the ring of the buffer its
  pointer holds, or in none, unless a leaking exit of commit was taken.
- `HeldBuffersExist`: no pointer to a freed buffer, so no release to one.
- `NotifiedSlotHoldsBuffer`: a destroy handler is called for the buffer its slot
  holds, in a surface that exists.
- `ReleaseAccounting`: no buffer in use is released, none out of use is kept.
- `FrameDoneOwed`: what waits for a frame_done has one coming, or its loss was
  recorded when the window changed.
- `DueIsAnswered`: liveness.
- `ImplementsBufferHold`, `ImplementsPairing`: refinements, safety part.
- `NoneIsLost`: no Xwayland beside another one (`OneXwayland`), none
  unreaped at the end (`NothingLeftBehind`).
- `PeersAreCurrent`: the destroy handler, which clears `xwayland_wl_client`
  without a look at whose client is gone, is attached to that client alone
  (`ClientIsWatched`); window manager, socket and call belong to the running
  Xwayland (`ManagerIsCurrent`).
- `XwaylandReturns`, `ManagerSettles`: liveness. The first holds for starts that
  succeed: after a failed start no handler is left that would try again. The second
  excepts one case (`EachWaits`): the connection is announced as asynchronous
  (wayland_bridge.c:587) but made by a blocking call on the event loop (xwm.c:2604). If
  Xwayland needs an answer of the bridge before it serves X clients, both wait, and
  SIGTERM does not end the bridge; the start protects itself by a delay only, as
  the bridge's README says (src/src/wayland/README.md:117).

`FrameDoneOwed` and `DueIsAnswered` say nothing of subsurface windows: the code
creates them without event callbacks (wl_compositor.c:917), so what a subsurface is
owed is answered by its next commit only. `stranded` names the other gap: destroying a window with a
frame in flight (a popup dismissed and shown again) leaves callbacks that only the
next shown commit's frame_done answers.

### Bounds

- **Buffers.** A ring with a head and listeners of two surfaces has every shape an
  insertion or a removal distinguishes; three buffers fill all slots of a surface
  with different ones, two force the return of a buffer that is still previous;
  two surfaces are a subsurface and its parent. There is no bound on the length
  of behaviours: the counters of the code that would grow are flags here.
- **Xwayland.** Three Xwaylands are two restarts: the second is the first one that
  meets what a restart left behind. When they are used up a start fails. `MaxAttempts`
  is 3 for the 20 of the code, `ListenerCap` 2 for 16.
- **Windows.** `MaxWindow` 2: a window, its replacement. `MaxSerial` 2 and `MaxQueue` 1:
  an ack can skip or go back, and a request can cross one event. Four nodes make
  a tree of depth three and a reuse. `MaxShown` 2: a window shown again before
  the requests of the first showing are in. `MaxPoint` 3: one point in each slot and
  a new one. `Lifetime` 1 tick: a token is young, at its limit, or too old.
- **Seat.** A window, a menu and its submenu, a window of a second client, a menu of
  X11; two locks. Two sources of the clipboard, one of each other kind. `MaxEvents`,
  `MaxNotices`, `MaxChanges` 2 and `MaxAnswers` 3: an event and one that overtakes the
  request made upon it.
  Three outputs with `MaxEntered` 2 for the 4 of the code: the list overflows. `LongQuiet`
  2 ticks with timeouts 0, 1, 2.
- **Pointer.** A window with a subsurface, a window of X11, a cursor; one client
  locks once, one confines for good. `Unit` 2 for 256: a pixel has an inside. `MaxOps` 2:
  an addition and what covers or cuts it. `MCMaxTogether` 3: of
  constraints, destroyed surfaces, and surfaces under a touch or a gesture, three at once. `Planes` 2 for 4, `MaxReported` 3 modifiers.
  One Wayland client with two text inputs, which wl_text_input.c serves together; the
  focus also goes to two surfaces of Xwayland, with two X11 windows. `MCMaxObjects` 3:
  of the text inputs, surfaces and the input method, three exist at once, so that text is
  written into one of two fields, or injected while another surface has come or gone.

Counters that are bounded stop the behaviours that would exceed them; the sums
therefore do not check deadlock. Neither do `exits` (the model may stop in freed
memory), the Xwayland runs (the bridge ends) and the runs of single modules that
expect a violation. `links`, `roles`, `release`
and `leak` do. Symmetry is used for
the surfaces of Xwayland in `windows`, which has no liveness.

### Fairness

Only `release` and `xwayland` check liveness. `NotifyDestroy` and `FreeBuffer` are
weakly fair because the emission is a loop on the only thread. `FrameDone` is strongly fair: Plexy reports every
committed frame in the end, and what disables the event for a while is only the
emission of some signal, which may happen again and again. Nothing is assumed of
clients. In `XwaylandLifecycle` each handler of a source that is ready is weakly fair, as the
loop serves every ready source and only one of them waits (`Return`, as soon as it is
answered); `ClientGone` is fair only once the process is dead, as the kernel then
closes its connection, and `Die` only once its connection was closed.

### Mutants

Each property of each passing run has mutants in `PROJECT.json`: a plausible
mistake in one handler under which TLC finds the property violated. An `...OK`
property has one for each of its parts, so that no part is carried by another.

## Findings

- **leak** (`NotifiedSlotHoldsBuffer`): the handler that reports "Pending buffer
  destroyed" (`wl_compositor.c:639`) is called for a buffer that is not pending. Five
  exits of `surface_commit` (967, 1008, 1026, 1098, 1226) set `pending_buffer` to NULL
  and return without unlinking `pending_buffer_destroy_listener`, as `surface_attach`
  (660-663) does; the buffer is not released either. Committing the buffer that is
  already current, which the protocol allows, skips the rotation, and line 1330 does
  the same; so does a buffer of unknown type (1327). Destroying that buffer then
  clears whatever is pending, so that a frame is lost; if another buffer was attached
  meanwhile, the listener was linked a second time and the two rings are corrupt.
- **xwayland_listeners** (`ListenersAreLive`): `xwm_finish_init` registers the window
  manager with the clipboard (xwm.c:2496) and the primary selection, `xwm_destroy`
  (2847) removes it from neither. After a restart "XWM: Wayland clipboard changed"
  (1906) is the business of a freed structure first; after sixteen restarts there is no slot left.
- **xwayland_retry** (`RetryHasSocket`): "connection failed, retrying" (2625) is said by a timer
  that has given its only socket away; the retries count to twenty and give up.
- **xwm_surfaces** (`BoundSurfaceIsLive`): an X11 window has a `surface_destroy_listener`
  (xwm.h:176) that nothing registers. When the surface of a mapped window is
  destroyed before the UnmapNotify is read, the window keeps its pointer to it. `windows`
  takes the order Xwayland usually has (`Prompt`), under which pairing is sound.

### Facts

Where a property excepts a case by a history variable, the code behaves in the
excepted way. These are the cases a maintainer would want to know, the first
of them one where a text of the repository says otherwise. No run is kept for them.

- src/src/wayland/README.md:119 says "Only reports one output to clients currently", and line
  180 has multi-output as future work; the code makes a global for every output Plexy
  reports (wl_output.c:386). `Outputs` and `OutputsOK` follow the code.
- A popup whose X11 window is too small is put off "deferring popup creation" (xwm.c:2289) until
  handle_configure_notify sees it grow, which it does for windows that are `mapped` (1339). A window
  mapped before the bridge read of its creation has its MapNotify through the root
  window only, where line 1110 returns: such a popup is never shown (`PairedIsShown` allows it).
- A client that writes its text into the pipe and closes it at once may lose it: the
  capture callbacks look for a hangup before they read (wl_primary_selection.c:117,
  wl_data_control.c:110, wl_data_device.c:104), and one wake-up brings both. `cut` in Selections records it.
- Any client that disables its text input turns the input method off; an input method
  that was replaced by a newer one is still served (TextInput).
- The focus moves that go past the text input (`unaware` in KeyboardSeat): it stays
  entered on a surface that has lost the keyboard.
- `grabbed_popup` is not cleared when a dying client takes its popups down after their
  surfaces (xdg_shell.c:979; `grabDied`).
- Releasing any one of several session locks unlocks the session.
- A lock constraint destroyed while active leaves the cursor hidden; constraints stay
  with the address of their surface (`orphans` in PointerSeat).
- The points of `wl_drm_syncobj.c` move before the buffers do (293; the rotation that
  releases is wl_compositor.c:1292). For a client that commits again before frame_done,
  `prev_buf_release_point` (wayland_bridge.h:168) is the point of the buffer on the screen: it is
  signalled, and that of the buffer released never. The same comes of every commit that
  moves the points and not the buffers (a failed one, the current buffer again). `apart` in
  SyncPoints records these; after one, `PointsMatchReleases` says nothing more, and
  `PointsInOrder` still holds.
- A start of the graphics that finds no import extensions (wl_dmabuf.c:260), or cannot make the
  format table (947), leaves device, gbm, display and context to the end of the process, with
  dmabuf off. A failed start of the bridge leaves display, dmabuf, logger or weston
  (wayland_bridge.c:1548).
- Text for a surface of Xwayland that has no window when it gets the focus (its window was
  unmapped, and handle_unmap_notify clears neither `focus_window` nor the surface) is
  injected where the X11 focus was left (event_forward.c:624, 1061).
- When the text of an older X11 copy arrives after a newer one was made, the manager claims the
  selection with the older text and overrides the newer owner (`xlost` in XwmSelections, which
  also records copies refused, left or cut off).
- copy_shm_to_plexy fetches four bytes at four times the pixel for 16-bit formats too
  (wl_compositor.c:460), beyond the row and perhaps the pool; its fast path (421) copies height
  times stride, beyond a shorter last row. `CopiesStayInside` is about four-byte formats and
  the sampled paths.
- The content of a decorated X11 window is as high as the output allows, without its title bar
  (xdg_shell.c:1456): the window may hang below by that much.
- A fifth output entered is not recorded, and its leave finds nothing; a window that is
  replaced sends no leave (`overflown`, `replaced` in Outputs).
- A request of an X11 client that reverses one not yet answered leaves its flags and
  Plexy's mode apart (`hasty` in XwmStates); an X11 configure is skipped when a stale
  cache seems to have it already (`raced` in XwmGeometry); deleted properties of some
  kinds are kept (XwmProperties).
- A plane of a dmabuf added out of order leaves descriptors uncounted (`skipped` in
  Dmabuf).
- Two writers of the clipboard that race leave the text to whichever pipe ends last
  (`Unsettled` in Selections).

## Proofs

### Buffers and Xwayland

The proofs about surfaces are for any sets of surfaces and buffers, under
`SurfaceBuffersAssumption` (the null pointer is no node, buffers are not listeners,
the remaining constants are among the names the module uses), which every run
evaluates.

| Theorem | Statement |
|---|---|
| `Soundness` | `Spec => []Sound` |
| `StaysIntact` | `Spec => []Intact` |
| `TypeCorrect` | `Spec => []TypeOK` |
| `ListsMatch` | `Spec => []ListenersMatchPointers` |
| `NoDanglingBuffer` | `NoLeakingExit` implies `Spec => []HeldBuffersExist` |
| `NotificationsAreTrue` | `NoLeakingExit` implies `Spec => []NotifiedSlotHoldsBuffer` |
| `AnswersAreOwed` | `NoLeakingExit` implies `Spec => []FrameDoneOwed` |
| `ReleasesAddUp` | `NoReuse` implies `Spec => []ReleaseAccounting` |
| `Implements` | `NoLeakingExit` implies `Spec => ImplementsBufferHold` |

`NoLeakingExit` restricts the constants to what the findings leave: no early exit
and no second commit of the current buffer. Without it those four are false, as
the run `leak` shows. `NoReuse` asks besides that a client attaches
no buffer before its release; with reuse a buffer may be both previous and
pending, and the one release answers the earlier commit.

The argument. That rings and pointers agree locally (`Rings`) is kept by every
list operation, but it is not enough to conclude that an emission reaches every
listener: two rings could share a placement, one of them without the head.
`Rooted` excludes that: every set of listed nodes closed under `next` contains a
head. It is stated over sets, not paths, so no induction is needed. The first part
of `SurfaceBuffers_proofs` shows that insertion, removal and a head's birth and death keep `WellLinked`, each
once; the second composes them along the rotation of commit, and adds
to the invariant `Sound` that a surface that does not exist holds nothing and that
the buffer being destroyed is still there. When the ring of the emitted buffer is
empty, `Rooted` gives that no slot holds it, hence `HeldBuffersExist`.

`Sound` says nothing after a leak: the rings of two buffers may then run into each
other. That the lists keep their type all the same is `Intact`, which needs none of
`Sound`. The one thing ever forgotten is the pending listener, so a node linked twice is
one of those, or the head of a dead buffer. A pointer to a current or previous listener is
still always answered by one back (`Mutual`), nothing points to one that listens to
nothing (`Loose`), and the previous pointers that insertion and removal follow, of a
head, of a slot that is held, are never null. `TypeCorrect` follows without a
condition on leaks. It does not say that the bridge survives: when the surface of a
forgotten listener is freed, its node stays in a ring with a null `next`, and a later
insertion in that ring reads freed memory. The model writes nothing there and goes on; the
theorem is about the bridge up to that point. It takes two surfaces.

`FrameDoneOwed` is inductive once it is said of all surfaces, not only existing
ones. `ReleaseAccounting` is not: it needs that no buffer is in two slots of one
surface (`Apart`), and during an emission it holds only without the buffer being
destroyed (`Balanced`).

`BufferHold_proofs` maps a buffer away from the start of its destroy signal:
`DestroyBuffer` is the abstract `Forget`, `NotifyDestroy` and `FreeBuffer` are
stutters because the popped slot holds that buffer and no slot holds it at the end.

`XwaylandLifecycle_proofs`, for any set of processes and any bounds, under
`XwaylandAssumption`:

| Theorem | Statement |
|---|---|
| `Soundness` | `Spec => []IInv` |
| `TypeCorrect` | `Spec => []TypeOK` |
| `AtMostOne` | `Spec => []OneXwayland` |
| `EndsClean` | `Spec => []NothingLeftBehind` |
| `ProcessesKnown` | `Spec => []NoneIsLost`: the two above |
| `ClientKnown` | `Spec => []ClientIsWatched` |
| `ManagerKnown` | `Spec => []ManagerIsCurrent` |
| `PeersKnown` | `Spec => []PeersAreCurrent`: client, manager and the type |

`IInv` adds three things: before the event loop there is neither process nor
client, and after it no process id; the client was accepted from the process the
bridge knows of, if it knows one (otherwise accepting a new client would leave the
old one watched); and a timer that is armed has attempts left. `StartLemma` says
once what a start leaves, whichever step fails, and `RestartLemma` that a handler
either finds everything reaped and starts, or changes nothing more.

### The parts of the sums

Each part has one theorem, `...Spec => []...OK`, for any sets of objects and any
bounds, under the assumption its module names: that null values are no objects,
that sizes and bounds are numbers, that outputs and shm buffers are finitely many,
that each surface has one client. The runs evaluate every one of them. Only the
pairing of X11 windows needs more: `Prompt`, which `windows` has TRUE; with FALSE
`xwm_surfaces` is the counterexample.

`PairsAtOnce` is the refinement of X11Pairing, `XwmSpec => ImplementsPairing` under
`Prompt`, step by step: the serial of a window is `Show`, that of a surface `Offer`,
an unmap `Hide`, the end of the role `Withdraw` and that of the surface `Vanish`;
everything else is a stutter. Two cases carry it. A window that looks for a
partner finds every surface offered for its showing, since one left the list only
for an earlier showing (`OfferIsFound`), and there is one at most, since Xwayland makes
one surface for a window at a time (`OneForEach`). And the attempt at the first
commit is a stutter (`CommitFindsNothing`): where it could find a window, that window would
have found the surface before. As long as an unmap is read before the surface goes,
`xwm_xwayland_surface_committed` does nothing that is seen.

No `...OK` but that of DragAndDrop is inductive; the invariant that is, and what it adds:

| Theorem | Property | Invariant | What it adds, and why |
|---|---|---|---|
| `ToplevelsHangTogether` | `ToplevelsOK` | `ToplevelsInv` | a toplevel has one dialog (`OneDialogEach`), or the end of one would take the modality another gives; a surface that is gone has nothing (`GoneHasNothing`), or its address would come back with a parent |
| `ConfiguresSettle` | `ConfigureOK` | `ConfigureInv` | the last configure under way has Plexy's states (`LastIsPlexys`); where somebody disagrees and none is under way, a request is that will bring one (`GrantIsComing`) |
| `TreesStayTrees` | `TreeOK` | `TreeInv` | the parent of a surface is its object's while that exists (`ParentIsObjects`); objects have surfaces that exist (`ObjectsExist`); the tree of objects, which is larger, has no cycle either (`Acyclic`) |
| `PopupsTouchTheirAnchors` | `PopupTouchesAnchor` | `PopupInv` | the place computed last is that of the positioner as it is |
| `PointsInStep` | `SyncOK` | `SyncInv` | every point there is was made by the client (`PointsAreMade`); while points and buffers have not come apart, the point in a slot is the one its buffer was committed with (`PointsFollowBuffers`) |
| `TokensWorkOnce` | `TokensOK` | `TokensInv` | a listed token was good for one activation if it is marked used and for none if not (`UseIsCounted`) |
| `DragIsOneDialogue` | `DragOK` | `DragOK` | |
| `WindowsFindSurfaces` | `XwmOK` | `XwmInv` | a window has a serial only while shown and waits in its list without a surface (`WindowWaits`); a surface is paired with the window it was made for (`SurfacePaired`), and has left the list only for that window or for a showing that is over (`SerialTold`) |
| `FocusIsNotStolen` | `XfocusOK` | `XfocusInv` | a focus not yet confirmed is for the last window that wants input (`PendingIsWanted`, `WantedAgree`) |
| `KeyboardIsAtOne` | `KeyboardOK` | `KeyboardInv` | at most the focus was told, and it was if its client has a keyboard that was not late (`Told`); popups have surfaces, and text inputs are entered on surfaces of their own client, without which the death of a client could leave one entered |
| `ClipboardIsOne` | `SelectionsOK` | `SelectionsInv` | where the text set last is: there, as far as it was read, or brought by the one reading under way (`LatestIsComing`) |
| `NewestCopyIsHeld` | `XselectionOK` | of each selection | `Honest` and `Held` say of one selection what the property says of both, with the event in the queue that makes up for a difference |
| `GeometrySettles`, `WindowsOpenOnTheOutput` | `GeometryOK`, `OpensOnOutput` | `GeometryInv` | the newest notice has the server's geometry (`NoticesEndAtServer`); also before all notices are read an opened window's cache has the right place, all of it if it is fullscreen (`CacheAgrees`); the popup of a window known to be mapped is where the cache says (`PopupIsKnown`) |
| `StatesSettle` | `StatesOK` | `StatesInv` | the answers Plexy still owes lead to the mode it has, and there are at most two (`AnswersLeadToMode`) |
| `PropertiesAreKept` | `PropertiesOK` | `PropertiesInv` | the last event about a property in the queue tells whether it is there (`LastTells`) |
| `TextGoesToTheFocus` | `TextOK` | `TextInv` | an enabled field was told of the focus exactly while its client has it, unless the focus went past it (`InsideIsFocused`); while the focused surface has the window it came with, the X11 focus is there or on none (`XFocusFollows`) |
| `OutputsAreWhole` | `OutputsOK` | `GlobalsInv`, `SurfaceInv` | as long as none was passed over, the outputs recorded are all those the surface is on |
| `PoolsAreCounted`, `RowsStayMapped` | `ShmOK` | `PoolsInv` | `ref_count` is the number of buffers cut from the pool, and one more while its resource lives; a pool is mapped exactly while its count is not 0; `validate_bounds` still holds of each buffer, since pools only grow |
| `IdleIsQuiet` | `IdleOK` | `IdleInv` | what is left of a timer and the quiet since make up its timeout (`TimerCounts`) |
| `StopUndoesInOrder` | `MainOK` | `MainInv` | how far main is says what it has made (`HeldByPhase`) |
| `PointerIsInOnePlace`, `ConstraintsFollowTheFocus` | `PointerOK`, `ActivatedByFocus` | `PointerInv` | `Sound`: at most the focus was told enter, what the seat points to exists (`PlaceOK`), and constraints at the address of a surface that is gone were left there by it (`LocksOK`); gestures have their button |
| `PixelsComeFromTheBuffer` | `ViewportsOK` | `ViewportsInv` | extents in force are positive, and what is shown is a part of the buffer |
| `RegionsAreSets` | `RegionsOK` | `RegionsInv` | what Plexy was told is what the surface has now, at the scale of then (`ToldIsCurrent`) |
| `PlexyBuffersAreOwned` | `DoubleOK` | `DoubleInv` | the buffers alive are the two of the surface, which differ, and the one on screen is the front (`Owned`) |
| `DescriptorsHaveOneOwner` | `DmabufOK` | `DmabufInv` | planes are counted right and, unless one was skipped, from the first (`PlanesAreCounted`); two parameter objects name no descriptor together (`NamesAreDisjoint`) |

How the proofs go. Where the state is one record (`kb`, `seat`) that a handler passes
through several functions, each function has a lemma that says what it keeps, as a
relation of two records in the case of the pointer (`Step`), and an action is a chain
of these. Where a step adds to or takes from a queue, the lemmas of `Queues_proofs`
say what is left of it.

Facts about what a loop computes are by induction on how far it is. The installed
provers cannot use the library's induction theorems, which take the formula as a
parameter; `Counting` (`Queues_proofs`) is that for a set of numbers, from the least
one outside it. By it are proved that `Keeping` keeps the members of a set in their
order (`KeptIs`), that the test of a point, which takes the last operation that
covers it, agrees with the set built one operation after the other, for every point
and list (`ScanIsSet`, hence `HitIsSetOf`), and that the second pass over the
modifiers of a format finds no more than the first counted (`RowsAlwaysFit`, hence `RowsFit`).
`ParentsEnd` needs no induction: a cycle would be a set of surfaces closed under the
way up (`Ancestors` is the least such set), and a new edge makes one only if its end was among the
ancestors of its beginning, which the protocol forbids clients (the guard of `MakeSubsurface`).

The arithmetic of `Viewports` and `Regions` divides by scales that are not known.
What is needed of division is in a few lemmas (`DivBounds`, `DivIn`, `Mono`,
`ProductIs`); for the rest a quotient is a number between two bounds.

### What is only model-checked

Every invariant the passing runs check has its theorem, and so have the action
properties and the refinement. What is left is liveness:
`DueIsAnswered`, `XwaylandReturns` and `ManagerSettles` rest on fairness, hence on
ENABLED, which the installed provers do not expand.

The counterexamples of the runs that expect a violation are TLC's alone too: no theorem
says that a property fails.

## Not modelled

- **Protocol code**: generated tables and stubs.
- **Per-surface settings** (alpha, content type, tearing, fractional scale, cursor shape,
  single-pixel buffers and so on): one attribute each, set and read.
- **`wl_fifo.c`**: nothing ever reads the barrier. Its object keeps a pointer to
  the surface that nothing clears (wl_fifo.c:49).
- **Inhibitors** of idle and of shortcuts, toplevel icons, exported handles, RandR,
  dmabuf feedback objects, the toplevel list (finished when bound): lists or data that
  only their own objects change.
- **`weston_compositor.c`**: an optional backend that hands its surfaces to the code
  modelled here.
- **Code nothing calls**: `xwm_create`, `xwm_send_motion_event` and its like.
- **The ping** of clients: its timer is armed once, at the start (wayland_bridge.c:1580),
  and libwayland does not arm it again for what the callback returns, so a client
  is pinged at most once and nothing depends on its pong.
- **Contents**: pixels, damage, key maps, titles, texts. Where an algorithm works on
  letters, the model takes them as one: the code takes KEY_A to KEY_Z for consecutive
  key codes when it types text (wl_text_input.c:79, xwm.c:3173).
- **Interactions** between the parts of a sum; see Plan.
- **Known and not followed up**, each a single line that a run would only restate:
  a second `get_toplevel` on a surface loses its first window (xdg_shell.c:772); the keyboard
  grab for Xwayland compares an address that may have been reused
  (wl_xwayland_kbd_grab.c:27); both selections share the one slot for an INCR transfer
  (xwm.c:1412, 1820); paired windows are missing from `_NET_CLIENT_LIST`; `xwm_destroy` leaves
  the X side of surfaces pointing to it (xwm.c:2847); a drag forgets neither source nor
  device that goes away; a restart whose start fails is not tried again
  (wayland_bridge.c:518).
- **Arithmetic overflow** of coordinates (`int32_t`), and memory that runs out, except
  where a module names the allocation among its failures.
