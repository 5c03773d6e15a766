----------------------------- MODULE XwmGeometry -----------------------------
(***************************************************************************)
(* Where an X11 window is and how large (xwm.c, wayland_bridge.c,          *)
(* xdg_shell.c), along the vertical axis: the geometry the bridge caches,  *)
(* the one the X server has, and the events in which the server tells of   *)
(* its changes, read some time after them. The bridge places and moves a   *)
(* managed window; an override-redirect one moves itself and its popup     *)
(* follows.                                                                *)
(*                                                                         *)
(* Left out: the other axis, but for the choices that look at both (a      *)
(* window is small in both or in none); the parents of popups, which only  *)
(* shift them; a window that X11 kept at a size below one pixel.           *)
(*                                                                         *)
(* A popup is made when its window and its surface are paired, whether the *)
(* bridge takes the window to be mapped or not: one that was mapped before *)
(* the bridge listened to it it does not, as in XwmWindows.                *)
(***************************************************************************)
EXTENDS Integers, Sequences

CONSTANTS
  At, Length,   \* places and heights asked for
  OutputAt, OutputLength, \* of the default output
  TitleBar,     \* height of a title bar
  MaxNotices,   \* bound on ConfigureNotify events not read
  NoPlace

MinPopup == 4

ASSUME GeometryAssumption ==
  /\ At \subseteq Int /\ Length \subseteq Nat \ {0} /\ MaxNotices \in Nat
  /\ OutputAt \in Int /\ OutputLength \in Nat \ {0} /\ TitleBar \in Nat

VARIABLES
  override,   \* override_redirect
  unheard,    \* override-redirect, mapped before the bridge listened to it
  isMapped,   \* of an override-redirect window: its MapNotify was read
  opened,     \* paired with a surface
  full,       \* fullscreen, of the xwm_window
  create_len, \* create_height: the largest it was told of
  known,      \* its x, y, width and height: what the bridge takes them to be
  server,     \* the geometry of the window in the X server
  notices,    \* ConfigureNotify events sent and not read
  popup,      \* the geometry Plexy has of the popup
  raced       \* history: no configure was asked since one was skipped with events pending

shownVars == <<override, unheard, isMapped>>
geometryVars ==
  <<shownVars, opened, full, create_len, known, server, notices, popup, raced>>

Place == [at : Int, len : Nat \ {0}]

GeometryTypeOK ==
  /\ {override, unheard, isMapped, opened, full, raced} \subseteq BOOLEAN
  /\ unheard \/ isMapped => override
  /\ known \in Place /\ server \in Place /\ create_len \in Nat \ {0}
  /\ notices \in Seq(Place) /\ Len(notices) <= MaxNotices
  /\ popup \in Place \cup {NoPlace} /\ (popup # NoPlace => override /\ opened)

GeometryInit ==
  /\ override \in BOOLEAN /\ unheard \in BOOLEAN /\ (unheard => override) /\ isMapped = FALSE
  /\ opened = FALSE /\ full = FALSE
  /\ server \in [at : At, len : Length] /\ known = server
  /\ create_len = server.len
  /\ notices = <<>> /\ popup = NoPlace /\ raced = FALSE

---------------------------------------------------------------------------
\* The server takes a geometry and tells of it if it is a change.
Server(place) ==
  /\ server' = place
  /\ notices' = (IF place = server THEN notices ELSE Append(notices, place))
  /\ place # server => Len(notices) < MaxNotices

\* xwm_window_configure: nothing is asked of the server if the cache has it.
Configure_Unasked(place) ==
  /\ known' = place
  /\ raced' = (known = place /\ (raced \/ notices # <<>>))
  /\ UNCHANGED <<server, notices>>

Configure(place) ==
  /\ known' = place
  /\ raced' = (known = place /\ (raced \/ notices # <<>>))
  /\ IF known = place THEN UNCHANGED <<server, notices>> ELSE Server(place)

\* handle_configure_request of a managed window: of the place nothing is taken.
ConfigureRequest(len) ==
  /\ ~override
  /\ known' = [known EXCEPT !.len = len] /\ Server([server EXCEPT !.len = len])
  /\ UNCHANGED <<shownVars, create_len, opened, full, popup, raced>>

\* An override-redirect window configures itself.
ConfigureSelf(place) ==
  /\ override /\ Server(place)
  /\ UNCHANGED <<shownVars, create_len, opened, full, known, popup, raced>>

\* on_window_position and forward_configure, of a managed window
Moved(place) ==
  /\ opened /\ ~override
  /\ Configure(place)
  /\ UNCHANGED <<shownVars, create_len, opened, full, popup>>

\* The fullscreen part of handle_client_message
ToggleFull ==
  /\ opened /\ ~override /\ full' = ~full
  /\ IF full' THEN Configure([at |-> OutputAt, len |-> OutputLength])
     ELSE UNCHANGED <<known, server, notices, raced>>
  /\ UNCHANGED <<shownVars, create_len, opened, popup>>

---------------------------------------------------------------------------
\* bridge_create_x11_window: a splash window is centred, a dialog centred on
\* its parent wherever that is, and any other centred if it asks for no place.
Fitted(len) == IF len > OutputLength THEN OutputLength ELSE len

Wanted(at, len) ==
  LET centred == OutputAt + (OutputLength - Fitted(len)) \div 2
  IN {centred, IF at < 0 THEN 100 ELSE at} \cup {parent \in At : parent >= 0}

Placed_Unclamped(at, len) ==
  IF at + Fitted(len) > OutputAt + OutputLength
  THEN OutputAt + OutputLength - Fitted(len) ELSE at

Placed(at, len) ==
  LET above == IF at + Fitted(len) > OutputAt + OutputLength
               THEN OutputAt + OutputLength - Fitted(len) ELSE at
  IN IF above < OutputAt THEN OutputAt ELSE above

\* xwm_try_pair_window_with_surface with a managed window; the title bar is
\* above what X11 has of the window.
OpenWindow ==
  /\ ~opened /\ ~override /\ opened' = TRUE
  /\ \E at \in Wanted(known.at, known.len), bar \in {0, TitleBar} :
       Configure([at |-> Placed(at, known.len) + bar, len |-> Fitted(known.len)])
  /\ UNCHANGED <<shownVars, create_len, full, popup>>

\* xwm_clamp_popup_pos
Clamped(place) == IF place.at < 0 THEN [place EXCEPT !.at = 0] ELSE place

\* xwm_window_ensure_real_geometry: the geometry is asked of the server, and
\* a window too small for a popup has the size it was created with.
Real ==
  LET asked == IF server.len >= MinPopup THEN server ELSE [known EXCEPT !.at = server.at]
  IN IF asked.len < MinPopup /\ create_len >= MinPopup
     THEN [asked EXCEPT !.len = create_len] ELSE asked

\* bridge_create_x11_popup, if the window has a surface without one and is
\* large enough
Shows(now) ==
  IF opened' /\ popup = NoPlace /\ now.len >= MinPopup
  THEN known' = Clamped(now) /\ popup' = Clamped(now)
  ELSE known' = now /\ UNCHANGED popup

\* The same with an override-redirect window.
OpenPopup ==
  /\ ~opened /\ (isMapped \/ unheard) /\ opened' = TRUE
  /\ Shows(Real)
  /\ UNCHANGED <<shownVars, create_len, full, server, notices, raced>>

\* handle_map_notify of an override-redirect window; one too small until now,
\* in the corner of the output, is sent to the pointer.
Tiny == known.len < MinPopup /\ Real.len >= MinPopup /\ Real.at = 0

MapPopup ==
  /\ override /\ ~unheard /\ ~isMapped /\ isMapped' = TRUE
  /\ UNCHANGED <<override, unheard, create_len, opened, full, raced>>
  /\ \/ Shows(Real) /\ UNCHANGED <<server, notices>>
     \/ /\ Tiny
        /\ \E pointer \in {at \in At : at >= 0} :
             LET there == [Real EXCEPT !.at = pointer] IN Server(there) /\ Shows(there)

\* handle_unmap_notify
Close_KeepsPopup ==
  /\ opened \/ isMapped \/ unheard
  /\ opened' = FALSE /\ isMapped' = FALSE /\ unheard' = FALSE
  /\ UNCHANGED <<override, create_len, full, known, server, notices, popup, raced>>

Close ==
  /\ opened \/ isMapped \/ unheard
  /\ opened' = FALSE /\ isMapped' = FALSE /\ unheard' = FALSE /\ popup' = NoPlace
  /\ UNCHANGED <<override, create_len, full, known, server, notices, raced>>

\* handle_configure_notify, of a managed window: while Plexy shows it, its
\* place is Plexy's, and all of it is while it is fullscreen.
Read(notice) ==
  IF ~opened THEN notice
  ELSE IF full THEN known ELSE [known EXCEPT !.len = notice.len]

Grown(len) == IF len > create_len THEN len ELSE create_len

NoticeManaged ==
  /\ ~override /\ notices # <<>>
  /\ known' = Read(Head(notices)) /\ notices' = Tail(notices)
  /\ create_len' = Grown(Head(notices).len)
  /\ UNCHANGED <<shownVars, opened, full, server, popup, raced>>

\* The same of an override-redirect window: its place is asked of the server,
\* and the popup of a mapped one is made, or moved by bridge_update_x11_popup
\* if there is a change to tell.
Followed_MovesOnly(now) ==
  IF opened /\ isMapped /\ now.len >= MinPopup /\ (popup = NoPlace \/ now.at # known.at)
  THEN known' = Clamped(now) /\ popup' = Clamped(now)
  ELSE known' = now /\ UNCHANGED popup

Followed(now) ==
  IF opened /\ isMapped /\ now.len >= MinPopup /\ (popup = NoPlace \/ now # known)
  THEN known' = Clamped(now) /\ popup' = Clamped(now)
  ELSE known' = now /\ UNCHANGED popup

NoticePopup ==
  /\ override /\ notices # <<>> /\ notices' = Tail(notices)
  /\ Followed([at |-> server.at, len |-> Head(notices).len])
  /\ create_len' = Grown(Head(notices).len)
  /\ UNCHANGED <<shownVars, opened, full, server, raced>>

GeometryNext ==
  \/ \E len \in Length : ConfigureRequest(len)
  \/ \E place \in [at : At, len : Length] : ConfigureSelf(place) \/ Moved(place)
  \/ ToggleFull \/ OpenWindow \/ OpenPopup \/ MapPopup \/ Close
  \/ NoticeManaged \/ NoticePopup

GeometrySpec == GeometryInit /\ [][GeometryNext]_geometryVars

---------------------------------------------------------------------------
\* SafetyProperty: once every event is read, the bridge and the X server agree
\* on a managed window, unless the last configure was skipped because the
\* cache, stale while events were pending, seemed to have it already.
CacheSettles == ~override /\ opened /\ notices = <<>> /\ ~raced => known = server

\* SafetyProperty: once every event is read, the popup of an override-redirect
\* window is where the server has the window, cut off at the top, if it is
\* large enough to have one and the bridge was told that it is mapped.  (The
\* popup of one it was not told of stays as it was when the two were paired.)
PopupSettles ==
  isMapped /\ opened /\ notices = <<>> /\ server.len >= MinPopup => popup = Clamped(server)

\* ActionProperty: whatever place and size it asked for, a window opens with
\* its upper edge, that of the title bar if it has one, on the output, and
\* hangs below the output by no more than the height of that title bar.
OpensOnOutput ==
  [][~override /\ ~opened /\ opened' =>
       \E bar \in {0, TitleBar} :
         /\ known'.at - bar >= OutputAt
         /\ known'.at + known'.len <= OutputAt + OutputLength + bar]_geometryVars

(***************************************************************************)
(* When no notice is in flight, the geometry the bridge has of an X11      *)
(* window is the one of the X server, and the popup of a window it was     *)
(* told is mapped is where its window is.                                  *)
(***************************************************************************)
GeometryOK ==
  /\ GeometryTypeOK /\ CacheSettles /\ PopupSettles
=============================================================================
