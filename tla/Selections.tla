----------------------------- MODULE Selections -----------------------------
(***************************************************************************)
(* The clipboard (wl_data_device.c, wl_primary_selection.c and             *)
(* wl_data_control.c).  Three protocols each have a current source, and    *)
(* all share one text, which X11 and Plexy see.  A source set by a client  *)
(* is read over a pipe while other requests come in: the reading of a data *)
(* source is stopped by the next one, the others run to their end.         *)
(*                                                                         *)
(* A callback that is told of the hangup of the pipe reads no more: what   *)
(* the client wrote since the last one is lost, and that may be all of it. *)
(*                                                                         *)
(* A text is known by who wrote it: a source, or Outside for X11 and Plexy *)
(* (XwmSelections says when X11 does), and by whether it is all of it.     *)
(* Requests that are ignored, of a source of another client, are left out, *)
(* and so are the offers of the primary selection and texts longer than    *)
(* the buffer of a callback, which ends no reading.                        *)
(***************************************************************************)
EXTENDS Naturals

CONSTANTS
  DataSource,     \* addresses of wl_data_source
  PrimarySource,  \* of zwp_primary_selection_source_v1
  ControlSource,  \* of ext_data_control_source_v1
  MaxReadings,    \* bound on the readings of one source under way
  Copier,         \* clients that may have a data device
  Outside,        \* the text is not of a client
  Empty,          \* no source, no text, no client
  Unsettled       \* two writers raced, or the reading of one failed

Source == DataSource \cup PrimarySource \cup ControlSource
OtherSource == PrimarySource \cup ControlSource

ASSUME SelectionAssumption ==
  /\ DataSource \cap PrimarySource = {} /\ DataSource \cap ControlSource = {}
  /\ PrimarySource \cap ControlSource = {}
  /\ Outside \notin Source \cup {Empty, Unsettled} /\ Empty \notin Source \cup Copier
  /\ Unsettled \notin Source \cup {Empty} /\ MaxReadings \in Nat

VARIABLES
  sources,  \* sources that exist
  used,     \* control sources that were set once
  cur,      \* current_selection_source
  prim,     \* current_primary_source
  ctl,      \* current_dc_source
  text,     \* external_selection_text, Empty when it is not active
  capture,  \* the source clipboard_capture_cb reads
  taking,   \* how many of the two other capture_cb read a source
  copier,   \* the client with the keyboard focus
  devices,  \* clients with a data device
  told,     \* the selection the device of a client was told last
  watched,  \* the same for a data control device that sets nothing
  latest,   \* history: what was set last
  cut       \* history: its reading ended before its text

historyVars == <<latest, cut>>
readingVars == <<text, capture, taking>>
tellingVars == <<told, watched>>
selectionVars == <<sources, used, cur, prim, ctl, readingVars, copier, devices,
                   tellingVars, historyVars>>

\* The beginning of a text
Cut(s) == <<s>>
Content == Source \cup {Cut(s) : s \in Source} \cup {Outside, Empty}
NoneTaken == \A s \in OtherSource : taking[s] = 0
Quiet == capture = Empty /\ NoneTaken

SelectionsTypeOK ==
  /\ sources \subseteq Source /\ used \subseteq ControlSource
  /\ cur \in DataSource \cup {Empty} /\ prim \in PrimarySource \cup {Empty}
  /\ ctl \in ControlSource \cup {Empty}
  /\ text \in Content /\ capture \in DataSource \cup {Empty}
  /\ taking \in [OtherSource -> 0..MaxReadings]
  /\ copier \in Copier \cup {Empty} /\ devices \subseteq Copier
  /\ told \in [Copier -> Content] /\ watched \in Content
  /\ latest \in Content \cup {Unsettled} /\ cut \in BOOLEAN

SelectionsInit ==
  /\ sources = {} /\ used = {} /\ cur = Empty /\ prim = Empty /\ ctl = Empty
  /\ text = Empty /\ capture = Empty /\ taking = [s \in OtherSource |-> 0]
  /\ copier = Empty /\ devices = {}
  /\ told = [c \in Copier |-> Empty] /\ watched = Empty
  /\ latest = Empty /\ cut = FALSE

---------------------------------------------------------------------------
\* bridge_data_device_send_selection_to_client: a source is offered before
\* the text.
Offered(source, t) == IF source # Empty THEN source ELSE t

\* bridge_data_device_send_selection_to_focus
ToldTo(c, offer) == IF c \in devices THEN [told EXCEPT ![c] = offer] ELSE told

\* notify_clipboard_listeners: primary and data control drop their sources,
\* and data control tells its devices.
Notify(t) == prim' = Empty /\ ctl' = Empty /\ watched' = t

\* bridge_clipboard_set_text, also on_plexy_clipboard_text.  A capture under
\* way goes on.
SetText_KeepsSource(t) ==
  /\ text' = t /\ UNCHANGED cur /\ Notify(t)
  /\ told' = ToldTo(copier, t)

SetText(t) ==
  /\ text' = t /\ cur' = Empty /\ Notify(t)
  /\ told' = ToldTo(copier, t)

\* History: x was set while nobody was still reading something older.
Latest(x, quiet) == latest' = (IF quiet THEN x ELSE Unsettled) /\ cut' = FALSE

\* History: the reading of s ended with the text t.
Ended(s, t) == cut' = (cut \/ (s = latest /\ t # s)) /\ UNCHANGED latest

---------------------------------------------------------------------------
(* Sources *)

\* create_data_source, create_source
CreateSource(s) ==
  /\ s \notin sources /\ (s \in OtherSource => taking[s] = 0)
  /\ sources' = sources \cup {s} /\ used' = used \ {s}
  /\ UNCHANGED <<cur, prim, ctl, readingVars, copier, devices, tellingVars, historyVars>>

\* The three source_resource_destroy
DestroySource_KeepsControl(s) ==
  /\ s \in sources
  /\ sources' = sources \ {s}
  /\ capture' = IF s = cur THEN Empty ELSE capture
  /\ IF s \in {cur, prim}
     THEN SetText(Empty) /\ Latest(Empty, NoneTaken /\ (s = cur \/ capture = Empty))
     ELSE UNCHANGED <<cur, prim, ctl, text, tellingVars, historyVars>>
  /\ UNCHANGED <<used, taking, copier, devices>>

DestroySource(s) ==
  /\ s \in sources
  /\ sources' = sources \ {s}
  /\ capture' = IF s = cur THEN Empty ELSE capture
  /\ IF s \in {cur, prim, ctl}
     THEN SetText(Empty) /\ Latest(Empty, NoneTaken /\ (s = cur \/ capture = Empty))
     ELSE UNCHANGED <<cur, prim, ctl, text, tellingVars, historyVars>>
  /\ UNCHANGED <<used, taking, copier, devices>>

---------------------------------------------------------------------------
(* wl_data_device.set_selection and the capture of its text *)

\* mirror_selection_to_plexy_clipboard: only a source with a textual type is
\* read, but the reading of the one before ends.
Mirror_KeepsReading(s, textual) == capture' = IF textual THEN s ELSE capture

Mirror(s, textual) == capture' = IF textual THEN s ELSE Empty

\* data_device_set_selection with a source
SetSelection(s, textual) ==
  /\ s \in sources \cap DataSource
  /\ cur' = s /\ text' = Empty /\ Mirror(s, textual)
  /\ told' = ToldTo(copier, s)
  /\ Latest(IF textual THEN s ELSE Empty, NoneTaken)
  /\ UNCHANGED <<sources, used, prim, ctl, taking, copier, devices, watched>>

\* data_device_set_selection without one
ClearSelection ==
  /\ cur' = Empty /\ text' = Empty /\ Notify(Empty)
  /\ told' = ToldTo(copier, Empty)
  /\ Latest(Empty, Quiet)
  /\ UNCHANGED <<sources, used, capture, taking, copier, devices>>

\* clipboard_capture_cb at the end of the text, or at a hangup after some
CaptureDone_Quietly ==
  /\ capture # Empty
  /\ \E t \in {capture, Cut(capture)} : text' = t /\ Ended(capture, t)
  /\ capture' = Empty
  /\ UNCHANGED <<sources, used, cur, prim, ctl, taking, copier, devices, tellingVars>>

CaptureDone ==
  /\ capture # Empty
  /\ \E t \in {capture, Cut(capture)} : text' = t /\ Notify(t) /\ Ended(capture, t)
  /\ capture' = Empty
  /\ UNCHANGED <<sources, used, cur, taking, copier, devices, told>>

\* clipboard_capture_cb at a hangup before anything was read, or on a read
\* error
CaptureFails ==
  /\ capture # Empty
  /\ capture' = Empty /\ Ended(capture, Empty)
  /\ UNCHANGED <<sources, used, cur, prim, ctl, text, taking, copier, devices, tellingVars>>

---------------------------------------------------------------------------
(* Primary selection and data control *)

\* capture_source_text of either: one reading more of this source
Taken(s) ==
  /\ taking[s] < MaxReadings
  /\ taking' = [taking EXCEPT ![s] = @ + 1] /\ Latest(s, Quiet)

\* device_set_selection of wl_primary_selection.c with a source
SetPrimary(s, textual) ==
  /\ s \in sources \cap PrimarySource
  /\ prim' = s
  /\ IF textual THEN Taken(s) ELSE UNCHANGED <<taking, historyVars>>
  /\ UNCHANGED <<sources, used, cur, ctl, text, capture, copier, devices, tellingVars>>

SetControl_IntoSelection(s, textual) ==
  /\ s \in (sources \cap ControlSource) \ used
  /\ used' = used \cup {s} /\ cur' = s /\ watched' = s
  /\ IF textual THEN Taken(s) ELSE UNCHANGED <<taking, historyVars>>
  /\ UNCHANGED <<sources, ctl, prim, text, capture, copier, devices, told>>

\* device_set_common with a source, which may be set once
SetControl(s, textual) ==
  /\ s \in (sources \cap ControlSource) \ used
  /\ used' = used \cup {s} /\ ctl' = s /\ watched' = s
  /\ IF textual THEN Taken(s) ELSE UNCHANGED <<taking, historyVars>>
  /\ UNCHANGED <<sources, cur, prim, text, capture, copier, devices, told>>

\* Both without a source
ClearText ==
  /\ SetText(Empty) /\ Latest(Empty, Quiet)
  /\ UNCHANGED <<sources, used, capture, taking, copier, devices>>

\* capture_cb of either at the end of the text or at a hangup: what it read,
\* all, some or nothing, is the clipboard now.
TakeDone(s) ==
  /\ taking[s] > 0 /\ taking' = [taking EXCEPT ![s] = @ - 1]
  /\ \E t \in {s, Cut(s), Empty} : SetText(t) /\ Ended(s, t)
  /\ UNCHANGED <<sources, used, capture, copier, devices>>

\* capture_cb of either on a read error: the text before stays.
TakeFails(s) ==
  /\ taking[s] > 0 /\ taking' = [taking EXCEPT ![s] = @ - 1]
  /\ latest' = Unsettled /\ UNCHANGED cut
  /\ UNCHANGED <<sources, used, cur, prim, ctl, text, capture, copier, devices,
                 tellingVars>>

---------------------------------------------------------------------------
(* Text from X11 or Plexy, keyboard focus and devices *)

SetOutside ==
  /\ SetText(Outside) /\ Latest(Outside, Quiet)
  /\ UNCHANGED <<sources, used, capture, taking, copier, devices>>

\* forward_focus_in and the press of a button tell the client the selection.
CopierFocus_Untold(c) ==
  /\ c # copier /\ copier' = c
  /\ UNCHANGED <<sources, used, cur, prim, ctl, readingVars, devices, watched, told, historyVars>>

CopierFocus(c) ==
  /\ c # copier /\ copier' = c
  /\ told' = ToldTo(c, Offered(cur, text))
  /\ UNCHANGED <<sources, used, cur, prim, ctl, readingVars, devices, watched, historyVars>>

\* get_data_device tells its client, in focus or not.
GetDevice(c) ==
  /\ c \notin devices /\ devices' = devices \cup {c}
  /\ told' = [told EXCEPT ![c] = Offered(cur, text)]
  /\ UNCHANGED <<sources, used, cur, prim, ctl, readingVars, copier, watched, historyVars>>

\* data_device_resource_destroy
ReleaseDevice(c) ==
  /\ c \in devices /\ devices' = devices \ {c}
  /\ UNCHANGED <<sources, used, cur, prim, ctl, readingVars, copier, tellingVars, historyVars>>

SelectionsNext ==
  \/ \E s \in Source : CreateSource(s) \/ DestroySource(s)
  \/ \E textual \in BOOLEAN :
       \/ \E s \in DataSource : SetSelection(s, textual)
       \/ \E s \in PrimarySource : SetPrimary(s, textual)
       \/ \E s \in ControlSource : SetControl(s, textual)
  \/ ClearSelection \/ ClearText \/ SetOutside
  \/ CaptureDone \/ CaptureFails
  \/ \E s \in OtherSource : TakeDone(s) \/ TakeFails(s)
  \/ \E c \in Copier \cup {Empty} : CopierFocus(c)
  \/ \E c \in Copier : GetDevice(c) \/ ReleaseDevice(c)

SelectionsSpec == SelectionsInit /\ [][SelectionsNext]_selectionVars

---------------------------------------------------------------------------
(* The source a protocol offers exists: no offer sends its request to a    *)
(* source that is gone, whatever the order of clear, replace and destroy.  *)
SelectionIsLive == {cur, prim, ctl} \ {Empty} \subseteq sources

(* There is one clipboard: while a client's source is the selection, the   *)
(* text X11 and data control get is of that source or not there yet, and   *)
(* no older source is still being read.                                    *)
OneClipboard ==
  cur # Empty => text \in {Empty, cur, Cut(cur)} /\ capture \in {Empty, cur}

(* When everything has been read, and no two writers raced, the text is    *)
(* that of whoever set it last, by any of the three protocols, X11 or      *)
(* Plexy: never an older one, and less than all of it only if the client   *)
(* closed its pipe before the bridge had read it.  A read error, which     *)
(* leaves the older text, counts as unsettled.                             *)
SettledIsLatest ==
  Quiet /\ latest # Unsettled
    => IF cut THEN text \in {Empty, Cut(latest)} ELSE text = latest

(* The client with the keyboard focus was told the selection as it is,     *)
(* unless the text is that of a data source which lost the selection       *)
(* before it was read.                                                     *)
FocusedIsTold ==
  copier \in devices
  /\ ~(cur = Empty /\ text \in DataSource \cup {Cut(s) : s \in DataSource})
    => told[copier] = Offered(cur, text)

(* A clipboard manager that only watches was told the text or the source   *)
(* that is to be had, except while a new data source is still being read.  *)
WatcherIsTold ==
  Offered(ctl, text) # Empty => watched = Offered(ctl, text)

(***************************************************************************)
(* The clipboard is one: of its four writers the last one wins once the    *)
(* pipes are read, with as much of its text as was read; a source that     *)
(* died is no selection, and the focused client and the controllers were   *)
(* told of what there is.                                                  *)
(***************************************************************************)
SelectionsOK ==
  /\ SelectionsTypeOK /\ SelectionIsLive /\ OneClipboard
  /\ SettledIsLatest /\ FocusedIsTold /\ WatcherIsTold
=============================================================================
