---------------------------- MODULE XwmProperties ----------------------------
(***************************************************************************)
(* The properties of an X11 window (xwm.c): a client sets and deletes them *)
(* in the X server, which tells of each change by an event; the bridge     *)
(* reads all of them when a window is mapped, and one at each event, and   *)
(* keeps what it read.  Some it forgets when it reads that they are gone,  *)
(* others it keeps.  What window Plexy is asked for follows from them.     *)
(*                                                                         *)
(* Left out: WM_CLASS and _MOTIF_WM_HINTS, kept like the type; the size    *)
(* hints, read at a map only; WM_HINTS, which is like the protocols; types *)
(* of windows treated like these two; the properties that pair windows     *)
(* (XwmWindows) and carry text (XwmSelections).                            *)
(***************************************************************************)
EXTENDS Naturals, Sequences

CONSTANTS
  Title,      \* titles in UTF-8
  Legacy,     \* titles set the old way
  MaxChanges,  \* bound on PropertyNotify events not read
  Absent

ASSUME PropertyAssumption == Absent \notin Title \cup Legacy /\ MaxChanges \in Nat

VARIABLES
  props,      \* of the window in the X server, Absent: not set
  cached,     \* what the bridge has of them
  dirty,      \* properties_dirty
  changes,    \* PropertyNotify events: the property, and whether it was deleted
  readOnce,   \* history: the window was mapped, so all were read
  owner,      \* override_redirect
  plexy       \* the type and title of the Plexy window, Absent: none

propertyVars == <<props, cached, dirty, changes, readOnce, owner, plexy>>

Property == {"_NET_WM_NAME", "WM_NAME", "WM_PROTOCOLS", "_NET_WM_WINDOW_TYPE",
             "WM_TRANSIENT_FOR"}

\* One type for each way a window is treated
Type == {"popup", "normal"}

\* The values of each that make a difference; WM_PROTOCOLS is about
\* WM_DELETE_WINDOW, WM_TRANSIENT_FOR about a window the bridge knows.
Value == [p \in Property |->
            CASE p = "_NET_WM_NAME" -> Title
              [] p = "WM_NAME" -> Legacy
              [] p = "WM_PROTOCOLS" -> {"delete", "other"}
              [] p = "_NET_WM_WINDOW_TYPE" -> Type
              [] p = "WM_TRANSIENT_FOR" -> {"parent"}]

\* What the bridge keeps: a name, whether the window takes WM_DELETE_WINDOW,
\* a type, and a parent.
Kept == {"name", "delete", "type", "parent"}

PropertiesTypeOK ==
  /\ \A p \in Property : props[p] \in Value[p] \cup {Absent}
  /\ cached.name \in Title \cup Legacy \cup {Absent} /\ cached.delete \in BOOLEAN
  /\ cached.type \in Type \cup {Absent} /\ cached.parent \in {"parent", Absent}
  /\ {dirty, readOnce, owner} \subseteq BOOLEAN
  /\ changes \in Seq(Property \X BOOLEAN) /\ Len(changes) <= MaxChanges
  /\ plexy # Absent => plexy.title \in Title \cup Legacy \cup {Absent} /\ readOnce

PropertiesInit ==
  /\ props = [p \in Property |-> Absent]
  /\ cached = [name |-> Absent, delete |-> FALSE, type |-> Absent, parent |-> Absent]
  /\ dirty = TRUE /\ changes = <<>> /\ readOnce = FALSE /\ owner \in BOOLEAN
  /\ plexy = Absent

---------------------------------------------------------------------------
\* A client changes a property, or deletes it.
ChangeProperty(p, v) ==
  /\ v \in Value[p] \cup {Absent} /\ ~(v = Absent /\ props[p] = Absent)
  /\ Len(changes) < MaxChanges
  /\ props' = [props EXCEPT ![p] = v]
  /\ changes' = Append(changes, <<p, v = Absent>>)
  /\ UNCHANGED <<cached, dirty, readOnce, owner, plexy>>

OrElse(value, before) == IF value = Absent THEN before ELSE value

\* xwm_window_read_properties: the protocols are forgotten if they are not
\* there, the others are kept; _NET_WM_NAME is preferred.
All ==
  [name   |-> OrElse(OrElse(props["_NET_WM_NAME"], props["WM_NAME"]), cached.name),
   delete |-> props["WM_PROTOCOLS"] = "delete",
   type   |-> OrElse(props["_NET_WM_WINDOW_TYPE"], cached.type),
   parent |-> OrElse(props["WM_TRANSIENT_FOR"], cached.parent)]

\* handle_property_notify reads the property as it is now. One that was
\* deleted since has no value, and takes the protocols with it.
One_Adds(p) ==
  CASE p \in {"_NET_WM_NAME", "WM_NAME"} ->
         [cached EXCEPT !.name = OrElse(props[p], @)]
    [] p = "WM_PROTOCOLS" -> [cached EXCEPT !.delete = @ \/ props[p] = "delete"]
    [] p = "_NET_WM_WINDOW_TYPE" -> [cached EXCEPT !.type = OrElse(props[p], @)]
    [] p = "WM_TRANSIENT_FOR" -> [cached EXCEPT !.parent = OrElse(props[p], @)]

One(p) ==
  CASE p \in {"_NET_WM_NAME", "WM_NAME"} ->
         [cached EXCEPT !.name = OrElse(props[p], @)]
    [] p = "WM_PROTOCOLS" -> [cached EXCEPT !.delete = props[p] = "delete"]
    [] p = "_NET_WM_WINDOW_TYPE" -> [cached EXCEPT !.type = OrElse(props[p], @)]
    [] p = "WM_TRANSIENT_FOR" -> [cached EXCEPT !.parent = OrElse(props[p], @)]

PropertyNotify_Untold ==
  /\ changes # <<>> /\ changes' = Tail(changes)
  /\ IF Head(changes)[2] THEN UNCHANGED <<cached, dirty>>
     ELSE cached' = One(Head(changes)[1]) /\ dirty' = FALSE
  /\ UNCHANGED <<props, readOnce, owner, plexy>>

PropertyNotify ==
  /\ changes # <<>> /\ changes' = Tail(changes)
  /\ IF Head(changes)[2] THEN UNCHANGED <<cached, dirty, plexy>>
     ELSE LET p == Head(changes)[1]
          IN /\ cached' = One(p) /\ dirty' = FALSE
             /\ plexy' = (IF plexy # Absent /\ p \in {"_NET_WM_NAME", "WM_NAME"}
                          THEN [plexy EXCEPT !.title = cached'.name] ELSE plexy)
  /\ UNCHANGED <<props, readOnce, owner>>

\* handle_map_request, and handle_map_notify of an override-redirect window
MapReads ==
  /\ plexy = Absent
  /\ cached' = All /\ dirty' = FALSE /\ readOnce' = TRUE
  /\ UNCHANGED <<props, changes, owner, plexy>>

---------------------------------------------------------------------------
\* xwm_window_is_popup
IsPopup(c) == owner \/ c.type = "popup"

\* xwm_window_get_plexy_type
PlexyType(c) ==
  CASE IsPopup(c) -> "popup"
    [] ~IsPopup(c) /\ c.parent # Absent -> "dialog"
    [] OTHER -> "normal"

\* bridge_create_x11_window: bars of none but some types
Decorated(c) == PlexyType(c) \in {"normal", "dialog"}

OpenPlexy_Unmapped ==
  /\ plexy = Absent
  /\ plexy' = [popup |-> IsPopup(cached), type |-> PlexyType(cached),
               title |-> Absent, bar |-> Decorated(cached)]
  /\ UNCHANGED <<props, cached, dirty, changes, readOnce, owner>>

OpenPlexy ==
  /\ plexy = Absent /\ readOnce
  /\ LET c == IF dirty THEN All ELSE cached
     IN /\ cached' = c
        /\ plexy' = [popup |-> IsPopup(c), type |-> PlexyType(c),
                     title |-> IF IsPopup(c) THEN Absent ELSE c.name, bar |-> Decorated(c)]
  /\ dirty' = FALSE
  /\ UNCHANGED <<props, changes, readOnce, owner>>

ClosePlexy ==
  /\ plexy # Absent /\ plexy' = Absent
  /\ UNCHANGED <<props, cached, dirty, changes, readOnce, owner>>

PropertiesNext ==
  \/ \E p \in Property : \E v \in Value[p] \cup {Absent} : ChangeProperty(p, v)
  \/ PropertyNotify \/ MapReads \/ OpenPlexy \/ ClosePlexy

PropertiesSpec == PropertiesInit /\ [][PropertiesNext]_propertyVars

---------------------------------------------------------------------------
Settled(p) == readOnce /\ props[p] # Absent /\ \A i \in DOMAIN changes : changes[i][1] # p

\* SafetyProperty: of every property that is set and has no change under way,
\* the bridge has the value, however reading all, reading one, changing and
\* deleting followed each other. A name is one of the two there are.
CacheIsCurrent ==
  /\ Settled("WM_PROTOCOLS") => cached.delete = (props["WM_PROTOCOLS"] = "delete")
  /\ Settled("_NET_WM_WINDOW_TYPE") => cached.type = props["_NET_WM_WINDOW_TYPE"]
  /\ Settled("WM_TRANSIENT_FOR") => cached.parent = props["WM_TRANSIENT_FOR"]
  /\ Settled("_NET_WM_NAME") /\ Settled("WM_NAME") =>
       cached.name \in {props["_NET_WM_NAME"], props["WM_NAME"]}

\* SafetyProperty: Plexy shows a window under the name the bridge has, whoever
\* told it, and a window it has for a popup is none that it decorates.
PlexyKnowsTheWindow ==
  plexy # Absent =>
    /\ ~plexy.popup => plexy.title = cached.name
    /\ plexy.popup <=> plexy.type = "popup"
    /\ plexy.popup <=> ~plexy.bar

(***************************************************************************)
(* When no notice is unread, the cached properties are those of the window *)
(* and Plexy has the title, the type and the bars that follow from them,   *)
(* except for what is deleted.                                             *)
(***************************************************************************)
PropertiesOK ==
  /\ PropertiesTypeOK /\ CacheIsCurrent /\ PlexyKnowsTheWindow
=============================================================================
