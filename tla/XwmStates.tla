------------------------------ MODULE XwmStates ------------------------------
(***************************************************************************)
(* Fullscreen and maximized X11 windows (xwm.c, event_forward.c): the      *)
(* flags of the window manager, the _NET_WM_STATE it advertises, the flags *)
(* of the surface, and the mode Plexy has the window in.  A client asks by *)
(* messages, Plexy answers by configure events some time after.            *)
(*                                                                         *)
(* Left out: the other states, which nothing but the client changes and    *)
(* Plexy is not told; geometry (XwmGeometry).                              *)
(***************************************************************************)
EXTENDS Naturals, Sequences

CONSTANT MaxAnswers \* bound on configure events not handled

ASSUME StatesAssumption == MaxAnswers \in Nat

VARIABLES
  flags,      \* fullscreen, maximized_vert and maximized_horz of the xwm_window
  advertised, \* the same in its _NET_WM_STATE
  content,    \* fullscreen and maximized of the surface
  paired,     \* the window has a surface and a Plexy window
  mode,       \* of the window in Plexy
  answers,    \* modes in configure events of Plexy
  hasty,      \* history: the client asked again before Plexy had answered
  overruled   \* history: the user took the window out of fullscreen

stateVars == <<flags, advertised, content, paired, mode, answers, hasty, overruled>>

State == {"fullscreen", "vert", "horz"}
Mode == {"normal", "maximized", "fullscreen"}

StatesTypeOK ==
  /\ flags \subseteq State /\ advertised \subseteq State
  /\ content \in Mode /\ mode \in Mode
  /\ answers \in Seq(Mode) /\ Len(answers) <= MaxAnswers
  /\ {paired, hasty, overruled} \subseteq BOOLEAN
  /\ ~paired => answers = <<>>

StatesInit ==
  /\ flags = {} /\ advertised = {} /\ content = "normal" /\ paired = FALSE
  /\ mode = "normal" /\ answers = <<>> /\ hasty = FALSE /\ overruled = FALSE

---------------------------------------------------------------------------
\* The mode a set of flags asks for
Asked(set) ==
  IF "fullscreen" \in set THEN "fullscreen"
  ELSE IF {"vert", "horz"} \subseteq set THEN "maximized" ELSE "normal"

\* What one message makes of the flags it names
Changed(set, action, props) ==
  CASE action = "remove" -> set \ props
    [] action = "add"    -> set \cup props
    [] action = "toggle" -> (set \ props) \cup (props \ set)

\* handle_map_request: the property as the client set it, read and written back
MapManaged(set) ==
  /\ ~paired
  /\ flags' = set /\ advertised' = set
  /\ UNCHANGED <<content, paired, mode, answers, hasty, overruled>>

\* The window is paired with a new surface: the flags it has are not asked of
\* Plexy, which has it normal.
Pair ==
  /\ ~paired /\ paired' = TRUE
  /\ content' = "normal" /\ mode' = "normal" /\ hasty' = FALSE
  /\ overruled' = (Asked(flags) # "normal")
  /\ UNCHANGED <<flags, advertised, answers>>

\* The surface goes, and with it the Plexy window and its events.
Unpair_KeepsAnswers ==
  /\ paired /\ paired' = FALSE
  /\ UNCHANGED <<flags, advertised, content, mode, answers, hasty, overruled>>

Unpair ==
  /\ paired /\ paired' = FALSE /\ answers' = <<>>
  /\ UNCHANGED <<flags, advertised, content, mode, hasty, overruled>>

\* plexy_window_request_fullscreen and _maximize: an external server that
\* answers each change of the mode; from fullscreen to maximized there are two.
Steps(to) ==
  IF to = mode THEN <<>>
  ELSE IF mode = "fullscreen" /\ to = "maximized" THEN <<"normal", "maximized">> ELSE <<to>>

Requested(to) ==
  /\ mode' = to /\ answers' = answers \o Steps(to)
  /\ Len(answers \o Steps(to)) <= MaxAnswers

\* handle_client_message, _NET_WM_STATE; one or two states are named.
NetWmState_StaysFull(action, props) ==
  /\ flags' = Changed(flags, action, props)
  /\ advertised' = flags'
  /\ IF paired
     THEN /\ Requested(IF mode = "fullscreen" THEN mode ELSE Asked(flags'))
          /\ content' = Asked(flags')
          /\ hasty' = (answers # <<>>) /\ overruled' = FALSE
     ELSE UNCHANGED <<content, mode, answers, hasty, overruled>>
  /\ UNCHANGED paired

NetWmState(action, props) ==
  /\ flags' = Changed(flags, action, props)
  /\ advertised' = flags'
  /\ IF paired
     THEN /\ Requested(Asked(flags')) /\ content' = Asked(flags')
          /\ hasty' = (answers # <<>>) /\ overruled' = FALSE
     ELSE UNCHANGED <<content, mode, answers, hasty, overruled>>
  /\ UNCHANGED paired

\* The user maximizes, restores or leaves fullscreen in Plexy.
UserSets(to) ==
  /\ paired /\ mode # to /\ Requested(to)
  /\ overruled' = (overruled \/ "fullscreen" \in flags) /\ hasty' = (hasty \/ answers # <<>>)
  /\ UNCHANGED <<flags, advertised, content, paired>>

\* forward_configure: leaving fullscreen is taken for an old event and ignored
\* as long as the client has not asked for it.
Answered(set, to) ==
  IF "fullscreen" \in set /\ to # "fullscreen" THEN set
  ELSE IF to = "fullscreen" THEN {"fullscreen"}
  ELSE IF to = "maximized" THEN {"vert", "horz"} ELSE {}

ForwardAnswer_Untold ==
  /\ paired /\ answers # <<>> /\ answers' = Tail(answers)
  /\ flags' = Answered(flags, Head(answers))
  /\ content' = (IF "fullscreen" \in flags' THEN "fullscreen" ELSE Head(answers))
  /\ UNCHANGED <<advertised, paired, mode, hasty, overruled>>

ForwardAnswer ==
  /\ paired /\ answers # <<>> /\ answers' = Tail(answers)
  /\ flags' = Answered(flags, Head(answers))
  /\ content' = (IF "fullscreen" \in flags' THEN "fullscreen" ELSE Head(answers))
  /\ advertised' = (IF \/ ("fullscreen" \in flags) # ("fullscreen" \in flags')
                       \/ ({"vert", "horz"} \subseteq flags)
                            # ({"vert", "horz"} \subseteq flags')
                    THEN flags' ELSE advertised)
  /\ UNCHANGED <<paired, mode, hasty, overruled>>

StatesNext ==
  \/ \E set \in SUBSET State : MapManaged(set)
  \/ Pair \/ Unpair \/ ForwardAnswer
  \/ \E action \in {"remove", "add", "toggle"}, p, q \in State : NetWmState(action, {p, q})
  \/ \E to \in Mode : UserSets(to)

StatesSpec == StatesInit /\ [][StatesNext]_stateVars

---------------------------------------------------------------------------
\* SafetyProperty: what _NET_WM_STATE advertises is what the bridge has the
\* window be, whether the client, the user or an answer changed it last. One
\* of the two maximized states alone may be dropped without being told.
AdvertisedIsTrue ==
  /\ "fullscreen" \in advertised <=> "fullscreen" \in flags
  /\ {"vert", "horz"} \subseteq advertised <=> {"vert", "horz"} \subseteq flags

\* SafetyProperty: once Plexy has answered, its mode, the flags and the surface
\* agree, unless a request was reversed before it was answered (its late answer
\* sets the flag again, and the answer after it is ignored as an old one), or
\* the user took the window out of fullscreen, or it was paired with flags that
\* Plexy was never told.
ModesSettle ==
  paired /\ answers = <<>> /\ ~hasty /\ ~overruled =>
    mode = Asked(flags) /\ content = mode

(***************************************************************************)
(* What an X11 window advertises is what the bridge takes it for, and when *)
(* no answer is in flight that is the mode Plexy gave its window.          *)
(***************************************************************************)
StatesOK ==
  /\ StatesTypeOK /\ AdvertisedIsTrue /\ ModesSettle
=============================================================================
