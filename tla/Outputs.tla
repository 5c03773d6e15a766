------------------------------ MODULE Outputs ------------------------------
(***************************************************************************)
(* Outputs (wl_output.c, the enter and leave events of event_forward.c):   *)
(* a wl_output global for each output Plexy reports, and for one surface   *)
(* the outputs its window is on, of which it records a few.                *)
(*                                                                         *)
(* Left out: names, modes and positions; who is told of a change, which is *)
(* every wl_output and xdg_output bound; and lists that Plexy reports in   *)
(* another order.                                                          *)
(***************************************************************************)
EXTENDS SequencesExt, Naturals, Queues

CONSTANTS
  OutputId,   \* ids of outputs, from 1
  MaxEntered  \* outputs a surface records, 4 in the code

ASSUME OutputAssumption ==
  /\ OutputId \subseteq Nat \ {0} /\ IsFiniteSet(OutputId) /\ 1 \in OutputId
  /\ MaxEntered \in Nat \ {0}

VARIABLES
  reported,       \* outputs of Plexy, as of the last event dispatched
  output_globals, \* ids of the globals, in order
  output_global,  \* the first of them, 0: none
  complete,       \* history: the last list all globals were made for
  inside,         \* outputs Plexy shows the window of the surface on
  entered,        \* entered_output_ids
  current,        \* current_output_id, 0: none
  overflown,      \* history: an output was entered and not recorded
  replaced        \* history: a window went with no leave sent

globalVars == <<reported, output_globals, output_global, complete>>
enteredVars == <<inside, entered, current, overflown, replaced>>
outputVars == <<globalVars, enteredVars>>

\* Lists of outputs, in the order of their ids
OutputList == {list \in SeqOf(OutputId, Cardinality(OutputId)) :
                 \A i, j \in DOMAIN list : i < j => list[i] < list[j]}

OutputsTypeOK ==
  /\ reported \in OutputList /\ {output_globals, complete} \subseteq OutputList
  /\ {output_global, current} \subseteq OutputId \cup {0}
  /\ inside \subseteq OutputId
  /\ entered \in BoundedSeq(OutputId, MaxEntered) /\ IsInjective(entered)
  /\ overflown \in BOOLEAN /\ replaced \in BOOLEAN

\* get_desired_output_ids
Desired(list) == IF list = <<>> THEN <<1>> ELSE list

OutputsInit ==
  /\ reported \in OutputList
  /\ output_globals = Desired(reported) /\ output_global = output_globals[1]
  /\ complete = output_globals
  /\ inside = {} /\ entered = <<>> /\ current = 0
  /\ overflown = FALSE /\ replaced = FALSE

---------------------------------------------------------------------------
\* bridge_create_output_globals: an allocation fails before anything is
\* touched, or with some globals made, which are then destroyed again.
CreateFails_HalfWay(want) ==
  /\ UNCHANGED complete
  /\ \/ UNCHANGED <<output_globals, output_global>>
     \/ \E n \in 0..(Len(want) - 1) :
          /\ output_globals' = SubSeq(want, 1, n)
          /\ output_global' = IF n = 0 THEN 0 ELSE want[1]

CreateFails(want) ==
  /\ UNCHANGED complete
  /\ \/ UNCHANGED <<output_globals, output_global>>
     \/ output_globals # want /\ output_globals' = <<>> /\ output_global' = 0

CreateGlobals(want) ==
  /\ complete' = want /\ output_globals' = want /\ output_global' = want[1]

\* bridge_dispatch_plexy: all there is to read is read, and if the outputs
\* have changed bridge_refresh_outputs brings the globals up to date.
OutputsChange(list) ==
  /\ reported' = list
  /\ CreateGlobals(Desired(list)) \/ CreateFails(Desired(list))
  /\ UNCHANGED enteredVars

\* track_surface_output_enter
EnterOutput_OneMore(o) ==
  /\ o \notin inside /\ inside' = inside \cup {o}
  /\ LET full == Len(entered) > MaxEntered
         known == Contains(entered, o)
     IN /\ entered' = IF known \/ full THEN entered ELSE Append(entered, o)
        /\ current' = o
        /\ overflown' = (overflown \/ (full /\ ~known))
  /\ UNCHANGED <<globalVars, replaced>>

EnterOutput(o) ==
  /\ o \notin inside /\ inside' = inside \cup {o}
  /\ LET full == Len(entered) >= MaxEntered
         known == Contains(entered, o)
     IN /\ entered' = IF known \/ full THEN entered ELSE Append(entered, o)
        /\ current' = o
        /\ overflown' = (overflown \/ (full /\ ~known))
  /\ UNCHANGED <<globalVars, replaced>>

\* track_surface_output_leave
LeaveOutput_StaysCurrent(o) ==
  /\ o \in inside /\ inside' = inside \ {o}
  /\ entered' = Without(entered, {o})
  /\ current' = IF current # o \/ entered' = <<>> THEN current ELSE Last(entered')
  /\ UNCHANGED <<globalVars, overflown, replaced>>

LeaveOutput(o) ==
  /\ o \in inside /\ inside' = inside \ {o}
  /\ entered' = Without(entered, {o})
  /\ current' = IF current # o THEN current
                ELSE IF entered' = <<>> THEN 0 ELSE Last(entered')
  /\ UNCHANGED <<globalVars, overflown, replaced>>

\* The surface gets another window; what is recorded is of the old one.
ReplaceWindow ==
  /\ inside # {} /\ inside' = {} /\ replaced' = TRUE
  /\ UNCHANGED <<globalVars, entered, current, overflown>>

OutputsNext ==
  \/ \E list \in OutputList : OutputsChange(list)
  \/ \E o \in OutputId : EnterOutput(o) \/ LeaveOutput(o)
  \/ ReplaceWindow

OutputsSpec == OutputsInit /\ [][OutputsNext]_outputVars

---------------------------------------------------------------------------
\* bridge_surface_get_output_info: the output whose scale the surface takes.
\* Of an output that is not reported any more it is made up.
OutputOf ==
  IF current # 0 THEN current
  ELSE IF entered # <<>> THEN Last(entered) ELSE Desired(reported)[1]

(* There is a global for every output of a list Plexy reported, or none at *)
(* all: what a failed refresh has made of a list is gone again, and        *)
(* output_global is the first of what there is and of nothing destroyed.   *)
(* (src/wayland/README.md:119 says that only one output is reported to     *)
(* clients; the code makes a global for each.)                             *)
GlobalsAreWhole ==
  /\ output_globals \in {<<>>, complete}
  /\ output_global = IF output_globals = <<>> THEN 0 ELSE output_globals[1]

(* As long as windows are not replaced, the scale of a surface is that of  *)
(* an output it is on, also when it is on more outputs than it records,    *)
(* unless an unrecorded one is the only one left.                          *)
ScaleIsOfOutputShown ==
  ~replaced => /\ current \in inside \cup {0}
               /\ ToSet(entered) \subseteq inside
               /\ inside # {} /\ ~overflown => OutputOf \in inside

(***************************************************************************)
(* No client is offered half an output, whatever fails while outputs are   *)
(* replaced, and the scale of a surface is of an output it is on.          *)
(***************************************************************************)
OutputsOK ==
  /\ OutputsTypeOK /\ GlobalsAreWhole /\ ScaleIsOfOutputShown
=============================================================================
