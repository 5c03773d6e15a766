------------------------------ MODULE BridgeMain ------------------------------
(***************************************************************************)
(* The life of the bridge process (main, wayland_bridge.c): what it makes  *)
(* step by step as it starts, each step of which may fail; the event loop, *)
(* which a signal or the loss of Plexy ends; and what is undone, in order. *)
(*                                                                         *)
(* Left out: log files and paths; a signal while the display is destroyed  *)
(* and the bridge not yet freed, whose handler uses the dead display.      *)
(***************************************************************************)
EXTENDS Sequences, FiniteSets, SequencesExt

VARIABLES
  phase,    \* how far main is
  held,     \* what it has made and not undone
  globals,  \* essential globals made, of compositor, subcompositor, shm, shell, seat
  running,  \* bridge->running
  run,      \* of the display: what wl_display_run tests
  lost,     \* Plexy has closed the connection
  early,    \* history: a signal came before the event loop was entered
  status    \* exit status

mainVars == <<phase, held, globals, running, run, lost, early, status>>

Essential == {"compositor", "subcompositor", "shm", "xdg_wm_base", "seat"}

\* The order in which main undoes what it made
Undone == <<"xwayland", "dmabuf", "weston", "logger", "display", "plexy", "bridge">>

Starting == {"begin", "server", "weston", "plexy", "ready"}

MainTypeOK ==
  /\ phase \in Starting \cup {"loop", "down", "exited"}
  /\ held \subseteq Range(Undone) \cup {"source", "timer"}
  /\ globals \subseteq Essential
  /\ {running, run, lost, early} \subseteq BOOLEAN
  /\ status \in {0, 1}
  /\ phase \in {"plexy", "ready", "loop"} => {"bridge", "display"} \subseteq held
  /\ phase \in {"ready", "loop"} => "plexy" \in held

MainInit ==
  /\ phase = "begin" /\ held = {} /\ globals = {} /\ running = FALSE /\ run = FALSE
  /\ lost = FALSE /\ early = FALSE /\ status = 0

---------------------------------------------------------------------------
\* Each failure of main undoes some of what there is, leaves the rest and returns 1.
Fail(left) ==
  /\ phase' = "exited" /\ status' = 1 /\ held' = left
  /\ UNCHANGED <<globals, running, run, lost, early>>

\* The bridge is allocated, dmabuf tried, and the signal handlers installed.
Prepare ==
  /\ phase = "begin"
  /\ \/ Fail({})
     \/ /\ held' \in {{"bridge"}, {"bridge", "dmabuf"}}
        /\ running' = TRUE /\ phase' = "server"
        /\ UNCHANGED <<globals, run, lost, early, status>>

InitServer_Unchecked ==
  /\ phase = "server"
  /\ held' \in {held, held \cup {"display"}} /\ globals' = Essential /\ phase' = "weston"
  /\ UNCHANGED <<running, run, lost, early, status>>

\* init_wayland_server, which checks five of its globals only. What fails
\* leaves the display, if there is one, and dmabuf to the end of the process.
InitServer ==
  /\ phase = "server"
  /\ \E display, socket \in BOOLEAN, made \in SUBSET Essential,
        logger \in SUBSET {"logger"} :
       IF display /\ socket /\ made = Essential
       THEN /\ held' = held \cup {"display"} \cup logger
            /\ globals' = made /\ phase' = "weston"
            /\ UNCHANGED <<running, run, lost, early, status>>
       ELSE Fail((held \ {"bridge"}) \cup (IF display THEN {"display"} ELSE {})
                 \cup (IF display /\ socket THEN logger ELSE {}))

\* weston_bridge_init, if it is asked for: a failure undoes what it made, and
\* main goes on without it.
InitWeston ==
  /\ phase = "weston"
  /\ held' \in {held, held \cup {"weston"}} /\ phase' = "plexy"
  /\ UNCHANGED <<globals, running, run, lost, early, status>>

\* init_plexy_client and what main does when it fails: no socket, no
\* connection, no descriptor, no event source, or no output globals.
InitPlexy_FailsConnected ==
  /\ phase = "plexy"
  /\ \/ \E made \in {{}, {"plexy"}, {"plexy", "source"}} :
          Fail((held \cup made) \ {"display", "source", "bridge"})
     \/ /\ held' = held \cup {"plexy", "source"} /\ phase' = "ready"
        /\ UNCHANGED <<globals, running, run, lost, early, status>>

InitPlexy ==
  /\ phase = "plexy"
  /\ \/ \E made \in {{}, {"plexy"}, {"plexy", "source"}} :
          Fail((held \cup made) \ {"plexy", "display", "source", "bridge"})
     \/ /\ held' = held \cup {"plexy", "source"} /\ phase' = "ready"
        /\ UNCHANGED <<globals, running, run, lost, early, status>>

\* The ping timer and Xwayland, neither of which is needed; then wl_display_run,
\* which begins by setting what it tests.
EnterLoop ==
  /\ phase = "ready"
  /\ \E more \in SUBSET {"timer", "xwayland"} : held' = held \cup more
  /\ phase' = "loop" /\ run' = TRUE
  /\ UNCHANGED <<globals, running, lost, early, status>>

\* signal_handler, of no effect until there is a display
Signal ==
  /\ phase \in (Starting \ {"begin"}) \cup {"loop"}
  /\ IF "display" \in held /\ "bridge" \in held
     THEN running' = FALSE /\ run' = FALSE ELSE UNCHANGED <<running, run>>
  /\ early' = (early \/ phase # "loop")
  /\ UNCHANGED <<phase, held, globals, lost, status>>

PlexyCloses ==
  /\ "plexy" \in held /\ ~lost /\ lost' = TRUE
  /\ UNCHANGED <<phase, held, globals, running, run, early, status>>

\* bridge_dispatch_plexy on a connection that was closed
PlexyIsLost_KeepsRunning ==
  /\ phase = "loop" /\ run /\ lost
  /\ run' = FALSE
  /\ UNCHANGED <<phase, held, globals, running, lost, early, status>>

PlexyIsLost ==
  /\ phase = "loop" /\ run /\ lost
  /\ running' = FALSE /\ run' = FALSE
  /\ UNCHANGED <<phase, held, globals, lost, early, status>>

LeaveLoop ==
  /\ phase = "loop" /\ ~run
  /\ phase' = "down" /\ running' = FALSE
  /\ UNCHANGED <<held, globals, run, lost, early, status>>

\* One thing after another; the sources go with the display.
Undo_AnyOrder(x) ==
  /\ phase = "down" /\ x \in held
  /\ held' = held \ {x}
  /\ phase' = (IF x = "bridge" THEN "exited" ELSE "down")
  /\ globals' = IF x = "display" THEN {} ELSE globals
  /\ UNCHANGED <<running, run, lost, early, status>>

Undo(x) ==
  /\ phase = "down" /\ x \in held
  /\ \A i, j \in DOMAIN Undone : i < j /\ Undone[j] = x => Undone[i] \notin held
  /\ held' = held \ (IF x = "display" THEN {x, "source", "timer"} ELSE {x})
  /\ phase' = (IF x = "bridge" THEN "exited" ELSE "down")
  /\ globals' = IF x = "display" THEN {} ELSE globals
  /\ UNCHANGED <<running, run, lost, early, status>>

MainNext ==
  \/ Prepare \/ InitServer \/ InitWeston \/ InitPlexy \/ EnterLoop
  \/ Signal \/ PlexyCloses \/ PlexyIsLost \/ LeaveLoop
  \/ \E x \in Range(Undone) : Undo(x)

MainSpec == MainInit /\ [][MainNext]_mainVars

---------------------------------------------------------------------------
\* SafetyProperty: a bridge whose loop was entered undoes everything it made:
\* Xwayland while the display, Plexy and the bridge are there, the display and
\* its event sources before Plexy, whose descriptor one of them watches.
StopsInOrder ==
  /\ phase = "exited" /\ status = 0 => held = {}
  /\ phase = "down" /\ "xwayland" \in held => {"display", "plexy", "bridge"} \subseteq held
  /\ phase = "down" /\ "display" \in held => "plexy" \in held

\* SafetyProperty: a start that fails does not undo all: what it leaves to the
\* end of the process is the display, dmabuf and the logger if the server
\* failed, dmabuf, the logger and weston if Plexy did. It always frees the
\* bridge, and never leaves an event source without its display.
LeftByFailure ==
  phase = "exited" /\ status = 1 =>
    held \subseteq {"display", "dmabuf", "logger"} \/ held \subseteq {"dmabuf", "logger", "weston"}

\* SafetyProperty: however far a start came, a bridge that has exited leaves
\* neither Xwayland running nor a connection to Plexy.
NoPeerIsLeft == phase = "exited" => held \cap {"xwayland", "plexy"} = {}

\* SafetyProperty: while events are served the bridge takes commits, and when
\* it stops taking them it stops serving, unless a signal came too early: the
\* loop then goes on in a bridge that ignores every commit.
ServedIsRunning == phase = "loop" /\ ~early => run = running

(***************************************************************************)
(* Whatever ends the loop, all that was set up is undone in order;         *)
(* whichever step of the start fails, no peer is left connected, although  *)
(* some of what was set up before it stays.                                *)
(***************************************************************************)
MainOK ==
  /\ MainTypeOK /\ StopsInOrder /\ LeftByFailure /\ NoPeerIsLeft /\ ServedIsRunning
=============================================================================
