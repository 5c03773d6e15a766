------------------------------- MODULE MCSeat -------------------------------
(***************************************************************************)
(* The machines of the seat: keyboard focus, the clipboard on both sides,  *)
(* X11 geometry, states and properties, outputs, shm pools, idle           *)
(* notifications and the start of the bridge. They share no state: a       *)
(* behaviour here is one of any of them, the others at rest.               *)
(***************************************************************************)
EXTENDS KeyboardSeat, Selections, XwmSelections, XwmGeometry, XwmStates,
        XwmProperties, Outputs, ShmPools, IdleNotify, BridgeMain

CONSTANTS win, menu, sub, other, xmenu, app, shell, xwl

\* An application with a window, a menu and its submenu; a window of
\* another client, which also locks the session; a menu of Xwayland.
MCOwner == [s \in Surface |-> IF s = other THEN shell
                              ELSE IF s = xmenu THEN xwl ELSE app]
MCParent == [s \in Surface |-> IF s = menu THEN win
                               ELSE IF s = sub THEN menu ELSE None]

MCAt == {-3, 0, 6}
MCOffset == {-4, 0, 4}

VARIABLE part

allVars == <<vars, selectionVars, xselectionVars, geometryVars, stateVars,
  propertyVars, outputVars, shmVars, idleVars, mainVars>>

SumInit ==
  /\ part \in {"keyboard", "selections", "xselections", "geometry",
              "states", "properties", "outputs", "shm", "idle",
              "main"}
  /\ Init
  /\ SelectionsInit
  /\ XselectionInit
  /\ GeometryInit
  /\ StatesInit
  /\ PropertiesInit
  /\ OutputsInit
  /\ ShmInit
  /\ IdleInit
  /\ MainInit
  /\ part # "geometry" => override = FALSE /\ server = [at |-> 0, len |-> 5]
  /\ part # "properties" => owner = FALSE
  /\ part # "outputs" => reported = <<1>>

SumNext ==
  /\ UNCHANGED part
  /\ \/ /\ part = "keyboard" /\ Next
        /\ UNCHANGED <<selectionVars, xselectionVars, geometryVars,
                       stateVars, propertyVars, outputVars,
                       shmVars, idleVars, mainVars>>
     \/ /\ part = "selections" /\ SelectionsNext
        /\ UNCHANGED <<vars, xselectionVars, geometryVars, stateVars,
                       propertyVars, outputVars, shmVars,
                       idleVars, mainVars>>
     \/ /\ part = "xselections" /\ XselectionNext
        /\ UNCHANGED <<vars, selectionVars, geometryVars, stateVars,
                       propertyVars, outputVars, shmVars,
                       idleVars, mainVars>>
     \/ /\ part = "geometry" /\ GeometryNext
        /\ UNCHANGED <<vars, selectionVars, xselectionVars, stateVars,
                       propertyVars, outputVars, shmVars,
                       idleVars, mainVars>>
     \/ /\ part = "states" /\ StatesNext
        /\ UNCHANGED <<vars, selectionVars, xselectionVars, geometryVars,
                       propertyVars, outputVars, shmVars,
                       idleVars, mainVars>>
     \/ /\ part = "properties" /\ PropertiesNext
        /\ UNCHANGED <<vars, selectionVars, xselectionVars, geometryVars,
                       stateVars, outputVars, shmVars, idleVars,
                       mainVars>>
     \/ /\ part = "outputs" /\ OutputsNext
        /\ UNCHANGED <<vars, selectionVars, xselectionVars, geometryVars,
                       stateVars, propertyVars, shmVars, idleVars,
                       mainVars>>
     \/ /\ part = "shm" /\ ShmNext
        /\ UNCHANGED <<vars, selectionVars, xselectionVars, geometryVars,
                       stateVars, propertyVars, outputVars,
                       idleVars, mainVars>>
     \/ /\ part = "idle" /\ IdleNext
        /\ UNCHANGED <<vars, selectionVars, xselectionVars, geometryVars,
                       stateVars, propertyVars, outputVars,
                       shmVars, mainVars>>
     \/ /\ part = "main" /\ MainNext
        /\ UNCHANGED <<vars, selectionVars, xselectionVars, geometryVars,
                       stateVars, propertyVars, outputVars,
                       shmVars, idleVars>>

SumSpec == SumInit /\ [][SumNext]_<<allVars, part>>
=============================================================================
