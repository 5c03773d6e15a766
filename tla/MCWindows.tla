------------------------------ MODULE MCWindows ------------------------------
(***************************************************************************)
(* The machines of windows: XDG shell, subsurfaces, positioners, X11       *)
(* windows and their focus, explicit synchronisation, activation, drags.   *)
(* They share no state: a behaviour here is one of any of them, the        *)
(* others at rest.                                                         *)
(***************************************************************************)
EXTENDS XdgToplevels, XdgConfigure, Subsurfaces, Positioner, XwmWindows, XwmFocus,
        SyncPoints, ActivationTokens, DragAndDrop, TLC

CONSTANTS a, b, c, d, r1, r2, d1, g1, g2

MCSurface == {a, b}
MCToplevel == {r1, r2}
MCDialog == {d1}
MCNode == {a, b, c, d}
MCCoord == {0, -2}
MCActivator == {g1, g2}

\* No module but XwmWindows knows the surfaces of Xwayland, and there all are equal.
MCSymmetry == Permutations(XSurface)

VARIABLE part

allVars == <<toplevelVars, configureVars, treeVars, popupVars, xwmVars,
  focusVars, syncVars, tokenVars, dragVars>>

SumInit ==
  /\ part \in {"toplevels", "configure", "tree", "popup", "xwm", "xfocus",
              "sync", "tokens", "drag"}
  /\ ToplevelsInit
  /\ ConfigureInit
  /\ TreeInit
  /\ PopupInit
  /\ XwmInit
  /\ XfocusInit
  /\ SyncInit
  /\ TokensInit
  /\ DragInit
  /\ part # "tokens" => \A t \in Token : tokenOf[t].client = g1

SumNext ==
  /\ UNCHANGED part
  /\ \/ /\ part = "toplevels" /\ ToplevelsNext
        /\ UNCHANGED <<configureVars, treeVars, popupVars, xwmVars,
                       focusVars, syncVars, tokenVars, dragVars>>
     \/ /\ part = "configure" /\ ConfigureNext
        /\ UNCHANGED <<toplevelVars, treeVars, popupVars, xwmVars,
                       focusVars, syncVars, tokenVars, dragVars>>
     \/ /\ part = "tree" /\ TreeNext
        /\ UNCHANGED <<toplevelVars, configureVars, popupVars, xwmVars,
                       focusVars, syncVars, tokenVars, dragVars>>
     \/ /\ part = "popup" /\ PopupNext
        /\ UNCHANGED <<toplevelVars, configureVars, treeVars, xwmVars,
                       focusVars, syncVars, tokenVars, dragVars>>
     \/ /\ part = "xwm" /\ XwmNext
        /\ UNCHANGED <<toplevelVars, configureVars, treeVars, popupVars,
                       focusVars, syncVars, tokenVars, dragVars>>
     \/ /\ part = "xfocus" /\ XfocusNext
        /\ UNCHANGED <<toplevelVars, configureVars, treeVars, popupVars,
                       xwmVars, syncVars, tokenVars, dragVars>>
     \/ /\ part = "sync" /\ SyncNext
        /\ UNCHANGED <<toplevelVars, configureVars, treeVars, popupVars,
                       xwmVars, focusVars, tokenVars, dragVars>>
     \/ /\ part = "tokens" /\ TokensNext
        /\ UNCHANGED <<toplevelVars, configureVars, treeVars, popupVars,
                       xwmVars, focusVars, syncVars, dragVars>>
     \/ /\ part = "drag" /\ DragNext
        /\ UNCHANGED <<toplevelVars, configureVars, treeVars, popupVars,
                       xwmVars, focusVars, syncVars, tokenVars>>

SumSpec == SumInit /\ [][SumNext]_<<allVars, part>>
=============================================================================
