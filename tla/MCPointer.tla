------------------------------ MODULE MCPointer ------------------------------
(***************************************************************************)
(* The machines of the pointer, of pictures and of text: pointer focus and *)
(* constraints, viewports, regions, the two buffers of a Plexy window,     *)
(* DMA-BUF import and text input. They share no state: a behaviour here is *)
(* one of any of them, the others at rest.                                 *)
(***************************************************************************)
EXTENDS PointerSeat, Viewports, Regions, DoubleBuffers, Dmabuf, TextInput, TLC

CONSTANTS a, b, x, k, app, xwl, h1, h2, h3, h4, h5, t1, t2

\* A window of an application and its subsurface, a window of Xwayland, and
\* Xwayland's cursor.
MCOwner == [s \in Surface |-> IF s \in {a, b} THEN app ELSE xwl]
MCParent == [s \in Surface |-> IF s = b THEN a ELSE None]

\* An application that locks the pointer once, Xwayland that confines it.
MCAsked ==
  (a :> {<<"lock", "oneshot">>})
  @@ (x :> {<<"confine", "persistent">>}) @@ [s \in {b, k} |-> {}]

\* Client buffers of every kind, two of which are larger.
MCClient == {h1, h2, h3, h4, h5}
MCKind == h1 :> "shm" @@ h4 :> "texture" @@ [h \in {h2, h3, h5} |-> "fd"]
MCSize == [h \in MCClient |-> IF h \in {h4, h5} THEN 2 ELSE 1]
MCTarget == [h \in MCClient |-> 1]

\* Two text inputs of one client.
MCTextField == {t1, t2}
MCFieldOwner == [t \in TextField |-> app]

\* Text inputs, input methods and surfaces of Xwayland that exist at once.
MCMaxObjects == 3

MCOrigin == {-1, 0, 3}
MCExtent == {0, 1, 5}
MCRegionX == {-3, -1}
MCRegionWidth == {-1, 1, 3}

\* How many there are at once of constraints, destroyed surfaces, and surfaces
\* under a touch or a gesture.
MCMaxTogether == 3
MCFew ==
  LET constrained == {s \in Surface : seat.con[s] # NoConstraint}
      under == {touched, gesture.on} \ {None}
  IN Cardinality(constrained) + Cardinality(Surface \ surfaces) + Cardinality(under)
       <= MCMaxTogether

VARIABLE part

allVars == <<vars, viewportVars, regionVars, doubleVars, dmabufVars, textVars>>

SumInit ==
  /\ part \in {"pointer", "viewports", "regions", "double", "dmabuf",
              "text"}
  /\ Init
  /\ ViewportsInit
  /\ RegionsInit
  /\ DoubleInit
  /\ DmabufInit
  /\ TextInit
  /\ part # "viewports" => is_toplevel
  /\ part # "regions" => role = "popup"
  /\ part # "dmabuf" => enabled

SumNext ==
  /\ UNCHANGED part
  /\ \/ /\ part = "pointer" /\ Next /\ MCFew'
        /\ UNCHANGED <<viewportVars, regionVars, doubleVars, dmabufVars,
                       textVars>>
     \/ /\ part = "viewports" /\ ViewportsNext
        /\ UNCHANGED <<vars, regionVars, doubleVars, dmabufVars, textVars>>
     \/ /\ part = "regions" /\ RegionsNext
        /\ UNCHANGED <<vars, viewportVars, doubleVars, dmabufVars, textVars>>
     \/ /\ part = "double" /\ DoubleNext
        /\ UNCHANGED <<vars, viewportVars, regionVars, dmabufVars, textVars>>
     \/ /\ part = "dmabuf" /\ DmabufNext
        /\ UNCHANGED <<vars, viewportVars, regionVars, doubleVars, textVars>>
     \/ /\ part = "text" /\ TextNext
        /\ Len(fields') + Cardinality(methods') + Cardinality(xsurfaces')
             <= MCMaxObjects
        /\ UNCHANGED <<vars, viewportVars, regionVars, doubleVars,
                       dmabufVars>>

SumSpec == SumInit /\ [][SumNext]_<<allVars, part>>
=============================================================================
