---------------------------- MODULE Subsurfaces -----------------------------
(***************************************************************************)
(* The trees of subsurfaces and their stacking lists (wl_subcompositor.c,  *)
(* wayland_bridge.c).  A wl_subsurface keeps the parent it was made with,  *)
(* the surface its current parent; the parent keeps a list of children     *)
(* through links in the children, so that every way out of the tree has to *)
(* unlink the child.                                                       *)
(*                                                                         *)
(* Left out: positions, and the raising of the windows in the order of the *)
(* list.  Clients name as parent a surface that is no descendant, place a  *)
(* subsurface next to a sibling or its parent, as the protocol asks, and   *)
(* do not place one whose parent is gone: the code would follow the        *)
(* wl_subsurface's pointer to it.                                          *)
(***************************************************************************)
EXTENDS Naturals, SequencesExt, Queues

CONSTANTS
  Node, \* addresses of surfaces
  Nil,
  Lost  \* the parent of a wl_subsurface that outlived it

ASSUME TreeAssumption == Nil \notin Node /\ Lost \notin Node /\ Nil # Lost

VARIABLES
  nodes,    \* surfaces that exist
  object,   \* the parent of the wl_subsurface of a surface, Lost, or Nil: no object
  parentOf, \* subsurface_parent
  stack,    \* the list `subsurfaces' of a surface, lowest first
  sync      \* subsurfaces in synchronised mode

treeVars == <<nodes, object, parentOf, stack, sync>>

TreeTypeOK ==
  /\ nodes \subseteq Node /\ sync \subseteq nodes
  /\ object \in [Node -> Node \cup {Nil, Lost}]
  /\ parentOf \in [Node -> Node \cup {Nil}]
  /\ stack \in [Node -> Seq(Node)]

TreeInit ==
  /\ nodes = {} /\ sync = {}
  /\ object = [n \in Node |-> Nil] /\ parentOf = [n \in Node |-> Nil]
  /\ stack = [n \in Node |-> <<>>]

Unlinked(st, n) == [p \in Node |-> Without(st[p], {n})]

\* Following f from a member of S does not lead out of S.
LeadsInto(f, n, S) == f[n] \in Node => f[n] \in S

Closed(f, S) == \A m \in S : LeadsInto(f, m, S)

\* The surfaces reached from n by following f
Ancestors(f, n) ==
  {m \in Node : \A S \in SUBSET Node : LeadsInto(f, n, S) /\ Closed(f, S) => m \in S}

---------------------------------------------------------------------------
\* bridge_surface_create
CreateNode(n) ==
  /\ n \notin nodes
  /\ nodes' = nodes \cup {n}
  /\ UNCHANGED <<object, parentOf, stack, sync>>

\* The objects when surface n is gone
Orphaned(n) ==
  [c \in Node |-> IF c = n THEN Nil ELSE IF object[c] = n THEN Lost ELSE object[c]]

\* bridge_surface_destroy: leaves its parent's list and lets its children go.
DestroyNode_KeepsChildren(n) ==
  /\ n \in nodes
  /\ nodes' = nodes \ {n} /\ sync' = sync \ {n}
  /\ object' = Orphaned(n)
  /\ parentOf' = [parentOf EXCEPT ![n] = Nil]
  /\ stack' = [Unlinked(stack, n) EXCEPT ![n] = <<>>]

DestroyNode(n) ==
  /\ n \in nodes
  /\ nodes' = nodes \ {n} /\ sync' = sync \ {n}
  /\ object' = Orphaned(n)
  /\ parentOf' = [c \in Node |-> IF c = n \/ parentOf[c] = n THEN Nil ELSE parentOf[c]]
  /\ stack' = [Unlinked(stack, n) EXCEPT ![n] = <<>>]

\* subcompositor_get_subsurface: refused while the surface has an object.
MakeSubsurface(n, p) ==
  /\ {n, p} \subseteq nodes /\ n # p /\ n \notin Ancestors(object, p)
  /\ object[n] = Nil
  /\ object' = [object EXCEPT ![n] = p]
  /\ parentOf' = [parentOf EXCEPT ![n] = p]
  /\ sync' = sync \cup {n}
  /\ stack' = [stack EXCEPT ![p] = <<n>> \o @]
  /\ UNCHANGED nodes

DestroySubsurface_KeepsParent(n) ==
  /\ n \in nodes /\ object[n] # Nil
  /\ object' = [object EXCEPT ![n] = Nil]
  /\ stack' = IF parentOf[n] = Nil THEN stack ELSE Unlinked(stack, n)
  /\ UNCHANGED <<nodes, parentOf, sync>>

\* subsurface_handle_destroy
DestroySubsurface(n) ==
  /\ n \in nodes /\ object[n] # Nil
  /\ object' = [object EXCEPT ![n] = Nil]
  /\ parentOf' = [parentOf EXCEPT ![n] = Nil]
  /\ stack' = IF parentOf[n] = Nil THEN stack ELSE Unlinked(stack, n)
  /\ UNCHANGED <<nodes, sync>>

\* n put right after (above) or before (below) sibling m
Beside(q, n, m, above) ==
  LET r == Without(q, {n})
      i == CHOOSE j \in DOMAIN r : r[j] = m
  IN InsertAt(r, IF above THEN i + 1 ELSE i, n)

\* subsurface_place_above and place_below.  Above the parent is the top of
\* the list, below it the bottom.
Place(n, m, above) ==
  LET p == object[n]
      q == Without(stack[p], {n})
  IN
  /\ n \in nodes /\ p \in Node
  /\ m = p \/ (m # n /\ parentOf[m] = p)
  /\ stack' = [stack EXCEPT ![p] =
                 IF m # p THEN Beside(@, n, m, above)
                 ELSE IF above THEN Append(q, n) ELSE <<n>> \o q]
  /\ UNCHANGED <<nodes, object, parentOf, sync>>

\* subsurface_set_sync and set_desync
SetSync(n, on) ==
  /\ n \in nodes /\ object[n] # Nil
  /\ sync' = IF on THEN sync \cup {n} ELSE sync \ {n}
  /\ UNCHANGED <<nodes, object, parentOf, stack>>

TreeNext ==
  \E n \in Node :
    \/ CreateNode(n) \/ DestroyNode(n) \/ DestroySubsurface(n)
    \/ \E p \in Node : MakeSubsurface(n, p)
    \/ \E m \in Node, above \in BOOLEAN : Place(n, m, above)
    \/ \E on \in BOOLEAN : SetSync(n, on)

TreeSpec == TreeInit /\ [][TreeNext]_treeVars

---------------------------------------------------------------------------
(***************************************************************************)
(* A parent's list holds exactly the surfaces that call it their parent,   *)
(* each once, and no surface has a parent that is gone: through every      *)
(* order of destroying surfaces, parents and wl_subsurface objects.        *)
(***************************************************************************)
StackHoldsChildren ==
  \A p \in Node :
    /\ ToSet(stack[p]) = {n \in Node : parentOf[n] = p}
    /\ IsInjective(stack[p])
    /\ p \notin nodes => stack[p] = <<>>

\* Following parents from a surface ends: event_forward.c does so to find the
\* target of pointer events.
ParentsEnd == \A n \in Node : n \notin Ancestors(parentOf, n)

(***************************************************************************)
(* The stack of a surface has its children and no others, and the way up   *)
(* from any surface ends, through every order of taking the tree apart and *)
(* every reuse of an address.                                              *)
(***************************************************************************)
TreeOK ==
  /\ TreeTypeOK /\ StackHoldsChildren /\ ParentsEnd
=============================================================================
