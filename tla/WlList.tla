------------------------------ MODULE WlList ------------------------------
(***************************************************************************)
(* The intrusive doubly linked list of libwayland (struct wl_list), and    *)
(* the destroy signal of a wl_resource built on it.  A list is a ring      *)
(* through a head node; an element is linked by writing the four pointers  *)
(* around it and carries no record of the list it is in.  That is what     *)
(* makes it fragile: linking a node that is already linked, or forgetting  *)
(* to unlink one, corrupts the ring of a list nobody mentioned.            *)
(*                                                                         *)
(* libwayland is not part of the repository.  The operators below follow   *)
(* the contract the bridge relies on at its call sites.                    *)
(***************************************************************************)

(***************************************************************************)
(* A heap is a record of two functions over the nodes: the next and the    *)
(* previous pointer of each.  null is the pointer wl_list_remove stores.   *)
(***************************************************************************)
ListInit(h, elm) ==
  [nxt |-> [h.nxt EXCEPT ![elm] = elm],
   prv |-> [h.prv EXCEPT ![elm] = elm]]

ListInsert(h, list, elm) ==
  LET nxt == [h.nxt EXCEPT ![elm] = h.nxt[list], ![list] = elm]
  IN  [nxt |-> nxt,
       prv |-> [h.prv EXCEPT ![elm] = list, ![nxt[elm]] = elm]]

ListRemove(h, elm, null) ==
  [nxt |-> [h.nxt EXCEPT ![h.prv[elm]] = h.nxt[elm], ![elm] = null],
   prv |-> [h.prv EXCEPT ![h.nxt[elm]] = h.prv[elm], ![elm] = null]]

\* wl_list_remove followed by wl_list_init.
ListUnlink(h, elm, null) == ListInit(ListRemove(h, elm, null), elm)

\* wl_resource_add_destroy_listener: insertion at the tail of the signal.
AddListener(h, head, elm) == ListInsert(h, h.prv[head], elm)

Heap(N, null) == [nxt : [N -> N \cup {null}], prv : [N -> N \cup {null}]]

(***************************************************************************)
(* home maps every node to the head of the list it is meant to be in, or   *)
(* to null when it is meant to be in none.  The heap agrees with it when   *)
(* the two pointers of every listed node stay in its list and are inverse  *)
(* to each other.                                                          *)
(***************************************************************************)
Rings(h, home, null) ==
  \A n \in DOMAIN home : home[n] # null =>
     /\ h.nxt[n] \in DOMAIN home
     /\ h.prv[n] \in DOMAIN home
     /\ home[h.nxt[n]] = home[n]
     /\ home[h.prv[n]] = home[n]
     /\ h.prv[h.nxt[n]] = n
     /\ h.nxt[h.prv[n]] = n

\* A walk along next pointers from a listed node comes to a head: a set it
\* cannot leave has one.  Stated without paths, so that it can be proved.
Rooted(h, home, null) ==
  \A W \in SUBSET DOMAIN home :
    (W # {} /\ \A n \in W : home[n] # null /\ h.nxt[n] \in W)
      => \E n \in W : home[n] = n

WellLinked(h, home, null) == Rings(h, home, null) /\ Rooted(h, home, null)
===========================================================================
