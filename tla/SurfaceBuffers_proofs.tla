----------------------- MODULE SurfaceBuffers_proofs ----------------------
(***************************************************************************)
(* Proofs about SurfaceBuffers, for any number of surfaces and buffers.    *)
(* Every pointer move of the bridge changes one slot of one surface and    *)
(* one listener; the slot lemmas show that such a pair of changes keeps    *)
(* the lists well linked, and the actions are sequences of such pairs.     *)
(***************************************************************************)
EXTENDS SurfaceBuffers, TLAPS

---------------------------------------------------------------------------
(***************************************************************************)
(* What the operations on a wl_list do to a heap whose lists are well      *)
(* linked: each one moves exactly one node, from the list it was in to     *)
(* none or from none to the list named, and leaves every other list well   *)
(* linked.  N is the set of nodes and home says where each one belongs.    *)
(***************************************************************************)

\* wl_list_init of a node that is in no list leaves every list as it was.
LEMMA InitUnlisted ==
  ASSUME NEW N, NEW null, null \notin N,
         NEW h \in Heap(N, null), NEW home \in [N -> N \cup {null}],
         NEW x \in N, home[x] = null,
         WellLinked(h, home, null)
  PROVE  /\ ListInit(h, x) \in Heap(N, null)
         /\ WellLinked(ListInit(h, x), home, null)
<1> DEFINE g == ListInit(h, x)
<1>1. g \in Heap(N, null)
  BY DEF Heap, ListInit
<1>2. \A n \in N : n # x => g.nxt[n] = h.nxt[n] /\ g.prv[n] = h.prv[n]
  BY DEF Heap, ListInit
<1>3. Rings(g, home, null)
  BY <1>2 DEF WellLinked, Rings
<1>4. Rooted(g, home, null)
  BY <1>2 DEF WellLinked, Rooted
<1> QED
  BY <1>1, <1>3, <1>4 DEF WellLinked

\* wl_list_init of a node that becomes the head of an empty list.
LEMMA InitHead ==
  ASSUME NEW N, NEW null, null \notin N,
         NEW h \in Heap(N, null), NEW home \in [N -> N \cup {null}],
         NEW x \in N, home[x] = null,
         WellLinked(h, home, null)
  PROVE  /\ ListInit(h, x) \in Heap(N, null)
         /\ WellLinked(ListInit(h, x), [home EXCEPT ![x] = x], null)
<1> DEFINE g == ListInit(h, x)
           new == [home EXCEPT ![x] = x]
<1>1. g \in Heap(N, null)
  BY DEF Heap, ListInit
<1>2. /\ \A n \in N : n # x => g.nxt[n] = h.nxt[n] /\ g.prv[n] = h.prv[n]
      /\ g.nxt[x] = x /\ g.prv[x] = x
  BY DEF Heap, ListInit
<1>3. /\ DOMAIN new = N
      /\ new[x] = x
      /\ \A n \in N : n # x => new[n] = home[n]
  OBVIOUS
<1>4. Rings(g, new, null)
  BY <1>2, <1>3 DEF WellLinked, Rings
<1>5. Rooted(g, new, null)
  <2> SUFFICES ASSUME NEW W \in SUBSET N, W # {},
                      \A n \in W : new[n] # null /\ g.nxt[n] \in W
               PROVE  \E n \in W : new[n] = n
    BY <1>3 DEF Rooted
  <2>1. CASE x \in W
    BY <2>1, <1>3
  <2>2. CASE x \notin W
    <3>1. \A n \in W : home[n] # null /\ h.nxt[n] \in W
      BY <2>2, <1>2, <1>3
    <3>2. PICK n \in W : home[n] = n
      BY <3>1 DEF WellLinked, Rooted
    <3> QED
      BY <3>2, <2>2, <1>3
  <2> QED
    BY <2>1, <2>2
<1> QED
  BY <1>1, <1>4, <1>5 DEF WellLinked

\* wl_list_remove of a listed element takes it, and nothing else, out.
LEMMA RemoveListed ==
  ASSUME NEW N, NEW null, null \notin N,
         NEW h \in Heap(N, null), NEW home \in [N -> N \cup {null}],
         NEW x \in N, home[x] # null, home[x] # x,
         WellLinked(h, home, null)
  PROVE  /\ ListRemove(h, x, null) \in Heap(N, null)
         /\ WellLinked(ListRemove(h, x, null), [home EXCEPT ![x] = null], null)
<1> DEFINE g == ListRemove(h, x, null)
           new == [home EXCEPT ![x] = null]
           p == h.prv[x]
           q == h.nxt[x]
<1>1. g \in Heap(N, null)
  BY DEF Heap, ListRemove
<1>2. /\ p \in N /\ q \in N
      /\ h.nxt[p] = x /\ h.prv[q] = x
      /\ home[p] = home[x] /\ home[q] = home[x]
  BY DEF WellLinked, Rings
<1>3. /\ DOMAIN new = N
      /\ new[x] = null
      /\ \A n \in N : n # x => new[n] = home[n]
  OBVIOUS
<1>4. CASE q = x
  <2>1. p = x
    BY <1>4, <1>2
  <2>2. \A n \in N : n # x => g.nxt[n] = h.nxt[n] /\ g.prv[n] = h.prv[n]
    BY <2>1, <1>4 DEF Heap, ListRemove
  <2>3. \A n \in N : n # x /\ home[n] # null => h.nxt[n] # x /\ h.prv[n] # x
    BY <2>1, <1>4 DEF WellLinked, Rings
  <2>4. Rings(g, new, null)
    BY <2>2, <2>3, <1>3 DEF WellLinked, Rings
  <2>5. Rooted(g, new, null)
    BY <2>2, <1>3 DEF WellLinked, Rooted
  <2> QED
    BY <1>1, <2>4, <2>5 DEF WellLinked
<1>5. CASE q # x
  <2>1. p # x
    BY <1>5, <1>2
  <2>2. /\ \A n \in N : n # x /\ n # p => g.nxt[n] = h.nxt[n]
        /\ \A n \in N : n # x /\ n # q => g.prv[n] = h.prv[n]
        /\ g.nxt[p] = q /\ g.prv[q] = p
    BY <2>1, <1>5, <1>2 DEF Heap, ListRemove
  <2>3. \A n \in N : /\ n # p /\ home[n] # null => h.nxt[n] # x
                     /\ n # q /\ home[n] # null => h.prv[n] # x
    BY DEF WellLinked, Rings
  <2>4. Rings(g, new, null)
    <3> SUFFICES ASSUME NEW n \in N, new[n] # null
                 PROVE  /\ g.nxt[n] \in N /\ g.prv[n] \in N
                        /\ new[g.nxt[n]] = new[n] /\ new[g.prv[n]] = new[n]
                        /\ g.prv[g.nxt[n]] = n /\ g.nxt[g.prv[n]] = n
      BY <1>3 DEF Rings
    <3>1. n # x /\ home[n] # null /\ new[n] = home[n]
      BY <1>3
    <3>2. /\ h.nxt[n] \in N /\ h.prv[n] \in N
          /\ home[h.nxt[n]] = home[n] /\ home[h.prv[n]] = home[n]
          /\ h.prv[h.nxt[n]] = n /\ h.nxt[h.prv[n]] = n
      BY <3>1 DEF WellLinked, Rings
    <3>3. /\ g.nxt[n] \in N /\ new[g.nxt[n]] = new[n] /\ g.prv[g.nxt[n]] = n
      <4>1. CASE n = p
        BY <4>1, <3>1, <2>2, <1>2, <1>3, <1>5
      <4>2. CASE n # p
        <5>1. h.nxt[n] # x /\ h.nxt[n] # q
          BY <4>2, <3>1, <3>2, <2>3, <1>2
        <5> QED
          BY <5>1, <4>2, <3>1, <3>2, <2>2, <1>3
      <4> QED
        BY <4>1, <4>2
    <3>4. /\ g.prv[n] \in N /\ new[g.prv[n]] = new[n] /\ g.nxt[g.prv[n]] = n
      <4>1. CASE n = q
        BY <4>1, <3>1, <2>1, <2>2, <1>2, <1>3
      <4>2. CASE n # q
        <5>1. h.prv[n] # x /\ h.prv[n] # p
          BY <4>2, <3>1, <3>2, <2>3, <1>2
        <5> QED
          BY <5>1, <4>2, <3>1, <3>2, <2>2, <1>3
      <4> QED
        BY <4>1, <4>2
    <3> QED
      BY <3>3, <3>4
  <2>5. Rooted(g, new, null)
    <3> SUFFICES ASSUME NEW W \in SUBSET N, W # {},
                        \A n \in W : new[n] # null /\ g.nxt[n] \in W
                 PROVE  \E n \in W : new[n] = n
      BY <1>3 DEF Rooted
    <3>1. x \notin W
      BY <1>3
    <3>2. CASE p \in W
      <4> DEFINE V == W \cup {x}
      <4>1. \A n \in V : home[n] # null /\ h.nxt[n] \in V
        BY <3>1, <3>2, <2>2, <1>2, <1>3
      <4>2. PICK n \in V : home[n] = n
        <5> V \in SUBSET N /\ V # {}
          OBVIOUS
        <5> HIDE DEF V
        <5> QED
          BY <4>1 DEF WellLinked, Rooted
      <4> QED
        BY <4>2, <1>3
    <3>3. CASE p \notin W
      <4>1. \A n \in W : home[n] # null /\ h.nxt[n] \in W
        BY <3>1, <3>3, <2>2, <1>3
      <4>2. PICK n \in W : home[n] = n
        BY <4>1 DEF WellLinked, Rooted
      <4> QED
        BY <4>2, <3>1, <1>3
    <3> QED
      BY <3>2, <3>3
  <2> QED
    BY <1>1, <2>4, <2>5 DEF WellLinked
<1> QED
  BY <1>4, <1>5

\* wl_list_remove and wl_list_init: the element is alone afterwards.
LEMMA UnlinkListed ==
  ASSUME NEW N, NEW null, null \notin N,
         NEW h \in Heap(N, null), NEW home \in [N -> N \cup {null}],
         NEW x \in N, home[x] # null, home[x] # x,
         WellLinked(h, home, null)
  PROVE  /\ ListUnlink(h, x, null) \in Heap(N, null)
         /\ WellLinked(ListUnlink(h, x, null), [home EXCEPT ![x] = null], null)
<1> DEFINE g == ListRemove(h, x, null)
           new == [home EXCEPT ![x] = null]
<1>1. g \in Heap(N, null) /\ WellLinked(g, new, null)
  BY RemoveListed
<1>2. new \in [N -> N \cup {null}] /\ new[x] = null
  OBVIOUS
<1> HIDE DEF g, new
<1>3. /\ ListInit(g, x) \in Heap(N, null)
      /\ WellLinked(ListInit(g, x), new, null)
  BY <1>1, <1>2, InitUnlisted
<1> QED
  BY <1>3 DEF ListUnlink, g, new

\* wl_resource_add_destroy_listener of a listener that is in no list.
LEMMA AddUnlisted ==
  ASSUME NEW N, NEW null, null \notin N,
         NEW h \in Heap(N, null), NEW home \in [N -> N \cup {null}],
         NEW x \in N, home[x] = null,
         NEW b \in N, home[b] = b,
         WellLinked(h, home, null)
  PROVE  /\ AddListener(h, b, x) \in Heap(N, null)
         /\ WellLinked(AddListener(h, b, x), [home EXCEPT ![x] = b], null)
<1> DEFINE g == AddListener(h, b, x)
           new == [home EXCEPT ![x] = b]
           p == h.prv[b]
<1>1. /\ p \in N /\ h.nxt[p] = b /\ home[p] = b
      /\ p # x /\ b # x /\ b # null
  BY DEF WellLinked, Rings
<1>2. g \in Heap(N, null)
  BY <1>1 DEF Heap, AddListener, ListInsert
<1>3. /\ \A n \in N : n # x /\ n # p => g.nxt[n] = h.nxt[n]
      /\ \A n \in N : n # x /\ n # b => g.prv[n] = h.prv[n]
      /\ g.nxt[p] = x /\ g.nxt[x] = b
      /\ g.prv[b] = x /\ g.prv[x] = p
  BY <1>1 DEF Heap, AddListener, ListInsert
<1>4. /\ DOMAIN new = N
      /\ new[x] = b
      /\ \A n \in N : n # x => new[n] = home[n]
  OBVIOUS
<1>5. Rings(g, new, null)
  <2> SUFFICES ASSUME NEW n \in N, new[n] # null
               PROVE  /\ g.nxt[n] \in N /\ g.prv[n] \in N
                      /\ new[g.nxt[n]] = new[n] /\ new[g.prv[n]] = new[n]
                      /\ g.prv[g.nxt[n]] = n /\ g.nxt[g.prv[n]] = n
    BY <1>4 DEF Rings
  <2>1. CASE n = x
    BY <2>1, <1>1, <1>3, <1>4
  <2>2. CASE n # x
    <3>1. /\ home[n] # null /\ new[n] = home[n]
          /\ h.nxt[n] \in N /\ h.prv[n] \in N
          /\ h.nxt[n] # x /\ h.prv[n] # x
          /\ home[h.nxt[n]] = home[n] /\ home[h.prv[n]] = home[n]
          /\ h.prv[h.nxt[n]] = n /\ h.nxt[h.prv[n]] = n
      BY <2>2, <1>4 DEF WellLinked, Rings
    <3>2. /\ g.nxt[n] \in N /\ new[g.nxt[n]] = new[n] /\ g.prv[g.nxt[n]] = n
      <4>1. CASE n = p
        BY <4>1, <3>1, <1>1, <1>3, <1>4
      <4>2. CASE n # p
        BY <4>2, <2>2, <3>1, <1>1, <1>3, <1>4
      <4> QED
        BY <4>1, <4>2
    <3>3. /\ g.prv[n] \in N /\ new[g.prv[n]] = new[n] /\ g.nxt[g.prv[n]] = n
      <4>1. CASE n = b
        BY <4>1, <3>1, <1>1, <1>3, <1>4
      <4>2. CASE n # b
        BY <4>2, <2>2, <3>1, <1>1, <1>3, <1>4
      <4> QED
        BY <4>1, <4>2
    <3> QED
      BY <3>2, <3>3
  <2> QED
    BY <2>1, <2>2
<1>6. Rooted(g, new, null)
  <2> SUFFICES ASSUME NEW W \in SUBSET N, W # {},
                      \A n \in W : new[n] # null /\ g.nxt[n] \in W
               PROVE  \E n \in W : new[n] = n
    BY <1>4 DEF Rooted
  <2>1. CASE x \in W
    BY <2>1, <1>1, <1>3, <1>4
  <2>2. CASE x \notin W
    <3>1. \A n \in W : home[n] # null /\ h.nxt[n] \in W
      BY <2>2, <1>3, <1>4
    <3>2. PICK n \in W : home[n] = n
      BY <3>1 DEF WellLinked, Rooted
    <3> QED
      BY <3>2, <2>2, <1>4
  <2> QED
    BY <2>1, <2>2
<1> QED
  BY <1>2, <1>5, <1>6 DEF WellLinked

\* A head whose list is empty can go: nothing is listed under it.
LEMMA DropEmptyHead ==
  ASSUME NEW N, NEW null, null \notin N,
         NEW h \in Heap(N, null), NEW home \in [N -> N \cup {null}],
         NEW b \in N, home[b] = b, h.nxt[b] = b,
         WellLinked(h, home, null)
  PROVE  /\ \A n \in N : home[n] = b => n = b
         /\ WellLinked(h, [home EXCEPT ![b] = null], null)
<1> DEFINE new == [home EXCEPT ![b] = null]
           W == {n \in N : home[n] = b /\ n # b}
<1>1. /\ DOMAIN new = N
      /\ new[b] = null
      /\ \A n \in N : n # b => new[n] = home[n]
  OBVIOUS
<1>2. h.prv[b] = b /\ b # null
  BY DEF WellLinked, Rings
<1>3. \A n \in N : n # b /\ home[n] # null => h.nxt[n] # b /\ h.prv[n] # b
  BY <1>2 DEF WellLinked, Rings
<1>4. \A n \in N : home[n] = b => n = b
  <2> SUFFICES ASSUME W # {} PROVE FALSE
    OBVIOUS
  <2>1. \A n \in W : home[n] # null /\ h.nxt[n] \in W
    BY <1>2, <1>3 DEF WellLinked, Rings
  <2>2. PICK n \in W : home[n] = n
    <3> W \in SUBSET N
      OBVIOUS
    <3> HIDE DEF W
    <3> QED
      BY <2>1 DEF WellLinked, Rooted
  <2> QED
    BY <2>2
<1>5. Rings(h, new, null)
  BY <1>1, <1>3 DEF WellLinked, Rings
<1>6. Rooted(h, new, null)
  <2> SUFFICES ASSUME NEW V \in SUBSET N, V # {},
                      \A n \in V : new[n] # null /\ h.nxt[n] \in V
               PROVE  \E n \in V : new[n] = n
    BY <1>1 DEF Rooted
  <2>1. b \notin V
    BY <1>1
  <2>2. PICK n \in V : home[n] = n
    BY <2>1, <1>1 DEF WellLinked, Rooted
  <2> QED
    BY <2>1, <2>2, <1>1
<1> QED
  BY <1>4, <1>5, <1>6 DEF WellLinked

---------------------------------------------------------------------------
(* Slots *)

Slots == [Surface -> [Slot -> Buffer \cup {None}]]

\* The slots of all surfaces with one of them set.
Put(slots, s, k, b) == [slots EXCEPT ![s] = [@ EXCEPT ![k] = b]]

Linked(h, slots, live) ==
  h \in Heap(Node, None) /\ WellLinked(h, HomeOf(slots, live), None)

---------------------------------------------------------------------------
(* Slots and lists *)

\* Put writes one slot and leaves the others.
LEMMA PutType ==
  ASSUME NEW slots \in Slots, NEW s \in Surface, NEW k \in Slot,
         NEW b \in Buffer \cup {None}
  PROVE  /\ Put(slots, s, k, b) \in Slots
         /\ Put(slots, s, k, b)[s][k] = b
         /\ \A t \in Surface, j \in Slot :
              (t # s \/ j # k) => Put(slots, s, k, b)[t][j] = slots[t][j]
BY DEF Put, Slots

\* Homes are nodes or None: a live buffer its own, a listener's its slot.
LEMMA HomeType ==
  ASSUME NEW slots \in Slots, NEW live \in SUBSET Buffer
  PROVE  /\ HomeOf(slots, live) \in [Node -> Node \cup {None}]
         /\ \A b \in Buffer : HomeOf(slots, live)[b] = IF b \in live THEN b ELSE None
         /\ \A s \in Surface, k \in Slot :
              /\ <<s, k>> \in Node /\ <<s, k>> \notin Buffer
              /\ HomeOf(slots, live)[<<s, k>>] = slots[s][k]
BY SurfaceBuffersAssumption DEF HomeOf, Slots, Node, Listener

\* Setting a slot sets the home of its listener, and of nothing else.
LEMMA HomePut ==
  ASSUME NEW slots \in Slots, NEW live \in SUBSET Buffer,
         NEW s \in Surface, NEW k \in Slot, NEW b \in Buffer \cup {None}
  PROVE  HomeOf(Put(slots, s, k, b), live)
           = [HomeOf(slots, live) EXCEPT ![<<s, k>>] = b]
<1> DEFINE new == Put(slots, s, k, b)
<1>1. /\ new \in Slots
      /\ new[s][k] = b
      /\ \A t \in Surface, j \in Slot : (t # s \/ j # k) => new[t][j] = slots[t][j]
  BY PutType
<1> HIDE DEF new
<1>2. ASSUME NEW n \in Node
      PROVE  HomeOf(new, live)[n] = [HomeOf(slots, live) EXCEPT ![<<s, k>>] = b][n]
  <2>1. CASE n \in Buffer
    <3>1. n # <<s, k>>
      BY <2>1, HomeType
    <3> QED
      BY <3>1, <2>1 DEF HomeOf
  <2>2. CASE n \notin Buffer
    <3>1. PICK t \in Surface, j \in Slot : n = <<t, j>>
      BY <2>2 DEF Node, Listener
    <3>2. HomeOf(new, live)[n] = new[t][j] /\ HomeOf(slots, live)[n] = slots[t][j]
      BY <1>1, <3>1, HomeType
    <3>3. CASE t = s /\ j = k
      BY <3>1, <3>2, <3>3, <1>1 DEF HomeOf
    <3>4. CASE t # s \/ j # k
      <4>1. n # <<s, k>>
        BY <3>1, <3>4
      <4> QED
        BY <4>1, <3>1, <3>2, <3>4, <1>1 DEF HomeOf
    <3> QED
      BY <3>3, <3>4
  <2> QED
    BY <2>1, <2>2
<1> QED
  BY <1>2 DEF HomeOf, new

\* wl_list_remove of the listener of a slot that is then cleared.
LEMMA SlotRemoved ==
  ASSUME NEW slots \in Slots, NEW live \in SUBSET Buffer, NEW h,
         NEW s \in Surface, NEW k \in Slot,
         slots[s][k] # None, Linked(h, slots, live)
  PROVE  /\ Linked(ListRemove(h, <<s, k>>, None), Put(slots, s, k, None), live)
         /\ Linked(ListUnlink(h, <<s, k>>, None), Put(slots, s, k, None), live)
<1> DEFINE home == HomeOf(slots, live)
<1>1. /\ home \in [Node -> Node \cup {None}]
      /\ <<s, k>> \in Node /\ <<s, k>> \notin Buffer
      /\ home[<<s, k>>] = slots[s][k]
      /\ slots[s][k] \in Buffer
      /\ None \notin Node
  BY HomeType, SurfaceBuffersAssumption DEF Slots
<1>2. HomeOf(Put(slots, s, k, None), live) = [home EXCEPT ![<<s, k>>] = None]
  BY HomePut
<1> HIDE DEF home
<1>3. h \in Heap(Node, None) /\ WellLinked(h, home, None)
  BY DEF Linked, home
<1>4. /\ ListRemove(h, <<s, k>>, None) \in Heap(Node, None)
      /\ WellLinked(ListRemove(h, <<s, k>>, None), [home EXCEPT ![<<s, k>>] = None], None)
  BY <1>1, <1>3, RemoveListed
<1>5. /\ ListUnlink(h, <<s, k>>, None) \in Heap(Node, None)
      /\ WellLinked(ListUnlink(h, <<s, k>>, None), [home EXCEPT ![<<s, k>>] = None], None)
  BY <1>1, <1>3, UnlinkListed
<1> QED
  BY <1>2, <1>4, <1>5 DEF Linked

\* The listener of an empty slot is added to the buffer the slot is set to.
LEMMA SlotListens ==
  ASSUME NEW slots \in Slots, NEW live \in SUBSET Buffer, NEW h,
         NEW s \in Surface, NEW k \in Slot, NEW b \in live,
         slots[s][k] = None, Linked(h, slots, live)
  PROVE  Linked(AddListener(h, b, <<s, k>>), Put(slots, s, k, b), live)
<1> DEFINE home == HomeOf(slots, live)
<1>1. /\ home \in [Node -> Node \cup {None}]
      /\ <<s, k>> \in Node
      /\ home[<<s, k>>] = None
      /\ b \in Node /\ home[b] = b
      /\ None \notin Node
  BY HomeType, SurfaceBuffersAssumption DEF Node
<1>2. HomeOf(Put(slots, s, k, b), live) = [home EXCEPT ![<<s, k>>] = b]
  BY HomePut
<1> HIDE DEF home
<1>3. h \in Heap(Node, None) /\ WellLinked(h, home, None)
  BY DEF Linked, home
<1>4. /\ AddListener(h, b, <<s, k>>) \in Heap(Node, None)
      /\ WellLinked(AddListener(h, b, <<s, k>>), [home EXCEPT ![<<s, k>>] = b], None)
  BY <1>1, <1>3, AddUnlisted
<1> QED
  BY <1>2, <1>4 DEF Linked

\* wl_list_init of the listener of an empty slot.
LEMMA SlotInit ==
  ASSUME NEW slots \in Slots, NEW live \in SUBSET Buffer, NEW h,
         NEW s \in Surface, NEW k \in Slot,
         slots[s][k] = None, Linked(h, slots, live)
  PROVE  Linked(ListInit(h, <<s, k>>), slots, live)
<1> DEFINE home == HomeOf(slots, live)
<1>1. /\ home \in [Node -> Node \cup {None}]
      /\ <<s, k>> \in Node
      /\ home[<<s, k>>] = None
      /\ None \notin Node
  BY HomeType, SurfaceBuffersAssumption
<1> HIDE DEF home
<1>2. h \in Heap(Node, None) /\ WellLinked(h, home, None)
  BY DEF Linked, home
<1>3. /\ ListInit(h, <<s, k>>) \in Heap(Node, None)
      /\ WellLinked(ListInit(h, <<s, k>>), home, None)
  BY <1>1, <1>2, InitUnlisted
<1> QED
  BY <1>3 DEF Linked, home

\* Clearing a slot that is clear changes nothing.
LEMMA PutSame ==
  ASSUME NEW slots \in Slots, NEW s \in Surface, NEW k \in Slot
  PROVE  Put(slots, s, k, slots[s][k]) = slots
BY DEF Put, Slots

---------------------------------------------------------------------------
(* The pointer moves of the bridge *)

\* What Sound says of a state in which nothing has leaked.
Good ==
  /\ TypeOK
  /\ Detached
  /\ EmittingExists
  /\ HeldBuffersExist
  /\ Linked(links, hold, buffers)

\* Good is what Sound claims of a bridge that has leaked nothing.
LEMMA GoodIsSound == leaked = {} => (Sound <=> Good)
BY DEF Sound, Good, Linked, Home, TypeOK

\* The typing of the slots alone.
LEMMA HoldType == TypeOK => hold \in Slots /\ buffers \in SUBSET Buffer
BY DEF TypeOK, Slots

\* The rotation of surface_commit: at most five steps, each of which moves
\* one slot and its listener together.
LEMMA Rotation ==
  ASSUME TypeOK, HeldBuffersExist, Linked(links, hold, buffers),
         NEW s \in Surface, hold[s].pending # None
  PROVE  Linked(RotatedLinks(s), [hold EXCEPT ![s] = RotatedHold(s)], buffers)
<1> DEFINE prev == hold[s]["previous"]
           cur  == hold[s]["current"]
           pend == hold[s]["pending"]
           h1 == IF prev # None THEN ListRemove(links, <<s, "previous">>, None) ELSE links
           s1 == Put(hold, s, "previous", None)
           h2 == IF cur # None THEN ListUnlink(h1, <<s, "current">>, None) ELSE h1
           s2 == Put(s1, s, "current", None)
           h3 == IF cur # None THEN AddListener(h2, cur, <<s, "previous">>) ELSE h2
           s3 == Put(s2, s, "previous", cur)
           h4 == ListUnlink(h3, <<s, "pending">>, None)
           s4 == Put(s3, s, "pending", None)
           h5 == AddListener(h4, pend, <<s, "current">>)
           s5 == Put(s4, s, "current", pend)
<1>1. /\ hold \in Slots /\ buffers \in SUBSET Buffer
      /\ prev \in Buffer \cup {None}
      /\ cur \in Buffer \cup {None}
      /\ pend \in Buffer \cup {None}
      /\ "previous" \in Slot /\ "current" \in Slot /\ "pending" \in Slot
  BY HoldType DEF TypeOK, Slot
<1>2. /\ pend # None /\ pend \in buffers
      /\ cur # None => cur \in buffers
  BY <1>1 DEF HeldBuffersExist
<1>3. /\ s1 \in Slots /\ s2 \in Slots /\ s3 \in Slots /\ s4 \in Slots /\ s5 \in Slots
      /\ s1[s]["current"] = cur
      /\ s2[s]["current"] = None /\ s2[s]["previous"] = None
      /\ s3[s]["pending"] = pend
      /\ s4[s]["current"] = None
  <2>1. /\ s1 \in Slots
        /\ s1[s]["previous"] = None
        /\ s1[s]["current"] = cur
        /\ s1[s]["pending"] = pend
    BY <1>1, PutType
  <2>2. /\ s2 \in Slots
        /\ s2[s]["previous"] = None
        /\ s2[s]["current"] = None
        /\ s2[s]["pending"] = pend
    <3> HIDE DEF s1
    <3> QED
      BY <1>1, <2>1 DEF Put, Slots, Slot
  <2>3. /\ s3 \in Slots
        /\ s3[s]["current"] = None
        /\ s3[s]["pending"] = pend
    <3> HIDE DEF s2
    <3> QED
      BY <1>1, <2>2 DEF Put, Slots, Slot
  <2>4. /\ s4 \in Slots
        /\ s4[s]["current"] = None
    <3> HIDE DEF s3
    <3> QED
      BY <1>1, <2>3 DEF Put, Slots, Slot
  <2>5. s5 \in Slots
    <3> HIDE DEF s4
    <3> QED
      BY <1>1, <2>4 DEF Put, Slots, Slot
  <2> QED
    BY <2>1, <2>2, <2>3, <2>4, <2>5
<1>4. Linked(h1, s1, buffers)
  BY <1>1, SlotRemoved, PutSame
<1>5. Linked(h2, s2, buffers)
  <2> HIDE DEF h1, s1
  <2> QED
    BY <1>1, <1>3, <1>4, SlotRemoved, PutSame
<1>6. Linked(h3, s3, buffers)
  <2> HIDE DEF h2, s2
  <2> QED
    BY <1>1, <1>2, <1>3, <1>5, SlotListens, PutSame
<1>7. Linked(h4, s4, buffers)
  <2> HIDE DEF h3, s3
  <2> QED
    BY <1>1, <1>2, <1>3, <1>6, SlotRemoved
<1>8. Linked(h5, s5, buffers)
  <2> HIDE DEF h4, s4
  <2> QED
    BY <1>1, <1>2, <1>3, <1>7, SlotListens
<1>9. h5 = RotatedLinks(s)
  BY DEF RotatedLinks, Removed
<1>10. s5 = [hold EXCEPT ![s] = RotatedHold(s)]
  BY <1>1 DEF Put, RotatedHold, Slots, Slot
<1> QED
  BY <1>8, <1>9, <1>10

\* The release of the previous buffer, from any state of the slots of s.
LEMMA Release ==
  ASSUME TypeOK, NEW s \in Surface, NEW r \in [Slot -> Buffer \cup {None}], NEW h,
         Linked(h, [hold EXCEPT ![s] = r], buffers)
  PROVE  Linked(LinksAfterRelease(h, r, s),
                [hold EXCEPT ![s] = HoldAfterRelease(r)], buffers)
<1> DEFINE slots == [hold EXCEPT ![s] = r]
<1>1. /\ slots \in Slots /\ buffers \in SUBSET Buffer
      /\ slots[s]["previous"] = r["previous"]
      /\ "previous" \in Slot
  BY HoldType DEF Slots, Slot
<1>2. Put(slots, s, "previous", None) = [hold EXCEPT ![s] = HoldAfterRelease(r)]
  BY HoldType DEF Put, HoldAfterRelease, Slots, Slot
<1> HIDE DEF slots
<1>3. Linked(h, slots, buffers)
  BY DEF slots
<1>4. CASE r["previous"] # None
  <2>1. Linked(ListUnlink(h, <<s, "previous">>, None),
               Put(slots, s, "previous", None), buffers)
    BY <1>1, <1>3, <1>4, SlotRemoved
  <2> QED
    BY <2>1, <1>2, <1>4 DEF LinksAfterRelease
<1>5. CASE r["previous"] = None
  <2>1. Put(slots, s, "previous", None) = slots
    BY <1>1, <1>5, PutSame
  <2> QED
    BY <2>1, <1>2, <1>3, <1>5 DEF LinksAfterRelease
<1> QED
  BY <1>4, <1>5

\* The latch of a commit is the rotation, unless the buffer is the current one.
LEMMA Latch ==
  ASSUME TypeOK, HeldBuffersExist, Linked(links, hold, buffers),
         NEW s \in Surface, hold[s].pending # None, LeakedByLatch(s) = {}
  PROVE  /\ Linked(LatchedLinks(s), [hold EXCEPT ![s] = LatchedHold(s)], buffers)
         /\ LatchedHold(s) \in [Slot -> buffers \cup {None}]
<1>1. hold[s].current # hold[s].pending
  BY DEF LeakedByLatch
<1>2. LatchedLinks(s) = RotatedLinks(s) /\ LatchedHold(s) = RotatedHold(s)
  BY <1>1 DEF LatchedLinks, LatchedHold
<1>3. RotatedHold(s) \in [Slot -> buffers \cup {None}]
  BY DEF RotatedHold, TypeOK, HeldBuffersExist, Slot
<1> QED
  BY <1>2, <1>3, Rotation

---------------------------------------------------------------------------
(* Every step of a bridge that has leaked nothing keeps it sound *)

\* A leak is never undone.
LEMMA LeakedGrows == [Next]_vars => leaked \subseteq leaked'
<1> SUFFICES ASSUME [Next]_vars PROVE leaked \subseteq leaked'
  OBVIOUS
<1>1. CASE Lifecycle
  BY <1>1 DEF Lifecycle, CreateSurface, DestroySurface, CreateBuffer, DestroyBuffer,
              NotifyDestroy, FreeBuffer, owed
<1>2. CASE Roles
  BY <1>2 DEF Roles, GetXdgSurface, XdgSurfaceDestroy, GetToplevel, GetPopup,
              PopupDestroy, GetSubsurface, SubsurfaceDestroy, owed
<1>3. CASE Requests
  BY <1>3 DEF Requests, Attach, AttachNull, Frame, RequestFeedback,
              CommitParentNotReady, CommitNoBuffer, CommitShown, CommitNotShown,
              CommitAbandoned, CommitUnknownType, owed
<1>4. CASE \E s \in Surface : FrameDone(s)
  BY <1>4 DEF FrameDone
<1>5. CASE UNCHANGED vars
  BY <1>5 DEF vars
<1> QED
  BY <1>1, <1>2, <1>3, <1>4, <1>5 DEF Next

\* What the lists of a good state are well linked against.
LEMMA GoodHome ==
  ASSUME Good
  PROVE  /\ Home \in [Node -> Node \cup {None}]
         /\ \A b \in Buffer : b \in Node /\ Home[b] = IF b \in buffers THEN b ELSE None
         /\ \A s \in Surface, k \in Slot :
              <<s, k>> \in Node /\ <<s, k>> \notin Buffer /\ Home[<<s, k>>] = hold[s][k]
         /\ links \in Heap(Node, None)
         /\ WellLinked(links, Home, None)
         /\ None \notin Node
<1>1. hold \in Slots /\ buffers \in SUBSET Buffer
  BY HoldType DEF Good
<1>2. links \in Heap(Node, None) /\ WellLinked(links, Home, None)
  BY DEF Good, Linked, Home
<1>3. /\ Home \in [Node -> Node \cup {None}]
      /\ \A b \in Buffer : Home[b] = IF b \in buffers THEN b ELSE None
      /\ \A s \in Surface, k \in Slot :
           <<s, k>> \in Node /\ <<s, k>> \notin Buffer /\ Home[<<s, k>>] = hold[s][k]
  BY <1>1, HomeType DEF Home
<1>4. None \notin Node /\ Buffer \subseteq Node
  BY SurfaceBuffersAssumption DEF Node
<1> QED
  BY <1>2, <1>3, <1>4

\* Creating and destroying surfaces and buffers, notification by notification.
LEMMA GoodLifecycle == Good /\ Lifecycle => Good'
<1> SUFFICES ASSUME Good, Lifecycle PROVE Good'
  OBVIOUS
<1>1. ASSUME NEW s \in Surface, CreateSurface(s) PROVE Good'
  <2>1. hold[s] = NoHold /\ hold' = hold
    BY <1>1 DEF Good, Detached, CreateSurface, TypeOK
  <2>2. Linked(links', hold, buffers)
    <3> DEFINE h1 == ListInit(links, <<s, "previous">>)
               h2 == ListInit(h1, <<s, "current">>)
               h3 == ListInit(h2, <<s, "pending">>)
    <3>1. /\ hold \in Slots /\ buffers \in SUBSET Buffer
          /\ "previous" \in Slot /\ "current" \in Slot /\ "pending" \in Slot
          /\ \A k \in Slot : hold[s][k] = None
      BY <2>1, HoldType DEF Good, NoHold, Slot
    <3>2. Linked(h1, hold, buffers)
      BY <3>1, SlotInit DEF Good
    <3>3. Linked(h2, hold, buffers)
      <4> HIDE DEF h1
      <4> QED
        BY <3>1, <3>2, SlotInit
    <3>4. Linked(h3, hold, buffers)
      <4> HIDE DEF h2
      <4> QED
        BY <3>1, <3>3, SlotInit
    <3> QED
      BY <3>4, <1>1 DEF CreateSurface
  <2> QED
    BY <1>1, <2>1, <2>2 DEF Good, CreateSurface, TypeOK, Detached, EmittingExists,
                            HeldBuffersExist, Linked, due
<1>2. ASSUME NEW s \in Surface, DestroySurface(s) PROVE Good'
  <2> DEFINE h1 == Removed(links, s, "previous")
             s1 == Put(hold, s, "previous", None)
             h2 == Removed(h1, s, "current")
             s2 == Put(s1, s, "current", None)
             h3 == Removed(h2, s, "pending")
             s3 == Put(s2, s, "pending", None)
  <2>1. /\ hold \in Slots /\ buffers \in SUBSET Buffer
        /\ "previous" \in Slot /\ "current" \in Slot /\ "pending" \in Slot
    BY HoldType DEF Good, Slot
  <2>2. /\ s1 \in Slots
        /\ s1[s]["current"] = hold[s]["current"]
        /\ s1[s]["pending"] = hold[s]["pending"]
    BY <2>1, PutType
  <2>3. s2 \in Slots /\ s2[s]["pending"] = hold[s]["pending"]
    <3> HIDE DEF s1
    <3> QED
      BY <2>1, <2>2 DEF Put, Slots, Slot
  <2>4. Linked(h1, s1, buffers)
    BY <2>1, SlotRemoved, PutSame DEF Good, Removed
  <2>5. Linked(h2, s2, buffers)
    <3> HIDE DEF h1, s1
    <3> QED
      BY <2>1, <2>2, <2>4, SlotRemoved, PutSame DEF Removed
  <2>6. Linked(h3, s3, buffers)
    <3> HIDE DEF h2, s2
    <3> QED
      BY <2>1, <2>3, <2>5, SlotRemoved, PutSame DEF Removed
  <2>7. s3 = [hold EXCEPT ![s] = NoHold]
    BY <2>1 DEF Put, NoHold, Slots, Slot
  <2>8. links' = h3 /\ hold' = s3 /\ buffers' = buffers
    BY <2>7, <1>2 DEF DestroySurface, LinksAfterDestroy
  <2>9. Linked(links', hold', buffers')
    BY <2>6, <2>8
  <2>10. hold' = [hold EXCEPT ![s] = NoHold]
    BY <2>7, <2>8
  <2> HIDE DEF h3, s3
  <2> QED
    BY <1>2, <2>9, <2>10 DEF Good, DestroySurface, TypeOK, Detached, EmittingExists,
         HeldBuffersExist, Linked, NoHold, Slots
<1>3. ASSUME NEW b \in Buffer, CreateBuffer(b) PROVE Good'
  <2>1. b \in Node /\ Home[b] = None
    BY <1>3, GoodHome DEF CreateBuffer
  <2>2. HomeOf(hold, buffers') = [Home EXCEPT ![b] = b]
    BY <1>3 DEF Home, HomeOf, CreateBuffer, Node
  <2>3. /\ ListInit(links, b) \in Heap(Node, None)
        /\ WellLinked(ListInit(links, b), [Home EXCEPT ![b] = b], None)
    BY <2>1, GoodHome, InitHead
  <2>4. Linked(links', hold', buffers')
    BY <1>3, <2>2, <2>3 DEF CreateBuffer, Linked
  <2> QED
    BY <1>3, <2>4 DEF Good, CreateBuffer, TypeOK, Detached, EmittingExists,
                      HeldBuffersExist, Linked, owed, due
<1>4. ASSUME NEW b \in Buffer, DestroyBuffer(b) PROVE Good'
  BY <1>4 DEF Good, DestroyBuffer, TypeOK, Detached, EmittingExists,
              HeldBuffersExist, Linked, owed, due, scene, held
<1>5. ASSUME NotifyDestroy PROVE Good'
  <2> DEFINE l == links.nxt[emitting]
  <2>1. PICK s \in Surface, k \in Slot : l = <<s, k>>
    BY <1>5 DEF NotifyDestroy, Listener
  <2>2. /\ hold \in Slots /\ buffers \in SUBSET Buffer
        /\ emitting \in buffers /\ emitting \in Buffer
    BY <1>5, HoldType DEF Good, NotifyDestroy, EmittingExists
  <2>3. hold[s][k] = emitting
    <3>1. /\ Home[emitting] = emitting /\ emitting \in Node /\ emitting # None
          /\ Home[<<s, k>>] = hold[s][k]
          /\ DOMAIN Home = Node
      BY <2>2, GoodHome
    <3>2. Rings(links, Home, None)
      BY GoodHome DEF WellLinked
    <3> QED
      BY <2>1, <3>1, <3>2 DEF Rings
  <2>4. hold[s][k] # None
    BY <1>5, <2>3 DEF NotifyDestroy
  <2>5. Linked(ListUnlink(links, <<s, k>>, None), Put(hold, s, k, None), buffers)
    BY <2>2, <2>4, SlotRemoved DEF Good
  <2>6. hold' = Put(hold, s, k, None)
    BY <1>5, <2>1, <2>2 DEF NotifyDestroy, Put
  <2>7. Linked(links', hold', buffers')
    BY <1>5, <2>1, <2>5, <2>6 DEF NotifyDestroy, scene
  <2>8. s \in surfaces
    BY <1>5, <2>1 DEF NotifyDestroy
  <2>9. /\ hold' \in Slots
        /\ \A t \in Surface : t # s => hold'[t] = hold[t]
        /\ \A t \in Surface, j \in Slot : hold'[t][j] # None => hold'[t][j] = hold[t][j]
    BY <2>2, <2>6 DEF Put, Slots
  <2>10. TypeOK'
    BY <1>5, <2>7, <2>9 DEF Good, NotifyDestroy, TypeOK, Linked, Slots, owed, due, scene
  <2>11. Detached' /\ EmittingExists' /\ HeldBuffersExist'
    BY <1>5, <2>8, <2>9 DEF Good, NotifyDestroy, Detached, EmittingExists,
                            HeldBuffersExist, scene
  <2> QED
    BY <2>7, <2>10, <2>11 DEF Good
<1>6. ASSUME FreeBuffer PROVE Good'
  <2>1. /\ emitting \in Buffer /\ emitting \in Node /\ Home[emitting] = emitting
        /\ links.nxt[emitting] = emitting
    BY <1>6, GoodHome DEF Good, FreeBuffer, EmittingExists, TypeOK
  <2>2. HomeOf(hold, buffers') = [Home EXCEPT ![emitting] = None]
    BY <1>6, <2>1 DEF Home, HomeOf, FreeBuffer, Node
  <2>3. /\ \A n \in Node : Home[n] = emitting => n = emitting
        /\ WellLinked(links, [Home EXCEPT ![emitting] = None], None)
    BY <2>1, GoodHome, DropEmptyHead
  <2>4. Linked(links', hold', buffers')
    BY <1>6, <2>2, <2>3, GoodHome DEF FreeBuffer, Linked, held
  <2>5. ASSUME NEW s \in Surface, NEW k \in Slot PROVE hold[s][k] # emitting
    <3>1. /\ <<s, k>> \in Node /\ <<s, k>> \notin Buffer
          /\ Home[<<s, k>>] = hold[s][k]
      BY GoodHome
    <3> QED
      BY <2>1, <2>3, <3>1
  <2>6. TypeOK'
    BY <1>6, <2>4 DEF Good, FreeBuffer, TypeOK, Linked, due, held
  <2>7. Detached' /\ EmittingExists' /\ HeldBuffersExist'
    BY <1>6, <2>5 DEF Good, FreeBuffer, Detached, EmittingExists, HeldBuffersExist, held
  <2> QED
    BY <2>4, <2>6, <2>7 DEF Good
<1> QED
  BY <1>1, <1>2, <1>3, <1>4, <1>5, <1>6 DEF Lifecycle

\* Steps that leave the pointers and the lists alone.
LEMMA GoodKept ==
  ASSUME Good, TypeOK', UNCHANGED <<surfaces, buffers, hold, links, emitting>>
  PROVE  Good'
BY DEF Good, Detached, EmittingExists, HeldBuffersExist, Linked

\* Role objects never touch the buffer pointers.
LEMMA GoodRoles == Good /\ Roles => Good'
<1> SUFFICES ASSUME Good, NEW s \in Surface,
                    \/ GetXdgSurface(s) \/ XdgSurfaceDestroy(s)
                    \/ GetToplevel(s) \/ GetPopup(s) \/ PopupDestroy(s)
                    \/ \E p \in Surface \ {s} : GetSubsurface(s, p)
                    \/ SubsurfaceDestroy(s)
             PROVE  Good'
  BY DEF Roles
<1>1. CASE GetXdgSurface(s)
  BY <1>1, GoodKept DEF Good, GetXdgSurface, TypeOK, held, owed, due
<1>2. CASE XdgSurfaceDestroy(s)
  BY <1>2, GoodKept DEF Good, XdgSurfaceDestroy, TypeOK, held, owed, due
<1>3. CASE GetToplevel(s)
  BY <1>3, GoodKept DEF Good, GetToplevel, StrandIfDue, TypeOK, scene, held
<1>4. CASE GetPopup(s)
  BY <1>4, GoodKept DEF Good, GetPopup, StrandIfDue, TypeOK, held
<1>5. CASE PopupDestroy(s)
  BY <1>5, GoodKept DEF Good, PopupDestroy, StrandIfDue, TypeOK, held
<1>6. CASE \E p \in Surface \ {s} : GetSubsurface(s, p)
  BY <1>6, GoodKept DEF Good, GetSubsurface, TypeOK, held, owed, due
<1>7. CASE SubsurfaceDestroy(s)
  BY <1>7, GoodKept DEF Good, SubsurfaceDestroy, TypeOK, held, owed, due
<1> QED
  BY <1>1, <1>2, <1>3, <1>4, <1>5, <1>6, <1>7

(***************************************************************************)
(* Steps of a surface that exists, while no destroy signal is emitted: the *)
(* slots of s become r, which holds existing buffers only.                 *)
(***************************************************************************)
LEMMA GoodMoved ==
  ASSUME Good, NEW s \in Surface, Serving(s),
         NEW r \in [Slot -> buffers \cup {None}],
         hold' = [hold EXCEPT ![s] = r],
         Linked(links', [hold EXCEPT ![s] = r], buffers),
         UNCHANGED <<surfaces, buffers, emitting>>,
         TypeOK'
  PROVE  Good'
<1>1. hold \in Slots /\ s \in surfaces /\ emitting = None
  BY HoldType DEF Good, Serving
<1>2. Detached'
  BY <1>1 DEF Good, Detached, Slots
<1>3. HeldBuffersExist'
  BY <1>1 DEF Good, HeldBuffersExist, Slots
<1> QED
  BY <1>1, <1>2, <1>3 DEF Good, EmittingExists, Linked

\* AnswerAll from slots r and lists h of s that agree.
LEMMA Answered ==
  ASSUME TypeOK, NEW s \in Surface, NEW h,
         NEW r \in [Slot -> buffers \cup {None}], NEW inUse \in SUBSET Buffer,
         Linked(h, [hold EXCEPT ![s] = r], buffers),
         AnswerAll(s, h, r, inUse)
  PROVE  /\ HoldAfterRelease(r) \in [Slot -> buffers \cup {None}]
         /\ hold' = [hold EXCEPT ![s] = HoldAfterRelease(r)]
         /\ Linked(links', [hold EXCEPT ![s] = HoldAfterRelease(r)], buffers)
         /\ links' \in Heap(Node, None)
         /\ hold' \in [Surface -> [Slot -> Buffer \cup {None}]]
         /\ frames' \in [Surface -> SUBSET Stage]
         /\ feedbacks' \in [Surface -> SUBSET Stage]
         /\ busy' \in [Surface -> SUBSET Buffer]
         /\ stranded' \subseteq Surface
<1>1. r \in [Slot -> Buffer \cup {None}]
  BY DEF TypeOK
<1>2. Linked(links', [hold EXCEPT ![s] = HoldAfterRelease(r)], buffers)
  BY <1>1, Release DEF AnswerAll
<1>3. HoldAfterRelease(r) \in [Slot -> buffers \cup {None}]
  BY DEF HoldAfterRelease, Slot
<1>4. /\ hold' = [hold EXCEPT ![s] = HoldAfterRelease(r)]
      /\ hold' \in [Surface -> [Slot -> Buffer \cup {None}]]
  BY <1>3 DEF AnswerAll, TypeOK
<1> QED
  BY <1>2, <1>3, <1>4 DEF AnswerAll, TypeOK, Linked

\* The slots of s as they are: the starting point of a release.
LEMMA AsHeld ==
  ASSUME Good, NEW s \in Surface
  PROVE  /\ hold[s] \in [Slot -> buffers \cup {None}]
         /\ [hold EXCEPT ![s] = hold[s]] = hold
         /\ busy[s] \in SUBSET Buffer
BY DEF Good, TypeOK, HeldBuffersExist

\* What was due is answered, from the slots as they are.
LEMMA GoodAnswered ==
  ASSUME Good, NEW s \in Surface, Serving(s),
         AnswerAll(s, links, hold[s], busy[s]),
         awaiting' \subseteq Surface,
         UNCHANGED <<surfaces, buffers, roles, parent, emitting, window, leaked>>
  PROVE  Good'
<1>1. /\ TypeOK
      /\ Linked(links, [hold EXCEPT ![s] = hold[s]], buffers)
      /\ hold[s] \in [Slot -> buffers \cup {None}]
      /\ busy[s] \in SUBSET Buffer
  BY AsHeld DEF Good
<1> DEFINE r == HoldAfterRelease(hold[s])
<1>2. /\ r \in [Slot -> buffers \cup {None}]
      /\ hold' = [hold EXCEPT ![s] = r]
      /\ Linked(links', [hold EXCEPT ![s] = r], buffers)
      /\ links' \in Heap(Node, None)
      /\ hold' \in [Surface -> [Slot -> Buffer \cup {None}]]
      /\ frames' \in [Surface -> SUBSET Stage]
      /\ feedbacks' \in [Surface -> SUBSET Stage]
      /\ busy' \in [Surface -> SUBSET Buffer]
      /\ stranded' \subseteq Surface
  BY <1>1, Answered
<1>3. TypeOK'
  BY <1>1, <1>2 DEF TypeOK
<1> HIDE DEF r
<1> QED
  BY <1>2, <1>3, GoodMoved

\* Requests on wl_surface, except for the exits of commit that leak.
LEMMA GoodRequests == Good /\ leaked' = {} /\ Requests => Good'
<1> SUFFICES ASSUME Good, leaked' = {}, NEW s \in Surface,
                    \/ \E b \in Buffer : Attach(s, b)
                    \/ AttachNull(s)
                    \/ Frame(s)
                    \/ RequestFeedback(s)
                    \/ CommitParentNotReady(s)
                    \/ CommitNoBuffer(s)
                    \/ \E w \in {"full", "bare"} :
                         CommitShown(s, w) \/ CommitNotShown(s, w) \/ CommitAbandoned(s, w)
                    \/ CommitUnknownType(s)
             PROVE  Good'
  BY DEF Requests
<1>0. /\ TypeOK /\ HeldBuffersExist /\ Linked(links, hold, buffers)
      /\ hold \in Slots /\ buffers \in SUBSET Buffer
      /\ hold[s] \in [Slot -> buffers \cup {None}]
      /\ "pending" \in Slot
  BY HoldType, AsHeld DEF Good, Slot
<1>1. ASSUME NEW b \in Buffer, Attach(s, b) PROVE Good'
  <2> DEFINE dropped == LetGoPending(s)
             s1 == Put(hold, s, "pending", None)
             r  == [hold[s] EXCEPT !["pending"] = b]
  <2>1. Linked(dropped, s1, buffers)
    BY <1>0, SlotRemoved, PutSame DEF LetGoPending
  <2>2. s1 \in Slots /\ s1[s]["pending"] = None
    BY <1>0, PutType
  <2>3. b \in buffers
    BY <1>1 DEF Attach
  <2>4. Linked(AddListener(dropped, b, <<s, "pending">>), Put(s1, s, "pending", b), buffers)
    <3> HIDE DEF dropped, s1
    <3> QED
      BY <1>0, <2>1, <2>2, <2>3, SlotListens
  <2>5. Put(s1, s, "pending", b) = [hold EXCEPT ![s] = r]
    BY <1>0 DEF Put, Slots
  <2>6. Linked(links', [hold EXCEPT ![s] = r], buffers)
    BY <1>1, <2>4, <2>5 DEF Attach
  <2>7. hold' = [hold EXCEPT ![s] = r] /\ r \in [Slot -> buffers \cup {None}]
    BY <1>0, <1>1, <2>3 DEF Attach, Slots
  <2>8. TypeOK'
    <3>1. /\ hold' \in [Surface -> [Slot -> Buffer \cup {None}]]
          /\ links' \in Heap(Node, None)
      BY <1>0, <2>6, <2>7 DEF TypeOK, Linked
    <3> QED
      BY <1>0, <1>1, <3>1 DEF Attach, TypeOK, scene, owed, due
  <2> QED
    BY <1>1, <2>6, <2>7, <2>8, GoodMoved DEF Attach, scene
<1>2. CASE AttachNull(s)
  <2> DEFINE r == [hold[s] EXCEPT !["pending"] = None]
  <2>1. Linked(ListUnlink(links, <<s, "pending">>, None), Put(hold, s, "pending", None), buffers)
    BY <1>0, <1>2, SlotRemoved DEF AttachNull
  <2>2. Put(hold, s, "pending", None) = [hold EXCEPT ![s] = r]
    BY <1>0 DEF Put, Slots
  <2>3. Linked(links', [hold EXCEPT ![s] = r], buffers)
    BY <1>2, <2>1, <2>2 DEF AttachNull, LetGoPending
  <2>4. hold' = [hold EXCEPT ![s] = r] /\ r \in [Slot -> buffers \cup {None}]
    BY <1>0, <1>2 DEF AttachNull, Slots
  <2>5. TypeOK'
    <3>1. /\ hold' \in [Surface -> [Slot -> Buffer \cup {None}]]
          /\ links' \in Heap(Node, None)
      BY <1>0, <2>3, <2>4 DEF TypeOK, Linked
    <3> QED
      BY <1>0, <1>2, <3>1 DEF AttachNull, TypeOK, scene, owed, due
  <2> QED
    BY <1>2, <2>3, <2>4, <2>5, GoodMoved DEF AttachNull, scene
<1>3. CASE Frame(s)
  BY <1>0, <1>3, GoodKept DEF Frame, TypeOK, Stage, scene, held
<1>4. CASE RequestFeedback(s)
  BY <1>0, <1>4, GoodKept DEF RequestFeedback, TypeOK, Stage, scene, held
<1>5. CASE CommitParentNotReady(s)
  BY <1>0, <1>5, GoodKept DEF CommitParentNotReady, TypeOK, scene, held
<1>6. CASE CommitNoBuffer(s)
  <2>1. CASE hold[s].current = None
    <3>1. TypeOK' /\ UNCHANGED <<surfaces, buffers, hold, links, emitting>>
      BY <1>0, <1>6, <2>1 DEF CommitNoBuffer, TypeOK, scene, held
    <3> QED
      BY <3>1, GoodKept
  <2>2. CASE hold[s].current # None
    <3>1. /\ AnswerAll(s, links, hold[s], busy[s])
          /\ UNCHANGED <<surfaces, buffers, roles, parent, emitting, window, awaiting, leaked>>
          /\ Serving(s)
      BY <1>6, <2>2 DEF CommitNoBuffer, CommitProceeds, scene
    <3>2. awaiting' \subseteq Surface
      BY <1>0, <3>1 DEF TypeOK
    <3> QED
      BY <3>1, <3>2, GoodAnswered
  <2> QED
    BY <2>1, <2>2
<1>7. ASSUME NEW w \in {"full", "bare"}, CommitShown(s, w) PROVE Good'
  <2>1. hold[s].pending # None /\ LeakedByLatch(s) = {} /\ Serving(s)
    BY <1>7 DEF CommitShown, CommitProceeds, LeakedByLatch
  <2>2. /\ Linked(LatchedLinks(s), [hold EXCEPT ![s] = LatchedHold(s)], buffers)
        /\ LatchedHold(s) \in [Slot -> buffers \cup {None}]
    BY <1>0, <2>1, Latch
  <2>3. /\ hold' = [hold EXCEPT ![s] = LatchedHold(s)]
        /\ links' = LatchedLinks(s)
        /\ UNCHANGED <<surfaces, buffers, emitting>>
    BY <1>7 DEF CommitShown, scene
  <2>4. TypeOK'
    <3>1. hold' \in [Surface -> [Slot -> Buffer \cup {None}]] /\ links' \in Heap(Node, None)
      BY <1>0, <2>2, <2>3 DEF TypeOK, Linked
    <3>2. busy' \in [Surface -> SUBSET Buffer]
      BY <1>0, <1>7 DEF CommitShown, TypeOK
    <3> QED
      BY <1>0, <1>7, <3>1, <3>2 DEF CommitShown, TypeOK, Arm, Stage, scene, LeakedByLatch
  <2> QED
    BY <2>1, <2>2, <2>3, <2>4, GoodMoved
<1>8. ASSUME NEW w \in {"full", "bare"}, CommitNotShown(s, w) PROVE Good'
  <2> DEFINE inUse == (busy[s] \cup {hold[s].pending}) \ ReleasedByLatch(s)
  <2>1. hold[s].pending # None /\ LeakedByLatch(s) = {} /\ Serving(s)
    BY <1>8 DEF CommitNotShown, CommitProceeds, LeakedByLatch
  <2>2. /\ Linked(LatchedLinks(s), [hold EXCEPT ![s] = LatchedHold(s)], buffers)
        /\ LatchedHold(s) \in [Slot -> buffers \cup {None}]
    BY <1>0, <2>1, Latch
  <2>3. /\ AnswerAll(s, LatchedLinks(s), LatchedHold(s), inUse)
        /\ inUse \in SUBSET Buffer
        /\ window' \in [Surface -> {"none", "full", "bare"}]
        /\ leaked' \subseteq Surface
        /\ UNCHANGED <<surfaces, buffers, roles, parent, emitting, awaiting>>
    BY <1>0, <1>8, <2>1 DEF CommitNotShown, TypeOK, scene
  <2> HIDE DEF inUse
  <2>4. /\ HoldAfterRelease(LatchedHold(s)) \in [Slot -> buffers \cup {None}]
        /\ hold' = [hold EXCEPT ![s] = HoldAfterRelease(LatchedHold(s))]
        /\ Linked(links', [hold EXCEPT ![s] = HoldAfterRelease(LatchedHold(s))], buffers)
        /\ TypeOK'
    BY <1>0, <2>2, <2>3, Answered DEF TypeOK
  <2> QED
    BY <2>1, <2>3, <2>4, GoodMoved
<1>9. ASSUME NEW w \in {"full", "bare"}, CommitAbandoned(s, w) PROVE FALSE
  BY <1>9 DEF CommitAbandoned
<1>10. CASE CommitUnknownType(s)
  BY <1>10 DEF CommitUnknownType
<1> QED
  BY <1>1, <1>2, <1>3, <1>4, <1>5, <1>6, <1>7, <1>8, <1>9, <1>10

\* Plexy's frame_done.
LEMMA GoodFrameDone == ASSUME Good, NEW s \in Surface, FrameDone(s) PROVE Good'
<1>0. TypeOK /\ Linked(links, hold, buffers)
  BY DEF Good
<1>1. /\ AnswerAll(s, links, hold[s], busy[s])
      /\ awaiting' \subseteq Surface
      /\ UNCHANGED <<surfaces, buffers, roles, parent, emitting, window, leaked>>
      /\ Serving(s)
  BY <1>0 DEF FrameDone, scene, TypeOK, Serving
<1> QED
  BY <1>1, GoodAnswered

---------------------------------------------------------------------------
(* The theorems *)

\* Nothing is held in the initial state, and every list is empty.
LEMMA SoundInit == Init => Sound
<1> SUFFICES ASSUME Init PROVE Good
  BY GoodIsSound DEF Init
<1>1. hold \in Slots /\ \A s \in Surface, k \in Slot : hold[s][k] = None
  BY DEF Init, NoHold, Slots
<1>2. links \in Heap(Node, None) /\ \A n \in Node : links.nxt[n] = n /\ links.prv[n] = n
  BY DEF Init, Heap
<1>3. Home \in [Node -> {None}]
  <2>1. ASSUME NEW n \in Node PROVE Home[n] = None
    <3>1. CASE n \in Buffer
      BY <3>1 DEF Home, HomeOf, Init
    <3>2. CASE n \notin Buffer
      <4>1. PICK s \in Surface, k \in Slot : n = <<s, k>>
        BY <3>2 DEF Node, Listener
      <4> QED
        BY <1>1, <3>2, <4>1 DEF Home, HomeOf
    <3> QED
      BY <3>1, <3>2
  <2> QED
    BY <2>1 DEF Home, HomeOf
<1>4. WellLinked(links, Home, None)
  BY <1>3 DEF WellLinked, Rings, Rooted
<1>5. TypeOK
  BY <1>1, <1>2 DEF Init, TypeOK, Slots, Stage
<1>6. Detached /\ EmittingExists /\ HeldBuffersExist
  BY <1>1 DEF Init, Detached, EmittingExists, HeldBuffersExist
<1> QED
  BY <1>2, <1>4, <1>5, <1>6 DEF Good, Linked, Home

\* Every step keeps Sound: one that leaks makes it true trivially.
LEMMA SoundNext == Sound /\ [Next]_vars => Sound'
<1> SUFFICES ASSUME Sound, [Next]_vars, leaked' = {} PROVE Good'
  BY GoodIsSound DEF Sound, Good, Linked, Home, TypeOK
<1>1. leaked = {} /\ Good
  BY LeakedGrows, GoodIsSound
<1>2. CASE Lifecycle
  BY <1>1, <1>2, GoodLifecycle
<1>3. CASE Roles
  BY <1>1, <1>3, GoodRoles
<1>4. CASE Requests
  BY <1>1, <1>4, GoodRequests
<1>5. CASE \E s \in Surface : FrameDone(s)
  BY <1>1, <1>5, GoodFrameDone
<1>6. CASE UNCHANGED vars
  <2>1. TypeOK' /\ UNCHANGED <<surfaces, buffers, hold, links, emitting>>
    BY <1>1, <1>6 DEF Good, TypeOK, vars
  <2> QED
    BY <1>1, <2>1, GoodKept
<1> QED
  BY <1>2, <1>3, <1>4, <1>5, <1>6 DEF Next

\* Sound is an invariant of the bridge, for every choice of the constants.
THEOREM Soundness == Spec => []Sound
<1> QED
  BY SoundInit, SoundNext, PTL DEF Spec

\* Listeners and pointers agree until one of the leaking exits is taken,
\* and they are the only way to break the agreement.
THEOREM ListsMatch == Spec => []ListenersMatchPointers
<1>1. Sound => ListenersMatchPointers
  BY DEF Sound, ListenersMatchPointers, WellLinked
<1> QED
  BY <1>1, Soundness, PTL

---------------------------------------------------------------------------
(* What holds also after a leak *)

\* What a list operation on x keeps of the other nodes.
KeepsOthers(h, g, x) ==
  /\ \A y \in Steady : y # x /\ Loose(h, y) => Loose(g, y)
  /\ \A n \in Node : n # x /\ h.prv[n] # None => g.prv[n] # None

\* Heads, listeners and null are apart.
LEMMA NodeFacts ==
  /\ Steady \subseteq Listener /\ Listener \subseteq Node /\ Buffer \subseteq Node
  /\ Buffer \cap Listener = {} /\ None \notin Node
BY SurfaceBuffersAssumption DEF Steady, Listener, Node, Slot

(***************************************************************************)
(* Each list operation on x keeps every pointer to a steady listener       *)
(* answered, even if x is the pending listener and still pointed to.       *)
(***************************************************************************)

\* wl_list_init: of a steady listener only if nothing points to it.
LEMMA InitLoose ==
  ASSUME NEW h \in Heap(Node, None), Mutual(h), NEW x \in Node,
         x \in Steady => Loose(h, x)
  PROVE  /\ ListInit(h, x) \in Heap(Node, None)
         /\ Mutual(ListInit(h, x))
         /\ KeepsOthers(h, ListInit(h, x), x)
         /\ x \in Steady => Loose(ListInit(h, x), x)
         /\ ListInit(h, x).prv[x] # None
<1> DEFINE g == ListInit(h, x)
<1>1. /\ g \in Heap(Node, None)
      /\ g.nxt[x] = x /\ g.prv[x] = x
      /\ \A n \in Node : n # x => g.nxt[n] = h.nxt[n] /\ g.prv[n] = h.prv[n]
  BY DEF Heap, ListInit
<1> HIDE DEF g
<1>2. Mutual(g)
  <2> SUFFICES ASSUME NEW y \in Steady, NEW u \in Node
               PROVE  /\ g.nxt[u] = y => g.prv[y] = u
                      /\ g.prv[u] = y => g.nxt[y] = u
    BY DEF Mutual
  <2>1. y \in Node
    BY NodeFacts
  <2>2. CASE u = x
    BY <2>2, <1>1
  <2>3. CASE u # x
    <3>1. h.nxt[u] = y \/ h.prv[u] = y => y # x
      BY <2>3 DEF Loose
    <3> QED
      BY <3>1, <2>3, <2>1, <1>1 DEF Mutual
  <2> QED
    BY <2>2, <2>3
<1>3. KeepsOthers(h, g, x)
  <2>1. \A y \in Steady : y # x /\ Loose(h, y) => Loose(g, y)
    BY <1>1 DEF Loose
  <2>2. \A n \in Node : n # x /\ h.prv[n] # None => g.prv[n] # None
    BY <1>1
  <2> QED
    BY <2>1, <2>2 DEF KeepsOthers
<1>4. x \in Steady => Loose(g, x)
  BY <1>1 DEF Loose
<1> QED
  BY <1>1, <1>2, <1>3, <1>4, NodeFacts DEF g

\* wl_list_remove: a steady listener is pointed to by its neighbours only,
\* which are made to point past it.
LEMMA RemoveAnswered ==
  ASSUME NEW h \in Heap(Node, None), Mutual(h), NEW x \in Node, h.prv[x] # None
  PROVE  /\ ListRemove(h, x, None) \in Heap(Node, None)
         /\ Mutual(ListRemove(h, x, None))
         /\ KeepsOthers(h, ListRemove(h, x, None), x)
         /\ x \in Steady => Loose(ListRemove(h, x, None), x)
<1> DEFINE g == ListRemove(h, x, None)
           p == h.prv[x]
           q == h.nxt[x]
<1>0. p \in Node /\ None \notin Node /\ q \in Node \cup {None}
  BY NodeFacts DEF Heap
<1>1. /\ g \in Heap(Node, None)
      /\ g.nxt[x] = None /\ g.prv[x] = None
      /\ p # x => g.nxt[p] = q
      /\ \A n \in Node : n # x /\ n # p => g.nxt[n] = h.nxt[n]
      /\ \A n \in Node : n # x /\ n = q => g.prv[n] = p
      /\ \A n \in Node : n # x /\ n # q => g.prv[n] = h.prv[n]
  BY <1>0 DEF Heap, ListRemove
<1> HIDE DEF g
<1>2. x \in Steady => (p = x <=> q = x)
  BY <1>0 DEF Mutual
<1>3. Mutual(g)
  <2> SUFFICES ASSUME NEW y \in Steady, NEW u \in Node
               PROVE  /\ g.nxt[u] = y => g.prv[y] = u
                      /\ g.prv[u] = y => g.nxt[y] = u
    BY DEF Mutual
  <2>1. y \in Node /\ y # None
    BY NodeFacts
  <2>2. ASSUME g.nxt[u] = y PROVE g.prv[y] = u
    <3>1. u # x
      BY <2>2, <2>1, <1>1
    <3>2. CASE u = p
      <4>1. y = q
        BY <2>2, <3>1, <3>2, <1>1
      <4>2. y # x
        BY <4>1, <3>1, <3>2, <1>2
      <4> QED
        BY <4>1, <4>2, <2>1, <3>2, <1>1
    <3>3. CASE u # p
      <4>1. h.nxt[u] = y /\ h.prv[y] = u
        BY <2>2, <3>1, <3>3, <1>1 DEF Mutual
      <4>2. y # x /\ y # q
        BY <4>1, <3>1, <3>3 DEF Mutual
      <4> QED
        BY <4>1, <4>2, <2>1, <1>1
    <3> QED
      BY <3>2, <3>3
  <2>3. ASSUME g.prv[u] = y PROVE g.nxt[y] = u
    <3>1. u # x
      BY <2>3, <2>1, <1>1
    <3>2. CASE u = q
      <4>1. y = p
        BY <2>3, <3>1, <3>2, <1>1
      <4>2. y # x
        BY <4>1, <3>1, <3>2, <1>2
      <4> QED
        BY <4>1, <4>2, <3>2, <1>1
    <3>3. CASE u # q
      <4>1. h.prv[u] = y /\ h.nxt[y] = u
        BY <2>3, <3>1, <3>3, <1>1 DEF Mutual
      <4>2. y # x /\ y # p
        BY <4>1, <3>1, <3>3 DEF Mutual
      <4> QED
        BY <4>1, <4>2, <2>1, <1>1
    <3> QED
      BY <3>2, <3>3
  <2> QED
    BY <2>2, <2>3
<1>4. KeepsOthers(h, g, x)
  <2>1. ASSUME NEW y \in Steady, y # x, Loose(h, y) PROVE Loose(g, y)
    <3>1. p # y /\ q # y
      BY <2>1 DEF Loose
    <3> SUFFICES ASSUME NEW u \in Node, u # y PROVE g.nxt[u] # y /\ g.prv[u] # y
      BY DEF Loose
    <3>2. h.nxt[u] # y /\ h.prv[u] # y
      BY <2>1 DEF Loose
    <3>3. y # None
      BY NodeFacts
    <3>4. g.nxt[u] # y
      BY <3>1, <3>2, <3>3, <1>1
    <3>5. g.prv[u] # y
      BY <3>1, <3>2, <3>3, <1>1
    <3> QED
      BY <3>4, <3>5
  <2>2. \A n \in Node : n # x /\ h.prv[n] # None => g.prv[n] # None
    BY <1>0, <1>1
  <2> QED
    BY <2>1, <2>2 DEF KeepsOthers
<1>5. x \in Steady => Loose(g, x)
  BY <1>0, <1>1, <1>3 DEF Mutual, Loose
<1> QED
  BY <1>1, <1>3, <1>4, <1>5 DEF g

\* Two operations on the same node.
LEMMA KeepsTwice ==
  ASSUME NEW h, NEW g, NEW f, NEW x, KeepsOthers(h, g, x), KeepsOthers(g, f, x)
  PROVE  KeepsOthers(h, f, x)
BY DEF KeepsOthers

\* wl_list_remove and wl_list_init.
LEMMA UnlinkAnswered ==
  ASSUME NEW h \in Heap(Node, None), Mutual(h), NEW x \in Node, h.prv[x] # None
  PROVE  /\ ListUnlink(h, x, None) \in Heap(Node, None)
         /\ Mutual(ListUnlink(h, x, None))
         /\ KeepsOthers(h, ListUnlink(h, x, None), x)
         /\ x \in Steady => Loose(ListUnlink(h, x, None), x)
         /\ ListUnlink(h, x, None).prv[x] # None
<1> DEFINE g == ListRemove(h, x, None)
<1>1. /\ g \in Heap(Node, None) /\ Mutual(g) /\ KeepsOthers(h, g, x)
      /\ x \in Steady => Loose(g, x)
  BY RemoveAnswered
<1> HIDE DEF g
<1>2. /\ ListInit(g, x) \in Heap(Node, None)
      /\ Mutual(ListInit(g, x))
      /\ KeepsOthers(g, ListInit(g, x), x)
      /\ x \in Steady => Loose(ListInit(g, x), x)
      /\ ListInit(g, x).prv[x] # None
  BY <1>1, InitLoose
<1>3. KeepsOthers(h, ListInit(g, x), x)
  BY <1>1, <1>2, KeepsTwice
<1> QED
  BY <1>2, <1>3 DEF ListUnlink, g

\* wl_resource_add_destroy_listener.  The end of the list may be x itself,
\* if x is a forgotten pending listener.
LEMMA AddLoose ==
  ASSUME NEW h \in Heap(Node, None), Mutual(h), NEW x \in Listener, NEW b \in Buffer,
         h.prv[b] # None, x \in Steady => Loose(h, x)
  PROVE  /\ AddListener(h, b, x) \in Heap(Node, None)
         /\ Mutual(AddListener(h, b, x))
         /\ KeepsOthers(h, AddListener(h, b, x), x)
         /\ AddListener(h, b, x).prv[x] # None
<1> DEFINE g == AddListener(h, b, x)
           p == h.prv[b]
           q == h.nxt[p]
<1>0. /\ x \in Node /\ b \in Node /\ x # b
      /\ p \in Node /\ None \notin Node /\ q \in Node \cup {None}
  BY NodeFacts DEF Heap
<1>1. CASE p = x
  <2>1. g = ListInit(h, x)
    BY <1>0, <1>1 DEF AddListener, ListInsert, ListInit, Heap
  <2> QED
    BY <2>1, <1>0, InitLoose
<1>2. CASE p # x
  <2>1. /\ g \in Heap(Node, None)
        /\ g.nxt[x] = q /\ g.nxt[p] = x
        /\ \A n \in Node : n # x /\ n # p => g.nxt[n] = h.nxt[n]
        /\ q # x => g.prv[x] = p
        /\ q = x => g.prv[x] = x
        /\ \A n \in Node : n # x /\ n = q => g.prv[n] = x
        /\ \A n \in Node : n # x /\ n # q => g.prv[n] = h.prv[n]
    BY <1>0, <1>2 DEF Heap, AddListener, ListInsert
  <2>2. x \in Steady => q # x
    BY <1>0, <1>2 DEF Loose
  <2> HIDE DEF g
  <2>3. Mutual(g)
    <3> SUFFICES ASSUME NEW y \in Steady, NEW u \in Node
                 PROVE  /\ g.nxt[u] = y => g.prv[y] = u
                        /\ g.prv[u] = y => g.nxt[y] = u
      BY DEF Mutual
    <3>1. y \in Node
      BY NodeFacts
    <3>2. ASSUME g.nxt[u] = y PROVE g.prv[y] = u
      <4>1. CASE u = x
        BY <4>1, <3>1, <3>2, <2>1, <2>2
      <4>2. CASE u = p
        BY <4>2, <3>2, <2>1, <2>2
      <4>3. CASE u # x /\ u # p
        <5>1. h.nxt[u] = y /\ h.prv[y] = u
          BY <3>2, <4>3, <2>1 DEF Mutual
        <5>2. y # x
          BY <5>1, <4>3 DEF Loose
        <5>3. y # q
          BY <5>1, <4>3, <1>0 DEF Mutual
        <5> QED
          BY <5>1, <5>2, <5>3, <3>1, <2>1
      <4> QED
        BY <4>1, <4>2, <4>3
    <3>3. ASSUME g.prv[u] = y PROVE g.nxt[y] = u
      <4>1. CASE u = x
        BY <4>1, <3>3, <2>1, <2>2
      <4>2. CASE u # x /\ u = q
        BY <4>2, <3>3, <2>1
      <4>3. CASE u # x /\ u # q
        <5>1. h.prv[u] = y /\ h.nxt[y] = u
          BY <3>3, <4>3, <2>1 DEF Mutual
        <5>2. y # x
          BY <5>1, <4>3 DEF Loose
        <5>3. y # p
          BY <5>1, <4>3
        <5> QED
          BY <5>1, <5>2, <5>3, <3>1, <2>1
      <4> QED
        BY <4>1, <4>2, <4>3
    <3> QED
      BY <3>2, <3>3
  <2>4. KeepsOthers(h, g, x)
    <3>1. ASSUME NEW y \in Steady, y # x, Loose(h, y) PROVE Loose(g, y)
      <4>0. y # b /\ y # None
        BY NodeFacts
      <4>1. p # y
        BY <3>1, <4>0, <1>0 DEF Loose
      <4>2. q # y
        BY <3>1, <4>1, <1>0 DEF Loose
      <4> SUFFICES ASSUME NEW u \in Node, u # y PROVE g.nxt[u] # y /\ g.prv[u] # y
        BY DEF Loose
      <4>3. h.nxt[u] # y /\ h.prv[u] # y
        BY <3>1 DEF Loose
      <4>4. g.nxt[u] # y
        BY <3>1, <4>2, <4>3, <2>1
      <4>5. g.prv[u] # y
        BY <3>1, <4>1, <4>3, <2>1
      <4> QED
        BY <4>4, <4>5
    <3>2. \A n \in Node : n # x /\ h.prv[n] # None => g.prv[n] # None
      BY <1>0, <2>1
    <3> QED
      BY <3>1, <3>2 DEF KeepsOthers
  <2>5. g.prv[x] # None
    BY <1>0, <2>1
  <2> QED
    BY <2>1, <2>3, <2>4, <2>5 DEF g
<1> QED
  BY <1>1, <1>2

---------------------------------------------------------------------------
\* Two fillings of the slots that differ in slot k of s at most.
OneSlot(slots, new, s, k) ==
  \A t \in Surface, j \in Slot : (t # s \/ j # k) => new[t][j] = slots[t][j]

\* What the filling new asks of the listener of slot k of s.
Settled(g, new, S, s, k) ==
  /\ <<s, k>> \in Steady /\ new[s][k] = None => Loose(g, <<s, k>>)
  /\ g.prv[<<s, k>>] # None \/ (new[s][k] = None /\ (k = "pending" => s \notin S))

\* An operation on the listener of one slot, after which the listener is as
\* the slot asks.
LEMMA SturdyStep ==
  ASSUME NEW slots \in Slots, NEW new \in Slots, NEW S \in SUBSET Surface,
         NEW h, Sturdy(h, slots, S),
         NEW s \in Surface, NEW k \in Slot, NEW g,
         g \in Heap(Node, None), Mutual(g), KeepsOthers(h, g, <<s, k>>),
         OneSlot(slots, new, s, k), Settled(g, new, S, s, k)
  PROVE  Sturdy(g, new, S)
<1>1. \A x \in Steady : new[x[1]][x[2]] = None => Loose(g, x)
  <2> SUFFICES ASSUME NEW x \in Steady, new[x[1]][x[2]] = None PROVE Loose(g, x)
    OBVIOUS
  <2>0. PICK t \in Surface, j \in {"current", "previous"} : x = <<t, j>>
    BY DEF Steady
  <2>1. j \in Slot /\ <<t, j>> \in Steady /\ new[t][j] = None
    BY <2>0 DEF Slot, Steady
  <2> SUFFICES Loose(g, <<t, j>>)
    BY <2>0
  <2>2. CASE t = s /\ j = k
    BY <2>1, <2>2 DEF Settled
  <2>3. CASE t # s \/ j # k
    <3>1. slots[<<t, j>>[1]][<<t, j>>[2]] = None /\ <<t, j>> # <<s, k>>
      BY <2>1, <2>3 DEF OneSlot
    <3>2. Loose(h, <<t, j>>)
      BY <2>1, <3>1 DEF Sturdy
    <3> QED
      BY <2>1, <3>1, <3>2 DEF KeepsOthers
  <2> QED
    BY <2>2, <2>3
<1>2. \A b \in Buffer : g.prv[b] # None
  <2> TAKE b \in Buffer
  <2>1. b \in Node /\ b # <<s, k>> /\ h.prv[b] # None
    BY NodeFacts DEF Sturdy, Listener
  <2> QED
    BY <2>1 DEF KeepsOthers
<1>3. \A t \in S : g.prv[<<t, "pending">>] # None
  <2> TAKE t \in S
  <2>1. CASE t = s /\ k = "pending"
    BY <2>1 DEF Settled
  <2>2. CASE t # s \/ k # "pending"
    <3>1. <<t, "pending">> \in Node /\ <<t, "pending">> # <<s, k>>
      BY <2>2, NodeFacts DEF Listener, Slot
    <3>2. h.prv[<<t, "pending">>] # None
      BY DEF Sturdy
    <3> QED
      BY <3>1, <3>2 DEF KeepsOthers
  <2> QED
    BY <2>1, <2>2
<1>4. \A x \in Listener : new[x[1]][x[2]] # None => g.prv[x] # None
  <2> SUFFICES ASSUME NEW t \in Surface, NEW j \in Slot, new[t][j] # None
               PROVE  g.prv[<<t, j>>] # None
    BY DEF Listener
  <2>1. CASE t = s /\ j = k
    BY <2>1 DEF Settled
  <2>2. CASE t # s \/ j # k
    <3>1. <<t, j>> \in Node /\ <<t, j>> # <<s, k>>
      BY <2>2, NodeFacts DEF Listener
    <3>2. <<t, j>> \in Listener /\ slots[t][j] # None
      BY <2>2 DEF Listener, OneSlot
    <3>3. h.prv[<<t, j>>] # None
      BY <3>2 DEF Sturdy
    <3> QED
      BY <3>1, <3>3 DEF KeepsOthers
  <2> QED
    BY <2>1, <2>2
<1> QED
  BY <1>1, <1>2, <1>3, <1>4 DEF Sturdy

\* The listener of a slot is a node, and steady unless it is the pending one.
LEMMA SlotIsNode ==
  ASSUME NEW s \in Surface, NEW k \in Slot
  PROVE  /\ <<s, k>> \in Listener /\ <<s, k>> \in Node
         /\ <<s, k>> \in Steady <=> k # "pending"
BY NodeFacts DEF Listener, Steady, Slot

\* Removal of a listener that leads somewhere, whatever its slot held.
LEMMA SturdyUnlink ==
  ASSUME NEW slots \in Slots, NEW S \in SUBSET Surface, NEW h, Sturdy(h, slots, S),
         NEW s \in Surface, NEW k \in Slot, h.prv[<<s, k>>] # None
  PROVE  Sturdy(ListUnlink(h, <<s, k>>, None), Put(slots, s, k, None), S)
<1> DEFINE g == ListUnlink(h, <<s, k>>, None)
           new == Put(slots, s, k, None)
<1>1. /\ g \in Heap(Node, None) /\ Mutual(g) /\ KeepsOthers(h, g, <<s, k>>)
      /\ <<s, k>> \in Steady => Loose(g, <<s, k>>)
      /\ g.prv[<<s, k>>] # None
  BY UnlinkAnswered, SlotIsNode DEF Sturdy
<1>2. /\ new \in Slots
      /\ \A t \in Surface, j \in Slot : (t # s \/ j # k) => new[t][j] = slots[t][j]
  BY PutType
<1> HIDE DEF g, new
<1>3. OneSlot(slots, new, s, k) /\ Settled(g, new, S, s, k)
  BY <1>1, <1>2 DEF OneSlot, Settled
<1> QED
  BY <1>1, <1>2, <1>3, SturdyStep DEF g, new

\* wl_list_remove alone, of a slot that holds a buffer: the node is left with
\* null pointers, which no operation follows before it is initialised again.
LEMMA SturdyRemove ==
  ASSUME NEW slots \in Slots, NEW S \in SUBSET Surface, NEW h, Sturdy(h, slots, S),
         NEW s \in Surface, NEW k \in Slot, slots[s][k] # None,
         k = "pending" => s \notin S
  PROVE  Sturdy(ListRemove(h, <<s, k>>, None), Put(slots, s, k, None), S)
<1> DEFINE g == ListRemove(h, <<s, k>>, None)
           new == Put(slots, s, k, None)
<1>0. h.prv[<<s, k>>] # None
  <2>1. <<s, k>> \in Listener
    BY SlotIsNode
  <2> QED
    BY <2>1 DEF Sturdy
<1>1. /\ g \in Heap(Node, None) /\ Mutual(g) /\ KeepsOthers(h, g, <<s, k>>)
      /\ <<s, k>> \in Steady => Loose(g, <<s, k>>)
  BY <1>0, RemoveAnswered, SlotIsNode DEF Sturdy
<1>2. /\ new \in Slots /\ new[s][k] = None
      /\ \A t \in Surface, j \in Slot : (t # s \/ j # k) => new[t][j] = slots[t][j]
  BY PutType
<1> HIDE DEF g, new
<1>3. OneSlot(slots, new, s, k) /\ Settled(g, new, S, s, k)
  BY <1>1, <1>2 DEF OneSlot, Settled
<1> QED
  BY <1>1, <1>2, <1>3, SturdyStep DEF g, new

\* The listener of an empty slot is added to the buffer the slot is set to.
LEMMA SturdyListens ==
  ASSUME NEW slots \in Slots, NEW S \in SUBSET Surface, NEW h, Sturdy(h, slots, S),
         NEW s \in Surface, NEW k \in Slot, NEW b \in Buffer, slots[s][k] = None
  PROVE  Sturdy(AddListener(h, b, <<s, k>>), Put(slots, s, k, b), S)
<1> DEFINE g == AddListener(h, b, <<s, k>>)
           new == Put(slots, s, k, b)
<1>0. /\ <<s, k>> \in Listener
      /\ <<s, k>> \in Steady => Loose(h, <<s, k>>)
      /\ h.prv[b] # None /\ b # None
  BY SlotIsNode, NodeFacts DEF Sturdy
<1>1. /\ g \in Heap(Node, None) /\ Mutual(g) /\ KeepsOthers(h, g, <<s, k>>)
      /\ g.prv[<<s, k>>] # None
  BY <1>0, AddLoose DEF Sturdy
<1>2. /\ new \in Slots /\ new[s][k] = b
      /\ \A t \in Surface, j \in Slot : (t # s \/ j # k) => new[t][j] = slots[t][j]
  BY PutType
<1> HIDE DEF g, new
<1>3. OneSlot(slots, new, s, k) /\ Settled(g, new, S, s, k)
  BY <1>0, <1>1, <1>2 DEF OneSlot, Settled
<1> QED
  BY <1>1, <1>2, <1>3, SturdyStep DEF g, new

\* wl_list_init of the listener of an empty slot.
LEMMA SturdyInit ==
  ASSUME NEW slots \in Slots, NEW S \in SUBSET Surface, NEW h, Sturdy(h, slots, S),
         NEW s \in Surface, NEW k \in Slot, slots[s][k] = None
  PROVE  Sturdy(ListInit(h, <<s, k>>), slots, S \cup (IF k = "pending" THEN {s} ELSE {}))
<1> DEFINE g == ListInit(h, <<s, k>>)
<1>0. /\ <<s, k>> \in Node
      /\ <<s, k>> \in Steady => Loose(h, <<s, k>>)
  BY SlotIsNode DEF Sturdy
<1>1. /\ g \in Heap(Node, None) /\ Mutual(g) /\ KeepsOthers(h, g, <<s, k>>)
      /\ <<s, k>> \in Steady => Loose(g, <<s, k>>)
      /\ g.prv[<<s, k>>] # None
  BY <1>0, InitLoose DEF Sturdy
<1> HIDE DEF g
<1>2. Sturdy(g, slots, S)
  <2>1. OneSlot(slots, slots, s, k) /\ Settled(g, slots, S, s, k)
    BY <1>1 DEF OneSlot, Settled
  <2> QED
    BY <1>1, <2>1, SturdyStep
<1> QED
  BY <1>1, <1>2 DEF Sturdy, g

\* The leak: pending_buffer is cleared and its listener left where it is.
LEMMA SturdyForgets ==
  ASSUME NEW slots \in Slots, NEW S \in SUBSET Surface, NEW h, Sturdy(h, slots, S),
         NEW s \in Surface
  PROVE  Sturdy(h, Put(slots, s, "pending", None), S)
<1> DEFINE new == Put(slots, s, "pending", None)
<1>1. /\ new[s]["pending"] = None
      /\ \A t \in Surface, j \in Slot : (t # s \/ j # "pending") => new[t][j] = slots[t][j]
  BY PutType DEF Slot
<1> HIDE DEF new
<1>2. \A x \in Steady : new[x[1]][x[2]] = slots[x[1]][x[2]]
  BY <1>1 DEF Steady, Slot
<1>3. \A x \in Listener : new[x[1]][x[2]] # None => slots[x[1]][x[2]] # None
  BY <1>1 DEF Listener
<1> QED
  BY <1>2, <1>3 DEF Sturdy, new

\* A surface that goes asks for nothing any more.
LEMMA SturdyFewer ==
  ASSUME NEW slots, NEW S, NEW h, Sturdy(h, slots, S), NEW T \in SUBSET S
  PROVE  Sturdy(h, slots, T)
BY DEF Sturdy

\* A listener whose slot holds a buffer can be followed back.
LEMMA SturdyHeld ==
  ASSUME NEW slots \in Slots, NEW S \in SUBSET Surface, NEW h, Sturdy(h, slots, S),
         NEW s \in Surface, NEW k \in Slot, slots[s][k] # None
  PROVE  Sturdy(ListUnlink(h, <<s, k>>, None), Put(slots, s, k, None), S)
<1>1. <<s, k>> \in Listener
  BY SlotIsNode
<1>2. h.prv[<<s, k>>] # None
  BY <1>1 DEF Sturdy
<1> QED
  BY <1>2, SturdyUnlink

---------------------------------------------------------------------------
\* The rotation of surface_commit, in the same five steps as in Rotation.
LEMMA SturdyRotation ==
  ASSUME TypeOK, Sturdy(links, hold, surfaces),
         NEW s \in Surface, hold[s].pending # None
  PROVE  Sturdy(RotatedLinks(s), [hold EXCEPT ![s] = RotatedHold(s)], surfaces)
<1> DEFINE prev == hold[s]["previous"]
           cur  == hold[s]["current"]
           pend == hold[s]["pending"]
           h1 == IF prev # None THEN ListRemove(links, <<s, "previous">>, None) ELSE links
           s1 == Put(hold, s, "previous", None)
           h2 == IF cur # None THEN ListUnlink(h1, <<s, "current">>, None) ELSE h1
           s2 == Put(s1, s, "current", None)
           h3 == IF cur # None THEN AddListener(h2, cur, <<s, "previous">>) ELSE h2
           s3 == Put(s2, s, "previous", cur)
           h4 == ListUnlink(h3, <<s, "pending">>, None)
           s4 == Put(s3, s, "pending", None)
           h5 == AddListener(h4, pend, <<s, "current">>)
           s5 == Put(s4, s, "current", pend)
<1>1. /\ hold \in Slots /\ surfaces \in SUBSET Surface
      /\ prev \in Buffer \cup {None}
      /\ cur \in Buffer \cup {None}
      /\ pend \in Buffer /\ pend # None
      /\ "previous" \in Slot /\ "current" \in Slot /\ "pending" \in Slot
      /\ "previous" # "pending" /\ "current" # "pending"
  BY HoldType DEF TypeOK, Slot
<1>3. /\ s1 \in Slots /\ s2 \in Slots /\ s3 \in Slots /\ s4 \in Slots /\ s5 \in Slots
      /\ s1[s]["current"] = cur
      /\ s2[s]["current"] = None /\ s2[s]["previous"] = None
      /\ s3[s]["pending"] = pend
      /\ s4[s]["current"] = None
  <2>1. /\ s1 \in Slots
        /\ s1[s]["previous"] = None
        /\ s1[s]["current"] = cur
        /\ s1[s]["pending"] = pend
    BY <1>1, PutType
  <2>2. /\ s2 \in Slots
        /\ s2[s]["previous"] = None
        /\ s2[s]["current"] = None
        /\ s2[s]["pending"] = pend
    <3> HIDE DEF s1
    <3> QED
      BY <1>1, <2>1 DEF Put, Slots, Slot
  <2>3. /\ s3 \in Slots
        /\ s3[s]["current"] = None
        /\ s3[s]["pending"] = pend
    <3> HIDE DEF s2
    <3> QED
      BY <1>1, <2>2 DEF Put, Slots, Slot
  <2>4. /\ s4 \in Slots
        /\ s4[s]["current"] = None
    <3> HIDE DEF s3
    <3> QED
      BY <1>1, <2>3 DEF Put, Slots, Slot
  <2>5. s5 \in Slots
    <3> HIDE DEF s4
    <3> QED
      BY <1>1, <2>4 DEF Put, Slots, Slot
  <2> QED
    BY <2>1, <2>2, <2>3, <2>4, <2>5
<1>4. Sturdy(h1, s1, surfaces)
  BY <1>1, SturdyRemove, PutSame
<1>5. Sturdy(h2, s2, surfaces)
  <2> HIDE DEF h1, s1
  <2> QED
    BY <1>1, <1>3, <1>4, SturdyHeld, PutSame
<1>6. Sturdy(h3, s3, surfaces)
  <2> HIDE DEF h2, s2
  <2> QED
    BY <1>1, <1>3, <1>5, SturdyListens, PutSame
<1>7. Sturdy(h4, s4, surfaces)
  <2> HIDE DEF h3, s3
  <2> QED
    BY <1>1, <1>3, <1>6, SturdyHeld
<1>8. Sturdy(h5, s5, surfaces)
  <2> HIDE DEF h4, s4
  <2> QED
    BY <1>1, <1>3, <1>7, SturdyListens
<1>9. h5 = RotatedLinks(s)
  BY DEF RotatedLinks, Removed
<1>10. s5 = [hold EXCEPT ![s] = RotatedHold(s)]
  BY <1>1 DEF Put, RotatedHold, Slots, Slot
<1> QED
  BY <1>8, <1>9, <1>10

\* The release of the previous buffer, from any state of the slots of s.
LEMMA SturdyRelease ==
  ASSUME TypeOK, NEW s \in Surface, NEW r \in [Slot -> Buffer \cup {None}], NEW h,
         Sturdy(h, [hold EXCEPT ![s] = r], surfaces)
  PROVE  Sturdy(LinksAfterRelease(h, r, s),
                [hold EXCEPT ![s] = HoldAfterRelease(r)], surfaces)
<1> DEFINE slots == [hold EXCEPT ![s] = r]
<1>1. /\ slots \in Slots /\ surfaces \in SUBSET Surface
      /\ slots[s]["previous"] = r["previous"]
      /\ "previous" \in Slot
  BY HoldType DEF Slots, Slot, TypeOK
<1>2. Put(slots, s, "previous", None) = [hold EXCEPT ![s] = HoldAfterRelease(r)]
  BY HoldType DEF Put, HoldAfterRelease, Slots, Slot
<1> HIDE DEF slots
<1>3. Sturdy(h, slots, surfaces)
  BY DEF slots
<1>4. CASE r["previous"] # None
  <2>1. Sturdy(ListUnlink(h, <<s, "previous">>, None),
               Put(slots, s, "previous", None), surfaces)
    BY <1>1, <1>3, <1>4, SturdyHeld
  <2> QED
    BY <2>1, <1>2, <1>4 DEF LinksAfterRelease
<1>5. CASE r["previous"] = None
  <2>1. Put(slots, s, "previous", None) = slots
    BY <1>1, <1>5, PutSame
  <2> QED
    BY <2>1, <1>2, <1>3, <1>5 DEF LinksAfterRelease
<1> QED
  BY <1>4, <1>5

\* Clearing pending_buffer without a word to its listener.
LEMMA SturdyDrop ==
  ASSUME TypeOK, Sturdy(links, hold, surfaces), NEW s \in Surface
  PROVE  /\ Sturdy(links, [hold EXCEPT ![s] = [hold[s] EXCEPT !.pending = None]], surfaces)
         /\ [hold[s] EXCEPT !.pending = None] \in [Slot -> Buffer \cup {None}]
<1>1. hold \in Slots /\ surfaces \in SUBSET Surface
  BY HoldType DEF TypeOK
<1>2. Put(hold, s, "pending", None) = [hold EXCEPT ![s] = [hold[s] EXCEPT !.pending = None]]
  BY <1>1 DEF Put, Slots
<1>3. Sturdy(links, Put(hold, s, "pending", None), surfaces)
  BY <1>1, SturdyForgets
<1> QED
  BY <1>1, <1>2, <1>3 DEF Slots, Slot

\* The latch of a commit, also of the current buffer a second time.
LEMMA SturdyLatch ==
  ASSUME TypeOK, Sturdy(links, hold, surfaces),
         NEW s \in Surface, hold[s].pending # None
  PROVE  /\ Sturdy(LatchedLinks(s), [hold EXCEPT ![s] = LatchedHold(s)], surfaces)
         /\ LatchedHold(s) \in [Slot -> Buffer \cup {None}]
<1>1. CASE hold[s].current # hold[s].pending
  <2>1. LatchedLinks(s) = RotatedLinks(s) /\ LatchedHold(s) = RotatedHold(s)
    BY <1>1 DEF LatchedLinks, LatchedHold
  <2>2. RotatedHold(s) \in [Slot -> Buffer \cup {None}]
    <3>1. hold[s] \in [{"pending", "current", "previous"} -> Buffer \cup {None}]
      BY DEF TypeOK, Slot
    <3>2. /\ hold[s].pending \in Buffer \cup {None}
          /\ hold[s].current \in Buffer \cup {None}
      BY <3>1
    <3> QED
      BY <3>1, <3>2 DEF RotatedHold, Slot
  <2>3. Sturdy(RotatedLinks(s), [hold EXCEPT ![s] = RotatedHold(s)], surfaces)
    BY SturdyRotation
  <2> QED
    BY <2>1, <2>2, <2>3
<1>2. CASE hold[s].current = hold[s].pending
  BY <1>2, SturdyDrop DEF LatchedLinks, LatchedHold
<1> QED
  BY <1>1, <1>2

---------------------------------------------------------------------------
\* Steps that leave the pointers and the lists alone.
LEMMA IntactKept ==
  ASSUME Intact, TypeOK', UNCHANGED <<surfaces, hold, links>>
  PROVE  Intact'
BY DEF Intact, Detached

\* Steps of a surface that exists, whose slots become r.
LEMMA IntactMoved ==
  ASSUME Intact, NEW s \in surfaces,
         NEW r \in [Slot -> Buffer \cup {None}],
         hold' = [hold EXCEPT ![s] = r],
         Sturdy(links', [hold EXCEPT ![s] = r], surfaces),
         UNCHANGED surfaces,
         TypeOK'
  PROVE  Intact'
<1>1. Detached'
  BY HoldType DEF Intact, Detached, Slots, TypeOK
<1>2. Sturdy(links', hold', surfaces')
  OBVIOUS
<1> QED
  BY <1>1, <1>2 DEF Intact

\* AnswerAll from slots r and lists h of s.
LEMMA IntactRelease ==
  ASSUME TypeOK, NEW s \in Surface, NEW h,
         NEW r \in [Slot -> Buffer \cup {None}], NEW inUse \in SUBSET Buffer,
         Sturdy(h, [hold EXCEPT ![s] = r], surfaces),
         AnswerAll(s, h, r, inUse)
  PROVE  /\ HoldAfterRelease(r) \in [Slot -> Buffer \cup {None}]
         /\ hold' = [hold EXCEPT ![s] = HoldAfterRelease(r)]
         /\ Sturdy(links', [hold EXCEPT ![s] = HoldAfterRelease(r)], surfaces)
         /\ links' \in Heap(Node, None)
         /\ hold' \in [Surface -> [Slot -> Buffer \cup {None}]]
         /\ frames' \in [Surface -> SUBSET Stage]
         /\ feedbacks' \in [Surface -> SUBSET Stage]
         /\ busy' \in [Surface -> SUBSET Buffer]
         /\ stranded' \subseteq Surface
<1>2. Sturdy(links', [hold EXCEPT ![s] = HoldAfterRelease(r)], surfaces)
  BY SturdyRelease DEF AnswerAll
<1>3. HoldAfterRelease(r) \in [Slot -> Buffer \cup {None}]
  BY DEF HoldAfterRelease, Slot
<1>4. /\ hold' = [hold EXCEPT ![s] = HoldAfterRelease(r)]
      /\ hold' \in [Surface -> [Slot -> Buffer \cup {None}]]
  BY <1>3 DEF AnswerAll, TypeOK
<1> QED
  BY <1>2, <1>3, <1>4 DEF AnswerAll, TypeOK, Sturdy

\* AnswerAll by a surface that exists, and what may go with it.
LEMMA IntactAnswered ==
  ASSUME Intact, NEW s \in surfaces, NEW h,
         NEW r \in [Slot -> Buffer \cup {None}], NEW inUse \in SUBSET Buffer,
         Sturdy(h, [hold EXCEPT ![s] = r], surfaces),
         AnswerAll(s, h, r, inUse),
         awaiting' \subseteq Surface, leaked' \subseteq Surface,
         window' \in [Surface -> {"none", "full", "bare"}],
         UNCHANGED <<surfaces, buffers, roles, parent, emitting>>
  PROVE  Intact'
<1>1. TypeOK /\ s \in Surface
  BY DEF Intact, TypeOK
<1> DEFINE q == HoldAfterRelease(r)
<1>2. /\ q \in [Slot -> Buffer \cup {None}]
      /\ hold' = [hold EXCEPT ![s] = q]
      /\ Sturdy(links', [hold EXCEPT ![s] = q], surfaces)
      /\ links' \in Heap(Node, None)
      /\ hold' \in [Surface -> [Slot -> Buffer \cup {None}]]
      /\ frames' \in [Surface -> SUBSET Stage]
      /\ feedbacks' \in [Surface -> SUBSET Stage]
      /\ busy' \in [Surface -> SUBSET Buffer]
      /\ stranded' \subseteq Surface
  BY <1>1, IntactRelease
<1>3. TypeOK'
  BY <1>1, <1>2 DEF TypeOK
<1> HIDE DEF q
<1> QED
  BY <1>2, <1>3, IntactMoved

---------------------------------------------------------------------------
\* Creating and destroying surfaces and buffers, also in corrupted lists.
LEMMA IntactLifecycle == Intact /\ Lifecycle => Intact'
<1> SUFFICES ASSUME Intact, Lifecycle PROVE Intact'
  OBVIOUS
<1>0. /\ TypeOK /\ Detached /\ Sturdy(links, hold, surfaces)
      /\ hold \in Slots /\ surfaces \in SUBSET Surface
      /\ "previous" \in Slot /\ "current" \in Slot /\ "pending" \in Slot
      /\ "previous" # "pending" /\ "current" # "pending"
  BY HoldType DEF Intact, TypeOK, Slot
<1>1. ASSUME NEW s \in Surface, CreateSurface(s) PROVE Intact'
  <2> DEFINE h1 == ListInit(links, <<s, "previous">>)
             h2 == ListInit(h1, <<s, "current">>)
             h3 == ListInit(h2, <<s, "pending">>)
  <2>1. hold[s] = NoHold /\ hold' = hold /\ \A k \in Slot : hold[s][k] = None
    BY <1>0, <1>1 DEF Detached, CreateSurface, Slots, NoHold
  <2>2. Sturdy(h1, hold, surfaces)
    BY <1>0, <2>1, SturdyInit
  <2>3. Sturdy(h2, hold, surfaces)
    <3> HIDE DEF h1
    <3> QED
      BY <1>0, <2>1, <2>2, SturdyInit
  <2>4. Sturdy(h3, hold, surfaces \cup {s})
    <3> HIDE DEF h2
    <3> QED
      BY <1>0, <2>1, <2>3, SturdyInit
  <2>5. links' = h3 /\ surfaces' = surfaces \cup {s}
    BY <1>1 DEF CreateSurface
  <2> HIDE DEF h3
  <2>6. TypeOK'
    BY <1>0, <1>1, <2>1, <2>4, <2>5 DEF CreateSurface, TypeOK, Sturdy, due
  <2>7. Detached'
    BY <1>0, <2>1, <2>5 DEF Detached
  <2> QED
    BY <2>1, <2>4, <2>5, <2>6, <2>7 DEF Intact
<1>2. ASSUME NEW s \in Surface, DestroySurface(s) PROVE Intact'
  <2> DEFINE h1 == Removed(links, s, "previous")
             s1 == Put(hold, s, "previous", None)
             h2 == Removed(h1, s, "current")
             s2 == Put(s1, s, "current", None)
             h3 == Removed(h2, s, "pending")
             s3 == Put(s2, s, "pending", None)
             S  == surfaces \ {s}
  <2>1. S \in SUBSET Surface /\ s \notin S /\ Sturdy(links, hold, S)
    BY <1>0, SturdyFewer
  <2> HIDE DEF S
  <2>2. /\ s1 \in Slots
        /\ s1[s]["current"] = hold[s]["current"]
        /\ s1[s]["pending"] = hold[s]["pending"]
    BY <1>0, PutType
  <2>3. s2 \in Slots /\ s2[s]["pending"] = hold[s]["pending"]
    <3> HIDE DEF s1
    <3> QED
      BY <1>0, <2>2 DEF Put, Slots, Slot
  <2>4. Sturdy(h1, s1, S)
    BY <1>0, <2>1, SturdyRemove, PutSame DEF Removed
  <2>5. Sturdy(h2, s2, S)
    <3> HIDE DEF h1, s1
    <3> QED
      BY <1>0, <2>1, <2>2, <2>4, SturdyRemove, PutSame DEF Removed
  <2>6. Sturdy(h3, s3, S)
    <3> HIDE DEF h2, s2
    <3> QED
      BY <1>0, <2>1, <2>3, <2>5, SturdyRemove, PutSame DEF Removed
  <2>7. s3 = [hold EXCEPT ![s] = NoHold]
    BY <1>0 DEF Put, NoHold, Slots, Slot
  <2>8. links' = h3 /\ hold' = s3 /\ surfaces' = S
    BY <2>7, <1>2 DEF DestroySurface, LinksAfterDestroy, S
  <2>9. hold' = [hold EXCEPT ![s] = NoHold] /\ NoHold \in [Slot -> Buffer \cup {None}]
    BY <2>7, <2>8 DEF NoHold
  <2> HIDE DEF h3, s3
  <2>10. Sturdy(links', hold', surfaces')
    BY <2>6, <2>8
  <2>11. TypeOK'
    BY <1>0, <1>2, <2>9, <2>10 DEF DestroySurface, TypeOK, Sturdy
  <2>12. Detached'
    BY <1>0, <2>8, <2>9 DEF Detached, Slots, S
  <2> QED
    BY <2>10, <2>11, <2>12 DEF Intact
<1>3. ASSUME NEW b \in Buffer, CreateBuffer(b) PROVE Intact'
  <2> DEFINE g == ListInit(links, b)
  <2>1. b \in Node /\ b \notin Steady /\ b \notin Listener
    BY NodeFacts
  <2>2. /\ g \in Heap(Node, None) /\ Mutual(g) /\ KeepsOthers(links, g, b)
        /\ g.prv[b] # None
    BY <1>0, <2>1, InitLoose DEF Sturdy
  <2> HIDE DEF g
  <2>3. \A x \in Steady : hold[x[1]][x[2]] = None => Loose(g, x)
    BY <1>0, <2>1, <2>2 DEF KeepsOthers, Sturdy
  <2>4. \A c \in Buffer : g.prv[c] # None
    BY <1>0, <2>2, NodeFacts DEF KeepsOthers, Sturdy
  <2>5. \A x \in Listener : links.prv[x] # None => g.prv[x] # None
    BY <2>1, <2>2, NodeFacts DEF KeepsOthers
  <2>6. \A s \in surfaces : <<s, "pending">> \in Listener
    BY <1>0 DEF Listener
  <2>7. Sturdy(g, hold, surfaces)
    BY <1>0, <2>2, <2>3, <2>4, <2>5, <2>6 DEF Sturdy
  <2>8. links' = g /\ UNCHANGED <<hold, surfaces>>
    BY <1>3 DEF CreateBuffer, g
  <2>9. TypeOK'
    BY <1>0, <1>3, <2>2, <2>8 DEF CreateBuffer, TypeOK, owed, due
  <2> QED
    BY <1>0, <2>7, <2>8, <2>9 DEF Intact, Detached
<1>4. ASSUME NEW b \in Buffer, DestroyBuffer(b) PROVE Intact'
  <2>1. TypeOK' /\ UNCHANGED <<surfaces, hold, links>>
    BY <1>0, <1>4 DEF DestroyBuffer, TypeOK, owed, due, scene, held
  <2> QED
    BY <2>1, IntactKept
<1>5. ASSUME NotifyDestroy PROVE Intact'
  <2>1. PICK s \in surfaces, k \in Slot : links.nxt[emitting] = <<s, k>>
    BY <1>5 DEF NotifyDestroy, Listener
  <2>2. /\ s \in Surface /\ emitting \in Buffer /\ emitting \in Node
        /\ emitting # <<s, k>>
        /\ <<s, k>> \in Listener
        /\ <<s, k>> \in Steady <=> k # "pending"
    BY <1>0, <1>5, SlotIsNode, NodeFacts DEF NotifyDestroy, TypeOK
  <2>3. links.prv[<<s, k>>] # None
    <3>1. CASE k = "pending"
      BY <1>0, <3>1 DEF Sturdy
    <3>2. CASE k # "pending"
      <4>1. links.prv[<<s, k>>] = emitting
        BY <1>0, <2>1, <2>2, <3>2 DEF Sturdy, Mutual
      <4> QED
        BY <2>2, <4>1, NodeFacts
    <3> QED
      BY <3>1, <3>2
  <2>4. Sturdy(ListUnlink(links, <<s, k>>, None), Put(hold, s, k, None), surfaces)
    BY <1>0, <2>2, <2>3, SturdyUnlink
  <2>5. /\ links' = ListUnlink(links, <<s, k>>, None)
        /\ UNCHANGED surfaces
    BY <1>5, <2>1 DEF NotifyDestroy, scene
  <2>6. hold' = Put(hold, s, k, None)
    BY <1>5, <2>1 DEF NotifyDestroy, Put
  <2>7. /\ hold' \in Slots
        /\ \A t \in Surface : t # s => hold'[t] = hold[t]
    BY <1>0, <2>2, <2>6 DEF Put, Slots
  <2>8. Sturdy(links', hold', surfaces')
    BY <2>4, <2>5, <2>6
  <2>9. TypeOK'
    BY <1>0, <1>5, <2>7, <2>8 DEF NotifyDestroy, TypeOK, Sturdy, Slots, owed, due, scene
  <2>10. Detached'
    BY <1>0, <2>5, <2>7 DEF Detached
  <2> QED
    BY <2>8, <2>9, <2>10 DEF Intact
<1>6. ASSUME FreeBuffer PROVE Intact'
  <2>1. TypeOK' /\ UNCHANGED <<surfaces, hold, links>>
    BY <1>0, <1>6 DEF FreeBuffer, TypeOK, due, held
  <2> QED
    BY <2>1, IntactKept
<1> QED
  BY <1>1, <1>2, <1>3, <1>4, <1>5, <1>6 DEF Lifecycle

\* Role objects never touch the buffer pointers.
LEMMA IntactRoles == Intact /\ Roles => Intact'
<1> SUFFICES ASSUME Intact, NEW s \in Surface,
                    \/ GetXdgSurface(s) \/ XdgSurfaceDestroy(s)
                    \/ GetToplevel(s) \/ GetPopup(s) \/ PopupDestroy(s)
                    \/ \E p \in Surface \ {s} : GetSubsurface(s, p)
                    \/ SubsurfaceDestroy(s)
             PROVE  Intact'
  BY DEF Roles
<1>1. CASE GetXdgSurface(s)
  BY <1>1, IntactKept DEF Intact, GetXdgSurface, TypeOK, held, owed, due
<1>2. CASE XdgSurfaceDestroy(s)
  BY <1>2, IntactKept DEF Intact, XdgSurfaceDestroy, TypeOK, held, owed, due
<1>3. CASE GetToplevel(s)
  BY <1>3, IntactKept DEF Intact, GetToplevel, StrandIfDue, TypeOK, scene, held
<1>4. CASE GetPopup(s)
  BY <1>4, IntactKept DEF Intact, GetPopup, StrandIfDue, TypeOK, held
<1>5. CASE PopupDestroy(s)
  BY <1>5, IntactKept DEF Intact, PopupDestroy, StrandIfDue, TypeOK, held
<1>6. CASE \E p \in Surface \ {s} : GetSubsurface(s, p)
  BY <1>6, IntactKept DEF Intact, GetSubsurface, TypeOK, held, owed, due
<1>7. CASE SubsurfaceDestroy(s)
  BY <1>7, IntactKept DEF Intact, SubsurfaceDestroy, TypeOK, held, owed, due
<1> QED
  BY <1>1, <1>2, <1>3, <1>4, <1>5, <1>6, <1>7

\* Requests on wl_surface, with the exits of commit that leak.
LEMMA IntactRequests == Intact /\ Requests => Intact'
<1> SUFFICES ASSUME Intact, NEW s \in Surface,
                    \/ \E b \in Buffer : Attach(s, b)
                    \/ AttachNull(s)
                    \/ Frame(s)
                    \/ RequestFeedback(s)
                    \/ CommitParentNotReady(s)
                    \/ CommitNoBuffer(s)
                    \/ \E w \in {"full", "bare"} :
                         CommitShown(s, w) \/ CommitNotShown(s, w) \/ CommitAbandoned(s, w)
                    \/ CommitUnknownType(s)
             PROVE  Intact'
  BY DEF Requests
<1>0. /\ TypeOK /\ Detached /\ Sturdy(links, hold, surfaces)
      /\ hold \in Slots /\ surfaces \in SUBSET Surface
      /\ hold[s] \in [Slot -> Buffer \cup {None}]
      /\ [hold EXCEPT ![s] = hold[s]] = hold
      /\ busy[s] \in SUBSET Buffer
      /\ "pending" \in Slot
  BY HoldType DEF Intact, TypeOK, Slot
<1>1. ASSUME NEW b \in Buffer, Attach(s, b) PROVE Intact'
  <2> DEFINE dropped == LetGoPending(s)
             s1 == Put(hold, s, "pending", None)
             r  == [hold[s] EXCEPT !["pending"] = b]
  <2>1. Sturdy(dropped, s1, surfaces)
    BY <1>0, SturdyHeld, PutSame DEF LetGoPending
  <2>2. s1 \in Slots /\ s1[s]["pending"] = None
    BY <1>0, PutType
  <2>3. s \in surfaces
    BY <1>1 DEF Attach, Serving
  <2>4. Sturdy(AddListener(dropped, b, <<s, "pending">>), Put(s1, s, "pending", b), surfaces)
    <3> HIDE DEF dropped, s1
    <3> QED
      BY <1>0, <2>1, <2>2, SturdyListens
  <2>5. Put(s1, s, "pending", b) = [hold EXCEPT ![s] = r]
    BY <1>0 DEF Put, Slots
  <2>6. Sturdy(links', [hold EXCEPT ![s] = r], surfaces)
    BY <1>1, <2>4, <2>5 DEF Attach
  <2>7. hold' = [hold EXCEPT ![s] = r] /\ r \in [Slot -> Buffer \cup {None}]
    BY <1>0, <1>1 DEF Attach, Slots
  <2>8. TypeOK' /\ UNCHANGED surfaces
    <3>1. /\ hold' \in [Surface -> [Slot -> Buffer \cup {None}]]
          /\ links' \in Heap(Node, None)
      BY <1>0, <2>6, <2>7 DEF TypeOK, Sturdy
    <3> QED
      BY <1>0, <1>1, <3>1 DEF Attach, TypeOK, scene, owed, due
  <2> QED
    BY <2>3, <2>6, <2>7, <2>8, IntactMoved
<1>2. CASE AttachNull(s)
  <2> DEFINE r == [hold[s] EXCEPT !["pending"] = None]
  <2>1. Sturdy(ListUnlink(links, <<s, "pending">>, None), Put(hold, s, "pending", None), surfaces)
    BY <1>0, <1>2, SturdyHeld DEF AttachNull
  <2>2. Put(hold, s, "pending", None) = [hold EXCEPT ![s] = r]
    BY <1>0 DEF Put, Slots
  <2>3. Sturdy(links', [hold EXCEPT ![s] = r], surfaces)
    BY <1>2, <2>1, <2>2 DEF AttachNull, LetGoPending
  <2>4. hold' = [hold EXCEPT ![s] = r] /\ r \in [Slot -> Buffer \cup {None}]
    BY <1>0, <1>2 DEF AttachNull, Slots
  <2>5. TypeOK' /\ UNCHANGED surfaces /\ s \in surfaces
    <3>1. /\ hold' \in [Surface -> [Slot -> Buffer \cup {None}]]
          /\ links' \in Heap(Node, None)
      BY <1>0, <2>3, <2>4 DEF TypeOK, Sturdy
    <3> QED
      BY <1>0, <1>2, <3>1 DEF AttachNull, Serving, TypeOK, scene, owed, due
  <2> QED
    BY <2>3, <2>4, <2>5, IntactMoved
<1>3. CASE Frame(s)
  BY <1>0, <1>3, IntactKept DEF Frame, TypeOK, Stage, scene, held
<1>4. CASE RequestFeedback(s)
  BY <1>0, <1>4, IntactKept DEF RequestFeedback, TypeOK, Stage, scene, held
<1>5. CASE CommitParentNotReady(s)
  BY <1>0, <1>5, IntactKept DEF CommitParentNotReady, TypeOK, scene, held
<1>6. CASE CommitNoBuffer(s)
  <2>1. CASE hold[s].current = None
    <3>1. TypeOK' /\ UNCHANGED <<surfaces, hold, links>>
      BY <1>0, <1>6, <2>1 DEF CommitNoBuffer, TypeOK, scene, held
    <3> QED
      BY <3>1, IntactKept
  <2>2. CASE hold[s].current # None
    <3>1. /\ AnswerAll(s, links, hold[s], busy[s])
          /\ UNCHANGED <<surfaces, buffers, roles, parent, emitting, window, awaiting, leaked>>
          /\ s \in surfaces
      BY <1>6, <2>2 DEF CommitNoBuffer, CommitProceeds, Serving, scene
    <3>2. /\ awaiting' \subseteq Surface /\ leaked' \subseteq Surface
          /\ window' \in [Surface -> {"none", "full", "bare"}]
      BY <1>0, <3>1 DEF TypeOK
    <3> QED
      BY <1>0, <3>1, <3>2, IntactAnswered
  <2> QED
    BY <2>1, <2>2
<1>7. ASSUME NEW w \in {"full", "bare"}, CommitShown(s, w) PROVE Intact'
  <2>1. hold[s].pending # None /\ s \in surfaces
    BY <1>7 DEF CommitShown, CommitProceeds, Serving
  <2>2. /\ Sturdy(LatchedLinks(s), [hold EXCEPT ![s] = LatchedHold(s)], surfaces)
        /\ LatchedHold(s) \in [Slot -> Buffer \cup {None}]
    BY <1>0, <2>1, SturdyLatch
  <2>3. /\ hold' = [hold EXCEPT ![s] = LatchedHold(s)]
        /\ links' = LatchedLinks(s)
        /\ UNCHANGED surfaces
    BY <1>7 DEF CommitShown, scene
  <2>4. TypeOK'
    <3>1. hold' \in [Surface -> [Slot -> Buffer \cup {None}]] /\ links' \in Heap(Node, None)
      BY <1>0, <2>2, <2>3 DEF TypeOK, Sturdy
    <3>2. busy' \in [Surface -> SUBSET Buffer] /\ leaked' \subseteq Surface
      BY <1>0, <1>7 DEF CommitShown, TypeOK, LeakedByLatch
    <3> QED
      BY <1>0, <1>7, <3>1, <3>2 DEF CommitShown, TypeOK, Arm, Stage, scene
  <2> QED
    BY <2>1, <2>2, <2>3, <2>4, IntactMoved
<1>8. ASSUME NEW w \in {"full", "bare"}, CommitNotShown(s, w) PROVE Intact'
  <2> DEFINE inUse == (busy[s] \cup {hold[s].pending}) \ ReleasedByLatch(s)
             r == LatchedHold(s)
             h == LatchedLinks(s)
  <2>1. hold[s].pending # None /\ s \in surfaces
    BY <1>8 DEF CommitNotShown, CommitProceeds, Serving
  <2>2. Sturdy(h, [hold EXCEPT ![s] = r], surfaces) /\ r \in [Slot -> Buffer \cup {None}]
    BY <1>0, <2>1, SturdyLatch
  <2>3. /\ AnswerAll(s, h, r, inUse)
        /\ inUse \in SUBSET Buffer
        /\ window' \in [Surface -> {"none", "full", "bare"}]
        /\ leaked' \subseteq Surface /\ awaiting' \subseteq Surface
        /\ UNCHANGED <<surfaces, buffers, roles, parent, emitting>>
    BY <1>0, <1>8, <2>1 DEF CommitNotShown, TypeOK, scene, LeakedByLatch
  <2> HIDE DEF inUse, r, h
  <2> QED
    BY <1>0, <2>1, <2>2, <2>3, IntactAnswered
<1>9. ASSUME NEW w \in {"full", "bare"}, CommitAbandoned(s, w) PROVE Intact'
  <2> DEFINE r == [hold[s] EXCEPT !.pending = None]
  <2>1. Sturdy(links, [hold EXCEPT ![s] = r], surfaces) /\ r \in [Slot -> Buffer \cup {None}]
    BY <1>0, SturdyDrop
  <2>2. hold' = [hold EXCEPT ![s] = r] /\ UNCHANGED <<links, surfaces>> /\ s \in surfaces
    BY <1>0, <1>9 DEF CommitAbandoned, CommitProceeds, Serving, scene, Slots
  <2>3. TypeOK'
    <3>1. hold' \in [Surface -> [Slot -> Buffer \cup {None}]]
      BY <1>0, <2>1, <2>2 DEF TypeOK
    <3>2. busy' \in [Surface -> SUBSET Buffer]
      BY <1>0, <1>9 DEF CommitAbandoned, TypeOK
    <3> QED
      BY <1>0, <1>9, <2>2, <3>1, <3>2 DEF CommitAbandoned, TypeOK, Arm, Stage, scene
  <2> HIDE DEF r
  <2> QED
    BY <2>1, <2>2, <2>3, IntactMoved
<1>10. CASE CommitUnknownType(s)
  <2> DEFINE r == [hold[s] EXCEPT !.pending = None]
             inUse == busy[s] \cup {hold[s].pending}
  <2>1. Sturdy(links, [hold EXCEPT ![s] = r], surfaces) /\ r \in [Slot -> Buffer \cup {None}]
    BY <1>0, SturdyDrop
  <2>2. /\ inUse \in SUBSET Buffer /\ s \in surfaces
        /\ awaiting' \subseteq Surface /\ leaked' \subseteq Surface
        /\ window' \in [Surface -> {"none", "full", "bare"}]
        /\ UNCHANGED <<surfaces, buffers, roles, parent, emitting, window, awaiting>>
    BY <1>0, <1>10 DEF CommitUnknownType, CommitProceeds, Serving, TypeOK, scene
  <2>3. CASE AnswerAll(s, links, r, inUse)
    <3> HIDE DEF r, inUse
    <3> QED
      BY <2>1, <2>2, <2>3, IntactAnswered
  <2>4. CASE /\ frames' = [frames EXCEPT ![s] = {}]
             /\ hold' = [hold EXCEPT ![s] = r]
             /\ busy' = [busy EXCEPT ![s] = inUse]
             /\ UNCHANGED <<links, feedbacks, stranded>>
    <3> HIDE DEF r, inUse
    <3>1. TypeOK'
      BY <1>0, <2>1, <2>2, <2>4 DEF TypeOK
    <3> QED
      BY <2>1, <2>2, <2>4, <3>1, IntactMoved
  <2> QED
    BY <1>10, <2>3, <2>4 DEF CommitUnknownType
<1> QED
  BY <1>1, <1>2, <1>3, <1>4, <1>5, <1>6, <1>7, <1>8, <1>9, <1>10

\* Plexy's frame_done.
LEMMA IntactFrameDone == ASSUME Intact, NEW s \in Surface, FrameDone(s) PROVE Intact'
<1>1. /\ AnswerAll(s, links, hold[s], busy[s])
      /\ awaiting' \subseteq Surface /\ leaked' \subseteq Surface
      /\ window' \in [Surface -> {"none", "full", "bare"}]
      /\ UNCHANGED <<surfaces, buffers, roles, parent, emitting>>
      /\ s \in surfaces
      /\ hold[s] \in [Slot -> Buffer \cup {None}]
      /\ busy[s] \in SUBSET Buffer
  BY DEF Intact, FrameDone, scene, TypeOK, Serving
<1>2. Sturdy(links, [hold EXCEPT ![s] = hold[s]], surfaces)
  BY DEF Intact, TypeOK
<1> QED
  BY <1>1, <1>2, IntactAnswered

\* In the initial state every list is empty.
LEMMA IntactInit == Init => Intact
<1> SUFFICES ASSUME Init PROVE Intact
  OBVIOUS
<1>1. hold \in Slots /\ \A s \in Surface, k \in Slot : hold[s][k] = None
  BY DEF Init, NoHold, Slots
<1>2. links \in Heap(Node, None) /\ \A n \in Node : links.nxt[n] = n /\ links.prv[n] = n
  BY DEF Init, Heap
<1>3. TypeOK
  BY <1>1, <1>2 DEF Init, TypeOK, Slots, Stage
<1>4. Sturdy(links, hold, surfaces)
  <2>1. Mutual(links) /\ \A x \in Steady : Loose(links, x)
    BY <1>2, NodeFacts DEF Mutual, Loose
  <2>2. \A n \in Node : links.prv[n] # None
    BY <1>2, NodeFacts
  <2>3. \A x \in Listener : hold[x[1]][x[2]] = None
    BY <1>1 DEF Listener
  <2> QED
    BY <1>2, <2>1, <2>2, <2>3, NodeFacts DEF Sturdy, Init
<1> QED
  BY <1>1, <1>3, <1>4 DEF Intact, Detached, Init

\* Every step keeps what a leak cannot break.
LEMMA IntactNext == Intact /\ [Next]_vars => Intact'
<1> SUFFICES ASSUME Intact, [Next]_vars PROVE Intact'
  OBVIOUS
<1>1. CASE Lifecycle
  BY <1>1, IntactLifecycle
<1>2. CASE Roles
  BY <1>2, IntactRoles
<1>3. CASE Requests
  BY <1>3, IntactRequests
<1>4. CASE \E s \in Surface : FrameDone(s)
  BY <1>4, IntactFrameDone
<1>5. CASE UNCHANGED vars
  <2>1. TypeOK' /\ UNCHANGED <<surfaces, hold, links>>
    BY <1>5 DEF Intact, TypeOK, vars
  <2> QED
    BY <2>1, IntactKept
<1> QED
  BY <1>1, <1>2, <1>3, <1>4, <1>5 DEF Next

\* What a leak cannot break is never broken, for every choice of the
\* constants, whichever exits commit takes.
THEOREM StaysIntact == Spec => []Intact
<1> QED
  BY IntactInit, IntactNext, PTL DEF Spec

\* The state of the bridge keeps its type, whatever has leaked: insertions
\* and removals find the nodes whose pointers they follow.
THEOREM TypeCorrect == Spec => []TypeOK
<1>1. Intact => TypeOK
  BY DEF Intact
<1> QED
  BY <1>1, StaysIntact, PTL

---------------------------------------------------------------------------
(***************************************************************************)
(* The bridge with the environment and the outcomes that take none of the  *)
(* leaking exits.                                                          *)
(***************************************************************************)
NoLeakingExit ==
  /\ Outcomes \subseteq {"shown", "not_shown"}
  /\ "current" \notin Reuse

\* No leaking exit, and no reuse of a current buffer: nothing ever leaks.
LEMMA NothingLeaks ==
  ASSUME NoLeakingExit
  PROVE  Spec => [](leaked = {} /\ Sound /\ Fresh)
<1> DEFINE Inv == leaked = {} /\ Sound /\ Fresh
<1>1. Init => Inv
  <2> SUFFICES ASSUME Init PROVE leaked = {} /\ Fresh
    BY SoundInit
  <2> QED
    BY DEF Init, Fresh, NoHold, Slot
<1>2. Inv /\ [Next]_vars => Inv'
  <2> SUFFICES ASSUME Inv, [Next]_vars PROVE leaked' = {} /\ Fresh'
    BY SoundNext
  <2>0. hold \in Slots /\ {"pending", "current", "previous"} = Slot /\ TypeOK
    BY GoodIsSound, HoldType DEF Good, Slot
  <2>1. CASE Lifecycle
    <3>1. ASSUME NEW s \in Surface, CreateSurface(s) \/ DestroySurface(s)
          PROVE  leaked' = {} /\ Fresh'
      BY <2>0, <3>1 DEF CreateSurface, DestroySurface, Fresh, NoHold, Slots
    <3>2. ASSUME NEW b \in Buffer, CreateBuffer(b) \/ DestroyBuffer(b)
          PROVE  leaked' = {} /\ Fresh'
      BY <3>2 DEF CreateBuffer, DestroyBuffer, Fresh, held, owed
    <3>3. CASE NotifyDestroy
      <4>1. PICK s \in Surface, k \in Slot :
              /\ hold' = [hold EXCEPT ![s] = [@ EXCEPT ![k] = None]]
              /\ leaked' = leaked
        BY <3>3, <2>0 DEF NotifyDestroy, Listener, owed
      <4> QED
        BY <2>0, <4>1 DEF Fresh, Slots
    <3>4. CASE FreeBuffer
      BY <3>4 DEF FreeBuffer, Fresh, held
    <3> QED
      BY <2>1, <3>1, <3>2, <3>3, <3>4 DEF Lifecycle
  <2>2. CASE Roles
    BY <2>2 DEF Roles, GetXdgSurface, XdgSurfaceDestroy, GetToplevel, GetPopup,
                PopupDestroy, GetSubsurface, SubsurfaceDestroy, Fresh, held, owed
  <2>3. CASE Requests
    <3> SUFFICES ASSUME NEW s \in Surface,
                        \/ \E b \in Buffer : Attach(s, b)
                        \/ AttachNull(s)
                        \/ Frame(s)
                        \/ RequestFeedback(s)
                        \/ CommitParentNotReady(s)
                        \/ CommitNoBuffer(s)
                        \/ \E w \in {"full", "bare"} :
                             CommitShown(s, w) \/ CommitNotShown(s, w) \/ CommitAbandoned(s, w)
                        \/ CommitUnknownType(s)
                 PROVE  leaked' = {} /\ Fresh'
      BY <2>3 DEF Requests
    <3>1. ASSUME NEW b \in Buffer, Attach(s, b) PROVE leaked' = {} /\ Fresh'
      <4>1. b # hold[s].current
        BY <3>1 DEF Attach, MayAttach, NoLeakingExit
      <4> QED
        BY <2>0, <3>1, <4>1 DEF Attach, Fresh, Slots, owed
    <3>2. CASE AttachNull(s)
      BY <2>0, <3>2 DEF AttachNull, Fresh, Slots, owed
    <3>3. CASE Frame(s) \/ RequestFeedback(s) \/ CommitParentNotReady(s)
      BY <3>3 DEF Frame, RequestFeedback, CommitParentNotReady, Fresh, held
    <3>4. CASE CommitNoBuffer(s)
      <4>1. leaked' = {} /\ (hold' = hold \/ hold' = [hold EXCEPT ![s] = HoldAfterRelease(hold[s])])
        BY <3>4 DEF CommitNoBuffer, AnswerAll, held
      <4> QED
        BY <2>0, <4>1 DEF HoldAfterRelease, Fresh, Slots
    <3>5. ASSUME NEW w \in {"full", "bare"},
                 CommitShown(s, w) \/ CommitNotShown(s, w)
          PROVE  leaked' = {} /\ Fresh'
      <4>1. hold[s].pending # None /\ hold[s].pending # hold[s].current
        BY <3>5 DEF CommitShown, CommitNotShown, Fresh
      <4>2. LeakedByLatch(s) = {} /\ LatchedHold(s) = RotatedHold(s)
        BY <4>1 DEF LeakedByLatch, LatchedHold
      <4>3. /\ leaked' = {}
            /\ \/ hold' = [hold EXCEPT ![s] = RotatedHold(s)]
               \/ hold' = [hold EXCEPT ![s] = HoldAfterRelease(RotatedHold(s))]
        BY <3>5, <4>2 DEF CommitShown, CommitNotShown, AnswerAll
      <4> QED
        BY <2>0, <4>3 DEF RotatedHold, HoldAfterRelease, Fresh, Slots
    <3>6. ASSUME NEW w \in {"full", "bare"}, CommitAbandoned(s, w) PROVE FALSE
      BY <3>6 DEF CommitAbandoned, NoLeakingExit
    <3>7. CASE CommitUnknownType(s)
      BY <3>7 DEF CommitUnknownType, NoLeakingExit
    <3> QED
      BY <3>1, <3>2, <3>3, <3>4, <3>5, <3>6, <3>7
  <2>4. CASE \E s \in Surface : FrameDone(s)
    <3>1. PICK s \in Surface : /\ leaked' = {}
                               /\ hold' = [hold EXCEPT ![s] = HoldAfterRelease(hold[s])]
      BY <2>4 DEF FrameDone, AnswerAll
    <3> QED
      BY <2>0, <3>1 DEF HoldAfterRelease, Fresh, Slots
  <2>5. CASE UNCHANGED vars
    BY <2>5 DEF vars, Fresh
  <2> QED
    BY <2>1, <2>2, <2>3, <2>4, <2>5 DEF Next
<1> QED
  BY <1>1, <1>2, PTL DEF Spec

\* Without the leaking exits no surface ever points to a freed buffer: no
\* release goes to a resource that is gone.
THEOREM NoDanglingBuffer == ASSUME NoLeakingExit PROVE Spec => []HeldBuffersExist
<1>1. leaked = {} /\ Sound /\ Fresh => HeldBuffersExist
  BY DEF Sound
<1> QED
  BY <1>1, NothingLeaks, PTL

\* Without the leaking exits a destroy signal only ever notifies slots that
\* hold the buffer being destroyed, of surfaces that exist.
THEOREM NotificationsAreTrue ==
  ASSUME NoLeakingExit PROVE Spec => []NotifiedSlotHoldsBuffer
<1>1. leaked = {} /\ Sound /\ Fresh => NotifiedSlotHoldsBuffer
  <2> SUFFICES ASSUME leaked = {}, Sound, emitting # None,
                      NEW s \in Surface, NEW k \in Slot,
                      links.nxt[emitting] = <<s, k>>
               PROVE  s \in surfaces /\ hold[s][k] = emitting
    BY DEF NotifiedSlotHoldsBuffer, Listener
  <2>1. Good
    BY GoodIsSound
  <2>2. /\ emitting \in Node /\ Home[emitting] = emitting
        /\ Home[<<s, k>>] = hold[s][k]
        /\ DOMAIN Home = Node
        /\ Rings(links, Home, None)
    BY <2>1, GoodHome DEF Good, EmittingExists, TypeOK, WellLinked
  <2>3. hold[s][k] = emitting
    BY <2>2 DEF Rings
  <2>4. s \in surfaces
    BY <2>1, <2>3 DEF Good, Detached, NoHold
  <2> QED
    BY <2>3, <2>4
<1> QED
  BY <1>1, NothingLeaks, PTL
===========================================================================
