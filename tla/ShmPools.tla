------------------------------ MODULE ShmPools ------------------------------
(***************************************************************************)
(* Shared memory pools and their buffers (wl_shm.c).  A pool is mapped as  *)
(* long as its wl_shm_pool or one of its buffers refers to it, grows and   *)
(* never shrinks, and every buffer cut from it lies inside.                *)
(*                                                                         *)
(* Left out: clients that keep to no rule and are cut off by an error,     *)
(* memory that runs out, seals, and formats beyond their size in bytes.    *)
(* The arithmetic of validate_bounds is in 64 bits and cannot overflow.    *)
(***************************************************************************)
EXTENDS Integers, FiniteSets

CONSTANTS
  Pool, PoolBuffer,  \* addresses of bridge_shm_pool and bridge_shm_buffer
  PoolSize,          \* sizes a client asks for
  Offset, Extent, Stride, PixelBytes,
  NoPool

ASSUME ShmAssumption ==
  /\ NoPool \notin Pool /\ IsFiniteSet(PoolBuffer)
  /\ PoolSize \subseteq Nat \ {0} /\ PixelBytes \subseteq Nat \ {0}
  /\ Offset \subseteq Int /\ Extent \subseteq Nat \ {0} /\ Stride \subseteq Nat \ {0}

VARIABLES
  wl_shm_pool,  \* pools whose resource lives
  ref_count,    \* of each pool, 0: freed
  size,         \* mapped size of each pool, 0: not mapped
  bufferPool,   \* the pool of each buffer, NoPool: no such buffer
  geometry      \* offset, width, height, stride and pixel size of each buffer

shmVars == <<wl_shm_pool, ref_count, size, bufferPool, geometry>>

Geometry == [offset : Offset, width : Extent, height : Extent, stride : Stride,
             bytes : PixelBytes]

ASSUME NoGeometry == NoPool \notin Geometry

ShmTypeOK ==
  /\ wl_shm_pool \subseteq Pool
  /\ ref_count \in [Pool -> Nat] /\ size \in [Pool -> PoolSize \cup {0}]
  /\ bufferPool \in [PoolBuffer -> Pool \cup {NoPool}]
  /\ geometry \in [PoolBuffer -> Geometry \cup {NoPool}]
  /\ \A b \in PoolBuffer : bufferPool[b] = NoPool <=> geometry[b] = NoPool

ShmInit ==
  /\ wl_shm_pool = {}
  /\ ref_count = [p \in Pool |-> 0] /\ size = [p \in Pool |-> 0]
  /\ bufferPool = [b \in PoolBuffer |-> NoPool]
  /\ geometry = [b \in PoolBuffer |-> NoPool]

---------------------------------------------------------------------------
\* validate_bounds: the end of the last row, where strides may be shorter
\* than rows.
WithinBounds(g, limit) ==
  /\ g.offset >= 0
  /\ g.offset + g.stride * (g.height - 1) + g.bytes * g.width <= limit

\* pool_unref unmaps the pool with the last reference.
Unref_Early(p) ==
  /\ ref_count' = [ref_count EXCEPT ![p] = @ - 1]
  /\ size' = [size EXCEPT ![p] = IF ref_count[p] <= 2 THEN 0 ELSE @]

Unref(p) ==
  /\ ref_count' = [ref_count EXCEPT ![p] = @ - 1]
  /\ size' = [size EXCEPT ![p] = IF ref_count[p] <= 1 THEN 0 ELSE @]

\* shm_create_pool
CreatePool(p, n) ==
  /\ ref_count[p] = 0
  /\ wl_shm_pool' = wl_shm_pool \cup {p}
  /\ ref_count' = [ref_count EXCEPT ![p] = 1]
  /\ size' = [size EXCEPT ![p] = n]
  /\ UNCHANGED <<bufferPool, geometry>>

\* shm_pool_create_buffer
CutBuffer(b, p, g) ==
  /\ bufferPool[b] = NoPool /\ p \in wl_shm_pool /\ WithinBounds(g, size[p])
  /\ bufferPool' = [bufferPool EXCEPT ![b] = p]
  /\ geometry' = [geometry EXCEPT ![b] = g]
  /\ ref_count' = [ref_count EXCEPT ![p] = @ + 1]
  /\ UNCHANGED <<wl_shm_pool, size>>

\* shm_pool_resize: a pool only grows, and stays as it is if mremap fails.
ResizePool(p, n) ==
  /\ p \in wl_shm_pool /\ n > size[p]
  /\ size' = [size EXCEPT ![p] = n]
  /\ UNCHANGED <<wl_shm_pool, ref_count, bufferPool, geometry>>

\* shm_pool_destroy gives the reference back and clears the user data, so
\* that shm_pool_resource_destroy, which runs next, finds none to give back.
DestroyPool_Twice(p) ==
  /\ p \in wl_shm_pool
  /\ wl_shm_pool' = wl_shm_pool \ {p}
  /\ ref_count' = [ref_count EXCEPT ![p] = @ - 2]
  /\ size' = [size EXCEPT ![p] = IF ref_count[p] <= 2 THEN 0 ELSE @]
  /\ UNCHANGED <<bufferPool, geometry>>

DestroyPool(p) ==
  /\ p \in wl_shm_pool
  /\ wl_shm_pool' = wl_shm_pool \ {p} /\ Unref(p)
  /\ UNCHANGED <<bufferPool, geometry>>

\* shm_buffer_resource_destroy, before or after the end of the pool's resource
FreePoolBuffer_KeepsRef(b) ==
  /\ bufferPool[b] # NoPool
  /\ bufferPool' = [bufferPool EXCEPT ![b] = NoPool]
  /\ geometry' = [geometry EXCEPT ![b] = NoPool]
  /\ UNCHANGED <<wl_shm_pool, ref_count, size>>

FreePoolBuffer(b) ==
  /\ bufferPool[b] # NoPool
  /\ Unref(bufferPool[b])
  /\ bufferPool' = [bufferPool EXCEPT ![b] = NoPool]
  /\ geometry' = [geometry EXCEPT ![b] = NoPool]
  /\ UNCHANGED wl_shm_pool

ShmNext ==
  \/ \E p \in Pool :
       \/ \E n \in PoolSize : CreatePool(p, n) \/ ResizePool(p, n)
       \/ DestroyPool(p)
       \/ \E b \in PoolBuffer, g \in Geometry : CutBuffer(b, p, g)
  \/ \E b \in PoolBuffer : FreePoolBuffer(b)

ShmSpec == ShmInit /\ [][ShmNext]_shmVars

---------------------------------------------------------------------------
(* Every byte of every row of a buffer is in mapped memory, for as long as *)
(* the buffer lives: the pool may have lost its resource, have grown, or   *)
(* have been freed and its address used again.                             *)
RowsAreMapped ==
  \A b \in PoolBuffer :
    bufferPool[b] # NoPool =>
      LET g == geometry[b]
      IN \A row \in 0..(g.height - 1) :
           LET start == g.offset + g.stride * row
           IN 0 <= start /\ start + g.bytes * g.width <= size[bufferPool[b]]

(* A pool that nothing refers to is unmapped, whichever reference was the  *)
(* last to go.                                                             *)
NoPoolLeaks ==
  \A p \in Pool : size[p] # 0 =>
    p \in wl_shm_pool \/ \E b \in PoolBuffer : bufferPool[b] = p

(***************************************************************************)
(* Every row of every buffer is inside a mapping that exists, whatever is  *)
(* resized or destroyed first, and a mapping nothing refers to is gone.    *)
(***************************************************************************)
ShmOK ==
  /\ ShmTypeOK /\ RowsAreMapped /\ NoPoolLeaks
=============================================================================
