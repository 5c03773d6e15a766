-------------------------------- MODULE Dmabuf --------------------------------
(***************************************************************************)
(* DMA-BUF buffers (wl_dmabuf.c): the graphics context the bridge imports  *)
(* with, made in steps that can each fail; the parameters in which a       *)
(* client collects the planes of a buffer; and who closes the descriptors. *)
(* The format table is a function of what the driver reports.              *)
(*                                                                         *)
(* Left out: memory that runs out, the feedback objects and their 16-bit   *)
(* indices, and sizes, offsets and strides beyond that they may be refused.*)
(***************************************************************************)
EXTENDS Integers, Sequences, FiniteSets, SequencesExt, Queues

CONSTANTS
  Params,      \* addresses of linux_dmabuf_buffer
  Descriptor,  \* file descriptors a client's planes may come as
  Planes,      \* MAX_DMABUF_PLANES
  Modifier,    \* modifiers a driver may report
  MaxReported, \* bound on modifiers of a format
  NoDescriptor

ASSUME DmabufAssumption ==
  NoDescriptor \notin Descriptor /\ Planes \in Nat \ {0} /\ MaxReported \in Nat

VARIABLES
  held,           \* what create_headless_egl and create_format_table made
  initialized, supported, enabled,
  allocated,      \* addresses in use
  params_data,    \* addresses a params resource points to
  wl_buffer,      \* addresses a wl_buffer resource points to
  egl_image,      \* addresses with an image and a texture
  fd, n_planes,   \* of each address
  opened,         \* descriptors of planes the process has open
  skipped,        \* a plane was added beyond the next free index
  cutOff          \* a protocol error was posted to the client

graphicsVars == <<held, initialized, supported, enabled>>
paramsVars == <<allocated, params_data, wl_buffer, egl_image, fd, n_planes, opened,
                skipped, cutOff>>
dmabufVars == <<graphicsVars, paramsVars>>

Plane == 0..(Planes - 1)

DmabufTypeOK ==
  /\ held \subseteq {"drm", "gbm", "display", "context", "table"}
  /\ {initialized, supported, enabled, skipped, cutOff} \subseteq BOOLEAN
  /\ allocated \subseteq Params /\ params_data \subseteq Params
  /\ wl_buffer \subseteq Params /\ egl_image \subseteq Params
  /\ fd \in [Params -> [Plane -> Descriptor \cup {NoDescriptor}]]
  /\ n_planes \in [Params -> 0..Planes]
  /\ opened \subseteq Descriptor

NoPlanes == [i \in Plane |-> NoDescriptor]

DmabufInit ==
  /\ held = {} /\ initialized = FALSE /\ supported = FALSE /\ enabled \in BOOLEAN
  /\ allocated = {} /\ params_data = {} /\ wl_buffer = {} /\ egl_image = {}
  /\ fd = [x \in Params |-> NoPlanes] /\ n_planes = [x \in Params |-> 0]
  /\ opened = {} /\ skipped = FALSE /\ cutOff = FALSE

---------------------------------------------------------------------------
\* create_headless_egl: every step that fails undoes the ones before it, but
\* the last, which finds the import extensions missing.
Steps == {"drm", "gbm", "display", "context"}

HeadlessEgl_Partial(failing) ==
  CASE failing \in {"none", "extensions"} -> Steps
    [] failing = "drm" -> {}
    [] OTHER -> {"gbm"}

HeadlessEgl(failing) ==
  IF failing \in {"none", "extensions"} THEN Steps ELSE {}

\* bridge_dmabuf_init, called once by main: what fails leaves the bridge with
\* shared memory only.
DmabufStart(failing, table) ==
  /\ enabled /\ ~initialized
  /\ initialized' = TRUE
  /\ held' = HeadlessEgl(failing)
             \cup (IF failing = "none" /\ table THEN {"table"} ELSE {})
  /\ supported' = (failing = "none" /\ table)
  /\ enabled' = supported'
  /\ UNCHANGED paramsVars

\* bridge_dmabuf_cleanup, called as the bridge stops if it is enabled
DmabufCleanup ==
  /\ enabled /\ supported
  /\ held' = {} /\ initialized' = FALSE /\ supported' = FALSE /\ enabled' = FALSE
  /\ cutOff' = TRUE \* the event loop has ended
  /\ UNCHANGED <<allocated, params_data, wl_buffer, egl_image, fd, n_planes, opened, skipped>>

---------------------------------------------------------------------------
Live == supported /\ ~cutOff

\* linux_dmabuf_buffer_destroy closes as many descriptors as were added,
\* counting from plane 0.
ClosedWith_NotLast(x) == {fd[x][i] : i \in {j \in Plane : j < n_planes[x] - 1}} \ {NoDescriptor}

ClosedWith(x) == {fd[x][i] : i \in {j \in Plane : j < n_planes[x]}} \ {NoDescriptor}

Freed(x) ==
  /\ opened' = opened \ ClosedWith(x)
  /\ allocated' = allocated \ {x}
  /\ egl_image' = egl_image \ {x}
  /\ fd' = [fd EXCEPT ![x] = NoPlanes] /\ n_planes' = [n_planes EXCEPT ![x] = 0]
  /\ UNCHANGED <<graphicsVars, skipped>>

\* dmabuf_create_params
CreateParams(x) ==
  /\ Live /\ x \notin allocated
  /\ allocated' = allocated \cup {x} /\ params_data' = params_data \cup {x}
  /\ UNCHANGED <<graphicsVars, wl_buffer, egl_image, fd, n_planes, opened, skipped, cutOff>>

\* params_add: planes come in any order.
AddPlane_Twice(x, i, f) ==
  /\ Live /\ x \in params_data /\ f \notin opened
  /\ fd' = [fd EXCEPT ![x][i] = f] /\ n_planes' = [n_planes EXCEPT ![x] = @ + 1]
  /\ opened' = opened \cup {f}
  /\ skipped' = (skipped \/ i # n_planes[x])
  /\ UNCHANGED <<graphicsVars, allocated, params_data, wl_buffer, egl_image, cutOff>>

AddPlane(x, i, f) ==
  /\ Live /\ x \in params_data /\ fd[x][i] = NoDescriptor /\ f \notin opened
  /\ fd' = [fd EXCEPT ![x][i] = f] /\ n_planes' = [n_planes EXCEPT ![x] = @ + 1]
  /\ opened' = opened \cup {f}
  /\ skipped' = (skipped \/ i # n_planes[x])
  /\ UNCHANGED <<graphicsVars, allocated, params_data, wl_buffer, egl_image, cutOff>>

\* params_add of a plane that is set, past the last, of another modifier, or
\* to parameters already used: the descriptor is closed.
AddRefused ==
  /\ Live
  /\ cutOff' = TRUE
  /\ UNCHANGED <<graphicsVars, allocated, params_data, wl_buffer, egl_image, fd, n_planes,
                 opened, skipped>>

Complete(x) == n_planes[x] > 0 /\ \A i \in Plane : i < n_planes[x] => fd[x][i] # NoDescriptor

\* params_create_common: from here on the params resource points to nothing.
\* A set with a gap, or of no size, or beyond the end of its file, is refused.
CreateRefused(x) ==
  /\ Live /\ x \in params_data
  /\ params_data' = params_data \ {x}
  /\ Freed(x) /\ cutOff' = TRUE
  /\ UNCHANGED wl_buffer

\* import_dmabuf fails: an error only if the client asked for the buffer at once.
CreateFails(x, immed) ==
  /\ Live /\ x \in params_data /\ Complete(x)
  /\ params_data' = params_data \ {x}
  /\ Freed(x) /\ cutOff' = immed
  /\ UNCHANGED wl_buffer

CreateDmabuf_KeepsUserData(x, image) ==
  /\ Live /\ x \in params_data /\ Complete(x)
  /\ wl_buffer' = wl_buffer \cup {x}
  /\ egl_image' = IF image THEN egl_image \cup {x} ELSE egl_image
  /\ UNCHANGED <<graphicsVars, allocated, params_data, fd, n_planes, opened, skipped, cutOff>>

CreateDmabuf(x, image) ==
  /\ Live /\ x \in params_data /\ Complete(x)
  /\ params_data' = params_data \ {x} /\ wl_buffer' = wl_buffer \cup {x}
  /\ egl_image' = IF image THEN egl_image \cup {x} ELSE egl_image
  /\ UNCHANGED <<graphicsVars, allocated, fd, n_planes, opened, skipped, cutOff>>

\* destroy_params and destroy_linux_dmabuf_wl_buffer, also as a client goes
DestroyParams(x) ==
  /\ supported /\ x \in params_data
  /\ params_data' = params_data \ {x}
  /\ Freed(x)
  /\ UNCHANGED <<wl_buffer, cutOff>>

DestroyDmabuf(x) ==
  /\ supported /\ x \in wl_buffer
  /\ wl_buffer' = wl_buffer \ {x}
  /\ Freed(x)
  /\ UNCHANGED <<params_data, cutOff>>

\* The next client, when all of the last one is gone.
NextClient ==
  /\ supported /\ cutOff /\ params_data \cup wl_buffer = {}
  /\ cutOff' = FALSE
  /\ UNCHANGED <<graphicsVars, allocated, params_data, wl_buffer, egl_image, fd, n_planes,
                 opened, skipped>>

DmabufNext ==
  \/ \E failing \in {"none", "drm", "gbm", "display", "context", "extensions"},
        table \in BOOLEAN : DmabufStart(failing, table)
  \/ DmabufCleanup
  \/ \E x \in Params :
       \/ CreateParams(x)
       \/ \E i \in Plane, f \in Descriptor : AddPlane(x, i, f)
       \/ CreateRefused(x)
       \/ \E b \in BOOLEAN : CreateFails(x, b) \/ CreateDmabuf(x, b)
       \/ DestroyParams(x) \/ DestroyDmabuf(x)
  \/ AddRefused \/ NextClient

DmabufSpec == DmabufInit /\ [][DmabufNext]_dmabufVars

---------------------------------------------------------------------------
(* The format table.  A driver reports a sequence of modifiers for each    *)
(* format, each a record: linear, invalid, of a vendor, tiled, compressed, *)
(* external only.                                                          *)

\* create_format_table, the modifiers a client may use explicitly: neither
\* AMD's nor Intel's of several planes, nor one readback cannot untile.
Usable(readback, mod) ==
  /\ mod \notin {"invalid", "linear", "external", "compressed", "amd"}
  /\ ~(readback /\ mod = "tiled")

\* The second pass, one modifier after another
Explicit(readback, reported) ==
  Keeping(reported, {mod \in ToSet(reported) : Usable(readback, mod)})

\* The rows of one format: linear always, invalid if nothing is explicit.
Rows(readback, reported) ==
  <<"linear">> \o (IF Explicit(readback, reported) = <<>> THEN <<"invalid">>
                   ELSE Explicit(readback, reported))

\* total_pairs: the rows there is space for, one for linear and one for invalid
SpaceFor_OneRow(reported) == 1 + Len(reported)

SpaceFor(reported) == 2 + Len(reported)

Reported == SeqOf(Modifier, MaxReported)

(* The table has space for the rows of every format, so that the second    *)
(* pass never writes past what the first one counted; it never offers a    *)
(* readback format with a tiling; and there is always a layout to take.    *)
RowsFit ==
  "table" \in held =>
  \A readback \in BOOLEAN, reported \in Reported :
    LET rows == Rows(readback, reported)
    IN /\ Len(rows) <= SpaceFor(reported) /\ Len(rows) >= 2
       /\ readback => \A i \in DOMAIN rows : rows[i] # "tiled"

---------------------------------------------------------------------------
(* The device, the display and the context are there together or not at    *)
(* all, whichever step of making them fails, and the table only with them. *)
(* A start that finds no import extensions, or cannot make the table, does *)
(* leave all four to the end of the process: dmabuf is then off, and what  *)
(* would release them is not called.                                       *)
NothingHalfMade ==
  /\ held \cap Steps \in {{}, Steps}
  /\ "table" \in held <=> supported
  /\ supported => "context" \in held
  /\ ~supported /\ held # {} => held = Steps /\ ~enabled

(* A buffer belongs to its params resource or to its wl_buffer, never to   *)
(* both: whichever is destroyed first, the memory, the descriptors and the *)
(* image are released once, and only they.                                 *)
OneOwner ==
  /\ allocated = params_data \cup wl_buffer
  /\ params_data \cap wl_buffer = {}
  /\ egl_image \subseteq wl_buffer

(* The process keeps no descriptor open that no buffer names, as long as   *)
(* clients add planes in order: linux_dmabuf_buffer_destroy counts planes, *)
(* and a set with a gap, which is legal until it is used, loses the        *)
(* descriptors beyond its count.                                           *)
DescriptorsAreNamed ==
  LET named(x) == {fd[x][i] : i \in Plane} \ {NoDescriptor}
  IN /\ \A x, y \in Params : x # y => named(x) \cap named(y) = {}
     /\ \A x \in allocated : named(x) \subseteq opened
     /\ ~skipped => opened = UNION {named(x) : x \in allocated}

(***************************************************************************)
(* Every open descriptor has one owner that names it, whichever step       *)
(* fails; a start of the graphics that fails leaves nothing, or all but    *)
(* the table and unused; and the rows written to the format table fit.     *)
(***************************************************************************)
DmabufOK ==
  /\ DmabufTypeOK /\ NothingHalfMade /\ OneOwner /\ DescriptorsAreNamed
  /\ RowsFit
=============================================================================
