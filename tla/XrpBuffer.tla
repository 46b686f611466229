------------------------------ MODULE XrpBuffer ------------------------------
(***************************************************************************)
(* Buffers and buffer groups of the user library                           *)
(* (driver/xrp-user/xrp-host/xrp_host_common.c and hosted/xrp_linux.c), as *)
(* functions on a heap: the reference and map counts of buffers, the       *)
(* groups with their reference counts, and the reference count of the      *)
(* device.  A buffer is identified by its address; its count is zero while *)
(* the address is free.  bad records a use after the last release.         *)
(***************************************************************************)
EXTENDS Integers, Sequences, SequencesExt

CONSTANTS Buffer, Group

EmptyHeap == [ref  |-> [u \in Buffer |-> 0], maps |-> [u \in Buffer |-> 0],
              gref |-> [g \in Group |-> 0],  grp  |-> [g \in Group |-> <<>>],
              dev  |-> 0, bad |-> FALSE]

\* xrp_retain_device and xrp_release_device
RetainDevice(h)  == [h EXCEPT !.dev = @ + 1]
ReleaseDevice(h) == [h EXCEPT !.dev = @ - 1, !.bad = @ \/ h.dev = 0]

\* xrp_create_buffer of a device buffer
CreateBuffer(h, u) == RetainDevice([h EXCEPT !.ref[u] = 1])

RetainBuffer(h, u) == [h EXCEPT !.ref[u] = @ + 1, !.bad = @ \/ h.ref[u] = 0]

\* xrp_release_buffer, with xrp_impl_release_device_buffer at the last release.
ReleaseBuffer(h, u) ==
  IF h.ref[u] = 0 THEN [h EXCEPT !.bad = TRUE]
  ELSE IF h.ref[u] = 1 THEN ReleaseDevice([h EXCEPT !.ref[u] = 0])
  ELSE [h EXCEPT !.ref[u] = @ - 1]

MapBuffer(h, u) == RetainBuffer([h EXCEPT !.maps[u] = @ + 1], u)

UnmapBuffer(h, u) == ReleaseBuffer([h EXCEPT !.maps[u] = @ - 1], u)

CreateGroup(h, g) == [h EXCEPT !.gref[g] = 1, !.grp[g] = <<>>]

\* Variant: a command takes no reference.
RetainNothing(h, g) == h

RetainGroup(h, g) == [h EXCEPT !.gref[g] = @ + 1]

\* xrp_release_buffer_group: the last one releases the buffers.
ReleaseGroup(h, g) ==
  IF h.gref[g] = 1
  THEN FoldLeft(ReleaseBuffer, [h EXCEPT !.gref[g] = 0, !.grp[g] = <<>>], h.grp[g])
  ELSE [h EXCEPT !.gref[g] = @ - 1, !.bad = @ \/ h.gref[g] = 0]

\* xrp_add_buffer_to_group; the index of the buffer is the new length.
AddToGroup(h, g, u) == RetainBuffer([h EXCEPT !.grp[g] = Append(@, u)], u)

\* xrp_get_buffer_from_group takes no reference.
GetFromGroup(h, g, i) == h.grp[g][i]
=============================================================================
