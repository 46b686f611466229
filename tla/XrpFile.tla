------------------------------- MODULE XrpFile -------------------------------
(***************************************************************************)
(* Open files of the driver and the memory that goes through them          *)
(* (driver/xrp-kernel/xvp_main.c): blocks of device memory, their          *)
(* references and user mappings, and the areas a command shares with the   *)
(* DSP - blocks of the driver, pinned user pages, other drivers' memory or *)
(* shadow copies.                                                          *)
(*                                                                         *)
(* Addresses are page numbers.  A block is an allocation of a device's     *)
(* pool (module XrpPool is the pool itself) or, when the pool has no room, *)
(* of the kernel's page allocator; it is free when nothing refers to it.   *)
(* The command between mapping and unmapping is module XrpSubmit           *)
(* and appears here as its outcome.  One slot of a request is shared in    *)
(* one step, under mmap_lock.  The contents of buffers and cache           *)
(* maintenance are left out, and so is what follows after memory was       *)
(* corrupted (variable wild).                                              *)
(***************************************************************************)
EXTENDS XrpAddressMap, FiniteSets

CONSTANTS
  Thread, File, Device, Block, Nil,
  DeviceOf,      \* the device a file belongs to
  PoolOf,        \* the device whose pool a block is from, or Nil: kernel pages
  Pages,         \* the page numbers of a block
  Map,           \* the address map of each device
  Area,          \* user memory that is not the driver's
  KernelArray,   \* what kmalloc may return for the buffer descriptors
  Shape,         \* the requests: in, out (not inline?), n (buffers)
  InlineBuffers, \* XRP_DSP_CMD_INLINE_BUFFER_COUNT
  Fragile,       \* bound: the devices that may go off
  MaxVma         \* bound: mappings of one block through one file

ASSUME FileAssumption ==
  /\ Nil \notin File \cup Block \cup Shape \cup Device
  /\ DeviceOf \in [File -> Device] /\ PoolOf \in [Block -> Device \cup {Nil}]
  /\ \A s \in Shape : s.in \in BOOLEAN /\ s.out \in BOOLEAN /\ s.n \in 0 .. 2
  /\ InlineBuffers \in Nat /\ MaxVma \in Nat \ {0}
  /\ Map \in [Device -> Seq(Entry)]

IsRun(p) ==
  p \in Seq(Nat) \ {<<>>} /\ \A k \in DOMAIN p : p[k] = p[1] + k - 1

\* What the driver allocates are pages in a row, wherever they are.
ASSUME RunAssumption ==
  (\A b \in Block : IsRun(Pages[b])) /\ (\A a \in KernelArray : IsRun(a))

VARIABLES
  pc,      \* where a thread is in its system call
  call,    \* its file, block or shape, and the slot it has come to
  opened, known,  \* open files; those in the table xrp_known_files
  ref,     \* reference count of each block
  owner,   \* history: the file that allocated a block, Nil for a copy
  busy,    \* busy list of each file
  vmas,    \* number of user mappings of a block through a file
  pins,    \* page pins taken by get_user_pages
  rq,      \* the mappings of a thread's request, by slot
  off,     \* devices that a failed reboot has put off
  lost,    \* history: references and pins nobody will drop
  wild     \* what has corrupted memory; after that anything may happen

vars == <<pc, call, opened, known, ref, owner, busy, vmas, pins, rq, off, lost,
          wild>>

memory == <<ref, owner, pins>>

NoCall == [file |-> Nil, block |-> Nil, shape |-> Nil, i |-> 0]

\* struct xrp_mapping.  "unset": never written; "half": the type was written
\* and the rest was not.
NoMapping    == [kind |-> "none", block |-> Nil, area |-> Nil]
UnsetMapping == [NoMapping EXCEPT !.kind = "unset"]
HalfMapping  == [NoMapping EXCEPT !.kind = "half"]
OfBlock(k, b) == [kind |-> k, block |-> b, area |-> Nil]
OfArea(k, a)  == [kind |-> k, block |-> Nil, area |-> a]

Init ==
  /\ pc = [t \in Thread |-> "idle"]
  /\ call = [t \in Thread |-> NoCall]
  /\ opened = {} /\ known = {}
  /\ ref = [b \in Block |-> 0]
  /\ owner = [b \in Block |-> Nil]
  /\ busy = [f \in File |-> <<>>]
  /\ vmas = [f \in File |-> [b \in Block |-> 0]]
  /\ pins = 0
  /\ rq = [t \in Thread |-> << >>]
  /\ lost = [ref |-> [b \in Block |-> 0], pins |-> 0]
  /\ off = {} /\ wild = {}

Step(t, from, to) == wild = {} /\ pc[t] = from /\ pc' = [pc EXCEPT ![t] = to]

Begin(t, to, f, b, s) ==
  /\ f \in opened
  /\ Step(t, "idle", to)
  /\ call' = [call EXCEPT ![t] = [file |-> f, block |-> b, shape |-> s, i |-> 1]]

-----------------------------------------------------------------------------
(* References.                                                             *)

\* What xrp_allocate may return.  Whether the pool has room for a request is
\* left open here.
Free(dev) == {b \in Block : ref[b] = 0 /\ PoolOf[b] \in {dev, Nil}}

SetRef(r) == /\ ref' = r
             /\ owner' = [b \in Block |-> IF r[b] = 0 THEN Nil ELSE owner[b]]

\* xrp_allocation_put: the block is free when the last reference goes.
Put(b) == SetRef([ref EXCEPT ![b] = @ - 1])

\* xrp_allocation_queue
AllocationQueue(f, b) == busy' = [busy EXCEPT ![f] = <<b>> \o @]

\* Variant: the search finds the block and leaves it on the list.
DequeueKeeps(f, b) == b \in ToSet(busy[f]) /\ UNCHANGED busy

\* Variant: the search goes over the lists of all files.
DequeueAny(f, b) ==
  \E g \in File : /\ b \in ToSet(busy[g])
                  /\ busy' = [busy EXCEPT ![g] = RemoveFirst(@, b)]

\* xrp_allocation_dequeue finds the block that contains the range.
AllocationDequeue(f, b) ==
  /\ b \in ToSet(busy[f])
  /\ busy' = [busy EXCEPT ![f] = RemoveFirst(@, b)]

-----------------------------------------------------------------------------
(* Files.                                                                  *)

\* xrp_add_known_file; its kmalloc may fail.
AddKnownFile(f) == known' = known \cup {f} \/ UNCHANGED known

\* xrp_remove_known_file
RemoveKnownFile(f) == known' = known \ {f}

\* xrp_is_known_file
IsKnownFile(f) == f \in known

\* xvp_open; the power management around it is module XrpDevice.
Open(f) ==
  /\ wild = {} /\ f \notin opened
  /\ opened' = opened \cup {f}
  /\ AddKnownFile(f)
  /\ UNCHANGED <<pc, call, memory, busy, vmas, rq, off, lost, wild>>

\* xvp_close, when no mapping and no call uses the file any more.  Blocks on
\* the busy list are forgotten with it.
Close(f) ==
  /\ wild = {} /\ f \in opened
  /\ \A b \in Block : vmas[f][b] = 0
  /\ \A t \in Thread : call[t].file # f
  /\ opened' = opened \ {f}
  /\ RemoveKnownFile(f)
  /\ busy' = [busy EXCEPT ![f] = <<>>]
  /\ lost' = [lost EXCEPT !.ref = [b \in Block |->
                @[b] + IF b \in ToSet(busy[f]) THEN 1 ELSE 0]]
  /\ UNCHANGED <<pc, call, memory, vmas, rq, off, wild>>

-----------------------------------------------------------------------------
(* Allocation and mapping.                                                 *)

AddVma(f, b) == vmas' = [vmas EXCEPT ![f][b] = @ + 1]
DelVma(f, b) == vmas' = [vmas EXCEPT ![f][b] = @ - 1]

\* xrp_ioctl_alloc up to the call of vm_mmap.
IoctlAlloc(t, f) ==
  \E b \in Free(DeviceOf[f]) :
    /\ Begin(t, "mmap", f, b, Nil)
    /\ ref' = [ref EXCEPT ![b] = 1]
    /\ owner' = [owner EXCEPT ![b] = f]
    /\ AllocationQueue(f, b)
    /\ UNCHANGED <<opened, known, vmas, pins, rq, off, lost, wild>>

\* xvp_mmap: the reference of the busy list becomes that of the mapping.
\* remap_pfn_range may fail after the block was taken off the list; the
\* mapping is then undone without xvp_vm_close.
XvpMmap(f, b) ==
  /\ AllocationDequeue(f, b)
  /\ \/ AddVma(f, b) /\ UNCHANGED lost
     \/ UNCHANGED vmas /\ lost' = [lost EXCEPT !.ref[b] = @ + 1]

\* vm_mmap in xrp_ioctl_alloc: it may fail before it calls the driver, and it
\* fails when the block is not on the list any more.  The result is not checked.
AllocMmap(t) ==
  LET f == call[t].file b == call[t].block IN
  /\ pc[t] = "mmap"
  /\ XvpMmap(f, b) \/ UNCHANGED <<busy, vmas, lost>>
  /\ Step(t, "mmap", IF vmas' = vmas THEN "unmapped" ELSE "copyout")
  /\ UNCHANGED <<call, opened, known, memory, rq, off, wild>>

\* The end of xrp_ioctl_alloc; when the copy to the user fails, the new
\* mapping is removed, if there is one.
AllocReturn(t) ==
  LET f == call[t].file b == call[t].block IN
  /\ \/ /\ Step(t, "unmapped", "idle") \/ Step(t, "copyout", "idle")
        /\ UNCHANGED <<ref, owner, vmas>>
     \/ /\ Step(t, "copyout", "idle")
        /\ vmas[f][b] > 0 /\ DelVma(f, b) /\ Put(b)
  /\ call' = [call EXCEPT ![t] = NoCall]
  /\ UNCHANGED <<opened, known, busy, pins, rq, off, lost, wild>>

\* The program maps a block that is on the busy list.
UserMmap(f, b) ==
  /\ wild = {} /\ f \in opened /\ vmas[f][b] < MaxVma
  /\ XvpMmap(f, b)
  /\ UNCHANGED <<pc, call, opened, known, memory, rq, off, wild>>

\* Variant: the copy of a mapping is not counted.
VmOpenNoGet(f, b) ==
  /\ wild = {} /\ vmas[f][b] \in 1 .. MaxVma - 1
  /\ AddVma(f, b)
  /\ UNCHANGED <<pc, call, opened, known, ref, owner, busy, pins, rq, off, lost, wild>>

\* xvp_vm_open: a mapping is split or inherited.
VmOpen(f, b) ==
  /\ wild = {} /\ vmas[f][b] \in 1 .. MaxVma - 1
  /\ AddVma(f, b)
  /\ ref' = [ref EXCEPT ![b] = @ + 1]
  /\ UNCHANGED <<pc, call, opened, known, owner, busy, pins, rq, off, lost, wild>>

\* xvp_vm_close: munmap, or the end of the process.
VmClose(f, b) ==
  /\ wild = {} /\ vmas[f][b] > 0
  /\ DelVma(f, b)
  /\ Put(b)
  /\ UNCHANGED <<pc, call, opened, known, busy, pins, rq, off, lost, wild>>

\* xrp_ioctl_free: the mapping is looked up under the lock ...
IoctlFree(t, f, b) ==
  /\ vmas[f][b] > 0
  /\ Begin(t, "munmap", f, b, Nil)
  /\ UNCHANGED <<opened, known, memory, busy, vmas, rq, off, lost, wild>>

\* ... and removed later, if nobody else did.
FreeMunmap(t) ==
  LET f == call[t].file b == call[t].block IN
  /\ Step(t, "munmap", "idle")
  /\ call' = [call EXCEPT ![t] = NoCall]
  /\ IF vmas[f][b] > 0 THEN DelVma(f, b) /\ Put(b) ELSE UNCHANGED <<vmas, ref, owner>>
  /\ UNCHANGED <<opened, known, busy, pins, rq, off, lost, wild>>

-----------------------------------------------------------------------------
(* Requests: sharing memory with the DSP.                                  *)

\* The slots of a request, in the order in which they are shared.
Slots(s) ==
  (IF s.in THEN <<"in">> ELSE <<>>) \o (IF s.out THEN <<"out">> ELSE <<>>)
    \o SubSeq(<<"b1", "b2">>, 1, s.n)
    \o (IF s.n > InlineBuffers THEN <<"descriptors">> ELSE <<>>)

Slot(t) == Slots(call[t].shape)[call[t].i]

\* xrp_map_request up to the first slot: only the mappings of the buffers are
\* zeroed, the request itself is on the stack.  Without slots it is mapped.
MapRequest(t, f, s) ==
  /\ Begin(t, IF Slots(s) = <<>> THEN "dsp" ELSE "map", f, Nil, s)
  /\ rq' = [rq EXCEPT ![t] = [k \in ToSet(Slots(s)) |->
             IF k \in {"b1", "b2"} THEN NoMapping ELSE UnsetMapping]]
  /\ UNCHANGED <<opened, known, memory, busy, vmas, off, lost, wild>>

\* The mapping of the current slot is done; after the last one the command is
\* given to the DSP.
Shared(t, m) ==
  /\ Step(t, "map", IF call[t].i = Len(Slots(call[t].shape)) THEN "dsp" ELSE "map")
  /\ rq' = [rq EXCEPT ![t][Slot(t)] = m]
  /\ call' = [call EXCEPT ![t].i = @ + 1]
  /\ UNCHANGED <<opened, known, busy, vmas, off, lost, wild>>

\* The current slot is memory of the program.
UserSlot(t) == pc[t] = "map" /\ Slot(t) # "descriptors"

DeviceMap(t) == Map[DeviceOf[call[t].file]]

\* Variant: only the first byte of another file's block is looked up.
ReachesFirst(t, g, b) ==
  \/ g = call[t].file
  \/ IsKnownFile(g) /\ Bsearch(DeviceMap(t), Pages[b][1]) # 0

\* A block mapped through the same file, wherever it is, or through another file
\* of the driver if the device reaches its first and its last byte.
Reaches(t, g, b) ==
  \/ g = call[t].file
  \/ /\ IsKnownFile(g)
     /\ InOneEntry(DeviceMap(t), <<Pages[b][1], Pages[b][Len(Pages[b])]>>)

\* Variant: no reference for the request.
ShareNativeNoGet(t, g, b) ==
  /\ UserSlot(t)
  /\ vmas[g][b] > 0 /\ Reaches(t, g, b)
  /\ Shared(t, OfBlock("native", b))
  /\ UNCHANGED memory

\* __xrp_share_block, memory of the driver.
ShareNative(t, g, b) ==
  /\ UserSlot(t)
  /\ vmas[g][b] > 0 /\ Reaches(t, g, b)
  /\ Shared(t, OfBlock("native", b))
  /\ ref' = [ref EXCEPT ![b] = @ + 1]
  /\ UNCHANGED <<owner, pins>>

\* xvp_pfn_virt_to_phys: the pages are contiguous and in one range.
PfnVirtToPhys(map, pages) ==
  /\ InOneEntry(map, pages)
  /\ \A k \in 1 .. Len(pages) - 1 : pages[k + 1] = pages[k] + 1

\* The mapping of a driver's block through a file that is not known, for a
\* device that reaches it: like any other driver's memory, without a reference.
ShareUnknown(t, g, b) ==
  /\ UserSlot(t)
  /\ vmas[g][b] > 0 /\ ~Reaches(t, g, b)
  /\ PfnVirtToPhys(DeviceMap(t), Pages[b])
  /\ Shared(t, OfBlock("pfn", b))
  /\ UNCHANGED memory

\* __xrp_share_block, memory of another driver: mapped as it is if the cache
\* can be managed (xrp_cacheable) or need not be (vma_needs_cache_ops).
SharePfn(t, a) ==
  /\ UserSlot(t)
  /\ a.vmas = 1 /\ a.io /\ a.coherent
  /\ PfnVirtToPhys(DeviceMap(t), a.pages)
  /\ Shared(t, OfArea("pfn", a))
  /\ UNCHANGED memory

\* xvp_gup_virt_to_phys: all pages could be pinned, and the pages are
\* contiguous and in one range.  Otherwise the pins are dropped.
GupVirtToPhys(map, pages) ==
  /\ InOneEntry(map, pages)
  /\ \A k \in 1 .. Len(pages) - 1 : pages[k + 1] = pages[k] + 1

\* __xrp_share_block, ordinary user memory.  The region may span several vmas.
ShareGup(t, a) ==
  /\ UserSlot(t)
  /\ a.vmas > 0 /\ ~(a.vmas = 1 /\ a.io) /\ a.coherent
  /\ GupVirtToPhys(DeviceMap(t), a.pages)
  /\ Shared(t, OfArea("gup", a))
  /\ pins' = pins + 1
  /\ UNCHANGED <<ref, owner>>

\* xvp_copy_virt_to_phys, when the memory cannot be shared as it is.  Whether
\* the device reaches the copy is not checked.
CopyVirtToPhys(t, b) ==
  /\ b \in Free(DeviceOf[call[t].file])
  /\ ref' = [ref EXCEPT ![b] = 1]
  /\ owner' = [owner EXCEPT ![b] = Nil]
  /\ Shared(t, OfBlock("copy", b))
  /\ UNCHANGED pins

\* __xrp_share_block falls back to a shadow copy, for any reason a page could
\* not be pinned or mapped, or a block of another device is out of reach.
ShareCopy(t, b) == UserSlot(t) /\ CopyVirtToPhys(t, b)

\* A buffer without XRP_FLAG_READ or XRP_FLAG_WRITE is not shared.
ShareNothing(t) ==
  /\ UserSlot(t) /\ Slot(t) \in {"b1", "b2"}
  /\ Shared(t, NoMapping)
  /\ UNCHANGED memory

\* The first address of the array decides.
TranslatesFirst(t, pages) == TranslateToDsp(DeviceMap(t), pages[1]) # NoTranslation

\* xrp_share_kernel: the array of buffer descriptors, as it is or copied.
ShareKernel(t, pages) ==
  /\ pc[t] = "map" /\ Slot(t) = "descriptors"
  /\ TranslatesFirst(t, pages)
  /\ Shared(t, OfArea("kernel", [pages |-> pages]))
  /\ UNCHANGED memory

ShareKernelCopy(t, pages, b) ==
  /\ pc[t] = "map" /\ Slot(t) = "descriptors"
  /\ ~TranslatesFirst(t, pages)
  /\ CopyVirtToPhys(t, b)

-----------------------------------------------------------------------------
(* Requests: the way back.                                                 *)

\* The slots of a request that hold a block, each with a reference.
Holds(m, b) == {k \in DOMAIN m : m[k].block = b /\ m[k].kind \in {"native", "copy"}}

Held(m, b) == Cardinality(Holds(m, b))

\* The pins xrp_alien_mapping_destroy drops.
Pins(m) == {k \in DOMAIN m : m[k].kind = "gup"}

Pinned(m) == Cardinality(Pins(m))

\* __xrp_unshare_block for every mapping of a request that was set.  A copy
\* that cannot be written back is released all the same.
UnshareAll(t) ==
  /\ SetRef([b \in Block |-> ref[b] - Held(rq[t], b)])
  /\ pins' = pins - Pinned(rq[t])

EndRequest(t) ==
  /\ call' = [call EXCEPT ![t] = NoCall]
  /\ rq' = [rq EXCEPT ![t] = << >>]
  /\ UNCHANGED <<opened, known, busy, vmas>>

\* xrp_unmap_request_nowb also unshares slots that were never reached.  What is
\* on the stack in place of their mapping decides what happens: nothing, or a
\* reference that belongs to somebody else is dropped.
UnmapRequestNowb(t, m) ==
  /\ UnshareAll(t)
  /\ \/ UNCHANGED wild
     \/ \E k \in DOMAIN m : m[k].kind \in {"unset", "half"} /\ wild' = {"stack"}

\* xrp_map_request, share_err: a slot cannot be shared (no vma, no memory, a
\* fault).  xrp_share_kernel has then set the type of its mapping.
ShareFails(t) ==
  /\ Step(t, "map", "idle")
  /\ UnmapRequestNowb(t, IF Slot(t) = "descriptors"
                         THEN [rq[t] EXCEPT !["descriptors"] = HalfMapping]
                         ELSE rq[t])
  /\ EndRequest(t)
  /\ UNCHANGED <<off, lost>>

\* The command is done: xrp_unmap_request, with the copies written back, or
\* without writing back after an error.
Unmap(t) ==
  /\ Step(t, "dsp", "idle")
  /\ UnshareAll(t)
  /\ EndRequest(t)
  /\ UNCHANGED <<off, lost, wild>>

\* The reboot after a timeout fails and the device goes off: the mappings of
\* the rebooting thread are left as they are.
WentOff(t) ==
  /\ Step(t, "dsp", "idle")
  /\ DeviceOf[call[t].file] \in Fragile \ off
  /\ off' = off \cup {DeviceOf[call[t].file]}
  /\ lost' = [ref  |-> [b \in Block |-> lost.ref[b] + Held(rq[t], b)],
              pins |-> lost.pins + Pinned(rq[t])]
  /\ EndRequest(t)
  /\ UNCHANGED <<memory, wild>>

-----------------------------------------------------------------------------

AllocNext ==
  \/ \E f \in File : Open(f) \/ Close(f)
  \/ \E t \in Thread, f \in File : IoctlAlloc(t, f)
  \/ \E t \in Thread : AllocMmap(t) \/ AllocReturn(t) \/ FreeMunmap(t)
  \/ \E f \in File, b \in Block :
       UserMmap(f, b) \/ VmOpen(f, b) \/ VmClose(f, b)
  \/ \E t \in Thread, f \in File, b \in Block : IoctlFree(t, f, b)

ShareNext ==
  \E t \in Thread :
    \/ \E f \in File, s \in Shape : MapRequest(t, f, s)
    \/ \E g \in File, b \in Block : ShareNative(t, g, b) \/ ShareUnknown(t, g, b)
    \/ \E a \in Area : SharePfn(t, a) \/ ShareGup(t, a)
    \/ \E b \in Block : ShareCopy(t, b)
    \/ \E a \in KernelArray : ShareKernel(t, a)
    \/ \E a \in KernelArray, b \in Block : ShareKernelCopy(t, a, b)
    \/ ShareNothing(t) \/ ShareFails(t) \/ Unmap(t) \/ WentOff(t)

Next == AllocNext \/ ShareNext

Spec == Init /\ [][Next]_vars

-----------------------------------------------------------------------------
(* Properties.                                                             *)

Kind == {"none", "unset", "half", "native", "pfn", "gup", "copy", "kernel"}

Place == {"idle", "mmap", "unmapped", "copyout", "munmap", "map", "dsp"}

Call == [file : File \cup {Nil}, block : Block \cup {Nil}, shape : Shape \cup {Nil},
         i : Nat]

TypeOK ==
  /\ pc \in [Thread -> Place] /\ call \in [Thread -> Call]
  /\ known \subseteq opened /\ opened \subseteq File
  /\ ref \in [Block -> Nat] /\ pins \in Nat
  /\ owner \in [Block -> File \cup {Nil}]
  /\ busy \in [File -> Seq(Block)]
  /\ vmas \in [File -> [Block -> 0 .. MaxVma]]
  /\ DOMAIN rq = Thread
  /\ \A t \in Thread : \A k \in DOMAIN rq[t] : rq[t][k].kind \in Kind
  /\ off \subseteq Device
  /\ lost \in [ref : [Block -> Nat], pins : Nat]

\* The users of a block: its mappings, the lists it is on, the slots of requests
\* that share it; and the slots with pinned pages.
Vmas(b)    == UNION {{f} \X (1 .. vmas[f][b]) : f \in File}
Listing(b) == {f \in File : b \in ToSet(busy[f])}
Sharing(b) == UNION {{t} \X Holds(rq[t], b) : t \in Thread}
Pinning    == UNION {{t} \X Pins(rq[t]) : t \in Thread}

\* The reference count of a block is the number of its users: mappings, an
\* entry on a busy list, requests that share it, and what was lost for good.
\* No error path of xrp_ioctl_alloc, xvp_mmap or xrp_map_request drops one too
\* many or too few, and the same holds for pinned pages.
RefsAccounted ==
  wild = {} =>
    /\ \A b \in Block :
         ref[b] = Cardinality(Vmas(b)) + Cardinality(Listing(b))
                  + Cardinality(Sharing(b)) + lost.ref[b]
    /\ pins = Cardinality(Pinning) + lost.pins

\* A block on a busy list belongs to that list alone, so that xvp_mmap may turn
\* the list's reference into the mapping's.
BusyExclusive ==
  \A f \in File :
    /\ \A b \in ToSet(busy[f]) : ref[b] = 1 /\ owner[b] = f
    /\ \A i, j \in DOMAIN busy[f] : busy[f][i] = busy[f][j] => i = j

\* A program sees a block only through the file that allocated it, however the
\* block was reused, and it never sees a shadow copy of a request.
OwnMappings ==
  \A f \in File, b \in Block : vmas[f][b] > 0 =>
    /\ owner[b] = f
    /\ \A t \in Thread : \A k \in DOMAIN rq[t] : rq[t][k] # OfBlock("copy", b)

\* The pages behind a mapping.
PagesOf(m) == IF m.block # Nil THEN Pages[m.block] ELSE m.area.pages

\* What the code does not look up in the address map: blocks the file allocated
\* itself and shadow copies, all from the pool of the device or the page
\* allocator, and the descriptors behind the first page.
Unchecked(t, m) ==
  \/ /\ m.kind = "copy" \/ (m.kind = "native" /\ owner[m.block] = call[t].file)
     /\ PoolOf[m.block] \in {DeviceOf[call[t].file], Nil}
  \/ m.kind = "kernel" /\ TranslatesFirst(t, m.area.pages)

\* While the DSP works on a request, all of every shared area is in one range
\* of its device's address map: memory of another file, device or driver always,
\* although of a block only the ends are looked up, and whatever the file did
\* meanwhile with the block.  Only what is unchecked may be out of reach.
DspReaches ==
  \A t \in Thread : pc[t] = "dsp" =>
    \A k \in DOMAIN rq[t] : rq[t][k].kind \notin {"none", "unset", "half"} =>
      InOneEntry(DeviceMap(t), PagesOf(rq[t][k])) \/ Unchecked(t, rq[t][k])

-----------------------------------------------------------------------------
(* Strengthenings: what makes the properties inductive.                    *)

\* A call has its file, and its block or its request with a mapping for each
\* slot; the slots to come hold nothing yet.
Calling ==
  \A t \in Thread :
    /\ pc[t] = "idle" => call[t] = NoCall
    /\ pc[t] # "idle" => call[t].file \in File
    /\ pc[t] \notin {"idle", "map", "dsp"} => call[t].block \in Block
    /\ pc[t] \notin {"map", "dsp"} => rq[t] = << >>
    /\ pc[t] \in {"map", "dsp"} =>
         call[t].shape \in Shape /\ DOMAIN rq[t] = ToSet(Slots(call[t].shape))
    /\ pc[t] = "map" =>
         /\ call[t].i \in DOMAIN Slots(call[t].shape)
         /\ \A j \in DOMAIN Slots(call[t].shape) : j >= call[t].i =>
              rq[t][Slots(call[t].shape)[j]].kind \in {"none", "unset"}

\* Whoever sees a block is its owner, and nobody owns a shadow copy.
Owned ==
  /\ \A f \in File, b \in Block : vmas[f][b] > 0 => owner[b] = f
  /\ \A t \in Thread : \A k \in DOMAIN rq[t] :
       rq[t][k].kind = "copy" => rq[t][k].block \in Block /\ owner[rq[t][k].block] = Nil
  /\ \A b \in Block : owner[b] # Nil => PoolOf[b] \in {DeviceOf[owner[b]], Nil}

\* What a request shares is in reach, or unchecked, from the moment it is shared.
Reached ==
  \A t \in Thread : pc[t] \in {"map", "dsp"} =>
    \A k \in DOMAIN rq[t] : rq[t][k].kind \notin {"none", "unset", "half"} =>
      InOneEntry(DeviceMap(t), PagesOf(rq[t][k])) \/ Unchecked(t, rq[t][k])

FileInv == TypeOK /\ Calling /\ RefsAccounted /\ BusyExclusive /\ Owned /\ Reached
=============================================================================
