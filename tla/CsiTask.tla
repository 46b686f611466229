------------------------------- MODULE CsiTask -------------------------------
(***************************************************************************)
(* Tasks and requests of the csi_dsp library                               *)
(* (driver/xrp-user/dsp-ps/csi_dsp_core.c) on top of the buffers of        *)
(* XrpBuffer: one instance with one task whose requests carry buffers to   *)
(* the DSP and back, while several threads enqueue and dequeue.            *)
(*                                                                         *)
(* A command of the common queue is a step that succeeds or fails.  The    *)
(* queue of the task and xrp_wait_any are taken at their promises (module  *)
(* XrpQueue): commands run in order and a wait returns a complete event.   *)
(* The program adds to, enqueues or releases a request only while it owns  *)
(* it, and destroys the task only after the requests.  Imported dma-bufs   *)
(* are in module XrpDmaBuf, report items in XrpReport; what the DSP keeps  *)
(* of a task is not followed.  Nothing is said about what happens after a  *)
(* use of freed or foreign memory (variable wild).                         *)
(***************************************************************************)
EXTENDS XrpBuffer, FiniteSetsExt

CONSTANTS Thread, Request, Nil,
          TaskGroup, CallGroup,   \* groups of the task and of a single call
          MaxPlanes,              \* planes of one buffer
          MaxBuffer,              \* CSI_DSP_MAX_BUFFER
          Sizes                   \* bounds: sets of threads, requests and free
                                  \* memory to start with

ASSUME CsiAssumption ==
  /\ Group = Request \cup {TaskGroup, CallGroup}
  /\ TaskGroup # CallGroup /\ {TaskGroup, CallGroup} \cap Request = {}
  /\ Buffer \subseteq Nat /\ Nil \notin Request \cup Buffer
  /\ \A s \in Sizes : /\ s.threads \subseteq Thread /\ s.requests \subseteq Request
                       /\ s.memory \subseteq Buffer /\ IsFiniteSet(s.memory)
  /\ MaxPlanes \in Nat \ {0} /\ MaxBuffer \in Nat \ {0}

VARIABLES
  size,      \* the member of Sizes this behaviour is about
  heap,      \* buffers, groups and the device
  instance,  \* is there an instance?
  task,      \* "none", "new", or "ready" once an algorithm is loaded
  status,    \* status of each request, "none" before and after its life
  planes,    \* the buffers of a request: group indices of their planes
  tbufs,     \* the task's buffers that the program has not given back
  sett,      \* the settings buffer of a request: its address, and whether the
             \* request still holds the creator's reference
  fifo,      \* commands the queue thread has not executed
  result,    \* result of a request's last command
  events,    \* sw_task_ctx->event_list
  event_num, \* sw_task_ctx->event_num
  pc, local, \* each thread's place in enqueue or dequeue and its variables
  lost,      \* history: references to a buffer that nobody will drop
  wild,      \* kinds of memory errors that happened
  slips      \* history: the situations, outside of what the library provides
             \* for, in which they happened

vars == <<size, heap, instance, task, status, planes, tbufs, sett, fifo, result,
          events, event_num, pc, local, lost, wild, slips>>

queue   == <<fifo, result, events, event_num, pc, local>>
content == <<planes, tbufs, sett>>

NoLocal == [req |-> Nil, evts |-> <<>>, id |-> 0, raced |-> FALSE]
NoSett  == [at |-> Nil, held |-> FALSE]

Init ==
  /\ size \in Sizes
  /\ heap = EmptyHeap
  /\ instance = FALSE /\ task = "none"
  /\ status = [r \in Request |-> "none"]
  /\ planes = [r \in Request |-> <<>>] /\ tbufs = <<>>
  /\ sett = [r \in Request |-> NoSett]
  /\ fifo = <<>> /\ events = <<>> /\ event_num = 0
  /\ result = [r \in Request |-> "none"]
  /\ pc = [t \in Thread |-> "idle"]
  /\ local = [t \in Thread |-> NoLocal]
  /\ lost = [u \in Buffer |-> 0]
  /\ slips = {} /\ wild = {}

Live == {u \in Buffer : heap.ref[u] > 0}
Free == size.memory \ Live

\* The next n addresses the driver's pool hands out, first fit; none if the
\* memory does not suffice.
Fresh(n) ==
  {us \in [1 .. n -> Free] :
     \A k \in 1 .. n : /\ \A j \in 1 .. k - 1 : us[j] < us[k]
                      /\ \A u \in Free \ ToSet(us) : us[k] < u}

SetHeap(h) == /\ heap' = h
              /\ wild' = IF h.bad THEN wild \cup {"buffer"} ELSE wild

-----------------------------------------------------------------------------
(* Instance and task.                                                      *)

\* csi_dsp_create_instance: the device, and the common queue that holds it too.
CreateInstance ==
  /\ ~instance /\ heap.dev = 0
  /\ instance' = TRUE
  /\ SetHeap(RetainDevice(RetainDevice(heap)))
  /\ UNCHANGED <<size, task, status, content, queue, lost, slips>>

DeleteInstance ==
  /\ instance /\ task = "none" /\ wild = {}
  /\ instance' = FALSE
  /\ SetHeap(ReleaseDevice(ReleaseDevice(heap)))
  /\ UNCHANGED <<size, task, status, content, queue, lost, slips>>

\* csi_dsp_create_task: a queue, which holds the device, and a group.
CreateTask ==
  /\ instance /\ task = "none" /\ wild = {}
  /\ task' = "new"
  /\ SetHeap(CreateGroup(RetainDevice(heap), TaskGroup))
  /\ UNCHANGED <<size, instance, status, content, queue, lost, slips>>

\* The planes, given as indices into a group, that are buffer u.
PlanesAt(bufs, g, u) ==
  {p \in (DOMAIN bufs) \X (1 .. MaxPlanes) :
     /\ p[2] \in DOMAIN bufs[p[1]]
     /\ GetFromGroup(heap, g, bufs[p[1]][p[2]]) = u}

PlanesOf(bufs, g, u) == Cardinality(PlanesAt(bufs, g, u))

\* csi_dsp_destroy_task.  Buffers of the task that the program did not give
\* back stay mapped, and nobody knows them any more.
DestroyTask ==
  /\ task # "none" /\ wild = {}
  /\ \A r \in Request : status[r] = "none"
  /\ \A t \in Thread : pc[t] = "idle"
  /\ task' = "none"
  /\ SetHeap(ReleaseGroup(ReleaseDevice(heap), TaskGroup))
  /\ lost' = [u \in Buffer |-> lost[u] + PlanesOf(tbufs, TaskGroup, u)]
  /\ tbufs' = <<>>
  /\ UNCHANGED <<size, instance, status, planes, sett, queue, slips>>

-----------------------------------------------------------------------------
(* The algorithm of a task.                                                *)

\* Those of the buffers us that are in U are released.
ReleaseOf(h0, us, U) ==
  FoldLeft(LAMBDA h, u : IF u \in U THEN ReleaseBuffer(h, u) ELSE h, h0, us)

\* A command's own buffers, each held by its creator and by the call's group.
\* Nobody looks whether the group could grow; a buffer it has not taken ends
\* like one that it has, when the group is released.
CallBuffers(us) ==
  FoldLeft(LAMBDA h, u : AddToGroup(CreateBuffer(h, u), CallGroup, u),
           CreateGroup(heap, CallGroup), us)

Part == {"sett", "bufs", "algo"}
Turn == [sett |-> 1, bufs |-> 2, algo |-> 3]

\* csi_dsp_task_config_algo: the parts whose buffers are released by name when
\* the call ends with out: "ok", "cmd", or the part whose buffer could not be
\* created.  Errors never release the array of buffer descriptors, nor the
\* settings when the array fails.
ConfigAlgoDrops(out) ==
  CASE out = "ok"   -> Part
    [] out = "cmd"  -> {"sett", "algo"}
    [] out = "algo" -> {"sett"}
    [] OTHER        -> {}

\* The parts the program passes, in their turn, and how far the call gets.
ConfigAlgo ==
  /\ task # "none" /\ wild = {}
  /\ \E given \in SUBSET Part, out \in {"ok", "cmd"} \cup Part :
       LET created == {p \in given : out \in Part => Turn[p] < Turn[out]}
           place(p) == Cardinality({q \in created : Turn[q] <= Turn[p]})
       IN /\ out \in given \cup {"ok", "cmd"}
          /\ \E us \in Fresh(Cardinality(created)) :
               LET drops == {us[place(p)] : p \in created \cap ConfigAlgoDrops(out)}
               IN /\ SetHeap(ReleaseGroup(ReleaseOf(CallBuffers(us), us, drops), CallGroup))
                  /\ lost' = [u \in Buffer |->
                       lost[u] + IF u \in ToSet(us) \ drops THEN 1 ELSE 0]
          /\ task' = IF out = "ok" THEN "ready" ELSE task
  /\ UNCHANGED <<size, instance, status, content, queue, slips>>

\* csi_dsp_task_load_algo
LoadAlgo ==
  /\ task # "none" /\ wild = {}
  /\ task' = "ready"
  /\ UNCHANGED <<size, heap, instance, status, content, queue, lost, slips, wild>>

\* csi_dsp_task_acquire_algo: when reading the file or the command fails, the
\* group and the buffer are forgotten, whether the group holds it or could not
\* grow; when the buffer cannot be created, so is the empty group.
AcquireAlgo ==
  /\ task # "none" /\ wild = {}
  /\ \/ \E us \in Fresh(1) :
          LET h == CallBuffers(us) IN
          \/ /\ SetHeap(ReleaseGroup(ReleaseBuffer(h, us[1]), CallGroup))
             /\ task' = "ready"
             /\ UNCHANGED lost
          \/ \E held \in {1, 2} :
               /\ SetHeap([h EXCEPT !.ref[us[1]] = held,
                                    !.gref[CallGroup] = 0, !.grp[CallGroup] = <<>>])
               /\ lost' = [lost EXCEPT ![us[1]] = held]
               /\ UNCHANGED task
     \/ UNCHANGED <<heap, task, lost, wild>>
  /\ UNCHANGED <<size, instance, status, content, queue, slips>>

-----------------------------------------------------------------------------
(* Buffers of tasks and requests.                                          *)

\* One plane: created, mapped and put into the group.
AddPlane(h, g, u) == AddToGroup(MapBuffer(CreateBuffer(h, u), u), g, u)

\* Variant: the buffer from the group is released as its documentation asks.
DropPlaneTwice(h, g, i) ==
  LET u == GetFromGroup(h, g, i)
  IN ReleaseBuffer(ReleaseBuffer(UnmapBuffer(h, u), u), u)

\* A plane given back stays in the group.
DropPlane(h, g, i) ==
  LET u == GetFromGroup(h, g, i) IN ReleaseBuffer(UnmapBuffer(h, u), u)

AddPlanes(g, us) == FoldLeft(LAMBDA h, u : AddPlane(h, g, u), heap, us)

DropPlanes(h0, g, is) == FoldLeft(LAMBDA h, i : DropPlane(h, g, i), h0, is)

\* All the planes of all the buffers.
DropBuffers(h0, g, bufs) == FoldLeft(LAMBDA h, is : DropPlanes(h, g, is), h0, bufs)

\* The group indices of the next n buffers of a group.
NextIndices(g, n) == [k \in 1 .. n |-> Len(heap.grp[g]) + k]

\* csi_dsp_task_create_buffer.  A buffer of no planes, which the code takes for
\* created, leaves what a failed one leaves: nothing is listed for it.
TaskCreateBuffer ==
  /\ task # "none" /\ wild = {}
  /\ \E n \in 0 .. MaxPlanes : \E us \in Fresh(n) :
       LET is == NextIndices(TaskGroup, n) IN
       \/ /\ n > 0
          /\ SetHeap(AddPlanes(TaskGroup, us))
          /\ tbufs' = Append(tbufs, is)
       \/ /\ n < MaxPlanes   \* the next plane fails
          /\ SetHeap(DropPlanes(AddPlanes(TaskGroup, us), TaskGroup, is))
          /\ UNCHANGED tbufs
  /\ UNCHANGED <<size, instance, task, status, planes, sett, queue, lost, slips>>

\* csi_dsp_task_free_buffer, once for every buffer.
TaskFreeBuffer ==
  /\ wild = {}
  /\ \E k \in DOMAIN tbufs :
       /\ SetHeap(DropPlanes(heap, TaskGroup, tbufs[k]))
       /\ tbufs' = RemoveAt(tbufs, k)
  /\ UNCHANGED <<size, instance, task, status, planes, sett, queue, lost, slips>>

\* The program has the request in its hands.
Owned(r) ==
  /\ wild = {}
  /\ status[r] \notin {"none", "running"}
  /\ \A t \in Thread : local[t].req # r

CreateRequest(r) ==
  /\ r \in size.requests
  /\ wild = {} /\ task = "ready" /\ status[r] = "none"
  /\ status' = [status EXCEPT ![r] = "idle"]
  /\ SetHeap(CreateGroup(heap, r))
  /\ UNCHANGED <<size, instance, task, content, queue, lost, slips>>

\* csi_dsp_request_add_buffer; the array of the request is not checked for its
\* size, and a buffer may have no planes.
RequestAddBuffer(r) ==
  /\ Owned(r)
  /\ \E n \in 0 .. MaxPlanes : \E us \in Fresh(n) :
       LET is == NextIndices(r, n) IN
       \/ /\ heap' = AddPlanes(r, us)
          /\ planes' = [planes EXCEPT ![r] = Append(@, is)]
          /\ IF Len(planes[r]) < MaxBuffer THEN UNCHANGED <<slips, wild>>
             ELSE slips' = {"array"} /\ wild' = {"array"}
       \/ /\ n < MaxPlanes
          /\ SetHeap(DropPlanes(AddPlanes(r, us), r, is))
          /\ UNCHANGED <<planes, slips>>
  /\ UNCHANGED <<size, instance, task, status, tbufs, sett, queue, lost>>

\* csi_dsp_request_set_property.  An earlier settings buffer is forgotten; when
\* the group cannot grow, the address of the released buffer stays.
RequestSetProperty(r) ==
  /\ Owned(r)
  /\ \E us \in Fresh(1) :
       LET u == us[1] h == CreateBuffer(heap, u) old == sett[r] IN
       /\ \/ /\ SetHeap(AddToGroup(h, r, u))
             /\ sett' = [sett EXCEPT ![r] = [at |-> u, held |-> TRUE]]
          \/ /\ SetHeap(ReleaseBuffer(h, u))
             /\ sett' = [sett EXCEPT ![r] = [at |-> u, held |-> FALSE]]
       /\ lost' = IF old.held THEN [lost EXCEPT ![old.at] = @ + 1] ELSE lost
  /\ UNCHANGED <<size, instance, task, status, planes, tbufs, queue, slips>>

\* Variant: the settings buffer is left to the group.
SettUnreleased(h, r) == h

\* The loop for the settings in csi_dsp_task_release_request: the first buffer
\* of the group at the address of the settings is released.
SettReleased(h, r) ==
  IF sett[r].at \in ToSet(h.grp[r]) THEN ReleaseBuffer(h, sett[r].at) ELSE h

\* csi_dsp_task_release_request
ReleaseRequest(r) ==
  /\ Owned(r)
  /\ SetHeap(ReleaseGroup(SettReleased(DropBuffers(heap, r, planes[r]), r), r))
  /\ status' = [status EXCEPT ![r] = "none"]
  /\ planes' = [planes EXCEPT ![r] = <<>>]
  /\ sett' = [sett EXCEPT ![r] = NoSett]
  /\ slips' = IF sett[r].at # Nil /\ ~sett[r].held /\ wild' # {}
            THEN {"sett"} ELSE slips
  /\ UNCHANGED <<size, instance, task, tbufs, queue, lost>>

-----------------------------------------------------------------------------
(* Enqueue and dequeue.                                                    *)

Goto(t, from, to, l) ==
  /\ pc[t] = from /\ wild = {}
  /\ pc' = [pc EXCEPT ![t] = to]
  /\ local' = [local EXCEPT ![t] = l]

objects == <<size, instance, task, content, lost>>

\* csi_dsp_request_enqueue, up to the status; the command takes a reference to
\* the group.  When the command cannot be created the request stays as it is.
EnqueueCommand(t, r) ==
  /\ Owned(r) /\ t \in size.threads
  /\ Goto(t, "idle", "add", [NoLocal EXCEPT !.req = r])
  /\ fifo' = Append(fifo, r)
  /\ result' = [result EXCEPT ![r] = "pending"]
  /\ status' = [status EXCEPT ![r] = "running"]
  /\ SetHeap(RetainGroup(heap, r))
  /\ UNCHANGED <<objects, events, event_num, slips>>

\* The threads that have copied the event list and not yet read the number of
\* events again.
Counting == {t \in Thread : pc[t] = "count"}

\* The critical section of csi_dsp_request_enqueue.
EnqueueList(t) ==
  /\ pc[t] = "add" /\ wild = {}
  /\ pc' = [pc EXCEPT ![t] = "idle"]
  /\ local' = [x \in Thread |-> IF x = t THEN NoLocal
                 ELSE [local[x] EXCEPT !.raced = @ \/ x \in Counting]]
  /\ events' = Append(events, local[t].req)
  /\ event_num' = event_num + 1
  /\ UNCHANGED <<objects, heap, status, fifo, result, wild, slips>>

\* The queue thread executes the first command (xrp_request_process).  When the
\* ioctl fails nothing is written to the status in the event item.
Process ==
  /\ fifo # <<>> /\ wild = {}
  /\ fifo' = Tail(fifo)
  /\ \E x \in {"ok", "error", "failed"} : result' = [result EXCEPT ![Head(fifo)] = x]
  /\ SetHeap(ReleaseGroup(heap, Head(fifo)))
  /\ UNCHANGED <<objects, status, events, event_num, pc, local, slips>>

Dequeuing == {t \in Thread : pc[t] \in {"count", "blocked", "found", "delete"}}

\* csi_dsp_request_dequeue: the events are copied under the mutex.
DequeueCopy(t) ==
  /\ task = "ready" /\ t \in size.threads
  /\ pc[t] = "idle" /\ wild = {}
  /\ pc' = [pc EXCEPT ![t] = "count"]
  /\ local' = [x \in Thread |->
       IF x = t THEN [NoLocal EXCEPT !.evts = events, !.raced = Dequeuing # {}]
       ELSE [local[x] EXCEPT !.raced = @ \/ x \in Dequeuing]]
  /\ UNCHANGED <<objects, heap, status, fifo, result, events, event_num, wild, slips>>

\* The dequeue gives up and returns NULL.
GiveUp(t, from) ==
  /\ Goto(t, from, "idle", NoLocal)
  /\ UNCHANGED <<objects, heap, status, fifo, result, events, event_num, slips, wild>>

Corrupts(t, what) == /\ wild' = {what}
                     /\ slips' = IF local[t].raced THEN {"race"} ELSE {}

Complete(evts) == {k \in DOMAIN evts : result[evts[k]] # "pending"}

\* xrp_wait_any on the copied array with the present number of events: it ends
\* at once with the first complete event, or blocks.
DequeueWait(t) ==
  LET evts == SubSeq(local[t].evts, 1, event_num) IN
  /\ pc[t] = "count" /\ event_num \in 1 .. Len(local[t].evts)
  /\ Nil \notin ToSet(evts)
  /\ IF Complete(evts) = {}
     THEN Goto(t, "count", "blocked", [local[t] EXCEPT !.evts = evts])
     ELSE Goto(t, "count", "found", [local[t] EXCEPT !.id = Min(Complete(evts))])
  /\ UNCHANGED <<objects, heap, status, fifo, result, events, event_num, slips, wild>>

DequeueNone(t) == event_num = 0 /\ GiveUp(t, "count")

\* The wait reads past the end of the array, or an event that was released.
DequeueWaitWild(t) ==
  /\ pc[t] = "count"
  /\ \E k \in 1 .. event_num :
       k > Len(local[t].evts) \/ (k <= Len(local[t].evts) /\ local[t].evts[k] = Nil)
  /\ Goto(t, "count", "idle", NoLocal)
  /\ Corrupts(t, "events")
  /\ UNCHANGED <<objects, heap, status, fifo, result, events, event_num>>

\* The wait ends; an event that another thread released meanwhile is freed
\* memory.
DequeueWake(t) ==
  LET evts == local[t].evts IN
  /\ pc[t] = "blocked"
  /\ IF Nil \in ToSet(evts)
     THEN Goto(t, "blocked", "idle", NoLocal) /\ Corrupts(t, "events")
     ELSE /\ \E k \in Complete(evts) :
               Goto(t, "blocked", "found", [local[t] EXCEPT !.id = k])
          /\ UNCHANGED <<wild, slips>>
  /\ UNCHANGED <<objects, heap, status, fifo, result, events, event_num>>

\* Variant: the last index counts as out of range.
OutOfRangeEarly(id) == id >= event_num

\* The index the wait returned, counted from one, against the number of events.
OutOfRange(id) == id > event_num

\* The number of events is read once more, and the list is searched without
\* the mutex for the item of the event.  If it is not there, the search ends at
\* the list head.
DequeueFind(t) ==
  LET l == local[t] IN
  \/ pc[t] = "found" /\ OutOfRange(l.id) /\ GiveUp(t, "found")
  \/ /\ pc[t] = "found" /\ ~OutOfRange(l.id)
     /\ Goto(t, "found", "delete",
             [l EXCEPT !.req = IF l.evts[l.id] \in ToSet(events) THEN l.evts[l.id] ELSE Nil])
     /\ UNCHANGED <<objects, heap, status, fifo, result, events, event_num, slips, wild>>

\* Variant: the number of events is not counted down.
EventNumKept == event_num

EventNumDown == event_num - 1

\* The item is taken off the list and freed with its event; the request gets its
\* status, from memory never written if the ioctl failed.
DequeueDelete(t) ==
  LET r == local[t].req IN
  /\ r # Nil /\ r \in ToSet(events)
  /\ pc[t] = "delete" /\ wild = {}
  /\ pc' = [pc EXCEPT ![t] = "idle"]
  /\ events' = RemoveFirst(events, r)
  /\ event_num' = EventNumDown
  /\ \E x \in {"done", "fail"} :
       /\ result[r] = "ok" => x = "done"
       /\ result[r] = "error" => x = "fail"
       /\ status' = [status EXCEPT ![r] = x]
  /\ local' = [x \in Thread |-> IF x = t THEN NoLocal
                 ELSE [local[x] EXCEPT !.evts = [k \in DOMAIN @ |-> IF @[k] = r THEN Nil ELSE @[k]]]]
  /\ result' = [result EXCEPT ![r] = "none"]
  /\ UNCHANGED <<objects, heap, fifo, slips, wild>>

\* The list head, or an item another thread has freed, is taken off the list.
DequeueDeleteWild(t) ==
  /\ pc[t] = "delete" /\ (local[t].req = Nil \/ local[t].req \notin ToSet(events))
  /\ Goto(t, "delete", "idle", NoLocal)
  /\ Corrupts(t, "list")
  /\ UNCHANGED <<objects, heap, status, fifo, result, events, event_num>>

-----------------------------------------------------------------------------

TaskNext ==
  \/ CreateInstance \/ DeleteInstance \/ CreateTask \/ DestroyTask
  \/ ConfigAlgo \/ LoadAlgo \/ AcquireAlgo \/ TaskCreateBuffer \/ TaskFreeBuffer

RequestNext(r) ==
  \/ CreateRequest(r) \/ RequestAddBuffer(r) \/ RequestSetProperty(r)
  \/ ReleaseRequest(r)

\* A dequeue that has begun.
DequeueStep(t) ==
  \/ DequeueWait(t) \/ DequeueNone(t) \/ DequeueWaitWild(t) \/ DequeueWake(t)
  \/ DequeueFind(t) \/ DequeueDelete(t) \/ DequeueDeleteWild(t)

Next ==
  \/ TaskNext
  \/ \E r \in Request : RequestNext(r)
  \/ \E t \in Thread, r \in Request : EnqueueCommand(t, r)
  \/ \E t \in Thread : EnqueueList(t) \/ DequeueCopy(t) \/ DequeueStep(t)
  \/ Process

\* The threads run, and the program keeps collecting its requests.
Fairness ==
  /\ WF_vars(Process)
  /\ \A t \in Thread : WF_vars(EnqueueList(t)) /\ WF_vars(DequeueStep(t))
  /\ WF_vars(\E t \in Thread : DequeueCopy(t))

Spec == Init /\ [][Next]_vars /\ Fairness

-----------------------------------------------------------------------------
(* Properties.                                                             *)

Status == {"none", "idle", "running", "done", "fail"}

TypeOK ==
  /\ heap.ref \in [Buffer -> Nat] /\ heap.maps \in [Buffer -> Nat]
  /\ heap.gref \in [Group -> Nat] /\ heap.dev \in Nat
  /\ task \in {"none", "new", "ready"}
  /\ status \in [Request -> Status]
  /\ result \in [Request -> {"none", "pending", "ok", "error", "failed"}]
  /\ ToSet(events) \subseteq Request /\ event_num \in Nat
  /\ pc \in [Thread -> {"idle", "add", "count", "blocked", "found", "delete"}]
  /\ lost \in [Buffer -> Nat]
  /\ slips \subseteq {"race", "sett", "array"}
  /\ wild \subseteq {"buffer", "array", "events", "list"}

\* The members of the groups: a group and an index into it.
Members == UNION {{g} \X (DOMAIN heap.grp[g]) : g \in Group}

\* Every reference to a buffer has a holder: a group, a mapping, the request or
\* the program that created it; what the error paths of the algorithm calls and
\* a second csi_dsp_request_set_property forget is counted in lost, and nothing
\* else is forgotten.  The device is held by the instance, the queues and the
\* live buffers, so that it is closed exactly when the last of them goes.
BuffersAccounted ==
  wild = {} =>
    /\ \A u \in Buffer :
         heap.ref[u] =
             Cardinality({m \in Members : heap.grp[m[1]][m[2]] = u})
           + heap.maps[u] + PlanesOf(tbufs, TaskGroup, u)
           + Cardinality(UNION {{r} \X PlanesAt(planes[r], r, u) : r \in Request})
           + Cardinality({r \in Request : sett[r].held /\ sett[r].at = u})
           + lost[u]
    /\ heap.dev = (IF instance THEN 2 ELSE 0) + (IF task = "none" THEN 0 ELSE 1)
                  + Cardinality(Live)

\* Memory is used after its release only in the situations the library does not
\* provide for: a dequeue during which another thread dequeues, or enqueues
\* between the copy of the list and the second look at the number of events;
\* settings whose buffer could not be added to the group; more buffers than a
\* request has room for.
MemorySafe ==
  /\ wild \cap {"events", "list"} # {} => "race" \in slips
  /\ "buffer" \in wild => "sett" \in slips
  /\ "array" \in wild => "array" \in slips

\* A request is running exactly as long as its item is on the list, or about to
\* be put there by the thread that enqueues it, and the list has the length that
\* the next dequeue allocates for.
Outstanding ==
  /\ event_num = Len(events)
  /\ Cardinality(ToSet(events)) = Len(events)
  /\ \A r \in Request : status[r] = "running" <=>
       r \in ToSet(events) \/ \E t \in Thread : pc[t] = "add" /\ local[t].req = r

\* A request that was enqueued comes back to a program that keeps collecting,
\* also when its command failed, unless memory was corrupted.
Returned ==
  \A r \in Request : status[r] = "running" ~> (status[r] # "running" \/ wild # {})
=============================================================================
