------------------------------ MODULE XrpSubmit ------------------------------
(***************************************************************************)
(* The command path of the kernel driver: client threads inside            *)
(* xrp_ioctl_submit_sync, the hardware queues they share, the DSP on the   *)
(* other side of the shared memory, and the firmware reboot a timed-out    *)
(* command starts (driver/xrp-kernel/xvp_main.c).                          *)
(*                                                                         *)
(* A queue is one struct xrp_comm: a mutex and one command slot in shared  *)
(* memory.  A command is known by the client that issued it and its serial *)
(* number; its payload is abstracted to that identity.  A command slot has *)
(* a body (which command its fields describe), a bit saying whether the    *)
(* body is complete, the flags word, and the reply the DSP stored.         *)
(***************************************************************************)
EXTENDS Integers, FiniteSets

CONSTANTS
  Client,            \* threads calling the XRP_IOCTL_QUEUE ioctl
  NQueue,            \* xvp->n_queues as read from the device tree
  MaxCmd,            \* bound: commands a client issues
  FirmwareReboot,    \* values the firmware_reboot module parameter takes
  Signals,           \* may signals interrupt a client that waits for the DSP?
  Downgrade,         \* may a rebooted firmware refuse the queue priorities?
  Nobody             \* no client: a mutex that is not held, an empty body

ASSUME NQueueAssumption == NQueue \in Nat \ {0}
ASSUME ClientAssumption == Nobody \notin Client
ASSUME SwitchAssumption == /\ FirmwareReboot \subseteq BOOLEAN
                           /\ Signals \in BOOLEAN
                           /\ Downgrade \in BOOLEAN

Queue == 0 .. NQueue - 1

Flag == {"REQUEST_VALID", "RESPONSE_VALID", "DELIVERY_FAIL"}

\* A command, and what a body or the DSP may hold in place of one.
Cmd     == Client \X Nat
NoCmd   == <<Nobody, 0>>
TornCmd == <<Nobody, 1>>   \* a body read while a client was filling it
AnyCmd  == Cmd \cup {NoCmd, TornCmd}

Outcome == {"OK", "ENXIO", "EBUSY", "ERESTARTSYS", "ENODEV", "EFAULT", "none"}

VARIABLES
  \* struct xvp
  off, n_queues, reboot_cycle, reboot_cycle_complete,
  \* struct xrp_comm: the mutex, and the command slot in shared memory
  lock, body, whole, flags, reply,
  \* the DSP: is it running, and the command it executes for each queue
  running, work,
  \* locals of xrp_ioctl_submit_sync
  pc, serial, queue, seen, ret, went_off, got,
  \* commands whose buffers are shared with the DSP
  held,
  \* history: queues on which, since the last boot, a client stopped waiting
  \* for the DSP without having it rebooted
  abandoned

xvpVars   == <<off, n_queues, reboot_cycle, reboot_cycle_complete>>
commVars  == <<body, whole, flags, reply>>
dspVars   == <<running, work>>
localVars == <<serial, queue, seen, ret, went_off, got>>
vars == <<xvpVars, lock, commVars, dspVars, pc, localVars, held, abandoned>>

Init ==
  /\ off = FALSE
  /\ n_queues = NQueue
  /\ reboot_cycle = 0
  /\ reboot_cycle_complete = 0
  /\ lock  = [q \in Queue |-> Nobody]
  /\ body  = [q \in Queue |-> NoCmd]
  /\ whole = [q \in Queue |-> FALSE]
  /\ flags = [q \in Queue |-> {}]
  /\ reply = [q \in Queue |-> NoCmd]
  /\ running = TRUE
  /\ work  = [q \in Queue |-> NoCmd]
  /\ pc     = [t \in Client |-> "idle"]
  /\ serial = [t \in Client |-> 0]
  /\ queue  = [t \in Client |-> 0]
  /\ seen   = [t \in Client |-> 0]
  /\ ret    = [t \in Client |-> "none"]
  /\ went_off = [t \in Client |-> FALSE]
  /\ got    = [t \in Client |-> NoCmd]
  /\ held   = {}
  /\ abandoned = {}

-----------------------------------------------------------------------------
(* Helpers.                                                                *)

CmdOf(t) == <<t, serial[t]>>

\* The program counter of t moves from one label to another.
Goto(t, from, to) ==
  /\ pc[t] = from
  /\ pc' = [pc EXCEPT ![t] = to]

\* xrp_cmd_complete: both valid bits are set.
CmdComplete(q) == {"REQUEST_VALID", "RESPONSE_VALID"} \subseteq flags[q]

\* Variant: the priority is not cut off at the last queue.
SelectableUnclamped == IF n_queues > 1 THEN 0 .. n_queues ELSE {0}

\* The queues a priority can select: queue_ordered is a permutation of the
\* queues, so every queue when there are several, queue 0 otherwise.
Selectable == IF n_queues > 1 THEN Queue ELSE {0}

\* Variant: the loop that takes the mutexes stops one queue early.
ToLockShort(t) ==
  {q \in Queue : q < n_queues - 1 /\ q # queue[t] /\ lock[q] # t}

\* The queues whose mutex the rebooting thread t still has to take.
ToLock(t) == {q \in Queue : q < n_queues /\ q # queue[t] /\ lock[q] # t}

-----------------------------------------------------------------------------
(* The client thread.                                                      *)

\* Entry: the flags are valid, the priority picks a queue (n_queues is read
\* without a lock).  A bad user pointer or bad flags return at once.
Submit(t) ==
  /\ Goto(t, "idle", "map")
  /\ serial[t] < MaxCmd
  /\ serial' = [serial EXCEPT ![t] = @ + 1]
  /\ \E q \in Selectable : queue' = [queue EXCEPT ![t] = q]
  /\ ret' = [ret EXCEPT ![t] = "OK"]
  /\ went_off' = [went_off EXCEPT ![t] = FALSE]
  /\ got' = [got EXCEPT ![t] = NoCmd]
  /\ UNCHANGED <<xvpVars, lock, commVars, dspVars, seen, held, abandoned>>

\* xrp_map_request: the buffers are shared with the DSP, or nothing is.
MapRequest(t) ==
  /\ \/ /\ Goto(t, "map", "lock")
        /\ held' = held \cup {CmdOf(t)}
        /\ UNCHANGED ret
     \/ /\ Goto(t, "map", "idle")
        /\ ret' = [ret EXCEPT ![t] = "EFAULT"]
        /\ UNCHANGED held
  /\ UNCHANGED <<xvpVars, lock, commVars, dspVars,
                 serial, queue, seen, went_off, got, abandoned>>

\* mutex_lock(&queue->lock), and the first of the two atomic reads.
Lock(t) ==
  /\ Goto(t, "lock", "check")
  /\ lock[queue[t]] = Nobody
  /\ lock' = [lock EXCEPT ![queue[t]] = t]
  /\ seen' = [seen EXCEPT ![t] = reboot_cycle]
  /\ UNCHANGED <<xvpVars, commVars, dspVars,
                 serial, queue, ret, went_off, got, held, abandoned>>

\* Variant: the mutex is kept over the retry.
RetryLocked(t) ==
  /\ Goto(t, "check", "lock")
  /\ seen[t] # reboot_cycle_complete
  /\ UNCHANGED <<xvpVars, lock, commVars, dspVars, localVars, held, abandoned>>

\* A reboot is pending: unlock and try again.
Retry(t) ==
  /\ Goto(t, "check", "lock")
  /\ seen[t] # reboot_cycle_complete
  /\ lock' = [lock EXCEPT ![queue[t]] = Nobody]
  /\ UNCHANGED <<xvpVars, commVars, dspVars, localVars, held, abandoned>>

\* Variant: the state of the device is not checked.
ProceedBlindly(t) ==
  /\ seen[t] = reboot_cycle_complete
  /\ Goto(t, "check", "fill")
  /\ UNCHANGED <<xvpVars, lock, commVars, dspVars, localVars, held, abandoned>>

\* No reboot is pending: -ENODEV when the DSP went off, else go on.
Proceed(t) ==
  /\ seen[t] = reboot_cycle_complete
  /\ \/ /\ off
        /\ Goto(t, "check", "unlock")
        /\ ret' = [ret EXCEPT ![t] = "ENODEV"]
     \/ /\ ~off
        /\ Goto(t, "check", "fill")
        /\ UNCHANGED ret
  /\ UNCHANGED <<xvpVars, lock, commVars, dspVars,
                 serial, queue, seen, went_off, got, held, abandoned>>

\* Variant: the flags word is written before the fields.
FillAfterFlags(t) ==
  /\ Goto(t, "fill", "publish")
  /\ body'  = [body EXCEPT ![queue[t]] = CmdOf(t)]
  /\ whole' = [whole EXCEPT ![queue[t]] = FALSE]
  /\ flags' = [flags EXCEPT ![queue[t]] = {"REQUEST_VALID"}]
  /\ UNCHANGED <<xvpVars, lock, reply, dspVars, localVars, held, abandoned>>

\* xrp_fill_hw_request writes the fields of the command ...
Fill(t) ==
  /\ Goto(t, "fill", "publish")
  /\ body'  = [body EXCEPT ![queue[t]] = CmdOf(t)]
  /\ whole' = [whole EXCEPT ![queue[t]] = FALSE]
  /\ UNCHANGED <<xvpVars, lock, flags, reply, dspVars, localVars, held, abandoned>>

\* ... and, after a barrier, the flags word; then the DSP is interrupted.
Publish(t) ==
  /\ Goto(t, "publish", "wait")
  /\ whole' = [whole EXCEPT ![queue[t]] = TRUE]
  /\ flags' = [flags EXCEPT ![queue[t]] = {"REQUEST_VALID"}]
  /\ UNCHANGED <<xvpVars, lock, body, reply, dspVars, localVars, held, abandoned>>

\* xvp_complete_cmd_irq / _poll return 0: the slot holds a response.
WaitDone(t) ==
  /\ CmdComplete(queue[t])
  /\ Goto(t, "wait", "collect")
  /\ UNCHANGED <<xvpVars, lock, commVars, dspVars, localVars, held, abandoned>>

\* They return -EBUSY: no response, and the deadline has passed or the panic
\* word is set.  The decision is taken here; the DSP may still answer.
WaitBusy(t) ==
  /\ ~CmdComplete(queue[t])
  /\ ret' = [ret EXCEPT ![t] = "EBUSY"]
  /\ \/ /\ TRUE \in FirmwareReboot
        /\ Goto(t, "wait", "count")
        /\ UNCHANGED abandoned
     \/ /\ FALSE \in FirmwareReboot
        /\ Goto(t, "wait", "unlock")
        /\ abandoned' = abandoned \cup {queue[t]}
  /\ UNCHANGED <<xvpVars, lock, commVars, dspVars,
                 serial, queue, seen, went_off, got, held>>

\* The interruptible wait of xvp_complete_cmd_irq is cut short by a signal.
WaitSignal(t) ==
  /\ Signals
  /\ ~CmdComplete(queue[t])
  /\ Goto(t, "wait", "unlock")
  /\ ret' = [ret EXCEPT ![t] = "ERESTARTSYS"]
  /\ abandoned' = abandoned \cup {queue[t]}
  /\ UNCHANGED <<xvpVars, lock, commVars, dspVars,
                 serial, queue, seen, went_off, got, held>>

\* xrp_complete_hw_request: read the reply, clear the flags.
Collect(t) ==
  LET q == queue[t] IN
  /\ Goto(t, "collect", "unlock")
  /\ got' = [got EXCEPT ![t] = reply[q]]
  /\ ret' = [ret EXCEPT ![t] =
               IF "DELIVERY_FAIL" \in flags[q] THEN "ENXIO" ELSE "OK"]
  /\ flags' = [flags EXCEPT ![q] = {}]
  /\ UNCHANGED <<xvpVars, lock, body, whole, reply, dspVars,
                 serial, queue, seen, went_off, held, abandoned>>

\* Variant: every thread that times out reboots.
CountTimeoutAll(t) ==
  /\ Goto(t, "count", "gather")
  /\ reboot_cycle' = reboot_cycle + 1
  /\ UNCHANGED <<off, n_queues, reboot_cycle_complete, lock, commVars,
                 dspVars, localVars, held, abandoned>>

\* Variant: the old value of the counter is compared with seen + 1.
CountTimeoutNone(t) ==
  /\ Goto(t, "count", IF reboot_cycle = seen[t] + 1 THEN "gather" ELSE "unlock")
  /\ reboot_cycle' = reboot_cycle + 1
  /\ UNCHANGED <<off, n_queues, reboot_cycle_complete, lock, commVars,
                 dspVars, localVars, held, abandoned>>

\* atomic_inc_return(&reboot_cycle) == reboot_cycle + 1 makes t the one
\* thread that reboots in this cycle; any other thread just leaves.
CountTimeout(t) ==
  /\ Goto(t, "count",
          IF reboot_cycle + 1 = seen[t] + 1 THEN "gather" ELSE "unlock")
  /\ reboot_cycle' = reboot_cycle + 1
  /\ UNCHANGED <<off, n_queues, reboot_cycle_complete, lock, commVars,
                 dspVars, localVars, held, abandoned>>

\* The rebooting thread takes the mutexes of the other queues by index.
GatherLock(t) ==
  /\ pc[t] = "gather"
  /\ \E q \in ToLock(t) :
       /\ \A p \in ToLock(t) : q <= p
       /\ lock[q] = Nobody
       /\ lock' = [lock EXCEPT ![q] = t]
  /\ UNCHANGED <<xvpVars, commVars, dspVars, pc, localVars, held, abandoned>>

\* xrp_boot_firmware stops the core first.
Halt(t) ==
  /\ ToLock(t) = {}
  /\ Goto(t, "gather", "boot")
  /\ running' = FALSE
  /\ UNCHANGED <<xvpVars, lock, commVars, work, localVars, held, abandoned>>

\* Variant: every error of the boot counts as the device going off.
BootNoFirmwareOff(t) ==
  /\ Goto(t, "boot", "complete")
  /\ ret' = [ret EXCEPT ![t] = "EFAULT"]
  /\ went_off' = [went_off EXCEPT ![t] = TRUE]
  /\ UNCHANGED <<xvpVars, lock, commVars, dspVars,
                 serial, queue, seen, got, held, abandoned>>

\* request_firmware fails: the core stays halted, off stays as it was.
BootNoFirmware(t) ==
  /\ Goto(t, "boot", "complete")
  /\ ret' = [ret EXCEPT ![t] = "EFAULT"]
  /\ went_off' = [went_off EXCEPT ![t] = off]
  /\ UNCHANGED <<xvpVars, lock, commVars, dspVars,
                 serial, queue, seen, got, held, abandoned>>

\* The handshake overlays the flags word of a queue with a "sync" word and
\* leaves it zero.
ClearFlags(n) == flags' = [q \in Queue |-> IF q < n THEN {} ELSE flags[q]]

\* A firmware that speaks version 2 has all queues cleared and may refuse the
\* priorities; one that speaks version 1 knows queue 0 only.
Handshake ==
  \/ ClearFlags(n_queues) /\ UNCHANGED n_queues
  \/ ClearFlags(n_queues) /\ Downgrade /\ n_queues' = 1
  \/ ClearFlags(1) /\ Downgrade /\ n_queues' = 1

\* Variant: the core is not reset and goes on with what it was doing.
BootOkNoReset(t) ==
  /\ Goto(t, "boot", "complete")
  /\ Handshake
  /\ running' = TRUE
  /\ abandoned' = {}
  /\ UNCHANGED <<off, reboot_cycle, reboot_cycle_complete, lock,
                 body, whole, reply, work, localVars, held>>

\* The core starts afresh and the handshake succeeds.
BootOk(t) ==
  /\ Goto(t, "boot", "complete")
  /\ Handshake
  /\ work' = [q \in Queue |-> NoCmd]
  /\ running' = TRUE
  /\ abandoned' = {}
  /\ UNCHANGED <<off, reboot_cycle, reboot_cycle_complete, lock,
                 body, whole, reply, localVars, held>>

\* The handshake fails at some point: the core is halted again and the
\* device goes off for good.
BootSyncFail(t) ==
  /\ Goto(t, "boot", "complete")
  /\ Handshake \/ (ClearFlags(1) /\ UNCHANGED n_queues)
  /\ work' = [q \in Queue |-> NoCmd]
  /\ off' = TRUE
  /\ ret' = [ret EXCEPT ![t] = "ENODEV"]
  /\ went_off' = [went_off EXCEPT ![t] = TRUE]
  /\ UNCHANGED <<reboot_cycle, reboot_cycle_complete, lock, body, whole,
                 reply, running, serial, queue, seen, got, held, abandoned>>

\* Variant: the counter of finished reboots advances by one.
BootCompleteByOne(t) ==
  /\ Goto(t, "complete", "unlock")
  /\ reboot_cycle_complete' = reboot_cycle_complete + 1
  /\ lock' = [q \in Queue |-> IF q < n_queues /\ q # queue[t]
                              THEN Nobody ELSE lock[q]]
  /\ UNCHANGED <<off, n_queues, reboot_cycle, commVars, dspVars,
                 localVars, held, abandoned>>

\* Variant: the loop releases the thread's own queue as well.
BootCompleteAll(t) ==
  /\ Goto(t, "complete", "unlock")
  /\ reboot_cycle_complete' = reboot_cycle
  /\ lock' = [q \in Queue |-> IF q < n_queues THEN Nobody ELSE lock[q]]
  /\ UNCHANGED <<off, n_queues, reboot_cycle, commVars, dspVars,
                 localVars, held, abandoned>>

\* The reboot is over: publish the cycle, release the other mutexes, as many
\* as n_queues now says.
BootComplete(t) ==
  /\ Goto(t, "complete", "unlock")
  /\ reboot_cycle_complete' = reboot_cycle
  /\ lock' = [q \in Queue |-> IF q < n_queues /\ q # queue[t]
                              THEN Nobody ELSE lock[q]]
  /\ UNCHANGED <<off, n_queues, reboot_cycle, commVars, dspVars,
                 localVars, held, abandoned>>

Unlock(t) ==
  /\ Goto(t, "unlock", "unmap")
  /\ lock' = [lock EXCEPT ![queue[t]] = Nobody]
  /\ UNCHANGED <<xvpVars, commVars, dspVars, localVars, held, abandoned>>

\* xrp_unmap_request(_nowb) ends the sharing of the buffers, unless this
\* thread saw the DSP go off: then they are leaked.  Writing back the results
\* of a command that succeeded may fail.
Unmap(t) ==
  /\ Goto(t, "unmap", "idle")
  /\ \/ /\ ret[t] = "OK"
        /\ \E r \in {"OK", "EFAULT"} : ret' = [ret EXCEPT ![t] = r]
        /\ held' = held \ {CmdOf(t)}
     \/ /\ ret[t] # "OK"
        /\ held' = IF went_off[t] THEN held ELSE held \ {CmdOf(t)}
        /\ UNCHANGED ret
  /\ UNCHANGED <<xvpVars, lock, commVars, dspVars,
                 serial, queue, seen, went_off, got, abandoned>>

-----------------------------------------------------------------------------
(* The DSP firmware, as the driver sees it.                                *)

\* It picks up a request that has no response yet, on the queues agreed on.
DspTake(q) ==
  /\ running
  /\ q < n_queues
  /\ work[q] = NoCmd
  /\ "REQUEST_VALID" \in flags[q]
  /\ "RESPONSE_VALID" \notin flags[q]
  /\ work' = [work EXCEPT ![q] = IF whole[q] THEN body[q] ELSE TornCmd]
  /\ UNCHANGED <<xvpVars, lock, commVars, running, pc, localVars, held, abandoned>>

\* It stores the reply and writes the flags word it read, plus the response
\* bits.
DspDone(q) ==
  /\ running
  /\ work[q] # NoCmd
  /\ reply' = [reply EXCEPT ![q] = work[q]]
  /\ \E fail \in SUBSET {"DELIVERY_FAIL"} :
       flags' = [flags EXCEPT ![q] =
                   {"REQUEST_VALID", "RESPONSE_VALID"} \cup fail]
  /\ work' = [work EXCEPT ![q] = NoCmd]
  /\ UNCHANGED <<xvpVars, lock, body, whole, running, pc, localVars, held, abandoned>>

-----------------------------------------------------------------------------

\* What a client does by itself once it has entered the ioctl.
Wait(t) == WaitDone(t) \/ WaitBusy(t)

Boot(t) == BootNoFirmware(t) \/ BootOk(t) \/ BootSyncFail(t)

Step(t) ==
  \/ MapRequest(t) \/ Retry(t) \/ Proceed(t) \/ Fill(t) \/ Publish(t)
  \/ Wait(t) \/ Collect(t) \/ CountTimeout(t) \/ Halt(t) \/ Boot(t)
  \/ BootComplete(t) \/ Unlock(t) \/ Unmap(t)

Dsp(q) == DspTake(q) \/ DspDone(q)

\* Every client has issued its commands and left.
Finished ==
  /\ \A t \in Client : pc[t] = "idle" /\ serial[t] >= MaxCmd
  /\ UNCHANGED vars

Next ==
  \/ \E t \in Client : Submit(t) \/ Lock(t) \/ GatherLock(t)
                          \/ WaitSignal(t) \/ Step(t)
  \/ \E q \in Queue : Dsp(q)
  \/ Finished

Spec == Init /\ [][Next]_vars

\* A thread in the kernel keeps running (weak fairness; a wait ends because
\* its timeout is finite) and a kernel mutex is handed to its waiters in
\* order, so a waiter that finds it free again and again gets it (strong).
\* Nothing is assumed of the DSP.
Fairness ==
  \A t \in Client : /\ WF_vars(Step(t))
                    /\ SF_vars(Lock(t))
                    /\ SF_vars(GatherLock(t))

FairSpec == Spec /\ Fairness
-----------------------------------------------------------------------------
(* Properties.                                                             *)

\* Labels at which a client owns the mutex of its queue, talks to the DSP
\* through the slot, or owns the reboot of the firmware.
Talking   == {"fill", "publish", "wait", "collect"}
Rebooting == {"gather", "boot", "complete"}
Holding   == Talking \cup Rebooting \cup {"check", "count", "unlock"}

\* Every variable has its type.
TypeOK ==
  /\ off \in BOOLEAN
  /\ n_queues \in 1 .. NQueue
  /\ reboot_cycle \in Nat
  /\ reboot_cycle_complete \in Nat
  /\ lock  \in [Queue -> Client \cup {Nobody}]
  /\ body  \in [Queue -> Cmd \cup {NoCmd}]
  /\ whole \in [Queue -> BOOLEAN]
  /\ flags \in [Queue -> SUBSET Flag]
  /\ reply \in [Queue -> AnyCmd]
  /\ running \in BOOLEAN
  /\ work  \in [Queue -> AnyCmd]
  /\ pc     \in [Client -> Holding \cup {"idle", "map", "lock", "unmap"}]
  /\ serial \in [Client -> Nat]
  /\ queue  \in [Client -> Queue]
  /\ seen   \in [Client -> Nat]
  /\ ret    \in [Client -> Outcome]
  /\ went_off \in [Client -> BOOLEAN]
  /\ got    \in [Client -> AnyCmd]
  /\ held   \subseteq Cmd
  /\ abandoned \subseteq Queue

\* The firmware still serves every queue the driver started with.
Intact == n_queues = NQueue

\* Two clients never use the slot of one queue at the same time, whatever
\* retries, reboots and downgrades happen around them (queue->lock).
SlotExclusive ==
  \A t, u \in Client :
    pc[t] \in Holding /\ pc[u] \in Holding /\ queue[t] = queue[u] => t = u

\* While one client boots the firmware no other client is anywhere between
\* taking its queue's mutex and releasing it: nobody posts to, polls or reads
\* a slot whose flags word the handshake overwrites.
BootExcludesIo ==
  Intact => \A t, u \in Client :
    pc[t] \in {"boot", "complete"} /\ pc[u] \in Holding => t = u

\* At most one of the clients that time out in a cycle reboots the firmware.
OneRebooter ==
  \A t, u \in Client : pc[t] \in Rebooting /\ pc[u] \in Rebooting => t = u

\* The counters differ only while some client owns the reboot; otherwise the
\* retry loop of every later submission would spin for ever.
RebootHasOwner ==
  Intact /\ reboot_cycle # reboot_cycle_complete =>
    \E t \in Client : pc[t] \in Rebooting

\* The reply a submission returns was computed for the command it submitted,
\* not for an earlier one that timed out on the same queue; only a command
\* abandoned without a reboot can leave such a reply behind.
AnswerIsOwn ==
  \A t \in Client :
    /\ pc[t] = "unlock"
    /\ ret[t] \in {"OK", "ENXIO"}
    /\ queue[t] \notin abandoned
    => got[t] = CmdOf(t)

\* AnswerIsOwn without its condition: success always means that the response
\* is the one to the submitted command, as the API documents it.
SuccessMeansOwnResponse ==
  \A t \in Client : pc[t] = "unlock" /\ ret[t] = "OK" => got[t] = CmdOf(t)

\* The DSP never picks up a body that a client is still writing: unless a
\* command was abandoned there, the flags word is zero until the fields are
\* complete.
NoTornCommand == \A q \in Queue \ abandoned : work[q] # TornCmd

\* Once the device went off the core is halted and no client posts to it.
SilentWhenOff ==
  Intact /\ off => ~running /\ \A t \in Client : pc[t] \notin Talking

\* The DSP works only on commands whose buffers are still shared with it.
DspOwnsBuffers ==
  \A q \in Queue : running /\ work[q] # NoCmd => work[q] \in held

\* What remains of DspOwnsBuffers when a thread that loses the race to reboot
\* unmaps its buffers: the reboot that stops the DSP is under way.
ExposureEnds ==
  \A q \in Queue \ abandoned :
    running /\ work[q] # NoCmd /\ work[q] \notin held =>
      \E t \in Client : pc[t] = "gather"

\* Buffers stay shared after their submission returned only when the device
\* went off.
LeakOnlyWhenOff ==
  ~off => \A c \in held : pc[c[1]] # "idle" /\ serial[c[1]] = c[2]

\* A client that has left the ioctl owns no mutex.
NoMutexLeft ==
  Intact => \A q \in Queue : lock[q] # Nobody => pc[lock[q]] \in Holding

\* Every submission returns, whatever the DSP does: it answers, times out,
\* or waits for a reboot that ends.
Returns == \A t \in Client : pc[t] # "idle" ~> pc[t] = "idle"

-----------------------------------------------------------------------------
(* Strengthenings: what makes the safety properties inductive.             *)

\* A client inside the critical section of its queue owns the mutex, and one
\* that boots owns those of all queues in use.
LockHeld ==
  \A t \in Client :
    /\ pc[t] \in Holding => lock[queue[t]] = t
    /\ pc[t] \in {"boot", "complete"} =>
         \A q \in Queue : q < n_queues => lock[q] = t

\* The count of finished reboots trails the count of timeouts, strictly while
\* a reboot is owned; a client that talks saw no later count.
CountersOrdered ==
  /\ reboot_cycle_complete <= reboot_cycle
  /\ \A t \in Client :
       /\ pc[t] \in Rebooting => reboot_cycle_complete < reboot_cycle
       /\ pc[t] \in Talking \cup {"count"} => seen[t] <= reboot_cycle_complete

LockInv == LockHeld /\ CountersOrdered /\ OneRebooter

\* A mutex is owned by a client that is using that queue or rebooting.
LockOwned ==
  \A q \in Queue : lock[q] # Nobody =>
    /\ pc[lock[q]] \in Holding
    /\ queue[lock[q]] = q \/ pc[lock[q]] \in Rebooting

\* No reboot ends while a client talks to the DSP.
SeenCurrent ==
  \A t \in Client :
    pc[t] \in Talking \cup {"count"} => seen[t] = reboot_cycle_complete

\* The core is halted when the boot starts, and for ever once off.
HaltedWhenDue ==
  /\ \A t \in Client : pc[t] = "boot" => ~running
  /\ off => /\ ~running
            /\ \A t \in Client :
                 pc[t] \notin Talking \cup {"count", "gather", "boot"}

IntactInv ==
  Intact => LockOwned /\ SeenCurrent /\ HaltedWhenDue /\ RebootHasOwner

\* The DSP has nothing to do on queue q.
Quiet(q) == flags[q] = {} /\ work[q] = NoCmd

Awaiting == {"wait", "collect", "count"}

\* The slot describes the command of the client that posted it.
BodyIsOwn ==
  \A t \in Client :
    /\ pc[t] \in {"publish"} \cup Awaiting => body[queue[t]] = CmdOf(t)
    /\ pc[t] \in Awaiting => whole[queue[t]]

\* A queue on which the running DSP has something to do has a client that
\* waits for it, or a reboot to come and no client about to use it.
QuietUnlessAwaited ==
  running => \A q \in Queue \ abandoned :
    \/ Quiet(q)
    \/ \E t \in Client : queue[t] = q /\ pc[t] \in Awaiting
    \/ /\ reboot_cycle # reboot_cycle_complete
       /\ \A t \in Client : queue[t] = q =>
            /\ pc[t] \notin {"fill", "publish", "complete"}
            /\ pc[t] = "check" => seen[t] # reboot_cycle_complete

\* After a reboot that left the core running, all queues are quiet.
QuietAfterBoot ==
  running /\ (\E t \in Client : pc[t] = "complete") =>
    \A q \in Queue \ abandoned : Quiet(q)

\* What a waiting client finds is its own command, at one stage or another.
OwnStage ==
  \A t \in Client : pc[t] \in {"wait", "collect"} =>
    LET q == queue[t] IN
    /\ ~running => pc[t] = "wait" /\ flags[q] = {"REQUEST_VALID"}
    /\ running /\ q \notin abandoned =>
         \/ /\ pc[t] = "wait"
            /\ flags[q] = {"REQUEST_VALID"}
            /\ work[q] \in {NoCmd, CmdOf(t)}
         \/ CmdComplete(q) /\ work[q] = NoCmd /\ reply[q] = CmdOf(t)

\* The DSP has something to do only when the body is complete.
WholeWhenPosted ==
  running => \A q \in Queue \ abandoned : Quiet(q) \/ whole[q]

\* A client that timed out returns an error.
TimeoutFails ==
  \A t \in Client : pc[t] \in {"count"} \cup Rebooting =>
    ret[t] \in {"EBUSY", "EFAULT", "ENODEV"}

\* With an intact firmware: what makes AnswerIsOwn and NoTornCommand inductive.
AnswerInv ==
  Intact => /\ BodyIsOwn /\ QuietUnlessAwaited /\ QuietAfterBoot /\ OwnStage
            /\ WholeWhenPosted /\ TimeoutFails /\ AnswerIsOwn /\ NoTornCommand

\* A client that saw the device go off is right: off is never taken back.
WentOffIsOff == \A t \in Client : went_off[t] => off

\* Labels between xrp_map_request and xrp_unmap_request.
Mapped == Holding \cup {"lock", "unmap"}

\* The buffers of a command are shared from xrp_map_request to
\* xrp_unmap_request, and those of no other command until the device is off.
SharedWhileMapped ==
  /\ \A t \in Client : pc[t] \in Mapped => CmdOf(t) \in held
  /\ ~off => \A c \in held : pc[c[1]] \in Mapped /\ c = CmdOf(c[1])

HeldInv == WentOffIsOff /\ SharedWhileMapped

\* Until a client gave up on a queue the DSP has nothing but the command of the
\* client that waits for it.
WorkIsAwaited ==
  running => \A t \in Client :
    pc[t] \in Awaiting /\ queue[t] \notin abandoned =>
      work[queue[t]] \in {NoCmd, CmdOf(t)}

WorkInv == Intact => WorkIsAwaited

\* Labels of a submission before its command is posted.
Unposted == {"map", "lock", "check", "fill", "publish"}

\* What the slots and the DSP hold of a client it has submitted ...
NotAhead ==
  \A q \in Queue, t \in Client, n \in Nat :
    body[q] = <<t, n>> \/ work[q] = <<t, n>> => n <= serial[t]

\* ... and posted: until then its last command is at most a body half written.
FreshUntilPosted ==
  \A t \in Client : pc[t] \in Unposted => \A q \in Queue :
    /\ work[q] # CmdOf(t)
    /\ body[q] = CmdOf(t) => pc[t] = "publish" /\ queue[t] = q

HalfWritten == \A t \in Client : pc[t] = "publish" => ~whole[queue[t]]

\* A submission under way has a return value.
RetSet == \A t \in Client : pc[t] # "idle" => ret[t] # "none"

\* What the refinement of XrpCommand needs besides AnswerInv.
FreshInv == NotAhead /\ FreshUntilPosted /\ HalfWritten /\ RetSet
=============================================================================
