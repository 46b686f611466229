---------------------------- MODULE XrpSubmitProof ----------------------------
(***************************************************************************)
(* Proofs about the command path of XrpSubmit, for any set of clients, any *)
(* number of queues and any number of commands: its invariants, its action *)
(* properties and, at the end, that it implements XrpCommand.              *)
(***************************************************************************)
EXTENDS XrpSubmitRefines, TLAPS

(***************************************************************************)
(* Type correctness.                                                       *)
(***************************************************************************)

\* Queues are numbered from zero, and there is one at least.
LEMMA QueueFacts == /\ Queue \subseteq Nat
                    /\ 0 \in Queue
                    /\ 1 \in 1 .. NQueue
                    /\ NQueue \in 1 .. NQueue
  BY NQueueAssumption DEF Queue

\* The driver's variables start with their types.
LEMMA TypeInit == Init => TypeOK
<1> SUFFICES ASSUME Init PROVE TypeOK
  OBVIOUS
<1>1. /\ off \in BOOLEAN /\ n_queues \in 1 .. NQueue /\ running \in BOOLEAN
      /\ reboot_cycle \in Nat /\ reboot_cycle_complete \in Nat
      /\ held \subseteq Cmd /\ abandoned \subseteq Queue
  BY QueueFacts DEF Init
<1>2. /\ lock  \in [Queue -> Client \cup {Nobody}]
      /\ body  \in [Queue -> Cmd \cup {NoCmd}] /\ whole \in [Queue -> BOOLEAN]
      /\ flags \in [Queue -> SUBSET Flag] /\ reply \in [Queue -> AnyCmd]
      /\ work  \in [Queue -> AnyCmd]
  BY DEF Init, AnyCmd, NoCmd
<1>3. /\ pc \in [Client -> Holding \cup {"idle", "map", "lock", "unmap"}]
      /\ serial \in [Client -> Nat] /\ queue \in [Client -> Queue]
      /\ seen \in [Client -> Nat] /\ ret \in [Client -> Outcome]
      /\ went_off \in [Client -> BOOLEAN] /\ got \in [Client -> AnyCmd]
  BY QueueFacts DEF Init, AnyCmd, NoCmd, Outcome
<1> QED
  BY <1>1, <1>2, <1>3 DEF TypeOK

\* Every step of a client or of the DSP keeps them.
LEMMA TypeStep == TypeOK /\ [Next]_vars => TypeOK'
<1> SUFFICES ASSUME TypeOK, [Next]_vars
             PROVE  TypeOK'
  OBVIOUS
<1> USE QueueFacts DEF TypeOK, Goto, CmdOf, Cmd, AnyCmd, NoCmd, TornCmd,
        Outcome, Flag, Holding, Talking, Rebooting, xvpVars, commVars,
        dspVars, localVars, vars
<1>1. ASSUME NEW t \in Client, Submit(t) PROVE TypeOK'
  BY <1>1 DEF Submit, Selectable
<1>2. ASSUME NEW t \in Client, MapRequest(t) PROVE TypeOK'
  <2>1. held' \subseteq Cmd
    BY <1>2 DEF MapRequest
  <2> QED
    BY <1>2, <2>1 DEF MapRequest
<1>3. ASSUME NEW t \in Client, Lock(t) PROVE TypeOK'
  BY <1>3 DEF Lock
<1>4. ASSUME NEW t \in Client, Retry(t) PROVE TypeOK'
  BY <1>4 DEF Retry
<1>5. ASSUME NEW t \in Client, Proceed(t) PROVE TypeOK'
  BY <1>5 DEF Proceed
<1>6. ASSUME NEW t \in Client, Fill(t) PROVE TypeOK'
  BY <1>6 DEF Fill
<1>7. ASSUME NEW t \in Client, Publish(t) PROVE TypeOK'
  BY <1>7 DEF Publish
<1>8. ASSUME NEW t \in Client, WaitDone(t) PROVE TypeOK'
  BY <1>8 DEF WaitDone
<1>9. ASSUME NEW t \in Client, WaitBusy(t) PROVE TypeOK'
  BY ZenonT(30), <1>9 DEF WaitBusy
<1>10. ASSUME NEW t \in Client, WaitSignal(t) PROVE TypeOK'
  BY <1>10 DEF WaitSignal
<1>11. ASSUME NEW t \in Client, Collect(t) PROVE TypeOK'
  BY <1>11 DEF Collect
<1>12. ASSUME NEW t \in Client, CountTimeout(t) PROVE TypeOK'
  BY <1>12 DEF CountTimeout
<1>13. ASSUME NEW t \in Client, GatherLock(t) PROVE TypeOK'
  BY <1>13 DEF GatherLock, ToLock
<1>14. ASSUME NEW t \in Client, Halt(t) PROVE TypeOK'
  BY <1>14 DEF Halt
<1>15. ASSUME NEW t \in Client, BootNoFirmware(t) PROVE TypeOK'
  BY <1>15 DEF BootNoFirmware
<1>16. ASSUME NEW t \in Client, BootOk(t) PROVE TypeOK'
  BY <1>16 DEF BootOk, Handshake, ClearFlags
<1>17. ASSUME NEW t \in Client, BootSyncFail(t) PROVE TypeOK'
  BY <1>17 DEF BootSyncFail, Handshake, ClearFlags
<1>18. ASSUME NEW t \in Client, BootComplete(t) PROVE TypeOK'
  BY <1>18 DEF BootComplete
<1>19. ASSUME NEW t \in Client, Unlock(t) PROVE TypeOK'
  BY <1>19 DEF Unlock
<1>20. ASSUME NEW t \in Client, Unmap(t) PROVE TypeOK'
  BY <1>20 DEF Unmap
<1>21. ASSUME NEW q \in Queue, DspTake(q) PROVE TypeOK'
  BY <1>21 DEF DspTake
<1>22. ASSUME NEW q \in Queue, DspDone(q) PROVE TypeOK'
  BY <1>22 DEF DspDone
<1>23. CASE UNCHANGED vars
  BY <1>23
<1> QED
  BY <1>1, <1>2, <1>3, <1>4, <1>5, <1>6, <1>7, <1>8, <1>9, <1>10, <1>11,
     <1>12, <1>13, <1>14, <1>15, <1>16, <1>17, <1>18, <1>19, <1>20, <1>21,
     <1>22, <1>23
  DEF Next, Step, Wait, Boot, Dsp, Finished

\* Every variable of the command path keeps its type: n_queues stays between
\* one and the number of queues, and the address of a queue is a real one.
THEOREM TypeCorrect == Spec => []TypeOK
<1>1. Init => TypeOK
  BY TypeInit
<1>2. TypeOK /\ [Next]_vars => TypeOK'
  BY TypeStep
<1> QED
  BY <1>1, <1>2, PTL DEF Spec

(***************************************************************************)
(* The queue mutexes and the election of the client that reboots.  No      *)
(* assumption about the firmware is needed here.                           *)
(***************************************************************************)

\* The locks and counters at the beginning.
LEMMA LockInit == Init => LockInv
  BY QueueFacts
  DEF Init, LockInv, LockHeld, CountersOrdered, OneRebooter, Holding, Talking,
      Rebooting

\* Ownership of the mutexes: only its owner releases a mutex, except the one
\* booting client, which owns those it releases.
LEMMA LockHeldStep == TypeOK /\ LockInv /\ [Next]_vars => LockHeld'
<1> SUFFICES ASSUME TypeOK, LockInv, [Next]_vars
             PROVE  LockHeld'
  OBVIOUS
<1> USE QueueFacts, ClientAssumption
    DEF TypeOK, LockInv, LockHeld, OneRebooter, Goto, Holding, Talking,
        Rebooting, xvpVars, localVars
<1>1. ASSUME NEW t \in Client, Submit(t) PROVE LockHeld'
  BY <1>1 DEF Submit
<1>2. ASSUME NEW t \in Client, MapRequest(t) PROVE LockHeld'
  BY <1>2 DEF MapRequest
<1>3. ASSUME NEW t \in Client, Lock(t) PROVE LockHeld'
  BY <1>3 DEF Lock
<1>4. ASSUME NEW t \in Client, Retry(t) PROVE LockHeld'
  BY <1>4 DEF Retry
<1>5. ASSUME NEW t \in Client, Proceed(t) PROVE LockHeld'
  BY <1>5 DEF Proceed
<1>6. ASSUME NEW t \in Client, Fill(t) PROVE LockHeld'
  BY <1>6 DEF Fill
<1>7. ASSUME NEW t \in Client, Publish(t) PROVE LockHeld'
  BY <1>7 DEF Publish
<1>8. ASSUME NEW t \in Client, WaitDone(t) PROVE LockHeld'
  BY <1>8 DEF WaitDone
<1>9. ASSUME NEW t \in Client, WaitBusy(t) PROVE LockHeld'
  <2>1. /\ UNCHANGED <<lock, queue, n_queues>>
        /\ pc[t] = "wait"
        /\ \/ pc' = [pc EXCEPT ![t] = "count"]
           \/ pc' = [pc EXCEPT ![t] = "unlock"]
    BY <1>9 DEF WaitBusy
  <2> QED
    BY <2>1
<1>10. ASSUME NEW t \in Client, WaitSignal(t) PROVE LockHeld'
  BY <1>10 DEF WaitSignal
<1>11. ASSUME NEW t \in Client, Collect(t) PROVE LockHeld'
  BY <1>11 DEF Collect
<1>12. ASSUME NEW t \in Client, CountTimeout(t) PROVE LockHeld'
  BY <1>12 DEF CountTimeout
<1>13. ASSUME NEW t \in Client, GatherLock(t) PROVE LockHeld'
  BY <1>13 DEF GatherLock, ToLock
<1>14. ASSUME NEW t \in Client, Halt(t) PROVE LockHeld'
  BY <1>14 DEF Halt, ToLock
<1>15. ASSUME NEW t \in Client, BootNoFirmware(t) PROVE LockHeld'
  BY <1>15 DEF BootNoFirmware
<1>16. ASSUME NEW t \in Client, BootOk(t) PROVE LockHeld'
  BY <1>16 DEF BootOk, Handshake, ClearFlags
<1>17. ASSUME NEW t \in Client, BootSyncFail(t) PROVE LockHeld'
  BY <1>17 DEF BootSyncFail, Handshake, ClearFlags
<1>18. ASSUME NEW t \in Client, BootComplete(t) PROVE LockHeld'
  <2>1. ASSUME NEW u \in Client, pc'[u] \in Holding
        PROVE  lock'[queue'[u]] = u
    <3>1. pc[u] \in Holding /\ lock[queue[u]] = u
      BY <1>18, <2>1 DEF BootComplete
    <3>2. u # t /\ queue[u] < n_queues => lock[queue[u]] = t
      BY <1>18, <3>1 DEF BootComplete
    <3> QED
      BY <1>18, <3>1, <3>2 DEF BootComplete
  <2>2. \A u \in Client : pc'[u] \notin {"boot", "complete"}
    BY <1>18 DEF BootComplete
  <2> QED
    BY <2>1, <2>2
<1>19. ASSUME NEW t \in Client, Unlock(t) PROVE LockHeld'
  BY <1>19 DEF Unlock
<1>20. ASSUME NEW t \in Client, Unmap(t) PROVE LockHeld'
  BY <1>20 DEF Unmap
<1>21. ASSUME NEW q \in Queue, Dsp(q) PROVE LockHeld'
  BY <1>21 DEF Dsp, DspTake, DspDone
<1>22. CASE UNCHANGED vars
  BY <1>22 DEF vars
<1> QED
  BY <1>1, <1>2, <1>3, <1>4, <1>5, <1>6, <1>7, <1>8, <1>9, <1>10, <1>11,
     <1>12, <1>13, <1>14, <1>15, <1>16, <1>17, <1>18, <1>19, <1>20, <1>21,
     <1>22
  DEF Next, Step, Wait, Boot, Finished

\* The counters: a client becomes the rebooter only if no timeout was counted
\* since it looked, and while a reboot is owned one always was.
LEMMA CountersStep ==
  TypeOK /\ LockInv /\ [Next]_vars => (CountersOrdered /\ OneRebooter)'
<1> SUFFICES ASSUME TypeOK, LockInv, [Next]_vars
             PROVE  (CountersOrdered /\ OneRebooter)'
  OBVIOUS
<1> DEFINE Goal == CountersOrdered /\ OneRebooter
<1> USE DEF TypeOK, LockInv, CountersOrdered, OneRebooter, Goto, Holding,
            Talking, Rebooting, xvpVars, localVars
<1>1. ASSUME NEW t \in Client,
             \/ Submit(t) \/ MapRequest(t) \/ Lock(t) \/ Retry(t)
             \/ Fill(t) \/ Publish(t) \/ WaitDone(t)
      PROVE  Goal'
  BY <1>1 DEF Submit, MapRequest, Lock, Retry, Fill, Publish, WaitDone
<1>2. ASSUME NEW t \in Client,
             WaitSignal(t) \/ Collect(t) \/ Unlock(t) \/ Unmap(t)
      PROVE  Goal'
  BY ZenonT(30), <1>2 DEF WaitSignal, Collect, Unlock, Unmap
<1>3. ASSUME NEW t \in Client, Proceed(t) PROVE Goal'
  BY <1>3 DEF Proceed
<1>4. ASSUME NEW t \in Client, CountTimeout(t) PROVE Goal'
  <2>1. CASE pc'[t] = "gather"
    <3>1. reboot_cycle = seen[t]
      BY <1>4, <2>1 DEF CountTimeout
    <3>2. \A u \in Client : pc[u] \notin Rebooting
      BY <1>4, <3>1 DEF CountTimeout
    <3> QED
      BY <1>4, <2>1, <3>2 DEF CountTimeout
  <2>2. CASE pc'[t] = "unlock"
    BY <1>4, <2>2 DEF CountTimeout
  <2> QED
    BY <1>4, <2>1, <2>2 DEF CountTimeout
<1>5. ASSUME NEW t \in Client,
             GatherLock(t) \/ Halt(t) \/ BootNoFirmware(t)
      PROVE  Goal'
  BY <1>5 DEF GatherLock, Halt, BootNoFirmware
<1>6. ASSUME NEW t \in Client, BootOk(t) \/ BootSyncFail(t)
      PROVE  Goal'
  BY <1>6 DEF BootOk, BootSyncFail
<1>7. ASSUME NEW t \in Client, BootComplete(t) PROVE Goal'
  BY <1>7 DEF BootComplete
<1>8. ASSUME NEW q \in Queue, Dsp(q) PROVE Goal'
  BY <1>8 DEF Dsp, DspTake, DspDone
<1>9. ASSUME NEW t \in Client, WaitBusy(t) PROVE Goal'
  <2>1. /\ UNCHANGED <<reboot_cycle, reboot_cycle_complete, seen>>
        /\ pc[t] = "wait"
        /\ \/ pc' = [pc EXCEPT ![t] = "count"]
           \/ pc' = [pc EXCEPT ![t] = "unlock"]
    BY <1>9 DEF WaitBusy
  <2> QED
    BY <2>1
<1>10. CASE UNCHANGED vars
  BY <1>10 DEF vars
<1> QED
  BY <1>1, <1>2, <1>3, <1>4, <1>5, <1>6, <1>7, <1>8, <1>9, <1>10
  DEF Next, Step, Wait, Boot, Finished

\* Who is in a critical section holds its mutex, always.
LEMMA LockCorrect == Spec => [](TypeOK /\ LockInv)
<1>1. Init => TypeOK /\ LockInv
  BY TypeInit, LockInit
<1>2. TypeOK /\ LockInv /\ [Next]_vars => (TypeOK /\ LockInv)'
  BY TypeStep, LockHeldStep, CountersStep DEF LockInv
<1> QED
  BY <1>1, <1>2, PTL DEF Spec

\* Two clients never use the command slot of one queue at the same time: a
\* client at any label between mutex_lock and mutex_unlock of its queue owns
\* that queue's mutex, in spite of the reboots other clients carry out.
THEOREM SlotsExclusive == Spec => []SlotExclusive
<1>1. LockInv => SlotExclusive
  BY DEF LockInv, LockHeld, SlotExclusive
<1> QED
  BY <1>1, LockCorrect, PTL

\* While a client boots the firmware no other client is in its critical
\* section, as long as the firmware serves all queues.
THEOREM BootExclusive == Spec => []BootExcludesIo
<1>1. TypeOK /\ LockInv => BootExcludesIo
  BY DEF TypeOK, LockInv, LockHeld, BootExcludesIo, Intact, Queue
<1> QED
  BY <1>1, LockCorrect, PTL

\* At most one client owns the reboot, even when the firmware downgrades.
THEOREM RebooterUnique == Spec => []OneRebooter
<1>1. LockInv => OneRebooter
  BY DEF LockInv
<1> QED
  BY <1>1, LockCorrect, PTL

(***************************************************************************)
(* As long as the firmware serves all queues: who owns a mutex, when the   *)
(* counters may differ, and when the core is halted.                       *)
(***************************************************************************)

\* The second layer at the beginning.
LEMMA IntactInit == Init => IntactInv
  BY QueueFacts
  DEF Init, IntactInv, LockOwned, SeenCurrent, HaltedWhenDue, RebootHasOwner,
      Holding, Talking, Rebooting

\* Only a handshake changes n_queues, and never back to all queues.
LEMMA IntactBefore == TypeOK /\ [Next]_vars /\ Intact' => Intact
<1> SUFFICES ASSUME TypeOK, [Next]_vars, Intact' PROVE Intact
  OBVIOUS
<1>1. CASE UNCHANGED n_queues
  BY <1>1 DEF Intact
<1>2. ASSUME NEW t \in Client, BootOk(t) \/ BootSyncFail(t) PROVE Intact
  BY <1>2 DEF TypeOK, Intact, BootOk, BootSyncFail, Handshake, ClearFlags
<1>3. \/ UNCHANGED n_queues
      \/ \E t \in Client : BootOk(t) \/ BootSyncFail(t)
  BY ZenonT(30) DEF Next, Submit, MapRequest, Lock, Retry, Proceed, Fill, Publish,
         WaitDone, WaitBusy, WaitSignal, Collect, CountTimeout, GatherLock,
         Halt, BootNoFirmware, BootComplete, Unlock, Unmap, Step, Wait, Boot,
         Dsp, DspTake, DspDone, Finished, vars, xvpVars
<1> QED
  BY <1>1, <1>2, <1>3

\* With all mutexes owned by the booting client, no other is in its critical
\* section.
LEMMA BooterAlone ==
  ASSUME TypeOK, LockInv, Intact,
         NEW t \in Client, pc[t] \in {"boot", "complete"},
         NEW u \in Client, pc[u] \in Holding
  PROVE  u = t
  BY DEF TypeOK, LockInv, LockHeld, Intact, Queue

\* A mutex belongs to a client in that queue or to the one that reboots.
LEMMA LockOwnedStep ==
  TypeOK /\ LockInv /\ Intact /\ LockOwned /\ [Next]_vars => LockOwned'
<1> SUFFICES ASSUME TypeOK, LockInv, Intact, LockOwned, [Next]_vars,
                    NEW q \in Queue, lock'[q] # Nobody
             PROVE  /\ pc'[lock'[q]] \in Holding
                    /\ \/ queue'[lock'[q]] = q
                       \/ pc'[lock'[q]] \in Rebooting
  BY DEF LockOwned
<1> DEFINE Goal == /\ pc'[lock'[q]] \in Holding
                   /\ \/ queue'[lock'[q]] = q
                      \/ pc'[lock'[q]] \in Rebooting
<1>0. lock[q] # Nobody => /\ lock[q] \in Client
                          /\ pc[lock[q]] \in Holding
                          /\ \/ queue[lock[q]] = q
                             \/ pc[lock[q]] \in Rebooting
  BY DEF TypeOK, LockOwned
<1> USE <1>0, ClientAssumption
    DEF TypeOK, Goto, Holding, Talking, Rebooting, xvpVars, localVars
<1>1. ASSUME NEW t \in Client, Submit(t) \/ MapRequest(t) \/ Unmap(t)
      PROVE  Goal
  BY <1>1 DEF Submit, MapRequest, Unmap
<1>2. ASSUME NEW t \in Client, Lock(t) \/ GatherLock(t)
      PROVE  Goal
  BY <1>2 DEF Lock, GatherLock
<1>3. ASSUME NEW t \in Client, Retry(t) \/ Unlock(t)
      PROVE  Goal
  BY <1>3 DEF Retry, Unlock
<1>4. ASSUME NEW t \in Client,
             \/ Proceed(t) \/ Fill(t) \/ Publish(t) \/ WaitDone(t)
             \/ WaitSignal(t) \/ Collect(t)
      PROVE  Goal
  BY <1>4 DEF Proceed, Fill, Publish, WaitDone, WaitSignal, Collect
<1>5. ASSUME NEW t \in Client, WaitBusy(t) PROVE Goal
  BY <1>5 DEF WaitBusy
<1>6. ASSUME NEW t \in Client, CountTimeout(t) PROVE Goal
  BY <1>6 DEF CountTimeout
<1>7. ASSUME NEW t \in Client,
             Halt(t) \/ BootNoFirmware(t) \/ BootOk(t) \/ BootSyncFail(t)
      PROVE  Goal
  BY <1>7 DEF Halt, BootNoFirmware, BootOk, BootSyncFail
<1>8. ASSUME NEW t \in Client, BootComplete(t) PROVE Goal
  BY <1>8 DEF BootComplete, LockInv, LockHeld, Intact, Queue
<1>9. ASSUME NEW p \in Queue, Dsp(p) PROVE Goal
  BY <1>9 DEF Dsp, DspTake, DspDone
<1>10. CASE UNCHANGED vars
  BY <1>10 DEF vars
<1> QED
  BY <1>1, <1>2, <1>3, <1>4, <1>5, <1>6, <1>7, <1>8, <1>9, <1>10
  DEF Next, Step, Wait, Boot, Finished

\* A reboot has one owner until it is complete.
LEMMA RebootStep ==
  /\ TypeOK /\ LockInv /\ Intact /\ SeenCurrent /\ RebootHasOwner
  /\ [Next]_vars
  => (SeenCurrent /\ RebootHasOwner)'
<1> DEFINE Owner == reboot_cycle # reboot_cycle_complete =>
                      \E t \in Client : pc[t] \in Rebooting
<1> SUFFICES ASSUME TypeOK, LockInv, Intact, SeenCurrent, Owner, [Next]_vars
             PROVE  (SeenCurrent /\ Owner)'
  BY DEF RebootHasOwner
<1> USE DEF TypeOK, SeenCurrent, Goto, Talking, Rebooting, xvpVars, localVars
<1>1. ASSUME NEW t \in Client,
             \/ Submit(t) \/ MapRequest(t) \/ Lock(t) \/ Retry(t)
             \/ Fill(t) \/ Publish(t) \/ WaitDone(t)
      PROVE  (SeenCurrent /\ Owner)'
  BY <1>1 DEF Submit, MapRequest, Lock, Retry, Fill, Publish, WaitDone
<1>2. ASSUME NEW t \in Client,
             WaitSignal(t) \/ Collect(t) \/ Unlock(t) \/ Unmap(t)
      PROVE  (SeenCurrent /\ Owner)'
  BY <1>2 DEF WaitSignal, Collect, Unlock, Unmap
<1>3. ASSUME NEW t \in Client, Proceed(t) PROVE (SeenCurrent /\ Owner)'
  BY <1>3 DEF Proceed
<1>4. ASSUME NEW t \in Client, WaitBusy(t) PROVE (SeenCurrent /\ Owner)'
  BY <1>4 DEF WaitBusy
<1>5. ASSUME NEW t \in Client, CountTimeout(t) PROVE (SeenCurrent /\ Owner)'
  <2>1. CASE pc'[t] = "gather"
    BY <1>5, <2>1 DEF CountTimeout
  <2>2. CASE pc'[t] = "unlock"
    BY <1>5, <2>2 DEF CountTimeout
  <2> QED
    BY <1>5, <2>1, <2>2 DEF CountTimeout
<1>6. ASSUME NEW t \in Client,
             GatherLock(t) \/ Halt(t) \/ BootNoFirmware(t)
      PROVE  (SeenCurrent /\ Owner)'
  BY <1>6 DEF GatherLock, Halt, BootNoFirmware
<1>7. ASSUME NEW t \in Client, BootOk(t) \/ BootSyncFail(t)
      PROVE  (SeenCurrent /\ Owner)'
  BY <1>7 DEF BootOk, BootSyncFail
<1>8. ASSUME NEW t \in Client, BootComplete(t) PROVE (SeenCurrent /\ Owner)'
  <2>1. \A u \in Client : pc[u] \in Holding => u = t
    BY <1>8, BooterAlone DEF BootComplete
  <2> QED
    BY <1>8, <2>1 DEF BootComplete, Holding
<1>9. ASSUME NEW q \in Queue, Dsp(q) PROVE (SeenCurrent /\ Owner)'
  BY <1>9 DEF Dsp, DspTake, DspDone
<1>10. CASE UNCHANGED vars
  BY <1>10 DEF vars
<1> QED
  BY <1>1, <1>2, <1>3, <1>4, <1>5, <1>6, <1>7, <1>8, <1>9, <1>10
  DEF Next, Step, Wait, Boot, Finished

\* The core is halted before it is booted.
LEMMA HaltedStep ==
  TypeOK /\ LockInv /\ Intact /\ HaltedWhenDue /\ [Next]_vars => HaltedWhenDue'
<1> SUFFICES ASSUME TypeOK, LockInv, Intact, HaltedWhenDue, [Next]_vars
             PROVE  HaltedWhenDue'
  OBVIOUS
<1> USE DEF TypeOK, HaltedWhenDue, Goto, Talking, xvpVars, dspVars, localVars
<1>1. ASSUME NEW t \in Client,
             \/ Submit(t) \/ MapRequest(t) \/ Lock(t) \/ Retry(t)
             \/ Fill(t) \/ Publish(t) \/ WaitDone(t)
      PROVE  HaltedWhenDue'
  BY <1>1 DEF Submit, MapRequest, Lock, Retry, Fill, Publish, WaitDone
<1>2. ASSUME NEW t \in Client,
             WaitSignal(t) \/ Collect(t) \/ Unlock(t) \/ Unmap(t)
      PROVE  HaltedWhenDue'
  BY <1>2 DEF WaitSignal, Collect, Unlock, Unmap
<1>3. ASSUME NEW t \in Client, Proceed(t) PROVE HaltedWhenDue'
  BY <1>3 DEF Proceed
<1>4. ASSUME NEW t \in Client, WaitBusy(t) PROVE HaltedWhenDue'
  BY <1>4 DEF WaitBusy
<1>5. ASSUME NEW t \in Client, CountTimeout(t) PROVE HaltedWhenDue'
  BY <1>5 DEF CountTimeout
<1>6. ASSUME NEW t \in Client,
             GatherLock(t) \/ Halt(t) \/ BootNoFirmware(t)
      PROVE  HaltedWhenDue'
  BY <1>6 DEF GatherLock, Halt, BootNoFirmware
<1>7. ASSUME NEW t \in Client, BootOk(t) PROVE HaltedWhenDue'
  BY <1>7 DEF BootOk, LockInv, OneRebooter, Rebooting
<1>8. ASSUME NEW t \in Client, BootSyncFail(t) PROVE HaltedWhenDue'
  <2>1. \A u \in Client : pc[u] \in Holding => u = t
    BY <1>8, BooterAlone DEF BootSyncFail
  <2> QED
    BY <1>8, <2>1 DEF BootSyncFail, Holding, Rebooting
<1>9. ASSUME NEW t \in Client, BootComplete(t) PROVE HaltedWhenDue'
  BY <1>9 DEF BootComplete
<1>10. ASSUME NEW q \in Queue, Dsp(q) PROVE HaltedWhenDue'
  BY <1>10 DEF Dsp, DspTake, DspDone
<1>11. CASE UNCHANGED vars
  BY <1>11 DEF vars
<1> QED
  BY <1>1, <1>2, <1>3, <1>4, <1>5, <1>6, <1>7, <1>8, <1>9, <1>10, <1>11
  DEF Next, Step, Wait, Boot, Finished

\* The second layer under every step without a downgrade.
LEMMA IntactStep ==
  TypeOK /\ LockInv /\ IntactInv /\ [Next]_vars => IntactInv'
<1> SUFFICES ASSUME TypeOK, LockInv, IntactInv, [Next]_vars, Intact'
             PROVE  (LockOwned /\ SeenCurrent /\ HaltedWhenDue /\ RebootHasOwner)'
  BY DEF IntactInv
<1>1. Intact
  BY IntactBefore
<1> QED
  BY <1>1, LockOwnedStep, RebootStep, HaltedStep DEF IntactInv

\* The second layer, always.
LEMMA IntactCorrect == Spec => [](TypeOK /\ LockInv /\ IntactInv)
<1>1. Init => IntactInv
  BY IntactInit
<1>2. TypeOK /\ LockInv /\ IntactInv /\ [Next]_vars => IntactInv'
  BY IntactStep
<1> QED
  BY <1>1, <1>2, LockCorrect, PTL DEF Spec

\* The counters differ only while some client owns the reboot, so the retry
\* loop of a submission never spins with nobody to end it, as long as the
\* firmware serves all queues.
THEOREM RebootOwned == Spec => []RebootHasOwner
<1>1. IntactInv => RebootHasOwner
  BY DEF IntactInv, RebootHasOwner
<1> QED
  BY <1>1, IntactCorrect, PTL

\* Once the device is off the core is halted and no client posts to it.
THEOREM SilentOnceOff == Spec => []SilentWhenOff
<1>1. IntactInv => SilentWhenOff
  BY DEF IntactInv, HaltedWhenDue, SilentWhenOff
<1> QED
  BY <1>1, IntactCorrect, PTL

\* A client that has left the ioctl owns no mutex, whichever way it took.
THEOREM MutexesReleased == Spec => []NoMutexLeft
<1>1. IntactInv => NoMutexLeft
  BY DEF IntactInv, LockOwned, NoMutexLeft
<1> QED
  BY <1>1, IntactCorrect, PTL

(***************************************************************************)
(* Answers: with an intact firmware, and on a queue where no command was   *)
(* abandoned without a reboot, the slot only ever holds the command of the *)
(* client that waits for it.                                               *)
(***************************************************************************)

Answering == /\ TypeOK /\ LockInv /\ Intact /\ IntactInv /\ AnswerInv
             /\ [Next]_vars /\ Intact'

\* The slots are empty at the beginning.
LEMMA AnswerInit == Init => AnswerInv
  BY DEF Init, AnswerInv, BodyIsOwn, QuietUnlessAwaited, QuietAfterBoot,
         OwnStage, WholeWhenPosted, TimeoutFails, AnswerIsOwn, NoTornCommand,
         Quiet, Awaiting, Rebooting, NoCmd, TornCmd

\* Two clients are never in the critical section of one queue.
LEMMA OnePerQueue ==
  ASSUME TypeOK, LockInv,
         NEW t \in Client, pc[t] \in Holding,
         NEW u \in Client, pc[u] \in Holding, queue[u] = queue[t]
  PROVE  u = t
  BY DEF LockInv, LockHeld

\* The body of a slot is the command of the client that filled it.
LEMMA BodyStep == Answering => BodyIsOwn'
<1> SUFFICES ASSUME Answering PROVE BodyIsOwn'
  OBVIOUS
<1>0. /\ BodyIsOwn
      /\ \A t, u \in Client :
           /\ pc[t] \in Holding /\ pc[u] \in Holding /\ queue[t] = queue[u]
           => t = u
  BY OnePerQueue DEF Answering, AnswerInv
<1> USE <1>0 DEF Answering, TypeOK, BodyIsOwn, Awaiting, CmdOf, Goto, Holding,
                 Talking, Rebooting, xvpVars, commVars, dspVars, localVars
<1>1. ASSUME NEW t \in Client,
             Submit(t) \/ MapRequest(t) \/ Lock(t) \/ Retry(t)
      PROVE  BodyIsOwn'
  BY <1>1 DEF Submit, MapRequest, Lock, Retry
<1>2. ASSUME NEW t \in Client, Proceed(t) PROVE BodyIsOwn'
  BY <1>2 DEF Proceed
<1>3. ASSUME NEW t \in Client, Fill(t) PROVE BodyIsOwn'
  BY <1>3 DEF Fill
<1>4. ASSUME NEW t \in Client, Publish(t) PROVE BodyIsOwn'
  BY <1>4 DEF Publish
<1>5. ASSUME NEW t \in Client, WaitDone(t) \/ WaitSignal(t) \/ Collect(t)
      PROVE  BodyIsOwn'
  BY <1>5 DEF WaitDone, WaitSignal, Collect
<1>6. ASSUME NEW t \in Client, WaitBusy(t) PROVE BodyIsOwn'
  BY <1>6 DEF WaitBusy
<1>7. ASSUME NEW t \in Client,
             CountTimeout(t) \/ GatherLock(t) \/ Halt(t) \/ BootNoFirmware(t)
      PROVE  BodyIsOwn'
  BY <1>7 DEF CountTimeout, GatherLock, Halt, BootNoFirmware
<1>8. ASSUME NEW t \in Client,
             \/ BootOk(t) \/ BootSyncFail(t) \/ BootComplete(t) \/ Unlock(t)
             \/ Unmap(t)
      PROVE  BodyIsOwn'
  BY <1>8 DEF BootOk, BootSyncFail, BootComplete, Unlock, Unmap
<1>9. ASSUME NEW q \in Queue, Dsp(q) PROVE BodyIsOwn'
  BY <1>9 DEF Dsp, DspTake, DspDone
<1>10. CASE UNCHANGED vars
  BY <1>10 DEF vars
<1> QED
  BY <1>1, <1>2, <1>3, <1>4, <1>5, <1>6, <1>7, <1>8, <1>9, <1>10
  DEF Next, Step, Wait, Boot, Finished

\* A command that timed out is not reported as a success.
LEMMA TimeoutStep == Answering => TimeoutFails'
<1> SUFFICES ASSUME Answering PROVE TimeoutFails'
  OBVIOUS
<1>0. TimeoutFails
  BY DEF Answering, AnswerInv
<1> USE <1>0 DEF Answering, TypeOK, TimeoutFails, Goto, Rebooting,
                 xvpVars, commVars, dspVars, localVars
<1>1. ASSUME NEW t \in Client,
             Submit(t) \/ MapRequest(t) \/ Lock(t) \/ Retry(t) \/ Fill(t)
      PROVE  TimeoutFails'
  BY <1>1 DEF Submit, MapRequest, Lock, Retry, Fill
<1>2. ASSUME NEW t \in Client, Proceed(t) \/ Publish(t) PROVE TimeoutFails'
  BY <1>2 DEF Proceed, Publish
<1>3. ASSUME NEW t \in Client, WaitDone(t) \/ WaitSignal(t) \/ Collect(t)
      PROVE  TimeoutFails'
  BY <1>3 DEF WaitDone, WaitSignal, Collect
<1>4. ASSUME NEW t \in Client, WaitBusy(t) PROVE TimeoutFails'
  BY <1>4 DEF WaitBusy
<1>5. ASSUME NEW t \in Client,
             CountTimeout(t) \/ GatherLock(t) \/ Halt(t) \/ BootNoFirmware(t)
      PROVE  TimeoutFails'
  BY <1>5 DEF CountTimeout, GatherLock, Halt, BootNoFirmware
<1>6. ASSUME NEW t \in Client,
             \/ BootOk(t) \/ BootSyncFail(t) \/ BootComplete(t) \/ Unlock(t)
             \/ Unmap(t)
      PROVE  TimeoutFails'
  BY <1>6 DEF BootOk, BootSyncFail, BootComplete, Unlock, Unmap
<1>7. ASSUME NEW q \in Queue, Dsp(q) PROVE TimeoutFails'
  BY <1>7 DEF Dsp, DspTake, DspDone
<1>8. CASE UNCHANGED vars
  BY <1>8 DEF vars
<1> QED
  BY <1>1, <1>2, <1>3, <1>4, <1>5, <1>6, <1>7, <1>8
  DEF Next, Step, Wait, Boot, Finished

\* No command survives a reboot.
LEMMA QuietAfterBootStep == Answering => QuietAfterBoot'
<1> SUFFICES ASSUME Answering,
                    running', NEW b \in Client, pc'[b] = "complete",
                    NEW q \in Queue, q \notin abandoned'
             PROVE  Quiet(q)'
  BY DEF QuietAfterBoot
<1>0. /\ running /\ (\E t \in Client : pc[t] = "complete")
         /\ q \notin abandoned => Quiet(q)
      /\ \A t, u \in Client :
           pc[t] \in {"boot", "complete"} /\ pc[u] \in Holding => t = u
      /\ \A t \in Client : pc[t] = "boot" => ~running
  BY BooterAlone DEF Answering, AnswerInv, IntactInv, HaltedWhenDue,
                     QuietAfterBoot
<1> USE <1>0 DEF Answering, TypeOK, Quiet, Goto, Holding, Talking, Rebooting,
                 xvpVars, commVars, dspVars, localVars
<1>1. ASSUME NEW t \in Client,
             \/ Submit(t) \/ MapRequest(t) \/ Lock(t) \/ Retry(t) \/ Fill(t)
             \/ Unmap(t)
      PROVE  Quiet(q)'
  BY ZenonT(30), <1>1 DEF Submit, MapRequest, Lock, Retry, Fill, Unmap
<1>2. ASSUME NEW t \in Client, Proceed(t) \/ Publish(t) PROVE Quiet(q)'
  BY ZenonT(30), <1>2 DEF Proceed, Publish
<1>3. ASSUME NEW t \in Client, WaitDone(t) \/ WaitSignal(t) \/ Collect(t)
      PROVE  Quiet(q)'
  BY <1>3 DEF WaitDone, WaitSignal, Collect
<1>4. ASSUME NEW t \in Client, WaitBusy(t) PROVE Quiet(q)'
  BY <1>4 DEF WaitBusy
<1>5. ASSUME NEW t \in Client,
             \/ CountTimeout(t) \/ GatherLock(t) \/ Halt(t)
             \/ BootNoFirmware(t) \/ BootSyncFail(t)
      PROVE  Quiet(q)'
  BY <1>5 DEF CountTimeout, GatherLock, Halt, BootNoFirmware, BootSyncFail
<1>6. ASSUME NEW t \in Client, BootOk(t) PROVE Quiet(q)'
  BY <1>6 DEF BootOk, Handshake, ClearFlags, Intact, Queue
<1>7. ASSUME NEW t \in Client, BootComplete(t) \/ Unlock(t) PROVE Quiet(q)'
  BY <1>7 DEF BootComplete, Unlock
<1>8. ASSUME NEW p \in Queue, Dsp(p) PROVE Quiet(q)'
  BY <1>8 DEF Dsp, DspTake, DspDone
<1>9. CASE UNCHANGED vars
  BY <1>9 DEF vars
<1> QED
  BY <1>1, <1>2, <1>3, <1>4, <1>5, <1>6, <1>7, <1>8, <1>9
  DEF Next, Step, Wait, Boot, Finished

\* The heart of the argument: a queue only stops being quiet under a client
\* that waits, and is quiet again, or behind a pending reboot, when it leaves.
Awaited(q) == \E t \in Client : queue[t] = q /\ pc[t] \in Awaiting

Shunned(q) ==
  /\ reboot_cycle # reboot_cycle_complete
  /\ \A t \in Client : queue[t] = q =>
       /\ pc[t] \notin {"fill", "publish", "complete"}
       /\ pc[t] = "check" => seen[t] # reboot_cycle_complete

\* The DSP works on a queue only while its client waits or a reboot is due.
LEMMA QuietStep == Answering => QuietUnlessAwaited'
<1> SUFFICES ASSUME Answering, running', NEW q \in Queue, q \notin abandoned'
             PROVE  (Quiet(q) \/ Awaited(q) \/ Shunned(q))'
  BY DEF QuietUnlessAwaited, Awaited, Shunned
<1> DEFINE Goal == Quiet(q) \/ Awaited(q) \/ Shunned(q)
<1>a. running /\ q \notin abandoned => Goal
  BY DEF Answering, AnswerInv, QuietUnlessAwaited, Awaited, Shunned
<1>b. \A t, u \in Client :
        pc[t] \in Holding /\ pc[u] \in Holding /\ queue[t] = queue[u] => t = u
  BY OnePerQueue DEF Answering
<1>c. /\ \A t \in Client : pc[t] \in Holding => lock[queue[t]] = t
      /\ reboot_cycle_complete <= reboot_cycle
  BY DEF Answering, LockInv, LockHeld, CountersOrdered
<1> USE DEF Answering, TypeOK, Goto, Holding, Talking, Rebooting, Awaiting,
            xvpVars, commVars, dspVars, localVars
<1>1. ASSUME NEW t \in Client, Submit(t) \/ MapRequest(t) \/ Unmap(t)
      PROVE  Goal'
  BY ZenonT(30), <1>1, <1>a DEF Submit, MapRequest, Unmap, Quiet, Awaited, Shunned
<1>2. ASSUME NEW t \in Client, Lock(t) PROVE Goal'
  <2>1. CASE queue[t] = q
    <3>1. ~Awaited(q)
      BY <1>2, <2>1, <1>c, ClientAssumption DEF Lock, Awaited
    <3>2. CASE Quiet(q)
      BY <1>2, <3>2 DEF Lock, Quiet
    <3>3. CASE Shunned(q)
      BY <1>2, <3>3 DEF Lock, Shunned
    <3> QED
      BY <1>2, <1>a, <3>1, <3>2, <3>3 DEF Lock
  <2>2. CASE queue[t] # q
    BY <1>2, <2>2, <1>a DEF Lock, Quiet, Awaited, Shunned
  <2> QED
    BY <2>1, <2>2
<1>3. ASSUME NEW t \in Client, Retry(t) PROVE Goal'
  BY <1>3, <1>a DEF Retry, Quiet, Awaited, Shunned
<1>4. ASSUME NEW t \in Client, Proceed(t) PROVE Goal'
  BY <1>4, <1>a DEF Proceed, Quiet, Awaited, Shunned
<1>5. ASSUME NEW t \in Client, Fill(t) PROVE Goal'
  BY <1>5, <1>a DEF Fill, Quiet, Awaited, Shunned
<1>6. ASSUME NEW t \in Client, Publish(t) PROVE Goal'
  BY <1>6, <1>a DEF Publish, Quiet, Awaited, Shunned
<1>7. ASSUME NEW t \in Client, WaitDone(t) PROVE Goal'
  BY <1>7, <1>a DEF WaitDone, Quiet, Awaited, Shunned
<1>8. ASSUME NEW t \in Client, WaitBusy(t) PROVE Goal'
  BY ZenonT(30), <1>8, <1>a DEF WaitBusy, Quiet, Awaited, Shunned
<1>9. ASSUME NEW t \in Client, WaitSignal(t) PROVE Goal'
  BY <1>9, <1>a DEF WaitSignal, Quiet, Awaited, Shunned
<1>10. ASSUME NEW t \in Client, Collect(t) PROVE Goal'
  <2>1. CASE queue[t] = q
    <3>1. work[q] = NoCmd
      BY <1>10, <2>1 DEF Collect, AnswerInv, OwnStage
    <3> QED
      BY <1>10, <2>1, <3>1 DEF Collect, Quiet
  <2>2. CASE queue[t] # q
    BY <1>10, <2>2, <1>a DEF Collect, Quiet, Awaited, Shunned
  <2> QED
    BY <2>1, <2>2
<1>11. ASSUME NEW t \in Client, CountTimeout(t) PROVE Goal'
  <2>1. CASE queue[t] = q
    <3>1. \A u \in Client : pc[u] \in Holding /\ queue[u] = q => u = t
      BY <1>11, <2>1, <1>b DEF CountTimeout
    <3>2. reboot_cycle' # reboot_cycle_complete'
      BY <1>11, <1>c DEF CountTimeout
    <3> QED
      BY <1>11, <2>1, <3>1, <3>2 DEF CountTimeout, Shunned
  <2>2. CASE queue[t] # q
    BY <1>11, <2>2, <1>a, <1>c DEF CountTimeout, Quiet, Awaited, Shunned
  <2> QED
    BY <2>1, <2>2
<1>12. ASSUME NEW t \in Client, GatherLock(t) \/ Halt(t) PROVE Goal'
  BY <1>12, <1>a DEF GatherLock, Halt, Quiet, Awaited, Shunned
<1>13. ASSUME NEW t \in Client,
              BootNoFirmware(t) \/ BootOk(t) \/ BootSyncFail(t)
       PROVE  Goal'
  <2>1. ~running
    BY <1>13 DEF BootNoFirmware, BootOk, BootSyncFail, IntactInv, HaltedWhenDue
  <2>2. CASE BootOk(t)
    BY <2>2 DEF BootOk, Handshake, ClearFlags, Intact, Queue, Quiet
  <2> QED
    BY <1>13, <2>1, <2>2 DEF BootNoFirmware, BootSyncFail
<1>14. ASSUME NEW t \in Client, BootComplete(t) PROVE Goal'
  <2>1. Quiet(q)
    BY <1>14 DEF BootComplete, AnswerInv, QuietAfterBoot
  <2> QED
    BY <1>14, <2>1 DEF BootComplete, Quiet
<1>15. ASSUME NEW t \in Client, Unlock(t) PROVE Goal'
  BY <1>15, <1>a DEF Unlock, Quiet, Awaited, Shunned
<1>16. ASSUME NEW p \in Queue, DspTake(p) PROVE Goal'
  BY <1>16, <1>a DEF DspTake, Quiet, Awaited, Shunned
<1>17. ASSUME NEW p \in Queue, DspDone(p) PROVE Goal'
  BY <1>17, <1>a DEF DspDone, Quiet, Awaited, Shunned
<1>18. CASE UNCHANGED vars
  BY <1>18, <1>a DEF vars, Quiet, Awaited, Shunned
<1> QED
  BY <1>1, <1>2, <1>3, <1>4, <1>5, <1>6, <1>7, <1>8, <1>9, <1>10, <1>11,
     <1>12, <1>13, <1>14, <1>15, <1>16, <1>17, <1>18
  DEF Next, Step, Wait, Boot, Dsp, Finished

\* A client that halts or boots the core is alone: the other queues' mutexes
\* are its own.
LEMMA HalterAlone ==
  ASSUME TypeOK, LockInv, Intact,
         NEW t \in Client, Halt(t) \/ BootNoFirmware(t) \/ BootOk(t) \/ BootSyncFail(t),
         NEW u \in Client, pc[u] \in Holding
  PROVE  u = t
<1>1. CASE Halt(t)
  <2>1. lock[queue[t]] = t /\ lock[queue[u]] = u
    BY <1>1 DEF LockInv, LockHeld, Halt, Goto, Holding, Rebooting
  <2>2. queue[u] \in Queue /\ queue[u] < n_queues
    BY DEF TypeOK, Intact, Queue
  <2>3. queue[u] # queue[t] => lock[queue[u]] = t
    BY <1>1, <2>2 DEF Halt, ToLock
  <2> QED
    BY <2>1, <2>3
<1>2. CASE BootNoFirmware(t) \/ BootOk(t) \/ BootSyncFail(t)
  BY <1>2, BooterAlone DEF BootNoFirmware, BootOk, BootSyncFail, Goto
<1> QED
  BY <1>1, <1>2

\* The stages of t's own command, on its queue, unless abandoned.
Stage(t) ==
  LET q == queue[t] IN
  /\ ~running => pc[t] = "wait" /\ flags[q] = {"REQUEST_VALID"}
  /\ running /\ q \notin abandoned =>
       \/ /\ pc[t] = "wait"
          /\ flags[q] = {"REQUEST_VALID"}
          /\ work[q] \in {NoCmd, CmdOf(t)}
       \/ CmdComplete(q) /\ work[q] = NoCmd /\ reply[q] = CmdOf(t)

\* What a waiting client finds in its slot is its own command at some stage.
LEMMA StageStep == Answering => OwnStage'
<1> SUFFICES ASSUME Answering, NEW t \in Client, pc'[t] \in {"wait", "collect"}
             PROVE  Stage(t)'
  BY DEF OwnStage, Stage
<1>a. pc[t] \in {"wait", "collect"} => Stage(t)
  BY DEF Answering, AnswerInv, OwnStage, Stage
<1>b. \A u \in Client :
        pc[t] \in Holding /\ pc[u] \in Holding /\ queue[t] = queue[u] => t = u
  BY OnePerQueue DEF Answering
<1>c. pc[t] \in Awaiting => body[queue[t]] = CmdOf(t) /\ whole[queue[t]]
  BY DEF Answering, AnswerInv, BodyIsOwn
<1> USE DEF Answering, TypeOK, Goto, Holding, Talking, Rebooting, Awaiting,
            CmdOf, xvpVars, commVars, dspVars, localVars
<1>1. ASSUME NEW u \in Client,
             Submit(u) \/ MapRequest(u) \/ Lock(u) \/ Retry(u) \/ Fill(u)
      PROVE  Stage(t)'
  BY <1>1, <1>a DEF Submit, MapRequest, Lock, Retry, Fill, Stage, CmdComplete
<1>2. ASSUME NEW u \in Client, Proceed(u) PROVE Stage(t)'
  BY <1>2, <1>a DEF Proceed, Stage, CmdComplete
<1>3. ASSUME NEW u \in Client, Publish(u) PROVE Stage(t)'
  <2>1. CASE u = t
    <3>1. running /\ queue[t] \notin abandoned => Quiet(queue[t])
      BY <1>3, <2>1, <1>b DEF Publish, AnswerInv, QuietUnlessAwaited
    <3> QED
      BY <1>3, <2>1, <3>1 DEF Publish, Stage, Quiet
  <2>2. CASE u # t
    BY <1>3, <2>2, <1>a, <1>b DEF Publish, Stage, CmdComplete
  <2> QED
    BY <2>1, <2>2
<1>4. ASSUME NEW u \in Client, WaitDone(u) PROVE Stage(t)'
  BY <1>4, <1>a DEF WaitDone, Stage, CmdComplete
<1>5. ASSUME NEW u \in Client, WaitBusy(u) PROVE Stage(t)'
  BY <1>5, <1>a DEF WaitBusy, Stage, CmdComplete
<1>6. ASSUME NEW u \in Client, WaitSignal(u) PROVE Stage(t)'
  BY <1>6, <1>a DEF WaitSignal, Stage, CmdComplete
<1>7. ASSUME NEW u \in Client, Collect(u) PROVE Stage(t)'
  BY <1>7, <1>a, <1>b DEF Collect, Stage, CmdComplete
<1>8. ASSUME NEW u \in Client, CountTimeout(u) \/ GatherLock(u) PROVE Stage(t)'
  BY <1>8, <1>a DEF CountTimeout, GatherLock, Stage, CmdComplete
<1>9. ASSUME NEW u \in Client,
             Halt(u) \/ BootNoFirmware(u) \/ BootOk(u) \/ BootSyncFail(u)
      PROVE  Stage(t)'
  <2>1. pc'[u] \in {"boot", "complete"} /\ pc'[t] = pc[t]
    BY <1>9 DEF Halt, BootNoFirmware, BootOk, BootSyncFail
  <2>2. u = t
    BY <1>9, <2>1, HalterAlone
  <2> QED
    BY <2>1, <2>2
<1>10. ASSUME NEW u \in Client, BootComplete(u) \/ Unlock(u) \/ Unmap(u)
       PROVE  Stage(t)'
  BY <1>10, <1>a DEF BootComplete, Unlock, Unmap, Stage, CmdComplete
<1>11. ASSUME NEW q \in Queue, DspTake(q) PROVE Stage(t)'
  BY <1>11, <1>a, <1>c DEF DspTake, Stage, CmdComplete
<1>12. ASSUME NEW q \in Queue, DspDone(q) PROVE Stage(t)'
  BY <1>12, <1>a DEF DspDone, Stage, CmdComplete
<1>13. CASE UNCHANGED vars
  BY <1>13, <1>a DEF vars, Stage, CmdComplete
<1> QED
  BY <1>1, <1>2, <1>3, <1>4, <1>5, <1>6, <1>7, <1>8, <1>9, <1>10, <1>11,
     <1>12, <1>13
  DEF Next, Step, Wait, Boot, Dsp, Finished

\* A slot with anything to do on it has a body that is written in full.
LEMMA WholeStep == Answering => WholeWhenPosted'
<1> SUFFICES ASSUME Answering,
                    running', NEW q \in Queue, q \notin abandoned', ~Quiet(q)'
             PROVE  whole'[q]
  BY DEF WholeWhenPosted
<1>a. running /\ q \notin abandoned /\ ~Quiet(q) => whole[q]
  BY DEF Answering, AnswerInv, WholeWhenPosted
<1>b. \A t, u \in Client :
        pc[t] \in Holding /\ pc[u] \in Holding /\ queue[t] = queue[u] => t = u
  BY OnePerQueue DEF Answering
<1> USE DEF Answering, TypeOK, Goto, Holding, Talking, Rebooting,
            Quiet, xvpVars, commVars, dspVars, localVars
<1>1. ASSUME NEW t \in Client,
             \/ Submit(t) \/ MapRequest(t) \/ Lock(t) \/ Retry(t)
             \/ Proceed(t) \/ Unmap(t)
      PROVE  whole'[q]
  BY <1>1, <1>a DEF Submit, MapRequest, Lock, Retry, Proceed, Unmap
<1>2. ASSUME NEW t \in Client, Fill(t) PROVE whole'[q]
  <2>1. CASE queue[t] = q
    <3>1. Quiet(q)
      BY <1>2, <2>1, <1>b DEF Fill, AnswerInv, QuietUnlessAwaited, Awaiting
    <3> QED
      BY <1>2, <3>1 DEF Fill
  <2>2. CASE queue[t] # q
    BY <1>2, <2>2, <1>a DEF Fill
  <2> QED
    BY <2>1, <2>2
<1>3. ASSUME NEW t \in Client, Publish(t) PROVE whole'[q]
  BY <1>3, <1>a DEF Publish
<1>4. ASSUME NEW t \in Client,
             WaitDone(t) \/ WaitBusy(t) \/ WaitSignal(t) \/ Collect(t)
      PROVE  whole'[q]
  BY <1>4, <1>a DEF WaitDone, WaitBusy, WaitSignal, Collect
<1>5. ASSUME NEW t \in Client,
             \/ CountTimeout(t) \/ GatherLock(t) \/ Halt(t) \/ BootNoFirmware(t)
             \/ BootComplete(t) \/ Unlock(t)
      PROVE  whole'[q]
  BY <1>5, <1>a DEF CountTimeout, GatherLock, Halt, BootNoFirmware,
                    BootComplete, Unlock
<1>6. ASSUME NEW t \in Client, BootOk(t) PROVE whole'[q]
  BY <1>6 DEF BootOk, Handshake, ClearFlags, Intact, Queue
<1>7. ASSUME NEW t \in Client, BootSyncFail(t) PROVE whole'[q]
  BY <1>7 DEF BootSyncFail, IntactInv, HaltedWhenDue
<1>8. ASSUME NEW p \in Queue, DspTake(p) PROVE whole'[q]
  BY <1>8, <1>a DEF DspTake
<1>9. ASSUME NEW p \in Queue, DspDone(p) PROVE whole'[q]
  BY <1>9, <1>a DEF DspDone
<1>10. CASE UNCHANGED vars
  BY <1>10, <1>a DEF vars
<1> QED
  BY <1>1, <1>2, <1>3, <1>4, <1>5, <1>6, <1>7, <1>8, <1>9, <1>10
  DEF Next, Step, Wait, Boot, Dsp, Finished

\* A client that succeeds has the answer to its own command.
LEMMA AnswerIsOwnStep == Answering => AnswerIsOwn'
<1> SUFFICES ASSUME Answering, NEW t \in Client, pc'[t] = "unlock",
                    ret'[t] \in {"OK", "ENXIO"}, queue'[t] \notin abandoned'
             PROVE  got'[t] = CmdOf(t)'
  BY DEF AnswerIsOwn
<1>a. pc[t] = "unlock" /\ ret[t] \in {"OK", "ENXIO"} /\ queue[t] \notin abandoned
      => got[t] = CmdOf(t)
  BY DEF Answering, AnswerInv, AnswerIsOwn
<1>b. pc[t] \in {"count"} \cup Rebooting => ret[t] \notin {"OK", "ENXIO"}
  BY DEF Answering, AnswerInv, TimeoutFails
<1>c. pc[t] = "collect" => Stage(t)
  BY DEF Answering, AnswerInv, OwnStage, Stage
<1> USE DEF Answering, TypeOK, Goto, Holding, Talking, Rebooting, CmdOf,
            xvpVars, commVars, dspVars, localVars
<1>1. ASSUME NEW u \in Client,
             \/ Submit(u) \/ MapRequest(u) \/ Lock(u) \/ Retry(u)
             \/ Fill(u) \/ Publish(u) \/ WaitDone(u)
      PROVE  got'[t] = CmdOf(t)'
  BY <1>1, <1>a DEF Submit, MapRequest, Lock, Retry, Fill, Publish, WaitDone
<1>2. ASSUME NEW u \in Client, Proceed(u) PROVE got'[t] = CmdOf(t)'
  BY <1>2, <1>a DEF Proceed
<1>3. ASSUME NEW u \in Client, WaitBusy(u) \/ WaitSignal(u)
      PROVE  got'[t] = CmdOf(t)'
  BY <1>3, <1>a DEF WaitBusy, WaitSignal
<1>4. ASSUME NEW u \in Client, Collect(u) PROVE got'[t] = CmdOf(t)'
  <2>1. CASE u = t
    <3>1. reply[queue[t]] = CmdOf(t)
      BY <1>4, <2>1, <1>c DEF Collect, Stage
    <3> QED
      BY <1>4, <2>1, <3>1 DEF Collect
  <2>2. CASE u # t
    BY <1>4, <2>2, <1>a DEF Collect
  <2> QED
    BY <2>1, <2>2
<1>5. ASSUME NEW u \in Client, CountTimeout(u) \/ GatherLock(u) \/ Halt(u)
      PROVE  got'[t] = CmdOf(t)'
  BY <1>5, <1>a, <1>b DEF CountTimeout, GatherLock, Halt
<1>6. ASSUME NEW u \in Client,
             BootNoFirmware(u) \/ BootOk(u) \/ BootSyncFail(u)
      PROVE  got'[t] = CmdOf(t)'
  <2>1. pc'[u] = "complete" /\ pc' = [pc EXCEPT ![u] = "complete"]
    BY <1>6 DEF BootNoFirmware, BootOk, BootSyncFail
  <2>2. pc[t] = "unlock"
    BY <2>1
  <2>3. u = t
    BY <1>6, <2>2, HalterAlone
  <2> QED
    BY <2>1, <2>3
<1>7. ASSUME NEW u \in Client, BootComplete(u) PROVE got'[t] = CmdOf(t)'
  BY <1>7, <1>a, <1>b DEF BootComplete
<1>8. ASSUME NEW u \in Client, Unlock(u) \/ Unmap(u) PROVE got'[t] = CmdOf(t)'
  BY <1>8, <1>a DEF Unlock, Unmap
<1>9. ASSUME NEW q \in Queue, Dsp(q) PROVE got'[t] = CmdOf(t)'
  BY <1>9, <1>a DEF Dsp, DspTake, DspDone
<1>10. CASE UNCHANGED vars
  BY <1>10, <1>a DEF vars
<1> QED
  BY <1>1, <1>2, <1>3, <1>4, <1>5, <1>6, <1>7, <1>8, <1>9, <1>10
  DEF Next, Step, Wait, Boot, Finished

\* The DSP takes no command that is half written.
LEMMA NoTornStep == Answering => NoTornCommand'
<1> SUFFICES ASSUME Answering, NEW q \in Queue, q \notin abandoned'
             PROVE  work'[q] # TornCmd
  BY DEF NoTornCommand
<1>a. q \notin abandoned => work[q] # TornCmd
  BY DEF Answering, AnswerInv, NoTornCommand
<1>b. NoCmd # TornCmd
  BY DEF NoCmd, TornCmd
<1>1. ASSUME NEW t \in Client, BootOk(t) \/ BootSyncFail(t)
      PROVE  work'[q] # TornCmd
  BY <1>1, <1>b DEF BootOk, BootSyncFail
<1>2. ASSUME NEW p \in Queue, DspTake(p)
      PROVE  work'[q] # TornCmd
  <2>1. CASE p = q
    <3>1. q \notin abandoned /\ ~Quiet(q) /\ running
      BY <1>2, <2>1 DEF DspTake, Quiet
    <3>2. whole[q]
      BY <3>1 DEF Answering, AnswerInv, WholeWhenPosted
    <3>3. body[q] # TornCmd
      BY ClientAssumption DEF Answering, TypeOK, Cmd, NoCmd, TornCmd
    <3> QED
      BY <1>2, <2>1, <3>2, <3>3 DEF DspTake, Answering, TypeOK
  <2>2. CASE p # q
    BY <1>2, <2>2, <1>a DEF DspTake, Answering, TypeOK
  <2> QED
    BY <2>1, <2>2
<1>3. ASSUME NEW p \in Queue, DspDone(p)
      PROVE  work'[q] # TornCmd
  BY <1>3, <1>a, <1>b DEF DspDone, Answering, TypeOK
<1>4. CASE UNCHANGED work /\ abandoned \subseteq abandoned'
  BY <1>4, <1>a
<1>5. ASSUME NEW t \in Client,
             \/ Submit(t) \/ Lock(t) \/ GatherLock(t) \/ WaitSignal(t)
             \/ Step(t) /\ ~BootOk(t) /\ ~BootSyncFail(t)
      PROVE  UNCHANGED work /\ abandoned \subseteq abandoned'
  BY <1>5
  DEF Submit, MapRequest, Lock, Retry, Proceed, Fill, Publish, WaitDone,
      WaitBusy, WaitSignal, Collect, CountTimeout, GatherLock, Halt,
      BootNoFirmware, BootComplete, Unlock, Unmap, Step, Wait, Boot, dspVars
<1>6. CASE UNCHANGED vars
  BY <1>6, <1>a DEF vars, dspVars
<1> QED
  BY <1>1, <1>2, <1>3, <1>4, <1>5, <1>6 DEF Answering, Next, Dsp, Finished

\* The third layer under every step.
LEMMA AnswerStep ==
  TypeOK /\ LockInv /\ IntactInv /\ AnswerInv /\ [Next]_vars => AnswerInv'
<1> SUFFICES ASSUME TypeOK, LockInv, IntactInv, AnswerInv, [Next]_vars, Intact'
             PROVE  (/\ BodyIsOwn /\ QuietUnlessAwaited /\ QuietAfterBoot
                     /\ OwnStage /\ WholeWhenPosted /\ TimeoutFails
                     /\ AnswerIsOwn /\ NoTornCommand)'
  BY DEF AnswerInv
<1>1. Answering
  BY IntactBefore DEF Answering
<1> QED
  BY <1>1, BodyStep, QuietStep, QuietAfterBootStep, StageStep, WholeStep,
     TimeoutStep, AnswerIsOwnStep, NoTornStep

\* The third layer, always.
LEMMA AnswerCorrect ==
  Spec => [](TypeOK /\ LockInv /\ IntactInv /\ AnswerInv)
<1>1. Init => AnswerInv
  BY AnswerInit
<1>2. TypeOK /\ LockInv /\ IntactInv /\ AnswerInv /\ [Next]_vars => AnswerInv'
  BY AnswerStep
<1> QED
  BY <1>1, <1>2, IntactCorrect, PTL DEF Spec

\* The firmware serves all queues for ever if none it boots refuses them.
LEMMA AlwaysIntact == ASSUME Downgrade = FALSE PROVE Spec => []Intact
<1>1. Init => Intact
  BY DEF Init, Intact
<1>2. Intact /\ [Next]_vars => Intact'
  <2> SUFFICES ASSUME Intact, [Next]_vars PROVE Intact'
    OBVIOUS
  <2>1. ASSUME NEW t \in Client, BootOk(t) \/ BootSyncFail(t) PROVE Intact'
    BY <2>1 DEF Intact, BootOk, BootSyncFail, Handshake, ClearFlags
  <2>2. \/ UNCHANGED n_queues
        \/ \E t \in Client : BootOk(t) \/ BootSyncFail(t)
    BY DEF Next, Submit, MapRequest, Lock, Retry, Proceed, Fill, Publish,
           WaitDone, WaitBusy, WaitSignal, Collect, CountTimeout, GatherLock,
           Halt, BootNoFirmware, BootComplete, Unlock, Unmap, Step, Wait, Boot,
           Dsp, DspTake, DspDone, Finished, vars, xvpVars
  <2> QED
    BY <2>1, <2>2 DEF Intact
<1> QED
  BY <1>1, <1>2, PTL DEF Spec

\* With a firmware that keeps the number of queues, a submission that returns
\* an answer returns the one the DSP computed for its own command, through
\* any number of timeouts and reboots, unless some client stopped waiting on
\* that queue without a reboot.
THEOREM AnswersAreOwn == ASSUME Downgrade = FALSE PROVE Spec => []AnswerIsOwn
<1>1. Intact /\ AnswerInv => AnswerIsOwn
  BY DEF AnswerInv
<1> QED
  BY <1>1, AlwaysIntact, AnswerCorrect, PTL

\* Under the same conditions the DSP never picks up a half-written command.
THEOREM CommandsAreWhole == ASSUME Downgrade = FALSE PROVE Spec => []NoTornCommand
<1>1. Intact /\ AnswerInv => NoTornCommand
  BY DEF AnswerInv
<1> QED
  BY <1>1, AlwaysIntact, AnswerCorrect, PTL

(***************************************************************************)
(* The buffers shared with the DSP.                                        *)
(***************************************************************************)

\* What a step does to the buffers: they are shared when a client maps them,
\* taken back when it unmaps, and nothing else touches them or turns off.
LEMMA SharedStep == TypeOK /\ HeldInv /\ [Next]_vars => HeldInv'
<1> SUFFICES ASSUME TypeOK, HeldInv, [Next]_vars
             PROVE  HeldInv'
  OBVIOUS
<1> USE DEF TypeOK, HeldInv, WentOffIsOff, SharedWhileMapped, Mapped, Cmd,
            CmdOf, Goto, Holding, Talking, Rebooting, xvpVars, localVars
<1>1. ASSUME NEW t \in Client, Submit(t) PROVE HeldInv'
  BY <1>1 DEF Submit
<1>2. ASSUME NEW t \in Client, MapRequest(t) PROVE HeldInv'
  BY <1>2 DEF MapRequest
<1>3. ASSUME NEW t \in Client, Lock(t) \/ Retry(t) \/ Unlock(t) PROVE HeldInv'
  BY <1>3 DEF Lock, Retry, Unlock
<1>4. ASSUME NEW t \in Client, Proceed(t) PROVE HeldInv'
  BY <1>4 DEF Proceed
<1>5. ASSUME NEW t \in Client, Fill(t) \/ Publish(t) \/ WaitDone(t)
      PROVE  HeldInv'
  BY <1>5 DEF Fill, Publish, WaitDone
<1>6. ASSUME NEW t \in Client, WaitBusy(t) \/ WaitSignal(t) PROVE HeldInv'
  BY ZenonT(30), <1>6 DEF WaitBusy, WaitSignal
<1>7. ASSUME NEW t \in Client, Collect(t) \/ CountTimeout(t) PROVE HeldInv'
  BY <1>7 DEF Collect, CountTimeout
<1>8. ASSUME NEW t \in Client, GatherLock(t) \/ Halt(t) PROVE HeldInv'
  BY <1>8 DEF GatherLock, Halt
<1>9. ASSUME NEW t \in Client, BootNoFirmware(t) \/ BootOk(t) PROVE HeldInv'
  BY <1>9 DEF BootNoFirmware, BootOk
<1>10. ASSUME NEW t \in Client, BootSyncFail(t) \/ BootComplete(t)
       PROVE  HeldInv'
  BY <1>10 DEF BootSyncFail, BootComplete
<1>11. ASSUME NEW t \in Client, Unmap(t) PROVE HeldInv'
  <2>1. UNCHANGED <<off, serial, went_off>>
    BY <1>11 DEF Unmap
  <2>2. held' \subseteq held /\ \A c \in held : c[1] # t => c \in held'
    BY <1>11 DEF Unmap
  <2>3. ~off => CmdOf(t) \notin held'
    BY <1>11 DEF Unmap
  <2>4. \A u \in Client : u # t => pc'[u] = pc[u]
    BY <1>11 DEF Unmap
  <2>5. pc'[t] = "idle"
    BY <1>11 DEF Unmap
  <2> QED
    BY <2>1, <2>2, <2>3, <2>4, <2>5
<1>12. ASSUME NEW q \in Queue, Dsp(q) PROVE HeldInv'
  BY <1>12 DEF Dsp, DspTake, DspDone
<1>13. CASE UNCHANGED vars
  BY <1>13 DEF vars
<1> QED
  BY <1>1, <1>2, <1>3, <1>4, <1>5, <1>6, <1>7, <1>8, <1>9, <1>10, <1>11,
     <1>12, <1>13
  DEF Next, Step, Wait, Boot, Finished

\* Buffers are shared from mapping to unmapping unless the device went off.
LEMMA SharedCorrect == Spec => []HeldInv
<1>1. Init => HeldInv
  BY DEF Init, HeldInv, WentOffIsOff, SharedWhileMapped, Mapped, Holding,
         Talking, Rebooting
<1>2. TypeOK /\ HeldInv /\ [Next]_vars => HeldInv'
  BY SharedStep
<1> QED
  BY <1>1, <1>2, TypeCorrect, PTL DEF Spec

\* Unless the device went off, the buffers shared with the DSP are those of
\* the submissions under way: every path out of xrp_ioctl_submit_sync, the
\* error paths and the lost race to reboot included, takes them back.
THEOREM BuffersReturned == Spec => []LeakOnlyWhenOff
<1>1. TypeOK /\ HeldInv => LeakOnlyWhenOff
  <2> SUFFICES ASSUME TypeOK, HeldInv, ~off, NEW c \in held
               PROVE  pc[c[1]] # "idle" /\ serial[c[1]] = c[2]
    BY DEF LeakOnlyWhenOff
  <2>1. pc[c[1]] \in Mapped /\ c = <<c[1], serial[c[1]]>>
    BY DEF HeldInv, SharedWhileMapped, CmdOf
  <2> QED
    BY <2>1 DEF Mapped, Holding, Talking, Rebooting
<1> QED
  BY <1>1, SharedCorrect, TypeCorrect, PTL

\* The DSP takes only the command of the client that waits on that queue, and
\* a client stays alone on its queue until the DSP was stopped.
LEMMA WorkStep == Answering /\ WorkInv => WorkIsAwaited'
<1> SUFFICES ASSUME Answering, WorkIsAwaited, running', NEW t \in Client,
                    pc'[t] \in Awaiting, queue'[t] \notin abandoned'
             PROVE  (work[queue[t]] \in {NoCmd, CmdOf(t)})'
  BY DEF WorkIsAwaited, WorkInv, Answering
<1> DEFINE Goal == work[queue[t]] \in {NoCmd, CmdOf(t)}
<1>a. running /\ pc[t] \in Awaiting /\ queue[t] \notin abandoned => Goal
  BY DEF WorkIsAwaited
<1>b. \A u \in Client :
        pc[t] \in Holding /\ pc[u] \in Holding /\ queue[t] = queue[u] => t = u
  BY OnePerQueue DEF Answering
<1>c. pc[t] \in Awaiting => body[queue[t]] = CmdOf(t) /\ whole[queue[t]]
  BY DEF Answering, AnswerInv, BodyIsOwn
<1> USE DEF Answering, TypeOK, Goto, Holding, Talking, Rebooting, Awaiting,
            CmdOf, xvpVars, commVars, dspVars, localVars
<1>1. ASSUME NEW u \in Client,
             \/ Submit(u) \/ MapRequest(u) \/ Lock(u) \/ Retry(u) \/ Proceed(u)
             \/ Fill(u) \/ Unlock(u) \/ Unmap(u)
      PROVE  Goal'
  BY ZenonT(30), <1>1, <1>a DEF Submit, MapRequest, Lock, Retry, Proceed, Fill, Unlock,
                    Unmap
<1>2. ASSUME NEW u \in Client, Publish(u) PROVE Goal'
  <2>1. CASE u = t
    <3>1. Quiet(queue[t])
      BY <1>2, <2>1, <1>b DEF Publish, AnswerInv, QuietUnlessAwaited
    <3> QED
      BY <1>2, <2>1, <3>1 DEF Publish, Quiet
  <2>2. CASE u # t
    BY <1>2, <2>2, <1>a DEF Publish
  <2> QED
    BY <2>1, <2>2
<1>3. ASSUME NEW u \in Client,
             WaitDone(u) \/ WaitBusy(u) \/ WaitSignal(u) \/ Collect(u)
      PROVE  Goal'
  BY <1>3, <1>a DEF WaitDone, WaitBusy, WaitSignal, Collect
<1>4. ASSUME NEW u \in Client,
             CountTimeout(u) \/ GatherLock(u) \/ BootComplete(u)
      PROVE  Goal'
  BY <1>4, <1>a DEF CountTimeout, GatherLock, BootComplete
<1>5. ASSUME NEW u \in Client,
             Halt(u) \/ BootNoFirmware(u) \/ BootOk(u) \/ BootSyncFail(u)
      PROVE  Goal'
  <2>1. pc'[u] \in {"boot", "complete"} /\ pc'[t] = pc[t]
    BY <1>5 DEF Halt, BootNoFirmware, BootOk, BootSyncFail
  <2>2. u = t
    BY <1>5, <2>1, HalterAlone
  <2> QED
    BY <2>1, <2>2
<1>6. ASSUME NEW q \in Queue, DspTake(q) PROVE Goal'
  BY <1>6, <1>a, <1>c DEF DspTake
<1>7. ASSUME NEW q \in Queue, DspDone(q) PROVE Goal'
  BY <1>7, <1>a DEF DspDone
<1>8. CASE UNCHANGED vars
  BY <1>8, <1>a DEF vars
<1> QED
  BY <1>1, <1>2, <1>3, <1>4, <1>5, <1>6, <1>7, <1>8
  DEF Next, Step, Wait, Boot, Dsp, Finished

\* What the DSP works on is the command of the client that waits for it.
LEMMA WorkCorrect == Spec => []WorkInv
<1>1. Init => WorkInv
  BY DEF Init, WorkInv, WorkIsAwaited, Awaiting
<1>2. /\ TypeOK /\ LockInv /\ IntactInv /\ AnswerInv /\ WorkInv /\ [Next]_vars
      => WorkInv'
  <2> SUFFICES ASSUME TypeOK, LockInv, IntactInv, AnswerInv, WorkInv,
                      [Next]_vars, Intact'
               PROVE  WorkIsAwaited'
    BY DEF WorkInv
  <2> QED
    BY IntactBefore, WorkStep DEF Answering
<1> QED
  BY <1>1, <1>2, AnswerCorrect, PTL DEF Spec

\* With a firmware that keeps the number of queues, the DSP works on buffers
\* that were taken back only while the client that won the race to reboot is
\* on its way to halt it.
THEOREM ExposureIsBrief == ASSUME Downgrade = FALSE PROVE Spec => []ExposureEnds
<1>1. /\ TypeOK /\ Intact /\ IntactInv /\ AnswerInv /\ HeldInv /\ WorkInv
      => ExposureEnds
  <2> SUFFICES ASSUME TypeOK, Intact, IntactInv, AnswerInv, HeldInv, WorkInv,
                      NEW q \in Queue, q \notin abandoned, running,
                      work[q] # NoCmd, work[q] \notin held
               PROVE  \E t \in Client : pc[t] = "gather"
    BY DEF ExposureEnds
  <2>1. ~Quiet(q)
    BY DEF Quiet
  <2>2. \A t \in Client : queue[t] = q => pc[t] \notin Awaiting
    <3> SUFFICES ASSUME NEW t \in Client, queue[t] = q, pc[t] \in Awaiting
                 PROVE  FALSE
      OBVIOUS
    <3>1. work[q] = CmdOf(t)
      BY DEF WorkInv, WorkIsAwaited
    <3>2. CmdOf(t) \in held
      BY DEF HeldInv, SharedWhileMapped, Mapped, Awaiting, Holding, Talking
    <3> QED
      BY <3>1, <3>2
  <2>3. reboot_cycle # reboot_cycle_complete
    BY <2>1, <2>2 DEF AnswerInv, QuietUnlessAwaited
  <2>4. PICK t \in Client : pc[t] \in Rebooting
    BY <2>3 DEF IntactInv, RebootHasOwner
  <2>5. pc[t] # "boot"
    BY DEF IntactInv, HaltedWhenDue
  <2>6. pc[t] # "complete"
    BY <2>1 DEF AnswerInv, QuietAfterBoot
  <2> QED
    BY <2>4, <2>5, <2>6 DEF Rebooting
<1> QED
  BY <1>1, AlwaysIntact, AnswerCorrect, SharedCorrect, WorkCorrect, PTL

(***************************************************************************)
(* The command path implements the synchronous command of XrpCommand, for  *)
(* any clients, queues and commands, when no signal cuts a wait short,     *)
(* every timeout reboots the firmware and the firmware keeps its queues.   *)
(***************************************************************************)

(***************************************************************************)
(* A command is new to the slots and to the DSP until its client posts it. *)
(***************************************************************************)

\* No command is anywhere at the beginning.
LEMMA FreshInit == Init => FreshInv
<1> SUFFICES ASSUME Init PROVE FreshInv
  OBVIOUS
<1> QED
  BY ClientAssumption
  DEF Init, FreshInv, NotAhead, FreshUntilPosted, HalfWritten, RetSet,
      Unposted, NoCmd

\* The values of an empty and of a half-written slot are no command's.
LEMMA NoCommand ==
  \A t \in Client, n \in Nat : NoCmd # <<t, n>> /\ TornCmd # <<t, n>>
  BY ClientAssumption DEF NoCmd, TornCmd

\* No command is in shared memory before its client has begun it.
LEMMA NotAheadStep == TypeOK /\ NotAhead /\ [Next]_vars => NotAhead'
<1> SUFFICES ASSUME TypeOK, NotAhead, [Next]_vars,
                    NEW q \in Queue, NEW t \in Client, NEW n \in Nat,
                    (body[q] = <<t, n>> \/ work[q] = <<t, n>>)'
             PROVE  n <= serial'[t]
  BY DEF NotAhead
<1>a. body[q] = <<t, n>> \/ work[q] = <<t, n>> => n <= serial[t]
  BY DEF NotAhead
<1>1. ASSUME NEW u \in Client, Submit(u) PROVE n <= serial'[t]
  BY <1>1, <1>a DEF Submit, TypeOK, commVars, dspVars
<1>2. ASSUME NEW u \in Client, Fill(u) PROVE n <= serial'[t]
  BY <1>2, <1>a DEF Fill, TypeOK, CmdOf, dspVars, localVars
<1>3. ASSUME NEW u \in Client, BootOk(u) \/ BootSyncFail(u)
      PROVE  n <= serial'[t]
  BY <1>3, <1>a, NoCommand DEF BootOk, BootSyncFail, localVars
<1>4. ASSUME NEW p \in Queue, Dsp(p) PROVE n <= serial'[t]
  <2>1. UNCHANGED <<body, serial>>
    BY <1>4 DEF Dsp, DspTake, DspDone, commVars, localVars
  <2>2. work'[q] \in {work[q], body[q], TornCmd, NoCmd}
    BY <1>4 DEF Dsp, DspTake, DspDone, TypeOK
  <2> QED
    BY <2>1, <2>2, <1>a, NoCommand
<1>5. ASSUME NEW u \in Client,
             \/ Lock(u) \/ GatherLock(u) \/ WaitSignal(u)
             \/ Step(u) /\ ~Fill(u) /\ ~BootOk(u) /\ ~BootSyncFail(u)
      PROVE  UNCHANGED <<body, work, serial>>
  BY <1>5 DEF MapRequest, Lock, Retry, Proceed, Publish, WaitDone, WaitBusy,
              WaitSignal, Collect, CountTimeout, GatherLock, Halt,
              BootNoFirmware, BootComplete, Unlock, Unmap, Step, Wait, Boot,
              commVars, dspVars, localVars
<1>6. CASE UNCHANGED vars
  BY <1>6, <1>a DEF vars, commVars, dspVars, localVars
<1> QED
  BY <1>1, <1>2, <1>3, <1>4, <1>5, <1>6, <1>a DEF Next, Finished

\* Until a command is published its slot is not whole.
LEMMA HalfWrittenStep ==
  TypeOK /\ LockInv /\ HalfWritten /\ [Next]_vars => HalfWritten'
<1> SUFFICES ASSUME TypeOK, LockInv, HalfWritten, [Next]_vars,
                    NEW t \in Client, pc'[t] = "publish"
             PROVE  ~whole'[queue'[t]]
  BY DEF HalfWritten
<1>a. pc[t] = "publish" => ~whole[queue[t]]
  BY DEF HalfWritten
<1>b. \A u \in Client :
        pc[t] \in Holding /\ pc[u] \in Holding /\ queue[t] = queue[u] => t = u
  BY OnePerQueue
<1> USE DEF TypeOK, Goto, Holding, Talking, commVars, localVars
<1>1. ASSUME NEW u \in Client, Fill(u) PROVE ~whole'[queue'[t]]
  BY <1>1, <1>a DEF Fill
<1>2. ASSUME NEW u \in Client, Publish(u) PROVE ~whole'[queue'[t]]
  BY <1>2, <1>a, <1>b DEF Publish
<1>3. ASSUME NEW u \in Client, Submit(u) PROVE ~whole'[queue'[t]]
  BY <1>3, <1>a DEF Submit
<1>4. ASSUME NEW u \in Client,
             \/ Lock(u) \/ GatherLock(u) \/ WaitSignal(u)
             \/ Step(u) /\ ~Fill(u) /\ ~Publish(u)
      PROVE  UNCHANGED <<whole, queue>> /\ pc[t] = "publish"
  BY <1>4 DEF MapRequest, Lock, Retry, Proceed, WaitDone, WaitBusy,
              WaitSignal, Collect, CountTimeout, GatherLock, Halt,
              BootNoFirmware, BootOk, BootSyncFail, BootComplete, Unlock,
              Unmap, Step, Wait, Boot
<1>5. ASSUME NEW p \in Queue, Dsp(p) PROVE ~whole'[queue'[t]]
  BY <1>5, <1>a DEF Dsp, DspTake, DspDone
<1>6. CASE UNCHANGED vars
  BY <1>6, <1>a DEF vars
<1> QED
  BY <1>1, <1>2, <1>3, <1>4, <1>5, <1>6, <1>a DEF Next, Finished

\* A command is nowhere in shared memory until it is posted.
LEMMA FreshUntilPostedStep ==
  /\ TypeOK /\ LockInv /\ NotAhead /\ HalfWritten /\ FreshUntilPosted
  /\ [Next]_vars
  => FreshUntilPosted'
<1> SUFFICES ASSUME TypeOK, LockInv, NotAhead, HalfWritten, FreshUntilPosted,
                    [Next]_vars, NEW t \in Client, pc'[t] \in Unposted,
                    NEW q \in Queue
             PROVE  (/\ work[q] # CmdOf(t)
                     /\ body[q] = CmdOf(t) => pc[t] = "publish" /\ queue[t] = q)'
  BY DEF FreshUntilPosted
<1> DEFINE Fresh == /\ work[q] # CmdOf(t)
                    /\ body[q] = CmdOf(t) => pc[t] = "publish" /\ queue[t] = q
<1>a. pc[t] \in Unposted => Fresh
  BY DEF FreshUntilPosted
<1>b. CmdOf(t) # NoCmd /\ CmdOf(t) # TornCmd
  BY NoCommand DEF TypeOK, CmdOf
<1> USE DEF TypeOK, Goto, Unposted, CmdOf, commVars, dspVars, localVars
<1>1. ASSUME NEW u \in Client, Submit(u) PROVE Fresh'
  <2>1. CASE u = t
    <3>1. serial'[t] = serial[t] + 1 /\ UNCHANGED <<body, work>>
      BY <1>1, <2>1 DEF Submit
    <3>2. body[q] # <<t, serial[t] + 1>> /\ work[q] # <<t, serial[t] + 1>>
      BY DEF NotAhead
    <3> QED
      BY <3>1, <3>2
  <2>2. CASE u # t
    BY <1>1, <2>2, <1>a DEF Submit
  <2> QED
    BY <2>1, <2>2
<1>2. ASSUME NEW u \in Client, Fill(u) PROVE Fresh'
  BY <1>2, <1>a DEF Fill
<1>3. ASSUME NEW u \in Client, Publish(u) PROVE Fresh'
  BY <1>3, <1>a DEF Publish
<1>4. ASSUME NEW u \in Client, BootOk(u) \/ BootSyncFail(u) PROVE Fresh'
  BY <1>4, <1>a, <1>b DEF BootOk, BootSyncFail
<1>5. ASSUME NEW u \in Client,
             \/ Lock(u) \/ GatherLock(u) \/ WaitSignal(u)
             \/ /\ Step(u)
                /\ ~Fill(u) /\ ~Publish(u) /\ ~BootOk(u) /\ ~BootSyncFail(u)
      PROVE  /\ UNCHANGED <<body, work, queue, serial>>
             /\ pc[t] \in Unposted /\ (pc[t] = "publish" => pc'[t] = "publish")
  BY ZenonT(30), <1>5 DEF MapRequest, Lock, Retry, Proceed, WaitDone, WaitBusy,
              WaitSignal, Collect, CountTimeout, GatherLock, Halt,
              BootNoFirmware, BootComplete, Unlock, Unmap, Step, Wait, Boot
<1>6. ASSUME NEW p \in Queue, DspTake(p) PROVE Fresh'
  <2>1. UNCHANGED <<body, pc, queue, serial>>
    BY <1>6 DEF DspTake
  <2>2. CASE p = q
    <3>1. work'[q] = IF whole[q] THEN body[q] ELSE TornCmd
      BY <1>6, <2>2 DEF DspTake
    <3>2. whole[q] => body[q] # CmdOf(t)
      BY <2>1, <1>a DEF HalfWritten
    <3> QED
      BY <2>1, <3>1, <3>2, <1>a, <1>b
  <2>3. CASE p # q
    BY <1>6, <2>1, <2>3, <1>a DEF DspTake
  <2> QED
    BY <2>2, <2>3
<1>7. ASSUME NEW p \in Queue, DspDone(p) PROVE Fresh'
  BY <1>7, <1>a, <1>b DEF DspDone
<1>8. CASE UNCHANGED vars
  BY <1>8, <1>a DEF vars
<1> QED
  BY <1>1, <1>2, <1>3, <1>4, <1>5, <1>6, <1>7, <1>8, <1>a
  DEF Next, Dsp, Finished

\* A call that returns has a result.
LEMMA RetSetStep == TypeOK /\ RetSet /\ [Next]_vars => RetSet'
<1> SUFFICES ASSUME TypeOK, RetSet, [Next]_vars,
                    NEW t \in Client, pc'[t] # "idle"
             PROVE  ret'[t] # "none"
  BY DEF RetSet
<1>a. pc[t] # "idle" => ret[t] # "none"
  BY DEF RetSet
<1> USE DEF TypeOK, Goto, localVars
<1>1. ASSUME NEW u \in Client, Submit(u) \/ Lock(u) \/ GatherLock(u)
      PROVE  ret'[t] # "none"
  BY <1>1, <1>a DEF Submit, Lock, GatherLock
<1>2. ASSUME NEW u \in Client, WaitSignal(u) \/ Wait(u) \/ Collect(u)
      PROVE  ret'[t] # "none"
  BY <1>2, <1>a DEF WaitSignal, Wait, WaitDone, WaitBusy, Collect
<1>3. ASSUME NEW u \in Client, MapRequest(u) \/ Proceed(u) \/ Unmap(u)
      PROVE  ret'[t] # "none"
  BY <1>3, <1>a DEF MapRequest, Proceed, Unmap
<1>4. ASSUME NEW u \in Client,
             \/ Retry(u) \/ Fill(u) \/ Publish(u) \/ CountTimeout(u) \/ Halt(u)
             \/ BootComplete(u) \/ Unlock(u)
      PROVE  ret'[t] # "none"
  BY <1>4, <1>a DEF Retry, Fill, Publish, CountTimeout, Halt, BootComplete,
                    Unlock
<1>5. ASSUME NEW u \in Client, Boot(u) PROVE ret'[t] # "none"
  BY <1>5, <1>a DEF Boot, BootNoFirmware, BootOk, BootSyncFail
<1>6. ASSUME NEW q \in Queue, Dsp(q) PROVE ret'[t] # "none"
  BY <1>6, <1>a DEF Dsp, DspTake, DspDone
<1>7. CASE UNCHANGED vars
  BY <1>7, <1>a DEF vars
<1> QED
  BY <1>1, <1>2, <1>3, <1>4, <1>5, <1>6, <1>7 DEF Next, Step, Finished

\* A command is nowhere until it is posted, always.
LEMMA FreshCorrect == Spec => []FreshInv
<1>1. TypeOK /\ LockInv /\ FreshInv /\ [Next]_vars => FreshInv'
  BY NotAheadStep, HalfWrittenStep, FreshUntilPostedStep, RetSetStep
  DEF FreshInv
<1> QED
  BY <1>1, FreshInit, LockCorrect, PTL DEF Spec

\* Without signals and with a reboot after every timeout no client stops
\* waiting without a reboot.
NoneAbandoned == abandoned = {}

\* Without signals, and with a reboot after each timeout, nobody leaves a
\* command behind.
LEMMA NeverAbandoned ==
  ASSUME Signals = FALSE, FALSE \notin FirmwareReboot
  PROVE  Spec => []NoneAbandoned
<1>1. Init => NoneAbandoned
  BY DEF Init, NoneAbandoned
<1>2. NoneAbandoned /\ [Next]_vars => NoneAbandoned'
  BY DEF NoneAbandoned, Next, Submit, MapRequest, Lock, Retry, Proceed, Fill,
         Publish, WaitDone, WaitBusy, WaitSignal, Collect, CountTimeout,
         GatherLock, Halt, BootNoFirmware, BootOk, BootSyncFail, BootComplete,
         Unlock, Unmap, Step, Wait, Boot, Dsp, DspTake, DspDone, Finished, vars
<1> QED
  BY <1>1, <1>2, PTL DEF Spec

(***************************************************************************)
(* Reading the state of XrpCommand off the driver's.                       *)
(***************************************************************************)

\* PhaseOf by the label of the client.
PhaseByLabel(t) ==
  /\ pc[t] = "idle" <=> PhaseOf(t) = "idle"
  /\ pc[t] \in Unposted => PhaseOf(t) = "pending"
  /\ pc[t] = "wait" =>
       PhaseOf(t) = IF CmdComplete(queue[t]) /\ reply[queue[t]] = CmdOf(t)
                    THEN "answered"
                    ELSE IF work[queue[t]] = CmdOf(t) THEN "executing"
                                                      ELSE "pending"
  /\ pc[t] = "collect" => PhaseOf(t) = "answered"
  /\ pc[t] \in {"count"} \cup Rebooting => PhaseOf(t) = "failed"
  /\ pc[t] \in {"unlock", "unmap"} =>
       PhaseOf(t) = IF ret[t] \in {"OK", "ENXIO"} THEN "answered" ELSE "failed"

\* The phase of an abstract command follows from the client's place in the
\* code.
LEMMA PhaseNow == ASSUME TypeOK, NEW t \in Client PROVE PhaseByLabel(t)
  BY DEF PhaseByLabel, PhaseOf, TypeOK, Unposted, Holding, Talking, Rebooting

\* So it does after a step.
LEMMA PhaseNext == ASSUME TypeOK', NEW t \in Client PROVE PhaseByLabel(t)'
  BY DEF PhaseByLabel, PhaseOf, TypeOK, Unposted, Holding, Talking, Rebooting

\* The command of a client stands where it stood when neither the client nor,
\* while it waits, its queue is touched.
LEMMA Untouched ==
  ASSUME NEW u \in Client,
         UNCHANGED <<pc[u], queue[u], serial[u], ret[u]>>,
         pc[u] = "wait" => UNCHANGED <<flags[queue[u]], reply[queue[u]],
                                       work[queue[u]]>>
  PROVE  PhaseOf(u)' = PhaseOf(u) /\ ResultOf(u)' = ResultOf(u)
  BY DEF PhaseOf, ResultOf, CmdComplete, CmdOf

\* No command but, perhaps, the one of t moves.
OthersStand(t) ==
  \A u \in Client \ {t} :
    PhaseOf(u)' = PhaseOf(u) /\ ResultOf(u)' = ResultOf(u)

\* How the command of t may move: as in XrpCommand, or not at all.
Moves(t) ==
  \/ PhaseOf(t)' = PhaseOf(t) /\ ResultOf(t)' = ResultOf(t)
  \/ /\ PhaseOf(t) = "idle" /\ PhaseOf(t)' = "pending"
     /\ ResultOf(t)' = "none"
  \/ /\ ResultOf(t)' = ResultOf(t)
     /\ \/ PhaseOf(t) = "pending" /\ PhaseOf(t)' = "executing"
        \/ PhaseOf(t) = "executing" /\ PhaseOf(t)' = "answered"
        \/ PhaseOf(t) \in {"pending", "executing"} /\ PhaseOf(t)' = "failed"
  \/ PhaseOf(t) = "answered" /\ PhaseOf(t)' = "idle" /\ ResultOf(t)' = "ok"
  \/ /\ PhaseOf(t) \in {"pending", "answered", "failed"}
     /\ PhaseOf(t)' = "idle" /\ ResultOf(t)' = "error"

\* A step of one client is a step of its abstract command.
LEMMA OneMoves ==
  ASSUME NEW t \in Client, OthersStand(t), Moves(t)
  PROVE  [Command!Next]_(Command!vars)
<1> DEFINE phase  == [u \in Client |-> PhaseOf(u)]
           result == [u \in Client |-> ResultOf(u)]
<1>1. /\ phase'  = [phase EXCEPT ![t] = PhaseOf(t)']
      /\ result' = [result EXCEPT ![t] = ResultOf(t)']
  BY DEF OthersStand
<1>2. phase[t] = PhaseOf(t) /\ result[t] = ResultOf(t)
  OBVIOUS
<1>3. CASE PhaseOf(t)' = PhaseOf(t) /\ ResultOf(t)' = ResultOf(t)
  <2>1. phase' = phase /\ result' = result
    BY <1>3 DEF OthersStand
  <2> QED
    BY <2>1 DEF Command!vars
<1>4. CASE ResultOf(t)' = ResultOf(t)
  <2>1. result' = result
    BY <1>4 DEF OthersStand
  <2> HIDE DEF phase, result
  <2> QED
    BY <1>1, <1>2, <2>1, <1>3, <1>4
    DEF Moves, Command!Next, Command!Execute, Command!Answer, Command!GiveUp,
        Command!Call, Command!Succeed, Command!Fail, Command!Move,
        phase, result
<1>5. CASE ResultOf(t)' # ResultOf(t)
  BY <1>1, <1>2, <1>5
  DEF Moves, Command!Next, Command!Call, Command!Succeed, Command!Fail,
      Command!Move
<1> QED
  BY <1>4, <1>5

(***************************************************************************)
(* Every step is a step of XrpCommand, or invisible there.                 *)
(***************************************************************************)

Refining == Answering /\ FreshInv /\ NoneAbandoned

\* The commands of the others stand when the step of t stays on t's queue, or
\* when no one else is between taking its queue's mutex and releasing it.
LEMMA OthersLemma ==
  ASSUME TypeOK, LockInv, NEW t \in Client,
         \A u \in Client \ {t} : UNCHANGED <<pc[u], queue[u], serial[u], ret[u]>>,
         \/ UNCHANGED <<flags, reply, work>>
         \/ /\ pc[t] \in Holding
            /\ \A q \in Queue \ {queue[t]} :
                 UNCHANGED <<flags[q], reply[q], work[q]>>
         \/ \A u \in Client : pc[u] \in Holding => u = t
  PROVE  OthersStand(t)
<1> SUFFICES ASSUME NEW u \in Client \ {t}
             PROVE  PhaseOf(u)' = PhaseOf(u) /\ ResultOf(u)' = ResultOf(u)
  BY DEF OthersStand
<1>1. pc[u] = "wait" => UNCHANGED <<flags[queue[u]], reply[queue[u]],
                                    work[queue[u]]>>
  <2> SUFFICES ASSUME pc[u] = "wait"
               PROVE  UNCHANGED <<flags[queue[u]], reply[queue[u]],
                                  work[queue[u]]>>
    OBVIOUS
  <2>1. queue[u] \in Queue /\ queue'[u] = queue[u]
    BY DEF TypeOK
  <2>2. pc[t] \in Holding => queue[u] # queue[t]
    BY OnePerQueue DEF Holding, Talking
  <2>3. ~\A v \in Client : pc[v] \in Holding => v = t
    BY DEF Holding, Talking
  <2> QED
    BY <2>1, <2>2, <2>3
<1> QED
  BY <1>1, Untouched

\* The entry, the retry loop and the exit of the ioctl.
LEMMA QuietMoves ==
  ASSUME Refining, TypeOK', NEW t \in Client,
         \/ Submit(t) \/ MapRequest(t) \/ Lock(t) \/ Retry(t) \/ Proceed(t)
         \/ Fill(t) \/ Unlock(t) \/ Unmap(t)
  PROVE  OthersStand(t) /\ Moves(t)
<1> USE DEF Refining, Answering, TypeOK, Goto, commVars, dspVars, localVars
<1>1. OthersStand(t)
  <2>1. /\ UNCHANGED <<flags, reply, work>>
        /\ \A u \in Client \ {t} :
             UNCHANGED <<pc[u], queue[u], serial[u], ret[u]>>
    BY DEF Submit, MapRequest, Lock, Retry, Proceed, Fill, Unlock, Unmap
  <2> QED
    BY <2>1, OthersLemma
<1>a. PhaseByLabel(t) /\ PhaseByLabel(t)' /\ ret[t] \in Outcome
      /\ (pc[t] # "idle" => ret[t] # "none")
  BY PhaseNow, PhaseNext DEF FreshInv, RetSet
<1> SUFFICES Moves(t)
  BY <1>1
<1> USE DEF PhaseByLabel, ResultOf, Moves, Unposted
<1>2. CASE Submit(t)
  BY <1>2, <1>a DEF Submit
<1>3. CASE MapRequest(t)
  BY <1>3, <1>a DEF MapRequest
<1>4. CASE Lock(t) \/ Retry(t) \/ Fill(t)
  BY <1>4, <1>a DEF Lock, Retry, Fill
<1>5. CASE Proceed(t)
  BY <1>5, <1>a DEF Proceed
<1>6. CASE Unlock(t)
  BY <1>6, <1>a DEF Unlock
<1>7. CASE Unmap(t)
  BY <1>7, <1>a DEF Unmap
<1> QED
  BY <1>1, <1>2, <1>3, <1>4, <1>5, <1>6, <1>7

\* Posting a command, and waiting for it.
LEMMA PostingMoves ==
  ASSUME Refining, TypeOK', NEW t \in Client,
         FALSE \notin FirmwareReboot,
         \/ Publish(t) \/ WaitDone(t) \/ WaitBusy(t) \/ Collect(t)
  PROVE  OthersStand(t) /\ Moves(t)
<1> USE DEF Refining, Answering, TypeOK, Goto, commVars, dspVars, localVars
<1>1. OthersStand(t)
  <2>1. /\ pc[t] \in Holding
        /\ \A q \in Queue \ {queue[t]} :
             UNCHANGED <<flags[q], reply[q], work[q]>>
        /\ \A u \in Client \ {t} :
             UNCHANGED <<pc[u], queue[u], serial[u], ret[u]>>
    <3>1. pc[t] \in Holding
      BY DEF Publish, WaitDone, WaitBusy, Collect, Holding, Talking
    <3>2. \A q \in Queue \ {queue[t]} :
            UNCHANGED <<flags[q], reply[q], work[q]>>
      BY DEF Publish, WaitDone, WaitBusy, Collect
    <3>3. \A u \in Client \ {t} :
            UNCHANGED <<pc[u], queue[u], serial[u], ret[u]>>
      BY ZenonT(30) DEF Publish, WaitDone, WaitBusy, Collect
    <3> QED
      BY <3>1, <3>2, <3>3
  <2> QED
    BY <2>1, OthersLemma
<1>a. PhaseByLabel(t) /\ PhaseByLabel(t)'
  BY PhaseNow, PhaseNext
<1>b. pc[t] \in {"wait", "collect"} => Stage(t)
  BY DEF AnswerInv, OwnStage, Stage
<1>c. queue[t] \notin abandoned
  BY DEF NoneAbandoned
<1> SUFFICES Moves(t)
  BY <1>1
<1> USE DEF PhaseByLabel, ResultOf, Moves, Unposted
<1>2. CASE Publish(t)
  <2>1. work[queue[t]] # CmdOf(t)
    BY <1>2 DEF Publish, FreshInv, FreshUntilPosted
  <2>2. /\ pc'[t] = "wait" /\ ~CmdComplete(queue[t])'
        /\ UNCHANGED <<work[queue[t]], CmdOf(t), queue[t]>>
    BY <1>2 DEF Publish, CmdComplete, CmdOf
  <2> QED
    BY <1>2, <1>a, <2>1, <2>2 DEF Publish
<1>3. CASE WaitDone(t)
  <2>1. reply[queue[t]] = CmdOf(t)
    BY <1>3, <1>b, <1>c DEF WaitDone, Stage, CmdComplete
  <2> QED
    BY <1>3, <1>a, <2>1 DEF WaitDone
<1>4. CASE WaitBusy(t)
  BY <1>4, <1>a DEF WaitBusy
<1>5. CASE Collect(t)
  BY <1>5, <1>a DEF Collect
<1> QED
  BY <1>1, <1>2, <1>3, <1>4, <1>5

\* A timeout, and the reboot that may follow it.
LEMMA RebootMoves ==
  ASSUME Refining, TypeOK', NEW t \in Client,
         \/ CountTimeout(t) \/ GatherLock(t) \/ Halt(t) \/ Boot(t)
         \/ BootComplete(t)
  PROVE  OthersStand(t) /\ Moves(t)
<1> USE DEF Refining, Answering, TypeOK, Goto, commVars, dspVars, localVars
<1>1. OthersStand(t)
  <2>1. \A u \in Client \ {t} : UNCHANGED <<pc[u], queue[u], serial[u], ret[u]>>
    BY DEF CountTimeout, GatherLock, Halt, Boot, BootNoFirmware, BootOk,
           BootSyncFail, BootComplete
  <2>2. CASE Boot(t)
    BY <2>1, <2>2, HalterAlone, OthersLemma DEF Boot
  <2>3. CASE ~Boot(t)
    BY <2>1, <2>3, OthersLemma DEF CountTimeout, GatherLock, Halt, BootComplete
  <2> QED
    BY <2>2, <2>3
<1>a. PhaseByLabel(t) /\ PhaseByLabel(t)'
  BY PhaseNow, PhaseNext
<1>b. pc[t] \in {"count"} \cup Rebooting => ret[t] \notin {"OK", "ENXIO"}
  BY DEF AnswerInv, TimeoutFails
<1> SUFFICES Moves(t)
  BY <1>1
<1> USE DEF PhaseByLabel, ResultOf, Moves, Rebooting
<1>2. CASE CountTimeout(t) \/ GatherLock(t) \/ Halt(t) \/ BootComplete(t)
  BY <1>2, <1>a, <1>b DEF CountTimeout, GatherLock, Halt, BootComplete
<1>3. CASE Boot(t)
  BY <1>3, <1>a, <1>b DEF Boot, BootNoFirmware, BootOk, BootSyncFail
<1> QED
  BY <1>1, <1>2, <1>3

\* The DSP: it starts and ends only the command of the client that waits.
LEMMA DspMoves ==
  ASSUME Refining, TypeOK', NEW q \in Queue, Dsp(q), NEW t \in Client,
         pc[t] = "wait", queue[t] = q
  PROVE  OthersStand(t) /\ Moves(t)
<1> USE DEF Refining, Answering, TypeOK, Goto, commVars, dspVars, localVars
<1>1. OthersStand(t)
  <2>1. /\ \A p \in Queue \ {q} : UNCHANGED <<flags[p], reply[p], work[p]>>
        /\ \A u \in Client \ {t} :
             UNCHANGED <<pc[u], queue[u], serial[u], ret[u]>>
    BY DEF Dsp, DspTake, DspDone
  <2> QED
    BY <2>1, OthersLemma DEF Holding, Talking
<1>a. PhaseByLabel(t) /\ PhaseByLabel(t)' /\ Stage(t)
  BY PhaseNow, PhaseNext DEF AnswerInv, OwnStage, Stage
<1>b. queue[t] \notin abandoned /\ body[q] = CmdOf(t) /\ whole[q]
  BY DEF NoneAbandoned, AnswerInv, BodyIsOwn, Awaiting
<1>c. CmdOf(t) # NoCmd
  BY NoCommand DEF CmdOf
<1> SUFFICES Moves(t)
  BY <1>1
<1> USE DEF PhaseByLabel, ResultOf, Moves, Stage, CmdComplete
<1>2. CASE DspTake(q)
  <2>1. /\ work[q] = NoCmd /\ work'[q] = CmdOf(t)
        /\ UNCHANGED <<pc[t], queue[t], CmdOf(t), flags, reply>>
    BY <1>2, <1>b DEF DspTake, CmdOf
  <2>2. "RESPONSE_VALID" \notin flags[q]
    BY <1>2 DEF DspTake
  <2> QED
    BY <1>2, <1>a, <1>c, <2>1, <2>2 DEF DspTake
<1>3. CASE DspDone(q)
  <2>1. flags[q] = {"REQUEST_VALID"} /\ work[q] = CmdOf(t)
    BY <1>3, <1>a, <1>b DEF DspDone
  <2>2. /\ reply'[q] = work[q] /\ CmdComplete(q)'
        /\ UNCHANGED <<pc[t], queue[t], CmdOf(t)>>
    BY <1>3 DEF DspDone, CmdOf
  <2> QED
    BY <1>3, <1>a, <2>1, <2>2 DEF DspDone
<1> QED
  BY <1>1, <1>2, <1>3 DEF Dsp

\* What the DSP does to a queue where nobody waits is no abstract step.
LEMMA DspInvisible ==
  ASSUME Refining, NEW q \in Queue, Dsp(q),
         \A t \in Client : ~(pc[t] = "wait" /\ queue[t] = q)
  PROVE  \A t \in Client :
           PhaseOf(t)' = PhaseOf(t) /\ ResultOf(t)' = ResultOf(t)
<1> SUFFICES ASSUME NEW t \in Client
             PROVE  PhaseOf(t)' = PhaseOf(t) /\ ResultOf(t)' = ResultOf(t)
  OBVIOUS
<1>1. UNCHANGED <<pc[t], queue[t], serial[t], ret[t]>>
  BY DEF Dsp, DspTake, DspDone, localVars
<1>2. pc[t] = "wait" => UNCHANGED <<flags[queue[t]], reply[queue[t]],
                                    work[queue[t]]>>
  BY DEF Dsp, DspTake, DspDone, localVars, commVars, Refining, Answering, TypeOK
<1> QED
  BY <1>1, <1>2, Untouched

\* A submission runs at most once on the DSP and succeeds only with the
\* response of that run, through timeouts, lost races and reboots
\* (xrp_ioctl_submit_sync against xrp_run_command_sync), when no signal ends a
\* wait, every timeout reboots the firmware and no firmware refuses queues.
THEOREM SubmitImplementsCommand ==
  ASSUME Downgrade = FALSE, Signals = FALSE, FALSE \notin FirmwareReboot
  PROVE  Spec => ImplementsCommand
<1>1. Init => Command!Init
  <2> SUFFICES ASSUME Init PROVE Command!Init
    OBVIOUS
  <2>1. \A t \in Client : PhaseOf(t) = "idle"
    BY TypeInit, PhaseNow DEF Init, PhaseByLabel
  <2>2. \A t \in Client : ResultOf(t) = "none"
    BY DEF Init, ResultOf
  <2> QED
    BY <2>1, <2>2 DEF Command!Init
<1>2. /\ TypeOK /\ LockInv /\ IntactInv /\ AnswerInv /\ FreshInv
      /\ NoneAbandoned /\ Intact /\ Intact' /\ TypeOK' /\ [Next]_vars
      => [Command!Next]_(Command!vars)
  <2> SUFFICES ASSUME Refining, TypeOK', [Next]_vars
               PROVE  [Command!Next]_(Command!vars)
    BY DEF Refining, Answering
  <2>1. ASSUME NEW t \in Client, Submit(t) \/ Lock(t) \/ GatherLock(t)
                                   \/ WaitSignal(t) \/ Step(t)
        PROVE  OthersStand(t) /\ Moves(t)
    <3>1. ~WaitSignal(t)
      BY DEF WaitSignal
    <3> QED
      BY <2>1, <3>1, QuietMoves, PostingMoves, RebootMoves DEF Step, Wait
  <2>2. ASSUME NEW q \in Queue, Dsp(q),
               NEW t \in Client, pc[t] = "wait", queue[t] = q
        PROVE  OthersStand(t) /\ Moves(t)
    BY <2>2, DspMoves
  <2>3. CASE \A t \in Client :
               PhaseOf(t)' = PhaseOf(t) /\ ResultOf(t)' = ResultOf(t)
    BY <2>3 DEF Command!vars
  <2>4. ASSUME NEW q \in Queue, Dsp(q),
               \A t \in Client : ~(pc[t] = "wait" /\ queue[t] = q)
        PROVE  [Command!Next]_(Command!vars)
    BY <2>4, <2>3, DspInvisible
  <2>5. CASE UNCHANGED vars
    <3>1. \A t \in Client :
            PhaseOf(t)' = PhaseOf(t) /\ ResultOf(t)' = ResultOf(t)
      BY <2>5, Untouched DEF vars, commVars, dspVars, localVars
    <3> QED
      BY <3>1, <2>3
  <2> QED
    BY <2>1, <2>2, <2>4, <2>5, OneMoves DEF Next, Finished
<1> QED
  BY <1>1, <1>2, AnswerCorrect, FreshCorrect, NeverAbandoned, AlwaysIntact, PTL
  DEF Spec, ImplementsCommand, Command!Spec
=============================================================================
