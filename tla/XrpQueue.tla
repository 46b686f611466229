------------------------------- MODULE XrpQueue -------------------------------
(***************************************************************************)
(* A host queue of the user library: the request list and its worker       *)
(* thread, the events of the commands, and the threads that wait for them  *)
(* (driver/xrp-user/xrp-host: xrp_threaded_queue.c, xrp_host_common.c,     *)
(* hosted/xrp_linux.c).                                                    *)
(*                                                                         *)
(* A critical section is one step, except the broadcast of an event, which *)
(* visits the waiting groups one by one while it holds the event's lock.   *)
(* Reference counts are C atomics.  The command itself (the ioctl) is      *)
(* external here: it ends in success or failure.  A failed malloc in the   *)
(* enqueue changes nothing and is left out, as are buffer groups and       *)
(* wait_any with the same event twice in its array.                        *)
(***************************************************************************)
EXTENDS Naturals, Sequences, FiniteSets, SequencesExt

CONSTANTS
  Thread,    \* callers, each with a reference to the queue at the start
  Cmd,       \* the commands they may enqueue, each at most once
  Silent,    \* those enqueued with a NULL event pointer
  Outcome,   \* how a command may end: "SUCCESS", "FAILURE" or either
  Nil,       \* the null pointer
  MaxArray   \* bound: events in one call of xrp_wait_any

ASSUME QueueAssumption ==
  /\ Thread # {} /\ IsFiniteSet(Thread) /\ Nil \notin Thread \cup Cmd
  /\ Nil \notin Thread \X (1 .. MaxArray)
  /\ Outcome \subseteq {"SUCCESS", "FAILURE"} /\ Outcome # {}
  /\ Silent \subseteq Cmd /\ MaxArray \in Nat

VARIABLES
  queue,   \* struct xrp_queue: list of requests, exit, ref, whether freed
  ran,     \* history: the commands executed, in order
  worker,  \* the queue's thread: where it is, its request, its cursor
  event,   \* struct xrp_event of each command
  caller,  \* each thread: where it is, what it holds, its call of xrp_wait*
  group,   \* status of the group event on the stack of xrp_wait_any
  links    \* the link array of xrp_wait_any

vars == <<queue, ran, worker, event, caller, group, links>>

Index == 1 .. MaxArray
Link == Thread \X Index
NoLink == [group |-> Nil, next |-> Nil, prev |-> Nil]

Init ==
  /\ queue = [list |-> <<>>, exit |-> FALSE, ref |-> Cardinality(Thread),
              freed |-> FALSE]
  /\ ran = <<>>
  /\ worker = [at |-> "look", cur |-> Nil, st |-> "PENDING", gp |-> Nil,
               lk |-> Nil]
  /\ event = [c \in Cmd |->
               [st |-> "NONE", ref |-> 0, group |-> Nil, link |-> Nil]]
  /\ caller = [t \in Thread |-> [at |-> "idle", keeps |-> TRUE, holds |-> {},
                                 array |-> <<>>, i |-> 1, n |-> 0,
                                 rv |-> 0]]
  /\ group = [t \in Thread |-> "NONE"]
  /\ links = [t \in Thread |-> [i \in Index |-> NoLink]]

At(t) == caller[t].at
Goto(t, l) == caller' = [caller EXCEPT ![t].at = l]

\* The worker keeps the event's lock while it visits the groups.
Locked(c) == worker.at = "walk" /\ worker.cur = c

Freed(c) == event[c].st # "NONE" /\ event[c].ref = 0

\* pthread_cond_broadcast on the queue's condition.
Woken == IF worker.at = "asleep" THEN [worker EXCEPT !.at = "look"] ELSE worker

(*--------------------------- the calling threads --------------------------*)

(* xrp_enqueue_command and xrp_queue_push: a reference to the event for the *)
(* caller, one for the request, and the event's own reference to the queue. *)
EnqueueWith(t, c, refs, awakened) ==
  /\ At(t) = "idle" /\ caller[t].keeps
  /\ event[c].st = "NONE" /\ c \notin ToSet(ran) \cup ToSet(queue.list)
  /\ c # worker.cur
  /\ worker' = awakened
  /\ IF c \in Silent
       THEN /\ queue' = [queue EXCEPT !.list = Append(@, c)]
            /\ UNCHANGED <<event, caller>>
       ELSE /\ queue' = [queue EXCEPT !.list = Append(@, c), !.ref = @ + 1]
            /\ event' = [event EXCEPT ![c].st = "PENDING", ![c].ref = refs]
            /\ caller' = [caller EXCEPT ![t].holds = @ \cup {c}]
  /\ UNCHANGED <<ran, group, links>>

\* Only a push onto an empty list wakes the worker.
WokenByPush == IF queue.list = <<>> THEN Woken ELSE worker

\* Variant: the request has no reference of its own.
EnqueueUnretained(t, c) == EnqueueWith(t, c, 1, WokenByPush)

\* Variant: the push wakes nobody.
EnqueueUnheard(t, c) == EnqueueWith(t, c, 2, worker)

Enqueue(t, c) == EnqueueWith(t, c, 2, WokenByPush)

\* xrp_retain_event on behalf of another thread, which gets the pointer.
Share(t, u, c) ==
  /\ At(t) = "idle" /\ At(u) = "idle"
  /\ c \in caller[t].holds \ caller[u].holds
  /\ event' = [event EXCEPT ![c].ref = @ + 1]
  /\ caller' = [caller EXCEPT ![u].holds = @ \cup {c}]
  /\ UNCHANGED <<queue, ran, worker, group, links>>

\* The last reference to the queue starts xrp_queue_destroy.
DropQueue(t, keeps, holds) ==
  /\ queue' = [queue EXCEPT !.ref = @ - 1]
  /\ caller' = [caller EXCEPT ![t].keeps = keeps, ![t].holds = holds,
                  ![t].at = IF queue.ref = 1 THEN "destroy" ELSE "idle"]

ReleaseQueue(t) ==
  /\ At(t) = "idle" /\ caller[t].keeps
  /\ DropQueue(t, FALSE, caller[t].holds)
  /\ UNCHANGED <<ran, worker, event, group, links>>

ReleaseEvent(t, c) ==
  /\ At(t) = "idle" /\ c \in caller[t].holds
  /\ event' = [event EXCEPT ![c].ref = @ - 1]
  /\ IF event[c].ref = 1
       THEN DropQueue(t, caller[t].keeps, caller[t].holds \ {c})
       ELSE /\ caller' = [caller EXCEPT ![t].holds = @ \ {c}]
            /\ UNCHANGED queue
  /\ UNCHANGED <<ran, worker, group, links>>

DestroyWith(t, awakened) ==
  /\ At(t) = "destroy"
  /\ queue' = [queue EXCEPT !.exit = TRUE]
  /\ worker' = awakened
  /\ Goto(t, "join")
  /\ UNCHANGED <<ran, event, group, links>>

\* Variant: the worker is not told of the exit flag.
DestroyUnheard(t) == DestroyWith(t, worker)

\* xrp_queue_destroy up to the join.
Destroy(t) == DestroyWith(t, Woken)

\* The worker has left: the rest of xrp_queue_destroy, and the free.
Join(t) ==
  /\ At(t) = "join" /\ worker.at = "gone"
  /\ queue' = [queue EXCEPT !.freed = TRUE]
  /\ Goto(t, "idle")
  /\ UNCHANGED <<ran, worker, event, group, links>>

(*------------------------ xrp_wait and xrp_wait_any -----------------------*)

StartWait(t, c) ==
  /\ At(t) = "idle" /\ c \in caller[t].holds
  /\ caller' = [caller EXCEPT ![t].at = "wait", ![t].array = <<c>>]
  /\ UNCHANGED <<queue, ran, worker, event, group, links>>

Wait(t) ==
  LET c == caller[t].array[1] IN
  /\ At(t) = "wait" /\ ~Locked(c)
  /\ IF event[c].st = "PENDING"
       THEN Goto(t, "waiting")
       ELSE caller' = [caller EXCEPT ![t].at = "idle", ![t].array = <<>>]
  /\ UNCHANGED <<queue, ran, worker, event, group, links>>

StartWaitAny(t, array) ==
  /\ At(t) = "idle" /\ ToSet(array) \subseteq caller[t].holds
  /\ caller' = [caller EXCEPT ![t].at = "link", ![t].array = array, ![t].i = 1,
                  ![t].n = Len(array), ![t].rv = Len(array) + 1]
  /\ group' = [group EXCEPT ![t] = "PENDING"]
  /\ links' = [links EXCEPT ![t] = [i \in Index |-> NoLink]]
  /\ UNCHANGED <<queue, ran, worker, event>>

(* Insert the waiter's link at the head of the event's chain, or stop at    *)
(* an event that is complete.                                               *)
LinkEvent(t) ==
  LET i == caller[t].i
      c == caller[t].array[i]
      first == event[c].link IN
  /\ At(t) = "link" /\ ~Locked(c)
  /\ IF event[c].st = "PENDING"
       THEN /\ links' =
                 [u \in Thread |-> [j \in Index |->
                   IF <<u, j>> = <<t, i>>
                     THEN [links[t][i] EXCEPT !.group = event[c].group,
                                              !.next = first]
                   ELSE IF <<u, j>> = first
                     THEN [links[u][j] EXCEPT !.prev = <<t, i>>]
                     ELSE links[u][j]]]
            /\ event' = [event EXCEPT ![c].group = t, ![c].link = <<t, i>>]
            /\ caller' = [caller EXCEPT ![t].i = i + 1,
                 ![t].at = IF i = caller[t].n THEN "gwait" ELSE "link"]
       ELSE /\ caller' = [caller EXCEPT ![t].at = "unlink", ![t].i = 1,
                                         ![t].n = i - 1, ![t].rv = i]
            /\ UNCHANGED <<event, links>>
  /\ UNCHANGED <<queue, ran, worker, group>>

\* xrp_wait on the group, when every event was pending.
WaitGroup(t) ==
  /\ At(t) = "gwait"
  /\ IF group[t] = "PENDING"
       THEN Goto(t, "gwaiting")
       ELSE caller' = [caller EXCEPT ![t].at = "unlink", ![t].i = 1]
  /\ UNCHANGED <<queue, ran, worker, event, group, links>>

UnlinkWith(t, ahead, behind, found) ==
  LET i == caller[t].i
      c == caller[t].array[i]
      l == links[t][i] IN
  /\ At(t) = "unlink" /\ i <= caller[t].n /\ ~Locked(c)
  /\ event' = IF event[c].group = t
                THEN [event EXCEPT ![c].group = l.group, ![c].link = l.next]
                ELSE event
  /\ links' = [u \in Thread |-> [j \in Index |->
                [links[u][j] EXCEPT
                   !.prev = IF <<u, j>> = ahead THEN l.prev ELSE @,
                   !.group = IF <<u, j>> = behind THEN l.group ELSE @,
                   !.next = IF <<u, j>> = behind THEN l.next ELSE @]]]
  /\ caller' = [caller EXCEPT ![t].i = i + 1, ![t].rv = found]
  /\ UNCHANGED <<queue, ran, worker, group>>

\* The neighbours of t's current link, the earlier one only if it knows t.
NextLink(t) == links[t][caller[t].i].next
PrevLink(t) ==
  LET p == links[t][caller[t].i].prev IN
  IF p # Nil /\ links[p[1]][p[2]].group = t THEN p ELSE Nil

\* rv after the unlinking loop looked at the current event.
Found(t) == IF event[caller[t].array[caller[t].i]].st # "PENDING"
              THEN caller[t].i ELSE caller[t].rv

\* Variant: the link before this one goes on pointing to it.
UnlinkBehind(t) == UnlinkWith(t, NextLink(t), Nil, Found(t))

\* Variant: only the linking loop sets rv.
UnlinkBlind(t) == UnlinkWith(t, NextLink(t), PrevLink(t), caller[t].rv)

(* Take the link out of the event's chain, which other threads may have     *)
(* extended or shortened meanwhile, and note an event that is complete.     *)
UnlinkEvent(t) == UnlinkWith(t, NextLink(t), PrevLink(t), Found(t))

Returning(t) == At(t) = "unlink" /\ caller[t].i > caller[t].n

WaitAnyReturn(t) ==
  /\ Returning(t)
  /\ caller' = [caller EXCEPT ![t].at = "idle", ![t].array = <<>>, ![t].i = 1,
                              ![t].n = 0, ![t].rv = 0]
  /\ group' = [group EXCEPT ![t] = "NONE"]
  /\ links' = [links EXCEPT ![t] = [i \in Index |-> NoLink]]
  /\ UNCHANGED <<queue, ran, worker, event>>

(*------------------------------- the worker -------------------------------*)

DequeueFrom(c, rest) ==
  /\ worker.at = "look"
  /\ IF queue.list # <<>>
       THEN /\ worker' = [worker EXCEPT !.at = "run", !.cur = c]
            /\ queue' = [queue EXCEPT !.list = rest]
       ELSE /\ worker' = [worker EXCEPT
                            !.at = IF queue.exit THEN "gone" ELSE "asleep"]
            /\ UNCHANGED queue
  /\ UNCHANGED <<ran, event, caller, group, links>>

\* Variant: the request queued last is taken.
DequeueLast == DequeueFrom(Last(queue.list), Front(queue.list))

\* xrp_queue_process: the requests that are queued come before the exit flag.
Dequeue == DequeueFrom(Head(queue.list), Tail(queue.list))

\* _xrp_run_command; a request without an event ends here.
Run(s) ==
  /\ worker.at = "run"
  /\ ran' = Append(ran, worker.cur)
  /\ worker' = IF worker.cur \in Silent
                 THEN [worker EXCEPT !.at = "look", !.cur = Nil]
                 ELSE [worker EXCEPT !.at = "signal", !.st = s]
  /\ UNCHANGED <<queue, event, caller, group, links>>

\* The threads asleep in xrp_wait on c look at its status again.
Wake(c) == [t \in Thread |->
             IF At(t) = "waiting" /\ caller[t].array[1] = c
               THEN [caller[t] EXCEPT !.at = "wait"] ELSE caller[t]]

\* xrp_impl_broadcast_event up to its loop; the event's lock is kept.
Signal ==
  LET c == worker.cur IN
  /\ worker.at = "signal"
  /\ event' = [event EXCEPT ![c].st = worker.st]
  /\ caller' = Wake(c)
  /\ worker' = [worker EXCEPT !.at = "walk", !.gp = event[c].group,
                              !.lk = event[c].link]
  /\ UNCHANGED <<queue, ran, group, links>>

\* One round of the loop: signal a group, then follow its link.
WalkGroup ==
  LET g == worker.gp
      l == links[worker.lk[1]][worker.lk[2]] IN
  /\ worker.at = "walk" /\ worker.lk # Nil
  /\ group' = [group EXCEPT ![g] = worker.st]
  /\ caller' = [caller EXCEPT ![g].at = IF @ = "gwaiting" THEN "gwait" ELSE @]
  /\ worker' = [worker EXCEPT !.gp = l.group, !.lk = l.next]
  /\ UNCHANGED <<queue, ran, event, links>>

WalkEnd ==
  /\ worker.at = "walk" /\ worker.lk = Nil
  /\ worker' = [worker EXCEPT !.at = "drop", !.gp = Nil]
  /\ UNCHANGED <<queue, ran, event, caller, group, links>>

DropEventThen(leave) ==
  LET c == worker.cur
      lastEvent == event[c].ref = 1
      lastQueue == lastEvent /\ queue.ref = 1 IN
  /\ worker.at = "drop"
  /\ event' = [event EXCEPT ![c].ref = @ - 1]
  /\ queue' = [queue EXCEPT !.ref = IF lastEvent THEN @ - 1 ELSE @,
                            !.exit = @ \/ lastQueue, !.freed = @ \/ lastQueue]
  /\ worker' = [worker EXCEPT !.at = IF lastQueue THEN leave ELSE "look",
                              !.cur = Nil, !.st = "PENDING"]
  /\ UNCHANGED <<ran, caller, group, links>>

\* Variant: sync_exit is not set.
DropEventStay == DropEventThen("look")

(* The request's reference to its event.  When it was the last, and the     *)
(* event's reference to the queue too, the worker destroys its own queue:   *)
(* the join fails, so it sets its own exit flag and detaches itself.        *)
DropEvent == DropEventThen("gone")

(*----------------------------- the whole queue ----------------------------*)

\* The arguments of xrp_wait_any: distinct events, at most MaxArray.
Arrays == {a \in UNION {[1 .. n -> Cmd \ Silent] : n \in Index} : IsInjective(a)}

Start(t) == \/ \E c \in Cmd : \/ Enqueue(t, c) \/ StartWait(t, c)
                             \/ ReleaseEvent(t, c)
                             \/ \E u \in Thread : Share(t, u, c)
            \/ ReleaseQueue(t)
            \/ \E a \in Arrays : StartWaitAny(t, a)

\* The rest of a call that has begun.
Continue(t) == \/ Wait(t) \/ LinkEvent(t) \/ WaitGroup(t) \/ UnlinkEvent(t)
               \/ WaitAnyReturn(t) \/ Destroy(t) \/ Join(t)

Work == \/ Dequeue \/ (\E s \in Outcome : Run(s)) \/ Signal \/ WalkGroup
        \/ WalkEnd \/ DropEvent

\* The queue is gone and with it everything anyone could use.
Finished == queue.freed /\ UNCHANGED vars

Next == (\E t \in Thread : Start(t) \/ Continue(t)) \/ Work \/ Finished

Spec == Init /\ [][Next]_vars

(* The scheduler runs every thread: the worker, and a caller inside a call. *)
(* When a caller makes its calls is its own affair.                         *)
FairSpec == Spec /\ WF_vars(Work) /\ \A t \in Thread : WF_vars(Continue(t))

(*------------------------------- properties -------------------------------*)

TypeOK ==
  /\ queue \in [list : Seq(Cmd), exit : BOOLEAN, ref : Nat, freed : BOOLEAN]
  /\ ran \in Seq(Cmd)
  /\ worker \in [at : {"look", "asleep", "run", "signal", "walk", "drop", "gone"},
                  cur : Cmd \cup {Nil}, st : Outcome \cup {"PENDING"},
                  gp : Thread \cup {Nil}, lk : Link \cup {Nil}]
  /\ event \in [Cmd -> [st : Outcome \cup {"NONE", "PENDING"}, ref : Nat,
                         group : Thread \cup {Nil}, link : Link \cup {Nil}]]
  /\ caller \in [Thread ->
       [at : {"idle", "wait", "waiting", "link", "gwait", "gwaiting", "unlink",
              "destroy", "join"},
        keeps : BOOLEAN, holds : SUBSET Cmd, array : Seq(Cmd), i : Nat, n : Nat,
        rv : Nat]]
  /\ group \in [Thread -> Outcome \cup {"NONE", "PENDING"}]
  /\ links \in [Thread -> [Index -> [group : Thread \cup {Nil},
                                     next : Link \cup {Nil},
                                     prev : Link \cup {Nil}]]]

(* The events a thread's xrp_wait or xrp_wait_any may still look at, and    *)
(* those at which it has a link.                                            *)
Uses(t) == IF At(t) = "idle" THEN {} ELSE ToSet(caller[t].array)

LinkedAt(t) ==
  CASE At(t) = "link" -> 1 .. caller[t].i - 1
    [] At(t) \in {"gwait", "gwaiting"} -> 1 .. caller[t].n
    [] At(t) = "unlink" -> caller[t].i .. caller[t].n
    [] OTHER -> {}

(* Nothing is used after it was freed, in whatever order the last           *)
(* references to the events and to the queue are dropped (the comment in    *)
(* xrp_api.h: "Decrement queue reference count (and free it once the        *)
(* counter gets down to zero)").  The worker uses the queue until it        *)
(* leaves and its request's event until it has dropped it; while it visits  *)
(* the groups, the group and the link under its cursor are on the stack     *)
(* and in the array of a xrp_wait_any that has not returned.                *)
NothingFreedInUse ==
  /\ queue.freed => worker.at = "gone"
  /\ \A t \in Thread :
       /\ caller[t].keeps \/ At(t) \in {"destroy", "join"} => ~queue.freed
       /\ \A c \in caller[t].holds \cup Uses(t) : ~Freed(c)
  /\ worker.at \in {"signal", "walk", "drop"} => ~Freed(worker.cur)
  /\ worker.at = "walk" /\ worker.lk # Nil =>
       \E t \in Thread : /\ worker.gp = t
                         /\ \E i \in LinkedAt(t) : worker.lk = <<t, i>>

\* The links reached from the event's own pointer, along next.
Chain(c) ==
  LET K == 1 .. Cardinality(Link) + 1
      hop[k \in K] == IF k = 1 THEN event[c].link
                     ELSE IF hop[k - 1] = Nil THEN Nil
                     ELSE links[hop[k - 1][1]][hop[k - 1][2]].next IN
  [k \in 1 .. Cardinality({m \in K : hop[m] # Nil}) |-> hop[k]]

\* The links at which a thread waits for an event.
WaitingAt(c) == {l \in Link : /\ l[2] \in LinkedAt(l[1])
                             /\ caller[l[1]].array[l[2]] = c}

\* The k-th link of a chain and its group, null beyond its ends.
LinkOf(chain, k) == IF k \in 1 .. Len(chain) THEN chain[k] ELSE Nil
GroupOf(chain, k) == IF k \in 1 .. Len(chain) THEN chain[k][1] ELSE Nil

\* An event and the links that wait for it are chained up in that order.
Follows(c, chain) ==
  /\ ToSet(chain) = WaitingAt(c)
  /\ IsInjective(chain)
  /\ event[c].group = GroupOf(chain, 1)
  /\ event[c].link = LinkOf(chain, 1)
  /\ \A k \in 1 .. Len(chain) :
       links[chain[k][1]][chain[k][2]] =
         [group |-> GroupOf(chain, k + 1), next |-> LinkOf(chain, k + 1),
          prev |-> LinkOf(chain, k - 1)]

(* The chain of every event holds exactly the links of the threads that     *)
(* wait for it, whichever of them linked or left first; each element        *)
(* knows its neighbours and the group of the next one.  A waiter missing    *)
(* from the chain is never woken; one too many is a pointer into a dead     *)
(* stack.  (xrp_wait_any reports "inconsistent link state" otherwise.)      *)
ChainSound == \A c \in Cmd : Follows(c, Chain(c))

(* "return index of a completed event in the event array" (xrp_api.h):      *)
(* also when the wait ended because a group was signalled for another       *)
(* event than the one the unlinking loop met last.                          *)
AnyIsComplete ==
  \A t \in Thread : Returning(t) =>
    /\ caller[t].rv \in DOMAIN caller[t].array
    /\ event[caller[t].array[caller[t].rv]].st \in Outcome

\* A caller inside a call comes back: no wake-up is lost, no join hangs.
CallsReturn == \A t \in Thread : At(t) # "idle" ~> At(t) = "idle"

(* The queue is freed once its last reference is gone, whether a caller or  *)
(* the worker itself dropped it.                                            *)
QueueReclaimed == queue.ref = 0 ~> queue.freed

(* The promise of an ordered channel.  A command counts as accepted when it *)
(* was pushed, and its outcome is known when its event says so.             *)
Channel == INSTANCE XrpChannel WITH
  accepted <- ran \o (IF worker.at = "run" THEN <<worker.cur>> ELSE <<>>)
                  \o queue.list,
  settled <- [c \in Cmd |-> IF event[c].st \in Outcome THEN event[c].st
                            ELSE "UNKNOWN"]

ImplementsChannel == Channel!Spec

(* Every command that was accepted is executed.  Not so for one without an  *)
(* event: it holds no reference to the queue, and a worker that drops the   *)
(* last one itself leaves the requests behind it in the list.               *)
AllExecuted == \A c \in Cmd : c \in ToSet(queue.list) ~> c \in ToSet(ran)
=============================================================================
