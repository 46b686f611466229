----------------------------- MODULE XrpQueueProof -----------------------------
(***************************************************************************)
(* Proofs about a host queue (module XrpQueue), for any threads, commands  *)
(* and arrays: the chains of the waiting threads, their calls, and what    *)
(* follows from the invariant of XrpQueueRefsProof.                        *)
(*                                                                         *)
(* The links of the threads in xrp_wait_any form one chain for each event, *)
(* whoever of them links or leaves first: a sequence that a new link       *)
(* enters at the head and that a leaving one is cut out of.  A thread      *)
(* whose group was signalled still has a complete event to find.           *)
(*                                                                         *)
(* From the invariant follow the types, that nothing freed is used, that   *)
(* the chain found along the next pointers is the right one, that          *)
(* xrp_wait_any returns the index of a complete event, and that the queue  *)
(* implements the ordered channel of XrpChannel.                           *)
(***************************************************************************)
EXTENDS XrpQueueRefsProof

(***************************************************************************)
(* The chains of the waiting threads.                                      *)
(***************************************************************************)

\* A step that leaves the chains of the events alone.
Untied ==
  /\ \A t \in Thread :
       /\ LinkedAt(t)' = LinkedAt(t)
       /\ \A j \in LinkedAt(t) : /\ caller'[t].array[j] = caller[t].array[j]
                                 /\ links'[t][j] = links[t][j]
  /\ \A c \in Cmd : /\ event'[c].group = event[c].group
                    /\ event'[c].link = event[c].link

\* A chain that a step does not touch is a chain after it.
LEMMA ChainKept ==
  ASSUME NEW c \in Cmd, NEW s \in Seq(Link), Follows(c, s),
         WaitingAt(c)' = WaitingAt(c),
         event'[c].group = event[c].group, event'[c].link = event[c].link,
         \A l \in WaitingAt(c) : links'[l[1]][l[2]] = links[l[1]][l[2]]
  PROVE  Follows(c, s)'
<1>1. /\ ToSet(s) = WaitingAt(c) /\ IsInjective(s)
      /\ event[c].group = GroupOf(s, 1) /\ event[c].link = LinkOf(s, 1)
      /\ \A k \in 1 .. Len(s) :
           links[s[k][1]][s[k][2]] =
             [group |-> GroupOf(s, k + 1), next |-> LinkOf(s, k + 1),
              prev |-> LinkOf(s, k - 1)]
  BY DEF Follows
<1>2. \A k \in 1 .. Len(s) : s[k] \in WaitingAt(c)
  BY <1>1, ToSetFacts
<1>3. \A k \in 1 .. Len(s) :
        links'[s[k][1]][s[k][2]] =
          [group |-> GroupOf(s, k + 1), next |-> LinkOf(s, k + 1),
           prev |-> LinkOf(s, k - 1)]
  BY <1>1, <1>2
<1> QED
  BY <1>1, <1>3 DEF Follows, ToSet, IsInjective, GroupOf, LinkOf

\* So are all of them when the threads' links are.
LEMMA UntiedKept ==
  ASSUME Untied, NEW c \in Cmd, NEW s \in Seq(Link), Follows(c, s)
  PROVE  Follows(c, s)'
<1>1. \A l \in Link : l[1] \in Thread
  BY DEF Link
<1>2. \A l \in Link : /\ l[2] \in LinkedAt(l[1]) /\ caller[l[1]].array[l[2]] = c
                        <=> /\ l[2] \in LinkedAt(l[1])'
                            /\ caller'[l[1]].array[l[2]] = c
  BY <1>1 DEF Untied
<1>3. WaitingAt(c)' = WaitingAt(c)
  BY <1>2 DEF WaitingAt
<1>4. \A l \in WaitingAt(c) : links'[l[1]][l[2]] = links[l[1]][l[2]]
  BY <1>1 DEF Untied, WaitingAt
<1> QED
  BY <1>3, <1>4, ChainKept DEF Untied

\* A step of one thread, and of none of its links.
LEMMA CallUntied ==
  ASSUME NEW t \in Thread, UNCHANGED event,
         LinkedAt(t)' = LinkedAt(t),
         \A u \in Thread : u # t => caller'[u] = caller[u] /\ links'[u] = links[u],
         \/ LinkedAt(t) = {}
         \/ caller'[t].array = caller[t].array /\ links'[t] = links[t]
  PROVE  Untied
<1>1. \A u \in Thread : u # t => LinkedAt(u)' = LinkedAt(u)
  BY DEF LinkedAt, At
<1> QED
  BY <1>1 DEF Untied

\* A step of none.
LEMMA NoneUntied ==
  ASSUME UNCHANGED links,
         \A t \in Thread :
           /\ \/ caller'[t].at = At(t)
              \/ caller'[t].at = "wait" /\ At(t) = "waiting"
              \/ caller'[t].at = "gwait" /\ At(t) = "gwaiting"
              \/ {caller'[t].at, At(t)} \subseteq
                   {"idle", "wait", "waiting", "destroy", "join"}
           /\ caller'[t].array = caller[t].array
           /\ caller'[t].i = caller[t].i /\ caller'[t].n = caller[t].n,
         \A c \in Cmd : event'[c].group = event[c].group /\ event'[c].link = event[c].link
  PROVE  Untied
<1>1. ASSUME NEW t \in Thread PROVE LinkedAt(t)' = LinkedAt(t)
  BY <1>1 DEF LinkedAt, At
<1> QED
  BY <1>1 DEF Untied

\* Only the linking and the unlinking loop of xrp_wait_any change chains.
LEMMA UntiedCases ==
  ASSUME IndInv, Next
  PROVE  \/ Untied
         \/ \E t \in Thread : /\ LinkEvent(t)
                              /\ event[caller[t].array[caller[t].i]].st = "PENDING"
         \/ \E t \in Thread : UnlinkEvent(t)
<1>0. /\ TypeOK /\ Requests /\ EventStates /\ Calls /\ EventRefs /\ QueueRefs
  BY DEF IndInv
<1>1. ASSUME NEW t \in Thread, NEW c \in Cmd, Enqueue(t, c)
      PROVE  Untied
  <2>1. /\ UNCHANGED links
        /\ \A u \in Thread :
             /\ caller'[u].at = At(u) /\ caller'[u].array = caller[u].array
             /\ caller'[u].i = caller[u].i /\ caller'[u].n = caller[u].n
        /\ \A d \in Cmd : event'[d].group = event[d].group /\ event'[d].link = event[d].link
    BY <1>0, <1>1, PushFields, PushHolds DEF At
  <2> QED
    BY <2>1, NoneUntied
<1>2. ASSUME NEW t \in Thread, NEW c \in Cmd, StartWait(t, c)
      PROVE  Untied
  <2>1. /\ UNCHANGED event /\ At(t) = "idle"
        /\ \A u \in Thread : u # t => links'[u] = links[u]
    BY <1>2 DEF StartWait
  <2>2. /\ caller'[t].at = "wait"
        /\ \A u \in Thread : u # t => caller'[u] = caller[u]
    BY <1>0, <1>2, StartWaitEffect DEF PutCaller
  <2>3. LinkedAt(t) = {} /\ LinkedAt(t)' = {}
    BY <2>1, <2>2 DEF LinkedAt, At
  <2> QED
    BY <2>1, <2>2, <2>3, CallUntied
<1>3. ASSUME NEW t \in Thread, NEW c \in Cmd, ReleaseEvent(t, c)
      PROVE  Untied
  <2>1. UNCHANGED links /\ At(t) = "idle"
    BY <1>3 DEF ReleaseEvent
  <2>2. CASE event[c].ref = 1
    <3>1. /\ caller'[t].at \in {"destroy", "idle"} /\ caller'[t].array = caller[t].array
          /\ caller'[t].i = caller[t].i /\ caller'[t].n = caller[t].n
          /\ \A u \in Thread : u # t => caller'[u] = caller[u]
      BY <1>0, <1>3, <2>2, ReleaseLastEffect DEF PutCaller
    <3>2. \A d \in Cmd : event'[d].group = event[d].group /\ event'[d].link = event[d].link
      BY <1>0, <1>3, <2>2, ReleaseLastEffect DEF PutEvent
    <3> QED
      BY <2>1, <3>1, <3>2, NoneUntied DEF At
  <2>3. CASE event[c].ref # 1
    <3>1. /\ caller'[t].at = caller[t].at /\ caller'[t].array = caller[t].array
          /\ caller'[t].i = caller[t].i /\ caller'[t].n = caller[t].n
          /\ \A u \in Thread : u # t => caller'[u] = caller[u]
      BY <1>0, <1>3, <2>3, ReleaseEffect DEF PutCaller
    <3>2. \A d \in Cmd : event'[d].group = event[d].group /\ event'[d].link = event[d].link
      BY <1>0, <1>3, <2>3, ReleaseEffect DEF PutEvent
    <3> QED
      BY <2>1, <3>1, <3>2, NoneUntied DEF At
  <2> QED
    BY <2>2, <2>3
<1>4. ASSUME NEW t \in Thread, NEW c \in Cmd, NEW u \in Thread, Share(t, u, c)
      PROVE  Untied
  <2>1. UNCHANGED links
    BY <1>4 DEF Share
  <2>2. \A v \in Thread :
          /\ caller'[v].at = At(v) /\ caller'[v].array = caller[v].array
          /\ caller'[v].i = caller[v].i /\ caller'[v].n = caller[v].n
    BY <1>0, <1>4, ShareEffect DEF PutCaller, At
  <2>3. \A d \in Cmd : event'[d].group = event[d].group /\ event'[d].link = event[d].link
    BY <1>0, <1>4, ShareEffect DEF PutEvent
  <2> QED
    BY <2>1, <2>2, <2>3, NoneUntied
<1>5. ASSUME NEW t \in Thread, ReleaseQueue(t)
      PROVE  Untied
  <2>1. UNCHANGED <<links, event>> /\ At(t) = "idle"
    BY <1>5 DEF ReleaseQueue
  <2>2. /\ caller'[t].at \in {"destroy", "idle"} /\ caller'[t].array = caller[t].array
        /\ caller'[t].i = caller[t].i /\ caller'[t].n = caller[t].n
        /\ \A u \in Thread : u # t => caller'[u] = caller[u]
    BY <1>0, <1>5, ReleaseQueueEffect DEF PutCaller
  <2> QED
    BY <2>1, <2>2, NoneUntied DEF At
<1>6. ASSUME NEW t \in Thread, NEW a \in Arrays, StartWaitAny(t, a)
      PROVE  Untied
  <2>1. /\ UNCHANGED event /\ At(t) = "idle"
        /\ \A u \in Thread : u # t => links'[u] = links[u]
    BY <1>0, <1>6, TypeSets DEF StartWaitAny
  <2>2. /\ caller'[t].at = "link" /\ caller'[t].i = 1
        /\ \A u \in Thread : u # t => caller'[u] = caller[u]
    BY <1>0, <1>6, StartWaitAnyEffect DEF PutCaller
  <2>3. LinkedAt(t) = {} /\ LinkedAt(t)' = {}
    BY <2>1, <2>2 DEF LinkedAt, At
  <2> QED
    BY <2>1, <2>2, <2>3, CallUntied
<1>7. ASSUME NEW t \in Thread, Wait(t)
      PROVE  Untied
  <2>1. /\ UNCHANGED <<event, links>> /\ At(t) = "wait"
    BY <1>7 DEF Wait
  <2>2. /\ caller'[t].at \in {"idle", "waiting"}
        /\ \A u \in Thread : u # t => caller'[u] = caller[u]
    BY <1>0, <1>7, SleepEffect, WokenEffect DEF PutCaller
  <2>3. LinkedAt(t) = {} /\ LinkedAt(t)' = {}
    BY <2>1, <2>2 DEF LinkedAt, At
  <2> QED
    BY <2>1, <2>2, <2>3, CallUntied
<1>8. ASSUME NEW t \in Thread, LinkEvent(t),
             event[caller[t].array[caller[t].i]].st # "PENDING"
      PROVE  Untied
  <2>1. At(t) = "link"
    BY <1>8 DEF LinkEvent
  <2>2. /\ caller'[t].at = "unlink" /\ caller'[t].i = 1
        /\ caller'[t].n = caller[t].i - 1 /\ caller'[t].array = caller[t].array
        /\ \A u \in Thread : u # t => caller'[u] = caller[u]
    BY <1>0, <1>8, FoundEffect DEF PutCaller
  <2>3. UNCHANGED <<event, links>>
    BY <1>0, <1>8, FoundEffect
  <2>4. LinkedAt(t)' = LinkedAt(t)
    BY <2>1, <2>2 DEF LinkedAt, At
  <2> QED
    BY <2>2, <2>3, <2>4, CallUntied
<1>9. ASSUME NEW t \in Thread, WaitGroup(t)
      PROVE  Untied
  <2>1. UNCHANGED <<event, links>> /\ At(t) = "gwait"
    BY <1>9 DEF WaitGroup
  <2>2. /\ \/ caller'[t].at = "gwaiting"
           \/ caller'[t].at = "unlink" /\ caller'[t].i = 1
        /\ caller'[t].n = caller[t].n /\ caller'[t].array = caller[t].array
        /\ \A u \in Thread : u # t => caller'[u] = caller[u]
    BY <1>0, <1>9, GroupSleepEffect, GroupWokenEffect DEF PutCaller
  <2>4. LinkedAt(t)' = LinkedAt(t)
    BY <2>1, <2>2 DEF LinkedAt, At
  <2> QED
    BY <2>1, <2>2, <2>4, CallUntied
<1>10. ASSUME NEW t \in Thread, WaitAnyReturn(t)
       PROVE  Untied
  <2>1. /\ UNCHANGED event /\ At(t) = "unlink" /\ caller[t].i > caller[t].n
        /\ \A u \in Thread : u # t => links'[u] = links[u]
    BY <1>0, <1>10, TypeSets DEF WaitAnyReturn, Returning
  <2>2. /\ caller'[t].at = "idle"
        /\ \A u \in Thread : u # t => caller'[u] = caller[u]
    BY <1>0, <1>10, ReturnEffect DEF PutCaller
  <2>3. caller[t].i .. caller[t].n = {}
    BY <1>0, <2>1, Fields
  <2>4. LinkedAt(t) = {} /\ LinkedAt(t)' = {}
    BY <2>1, <2>2, <2>3 DEF LinkedAt, At
  <2> QED
    BY <2>1, <2>2, <2>4, CallUntied
<1>11. ASSUME NEW t \in Thread, Destroy(t)
       PROVE  Untied
  <2>1. UNCHANGED <<links, event>> /\ At(t) = "destroy"
    BY <1>11 DEF Destroy, DestroyWith
  <2>2. /\ caller'[t].at = "join" /\ caller'[t].array = caller[t].array
        /\ caller'[t].i = caller[t].i /\ caller'[t].n = caller[t].n
        /\ \A u \in Thread : u # t => caller'[u] = caller[u]
    BY <1>0, <1>11, DestroyEffect DEF PutCaller
  <2> QED
    BY <2>1, <2>2, NoneUntied DEF At
<1>12. ASSUME NEW t \in Thread, Join(t)
       PROVE  Untied
  <2>1. UNCHANGED <<links, event>> /\ At(t) = "join"
    BY <1>12 DEF Join
  <2>2. /\ caller'[t].at = "idle" /\ caller'[t].array = caller[t].array
        /\ caller'[t].i = caller[t].i /\ caller'[t].n = caller[t].n
        /\ \A u \in Thread : u # t => caller'[u] = caller[u]
    BY <1>0, <1>12, JoinEffect DEF PutCaller
  <2> QED
    BY <2>1, <2>2, NoneUntied DEF At
<1>13. ASSUME UNCHANGED <<links, event, caller>>
       PROVE  Untied
  BY <1>13, NoneUntied DEF At
<1>14. CASE Signal
  <2>1. /\ UNCHANGED links
        /\ \A t \in Thread :
             /\ caller'[t].at = At(t)
                  \/ (At(t) = "waiting" /\ caller'[t].at = "wait")
             /\ caller'[t].array = caller[t].array
             /\ caller'[t].i = caller[t].i /\ caller'[t].n = caller[t].n
    BY <1>0, <1>14, SignalFields
  <2>2. \A d \in Cmd : event'[d].group = event[d].group /\ event'[d].link = event[d].link
    BY <1>0, <1>14, SignalEffect DEF PutEvent
  <2> QED
    BY <2>1, <2>2, NoneUntied
<1>15. CASE WalkGroup
  <2>1. /\ UNCHANGED <<links, event>>
        /\ \A t \in Thread :
             /\ caller'[t].at = IF t = worker.gp /\ At(t) = "gwaiting"
                                  THEN "gwait" ELSE At(t)
             /\ caller'[t].array = caller[t].array
             /\ caller'[t].i = caller[t].i /\ caller'[t].n = caller[t].n
    BY <1>0, <1>15, WalkFields
  <2> QED
    BY <2>1, NoneUntied
<1>16. CASE DropEvent
  <2>1. /\ UNCHANGED <<caller, links>>
        /\ event'[worker.cur].group = event[worker.cur].group
        /\ event'[worker.cur].link = event[worker.cur].link
        /\ \A d \in Cmd : d # worker.cur => event'[d] = event[d]
    BY <1>0, <1>16, DropFields
  <2> QED
    BY <2>1, NoneUntied DEF At
<1>17. CASE Dequeue \/ (\E s \in Outcome : Run(s)) \/ WalkEnd \/ Finished
  <2>1. UNCHANGED <<links, event, caller>>
    BY <1>0, <1>17 DEF Dequeue, DequeueFrom, Run, WalkEnd, Finished, vars
  <2> QED
    BY <1>13, <2>1
<1>21. ASSUME NEW t \in Thread, Start(t)
       PROVE  Untied
  BY <1>1, <1>2, <1>3, <1>4, <1>5, <1>6, <1>21 DEF Start
<1>22. ASSUME NEW t \in Thread, Continue(t)
       PROVE  \/ Untied
              \/ /\ LinkEvent(t)
                 /\ event[caller[t].array[caller[t].i]].st = "PENDING"
              \/ UnlinkEvent(t)
  BY <1>7, <1>8, <1>9, <1>10, <1>11, <1>12, <1>22 DEF Continue
<1> QED
  BY <1>14, <1>15, <1>16, <1>17, <1>21, <1>22, Zenon DEF Next, Work

\* A chain with one more link at its head, and one without its k-th link.
Pushed(x, s) == [k \in 1 .. Len(s) + 1 |-> IF k = 1 THEN x ELSE s[k - 1]]
Cut(s, k) == [m \in 1 .. Len(s) - 1 |-> IF m < k THEN s[m] ELSE s[m + 1]]

\* The links of a chain are those of waiting threads, each there once.
LEMMA ChainFacts ==
  ASSUME NEW c \in Cmd, NEW s \in Seq(Link), Follows(c, s)
  PROVE  /\ Len(s) \in Nat /\ ToSet(s) = WaitingAt(c)
         /\ \A k, m \in 1 .. Len(s) : s[k] = s[m] => k = m
         /\ event[c].group = GroupOf(s, 1) /\ event[c].link = LinkOf(s, 1)
<1>1. /\ Len(s) \in Nat /\ ToSet(s) = WaitingAt(c) /\ DOMAIN s = 1 .. Len(s)
      /\ IsInjective(s)
      /\ event[c].group = GroupOf(s, 1) /\ event[c].link = LinkOf(s, 1)
  BY DEF Follows
<1> QED
  BY <1>1 DEF IsInjective

\* Each of them is one at which its thread waits, and knows its neighbours.
LEMMA ChainAt ==
  ASSUME NEW c \in Cmd, NEW s \in Seq(Link), Follows(c, s), NEW k \in 1 .. Len(s)
  PROVE  /\ s[k] \in WaitingAt(c) /\ s[k] \in Link /\ s[k] # Nil
         /\ s[k][1] \in Thread /\ s[k][2] \in Index
         /\ s[k] = <<s[k][1], s[k][2]>>
         /\ s[k][2] \in LinkedAt(s[k][1])
         /\ caller[s[k][1]].array[s[k][2]] = c
         /\ links[s[k][1]][s[k][2]] =
              [group |-> GroupOf(s, k + 1), next |-> LinkOf(s, k + 1),
               prev |-> LinkOf(s, k - 1)]
<1>1. /\ ToSet(s) = WaitingAt(c)
      /\ links[s[k][1]][s[k][2]] =
           [group |-> GroupOf(s, k + 1), next |-> LinkOf(s, k + 1),
            prev |-> LinkOf(s, k - 1)]
  BY DEF Follows
<1>2. s[k] \in WaitingAt(c)
  BY <1>1, ToSetFacts
<1>3. ASSUME NEW x \in WaitingAt(c)
      PROVE  /\ x \in Link /\ x # Nil /\ x[1] \in Thread /\ x[2] \in Index
             /\ x = <<x[1], x[2]>> /\ x[2] \in LinkedAt(x[1])
             /\ caller[x[1]].array[x[2]] = c
  BY QueueAssumption DEF WaitingAt, Link, Index
<1> QED
  BY <1>1, <1>2, <1>3

\* There is nothing beyond the ends of a chain.
LEMMA LinkOfFacts ==
  ASSUME NEW s, NEW k, LinkOf(s, k) # Nil
  PROVE  k \in 1 .. Len(s) /\ LinkOf(s, k) = s[k] /\ GroupOf(s, k) = s[k][1]
  BY DEF LinkOf, GroupOf

\* What one more link at the head makes of a chain.
LEMMA PushedFacts ==
  ASSUME NEW s \in Seq(Link), NEW x \in Link,
         \A k, m \in 1 .. Len(s) : s[k] = s[m] => k = m, x \notin ToSet(s)
  PROVE  /\ Pushed(x, s) \in Seq(Link) /\ Len(Pushed(x, s)) = Len(s) + 1
         /\ ToSet(Pushed(x, s)) = ToSet(s) \cup {x} /\ IsInjective(Pushed(x, s))
         /\ Pushed(x, s)[1] = x
         /\ \A k \in 1 .. Len(s) : Pushed(x, s)[k + 1] = s[k]
         /\ LinkOf(Pushed(x, s), 0) = Nil
         /\ LinkOf(Pushed(x, s), 1) = x /\ GroupOf(Pushed(x, s), 1) = x[1]
         /\ \A k \in 1 .. Len(s) + 1 :
              /\ LinkOf(Pushed(x, s), k + 1) = LinkOf(s, k)
              /\ GroupOf(Pushed(x, s), k + 1) = GroupOf(s, k)
<1> DEFINE q == Pushed(x, s)
           n == Len(s)
<1>1. n \in Nat /\ \A k \in 1 .. n : s[k] \in Link
  OBVIOUS
<1>2. /\ DOMAIN q = 1 .. n + 1 /\ q[1] = x
      /\ \A k \in 1 .. n : k + 1 \in 1 .. n + 1 /\ q[k + 1] = s[k]
      /\ q \in [1 .. n + 1 -> Link]
  BY <1>1 DEF Pushed
<1>3. q \in Seq(Link) /\ Len(q) = n + 1
  <2>1. n + 1 \in Nat
    BY <1>1
  <2> HIDE DEF q, n
  <2> QED
    BY <1>2, <2>1
<1>4. \A k \in 1 .. n + 1 : k = 1 \/ (k - 1 \in 1 .. n /\ k = (k - 1) + 1)
  BY <1>1
<1>5. \A k \in 1 .. n : s[k] \in ToSet(s)
  BY ToSetFacts
<1> HIDE DEF q
<1>6. ToSet(q) = {q[k] : k \in 1 .. n + 1} /\ ToSet(s) = {s[k] : k \in 1 .. n}
  BY <1>3, ToSetFacts
<1>7. ToSet(q) = ToSet(s) \cup {x}
  <2>1. ASSUME NEW k \in 1 .. n + 1 PROVE q[k] \in ToSet(s) \cup {x}
    <3>1. CASE k = 1
      BY <1>2, <3>1
    <3>2. CASE k - 1 \in 1 .. n /\ k = (k - 1) + 1
      <4>1. q[k] = s[k - 1]
        BY <1>2, <3>2
      <4> QED
        BY <1>5, <3>2, <4>1
    <3> QED
      BY <1>4, <3>1, <3>2
  <2>2. \A k \in 1 .. n : s[k] \in ToSet(q)
    BY <1>2, <1>6
  <2>3. x \in ToSet(q)
    BY <1>1, <1>2, <1>6
  <2>4. ToSet(q) \subseteq ToSet(s) \cup {x}
    BY <1>6, <2>1
  <2>5. ToSet(s) \subseteq ToSet(q)
    BY <1>6, <2>2
  <2> QED
    BY <2>3, <2>4, <2>5
<1>8. IsInjective(q)
  <2> SUFFICES ASSUME NEW a \in 1 .. n + 1, NEW b \in 1 .. n + 1, q[a] = q[b]
               PROVE  a = b
    BY <1>2 DEF IsInjective
  <2>1. a = 1 \/ (a - 1 \in 1 .. n /\ q[a] = s[a - 1])
    BY <1>2, <1>4
  <2>2. b = 1 \/ (b - 1 \in 1 .. n /\ q[b] = s[b - 1])
    BY <1>2, <1>4
  <2>3. a = 1 => b = 1
    BY <1>2, <1>5, <2>2
  <2>4. b = 1 => a = 1
    BY <1>2, <1>5, <2>1
  <2>5. a # 1 /\ b # 1 => a - 1 = b - 1
    BY <2>1, <2>2
  <2> QED
    BY <2>3, <2>4, <2>5
<1>9. LinkOf(q, 0) = Nil /\ LinkOf(q, 1) = x /\ GroupOf(q, 1) = x[1]
  BY <1>1, <1>2, <1>3 DEF LinkOf, GroupOf
<1>10. ASSUME NEW k \in 1 .. n + 1
       PROVE  LinkOf(q, k + 1) = LinkOf(s, k) /\ GroupOf(q, k + 1) = GroupOf(s, k)
  <2>1. CASE k \in 1 .. n
    <3>1. k + 1 \in 1 .. n + 1 /\ q[k + 1] = s[k]
      BY <1>2, <2>1
    <3> QED
      BY <1>3, <2>1, <3>1 DEF LinkOf, GroupOf
  <2>2. CASE k = n + 1
    <3>1. k + 1 \notin 1 .. n + 1 /\ k \notin 1 .. n
      BY <1>1, <2>2
    <3> QED
      BY <1>3, <3>1 DEF LinkOf, GroupOf
  <2> QED
    BY <1>1, <2>1, <2>2
<1> QED
  BY <1>2, <1>3, <1>7, <1>8, <1>9, <1>10 DEF q

\* What taking a link out makes of it.
LEMMA CutFacts ==
  ASSUME NEW s \in Seq(Link), NEW k \in 1 .. Len(s),
         \A a, b \in 1 .. Len(s) : s[a] = s[b] => a = b
  PROVE  /\ Cut(s, k) \in Seq(Link) /\ Len(Cut(s, k)) = Len(s) - 1
         /\ ToSet(Cut(s, k)) = ToSet(s) \ {s[k]} /\ IsInjective(Cut(s, k))
         /\ \A m \in 1 .. Len(s) - 1 :
              Cut(s, k)[m] = IF m < k THEN s[m] ELSE s[m + 1]
         /\ \A m \in 0 .. Len(s) :
              /\ LinkOf(Cut(s, k), m) = IF m < k THEN LinkOf(s, m) ELSE LinkOf(s, m + 1)
              /\ GroupOf(Cut(s, k), m) = IF m < k THEN GroupOf(s, m) ELSE GroupOf(s, m + 1)
<1> DEFINE q == Cut(s, k)
           n == Len(s)
<1>1. n \in Nat \ {0} /\ k \in Nat /\ 1 <= k /\ k <= n /\ \A m \in 1 .. n : s[m] \in Link
  OBVIOUS
<1>2. \A m \in 1 .. n - 1 : m \in 1 .. n /\ m + 1 \in 1 .. n
  BY <1>1
<1>3. /\ DOMAIN q = 1 .. n - 1
      /\ \A m \in 1 .. n - 1 : q[m] = IF m < k THEN s[m] ELSE s[m + 1]
      /\ q \in [1 .. n - 1 -> Link]
  BY <1>1, <1>2 DEF Cut
<1>4. q \in Seq(Link) /\ Len(q) = n - 1
  <2>1. n - 1 \in Nat
    BY <1>1
  <2> HIDE DEF q, n
  <2> QED
    BY <1>3, <2>1
<1> HIDE DEF q
<1>5. ToSet(q) = {q[m] : m \in 1 .. n - 1} /\ ToSet(s) = {s[m] : m \in 1 .. n}
  BY <1>4, ToSetFacts
<1>6. IsInjective(q)
  <2> SUFFICES ASSUME NEW a \in 1 .. n - 1, NEW b \in 1 .. n - 1, q[a] = q[b]
               PROVE  a = b
    BY <1>3 DEF IsInjective
  <2>1. (IF a < k THEN a ELSE a + 1) = (IF b < k THEN b ELSE b + 1)
    BY <1>2, <1>3
  <2> QED
    BY <1>1, <2>1
<1>7. ToSet(q) = ToSet(s) \ {s[k]}
  <2>1. ASSUME NEW m \in 1 .. n - 1 PROVE q[m] \in ToSet(s) \ {s[k]}
    <3>1. CASE m < k
      <4>1. q[m] = s[m] /\ m \in 1 .. n /\ m # k
        BY <1>1, <1>2, <1>3, <3>1
      <4> QED
        BY <1>5, <4>1
    <3>2. CASE ~(m < k)
      <4>1. q[m] = s[m + 1] /\ m + 1 \in 1 .. n /\ m + 1 # k
        BY <1>1, <1>2, <1>3, <3>2
      <4> QED
        BY <1>5, <4>1
    <3> QED
      BY <3>1, <3>2
  <2>2. ASSUME NEW m \in 1 .. n, m # k PROVE s[m] \in ToSet(q)
    <3>1. CASE m < k
      <4>1. m \in 1 .. n - 1
        BY <1>1, <3>1
      <4>2. q[m] = s[m]
        BY <1>3, <3>1, <4>1
      <4> QED
        BY <1>5, <4>1, <4>2
    <3>2. CASE ~(m < k)
      <4>1. m - 1 \in 1 .. n - 1 /\ ~(m - 1 < k) /\ (m - 1) + 1 = m
        BY <1>1, <2>2, <3>2
      <4>2. q[m - 1] = s[m]
        BY <1>3, <4>1
      <4> QED
        BY <1>5, <4>1, <4>2
    <3> QED
      BY <3>1, <3>2
  <2>3. ToSet(q) \subseteq ToSet(s) \ {s[k]}
    BY <1>5, <2>1
  <2>4. ASSUME NEW y \in ToSet(s), y # s[k] PROVE y \in ToSet(q)
    <3>1. PICK m \in 1 .. n : y = s[m]
      BY <1>5
    <3>2. m # k
      BY <2>4, <3>1
    <3> QED
      BY <2>2, <3>1, <3>2
  <2> QED
    BY <2>3, <2>4
<1>8. ASSUME NEW m \in 0 .. n
      PROVE  /\ LinkOf(q, m) = IF m < k THEN LinkOf(s, m) ELSE LinkOf(s, m + 1)
             /\ GroupOf(q, m) = IF m < k THEN GroupOf(s, m) ELSE GroupOf(s, m + 1)
  <2>1. CASE m = 0
    <3>1. m \notin 1 .. n - 1 /\ m \notin 1 .. n /\ m < k
      BY <1>1, <2>1
    <3> QED
      BY <1>4, <3>1 DEF LinkOf, GroupOf
  <2>2. CASE m = n
    <3>1. m \notin 1 .. n - 1 /\ m + 1 \notin 1 .. n /\ ~(m < k)
      BY <1>1, <2>2
    <3> QED
      BY <1>4, <3>1 DEF LinkOf, GroupOf
  <2>3. CASE m \in 1 .. n - 1
    <3>1. m \in 1 .. n /\ m + 1 \in 1 .. n
      BY <1>2, <2>3
    <3>2. q[m] = IF m < k THEN s[m] ELSE s[m + 1]
      BY <1>3, <2>3
    <3> QED
      BY <1>4, <2>3, <3>1, <3>2 DEF LinkOf, GroupOf
  <2> QED
    BY <1>1, <2>1, <2>2, <2>3
<1> QED
  BY <1>3, <1>4, <1>6, <1>7, <1>8 DEF q

\* A thread links itself to an event.
LEMMA TieFields ==
  ASSUME TypeOK, Calls, NEW t \in Thread, NEW i, i = caller[t].i,
         NEW c, c = caller[t].array[i], event[c].st = "PENDING", LinkEvent(t)
  PROVE  /\ i \in Index /\ i \in 1 .. Len(caller[t].array) /\ c \in Cmd \ Silent
         /\ <<t, i>> \in Link /\ At(t) = "link" /\ ~Locked(c)
         /\ LinkedAt(t) = 1 .. i - 1 /\ i \notin LinkedAt(t)
         /\ links[t][i] = NoLink
<1>1. /\ At(t) = "link" /\ ~Locked(c) /\ UNCHANGED <<queue, ran, worker, group>>
  BY DEF LinkEvent
<1>2. /\ i \in 1 .. Len(caller[t].array) /\ i \in Index /\ c \in Cmd \ Silent
  BY <1>1, CallFacts DEF Calls, InAny
<1>3. i \in Nat /\ caller[t].n \in Nat /\ 1 <= i /\ i <= caller[t].n
      /\ links[t][i] = NoLink
  <2>1. i \in Nat /\ caller[t].n \in Nat
    BY Fields
  <2>2. i \in 1 .. caller[t].n /\ \A j \in Index : j >= i => links[t][j] = NoLink
    BY <1>1 DEF Calls, Call
  <2> QED
    BY <1>2, <2>1, <2>2
<1>6. LinkedAt(t) = 1 .. i - 1
  BY <1>1 DEF LinkedAt
<1>8. i \notin 1 .. i - 1
  BY <1>3
<1>10. <<t, i>> \in Link
  BY <1>2 DEF Link
<1> QED
  BY <1>1, <1>2, <1>3, <1>6, <1>8, <1>10

\* The event points to it, and nobody else moves.
LEMMA TieNext ==
  ASSUME TypeOK, Calls, NEW t \in Thread,
         event[caller[t].array[caller[t].i]].st = "PENDING", LinkEvent(t)
  PROVE  /\ LinkedAt(t)' = LinkedAt(t) \cup {caller[t].i}
         /\ \A u \in Thread : u # t => LinkedAt(u)' = LinkedAt(u)
         /\ \A u \in Thread : caller'[u].array = caller[u].array
         /\ event'[caller[t].array[caller[t].i]].group = t
         /\ event'[caller[t].array[caller[t].i]].link = <<t, caller[t].i>>
         /\ \A d \in Cmd : d # caller[t].array[caller[t].i] => event'[d] = event[d]
         /\ UNCHANGED <<queue, ran, worker, group>>
<1> DEFINE i == caller[t].i
           c == caller[t].array[i]
<1>1. UNCHANGED <<queue, ran, worker, group>>
  BY DEF LinkEvent
<1>2. At(t) = "link" /\ LinkedAt(t) = 1 .. i - 1
  BY TieFields
<1>3. i \in Nat /\ 1 <= i
  <2>1. i \in Index
    BY TieFields
  <2> QED
    BY <2>1, QueueAssumption DEF Index
<1>4. /\ caller'[t].at = IF i = caller[t].n THEN "gwait" ELSE "link"
      /\ caller'[t].array = caller[t].array
      /\ caller'[t].i = i + 1 /\ caller'[t].n = caller[t].n
      /\ \A u \in Thread : u # t => caller'[u] = caller[u]
  BY LinkEffect DEF PutCaller
<1>5. /\ event'[c].group = t /\ event'[c].link = <<t, i>>
      /\ \A d \in Cmd : d # c => event'[d] = event[d]
      /\ event'[c].st = event[c].st
  <2>1. PutEvent(c, event[c].st, event[c].ref, t, <<t, caller[t].i>>)
    BY LinkEffect
  <2> QED
    BY <2>1 DEF PutEvent
<1>7. LinkedAt(t)' = 1 .. i
  <2>1. CASE i = caller[t].n
    BY <1>4, <2>1 DEF LinkedAt, At
  <2>2. CASE i # caller[t].n
    <3>1. (i + 1) - 1 = i
      BY <1>3
    <3>2. LinkedAt(t)' = 1 .. (i + 1) - 1
      BY <1>4, <2>2 DEF LinkedAt, At
    <3> QED
      BY <3>1, <3>2
  <2> QED
    BY <2>1, <2>2
<1>8. 1 .. i = (1 .. i - 1) \cup {i}
  BY <1>3
<1>9. \A u \in Thread : u # t => LinkedAt(u)' = LinkedAt(u)
  BY <1>4 DEF LinkedAt, At
<1>10. \A u \in Thread : caller'[u].array = caller[u].array
  BY <1>4
<1> QED
  BY <1>1, <1>2, <1>5, <1>7, <1>8, <1>9, <1>10

\* A link that points to another one.
Aimed(r, g, l) == [r EXCEPT !.group = g, !.next = l]

\* A fresh link has nothing else to point to.
LEMMA AimedFacts ==
  ASSUME NEW g, NEW l
  PROVE  Aimed(NoLink, g, l) = [group |-> g, next |-> l, prev |-> Nil]
<1> DEFINE T == [group : {Nil, g}, next : {Nil, l}, prev : {Nil}]
           r == [NoLink EXCEPT !.group = g]
           e == Aimed(NoLink, g, l)
<1>1. NoLink \in T /\ DOMAIN NoLink = {"group", "next", "prev"}
  BY DEF NoLink
<1>2. r \in T /\ r.group = g /\ r.next = Nil /\ r.prev = Nil
  BY <1>1 DEF NoLink
<1>3. [r EXCEPT !.next = l] \in T
  <2> HIDE DEF r
  <2> QED
    BY <1>2
<1>4. e = [r EXCEPT !.next = l]
  BY <1>1 DEF Aimed
<1>5. e.group = g /\ e.next = l /\ e.prev = Nil
  <2> HIDE DEF r, e
  <2> QED
    BY <1>2, <1>4
<1>6. e = [group |-> e.group, next |-> e.next, prev |-> e.prev]
  <2> HIDE DEF r, e
  <2> QED
    BY <1>3, <1>4
<1> QED
  BY <1>5, <1>6

\* Its link and the one that was first know each other.
LEMMA TieLinks ==
  ASSUME TypeOK, Calls, NEW t \in Thread,
         event[caller[t].array[caller[t].i]].st = "PENDING", LinkEvent(t),
         NEW u \in Thread, NEW j \in Index
  PROVE  links'[u][j] =
           IF <<u, j>> = <<t, caller[t].i>>
             THEN [group |-> event[caller[t].array[caller[t].i]].group,
                   next |-> event[caller[t].array[caller[t].i]].link,
                   prev |-> Nil]
           ELSE IF <<u, j>> = event[caller[t].array[caller[t].i]].link
             THEN [group |-> links[u][j].group, next |-> links[u][j].next,
                   prev |-> <<t, caller[t].i>>]
           ELSE links[u][j]
<1> DEFINE i == caller[t].i
           c == caller[t].array[i]
<1>3. links[t][i] = NoLink
  BY TieFields
<1>7. links' = [v \in Thread |-> [m \in Index |->
                   IF <<v, m>> = <<t, i>>
                     THEN [links[t][i] EXCEPT !.group = event[c].group,
                                              !.next = event[c].link]
                   ELSE IF <<v, m>> = event[c].link
                     THEN [links[v][m] EXCEPT !.prev = <<t, i>>]
                     ELSE links[v][m]]]
  BY DEF LinkEvent
<1>1. [links[t][i] EXCEPT !.group = event[c].group, !.next = event[c].link]
        = [group |-> event[c].group, next |-> event[c].link, prev |-> Nil]
  <2>1. Aimed(NoLink, event[c].group, event[c].link)
          = [group |-> event[c].group, next |-> event[c].link, prev |-> Nil]
    BY AimedFacts
  <2> QED
    BY <1>3, <2>1 DEF Aimed
<1>2. links[u][j] = [group |-> links[u][j].group, next |-> links[u][j].next,
                     prev |-> links[u][j].prev]
  BY Fields
<1>4. ASSUME NEW r, r = links[u][j],
             r = [group |-> r.group, next |-> r.next, prev |-> r.prev]
      PROVE  [r EXCEPT !.prev = <<t, i>>]
               = [group |-> r.group, next |-> r.next, prev |-> <<t, i>>]
  BY <1>4
<1>5. [links[u][j] EXCEPT !.prev = <<t, i>>]
        = [group |-> links[u][j].group, next |-> links[u][j].next,
           prev |-> <<t, i>>]
  BY <1>2, <1>4
<1>6. links'[u][j] =
        IF <<u, j>> = <<t, i>>
          THEN [links[t][i] EXCEPT !.group = event[c].group, !.next = event[c].link]
        ELSE IF <<u, j>> = event[c].link
          THEN [links[u][j] EXCEPT !.prev = <<t, i>>]
        ELSE links[u][j]
  BY <1>7
<1> QED
  BY <1>1, <1>5, <1>6

\* The chains of the other events are not touched.
LEMMA TieOther ==
  ASSUME TypeOK, Calls, NEW t \in Thread, NEW i, i = caller[t].i,
         NEW c, c = caller[t].array[i], event[c].st = "PENDING", LinkEvent(t),
         NEW s \in Seq(Link), Follows(c, s),
         NEW d \in Cmd, d # c, NEW r \in Seq(Link), Follows(d, r)
  PROVE  Follows(d, r)'
<1>0. c \in Cmd /\ i \notin LinkedAt(t)
  BY TieFields
<1>1. /\ c \in Cmd /\ i \notin LinkedAt(t) /\ LinkedAt(t)' = LinkedAt(t) \cup {i}
      /\ \A u \in Thread : u # t => LinkedAt(u)' = LinkedAt(u)
      /\ \A u \in Thread : caller'[u].array = caller[u].array
      /\ event'[d] = event[d]
  BY <1>0, TieNext
<1>2. WaitingAt(d)' = WaitingAt(d)
  <2>1. \A l \in Link : l[1] \in Thread
    BY DEF Link
  <2>2. \A l \in Link : /\ l[2] \in LinkedAt(l[1])' /\ caller'[l[1]].array[l[2]] = d
                          <=> /\ l[2] \in LinkedAt(l[1])
                              /\ caller[l[1]].array[l[2]] = d
    BY <1>1, <2>1
  <2> QED
    BY <2>2 DEF WaitingAt
<1>3. ASSUME NEW l \in WaitingAt(d) PROVE links'[l[1]][l[2]] = links[l[1]][l[2]]
  <2>1. /\ l[1] \in Thread /\ l[2] \in Index /\ l = <<l[1], l[2]>>
        /\ l[2] \in LinkedAt(l[1]) /\ caller[l[1]].array[l[2]] = d
    BY DEF WaitingAt, Link
  <2>2. l # <<t, i>>
    BY <1>1, <2>1
  <2>3. l # event[c].link
    <3>1. event[c].link = LinkOf(s, 1)
      BY <1>1, ChainFacts
    <3>2. CASE LinkOf(s, 1) = Nil
      BY <2>1, <3>1, <3>2, QueueAssumption DEF Index
    <3>3. CASE LinkOf(s, 1) # Nil
      <4>1. 1 \in 1 .. Len(s) /\ LinkOf(s, 1) = s[1]
        BY <3>3, LinkOfFacts
      <4>2. caller[s[1][1]].array[s[1][2]] = c
        <5>1. ASSUME NEW k \in 1 .. Len(s)
              PROVE  caller[s[k][1]].array[s[k][2]] = c
          <6>1. ToSet(s) = WaitingAt(c)
            BY DEF Follows
          <6>2. s[k] \in WaitingAt(c)
            BY <6>1, ToSetFacts
          <6> QED
            BY <6>2 DEF WaitingAt
        <5> QED
          BY <4>1, <5>1
      <4> QED
        BY <2>1, <3>1, <4>1, <4>2
    <3> QED
      BY <3>2, <3>3
  <2>4. links'[l[1]][l[2]] =
          IF <<l[1], l[2]>> = <<t, i>>
            THEN [group |-> event[c].group, next |-> event[c].link, prev |-> Nil]
          ELSE IF <<l[1], l[2]>> = event[c].link
            THEN [group |-> links[l[1]][l[2]].group, next |-> links[l[1]][l[2]].next,
                  prev |-> <<t, i>>]
          ELSE links[l[1]][l[2]]
    <3>1. ASSUME NEW u \in Thread, NEW j \in Index
          PROVE  links'[u][j] =
                   IF <<u, j>> = <<t, i>>
                     THEN [group |-> event[c].group, next |-> event[c].link,
                           prev |-> Nil]
                   ELSE IF <<u, j>> = event[c].link
                     THEN [group |-> links[u][j].group, next |-> links[u][j].next,
                           prev |-> <<t, i>>]
                   ELSE links[u][j]
      BY TieLinks
    <3> QED
      BY <2>1, <3>1
  <2> QED
    BY <2>1, <2>2, <2>3, <2>4
<1> QED
  BY <1>1, <1>2, <1>3, ChainKept

\* The event's own chain has the new link at its head.
LEMMA TieChain ==
  ASSUME TypeOK, Calls, NEW t \in Thread, NEW i, i = caller[t].i,
         NEW c, c = caller[t].array[i], event[c].st = "PENDING", LinkEvent(t),
         NEW s \in Seq(Link), Follows(c, s)
  PROVE  Pushed(<<t, i>>, s) \in Seq(Link) /\ Follows(c, Pushed(<<t, i>>, s))'
<1> DEFINE x == <<t, i>>
           q == Pushed(x, s)
<1>0. /\ c \in Cmd /\ x \in Link /\ i \in Index /\ i \notin LinkedAt(t)
  BY TieFields
<1>1. /\ c \in Cmd /\ x \in Link /\ i \in Index
      /\ i \notin LinkedAt(t) /\ LinkedAt(t)' = LinkedAt(t) \cup {i}
      /\ \A u \in Thread : u # t => LinkedAt(u)' = LinkedAt(u)
      /\ \A u \in Thread : caller'[u].array = caller[u].array
      /\ event'[c].group = t /\ event'[c].link = x
  <2>1. /\ LinkedAt(t)' = LinkedAt(t) \cup {i}
        /\ \A u \in Thread : u # t => LinkedAt(u)' = LinkedAt(u)
        /\ \A u \in Thread : caller'[u].array = caller[u].array
        /\ event'[c].group = t /\ event'[c].link = <<t, i>>
    BY TieNext
  <2> QED
    BY <1>0, <2>1
<1>2. /\ Len(s) \in Nat /\ ToSet(s) = WaitingAt(c)
      /\ \A k, m \in 1 .. Len(s) : s[k] = s[m] => k = m
  BY <1>1, ChainFacts
<1>3. x \notin ToSet(s)
  BY <1>1, <1>2 DEF WaitingAt
<1>4. /\ q \in Seq(Link) /\ Len(q) = Len(s) + 1
      /\ ToSet(q) = ToSet(s) \cup {x} /\ IsInjective(q)
      /\ q[1] = x
      /\ \A k \in 1 .. Len(s) : q[k + 1] = s[k]
      /\ LinkOf(q, 0) = Nil
      /\ LinkOf(q, 1) = x /\ GroupOf(q, 1) = x[1]
      /\ \A k \in 1 .. Len(s) + 1 :
           /\ LinkOf(q, k + 1) = LinkOf(s, k)
           /\ GroupOf(q, k + 1) = GroupOf(s, k)
  BY <1>1, <1>2, <1>3, PushedFacts
<1>5. WaitingAt(c)' = WaitingAt(c) \cup {x}
  <2>1. \A l \in Link : l[1] \in Thread /\ l = <<l[1], l[2]>>
    BY DEF Link
  <2>2. ASSUME NEW l \in Link
        PROVE  /\ l[2] \in LinkedAt(l[1])' /\ caller'[l[1]].array[l[2]] = c
                 <=> \/ l = x
                     \/ l[2] \in LinkedAt(l[1]) /\ caller[l[1]].array[l[2]] = c
    <3>1. CASE l[1] # t
      BY <1>1, <2>1, <3>1
    <3>2. CASE l[1] = t
      BY <1>1, <2>1, <3>2
    <3> QED
      BY <3>1, <3>2
  <2>3. WaitingAt(c)' = {l \in Link : /\ l[2] \in LinkedAt(l[1])'
                                     /\ caller'[l[1]].array[l[2]] = c}
    BY DEF WaitingAt
  <2>4. WaitingAt(c) = {l \in Link : /\ l[2] \in LinkedAt(l[1])
                                    /\ caller[l[1]].array[l[2]] = c}
    BY DEF WaitingAt
  <2> HIDE DEF x
  <2> QED
    BY <1>1, <2>2, <2>3, <2>4
<1>6. event[c].group = GroupOf(s, 1) /\ event[c].link = LinkOf(s, 1)
  BY <1>1, ChainFacts
<1>7. links'[t][i] = [group |-> GroupOf(q, 2), next |-> LinkOf(q, 2), prev |-> LinkOf(q, 0)]
  <2>1. links'[t][i] = [group |-> event[c].group, next |-> event[c].link, prev |-> Nil]
    <3>1. links'[t][i] = IF <<t, i>> = <<t, i>>
            THEN [group |-> event[c].group, next |-> event[c].link, prev |-> Nil]
            ELSE IF <<t, i>> = event[c].link
              THEN [group |-> links[t][i].group, next |-> links[t][i].next,
                    prev |-> <<t, i>>]
              ELSE links[t][i]
      BY <1>0, TieLinks
    <3> QED
      BY <3>1
  <2>2. GroupOf(q, 2) = GroupOf(s, 1) /\ LinkOf(q, 2) = LinkOf(s, 1)
    <3>1. 1 \in 1 .. Len(s) + 1 /\ 1 + 1 = 2
      BY <1>2
    <3> QED
      BY <1>4, <3>1
  <2> QED
    BY <1>4, <1>6, <2>1, <2>2
<1>8. ASSUME NEW k \in 1 .. Len(s)
      PROVE  links'[s[k][1]][s[k][2]] =
               [group |-> GroupOf(s, k + 1), next |-> LinkOf(s, k + 1),
                prev |-> LinkOf(q, k)]
  <2>1. /\ s[k] \in WaitingAt(c) /\ s[k][1] \in Thread /\ s[k][2] \in Index
        /\ s[k] = <<s[k][1], s[k][2]>>
        /\ links[s[k][1]][s[k][2]] =
             [group |-> GroupOf(s, k + 1), next |-> LinkOf(s, k + 1),
              prev |-> LinkOf(s, k - 1)]
    BY <1>1, ChainAt
  <2>2. s[k] # x
    BY <1>2, <1>3, <2>1
  <2>3. links'[s[k][1]][s[k][2]] =
          IF s[k] = event[c].link
            THEN [group |-> links[s[k][1]][s[k][2]].group,
                  next |-> links[s[k][1]][s[k][2]].next, prev |-> x]
          ELSE links[s[k][1]][s[k][2]]
    <3>1. links'[s[k][1]][s[k][2]] =
            IF <<s[k][1], s[k][2]>> = <<t, i>>
              THEN [group |-> event[c].group, next |-> event[c].link, prev |-> Nil]
            ELSE IF <<s[k][1], s[k][2]>> = event[c].link
              THEN [group |-> links[s[k][1]][s[k][2]].group,
                    next |-> links[s[k][1]][s[k][2]].next, prev |-> <<t, i>>]
            ELSE links[s[k][1]][s[k][2]]
      <4>1. ASSUME NEW u \in Thread, NEW j \in Index
            PROVE  links'[u][j] =
                     IF <<u, j>> = <<t, i>>
                       THEN [group |-> event[c].group, next |-> event[c].link,
                             prev |-> Nil]
                     ELSE IF <<u, j>> = event[c].link
                       THEN [group |-> links[u][j].group, next |-> links[u][j].next,
                             prev |-> <<t, i>>]
                     ELSE links[u][j]
        BY TieLinks
      <4> QED
        BY <2>1, <4>1
    <3> QED
      BY <2>1, <2>2, <3>1
  <2>4. CASE k = 1
    <3>1. s[k] = event[c].link
      BY <1>6, <2>4 DEF LinkOf
    <3> QED
      <4>1. links'[s[k][1]][s[k][2]] =
              [group |-> links[s[k][1]][s[k][2]].group,
               next |-> links[s[k][1]][s[k][2]].next, prev |-> x]
        BY <2>3, <3>1
      <4>2. LinkOf(q, k) = x
        BY <1>4, <2>4
      <4> HIDE DEF q, x
      <4> QED
        BY <2>1, <4>1, <4>2
  <2>5. CASE k # 1
    <3>1. 1 \in 1 .. Len(s) /\ k - 1 \in 1 .. Len(s) + 1 /\ (k - 1) + 1 = k
      BY <1>2, <2>5
    <3>2. s[k] # event[c].link
      BY <1>2, <1>6, <2>5, <3>1 DEF LinkOf
    <3>3. LinkOf(q, k) = LinkOf(s, k - 1)
      BY <1>4, <3>1
    <3> QED
      BY <2>1, <2>3, <3>2, <3>3
  <2> QED
    BY <2>4, <2>5
<1>9. ASSUME NEW k \in 1 .. Len(q)
      PROVE  links'[q[k][1]][q[k][2]] =
               [group |-> GroupOf(q, k + 1), next |-> LinkOf(q, k + 1),
                prev |-> LinkOf(q, k - 1)]
  <2>1. CASE k = 1
    <3>1. x[1] = t /\ x[2] = i /\ 1 + 1 = 2 /\ 1 - 1 = 0
      OBVIOUS
    <3> HIDE DEF q, x
    <3> QED
      BY <1>4, <1>7, <2>1, <3>1
  <2>2. CASE k # 1
    <3>1. k - 1 \in 1 .. Len(s) /\ (k - 1) + 1 = k /\ k \in 1 .. Len(s) + 1
      BY <1>2, <1>4, <2>2
    <3>2. q[k] = s[k - 1]
      <4> HIDE DEF q
      <4> QED
        BY <1>4, <3>1
    <3>3. GroupOf(q, k + 1) = GroupOf(s, k) /\ LinkOf(q, k + 1) = LinkOf(s, k)
      <4> HIDE DEF q
      <4> QED
        BY <1>4, <3>1
    <3>4. links'[s[k - 1][1]][s[k - 1][2]] =
               [group |-> GroupOf(s, (k - 1) + 1), next |-> LinkOf(s, (k - 1) + 1),
                prev |-> LinkOf(q, k - 1)]
      BY <1>8, <3>1
    <3> HIDE DEF q
    <3> QED
      BY <3>1, <3>2, <3>3, <3>4
  <2> QED
    BY <2>1, <2>2
<1>10. /\ ToSet(q) = WaitingAt(c)' /\ IsInjective(q)
       /\ event'[c].group = GroupOf(q, 1) /\ event'[c].link = LinkOf(q, 1)
  <2>1. x[1] = t
    OBVIOUS
  <2> HIDE DEF q, x
  <2> QED
    BY <1>1, <1>2, <1>4, <1>5, <2>1
<1>11. Follows(c, q)'
  <2> HIDE DEF q, x
  <2> QED
    BY <1>9, <1>10 DEF Follows, ToSet, IsInjective, GroupOf, LinkOf
<1> QED
  BY <1>4, <1>11

\* A link with other neighbours.
Moved(r, p, g, n) == [r EXCEPT !.prev = p, !.group = g, !.next = n]

\* It has nothing but its neighbours.
LEMMA MovedFacts ==
  ASSUME NEW r \in LinkT, NEW p \in Link \cup {Nil}, NEW g \in Thread \cup {Nil},
         NEW n \in Link \cup {Nil}
  PROVE  Moved(r, p, g, n) = [group |-> g, next |-> n, prev |-> p]
<1> DEFINE r1 == [r EXCEPT !.prev = p]
           r2 == [r1 EXCEPT !.group = g]
           e == Moved(r, p, g, n)
<1>1. /\ DOMAIN r = {"group", "next", "prev"}
      /\ r1 \in LinkT /\ r1.prev = p
  BY DEF LinkT
<1>2. r2 \in LinkT /\ r2.prev = p /\ r2.group = g
  <2> HIDE DEF r1
  <2> QED
    BY <1>1 DEF LinkT
<1>3. [r2 EXCEPT !.next = n] \in LinkT
  <2> HIDE DEF r2
  <2> QED
    BY <1>2 DEF LinkT
<1>4. e = [r2 EXCEPT !.next = n]
  BY <1>1 DEF Moved
<1>5. e.group = g /\ e.next = n /\ e.prev = p
  <2> HIDE DEF r2, e
  <2> QED
    BY <1>2, <1>4 DEF LinkT
<1>6. e = [group |-> e.group, next |-> e.next, prev |-> e.prev]
  <2> HIDE DEF r2, e
  <2> QED
    BY <1>3, <1>4 DEF LinkT
<1> QED
  BY <1>5, <1>6

\* A thread takes its link out of the chain of an event.
LEMMA UntieFields ==
  ASSUME TypeOK, Calls, NEW t \in Thread, UnlinkEvent(t)
  PROVE  /\ caller[t].i \in Index /\ caller[t].i \in 1 .. Len(caller[t].array)
         /\ caller[t].array[caller[t].i] \in Cmd \ Silent
         /\ <<t, caller[t].i>> \in Link /\ At(t) = "unlink"
         /\ ~Locked(caller[t].array[caller[t].i])
         /\ LinkedAt(t) = caller[t].i .. caller[t].n /\ caller[t].i \in LinkedAt(t)
         /\ \A j \in LinkedAt(t) :
              caller[t].array[j] = caller[t].array[caller[t].i] => j = caller[t].i
<1> DEFINE i == caller[t].i
           c == caller[t].array[i]
<1>1. /\ At(t) = "unlink" /\ ~Locked(c) /\ i <= caller[t].n
  BY DEF UnlinkEvent, UnlinkWith
<1>2. /\ i \in 1 .. Len(caller[t].array) /\ i \in Index /\ c \in Cmd \ Silent
      /\ LinkedAt(t) \subseteq 1 .. Len(caller[t].array)
      /\ caller[t].array \in Arrays
  BY <1>1, CallFacts DEF Calls, InAny
<1>3. LinkedAt(t) = i .. caller[t].n
  BY <1>1 DEF LinkedAt
<1>4. i \in i .. caller[t].n
  BY <1>1, Fields
<1>5. \A j \in LinkedAt(t) : caller[t].array[j] = c => j = i
  BY <1>2, ArrayFacts
<1>6. <<t, i>> \in Link
  BY <1>2 DEF Link
<1> QED
  BY <1>1, <1>2, <1>3, <1>4, <1>5, <1>6

\* The event forgets it when it was the first, and nobody else moves.
LEMMA UntieNext ==
  ASSUME TypeOK, Calls, NEW t \in Thread, UnlinkEvent(t)
  PROVE  /\ LinkedAt(t)' = LinkedAt(t) \ {caller[t].i}
         /\ \A u \in Thread : u # t => LinkedAt(u)' = LinkedAt(u)
         /\ \A u \in Thread : caller'[u].array = caller[u].array
         /\ \A d \in Cmd :
              /\ event'[d].group = IF d = caller[t].array[caller[t].i] /\ event[d].group = t
                                     THEN links[t][caller[t].i].group ELSE event[d].group
              /\ event'[d].link = IF d = caller[t].array[caller[t].i] /\ event[d].group = t
                                    THEN links[t][caller[t].i].next ELSE event[d].link
         /\ UNCHANGED <<queue, ran, worker, group>>
<1> DEFINE i == caller[t].i
           c == caller[t].array[i]
<1>1. /\ UNCHANGED <<queue, ran, worker, group>> /\ At(t) = "unlink"
      /\ i <= caller[t].n
  BY DEF UnlinkEvent, UnlinkWith
<1>2. c \in Cmd
  <2>1. i \in 1 .. Len(caller[t].array)
    BY <1>1, CallFacts DEF Calls
  <2> QED
    BY <1>1, <2>1, CallFacts DEF Calls, InAny
<1>3. i \in Nat /\ caller[t].n \in Nat
  BY Fields
<1>4. /\ caller'[t].at = "unlink"
      /\ caller'[t].array = caller[t].array
      /\ caller'[t].i = i + 1 /\ caller'[t].n = caller[t].n
      /\ \A u \in Thread : u # t => caller'[u] = caller[u]
  BY <1>1, UnlinkEffect DEF PutCaller, At
<1>5. LinkedAt(t)' = (i + 1) .. caller[t].n /\ LinkedAt(t) = i .. caller[t].n
  BY <1>1, <1>4 DEF LinkedAt, At
<1>6. (i + 1) .. caller[t].n = (i .. caller[t].n) \ {i}
  BY <1>3
<1>7. \A u \in Thread : u # t => LinkedAt(u)' = LinkedAt(u)
  BY <1>4 DEF LinkedAt, At
<1>8. event' = IF event[c].group = t
                 THEN [event EXCEPT ![c].group = links[t][i].group,
                                    ![c].link = links[t][i].next]
                 ELSE event
  BY DEF UnlinkEvent, UnlinkWith
<1>9. ASSUME NEW d \in Cmd
      PROVE  /\ event'[d].group = IF d = c /\ event[d].group = t
                                    THEN links[t][i].group ELSE event[d].group
             /\ event'[d].link = IF d = c /\ event[d].group = t
                                   THEN links[t][i].next ELSE event[d].link
  <2> HIDE DEF i, c
  <2> QED
    BY <1>2, <1>8, TypeSets DEF EventT
<1>10. \A u \in Thread : caller'[u].array = caller[u].array
  BY <1>4
<1> QED
  BY <1>1, <1>5, <1>6, <1>7, <1>9, <1>10

\* Its neighbours get to know each other.
LEMMA UntieLinks ==
  ASSUME TypeOK, Calls, NEW t \in Thread, UnlinkEvent(t),
         NEW u \in Thread, NEW j \in Index
  PROVE  links'[u][j] =
           [group |-> IF <<u, j>> = PrevLink(t) THEN links[t][caller[t].i].group
                      ELSE links[u][j].group,
            next |-> IF <<u, j>> = PrevLink(t) THEN links[t][caller[t].i].next
                     ELSE links[u][j].next,
            prev |-> IF <<u, j>> = NextLink(t) THEN links[t][caller[t].i].prev
                     ELSE links[u][j].prev]
<1> DEFINE i == caller[t].i
           l == links[t][i]
           r == links[u][j]
           p == IF <<u, j>> = NextLink(t) THEN l.prev ELSE r.prev
           g == IF <<u, j>> = PrevLink(t) THEN l.group ELSE r.group
           n == IF <<u, j>> = PrevLink(t) THEN l.next ELSE r.next
<1>1. i \in Index
  BY UntieFields
<1>2. l \in LinkT /\ r \in LinkT
  BY <1>1, TypeSets
<1>3. p \in Link \cup {Nil} /\ g \in Thread \cup {Nil} /\ n \in Link \cup {Nil}
  <2> HIDE DEF l, r
  <2> QED
    BY <1>2 DEF LinkT
<1>4. links'[u][j] = [r EXCEPT !.prev = IF <<u, j>> = NextLink(t) THEN l.prev ELSE @,
                               !.group = IF <<u, j>> = PrevLink(t) THEN l.group ELSE @,
                               !.next = IF <<u, j>> = PrevLink(t) THEN l.next ELSE @]
  <2>1. links' = [v \in Thread |-> [m \in Index |->
          [links[v][m] EXCEPT
             !.prev = IF <<v, m>> = NextLink(t) THEN l.prev ELSE @,
             !.group = IF <<v, m>> = PrevLink(t) THEN l.group ELSE @,
             !.next = IF <<v, m>> = PrevLink(t) THEN l.next ELSE @]]]
    BY DEF UnlinkEvent, UnlinkWith
  <2> HIDE DEF l
  <2> QED
    BY <2>1
<1>5. links'[u][j] = Moved(r, p, g, n)
  <2> HIDE DEF l, r
  <2> QED
    BY <1>2, <1>4 DEF Moved, LinkT
<1>6. Moved(r, p, g, n) = [group |-> g, next |-> n, prev |-> p]
  <2> HIDE DEF l, r, p, g, n
  <2> QED
    BY <1>2, <1>3, MovedFacts
<1> QED
  BY <1>5, <1>6

\* The thread's link is in the chain, and finds its neighbours there.
LEMMA UntieAt ==
  ASSUME TypeOK, Calls, NEW t \in Thread, UnlinkEvent(t),
         NEW s \in Seq(Link), Follows(caller[t].array[caller[t].i], s)
  PROVE  \E k \in 1 .. Len(s) :
           /\ s[k] = <<t, caller[t].i>>
           /\ NextLink(t) = LinkOf(s, k + 1) /\ PrevLink(t) = LinkOf(s, k - 1)
           /\ links[t][caller[t].i] =
                [group |-> GroupOf(s, k + 1), next |-> LinkOf(s, k + 1),
                 prev |-> LinkOf(s, k - 1)]
           /\ event[caller[t].array[caller[t].i]].group = t <=> k = 1
<1> DEFINE i == caller[t].i
           c == caller[t].array[i]
<1>1. /\ c \in Cmd /\ i \in Index /\ <<t, i>> \in Link /\ i \in LinkedAt(t)
      /\ \A j \in LinkedAt(t) : caller[t].array[j] = c => j = i
  BY UntieFields
<1>2. /\ Len(s) \in Nat /\ ToSet(s) = WaitingAt(c)
      /\ \A a, b \in 1 .. Len(s) : s[a] = s[b] => a = b
      /\ event[c].group = GroupOf(s, 1)
  BY <1>1, ChainFacts
<1>3. <<t, i>> \in WaitingAt(c)
  BY <1>1 DEF WaitingAt
<1>4. PICK k \in 1 .. Len(s) : s[k] = <<t, i>>
  BY <1>2, <1>3, ToSetFacts
<1>5. links[t][i] = [group |-> GroupOf(s, k + 1), next |-> LinkOf(s, k + 1),
                     prev |-> LinkOf(s, k - 1)]
  <2>1. links[s[k][1]][s[k][2]] =
          [group |-> GroupOf(s, k + 1), next |-> LinkOf(s, k + 1),
           prev |-> LinkOf(s, k - 1)]
    BY <1>1, ChainAt
  <2> QED
    BY <1>4, <2>1
<1>6. NextLink(t) = LinkOf(s, k + 1)
  BY <1>5 DEF NextLink
<1>7. PrevLink(t) = LinkOf(s, k - 1)
  <2>1. CASE LinkOf(s, k - 1) = Nil
    BY <1>5, <2>1 DEF PrevLink
  <2>2. CASE LinkOf(s, k - 1) # Nil
    <3>1. k - 1 \in 1 .. Len(s) /\ LinkOf(s, k - 1) = s[k - 1]
      BY <2>2, LinkOfFacts
    <3>2. links[s[k - 1][1]][s[k - 1][2]].group = GroupOf(s, (k - 1) + 1)
      <4>1. links[s[k - 1][1]][s[k - 1][2]] =
              [group |-> GroupOf(s, (k - 1) + 1), next |-> LinkOf(s, (k - 1) + 1),
               prev |-> LinkOf(s, (k - 1) - 1)]
        BY <1>1, <3>1, ChainAt
      <4> QED
        BY <4>1
    <3>3. (k - 1) + 1 = k /\ GroupOf(s, k) = t
      BY <1>2, <1>4 DEF GroupOf
    <3> QED
      BY <1>5, <2>2, <3>1, <3>2, <3>3 DEF PrevLink
  <2> QED
    BY <2>1, <2>2
<1>8. event[c].group = t <=> k = 1
  <2>1. 1 \in 1 .. Len(s)
    BY <1>2
  <2>2. event[c].group = s[1][1]
    BY <1>2, <2>1 DEF GroupOf
  <2>3. k = 1 => event[c].group = t
    BY <1>4, <2>2
  <2>4. ASSUME s[1][1] = t PROVE k = 1
    <3>1. /\ s[1] \in WaitingAt(c) /\ s[1] = <<s[1][1], s[1][2]>>
      <4>1. ASSUME NEW m \in 1 .. Len(s)
            PROVE  s[m] \in WaitingAt(c) /\ s[m] = <<s[m][1], s[m][2]>>
        <5>1. s[m] \in WaitingAt(c)
          BY <1>2, ToSetFacts
        <5> HIDE DEF c
        <5> QED
          BY <5>1 DEF WaitingAt, Link
      <4> QED
        BY <2>1, <4>1
    <3>2. s[1][2] \in LinkedAt(t) /\ caller[t].array[s[1][2]] = c
      BY <2>4, <3>1 DEF WaitingAt
    <3>3. s[1][2] = i
      BY <1>1, <3>2
    <3> QED
      BY <1>2, <1>4, <2>1, <2>4, <3>1, <3>3
  <2> QED
    BY <2>2, <2>3, <2>4
<1> QED
  BY <1>4, <1>5, <1>6, <1>7, <1>8

\* The chains of the other events are not touched.
LEMMA UntieOther ==
  ASSUME TypeOK, Calls, NEW t \in Thread, UnlinkEvent(t),
         NEW s \in Seq(Link), Follows(caller[t].array[caller[t].i], s),
         NEW d \in Cmd, d # caller[t].array[caller[t].i],
         NEW r \in Seq(Link), Follows(d, r)
  PROVE  Follows(d, r)'
<1> DEFINE i == caller[t].i
           c == caller[t].array[i]
<1>1. /\ c \in Cmd /\ i \in LinkedAt(t)
  BY UntieFields
<1>2. /\ LinkedAt(t)' = LinkedAt(t) \ {i}
      /\ \A u \in Thread : u # t => LinkedAt(u)' = LinkedAt(u)
      /\ \A u \in Thread : caller'[u].array = caller[u].array
      /\ event'[d].group = event[d].group /\ event'[d].link = event[d].link
  BY UntieNext
<1>3. WaitingAt(d)' = WaitingAt(d)
  <2>1. \A l \in Link : l[1] \in Thread
    BY DEF Link
  <2>2. \A l \in Link : /\ l[2] \in LinkedAt(l[1])' /\ caller'[l[1]].array[l[2]] = d
                          <=> /\ l[2] \in LinkedAt(l[1])
                              /\ caller[l[1]].array[l[2]] = d
    BY <1>2, <2>1
  <2> QED
    BY <2>2 DEF WaitingAt
<1>4. PICK k \in 1 .. Len(s) : /\ NextLink(t) = LinkOf(s, k + 1)
                               /\ PrevLink(t) = LinkOf(s, k - 1)
  BY UntieAt
<1>5. ASSUME NEW l \in WaitingAt(d), NEW m, LinkOf(s, m) # Nil
      PROVE  l # LinkOf(s, m)
  <2>1. m \in 1 .. Len(s) /\ LinkOf(s, m) = s[m]
    BY <1>5, LinkOfFacts
  <2>2. s[m] \in WaitingAt(c)
    <3>1. ToSet(s) = WaitingAt(c)
      BY <1>1, ChainFacts
    <3> QED
      BY <2>1, <3>1, ToSetFacts
  <2> HIDE DEF c
  <2> QED
    BY <2>1, <2>2 DEF WaitingAt, c
<1>6. ASSUME NEW l \in WaitingAt(d) PROVE links'[l[1]][l[2]] = links[l[1]][l[2]]
  <2>1. /\ l[1] \in Thread /\ l[2] \in Index /\ l = <<l[1], l[2]>> /\ l # Nil
    BY QueueAssumption DEF WaitingAt, Link, Index
  <2>2. l # PrevLink(t) /\ l # NextLink(t)
    BY <1>4, <1>5, <2>1
  <2>3. ASSUME NEW u \in Thread, NEW j \in Index,
               <<u, j>> # PrevLink(t), <<u, j>> # NextLink(t)
        PROVE  links'[u][j] = links[u][j]
    <3>1. links'[u][j] = [group |-> links[u][j].group, next |-> links[u][j].next,
                          prev |-> links[u][j].prev]
      BY <2>3, UntieLinks
    <3>2. links[u][j] = [group |-> links[u][j].group, next |-> links[u][j].next,
                         prev |-> links[u][j].prev]
      BY Fields
    <3> QED
      BY <3>1, <3>2, Zenon
  <2> QED
    BY <2>1, <2>2, <2>3
<1> QED
  BY <1>2, <1>3, <1>6, ChainKept

\* The event's own chain is the same without the link.
LEMMA UntieChain ==
  ASSUME TypeOK, Calls, NEW t \in Thread, UnlinkEvent(t),
         NEW c, c = caller[t].array[caller[t].i],
         NEW s \in Seq(Link), Follows(c, s)
  PROVE  \E q \in Seq(Link) : Follows(c, q)'
<1> DEFINE i == caller[t].i
<1>1. /\ c \in Cmd /\ i \in LinkedAt(t)
  BY UntieFields
<1>2. /\ LinkedAt(t)' = LinkedAt(t) \ {i}
      /\ \A u \in Thread : u # t => LinkedAt(u)' = LinkedAt(u)
      /\ \A u \in Thread : caller'[u].array = caller[u].array
      /\ event'[c].group = IF event[c].group = t THEN links[t][i].group
                           ELSE event[c].group
      /\ event'[c].link = IF event[c].group = t THEN links[t][i].next
                          ELSE event[c].link
  BY <1>1, UntieNext
<1>3. PICK k \in 1 .. Len(s) :
        /\ s[k] = <<t, i>>
        /\ NextLink(t) = LinkOf(s, k + 1) /\ PrevLink(t) = LinkOf(s, k - 1)
        /\ links[t][i] =
             [group |-> GroupOf(s, k + 1), next |-> LinkOf(s, k + 1),
              prev |-> LinkOf(s, k - 1)]
        /\ event[caller[t].array[caller[t].i]].group = t <=> k = 1
  <2>1. Follows(caller[t].array[caller[t].i], s)
    OBVIOUS
  <2> QED
    BY <2>1, UntieAt
<1>0. event[c].group = t <=> k = 1
  BY <1>3
<1>4. /\ Len(s) \in Nat /\ ToSet(s) = WaitingAt(c)
      /\ \A a, b \in 1 .. Len(s) : s[a] = s[b] => a = b
      /\ event[c].group = GroupOf(s, 1) /\ event[c].link = LinkOf(s, 1)
  BY <1>1, ChainFacts
<1> DEFINE q == Cut(s, k)
           n == Len(s)
<1>5. /\ q \in Seq(Link) /\ Len(q) = n - 1
      /\ ToSet(q) = ToSet(s) \ {s[k]} /\ IsInjective(q)
      /\ \A m \in 1 .. n - 1 : q[m] = IF m < k THEN s[m] ELSE s[m + 1]
      /\ \A m \in 0 .. n :
           /\ LinkOf(q, m) = IF m < k THEN LinkOf(s, m) ELSE LinkOf(s, m + 1)
           /\ GroupOf(q, m) = IF m < k THEN GroupOf(s, m) ELSE GroupOf(s, m + 1)
  BY <1>4, CutFacts
<1> HIDE DEF q
<1>6. n \in Nat /\ k \in Nat /\ 1 <= k /\ k <= n /\ k \in 1 .. n
  BY <1>4
<1>7. WaitingAt(c)' = WaitingAt(c) \ {s[k]}
  <2>1. \A l \in Link : l[1] \in Thread /\ l = <<l[1], l[2]>>
    BY DEF Link
  <2>2. ASSUME NEW l \in Link
        PROVE  /\ l[2] \in LinkedAt(l[1])' /\ caller'[l[1]].array[l[2]] = c
                 <=> /\ l # s[k]
                     /\ l[2] \in LinkedAt(l[1]) /\ caller[l[1]].array[l[2]] = c
    <3>1. CASE l[1] # t
      BY <1>2, <1>3, <2>1, <3>1
    <3>2. CASE l[1] = t
      <4>1. \A j \in LinkedAt(t) : caller[t].array[j] = c => j = i
        BY UntieFields
      <4>2. l = s[k] <=> l[2] = i
        BY <1>3, <2>1, <3>2
      <4> QED
        BY <1>2, <2>1, <3>2, <4>1, <4>2
    <3> QED
      BY <3>1, <3>2
  <2> QED
    BY <2>2 DEF WaitingAt
<1>8. ASSUME NEW m \in 1 .. n, m # k
      PROVE  links'[s[m][1]][s[m][2]] =
               [group |-> IF m = k - 1 THEN GroupOf(s, k + 1) ELSE GroupOf(s, m + 1),
                next |-> IF m = k - 1 THEN LinkOf(s, k + 1) ELSE LinkOf(s, m + 1),
                prev |-> IF m = k + 1 THEN LinkOf(s, k - 1) ELSE LinkOf(s, m - 1)]
  <2>1. /\ s[m] \in Link /\ s[m] # Nil
        /\ s[m][1] \in Thread /\ s[m][2] \in Index
        /\ s[m] = <<s[m][1], s[m][2]>>
        /\ links[s[m][1]][s[m][2]] =
             [group |-> GroupOf(s, m + 1), next |-> LinkOf(s, m + 1),
              prev |-> LinkOf(s, m - 1)]
    BY <1>1, ChainAt
  <2>2. s[m] = LinkOf(s, k + 1) <=> m = k + 1
    <3>1. m = k + 1 => s[m] = LinkOf(s, k + 1)
      BY DEF LinkOf
    <3>2. ASSUME s[m] = LinkOf(s, k + 1) PROVE m = k + 1
      <4>1. k + 1 \in 1 .. Len(s) /\ LinkOf(s, k + 1) = s[k + 1]
        BY <2>1, <3>2, LinkOfFacts
      <4> QED
        BY <1>4, <3>2, <4>1
    <3> QED
      BY <3>1, <3>2
  <2>3. s[m] = LinkOf(s, k - 1) <=> m = k - 1
    <3>1. m = k - 1 => s[m] = LinkOf(s, k - 1)
      BY DEF LinkOf
    <3>2. ASSUME s[m] = LinkOf(s, k - 1) PROVE m = k - 1
      <4>1. k - 1 \in 1 .. Len(s) /\ LinkOf(s, k - 1) = s[k - 1]
        BY <2>1, <3>2, LinkOfFacts
      <4> QED
        BY <1>4, <3>2, <4>1
    <3> QED
      BY <3>1, <3>2
  <2>4. ASSUME NEW u \in Thread, NEW j \in Index
        PROVE  links'[u][j] =
                 [group |-> IF <<u, j>> = PrevLink(t) THEN links[t][i].group
                            ELSE links[u][j].group,
                  next |-> IF <<u, j>> = PrevLink(t) THEN links[t][i].next
                           ELSE links[u][j].next,
                  prev |-> IF <<u, j>> = NextLink(t) THEN links[t][i].prev
                           ELSE links[u][j].prev]
    BY UntieLinks
  <2>5. links'[s[m][1]][s[m][2]] =
          [group |-> IF s[m] = PrevLink(t) THEN links[t][i].group
                     ELSE links[s[m][1]][s[m][2]].group,
           next |-> IF s[m] = PrevLink(t) THEN links[t][i].next
                    ELSE links[s[m][1]][s[m][2]].next,
           prev |-> IF s[m] = NextLink(t) THEN links[t][i].prev
                    ELSE links[s[m][1]][s[m][2]].prev]
    <3>1. links'[s[m][1]][s[m][2]] =
            [group |-> IF <<s[m][1], s[m][2]>> = PrevLink(t) THEN links[t][i].group
                       ELSE links[s[m][1]][s[m][2]].group,
             next |-> IF <<s[m][1], s[m][2]>> = PrevLink(t) THEN links[t][i].next
                      ELSE links[s[m][1]][s[m][2]].next,
             prev |-> IF <<s[m][1], s[m][2]>> = NextLink(t) THEN links[t][i].prev
                      ELSE links[s[m][1]][s[m][2]].prev]
      BY <2>1, <2>4
    <3> HIDE DEF i
    <3> QED
      BY <2>1, <3>1, Zenon
  <2>6. /\ (IF s[m] = PrevLink(t) THEN links[t][i].group ELSE links[s[m][1]][s[m][2]].group)
             = IF m = k - 1 THEN GroupOf(s, k + 1) ELSE GroupOf(s, m + 1)
        /\ (IF s[m] = PrevLink(t) THEN links[t][i].next ELSE links[s[m][1]][s[m][2]].next)
             = IF m = k - 1 THEN LinkOf(s, k + 1) ELSE LinkOf(s, m + 1)
        /\ (IF s[m] = NextLink(t) THEN links[t][i].prev ELSE links[s[m][1]][s[m][2]].prev)
             = IF m = k + 1 THEN LinkOf(s, k - 1) ELSE LinkOf(s, m - 1)
    <3> HIDE DEF i
    <3> QED
      BY <1>3, <2>1, <2>2, <2>3
  <2> HIDE DEF i
  <2> QED
    BY <2>5, <2>6, Zenon
<1>9. ASSUME NEW m \in 1 .. n - 1
      PROVE  links'[q[m][1]][q[m][2]] =
               [group |-> GroupOf(q, m + 1), next |-> LinkOf(q, m + 1),
                prev |-> LinkOf(q, m - 1)]
  <2>1. m \in Nat /\ 1 <= m /\ m <= n - 1
    BY <1>6
  <2>2. m - 1 \in 0 .. n /\ m + 1 \in 0 .. n /\ (m - 1) + 1 = m
    BY <1>6, <2>1
  <2>3. CASE m < k
    <3>1. q[m] = s[m] /\ m \in 1 .. n /\ m # k /\ m # k + 1
      BY <1>5, <1>6, <2>1, <2>3
    <3>2. links'[s[m][1]][s[m][2]] =
            [group |-> IF m = k - 1 THEN GroupOf(s, k + 1) ELSE GroupOf(s, m + 1),
             next |-> IF m = k - 1 THEN LinkOf(s, k + 1) ELSE LinkOf(s, m + 1),
             prev |-> IF m = k + 1 THEN LinkOf(s, k - 1) ELSE LinkOf(s, m - 1)]
      BY <1>8, <3>1
    <3>3. LinkOf(q, m - 1) = LinkOf(s, m - 1)
      <4>1. m - 1 < k
        BY <1>6, <2>1, <2>3
      <4> QED
        BY <1>5, <2>2, <4>1
    <3>4. CASE m = k - 1
      <4>1. ~(m + 1 < k) /\ (m + 1) + 1 = k + 1
        BY <1>6, <2>1, <3>4
      <4>2. GroupOf(q, m + 1) = GroupOf(s, k + 1) /\ LinkOf(q, m + 1) = LinkOf(s, k + 1)
        BY <1>5, <2>2, <4>1
      <4> QED
        BY <3>1, <3>2, <3>3, <3>4, <4>2
    <3>5. CASE m # k - 1
      <4>1. m + 1 < k
        BY <1>6, <2>1, <2>3, <3>5
      <4>2. GroupOf(q, m + 1) = GroupOf(s, m + 1) /\ LinkOf(q, m + 1) = LinkOf(s, m + 1)
        BY <1>5, <2>2, <4>1
      <4> QED
        BY <3>1, <3>2, <3>3, <3>5, <4>2
    <3> QED
      BY <3>4, <3>5
  <2>4. CASE ~(m < k)
    <3>1. q[m] = s[m + 1] /\ m + 1 \in 1 .. n /\ m + 1 # k /\ m + 1 # k - 1
          /\ (m + 1) - 1 = m
      BY <1>5, <1>6, <2>1, <2>4
    <3>2. links'[s[m + 1][1]][s[m + 1][2]] =
            [group |-> IF m + 1 = k - 1 THEN GroupOf(s, k + 1) ELSE GroupOf(s, (m + 1) + 1),
             next |-> IF m + 1 = k - 1 THEN LinkOf(s, k + 1) ELSE LinkOf(s, (m + 1) + 1),
             prev |-> IF m + 1 = k + 1 THEN LinkOf(s, k - 1) ELSE LinkOf(s, (m + 1) - 1)]
      BY <1>8, <3>1
    <3>3. /\ GroupOf(q, m + 1) = GroupOf(s, (m + 1) + 1)
          /\ LinkOf(q, m + 1) = LinkOf(s, (m + 1) + 1)
      <4>1. ~(m + 1 < k)
        BY <1>6, <2>1, <2>4
      <4> QED
        BY <1>5, <2>2, <4>1
    <3>4. CASE m = k
      <4>1. m - 1 < k /\ m + 1 = k + 1
        BY <1>6, <3>4
      <4>2. LinkOf(q, m - 1) = LinkOf(s, k - 1)
        BY <1>5, <2>2, <3>4, <4>1
      <4> QED
        BY <3>1, <3>2, <3>3, <4>1, <4>2
    <3>5. CASE m # k
      <4>1. ~(m - 1 < k) /\ m + 1 # k + 1
        BY <1>6, <2>1, <2>4, <3>5
      <4>2. LinkOf(q, m - 1) = LinkOf(s, m)
        BY <1>5, <2>2, <4>1
      <4> QED
        BY <3>1, <3>2, <3>3, <4>1, <4>2
    <3> QED
      BY <3>4, <3>5
  <2> QED
    BY <2>3, <2>4
<1>10. event'[c].group = GroupOf(q, 1) /\ event'[c].link = LinkOf(q, 1)
  <2>1. 1 \in 0 .. n /\ 1 + 1 = 2
    BY <1>6
  <2>2. CASE k = 1
    <3>1. GroupOf(q, 1) = GroupOf(s, 2) /\ LinkOf(q, 1) = LinkOf(s, 2)
      BY <1>5, <2>1, <2>2
    <3>2. links[t][i].group = GroupOf(s, 2) /\ links[t][i].next = LinkOf(s, 2)
      BY <1>3, <2>1, <2>2
    <3> HIDE DEF i
    <3> QED
      BY <1>2, <1>0, <2>2, <3>1, <3>2
  <2>3. CASE k # 1
    <3>1. 1 < k
      BY <1>6, <2>3
    <3>2. GroupOf(q, 1) = GroupOf(s, 1) /\ LinkOf(q, 1) = LinkOf(s, 1)
      BY <1>5, <2>1, <3>1
    <3> HIDE DEF i
    <3> QED
      BY <1>2, <1>0, <1>4, <2>3, <3>2
  <2> QED
    BY <2>2, <2>3
<1>11. ToSet(q) = WaitingAt(c)'
  BY <1>4, <1>5, <1>7
<1>12. Follows(c, q)'
  BY <1>5, <1>9, <1>10, <1>11 DEF Follows, ToSet, IsInjective, GroupOf, LinkOf
<1> QED
  BY <1>5, <1>12

\* Every event has a chain, whoever links or leaves.
LEMMA ChainsStep ==
  ASSUME IndInv, Next
  PROVE  Chains'
<1>0. TypeOK /\ Calls /\ \A c \in Cmd : \E s \in Seq(Link) : Follows(c, s)
  BY DEF IndInv, Chains
<1> SUFFICES ASSUME NEW d \in Cmd
             PROVE  \E r \in Seq(Link) : Follows(d, r)'
  BY DEF Chains
<1>1. PICK r \in Seq(Link) : Follows(d, r)
  BY <1>0
<1>2. CASE Untied
  BY <1>1, <1>2, UntiedKept
<1>3. ASSUME NEW t \in Thread, LinkEvent(t),
             event[caller[t].array[caller[t].i]].st = "PENDING"
      PROVE  \E q \in Seq(Link) : Follows(d, q)'
  <2>1. caller[t].array[caller[t].i] \in Cmd
    <3>1. At(t) = "link"
      BY <1>3 DEF LinkEvent
    <3>2. caller[t].i \in 1 .. Len(caller[t].array)
      BY <1>0, <3>1, CallFacts DEF Calls
    <3> QED
      BY <1>0, <3>1, <3>2, CallFacts DEF Calls, InAny
  <2>2. ASSUME NEW i, i = caller[t].i, NEW c \in Cmd, c = caller[t].array[i]
        PROVE  \E q \in Seq(Link) : Follows(d, q)'
    <3>1. PICK s \in Seq(Link) : Follows(c, s)
      BY <1>0
    <3>2. event[c].st = "PENDING"
      BY <1>3, <2>2
    <3>3. CASE d = c
      BY <1>0, <1>3, <2>2, <3>1, <3>2, <3>3, TieChain
    <3>4. CASE d # c
      BY <1>0, <1>1, <1>3, <2>2, <3>1, <3>2, <3>4, TieOther
    <3> QED
      BY <3>3, <3>4
  <2> QED
    BY <2>1, <2>2
<1>4. ASSUME NEW t \in Thread, UnlinkEvent(t)
      PROVE  \E q \in Seq(Link) : Follows(d, q)'
  <2>1. caller[t].array[caller[t].i] \in Cmd
    BY <1>0, <1>4, UntieFields
  <2>2. PICK s \in Seq(Link) : Follows(caller[t].array[caller[t].i], s)
    BY <1>0, <2>1
  <2>3. CASE d = caller[t].array[caller[t].i]
    <3>1. Follows(d, s)
      BY <2>2, <2>3
    <3> QED
      BY <1>0, <1>4, <2>3, <3>1, UntieChain
  <2>4. CASE d # caller[t].array[caller[t].i]
    BY <1>0, <1>1, <1>4, <2>2, <2>4, UntieOther
  <2> QED
    BY <2>3, <2>4
<1> QED
  BY <1>2, <1>3, <1>4, UntiedCases

\* The chain that a broadcast visits does not change meanwhile.
LEMMA LockedKept ==
  ASSUME IndInv, Next, worker.at = "walk",
         NEW d \in Cmd, d = worker.cur, NEW r \in Seq(Link), Follows(d, r)
  PROVE  Follows(d, r)'
<1>0. TypeOK /\ Calls /\ \A c \in Cmd : \E s \in Seq(Link) : Follows(c, s)
  BY DEF IndInv, Chains
<1>2. CASE Untied
  BY <1>2, UntiedKept
<1>3. ASSUME NEW t \in Thread, LinkEvent(t),
             event[caller[t].array[caller[t].i]].st = "PENDING"
      PROVE  Follows(d, r)'
  <2>1. /\ caller[t].array[caller[t].i] \in Cmd
        /\ caller[t].array[caller[t].i] # d
    <3>1. At(t) = "link" /\ ~Locked(caller[t].array[caller[t].i])
      BY <1>3 DEF LinkEvent
    <3>2. caller[t].i \in 1 .. Len(caller[t].array)
      BY <1>0, <3>1, CallFacts DEF Calls
    <3>3. caller[t].array[caller[t].i] \in Cmd
      BY <1>0, <3>1, <3>2, CallFacts DEF Calls, InAny
    <3> QED
      BY <3>1, <3>3 DEF Locked
  <2>2. ASSUME NEW i, i = caller[t].i, NEW c \in Cmd, c = caller[t].array[i]
        PROVE  Follows(d, r)'
    <3>1. PICK s \in Seq(Link) : Follows(c, s)
      BY <1>0
    <3>2. event[c].st = "PENDING" /\ d # c
      BY <1>3, <2>1, <2>2
    <3> QED
      BY <1>0, <1>3, <2>2, <3>1, <3>2, TieOther
  <2> QED
    BY <2>1, <2>2
<1>4. ASSUME NEW t \in Thread, UnlinkEvent(t)
      PROVE  Follows(d, r)'
  <2>1. caller[t].array[caller[t].i] \in Cmd
    BY <1>0, <1>4, UntieFields
  <2>2. PICK s \in Seq(Link) : Follows(caller[t].array[caller[t].i], s)
    BY <1>0, <2>1
  <2>3. d # caller[t].array[caller[t].i]
    BY <1>4 DEF UnlinkEvent, UnlinkWith, Locked
  <2> QED
    BY <1>0, <1>4, <2>2, <2>3, UntieOther
<1> QED
  BY <1>2, <1>3, <1>4, UntiedCases

\* The cursor of a broadcast stays in the chain of its event.
LEMMA CursorStep ==
  ASSUME IndInv, Next
  PROVE  Cursor'
<1>0. /\ TypeOK /\ Requests /\ EventStates /\ EventRefs /\ Calls /\ Cursor
      /\ \A c \in Cmd : \E s \in Seq(Link) : Follows(c, s)
  BY DEF IndInv, Chains
<1> SUFFICES ASSUME NEW d \in Cmd, worker'.at = "walk", d = worker'.cur
             PROVE  \E s \in Seq(Link) :
                      /\ Follows(d, s)'
                      /\ \E k \in 1 .. Len(s) + 1 : /\ worker'.lk = LinkOf(s, k)
                                                    /\ worker'.gp = GroupOf(s, k)
  BY DEF Cursor, Locked, LinkOf, GroupOf
<1>1. ASSUME worker.at = "walk", worker'.cur = worker.cur, worker'.lk = worker.lk,
             worker'.gp = worker.gp
      PROVE  \E s \in Seq(Link) :
               /\ Follows(d, s)'
               /\ \E k \in 1 .. Len(s) + 1 : /\ worker'.lk = LinkOf(s, k)
                                             /\ worker'.gp = GroupOf(s, k)
  <2>1. PICK s \in Seq(Link) :
          /\ Follows(d, s)
          /\ \E k \in 1 .. Len(s) + 1 : /\ worker.lk = LinkOf(s, k)
                                        /\ worker.gp = GroupOf(s, k)
    BY <1>0, <1>1 DEF Cursor, Locked
  <2>3. Follows(d, s)'
    BY <1>1, <2>1, LockedKept
  <2> QED
    BY <1>1, <2>1, <2>3
<1>2. CASE Quiet
  BY <1>1, <1>2 DEF Quiet
<1>3. ASSUME NEW t \in Thread, NEW c \in Cmd, Enqueue(t, c)
      PROVE  worker.at = "walk" /\ worker'.cur = worker.cur
             /\ worker'.lk = worker.lk /\ worker'.gp = worker.gp
  BY <1>0, <1>3, PushFields
<1>4. CASE Dequeue \/ (\E s \in Outcome : Run(s)) \/ WalkEnd \/ DropEvent
  <2>1. worker'.at # "walk"
    <3>1. CASE Dequeue
      BY <1>0, <3>1, DequeueFields
    <3>2. ASSUME NEW s \in Outcome, Run(s) PROVE worker'.at # "walk"
      BY <1>0, <3>2, RunFields
    <3>3. CASE WalkEnd
      BY <1>0, <3>3, WalkEndFields
    <3>4. CASE DropEvent
      <4>1. QueueRefs
        BY DEF IndInv
      <4> QED
        BY <1>0, <3>4, <4>1, DropFields
    <3> QED
      BY <1>4, <3>1, <3>2, <3>3, <3>4
  <2> QED
    BY <2>1
<1>5. CASE Signal
  <2>1. /\ worker.at = "signal" /\ worker'.cur = worker.cur
        /\ worker'.gp = event[worker.cur].group
        /\ worker'.lk = event[worker.cur].link
    BY <1>0, <1>5, SignalFields
  <2>2. d \in Cmd /\ d = worker.cur
    BY <1>0, <2>1, AskedLive
  <2>3. PICK s \in Seq(Link) : Follows(d, s)
    BY <1>0, <2>2
  <2>4. Len(s) \in Nat /\ event[d].group = GroupOf(s, 1) /\ event[d].link = LinkOf(s, 1)
    BY <2>2, <2>3, ChainFacts
  <2>5. Follows(d, s)'
    <3>1. CASE Untied
      BY <2>2, <2>3, <3>1, UntiedKept
    <3>2. CASE \E t \in Thread : LinkEvent(t) \/ UnlinkEvent(t)
      <4>1. worker' = worker
        BY <3>2 DEF LinkEvent, UnlinkEvent, UnlinkWith
      <4> QED
        BY <2>1, <4>1
    <3> QED
      BY <3>1, <3>2, UntiedCases
  <2>6. 1 \in 1 .. Len(s) + 1
    BY <2>4
  <2> QED
    BY <2>1, <2>2, <2>4, <2>5, <2>6
<1>6. CASE WalkGroup
  <2>1. /\ worker.at = "walk" /\ worker.lk \in Link /\ worker'.cur = worker.cur
        /\ worker'.gp = links[worker.lk[1]][worker.lk[2]].group
        /\ worker'.lk = links[worker.lk[1]][worker.lk[2]].next
    BY <1>0, <1>6, WalkFields
  <2>2. PICK s \in Seq(Link) :
          /\ Follows(d, s)
          /\ \E k \in 1 .. Len(s) + 1 : /\ worker.lk = LinkOf(s, k)
                                        /\ worker.gp = GroupOf(s, k)
    BY <1>0, <2>1 DEF Cursor, Locked
  <2>4. Follows(d, s)'
    BY <2>1, <2>2, LockedKept
  <2>5. PICK k \in 1 .. Len(s) + 1 : worker.lk = LinkOf(s, k)
    BY <2>2
  <2>6. worker.lk # Nil
    BY <2>1, QueueAssumption DEF Link, Index
  <2>7. k \in 1 .. Len(s) /\ worker.lk = s[k]
    BY <2>5, <2>6, LinkOfFacts
  <2>8. links[s[k][1]][s[k][2]] =
          [group |-> GroupOf(s, k + 1), next |-> LinkOf(s, k + 1),
           prev |-> LinkOf(s, k - 1)]
    BY <2>2, <2>7, ChainAt
  <2>9. worker'.gp = GroupOf(s, k + 1) /\ worker'.lk = LinkOf(s, k + 1)
    BY <2>1, <2>7, <2>8
  <2>10. k + 1 \in 1 .. Len(s) + 1
    BY <2>7
  <2> QED
    BY <2>4, <2>9, <2>10
<1> QED
  BY <1>1, <1>2, <1>3, <1>4, <1>5, <1>6, QuietCases

\* A thread that links itself up touches no link that is not in use but its own.
LEMMA TieFresh ==
  ASSUME TypeOK, Calls, Chains, NEW t \in Thread,
         event[caller[t].array[caller[t].i]].st = "PENDING", LinkEvent(t),
         NEW u \in Thread, At(u) = "link", NEW j \in Index, j >= caller[u].i,
         u = t => j # caller[t].i
  PROVE  links'[u][j] = NoLink
<1>1. links[u][j] = NoLink
  BY DEF Calls, Call
<1>2. caller[t].array[caller[t].i] \in Cmd
  <2>1. At(t) = "link"
    BY DEF LinkEvent
  <2>2. caller[t].i \in 1 .. Len(caller[t].array)
    BY <2>1, CallFacts DEF Calls
  <2> QED
    BY <2>1, <2>2, CallFacts DEF Calls, InAny
<1>3. PICK s \in Seq(Link) : Follows(caller[t].array[caller[t].i], s)
  BY <1>2 DEF Chains
<1>4. <<u, j>> # <<t, caller[t].i>>
  OBVIOUS
<1>5. <<u, j>> # event[caller[t].array[caller[t].i]].link
  <2> SUFFICES ASSUME <<u, j>> = event[caller[t].array[caller[t].i]].link
               PROVE  FALSE
    OBVIOUS
  <2>1. event[caller[t].array[caller[t].i]].link = LinkOf(s, 1)
    BY <1>2, <1>3, ChainFacts
  <2>2. <<u, j>> # Nil
    BY QueueAssumption DEF Index
  <2>3. 1 \in 1 .. Len(s) /\ LinkOf(s, 1) = s[1]
    BY <2>1, <2>2, LinkOfFacts
  <2>4. s[1][2] \in LinkedAt(s[1][1])
    BY <1>2, <1>3, <2>3, ChainAt
  <2>5. s[1] = <<u, j>>
    BY <2>1, <2>3
  <2>6. j \in LinkedAt(u)
    BY <2>4, <2>5
  <2>7. caller[u].i \in Nat /\ j \in Nat
    BY Fields DEF Index
  <2> QED
    BY <2>6, <2>7 DEF LinkedAt
<1>6. links'[u][j] = links[u][j]
  BY <1>4, <1>5, TieLinks
<1> QED
  BY <1>1, <1>6

\* Nor does one that takes itself out.
LEMMA UntieFresh ==
  ASSUME TypeOK, Calls, Chains, NEW t \in Thread, UnlinkEvent(t),
         NEW u \in Thread, At(u) = "link", NEW j \in Index, j >= caller[u].i
  PROVE  links'[u][j] = NoLink
<1>1. links[u][j] = NoLink
  BY DEF Calls, Call
<1>2. caller[t].array[caller[t].i] \in Cmd
  BY UntieFields
<1>3. PICK s \in Seq(Link) : Follows(caller[t].array[caller[t].i], s)
  BY <1>2 DEF Chains
<1>4. ASSUME NEW m, <<u, j>> = LinkOf(s, m)
      PROVE  FALSE
  <2>2. <<u, j>> # Nil
    BY QueueAssumption DEF Index
  <2>3. m \in 1 .. Len(s) /\ LinkOf(s, m) = s[m]
    BY <1>4, <2>2, LinkOfFacts
  <2>4. s[m][2] \in LinkedAt(s[m][1])
    BY <1>2, <1>3, <2>3, ChainAt
  <2>5. s[m] = <<u, j>>
    BY <1>4, <2>3
  <2>6. j \in LinkedAt(u)
    BY <2>4, <2>5
  <2>7. caller[u].i \in Nat /\ j \in Nat
    BY Fields DEF Index
  <2> QED
    BY <2>6, <2>7 DEF LinkedAt
<1>5. PICK k \in 1 .. Len(s) : NextLink(t) = LinkOf(s, k + 1) /\ PrevLink(t) = LinkOf(s, k - 1)
  BY <1>3, UntieAt
<1>6. <<u, j>> # NextLink(t) /\ <<u, j>> # PrevLink(t)
  BY <1>4, <1>5
<1>7. links'[u][j] = [group |-> links[u][j].group, next |-> links[u][j].next,
                      prev |-> links[u][j].prev]
  BY <1>6, UntieLinks
<1> QED
  BY <1>1, <1>7 DEF NoLink

\* A call that a step does not carry on is where it was.
LEMMA CallKept ==
  ASSUME NEW u \in Thread, Call(u),
         caller'[u].array = caller[u].array, caller'[u].i = caller[u].i,
         caller'[u].n = caller[u].n, caller[u].holds \subseteq caller'[u].holds,
         \/ caller'[u].at = At(u)
         \/ {caller'[u].at, At(u)} \subseteq {"wait", "waiting"}
         \/ {caller'[u].at, At(u)} \subseteq {"gwait", "gwaiting"}
         \/ {caller'[u].at, At(u)} \subseteq {"idle", "destroy", "join"},
         group'[u] = group[u] \/ group'[u] \in Outcome,
         At(u) = "link" =>
           \A j \in Index : j >= caller[u].i => links'[u][j] = NoLink
  PROVE  Call(u)'
<1>1. (At(u) \in {"idle", "destroy", "join"} => caller[u].array = <<>>)'
  BY DEF Call, At
<1>2. (At(u) \in {"wait", "waiting"} =>
         \E c \in caller[u].holds : caller[u].array = <<c>>)'
  BY DEF Call, At
<1>3. (InAny(u) => /\ caller[u].array \in Arrays
                   /\ ToSet(caller[u].array) \subseteq caller[u].holds
                   /\ caller[u].n <= Len(caller[u].array))'
  <2> SUFFICES ASSUME caller'[u].at \in {"link", "gwait", "gwaiting", "unlink"}
               PROVE  /\ caller'[u].array \in Arrays
                      /\ ToSet(caller'[u].array) \subseteq caller'[u].holds
                      /\ caller'[u].n <= Len(caller'[u].array)
    BY DEF InAny, At, ToSet, Arrays, IsInjective, Index
  <2>1. InAny(u)
    BY DEF InAny, At
  <2> QED
    BY <2>1 DEF Call
<1>4. (At(u) \in {"link", "gwait", "gwaiting"} =>
         caller[u].n = Len(caller[u].array))'
  BY DEF Call, At
<1>5. (At(u) = "link" => /\ caller[u].i \in 1 .. caller[u].n
                         /\ \A j \in Index : j >= caller[u].i => links[u][j] = NoLink)'
  BY DEF Call, At
<1>6. (At(u) = "unlink" => caller[u].i \in 1 .. caller[u].n + 1)'
  BY DEF Call, At
<1>7. (At(u) \in {"link", "gwait", "gwaiting"} => group[u] \in Outcome \cup {"PENDING"})'
  BY DEF Call, At
<1> QED
  BY <1>1, <1>2, <1>3, <1>4, <1>5, <1>6, <1>7 DEF Call

\* A thread outside xrp_wait and xrp_wait_any has no array.
LEMMA CallOut ==
  ASSUME NEW u \in Thread, caller'[u].at \in {"idle", "destroy", "join"},
         caller'[u].array = <<>>
  PROVE  Call(u)'
<1>1. At(u)' \in {"idle", "destroy", "join"}
  BY DEF At
<1> QED
  BY <1>1 DEF Call, InAny

\* The steps of a thread that is in no call yet.
LEMMA StartCall ==
  ASSUME IndInv, NEW t \in Thread, Start(t), NEW u \in Thread
  PROVE  Call(u)'
<1>0. /\ TypeOK /\ Requests /\ EventStates /\ EventRefs /\ QueueRefs /\ Calls /\ Call(u)
      /\ Call(t)
  BY DEF IndInv, Calls
<1>1. At(u) = "link" =>
        \A j \in Index : j >= caller[u].i => links[u][j] = NoLink
  BY <1>0 DEF Call
<1>2. ASSUME NEW c \in Cmd, Enqueue(t, c)
      PROVE  Call(u)'
  <2>1. group' = group /\ links' = links
    BY <1>0, <1>2, PushFields
  <2>2. /\ caller'[u].at = caller[u].at
        /\ caller'[u].array = caller[u].array /\ caller'[u].i = caller[u].i
        /\ caller'[u].n = caller[u].n /\ caller[u].holds \subseteq caller'[u].holds
    BY <1>0, <1>2, PushHolds
  <2> QED
    BY <1>0, <1>1, <2>1, <2>2, CallKept DEF At
<1>3. ASSUME NEW c \in Cmd, StartWait(t, c)
      PROVE  Call(u)'
  <2>1. /\ PutCaller(t, "wait", caller[t].keeps, caller[t].holds, <<c>>,
                     caller[t].i, caller[t].n, caller[t].rv)
        /\ group' = group /\ links' = links /\ c \in caller[t].holds
    BY <1>0, <1>3, StartWaitEffect DEF StartWait
  <2>2. CASE u = t
    <3>1. At(u)' = "wait" /\ caller'[u].array = <<c>> /\ c \in caller'[u].holds
      BY <2>1, <2>2 DEF PutCaller, At
    <3> QED
      BY <3>1 DEF Call, InAny
  <2>3. CASE u # t
    BY <1>0, <1>1, <2>1, <2>3, CallKept DEF PutCaller, At
  <2> QED
    BY <2>2, <2>3
<1>4. ASSUME NEW c \in Cmd, ReleaseEvent(t, c)
      PROVE  Call(u)'
  <2>1. /\ caller'[t].at \in {"idle", "destroy"} /\ caller'[t].array = caller[t].array
        /\ \A w \in Thread : w # t => caller'[w] = caller[w]
    <3>1. CASE event[c].ref = 1
      BY <1>0, <1>4, <3>1, ReleaseLastEffect DEF PutCaller
    <3>2. CASE event[c].ref # 1
      BY <1>0, <1>4, <3>2, ReleaseEffect DEF PutCaller, ReleaseEvent, At
    <3> QED
      BY <3>1, <3>2
  <2>2. group' = group /\ links' = links /\ At(t) = "idle"
    BY <1>4 DEF ReleaseEvent
  <2>3. CASE u = t
    BY <1>0, <2>1, <2>2, <2>3, CallOut DEF Call
  <2>4. CASE u # t
    BY <1>0, <1>1, <2>1, <2>2, <2>4, CallKept DEF At
  <2> QED
    BY <2>3, <2>4
<1>5. ASSUME NEW c \in Cmd, NEW w \in Thread, Share(t, w, c)
      PROVE  Call(u)'
  <2>1. PutCaller(w, caller[w].at, caller[w].keeps, caller[w].holds \cup {c},
                  caller[w].array, caller[w].i, caller[w].n, caller[w].rv)
    BY <1>0, <1>5, ShareEffect
  <2>2. /\ caller'[u].at = caller[u].at
        /\ caller'[u].array = caller[u].array /\ caller'[u].i = caller[u].i
        /\ caller'[u].n = caller[u].n /\ caller[u].holds \subseteq caller'[u].holds
    <3>1. CASE u = w
      BY <2>1, <3>1 DEF PutCaller
    <3>2. CASE u # w
      BY <2>1, <3>2 DEF PutCaller
    <3> QED
      BY <3>1, <3>2
  <2>3. group' = group /\ links' = links
    BY <1>5 DEF Share
  <2> QED
    BY <1>0, <1>1, <2>2, <2>3, CallKept DEF At
<1>6. CASE ReleaseQueue(t)
  <2>1. /\ caller'[t].at \in {"idle", "destroy"} /\ caller'[t].array = caller[t].array
        /\ \A w \in Thread : w # t => caller'[w] = caller[w]
    BY <1>0, <1>6, ReleaseQueueEffect DEF PutCaller
  <2>2. group' = group /\ links' = links /\ At(t) = "idle"
    BY <1>6 DEF ReleaseQueue
  <2>3. CASE u = t
    BY <1>0, <2>1, <2>2, <2>3, CallOut DEF Call
  <2>4. CASE u # t
    BY <1>0, <1>1, <2>1, <2>2, <2>4, CallKept DEF At
  <2> QED
    BY <2>3, <2>4
<1>7. ASSUME NEW a \in Arrays, StartWaitAny(t, a)
      PROVE  Call(u)'
  <2>1. PutCaller(t, "link", caller[t].keeps, caller[t].holds, a, 1, Len(a), Len(a) + 1)
    BY <1>0, <1>7, StartWaitAnyEffect
  <2>2. /\ group' = [group EXCEPT ![t] = "PENDING"]
        /\ links' = [links EXCEPT ![t] = [i \in Index |-> NoLink]]
        /\ ToSet(a) \subseteq caller[t].holds
    BY <1>7 DEF StartWaitAny
  <2>3. /\ group'[t] = "PENDING" /\ \A j \in Index : links'[t][j] = NoLink
        /\ u # t => group'[u] = group[u] /\ links'[u] = links[u]
    BY <1>0, <2>2, TypeSets
  <2>4. CASE u = t
    <3>1. /\ At(u)' = "link" /\ caller'[u].array = a /\ caller'[u].i = 1
          /\ caller'[u].n = Len(a) /\ caller'[u].holds = caller[u].holds
      BY <2>1, <2>4 DEF PutCaller, At
    <3>2. Len(a) \in Nat /\ Len(a) >= 1
      BY <1>7, ArrayFacts DEF Index
    <3>3. (InAny(u) => /\ caller[u].array \in Arrays
                       /\ ToSet(caller[u].array) \subseteq caller[u].holds
                       /\ caller[u].n <= Len(caller[u].array))'
      <4>1. /\ a \in Arrays /\ ToSet(a) \subseteq caller'[u].holds
            /\ caller'[u].n <= Len(a)
        BY <2>2, <2>4, <3>1, <3>2
      <4> QED
        BY <3>1, <4>1 DEF Arrays, ToSet, IsInjective, Index
    <3>4. (/\ caller[u].i \in 1 .. caller[u].n
           /\ \A j \in Index : j >= caller[u].i => links[u][j] = NoLink)'
      BY <2>3, <2>4, <3>1, <3>2
    <3>5. (caller[u].n = Len(caller[u].array))'
      BY <3>1
    <3>6. (group[u] \in Outcome \cup {"PENDING"})'
      BY <2>3, <2>4
    <3> QED
      BY <3>1, <3>3, <3>4, <3>5, <3>6 DEF Call
  <2>5. CASE u # t
    <3>1. caller'[u] = caller[u]
      BY <2>1, <2>5 DEF PutCaller
    <3> QED
      BY <1>0, <1>1, <2>3, <2>5, <3>1, CallKept DEF At
  <2> QED
    BY <2>4, <2>5
<1> QED
  BY <1>2, <1>3, <1>4, <1>5, <1>6, <1>7 DEF Start

\* The next part of a call.
LEMMA ContinueCall ==
  ASSUME IndInv, NEW t \in Thread, Continue(t), NEW u \in Thread
  PROVE  Call(u)'
<1>0. /\ TypeOK /\ Requests /\ EventStates /\ EventRefs /\ QueueRefs /\ Calls /\ Call(u)
      /\ Call(t) /\ Chains
  BY DEF IndInv, Calls
<1>1. At(u) = "link" =>
        \A j \in Index : j >= caller[u].i => links[u][j] = NoLink
  BY <1>0 DEF Call
<1>2. CASE Wait(t)
  <2>1. group' = group /\ links' = links /\ At(t) = "wait"
    BY <1>2 DEF Wait
  <2>2. CASE event[caller[t].array[1]].st = "PENDING"
    <3>1. PutCaller(t, "waiting", caller[t].keeps, caller[t].holds,
                    caller[t].array, caller[t].i, caller[t].n, caller[t].rv)
      BY <1>0, <1>2, <2>2, SleepEffect
    <3>2. CASE u = t
      BY <1>0, <1>1, <2>1, <3>1, <3>2, CallKept DEF PutCaller, At
    <3>3. CASE u # t
      BY <1>0, <1>1, <2>1, <3>1, <3>3, CallKept DEF PutCaller, At
    <3> QED
      BY <3>2, <3>3
  <2>3. CASE event[caller[t].array[1]].st # "PENDING"
    <3>1. PutCaller(t, "idle", caller[t].keeps, caller[t].holds, <<>>,
                    caller[t].i, caller[t].n, caller[t].rv)
      BY <1>0, <1>2, <2>3, WokenEffect
    <3>2. CASE u = t
      BY <3>1, <3>2, CallOut DEF PutCaller
    <3>3. CASE u # t
      BY <1>0, <1>1, <2>1, <3>1, <3>3, CallKept DEF PutCaller, At
    <3> QED
      BY <3>2, <3>3
  <2> QED
    BY <2>2, <2>3
<1>3. CASE LinkEvent(t)
  <2>1. /\ group' = group /\ At(t) = "link" /\ InAny(t)
        /\ caller[t].array \in Arrays /\ caller[t].n = Len(caller[t].array)
        /\ ToSet(caller[t].array) \subseteq caller[t].holds
        /\ caller[t].i \in 1 .. caller[t].n
        /\ group[t] \in Outcome \cup {"PENDING"}
    BY <1>0, <1>3 DEF LinkEvent, Call, InAny
  <2>2. Len(caller[t].array) \in Nat
    BY <2>1, ArrayFacts DEF Index
  <2>3. CASE event[caller[t].array[caller[t].i]].st = "PENDING"
    <3>1. PutCaller(t, IF caller[t].i = caller[t].n THEN "gwait" ELSE "link",
                    caller[t].keeps, caller[t].holds, caller[t].array,
                    caller[t].i + 1, caller[t].n, caller[t].rv)
      BY <1>0, <1>3, <2>3, LinkEffect
    <3>2. ASSUME At(u) = "link", NEW j \in Index, j >= caller[u].i,
                 u = t => j # caller[t].i
          PROVE  links'[u][j] = NoLink
      BY <1>0, <1>3, <2>3, <3>2, TieFresh
    <3>3. CASE u = t
      <4>1. /\ At(u)' \in {"gwait", "link"} /\ caller'[u].array = caller[u].array
            /\ caller'[u].i = caller[u].i + 1 /\ caller'[u].n = caller[u].n
            /\ caller'[u].holds = caller[u].holds
            /\ At(u)' = "link" => caller[u].i # caller[u].n
        BY <3>1, <3>3 DEF PutCaller, At
      <4>2. (InAny(u) => /\ caller[u].array \in Arrays
                         /\ ToSet(caller[u].array) \subseteq caller[u].holds
                         /\ caller[u].n <= Len(caller[u].array))'
        <5>1. /\ caller[u].array \in Arrays /\ ToSet(caller[u].array) \subseteq caller'[u].holds
              /\ caller'[u].n <= Len(caller[u].array)
          BY <2>1, <2>2, <3>3, <4>1
        <5> QED
          BY <4>1, <5>1 DEF Arrays, ToSet, IsInjective, Index
      <4>3. (At(u) = "link" =>
               /\ caller[u].i \in 1 .. caller[u].n
               /\ \A j \in Index : j >= caller[u].i => links[u][j] = NoLink)'
        <5> SUFFICES ASSUME At(u)' = "link"
                     PROVE  /\ caller[u].i + 1 \in 1 .. caller[u].n
                            /\ \A j \in Index : j >= caller[u].i + 1 =>
                                                  links'[u][j] = NoLink
          BY <4>1
        <5>1. caller[u].i + 1 \in 1 .. caller[u].n
          BY <2>1, <2>2, <3>3, <4>1
        <5>2. ASSUME NEW j \in Index, j >= caller[u].i + 1
              PROVE  links'[u][j] = NoLink
          BY <2>1, <2>2, <3>2, <3>3, <5>2 DEF Index
        <5> QED
          BY <5>1, <5>2
      <4>4. (caller[u].n = Len(caller[u].array))'
        BY <2>1, <3>3, <4>1
      <4>5. (group[u] \in Outcome \cup {"PENDING"})'
        BY <2>1, <3>3
      <4> QED
        BY <4>1, <4>2, <4>3, <4>4, <4>5 DEF Call
    <3>4. CASE u # t
      <4>1. At(u) = "link" =>
              \A j \in Index : j >= caller[u].i => links'[u][j] = NoLink
        BY <3>2, <3>4
      <4> QED
        BY <1>0, <2>1, <3>1, <3>4, <4>1, CallKept DEF PutCaller, At
    <3> QED
      BY <3>3, <3>4
  <2>4. CASE event[caller[t].array[caller[t].i]].st # "PENDING"
    <3>1. /\ PutCaller(t, "unlink", caller[t].keeps, caller[t].holds,
                       caller[t].array, 1, caller[t].i - 1, caller[t].i)
          /\ links' = links
      BY <1>0, <1>3, <2>4, FoundEffect
    <3>2. CASE u = t
      <4>1. /\ At(u)' = "unlink" /\ caller'[u].array = caller[u].array
            /\ caller'[u].i = 1 /\ caller'[u].n = caller[u].i - 1
            /\ caller'[u].holds = caller[u].holds
        BY <3>1, <3>2 DEF PutCaller, At
      <4>2. (InAny(u) => /\ caller[u].array \in Arrays
                         /\ ToSet(caller[u].array) \subseteq caller[u].holds
                         /\ caller[u].n <= Len(caller[u].array))'
        <5>1. /\ caller[u].array \in Arrays /\ ToSet(caller[u].array) \subseteq caller'[u].holds
              /\ caller'[u].n <= Len(caller[u].array)
          BY <2>1, <2>2, <3>2, <4>1
        <5> QED
          BY <4>1, <5>1 DEF Arrays, ToSet, IsInjective, Index
      <4>3. (caller[u].i \in 1 .. caller[u].n + 1)'
        BY <2>1, <2>2, <3>2, <4>1
      <4> QED
        BY <4>1, <4>2, <4>3 DEF Call
    <3>3. CASE u # t
      BY <1>0, <1>1, <2>1, <3>1, <3>3, CallKept DEF PutCaller, At
    <3> QED
      BY <3>2, <3>3
  <2> QED
    BY <2>3, <2>4
<1>4. CASE WaitGroup(t)
  <2>1. group' = group /\ links' = links /\ At(t) = "gwait"
    BY <1>4 DEF WaitGroup
  <2>2. CASE group[t] = "PENDING"
    <3>1. PutCaller(t, "gwaiting", caller[t].keeps, caller[t].holds,
                    caller[t].array, caller[t].i, caller[t].n, caller[t].rv)
      BY <1>0, <1>4, <2>2, GroupSleepEffect
    <3>2. CASE u = t
      BY <1>0, <1>1, <2>1, <3>1, <3>2, CallKept DEF PutCaller, At
    <3>3. CASE u # t
      BY <1>0, <1>1, <2>1, <3>1, <3>3, CallKept DEF PutCaller, At
    <3> QED
      BY <3>2, <3>3
  <2>3. CASE group[t] # "PENDING"
    <3>1. PutCaller(t, "unlink", caller[t].keeps, caller[t].holds,
                    caller[t].array, 1, caller[t].n, caller[t].rv)
      BY <1>0, <1>4, <2>3, GroupWokenEffect
    <3>2. CASE u = t
      <4>1. /\ At(u)' = "unlink" /\ caller'[u].array = caller[u].array
            /\ caller'[u].i = 1 /\ caller'[u].n = caller[u].n
            /\ caller'[u].holds = caller[u].holds
        BY <3>1, <3>2 DEF PutCaller, At
      <4>2. /\ caller[u].array \in Arrays /\ ToSet(caller[u].array) \subseteq caller[u].holds
            /\ caller[u].n <= Len(caller[u].array)
        BY <1>0, <2>1, <3>2 DEF Call, InAny
      <4>3. (InAny(u) => /\ caller[u].array \in Arrays
                         /\ ToSet(caller[u].array) \subseteq caller[u].holds
                         /\ caller[u].n <= Len(caller[u].array))'
        BY <4>1, <4>2 DEF Arrays, ToSet, IsInjective, Index
      <4>4. (caller[u].i \in 1 .. caller[u].n + 1)'
        BY <1>0, <4>1, Fields
      <4> QED
        BY <4>1, <4>3, <4>4 DEF Call
    <3>3. CASE u # t
      BY <1>0, <1>1, <2>1, <3>1, <3>3, CallKept DEF PutCaller, At
    <3> QED
      BY <3>2, <3>3
  <2> QED
    BY <2>2, <2>3
<1>5. CASE UnlinkEvent(t)
  <2>1. PutCaller(t, caller[t].at, caller[t].keeps, caller[t].holds,
                  caller[t].array, caller[t].i + 1, caller[t].n, Found(t))
    BY <1>0, <1>5, UnlinkEffect
  <2>2. group' = group /\ At(t) = "unlink" /\ caller[t].i <= caller[t].n
    BY <1>5 DEF UnlinkEvent, UnlinkWith
  <2>3. CASE u = t
    <3>1. /\ At(u)' = "unlink" /\ caller'[u].array = caller[u].array
          /\ caller'[u].i = caller[u].i + 1 /\ caller'[u].n = caller[u].n
          /\ caller'[u].holds = caller[u].holds
      BY <2>1, <2>2, <2>3 DEF PutCaller, At
    <3>2. /\ caller[u].array \in Arrays /\ ToSet(caller[u].array) \subseteq caller[u].holds
          /\ caller[u].n <= Len(caller[u].array)
      BY <1>0, <2>2, <2>3 DEF Call, InAny
    <3>3. (InAny(u) => /\ caller[u].array \in Arrays
                       /\ ToSet(caller[u].array) \subseteq caller[u].holds
                       /\ caller[u].n <= Len(caller[u].array))'
      BY <3>1, <3>2 DEF Arrays, ToSet, IsInjective, Index
    <3>4. (caller[u].i \in 1 .. caller[u].n + 1)'
      BY <1>0, <2>2, <2>3, <3>1, Fields
    <3> QED
      BY <3>1, <3>3, <3>4 DEF Call
  <2>4. CASE u # t
    <3>1. At(u) = "link" =>
            \A j \in Index : j >= caller[u].i => links'[u][j] = NoLink
      BY <1>0, <1>5, UntieFresh
    <3> QED
      BY <1>0, <2>1, <2>2, <2>4, <3>1, CallKept DEF PutCaller, At
  <2> QED
    BY <2>3, <2>4
<1>6. CASE WaitAnyReturn(t)
  <2>1. PutCaller(t, "idle", caller[t].keeps, caller[t].holds, <<>>, 1, 0, 0)
    BY <1>0, <1>6, ReturnEffect
  <2>2. u # t => group'[u] = group[u] /\ links'[u] = links[u]
    BY <1>0, <1>6, TypeSets DEF WaitAnyReturn
  <2>3. CASE u = t
    BY <2>1, <2>3, CallOut DEF PutCaller
  <2>4. CASE u # t
    BY <1>0, <1>1, <2>1, <2>2, <2>4, CallKept DEF PutCaller, At
  <2> QED
    BY <2>3, <2>4
<1>7. CASE Destroy(t) \/ Join(t)
  <2>1. /\ caller'[t].at \in {"idle", "join"} /\ caller'[t].array = caller[t].array
        /\ \A w \in Thread : w # t => caller'[w] = caller[w]
    <3>1. CASE Destroy(t)
      BY <1>0, <3>1, DestroyEffect DEF PutCaller
    <3>2. CASE Join(t)
      BY <1>0, <3>2, JoinEffect DEF PutCaller
    <3> QED
      BY <1>7, <3>1, <3>2
  <2>2. group' = group /\ links' = links /\ At(t) \in {"destroy", "join"}
    BY <1>7 DEF Destroy, DestroyWith, Join
  <2>3. CASE u = t
    BY <1>0, <2>1, <2>2, <2>3, CallOut DEF Call
  <2>4. CASE u # t
    BY <1>0, <1>1, <2>1, <2>2, <2>4, CallKept DEF At
  <2> QED
    BY <2>3, <2>4
<1> QED
  BY <1>2, <1>3, <1>4, <1>5, <1>6, <1>7 DEF Continue

\* The worker wakes threads, and leaves their calls alone.
LEMMA WorkCall ==
  ASSUME IndInv, Work, NEW u \in Thread
  PROVE  Call(u)'
<1>0. /\ TypeOK /\ Requests /\ EventStates /\ EventRefs /\ QueueRefs /\ Calls /\ Call(u)
  BY DEF IndInv, Calls
<1>1. At(u) = "link" =>
        \A j \in Index : j >= caller[u].i => links[u][j] = NoLink
  BY <1>0 DEF Call
<1>2. CASE UNCHANGED <<caller, group, links>>
  BY <1>0, <1>1, <1>2, CallKept DEF At
<1>3. CASE Dequeue
  BY <1>0, <1>2, <1>3, DequeueFields
<1>4. ASSUME NEW s \in Outcome, Run(s) PROVE Call(u)'
  BY <1>0, <1>2, <1>4, RunFields
<1>5. CASE WalkEnd
  BY <1>0, <1>2, <1>5, WalkEndFields
<1>6. CASE DropEvent
  BY <1>0, <1>2, <1>6, DropFields
<1>7. CASE Signal
  <2>1. group' = group /\ links' = links
    BY <1>0, <1>7, SignalFields
  <2>2. /\ caller'[u].at = At(u) \/ (At(u) = "waiting" /\ caller'[u].at = "wait")
        /\ caller'[u].holds = caller[u].holds
        /\ caller'[u].array = caller[u].array
        /\ caller'[u].i = caller[u].i /\ caller'[u].n = caller[u].n
    BY <1>0, <1>7, SignalFields
  <2>3. \/ caller'[u].at = At(u)
        \/ {caller'[u].at, At(u)} \subseteq {"wait", "waiting"}
    BY <2>2
  <2> QED
    BY <1>0, <1>1, <2>1, <2>2, <2>3, CallKept
<1>8. CASE WalkGroup
  <2>1. links' = links /\ worker.st \in Outcome
    BY <1>0, <1>8, WalkFields
  <2>2. /\ group'[u] = IF u = worker.gp THEN worker.st ELSE group[u]
        /\ caller'[u].at = IF u = worker.gp /\ At(u) = "gwaiting"
                             THEN "gwait" ELSE At(u)
        /\ caller'[u].holds = caller[u].holds
        /\ caller'[u].array = caller[u].array
        /\ caller'[u].i = caller[u].i /\ caller'[u].n = caller[u].n
    BY <1>0, <1>8, WalkFields
  <2>3. /\ \/ caller'[u].at = At(u)
           \/ {caller'[u].at, At(u)} \subseteq {"gwait", "gwaiting"}
        /\ group'[u] = group[u] \/ group'[u] \in Outcome
    BY <2>1, <2>2
  <2> QED
    BY <1>0, <1>1, <2>1, <2>2, <2>3, CallKept
<1> QED
  BY <1>3, <1>4, <1>5, <1>6, <1>7, <1>8 DEF Work

\* Every call goes on as its variables say.
LEMMA CallsStep ==
  ASSUME IndInv, Next
  PROVE  Calls'
<1> SUFFICES ASSUME NEW u \in Thread
             PROVE  Call(u)'
  BY DEF Calls
<1>1. CASE Finished
  <2>1. Call(u) /\ UNCHANGED vars
    BY <1>1 DEF IndInv, Calls, Finished
  <2>2. At(u) = "link" =>
          \A j \in Index : j >= caller[u].i => links[u][j] = NoLink
    BY <2>1 DEF Call
  <2> QED
    BY <2>1, <2>2, CallKept DEF vars, At
<1> QED
  BY <1>1, StartCall, ContinueCall, WorkCall DEF Next

\* A command that has come to its end stays so.
LEMMA CompleteStep ==
  ASSUME IndInv, Next, NEW c \in Cmd, event[c].st \in Outcome
  PROVE  event'[c].st \in Outcome
<1>0. /\ TypeOK /\ Requests /\ EventStates /\ EventRefs /\ QueueRefs
  BY DEF IndInv
<1>1. CASE Quiet
  BY <1>1 DEF Quiet
<1>2. ASSUME NEW t \in Thread, NEW d \in Cmd, Enqueue(t, d)
      PROVE  event'[c].st \in Outcome
  <2>1. c # d
    BY <1>0, <1>2, PushFields, QueueAssumption
  <2>2. event'[c] = event[c]
    BY <1>0, <1>2, <2>1, PushHolds
  <2> QED
    BY <2>2
<1>3. CASE Dequeue \/ (\E s \in Outcome : Run(s)) \/ WalkGroup \/ WalkEnd
  BY <1>3 DEF Dequeue, DequeueFrom, Run, WalkGroup, WalkEnd
<1>4. CASE Signal
  <2>1. PutEvent(worker.cur, worker.st, event[worker.cur].ref,
                 event[worker.cur].group, event[worker.cur].link)
        /\ worker.st \in Outcome
    BY <1>0, <1>4, SignalEffect
  <2> QED
    BY <2>1 DEF PutEvent
<1>5. CASE DropEvent
  BY <1>0, <1>5, DropFields
<1> QED
  BY <1>1, <1>2, <1>3, <1>4, <1>5, QuietCases

\* A thread whose call a step leaves alone, but for a broadcast.
LEMMA NoticedKept ==
  ASSUME IndInv, Next, NEW u \in Thread,
         caller'[u].array = caller[u].array, caller'[u].i = caller[u].i,
         caller'[u].n = caller[u].n, caller'[u].rv = caller[u].rv,
         \/ caller'[u].at = At(u)
         \/ {caller'[u].at, At(u)} \subseteq {"gwait", "gwaiting"}
         \/ {caller'[u].at, At(u)} \subseteq {"wait", "waiting"},
         \/ group'[u] = group[u]
         \/ \E j \in LinkedAt(u) : Completed(u, j)
  PROVE  Noticed(u)'
<1>0. TypeOK /\ Call(u) /\ Noticed(u)
  BY DEF IndInv, Calls, AllNoticed
<1>1. LinkedAt(u)' = LinkedAt(u)
  BY DEF LinkedAt, At
<1>2. ASSUME NEW j \in 1 .. Len(caller[u].array), InAny(u), Completed(u, j)
      PROVE  Completed(u, j)'
  <2>1. caller[u].array[j] \in Cmd
    BY <1>0, <1>2, CallFacts
  <2>2. event'[caller[u].array[j]].st \in Outcome
    BY <1>2, <2>1, CompleteStep DEF Completed, Complete
  <2> QED
    BY <2>2 DEF Completed, Complete
<1>3. InAny(u) => LinkedAt(u) \subseteq 1 .. Len(caller[u].array)
  BY <1>0, CallFacts
<1>4. ASSUME At(u)' \in {"link", "gwait", "gwaiting"}, group'[u] \in Outcome
      PROVE  \E j \in LinkedAt(u)' : Completed(u, j)'
  <2>1. At(u) \in {"link", "gwait", "gwaiting"} /\ InAny(u)
    BY <1>4 DEF At, InAny
  <2>2. \E j \in LinkedAt(u) : Completed(u, j)
    BY <1>0, <1>4, <2>1 DEF Noticed
  <2> QED
    BY <1>1, <1>2, <1>3, <2>1, <2>2
<1>5. ASSUME At(u)' = "unlink"
      PROVE  \/ (caller[u].rv \in 1 .. Len(caller[u].array) /\ Completed(u, caller[u].rv))'
             \/ \E j \in LinkedAt(u)' : Completed(u, j)'
  <2>1. At(u) = "unlink" /\ InAny(u)
    BY <1>5 DEF At, InAny
  <2>2. \/ caller[u].rv \in 1 .. Len(caller[u].array) /\ Completed(u, caller[u].rv)
        \/ \E j \in LinkedAt(u) : Completed(u, j)
    BY <1>0, <2>1 DEF Noticed
  <2>3. CASE caller[u].rv \in 1 .. Len(caller[u].array) /\ Completed(u, caller[u].rv)
    <3>1. event'[caller[u].array[caller[u].rv]].st \in Outcome
      <4>1. caller[u].array[caller[u].rv] \in Cmd
        BY <1>0, <2>1, <2>3, CallFacts
      <4> QED
        BY <2>3, <4>1, CompleteStep DEF Completed, Complete
    <3> QED
      BY <2>3, <3>1 DEF Completed, Complete
  <2>4. CASE \E j \in LinkedAt(u) : Completed(u, j)
    BY <1>1, <1>2, <1>3, <2>1, <2>4
  <2> QED
    BY <2>2, <2>3, <2>4
<1> QED
  BY <1>4, <1>5 DEF Noticed, Completed, Complete

\* A thread that is not linked up, or whose group was not signalled.
LEMMA NoticedOut ==
  ASSUME NEW u \in Thread, caller'[u].at # "unlink",
         caller'[u].at \notin {"link", "gwait", "gwaiting"} \/ group'[u] \notin Outcome
  PROVE  Noticed(u)'
  BY DEF Noticed, At

\* A step of the worker: a group is signalled for an event that is complete.
LEMMA WorkNoticed ==
  ASSUME IndInv, Next, Work, NEW u \in Thread
  PROVE  Noticed(u)'
<1>0. /\ TypeOK /\ Requests /\ EventStates /\ EventRefs /\ QueueRefs /\ Calls
      /\ Cursor
  BY DEF IndInv
<1>2. CASE UNCHANGED <<caller, group>>
  BY <1>2, NoticedKept DEF At
<1>3. CASE Dequeue
  BY <1>0, <1>2, <1>3, DequeueFields
<1>4. ASSUME NEW s \in Outcome, Run(s) PROVE Noticed(u)'
  BY <1>0, <1>2, <1>4, RunFields
<1>5. CASE WalkEnd
  BY <1>0, <1>2, <1>5, WalkEndFields
<1>6. CASE DropEvent
  BY <1>0, <1>2, <1>6, DropFields
<1>7. CASE Signal
  <2>1. group' = group
    BY <1>0, <1>7, SignalFields
  <2>2. /\ caller'[u].at = At(u) \/ (At(u) = "waiting" /\ caller'[u].at = "wait")
        /\ caller'[u].array = caller[u].array /\ caller'[u].rv = caller[u].rv
        /\ caller'[u].i = caller[u].i /\ caller'[u].n = caller[u].n
    BY <1>0, <1>7, SignalFields
  <2>3. \/ caller'[u].at = At(u)
        \/ {caller'[u].at, At(u)} \subseteq {"wait", "waiting"}
    BY <2>2
  <2> QED
    BY <2>1, <2>2, <2>3, NoticedKept
<1>8. CASE WalkGroup
  <2>1. worker.at = "walk" /\ worker.lk \in Link
    BY <1>0, <1>8, WalkFields
  <2>2. /\ group'[u] = IF u = worker.gp THEN worker.st ELSE group[u]
        /\ caller'[u].at = IF u = worker.gp /\ At(u) = "gwaiting"
                             THEN "gwait" ELSE At(u)
        /\ caller'[u].array = caller[u].array /\ caller'[u].rv = caller[u].rv
        /\ caller'[u].i = caller[u].i /\ caller'[u].n = caller[u].n
    BY <1>0, <1>8, WalkFields
  <2>3. u = worker.gp => \E j \in LinkedAt(u) : Completed(u, j)
    <3> SUFFICES ASSUME u = worker.gp
                 PROVE  \E j \in LinkedAt(u) : Completed(u, j)
      OBVIOUS
    <3> DEFINE c == worker.cur
    <3>1. c \in Cmd /\ Complete(c)
      BY <1>0, <2>1, AskedLive DEF EventStates
    <3>2. PICK s \in Seq(Link) :
            /\ Follows(c, s)
            /\ \E k \in 1 .. Len(s) + 1 : /\ worker.lk = LinkOf(s, k)
                                          /\ worker.gp = GroupOf(s, k)
      BY <1>0, <2>1, <3>1 DEF Cursor, Locked
    <3>3. PICK k \in 1 .. Len(s) + 1 : /\ worker.lk = LinkOf(s, k)
                                       /\ worker.gp = GroupOf(s, k)
      BY <3>2
    <3>4. worker.lk # Nil
      BY <2>1, QueueAssumption DEF Link, Index
    <3>5. k \in 1 .. Len(s) /\ worker.gp = s[k][1]
      BY <3>3, <3>4, LinkOfFacts
    <3>6. /\ s[k][2] \in LinkedAt(s[k][1])
          /\ caller[s[k][1]].array[s[k][2]] = c
      BY <3>1, <3>2, <3>5, ChainAt
    <3> QED
      BY <3>1, <3>5, <3>6 DEF Completed
  <2>4. \/ caller'[u].at = At(u)
        \/ {caller'[u].at, At(u)} \subseteq {"gwait", "gwaiting"}
    BY <2>2
  <2>5. \/ group'[u] = group[u]
        \/ \E j \in LinkedAt(u) : Completed(u, j)
    BY <2>2, <2>3
  <2> QED
    BY <2>2, <2>4, <2>5, NoticedKept
<1> QED
  BY <1>3, <1>4, <1>5, <1>6, <1>7, <1>8 DEF Work

\* A part of a call of xrp_wait_any: what it knows of a complete event it keeps.
LEMMA ContinueNoticed ==
  ASSUME IndInv, Next, NEW t \in Thread, Continue(t), NEW u \in Thread
  PROVE  Noticed(u)'
<1>0. /\ TypeOK /\ Requests /\ EventStates /\ EventRefs /\ QueueRefs /\ Calls
      /\ Call(t) /\ Noticed(t)
  BY DEF IndInv, Calls, AllNoticed
<1>1. ASSUME caller'[u] = caller[u], group'[u] = group[u]
      PROVE  Noticed(u)'
  BY <1>1, NoticedKept DEF At
<1>2. CASE Wait(t)
  <2>1. group' = group
    BY <1>2 DEF Wait
  <2>2. CASE event[caller[t].array[1]].st = "PENDING"
    <3>1. PutCaller(t, "waiting", caller[t].keeps, caller[t].holds,
                    caller[t].array, caller[t].i, caller[t].n, caller[t].rv)
      BY <1>0, <1>2, <2>2, SleepEffect
    <3> QED
      BY <1>1, <2>1, <3>1, NoticedOut DEF PutCaller
  <2>3. CASE event[caller[t].array[1]].st # "PENDING"
    <3>1. PutCaller(t, "idle", caller[t].keeps, caller[t].holds, <<>>,
                    caller[t].i, caller[t].n, caller[t].rv)
      BY <1>0, <1>2, <2>3, WokenEffect
    <3> QED
      BY <1>1, <2>1, <3>1, NoticedOut DEF PutCaller
  <2> QED
    BY <2>2, <2>3
<1>3. CASE LinkEvent(t)
  <2>1. /\ group' = group /\ At(t) = "link" /\ InAny(t)
        /\ caller[t].i \in 1 .. caller[t].n /\ caller[t].n = Len(caller[t].array)
        /\ caller[t].array[caller[t].i] \in Cmd
        /\ caller[t].array[caller[t].i] \in caller[t].holds
    <3>1. group' = group /\ At(t) = "link" /\ InAny(t)
      BY <1>3 DEF LinkEvent, InAny
    <3>2. caller[t].i \in 1 .. caller[t].n /\ caller[t].n = Len(caller[t].array)
      BY <1>0, <3>1 DEF Call
    <3> QED
      BY <1>0, <3>1, <3>2, CallFacts
  <2>2. CASE event[caller[t].array[caller[t].i]].st = "PENDING"
    <3>1. PutCaller(t, IF caller[t].i = caller[t].n THEN "gwait" ELSE "link",
                    caller[t].keeps, caller[t].holds, caller[t].array,
                    caller[t].i + 1, caller[t].n, caller[t].rv)
      BY <1>0, <1>3, <2>2, LinkEffect
    <3>2. CASE u = t
      <4>1. LinkedAt(t)' = LinkedAt(t) \cup {caller[t].i}
        BY <1>0, <1>3, <2>2, TieNext
      <4>2. /\ At(u)' \in {"link", "gwait"} /\ caller'[u].array = caller[u].array
            /\ group'[u] = group[u]
        BY <2>1, <3>1, <3>2 DEF PutCaller, At
      <4>3. ASSUME group'[u] \in Outcome
            PROVE  \E j \in LinkedAt(u)' : Completed(u, j)'
        <5>1. PICK j \in LinkedAt(u) : Completed(u, j)
          BY <1>0, <2>1, <3>2, <4>2, <4>3 DEF Noticed
        <5>2. caller[u].array[j] \in Cmd
          BY <1>0, <2>1, <3>2, <5>1, CallFacts
        <5>3. event'[caller[u].array[j]].st \in Outcome
          BY <5>1, <5>2, CompleteStep DEF Completed, Complete
        <5>4. Completed(u, j)'
          BY <4>2, <5>3 DEF Completed, Complete
        <5> QED
          BY <3>2, <4>1, <5>1, <5>4
      <4> QED
        BY <4>2, <4>3 DEF Noticed
    <3>3. CASE u # t
      BY <1>1, <2>1, <3>1, <3>3 DEF PutCaller
    <3> QED
      BY <3>2, <3>3
  <2>3. CASE event[caller[t].array[caller[t].i]].st # "PENDING"
    <3>1. /\ PutCaller(t, "unlink", caller[t].keeps, caller[t].holds,
                       caller[t].array, 1, caller[t].i - 1, caller[t].i)
          /\ event' = event
      BY <1>0, <1>3, <2>3, FoundEffect
    <3>2. CASE u = t
      <4>1. event[caller[t].array[caller[t].i]].st \in Outcome
        <5>1. event[caller[t].array[caller[t].i]].st # "NONE"
          BY <1>0, <2>1 DEF EventStates, Holders
        <5> QED
          BY <1>0, <2>1, <2>3, <5>1, Fields
      <4>2. /\ At(u)' = "unlink" /\ caller'[u].array = caller[u].array
            /\ caller'[u].rv = caller[u].i
        BY <3>1, <3>2 DEF PutCaller, At
      <4>3. (caller[u].rv \in 1 .. Len(caller[u].array) /\ Completed(u, caller[u].rv))'
        BY <2>1, <3>1, <3>2, <4>1, <4>2 DEF Completed, Complete
      <4> QED
        BY <4>2, <4>3 DEF Noticed
    <3>3. CASE u # t
      BY <1>1, <2>1, <3>1, <3>3 DEF PutCaller
    <3> QED
      BY <3>2, <3>3
  <2> QED
    BY <2>2, <2>3
<1>4. CASE WaitGroup(t)
  <2>1. /\ group' = group /\ At(t) = "gwait" /\ InAny(t) /\ UNCHANGED event
    BY <1>4 DEF WaitGroup, InAny
  <2>2. CASE group[t] = "PENDING"
    <3>1. PutCaller(t, "gwaiting", caller[t].keeps, caller[t].holds,
                    caller[t].array, caller[t].i, caller[t].n, caller[t].rv)
      BY <1>0, <1>4, <2>2, GroupSleepEffect
    <3>2. CASE u = t
      BY <2>1, <3>1, <3>2, NoticedKept DEF PutCaller
    <3>3. CASE u # t
      BY <1>1, <2>1, <3>1, <3>3 DEF PutCaller
    <3> QED
      BY <3>2, <3>3
  <2>3. CASE group[t] # "PENDING"
    <3>1. PutCaller(t, "unlink", caller[t].keeps, caller[t].holds,
                    caller[t].array, 1, caller[t].n, caller[t].rv)
      BY <1>0, <1>4, <2>3, GroupWokenEffect
    <3>2. CASE u = t
      <4>1. PICK j \in LinkedAt(u) : Completed(u, j)
        BY <1>0, <2>1, <2>3, <3>2 DEF Noticed, Call
      <4>2. /\ At(u)' = "unlink" /\ caller'[u].array = caller[u].array
            /\ caller'[u].i = 1 /\ caller'[u].n = caller[u].n
        BY <3>1, <3>2 DEF PutCaller, At
      <4>3. LinkedAt(u) = 1 .. caller[u].n
        BY <2>1, <3>2 DEF LinkedAt
      <4>4. LinkedAt(u)' = 1 .. caller[u].n
        BY <4>2 DEF LinkedAt
      <4>5. Completed(u, j)'
        BY <2>1, <4>1, <4>2 DEF Completed, Complete
      <4> QED
        BY <4>1, <4>2, <4>3, <4>4, <4>5 DEF Noticed
    <3>3. CASE u # t
      BY <1>1, <2>1, <3>1, <3>3 DEF PutCaller
    <3> QED
      BY <3>2, <3>3
  <2> QED
    BY <2>2, <2>3
<1>5. CASE UnlinkEvent(t)
  <2>1. PutCaller(t, caller[t].at, caller[t].keeps, caller[t].holds,
                  caller[t].array, caller[t].i + 1, caller[t].n, Found(t))
    BY <1>0, <1>5, UnlinkEffect
  <2>2. /\ group' = group /\ At(t) = "unlink" /\ InAny(t)
    BY <1>5 DEF UnlinkEvent, UnlinkWith, InAny
  <2>3. CASE u = t
    <3>1. /\ LinkedAt(u)' = LinkedAt(u) \ {caller[u].i}
          /\ caller[u].i \in 1 .. Len(caller[u].array)
      BY <1>0, <1>5, <2>3, UntieNext, UntieFields
    <3>2. /\ At(u)' = "unlink" /\ caller'[u].array = caller[u].array
          /\ caller'[u].rv = Found(u)
      BY <2>1, <2>2, <2>3 DEF PutCaller, At
    <3>3. ASSUME NEW j \in 1 .. Len(caller[u].array), Completed(u, j)
          PROVE  Completed(u, j)'
      <4>1. caller[u].array[j] \in Cmd
        BY <1>0, <2>2, <2>3, CallFacts
      <4>2. event'[caller[u].array[j]].st \in Outcome
        BY <3>3, <4>1, CompleteStep DEF Completed, Complete
      <4> QED
        BY <3>2, <4>2 DEF Completed, Complete
    <3>4. CASE event[caller[u].array[caller[u].i]].st # "PENDING"
      <4>1. /\ caller[u].array[caller[u].i] \in Cmd
            /\ caller[u].array[caller[u].i] \in caller[u].holds
        BY <1>0, <2>2, <2>3, <3>1, CallFacts
      <4>2. event[caller[u].array[caller[u].i]].st # "NONE"
        BY <1>0, <4>1 DEF EventStates, Holders
      <4>3. Completed(u, caller[u].i)
        BY <1>0, <3>4, <4>1, <4>2, Fields DEF Completed, Complete
      <4>4. event'[caller[u].array[caller[u].i]].st \in Outcome
        BY <4>1, <4>3, CompleteStep DEF Completed, Complete
      <4>5. caller'[u].rv = caller[u].i
        BY <3>2, <3>4 DEF Found
      <4>6. (caller[u].rv \in 1 .. Len(caller[u].array) /\ Completed(u, caller[u].rv))'
        BY <3>1, <3>2, <4>4, <4>5 DEF Completed, Complete
      <4> QED
        BY <3>2, <4>6 DEF Noticed
    <3>5. CASE event[caller[u].array[caller[u].i]].st = "PENDING"
      <4>1. caller'[u].rv = caller[u].rv
        BY <3>2, <3>5 DEF Found
      <4>2. \/ caller[u].rv \in 1 .. Len(caller[u].array) /\ Completed(u, caller[u].rv)
            \/ \E j \in LinkedAt(u) : Completed(u, j)
        BY <1>0, <2>2, <2>3 DEF Noticed
      <4>3. CASE caller[u].rv \in 1 .. Len(caller[u].array) /\ Completed(u, caller[u].rv)
        <5>1. caller[u].array[caller[u].rv] \in Cmd
          BY <1>0, <2>2, <2>3, <4>3, CallFacts
        <5>2. event'[caller[u].array[caller[u].rv]].st \in Outcome
          BY <4>3, <5>1, CompleteStep DEF Completed, Complete
        <5>3. (caller[u].rv \in 1 .. Len(caller[u].array) /\ Completed(u, caller[u].rv))'
          BY <3>2, <4>1, <4>3, <5>2 DEF Completed, Complete
        <5> QED
          BY <3>2, <5>3 DEF Noticed
      <4>4. CASE \E j \in LinkedAt(u) : Completed(u, j)
        <5>1. PICK j \in LinkedAt(u) : Completed(u, j)
          BY <4>4
        <5>2. j # caller[u].i
          BY <3>5, <5>1, QueueAssumption DEF Completed, Complete
        <5>3. j \in 1 .. Len(caller[u].array)
          BY <1>0, <2>2, <2>3, <5>1, CallFacts
        <5>4. Completed(u, j)'
          BY <3>3, <5>1, <5>3
        <5> QED
          BY <3>1, <3>2, <5>1, <5>2, <5>4 DEF Noticed
      <4> QED
        BY <4>2, <4>3, <4>4
    <3> QED
      BY <3>4, <3>5
  <2>4. CASE u # t
    BY <1>1, <2>1, <2>2, <2>4 DEF PutCaller
  <2> QED
    BY <2>3, <2>4
<1>6. CASE WaitAnyReturn(t)
  <2>1. PutCaller(t, "idle", caller[t].keeps, caller[t].holds, <<>>, 1, 0, 0)
    BY <1>0, <1>6, ReturnEffect
  <2>2. u # t => group'[u] = group[u]
    BY <1>0, <1>6, TypeSets DEF WaitAnyReturn
  <2> QED
    BY <1>1, <2>1, <2>2, NoticedOut DEF PutCaller
<1>7. CASE Destroy(t) \/ Join(t)
  <2>1. /\ caller'[t].at \in {"idle", "join"}
        /\ \A w \in Thread : w # t => caller'[w] = caller[w]
    <3>1. CASE Destroy(t)
      BY <1>0, <3>1, DestroyEffect DEF PutCaller
    <3>2. CASE Join(t)
      BY <1>0, <3>2, JoinEffect DEF PutCaller
    <3> QED
      BY <1>7, <3>1, <3>2
  <2>2. group' = group
    BY <1>7 DEF Destroy, DestroyWith, Join
  <2> QED
    BY <1>1, <2>1, <2>2, NoticedOut
<1> QED
  BY <1>2, <1>3, <1>4, <1>5, <1>6, <1>7 DEF Continue

\* A thread that is in no call yet has nothing to notice.
LEMMA StartNoticed ==
  ASSUME IndInv, Next, NEW t \in Thread, Start(t), NEW u \in Thread
  PROVE  Noticed(u)'
<1>0. /\ TypeOK /\ Requests /\ EventStates /\ EventRefs /\ QueueRefs /\ Calls
  BY DEF IndInv
<1>1. ASSUME caller'[u] = caller[u], group'[u] = group[u]
      PROVE  Noticed(u)'
  BY <1>1, NoticedKept DEF At
<1>2. ASSUME NEW c \in Cmd, Enqueue(t, c)
      PROVE  Noticed(u)'
  <2>1. group' = group
    BY <1>0, <1>2, PushFields
  <2>2. /\ caller'[u].at = caller[u].at
        /\ caller'[u].array = caller[u].array /\ caller'[u].i = caller[u].i
        /\ caller'[u].n = caller[u].n /\ caller'[u].rv = caller[u].rv
    BY <1>0, <1>2, PushHolds
  <2> QED
    BY <2>1, <2>2, NoticedKept DEF At
<1>3. ASSUME NEW c \in Cmd, StartWait(t, c)
      PROVE  Noticed(u)'
  <2>1. /\ PutCaller(t, "wait", caller[t].keeps, caller[t].holds, <<c>>,
                     caller[t].i, caller[t].n, caller[t].rv)
        /\ group' = group
    BY <1>0, <1>3, StartWaitEffect DEF StartWait
  <2> QED
    BY <1>1, <2>1, NoticedOut DEF PutCaller
<1>4. ASSUME NEW c \in Cmd, ReleaseEvent(t, c)
      PROVE  Noticed(u)'
  <2>1. /\ caller'[t].at \in {"idle", "destroy"}
        /\ \A w \in Thread : w # t => caller'[w] = caller[w]
    <3>1. CASE event[c].ref = 1
      BY <1>0, <1>4, <3>1, ReleaseLastEffect DEF PutCaller
    <3>2. CASE event[c].ref # 1
      BY <1>0, <1>4, <3>2, ReleaseEffect DEF PutCaller, ReleaseEvent, At
    <3> QED
      BY <3>1, <3>2
  <2>2. group' = group
    BY <1>4 DEF ReleaseEvent
  <2> QED
    BY <1>1, <2>1, <2>2, NoticedOut
<1>5. ASSUME NEW c \in Cmd, NEW w \in Thread, Share(t, w, c)
      PROVE  Noticed(u)'
  <2>1. PutCaller(w, caller[w].at, caller[w].keeps, caller[w].holds \cup {c},
                  caller[w].array, caller[w].i, caller[w].n, caller[w].rv)
    BY <1>0, <1>5, ShareEffect
  <2>2. group' = group /\ At(w) = "idle"
    BY <1>5 DEF Share
  <2> QED
    BY <1>1, <2>1, <2>2, NoticedOut DEF PutCaller, At
<1>6. CASE ReleaseQueue(t)
  <2>1. /\ caller'[t].at \in {"idle", "destroy"}
        /\ \A w \in Thread : w # t => caller'[w] = caller[w]
    BY <1>0, <1>6, ReleaseQueueEffect DEF PutCaller
  <2>2. group' = group
    BY <1>6 DEF ReleaseQueue
  <2> QED
    BY <1>1, <2>1, <2>2, NoticedOut
<1>7. ASSUME NEW a \in Arrays, StartWaitAny(t, a)
      PROVE  Noticed(u)'
  <2>1. PutCaller(t, "link", caller[t].keeps, caller[t].holds, a, 1, Len(a), Len(a) + 1)
    BY <1>0, <1>7, StartWaitAnyEffect
  <2>2. group'[t] = "PENDING" /\ (u # t => group'[u] = group[u])
    BY <1>0, <1>7, TypeSets DEF StartWaitAny
  <2>3. "PENDING" \notin Outcome
    BY QueueAssumption
  <2> QED
    BY <1>1, <2>1, <2>2, <2>3, NoticedOut DEF PutCaller
<1> QED
  BY <1>2, <1>3, <1>4, <1>5, <1>6, <1>7 DEF Start

\* Whoever is woken for an event still finds one that is complete.
LEMMA AllNoticedStep ==
  ASSUME IndInv, Next
  PROVE  AllNoticed'
<1> SUFFICES ASSUME NEW u \in Thread
             PROVE  Noticed(u)'
  BY DEF AllNoticed
<1>1. CASE Finished
  BY <1>1, NoticedKept DEF Finished, vars, At
<1> QED
  BY <1>1, StartNoticed, ContinueNoticed, WorkNoticed DEF Next

\* At the start nobody holds an event and nothing is queued.
LEMMA IndInit ==
  ASSUME Init
  PROVE  IndInv
<1>0. /\ queue.list = <<>> /\ ran = <<>> /\ worker.at = "look" /\ worker.cur = Nil
      /\ queue.ref = Cardinality(Thread) /\ queue.freed = FALSE
      /\ \A c \in Cmd : /\ event[c].st = "NONE" /\ event[c].ref = 0
                        /\ event[c].group = Nil /\ event[c].link = Nil
      /\ \A t \in Thread : /\ At(t) = "idle" /\ caller[t].keeps = TRUE
                           /\ caller[t].holds = {} /\ caller[t].array = <<>>
  BY DEF Init, At
<1>1. TypeOK
  BY TypeInit
<1>2. ToSet(queue.list) = {} /\ ToSet(ran) = {}
  BY <1>0 DEF ToSet
<1>3. Requests
  BY <1>0, <1>2, QueueAssumption DEF Requests, Distinct
<1>4. \A c \in Cmd : Holders(c) = {}
  BY <1>0 DEF Holders
<1>5. EventStates
  BY <1>0, <1>2, <1>4, QueueAssumption DEF EventStates
<1>6. Calls
  BY <1>0 DEF Calls, Call, InAny
<1>7. EventRefs
  <2>1. Asked = {}
    BY <1>0, <1>2 DEF Asked
  <2>2. \A c \in Cmd : AskedRef(c) = 0
    BY <2>1 DEF AskedRef
  <2>3. Cardinality({}) = 0
    BY FS_EmptySet
  <2>4. ASSUME NEW c \in Cmd
        PROVE  event[c].ref = Cardinality(Holders(c)) + AskedRef(c)
    <3>1. event[c].ref = 0 /\ Holders(c) = {} /\ AskedRef(c) = 0
      BY <1>0, <1>4, <2>2
    <3>2. Cardinality(Holders(c)) = 0
      BY <2>3, <3>1
    <3> QED
      BY <3>1, <3>2
  <2> QED
    BY <2>4 DEF EventRefs
<1>8. QueueRefs
  <2>1. LiveEvents = {}
    BY <1>0 DEF LiveEvents
  <2>2. Keepers = Thread
    BY <1>0 DEF Keepers
  <2>3. Cardinality({}) = 0 /\ IsFiniteSet({})
    BY FS_EmptySet
  <2>4. Cardinality(Thread) \in Nat
    BY QueueAssumption, FS_CardinalityType
  <2> QED
    BY <1>0, <2>1, <2>2, <2>3, <2>4 DEF QueueRefs
<1>9. End
  BY <1>0 DEF End, Leaving
<1>10. Chains
  <2> SUFFICES ASSUME NEW c \in Cmd
               PROVE  \E s \in Seq(Link) : Follows(c, s)
    BY DEF Chains
  <2>1. <<>> \in Seq(Link) /\ Len(<<>>) = 0 /\ ToSet(<<>>) = {}
    BY DEF ToSet
  <2>2. WaitingAt(c) = {}
    BY <1>0 DEF WaitingAt, LinkedAt, Link
  <2>3. IsInjective(<<>>)
    BY DEF IsInjective
  <2>4. \A k \in 1 .. Len(<<>>) : FALSE
    BY <2>1
  <2>5. LinkOf(<<>>, 1) = Nil /\ GroupOf(<<>>, 1) = Nil
    BY <2>1 DEF LinkOf, GroupOf
  <2>6. Follows(c, <<>>)
    BY <1>0, <2>1, <2>2, <2>3, <2>4, <2>5 DEF Follows
  <2> QED
    BY <2>1, <2>6
<1>11. Cursor
  BY <1>0 DEF Cursor, Locked
<1>12. AllNoticed
  BY <1>0 DEF AllNoticed, Noticed
<1> QED
  BY <1>1, <1>3, <1>5, <1>6, <1>7, <1>8, <1>9, <1>10, <1>11, <1>12 DEF IndInv

\* Whatever is allowed to happen, the invariant stays.
LEMMA IndStep ==
  ASSUME IndInv, [Next]_vars
  PROVE  IndInv'
<1>1. CASE Next
  BY <1>1, TypeStep, RequestsStep, EventStatesStep, CallsStep, EventRefsStep,
     QueueRefsStep, EndStep, ChainsStep, CursorStep, AllNoticedStep DEF IndInv
<1>2. CASE UNCHANGED vars
  <2>0. /\ TypeOK /\ Requests /\ EventStates /\ Calls /\ EventRefs /\ QueueRefs
        /\ End /\ Chains /\ Cursor /\ AllNoticed
        /\ queue' = queue /\ ran' = ran /\ worker' = worker /\ event' = event
        /\ caller' = caller /\ group' = group /\ links' = links
    BY <1>2 DEF IndInv, vars
  <2>1. TypeOK'
    BY <2>0 DEF TypeOK
  <2>2. Requests'
    BY <2>0 DEF Requests, ToSet, Distinct
  <2>3. EventStates'
    BY <2>0 DEF EventStates, ToSet, Complete, Holders
  <2>4. Calls'
    BY <2>0 DEF Calls, Call, InAny, At, ToSet, Arrays, IsInjective, Index
  <2>5. EventRefs'
    BY <2>0 DEF EventRefs, Holders, AskedRef, Asked, ToSet
  <2>6. QueueRefs'
    BY <2>0 DEF QueueRefs, Keepers, LiveEvents
  <2>7. End'
    BY <2>0 DEF End, Leaving, At
  <2>8. \A t \in Thread : LinkedAt(t)' = LinkedAt(t)
    BY <2>0 DEF LinkedAt, At
  <2>9. Untied
    BY <2>0, <2>8 DEF Untied
  <2>10. Chains'
    BY <2>0, <2>9, UntiedKept DEF Chains
  <2>11. Cursor'
    <3> SUFFICES ASSUME NEW c \in Cmd, Locked(c)
                 PROVE  \E s \in Seq(Link) :
                          /\ Follows(c, s)'
                          /\ \E k \in 1 .. Len(s) + 1 : /\ worker.lk = LinkOf(s, k)
                                                        /\ worker.gp = GroupOf(s, k)
      BY <2>0 DEF Cursor, Locked, LinkOf, GroupOf
    <3> QED
      BY <2>0, <2>9, UntiedKept DEF Cursor
  <2>12. AllNoticed'
    BY <2>0, <2>8 DEF AllNoticed, Noticed, At, Completed, Complete
  <2> QED
    BY <2>1, <2>2, <2>3, <2>4, <2>5, <2>6, <2>7, <2>10, <2>11, <2>12 DEF IndInv
<1> QED
  BY <1>1, <1>2

\* The invariant holds of the queue, for any callers and commands.
THEOREM Invariance ==
  Spec => []IndInv
<1>1. Init => IndInv
  BY IndInit
<1>2. IndInv /\ [Next]_vars => IndInv'
  BY IndStep
<1> QED
  BY <1>1, <1>2, PTL DEF Spec

\* Every variable has the type of the C structure it stands for.
THEOREM TypeCorrect ==
  Spec => []TypeOK
<1>1. IndInv => TypeOK
  BY DEF IndInv
<1> QED
  BY <1>1, Invariance, PTL

\* What the references count is not freed while somebody uses it.
LEMMA FreedUnused ==
  ASSUME IndInv
  PROVE  NothingFreedInUse
<1>0. /\ TypeOK /\ Requests /\ EventStates /\ Calls /\ EventRefs /\ QueueRefs
      /\ End /\ Cursor
  BY DEF IndInv
<1>1. queue.freed => worker.at = "gone"
  BY <1>0 DEF End
<1>2. ASSUME NEW t \in Thread, caller[t].keeps \/ At(t) \in {"destroy", "join"}
      PROVE  ~queue.freed
  <2>1. CASE caller[t].keeps
    BY <1>0, <2>1, KeptCounted DEF End
  <2>2. CASE At(t) \in {"destroy", "join"}
    BY <1>0, <2>2 DEF End, Leaving
  <2> QED
    BY <1>2, <2>1, <2>2
<1>3. ASSUME NEW t \in Thread, NEW c \in caller[t].holds \cup Uses(t)
      PROVE  ~Freed(c)
  <2>1. ToSet(<<>>) = {}
    BY DEF ToSet
  <2>2. Uses(t) \subseteq caller[t].holds
    <3>1. Call(t)
      BY <1>0 DEF Calls
    <3>2. CASE At(t) \in {"idle", "destroy", "join"}
      BY <2>1, <3>1, <3>2 DEF Uses, Call
    <3>3. CASE At(t) \in {"wait", "waiting"}
      BY <1>0, <3>1, <3>3, CallFacts DEF Uses
    <3>4. CASE InAny(t)
      BY <3>1, <3>4 DEF Uses, Call
    <3> QED
      BY <1>0, <3>2, <3>3, <3>4, Fields DEF At, InAny
  <2>3. c \in caller[t].holds /\ c \in Cmd
    BY <1>0, <2>2, Fields
  <2> QED
    BY <1>0, <2>3, HeldLive
<1>4. worker.at \in {"signal", "walk", "drop"} => ~Freed(worker.cur)
  BY <1>0, AskedLive
<1>5. ASSUME worker.at = "walk", worker.lk # Nil
      PROVE  \E t \in Thread : /\ worker.gp = t
                               /\ \E i \in LinkedAt(t) : worker.lk = <<t, i>>
  <2>1. worker.cur \in Cmd
    BY <1>0, <1>5, AskedLive
  <2>2. PICK s \in Seq(Link) :
          /\ Follows(worker.cur, s)
          /\ \E k \in 1 .. Len(s) + 1 : /\ worker.lk = LinkOf(s, k)
                                        /\ worker.gp = GroupOf(s, k)
    BY <1>0, <1>5, <2>1 DEF Cursor, Locked
  <2>3. PICK k \in 1 .. Len(s) + 1 : /\ worker.lk = LinkOf(s, k)
                                     /\ worker.gp = GroupOf(s, k)
    BY <2>2
  <2>4. k \in 1 .. Len(s) /\ worker.lk = s[k] /\ worker.gp = s[k][1]
    BY <1>5, <2>3, LinkOfFacts
  <2>5. /\ s[k][1] \in Thread /\ s[k] = <<s[k][1], s[k][2]>>
        /\ s[k][2] \in LinkedAt(s[k][1])
    BY <2>1, <2>2, <2>4, ChainAt
  <2> QED
    BY <2>4, <2>5
<1> QED
  BY <1>1, <1>2, <1>3, <1>4, <1>5 DEF NothingFreedInUse

\* Nothing of a queue, an event or a wait is used after it was freed.
THEOREM NoUseAfterFree ==
  Spec => []NothingFreedInUse
<1>1. IndInv => NothingFreedInUse
  BY FreedUnused
<1> QED
  BY <1>1, Invariance, PTL

\* A xrp_wait_any that returns has found an event that is complete.
LEMMA ReturnsComplete ==
  ASSUME IndInv
  PROVE  AnyIsComplete
<1> SUFFICES ASSUME NEW t \in Thread, Returning(t)
             PROVE  /\ caller[t].rv \in DOMAIN caller[t].array
                    /\ event[caller[t].array[caller[t].rv]].st \in Outcome
  BY DEF AnyIsComplete
<1>1. TypeOK /\ Call(t) /\ Noticed(t)
  BY DEF IndInv, Calls, AllNoticed
<1>2. At(t) = "unlink" /\ caller[t].i > caller[t].n
  BY DEF Returning
<1>3. caller[t].i \in Nat /\ caller[t].n \in Nat /\ caller[t].array \in Seq(Cmd)
  BY <1>1, Fields
<1>4. LinkedAt(t) = {}
  BY <1>2, <1>3 DEF LinkedAt
<1>5. caller[t].rv \in 1 .. Len(caller[t].array) /\ Completed(t, caller[t].rv)
  BY <1>1, <1>2, <1>4 DEF Noticed
<1> QED
  BY <1>3, <1>5 DEF Completed, Complete

\* The index that xrp_wait_any returns is that of a complete event.
THEOREM WaitAnyCorrect ==
  Spec => []AnyIsComplete
<1>1. IndInv => AnyIsComplete
  BY ReturnsComplete
<1> QED
  BY <1>1, Invariance, PTL

(***************************************************************************)
(* The chain that is found along next is the one that the invariant knows. *)
(***************************************************************************)

\* A set of numbers has a least element.
LEMMA Least ==
  ASSUME NEW T, T \subseteq Nat, T # {}
  PROVE  \E x \in T : \A y \in T : x <= y
<1>1. PICK R : /\ R = {p \in Nat \X Nat : p[1] < p[2]}
               /\ IsWellFoundedOn(R, Nat)
  BY NatLessThanWellFounded DEF OpToRel
<1>2. PICK x \in T : \A y \in T : ~(<<y, x>> \in R)
  BY <1>1, WFMin
<1>3. ASSUME NEW y \in T PROVE x <= y
  <2>1. x \in Nat /\ y \in Nat
    BY <1>2
  <2>2. y < x => <<y, x>> \in R
    BY <1>1, <2>1
  <2> QED
    BY <1>2, <2>1, <2>2
<1> QED
  BY <1>3

\* The positions at which a chain can have a link, and the one after.
Places == 1 .. Cardinality(Link) + 1

\* A walk along next from the pointer of an event.
Hops(c, f) ==
  f = [k \in Places |-> IF k = 1 THEN event[c].link
                        ELSE IF f[k - 1] = Nil THEN Nil
                        ELSE links[f[k - 1][1]][f[k - 1][2]].next]

\* There are finitely many links.
LEMMA LinkFinite ==
  IsFiniteSet(Link) /\ Cardinality(Link) \in Nat
<1>1. IsFiniteSet(Thread) /\ MaxArray \in Nat
  BY QueueAssumption
<1>2. IsFiniteSet(Index)
  BY <1>1, FS_Interval DEF Index
<1>3. IsFiniteSet(Thread \X Index)
  BY <1>1, <1>2, FS_Product
<1> QED
  BY <1>3, FS_CardinalityType DEF Link

\* A link is never the null pointer.
LEMMA LinkThere ==
  ASSUME NEW s \in Seq(Link), NEW m \in 1 .. Len(s)
  PROVE  LinkOf(s, m) # Nil
<1>1. s[m] \in Link
  OBVIOUS
<1>2. s[m] # Nil
  BY <1>1, QueueAssumption DEF Link, Index
<1> QED
  BY <1>2 DEF LinkOf

\* The walk meets the links of the event's chain in their order.
LEMMA HopsFollow ==
  ASSUME NEW c \in Cmd, NEW s \in Seq(Link), Follows(c, s), NEW f, Hops(c, f)
  PROVE  f = [k \in Places |-> LinkOf(s, k)]
<1>0. Len(s) \in Nat /\ event[c].link = LinkOf(s, 1)
  BY ChainFacts
<1>1. /\ DOMAIN f = Places
      /\ f = [k \in Places |-> f[k]]
      /\ \A k \in Places : f[k] = IF k = 1 THEN event[c].link
                                  ELSE IF f[k - 1] = Nil THEN Nil
                                  ELSE links[f[k - 1][1]][f[k - 1][2]].next
  BY DEF Hops
<1>2. Places \subseteq Nat
  BY LinkFinite DEF Places
<1>3. ASSUME NEW k \in Places, f[k] # LinkOf(s, k) PROVE FALSE
  <2> DEFINE T == {m \in Places : f[m] # LinkOf(s, m)}
  <2>1. T \subseteq Nat /\ T # {}
    BY <1>2, <1>3
  <2>2. PICK x \in T : \A y \in T : x <= y
    <3> HIDE DEF T
    <3> QED
      BY <2>1, Least
  <2>3. x \in Places /\ x \in Nat /\ x >= 1 /\ f[x] # LinkOf(s, x)
    BY <1>2, LinkFinite DEF Places
  <2>4. x # 1
    BY <1>0, <1>1, <2>3
  <2>5. x - 1 \in Places /\ x - 1 \in Nat /\ x - 1 >= 1 /\ ~(x <= x - 1)
    BY <2>3, <2>4, LinkFinite DEF Places
  <2>6. f[x - 1] = LinkOf(s, x - 1)
    BY <2>2, <2>5
  <2>7. CASE LinkOf(s, x - 1) = Nil
    <3>1. f[x] = Nil
      BY <1>1, <2>3, <2>4, <2>6, <2>7
    <3>2. x - 1 \notin 1 .. Len(s)
      <4>1. ASSUME NEW m \in 1 .. Len(s) PROVE LinkOf(s, m) # Nil
        BY LinkThere
      <4> QED
        BY <2>7, <4>1
    <3>3. x \notin 1 .. Len(s)
      BY <1>0, <2>3, <2>5, <3>2
    <3> QED
      BY <2>3, <3>1, <3>3 DEF LinkOf
  <2>8. CASE LinkOf(s, x - 1) # Nil
    <3>1. x - 1 \in 1 .. Len(s) /\ LinkOf(s, x - 1) = s[x - 1]
      BY <2>8, LinkOfFacts
    <3>2. f[x] = links[s[x - 1][1]][s[x - 1][2]].next
      BY <1>1, <2>3, <2>4, <2>6, <2>8, <3>1
    <3>3. links[s[x - 1][1]][s[x - 1][2]] =
            [group |-> GroupOf(s, x - 1 + 1), next |-> LinkOf(s, x - 1 + 1),
             prev |-> LinkOf(s, x - 1 - 1)]
      BY <3>1, ChainAt
    <3>4. x - 1 + 1 = x
      BY <2>3
    <3> QED
      BY <2>3, <3>2, <3>3, <3>4
  <2> QED
    BY <2>7, <2>8
<1> QED
  BY <1>1, <1>3

\* There is such a walk.
LEMMA HopsExist ==
  ASSUME NEW c \in Cmd, NEW s \in Seq(Link), Follows(c, s)
  PROVE  Hops(c, [k \in Places |-> LinkOf(s, k)])
<1> DEFINE f == [k \in Places |-> LinkOf(s, k)]
<1>0. Len(s) \in Nat /\ event[c].link = LinkOf(s, 1)
  BY ChainFacts
<1>1. ASSUME NEW k \in Places
      PROVE  f[k] = IF k = 1 THEN event[c].link
                    ELSE IF f[k - 1] = Nil THEN Nil
                    ELSE links[f[k - 1][1]][f[k - 1][2]].next
  <2>1. k \in Nat /\ k >= 1 /\ f[k] = LinkOf(s, k)
    BY LinkFinite DEF Places
  <2>2. CASE k = 1
    BY <1>0, <2>1, <2>2
  <2>3. CASE k # 1
    <3>1. k - 1 \in Places /\ k - 1 \in Nat /\ k - 1 >= 1
      BY <2>1, <2>3, LinkFinite DEF Places
    <3>2. f[k - 1] = LinkOf(s, k - 1)
      BY <3>1
    <3>3. CASE LinkOf(s, k - 1) = Nil
      <4>1. k - 1 \notin 1 .. Len(s)
        <5>1. ASSUME NEW m \in 1 .. Len(s) PROVE LinkOf(s, m) # Nil
          BY LinkThere
        <5> QED
          BY <3>3, <5>1
      <4>2. k \notin 1 .. Len(s)
        BY <1>0, <2>1, <3>1, <4>1
      <4>3. f[k] = Nil
        BY <2>1, <4>2 DEF LinkOf
      <4> HIDE DEF f
      <4> QED
        BY <2>3, <3>2, <3>3, <4>3
    <3>4. CASE LinkOf(s, k - 1) # Nil
      <4>1. k - 1 \in 1 .. Len(s) /\ LinkOf(s, k - 1) = s[k - 1]
        BY <3>4, LinkOfFacts
      <4>2. links[s[k - 1][1]][s[k - 1][2]] =
              [group |-> GroupOf(s, k - 1 + 1), next |-> LinkOf(s, k - 1 + 1),
               prev |-> LinkOf(s, k - 1 - 1)]
        BY <4>1, ChainAt
      <4>3. k - 1 + 1 = k
        BY <2>1
      <4>4. links[s[k - 1][1]][s[k - 1][2]].next = LinkOf(s, k)
        BY <4>2, <4>3
      <4> HIDE DEF f
      <4> QED
        BY <2>1, <2>3, <3>2, <3>4, <4>1, <4>4
    <3> QED
      BY <3>3, <3>4
  <2> QED
    BY <2>2, <2>3
<1>2. f = [k \in Places |-> IF k = 1 THEN event[c].link
                            ELSE IF f[k - 1] = Nil THEN Nil
                            ELSE links[f[k - 1][1]][f[k - 1][2]].next]
  BY <1>1
<1> QED
  BY <1>2 DEF Hops

\* The first n numbers are n.
LEMMA Counting ==
  ASSUME NEW n \in Nat
  PROVE  Cardinality(1 .. n) = n
<1>1. 1 \in Int /\ n \in Int
  OBVIOUS
<1>2. Cardinality(1 .. n) = IF 1 > n THEN 0 ELSE n - 1 + 1
  BY <1>1, FS_Interval
<1> QED
  BY <1>2

\* A chain is no longer than there are links.
LEMMA ChainLength ==
  ASSUME NEW c \in Cmd, NEW s \in Seq(Link), Follows(c, s)
  PROVE  1 .. Len(s) \subseteq Places
<1>1. Len(s) \in Nat /\ \A k, m \in 1 .. Len(s) : s[k] = s[m] => k = m
  BY ChainFacts
<1>2. s \in [1 .. Len(s) -> Link]
  OBVIOUS
<1>3. s \in Injection(1 .. Len(s), Link)
  BY <1>1, <1>2 DEF Injection, IsInjective
<1>4. Cardinality(1 .. Len(s)) <= Cardinality(Link)
  BY <1>3, LinkFinite, FS_Injection
<1>5. Cardinality(1 .. Len(s)) = Len(s)
  BY <1>1, Counting
<1> QED
  BY <1>1, <1>4, <1>5, LinkFinite DEF Places

\* The walk of the property along next finds the event's chain.
LEMMA ChainFound ==
  ASSUME NEW c \in Cmd, NEW s \in Seq(Link), Follows(c, s)
  PROVE  Chain(c) = s
<1> DEFINE h == CHOOSE f : Hops(c, f)
<1>1. Hops(c, h)
  BY HopsExist
<1>2. h = [k \in Places |-> LinkOf(s, k)]
  <2> HIDE DEF h
  <2> QED
    BY <1>1, HopsFollow
<1>3. Chain(c) = [k \in 1 .. Cardinality({m \in Places : h[m] # Nil}) |-> h[k]]
  BY Zenon DEF Chain, Hops, Places
<1> HIDE DEF h
<1>4. Len(s) \in Nat
  BY ChainFacts
<1>5. {m \in Places : h[m] # Nil} = 1 .. Len(s)
  <2>1. \A m \in Places : h[m] = LinkOf(s, m)
    BY <1>2
  <2>2. \A m \in Places : LinkOf(s, m) # Nil <=> m \in 1 .. Len(s)
    BY LinkThere DEF LinkOf
  <2> QED
    BY <2>1, <2>2, ChainLength
<1>6. Cardinality(1 .. Len(s)) = Len(s)
  BY <1>4, Counting
<1>7. \A k \in 1 .. Len(s) : h[k] = s[k]
  BY <1>2, ChainLength DEF LinkOf
<1>8. Chain(c) = [k \in 1 .. Len(s) |-> s[k]]
  BY <1>3, <1>5, <1>6, <1>7
<1> QED
  BY <1>8

\* The chain of every event is the one that the invariant knows.
THEOREM ChainsCorrect ==
  Spec => []ChainSound
<1>1. IndInv => ChainSound
  <2> SUFFICES ASSUME IndInv, NEW c \in Cmd
               PROVE  Follows(c, Chain(c))
    BY DEF ChainSound
  <2>1. PICK s \in Seq(Link) : Follows(c, s)
    BY DEF IndInv, Chains
  <2>2. Chain(c) = s
    BY <2>1, ChainFound
  <2> QED
    BY <2>1, <2>2
<1> QED
  BY <1>1, Invariance, PTL

(***************************************************************************)
(* The queue is an ordered channel.                                        *)
(***************************************************************************)

\* What the channel of XrpChannel is made of in a state of the queue.
Underway == IF worker.at = "run" THEN <<worker.cur>> ELSE <<>>
Line == ran \o Underway \o queue.list
Known == [c \in Cmd |-> IF event[c].st \in Outcome THEN event[c].st ELSE "UNKNOWN"]

\* A request that is pushed comes last in the line.
LEMMA LinePush ==
  ASSUME NEW r \in Seq(Cmd), NEW m \in Seq(Cmd), NEW l \in Seq(Cmd), NEW x \in Cmd
  PROVE  r \o m \o Append(l, x) = Append(r \o m \o l, x)
<1>1. r \o m \o l \in Seq(Cmd) /\ r \o m \in Seq(Cmd)
  BY ConcatProperties
<1>2. Append(l, x) = l \o <<x>> /\ <<x>> \in Seq(Cmd)
  BY AppendIsConcat
<1>3. (r \o m) \o (l \o <<x>>) = ((r \o m) \o l) \o <<x>>
  BY <1>1, <1>2, ConcatAssociative
<1>4. Append(r \o m \o l, x) = (r \o m \o l) \o <<x>>
  BY <1>1, AppendIsConcat
<1> QED
  BY <1>2, <1>3, <1>4

\* One that is executed leaves it where it is.
LEMMA LineRun ==
  ASSUME NEW r \in Seq(Cmd), NEW l \in Seq(Cmd), NEW x \in Cmd
  PROVE  Append(r, x) \o <<>> \o l = r \o <<x>> \o l
<1>1. Append(r, x) = r \o <<x>> /\ Append(r, x) \in Seq(Cmd)
  BY AppendIsConcat, AppendProperties
<1>2. Append(r, x) \o <<>> = Append(r, x)
  BY <1>1, ConcatEmptySeq
<1> QED
  BY <1>1, <1>2

\* So does one that the worker takes.
LEMMA LineTake ==
  ASSUME NEW r \in Seq(Cmd), NEW l \in Seq(Cmd), l # <<>>
  PROVE  r \o <<Head(l)>> \o Tail(l) = r \o <<>> \o l
<1>1. Head(l) \in Cmd /\ Tail(l) \in Seq(Cmd)
  BY HeadTailProperties
<1>2. <<Head(l)>> \o Tail(l) = l
  BY <1>1
<1>3. <<Head(l)>> \in Seq(Cmd)
  BY <1>1
<1>4. r \o <<Head(l)>> \o Tail(l) = r \o (<<Head(l)>> \o Tail(l))
  BY <1>1, <1>3, ConcatAssociative
<1>5. r \o <<>> = r
  BY ConcatEmptySeq
<1> QED
  BY <1>2, <1>4, <1>5

\* Where a request is in the line.
LEMMA LineAt ==
  ASSUME NEW r \in Seq(Cmd), NEW x \in Cmd, NEW l \in Seq(Cmd)
  PROVE  /\ Len(r) < Len(r \o <<x>> \o l)
         /\ (r \o <<x>> \o l)[Len(r) + 1] = x
<1>1. <<x>> \in Seq(Cmd) /\ Len(<<x>>) = 1 /\ <<x>>[1] = x
  OBVIOUS
<1>2. /\ r \o <<x>> \in Seq(Cmd) /\ Len(r \o <<x>>) = Len(r) + 1
      /\ (r \o <<x>>)[Len(r) + 1] = x
  BY <1>1, ConcatProperties
<1>3. /\ Len(r \o <<x>> \o l) = Len(r) + 1 + Len(l)
      /\ (r \o <<x>> \o l)[Len(r) + 1] = x
  BY <1>2, ConcatProperties
<1> QED
  BY <1>3

\* The elements of two sequences in a row.
LEMMA ToSetConcat ==
  ASSUME NEW r \in Seq(Cmd), NEW l \in Seq(Cmd)
  PROVE  ToSet(r \o l) = ToSet(r) \cup ToSet(l)
<1>1. /\ r \o l \in Seq(Cmd) /\ Len(r \o l) = Len(r) + Len(l)
      /\ \A i \in 1 .. Len(r) + Len(l) :
           (r \o l)[i] = IF i <= Len(r) THEN r[i] ELSE l[i - Len(r)]
  BY ConcatProperties
<1>2. /\ ToSet(r) = {r[k] : k \in 1 .. Len(r)} /\ ToSet(l) = {l[k] : k \in 1 .. Len(l)}
      /\ ToSet(r \o l) = {(r \o l)[k] : k \in 1 .. Len(r) + Len(l)}
  <2>1. r \o l \in Seq(Cmd) /\ Len(r \o l) = Len(r) + Len(l)
    BY <1>1
  <2>2. ToSet(r \o l) = {(r \o l)[k] : k \in 1 .. Len(r \o l)}
    BY <2>1, ToSetFacts
  <2> QED
    BY <2>1, <2>2, ToSetFacts
<1>3. Len(r) \in Nat /\ Len(l) \in Nat
  OBVIOUS
<1>4. ASSUME NEW x \in ToSet(r \o l) PROVE x \in ToSet(r) \cup ToSet(l)
  <2>1. PICK k \in 1 .. Len(r) + Len(l) : x = (r \o l)[k]
    BY <1>2
  <2>2. CASE k <= Len(r)
    BY <1>1, <1>2, <1>3, <2>1, <2>2
  <2>3. CASE ~(k <= Len(r))
    <3>1. k - Len(r) \in 1 .. Len(l)
      BY <1>3, <2>3
    <3> QED
      BY <1>1, <1>2, <2>1, <2>3, <3>1
  <2> QED
    BY <2>2, <2>3
<1>5. ASSUME NEW x \in ToSet(r) PROVE x \in ToSet(r \o l)
  <2>1. PICK k \in 1 .. Len(r) : x = r[k]
    BY <1>2
  <2>2. k \in 1 .. Len(r) + Len(l) /\ k <= Len(r)
    BY <1>3
  <2> QED
    BY <1>1, <1>2, <2>1, <2>2
<1>6. ASSUME NEW x \in ToSet(l) PROVE x \in ToSet(r \o l)
  <2>1. PICK k \in 1 .. Len(l) : x = l[k]
    BY <1>2
  <2>2. /\ Len(r) + k \in 1 .. Len(r) + Len(l) /\ ~(Len(r) + k <= Len(r))
        /\ Len(r) + k - Len(r) = k
    BY <1>3
  <2>3. (r \o l)[Len(r) + k] = l[k]
    BY <1>1, <2>2
  <2> QED
    BY <1>2, <2>1, <2>2, <2>3
<1> QED
  BY <1>4, <1>5, <1>6

\* The parts of the line are lists of commands.
LEMMA LineType ==
  ASSUME TypeOK, Requests
  PROVE  /\ ran \in Seq(Cmd) /\ queue.list \in Seq(Cmd) /\ Underway \in Seq(Cmd)
         /\ Line \in Seq(Cmd)
         /\ ToSet(Line) = ToSet(ran) \cup ToSet(Underway) \cup ToSet(queue.list)
<1>1. ran \in Seq(Cmd) /\ queue.list \in Seq(Cmd)
  BY Fields
<1>2. Underway \in Seq(Cmd)
  BY DEF Underway, Requests
<1>3. ran \o Underway \in Seq(Cmd)
  BY <1>1, <1>2, ConcatProperties
<1>4. Line \in Seq(Cmd)
  BY <1>1, <1>3, ConcatProperties DEF Line
<1>5. ToSet(Line) = ToSet(ran \o Underway) \cup ToSet(queue.list)
  BY <1>1, <1>3, ToSetConcat DEF Line
<1>6. ToSet(ran \o Underway) = ToSet(ran) \cup ToSet(Underway)
  BY <1>1, <1>2, ToSetConcat
<1> QED
  BY <1>1, <1>2, <1>4, <1>5, <1>6

\* A step that neither moves a request nor ends one is none of the channel's.
LEMMA ChannelSame ==
  ASSUME Line' = Line, Known' = Known, ran' = ran
  PROVE  UNCHANGED <<Line, ran, Known>>
  OBVIOUS

\* Each step of the queue is one of the channel, or none.
LEMMA ChannelStep ==
  ASSUME IndInv, Next
  PROVE  \/ \E c \in Cmd : Channel!Accept(c)
         \/ Channel!Execute
         \/ \E c \in Cmd : \E s \in Outcome : Channel!Settle(c, s)
         \/ UNCHANGED <<Line, ran, Known>>
<1>0. /\ TypeOK /\ Requests /\ EventStates /\ EventRefs /\ QueueRefs
  BY DEF IndInv
<1>1. /\ ran \in Seq(Cmd) /\ queue.list \in Seq(Cmd) /\ Underway \in Seq(Cmd)
      /\ Line \in Seq(Cmd)
      /\ ToSet(Line) = ToSet(ran) \cup ToSet(Underway) \cup ToSet(queue.list)
  BY <1>0, LineType
<1>a. \A x \in Cmd : /\ ran \o Underway \o Append(queue.list, x) = Append(Line, x)
                     /\ Append(ran, x) \o <<>> \o queue.list
                          = ran \o <<x>> \o queue.list
  <2>1. ran \in Seq(Cmd) /\ queue.list \in Seq(Cmd) /\ Underway \in Seq(Cmd)
    BY <1>1
  <2>2. ASSUME NEW x \in Cmd
        PROVE  ran \o Underway \o Append(queue.list, x)
                 = Append(ran \o Underway \o queue.list, x)
    BY <2>1, LinePush
  <2>3. ASSUME NEW x \in Cmd
        PROVE  Append(ran, x) \o <<>> \o queue.list = ran \o <<x>> \o queue.list
    BY <2>1, LineRun
  <2> QED
    BY <2>2, <2>3 DEF Line
<1>b. queue.list # <<>> =>
        ran \o <<Head(queue.list)>> \o Tail(queue.list) = ran \o <<>> \o queue.list
  BY <1>1, LineTake
<1>2. CASE Quiet
  <2>1. Known' = Known
    BY <1>2 DEF Quiet, Known
  <2>2. Underway' = Underway
    BY <1>2 DEF Quiet, Underway
  <2>3. Line' = Line
    BY <1>2, <2>2 DEF Quiet, Line
  <2> QED
    BY <1>2, <2>1, <2>3 DEF Quiet
<1>3. ASSUME NEW t \in Thread, NEW c \in Cmd, Enqueue(t, c)
      PROVE  Channel!Accept(c)
  <2>1. /\ ran' = ran /\ queue'.list = Append(queue.list, c)
        /\ worker'.cur = worker.cur
        /\ worker'.at = worker.at \/ (worker.at = "asleep" /\ worker'.at = "look")
        /\ event[c].st = "NONE" /\ c \notin ToSet(ran) \cup ToSet(queue.list)
        /\ c # worker.cur
    BY <1>0, <1>3, PushFields
  <2>2. Underway' = Underway /\ c \notin ToSet(Underway)
    <3>1. ToSet(<<worker.cur>>) = {worker.cur} /\ ToSet(<<>>) = {}
      BY DEF ToSet
    <3> QED
      BY <2>1, <3>1 DEF Underway
  <2>3. Line' = Append(Line, c)
    <3>1. Line' = ran \o Underway \o Append(queue.list, c)
      BY <2>1, <2>2 DEF Line
    <3> QED
      BY <1>a, <3>1
  <2>4. c \notin ToSet(Line)
    BY <1>1, <2>1, <2>2
  <2>5. Known' = Known
    <3>1. ASSUME NEW d \in Cmd
          PROVE  (IF event'[d].st \in Outcome THEN event'[d].st ELSE "UNKNOWN")
                   = (IF event[d].st \in Outcome THEN event[d].st ELSE "UNKNOWN")
      <4>1. CASE d # c
        BY <1>0, <1>3, <4>1, PushHolds
      <4>2. CASE d = c
        <5>1. event'[c].st \in {"NONE", "PENDING"}
          BY <1>0, <1>3, <2>1, PushHolds
        <5> QED
          BY <2>1, <4>2, <5>1, QueueAssumption
      <4> QED
        BY <4>1, <4>2
    <3> QED
      BY <3>1 DEF Known
  <2> QED
    BY <2>1, <2>3, <2>4, <2>5
    DEF Channel!Accept, Line, Underway, Known, Channel!ToSet, ToSet
<1>4. CASE Dequeue
  <2>1. /\ worker.at = "look" /\ UNCHANGED <<ran, event>>
        /\ \/ /\ queue.list # <<>> /\ queue'.list = Tail(queue.list)
              /\ worker'.at = "run" /\ worker'.cur = Head(queue.list)
           \/ /\ queue.list = <<>> /\ queue'.list = queue.list
              /\ worker'.at \in {"gone", "asleep"} /\ worker'.cur = worker.cur
    BY <1>0, <1>4, DequeueFields
  <2>2. Known' = Known
    BY <2>1 DEF Known
  <2>3. Line' = Line
    <3>1. Underway = <<>>
      BY <2>1 DEF Underway
    <3>2. CASE worker'.at = "run"
      <4>1. queue.list # <<>> /\ Underway' = <<Head(queue.list)>>
        BY <2>1, <3>2 DEF Underway
      <4>2. Line' = ran \o <<Head(queue.list)>> \o Tail(queue.list)
        BY <2>1, <3>2, <4>1 DEF Line
      <4> QED
        BY <1>b, <3>1, <4>1, <4>2 DEF Line
    <3>3. CASE worker'.at # "run"
      BY <2>1, <3>1, <3>3 DEF Line, Underway
    <3> QED
      BY <3>2, <3>3
  <2> QED
    BY <2>1, <2>2, <2>3
<1>5. ASSUME NEW s \in Outcome, Run(s)
      PROVE  Channel!Execute
  <2>1. /\ worker.at = "run" /\ UNCHANGED <<queue, event>>
        /\ ran' = Append(ran, worker.cur) /\ worker'.at # "run"
    BY <1>0, <1>5, RunFields
  <2>2. worker.cur \in Cmd /\ Underway = <<worker.cur>> /\ Underway' = <<>>
    BY <1>0, <2>1 DEF Requests, Underway
  <2>3. Line = ran \o <<worker.cur>> \o queue.list
    BY <2>2 DEF Line
  <2>4. Len(ran) < Len(Line) /\ Line[Len(ran) + 1] = worker.cur
    BY <1>1, <2>2, <2>3, LineAt
  <2>5. Line' = Line
    <3>1. Line' = Append(ran, worker.cur) \o <<>> \o queue.list
      BY <2>1, <2>2 DEF Line
    <3> QED
      BY <1>a, <2>2, <2>3, <3>1
  <2>6. Known' = Known
    BY <2>1 DEF Known
  <2> QED
    BY <2>1, <2>4, <2>5, <2>6 DEF Channel!Execute, Line, Underway, Known
<1>6. CASE Signal
  <2>1. /\ worker.at = "signal" /\ UNCHANGED <<queue, ran>>
        /\ worker'.at = "walk"
    BY <1>0, <1>6, SignalFields
  <2>2. /\ PutEvent(worker.cur, worker.st, event[worker.cur].ref,
                    event[worker.cur].group, event[worker.cur].link)
        /\ worker.st \in Outcome
    BY <1>0, <1>6, SignalEffect
  <2>3. /\ worker.cur \in ToSet(ran) /\ worker.cur \in Cmd
        /\ event[worker.cur].st = "PENDING"
    BY <1>0, <2>1, AskedLive DEF Requests, EventStates
  <2>4. Line' = Line
    BY <2>1 DEF Line, Underway
  <2>5. Known[worker.cur] = "UNKNOWN"
    BY <2>3, QueueAssumption DEF Known
  <2>6. Known' = [Known EXCEPT ![worker.cur] = worker.st]
    BY <2>2, <2>3 DEF Known, PutEvent
  <2>7. ASSUME NEW c \in Cmd, c = worker.cur, NEW s \in Outcome, s = worker.st
        PROVE  Channel!Settle(c, s)
    BY <2>1, <2>3, <2>4, <2>5, <2>6, <2>7
    DEF Channel!Settle, Line, Underway, Known, Channel!ToSet, ToSet
  <2> QED
    BY <2>2, <2>3, <2>7
<1>7. CASE WalkGroup \/ WalkEnd
  <2>1. UNCHANGED <<queue, ran, event>> /\ worker.at = "walk" /\ worker'.at # "run"
    BY <1>0, <1>7, WalkFields, WalkEndFields
  <2>2. Known' = Known
    BY <2>1 DEF Known
  <2>3. Line' = Line
    BY <2>1 DEF Line, Underway
  <2> QED
    BY <2>1, <2>2, <2>3
<1>8. CASE DropEvent
  <2>1. /\ UNCHANGED ran /\ worker.at = "drop" /\ worker'.at # "run"
        /\ queue'.list = queue.list
        /\ \A d \in Cmd : event'[d].st = event[d].st
    BY <1>0, <1>8, DropFields
  <2>2. Known' = Known
    BY <2>1 DEF Known
  <2>3. Line' = Line
    BY <2>1 DEF Line, Underway
  <2> QED
    BY <2>1, <2>2, <2>3
<1> QED
  BY <1>2, <1>3, <1>4, <1>5, <1>6, <1>7, <1>8, QuietCases

\* The queue is an ordered channel: it carries out the commands of XrpChannel
\* in the order of the pushes, and settles each once.
THEOREM RefinesChannel ==
  Spec => ImplementsChannel
<1>1. Init => Channel!Init
  <2> SUFFICES ASSUME Init
               PROVE  Channel!Init
    OBVIOUS
  <2>1. /\ ran = <<>> /\ queue.list = <<>> /\ worker.at = "look"
        /\ \A c \in Cmd : event[c].st = "NONE"
    BY DEF Init
  <2>2. Underway = <<>> /\ Line = <<>>
    BY <2>1 DEF Underway, Line
  <2>3. Known = [c \in Cmd |-> "UNKNOWN"]
    BY <2>1, QueueAssumption DEF Known
  <2> QED
    BY <2>1, <2>2, <2>3 DEF Channel!Init, Line, Underway, Known
<1>2. IndInv /\ [Next]_vars => [Channel!Next]_<<Line, ran, Known>>
  <2> SUFFICES ASSUME IndInv, [Next]_vars
               PROVE  [Channel!Next]_<<Line, ran, Known>>
    OBVIOUS
  <2>1. CASE Next
    BY <2>1, ChannelStep DEF Channel!Next
  <2>2. CASE UNCHANGED vars
    BY <2>2 DEF vars, Line, Underway, Known
  <2> QED
    BY <2>1, <2>2
<1>3. IndInv /\ [Next]_vars =>
        [Channel!Next]_<<ran \o (IF worker.at = "run" THEN <<worker.cur>> ELSE <<>>)
                           \o queue.list, ran,
                         [c \in Cmd |-> IF event[c].st \in Outcome THEN event[c].st
                                        ELSE "UNKNOWN"]>>
  BY <1>2 DEF Line, Underway, Known
<1> QED
  BY <1>1, <1>3, Invariance, PTL DEF Spec, ImplementsChannel, Channel!Spec
=============================================================================
