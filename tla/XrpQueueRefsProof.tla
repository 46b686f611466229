--------------------------- MODULE XrpQueueRefsProof ---------------------------
(***************************************************************************)
(* Proofs about a host queue (module XrpQueue), for any threads, commands  *)
(* and arrays: its requests and its references.                            *)
(*                                                                         *)
(* Here is the inductive invariant, what each operation does to the        *)
(* records of the state, and the parts of the invariant that need no       *)
(* chain.  A request is in one place: in the list, at the worker or        *)
(* executed, and its event is pending until the worker signals it.  Every  *)
(* reference to an event or to the queue is somebody's, so that the last   *)
(* one that is dropped is the last one there is.                           *)
(***************************************************************************)
EXTENDS XrpQueue, SequenceTheorems, FiniteSetTheorems, FunctionTheorems,
        NaturalsInduction, TLAPS

(***************************************************************************)
(* The inductive invariant.                                                *)
(***************************************************************************)

\* The kinds of a step in which a thread has events in its array.
InAny(t) == At(t) \in {"link", "gwait", "gwaiting", "unlink"}

\* A command that has come to its end.
Complete(c) == event[c].st \in Outcome

\* The threads with a reference to an event, and those with one to the queue.
Holders(c) == {t \in Thread : c \in caller[t].holds}
Keepers == {t \in Thread : caller[t].keeps}

\* The commands whose request has a reference to their event.
Asked == (ToSet(queue.list) \cup ({worker.cur} \ {Nil})) \ Silent
AskedRef(c) == IF c \in Asked THEN 1 ELSE 0

\* The events that exist: each has a reference to the queue.
LiveEvents == {c \in Cmd : event[c].st # "NONE" /\ event[c].ref > 0}

Distinct(s) == \A i, j \in 1 .. Len(s) : s[i] = s[j] => i = j

(* A request is in one place: in the list, at the worker, or executed.  The *)
(* event of one that has not been signalled is pending.                     *)
Requests ==
  /\ Distinct(queue.list)
  /\ ToSet(queue.list) \cap ToSet(ran) = {}
  /\ worker.cur \notin ToSet(queue.list)
  /\ worker.at = "run" => worker.cur \in Cmd \ ToSet(ran)
  /\ worker.at \in {"signal", "walk", "drop"} =>
       worker.cur \in ToSet(ran) \ Silent /\ worker.st \in Outcome
  /\ worker.at \in {"look", "asleep", "gone"} => worker.cur = Nil

EventStates ==
  /\ \A c \in ToSet(queue.list) \ Silent : event[c].st = "PENDING"
  /\ worker.at \in {"run", "signal"} /\ worker.cur \notin Silent =>
       event[worker.cur].st = "PENDING"
  /\ worker.at \in {"walk", "drop"} => Complete(worker.cur)
  /\ \A c \in Cmd : event[c].st = "NONE" => Holders(c) = {}
  /\ \A c \in Silent : event[c].st = "NONE"

\* Where a thread is in its call agrees with the call's variables.
Call(t) ==
  /\ At(t) \in {"idle", "destroy", "join"} => caller[t].array = <<>>
  /\ At(t) \in {"wait", "waiting"} =>
       \E c \in caller[t].holds : caller[t].array = <<c>>
  /\ InAny(t) => /\ caller[t].array \in Arrays
                 /\ ToSet(caller[t].array) \subseteq caller[t].holds
                 /\ caller[t].n <= Len(caller[t].array)
  /\ At(t) \in {"link", "gwait", "gwaiting"} =>
       caller[t].n = Len(caller[t].array)
  /\ At(t) = "link" =>
       /\ caller[t].i \in 1 .. caller[t].n
       /\ \A j \in Index : j >= caller[t].i => links[t][j] = NoLink
  /\ At(t) = "unlink" => caller[t].i \in 1 .. caller[t].n + 1
  /\ At(t) \in {"link", "gwait", "gwaiting"} =>
       group[t] \in Outcome \cup {"PENDING"}

Calls == \A t \in Thread : Call(t)

\* Every reference is somebody's.
EventRefs ==
  \A c \in Cmd : event[c].ref = Cardinality(Holders(c)) + AskedRef(c)
QueueRefs ==
  /\ IsFiniteSet(LiveEvents)
  /\ queue.ref = Cardinality(Keepers) + Cardinality(LiveEvents)

\* The queue is destroyed once, by one thread, when nobody refers to it.
Leaving(t) == At(t) \in {"destroy", "join"}
End ==
  /\ queue.freed => worker.at = "gone" /\ queue.ref = 0
  /\ \A t \in Thread : Leaving(t) => queue.ref = 0 /\ ~queue.freed
  /\ \A t, u \in Thread : Leaving(t) /\ Leaving(u) => t = u

Chains == \A c \in Cmd : \E s \in Seq(Link) : Follows(c, s)

\* The cursor of a broadcast is in the chain of its event, or at its end.
Cursor ==
  \A c \in Cmd : Locked(c) =>
    \E s \in Seq(Link) :
      /\ Follows(c, s)
      /\ \E k \in 1 .. Len(s) + 1 : /\ worker.lk = LinkOf(s, k)
                                    /\ worker.gp = GroupOf(s, k)

\* A thread whose group was signalled still finds the event that is complete.
Completed(t, j) == Complete(caller[t].array[j])
Noticed(t) ==
  /\ At(t) \in {"link", "gwait", "gwaiting"} /\ group[t] \in Outcome =>
       \E j \in LinkedAt(t) : Completed(t, j)
  /\ At(t) = "unlink" =>
       \/ caller[t].rv \in 1 .. Len(caller[t].array) /\ Completed(t, caller[t].rv)
       \/ \E j \in LinkedAt(t) : Completed(t, j)
AllNoticed == \A t \in Thread : Noticed(t)

IndInv == /\ TypeOK /\ Requests /\ EventStates /\ Calls /\ EventRefs /\ QueueRefs
          /\ End /\ Chains /\ Cursor /\ AllNoticed

\* The parts of the state have the types of the C structures.
LEMMA Fields ==
  ASSUME TypeOK
  PROVE  /\ queue.list \in Seq(Cmd) /\ queue.ref \in Nat
         /\ queue.exit \in BOOLEAN /\ queue.freed \in BOOLEAN
         /\ ran \in Seq(Cmd)
         /\ worker.cur \in Cmd \cup {Nil} /\ worker.lk \in Link \cup {Nil}
         /\ worker.gp \in Thread \cup {Nil}
         /\ worker.st \in Outcome \cup {"PENDING"}
         /\ worker.at \in {"look", "asleep", "run", "signal", "walk", "drop", "gone"}
         /\ \A c \in Cmd : /\ event[c].ref \in Nat
                           /\ event[c].st \in Outcome \cup {"NONE", "PENDING"}
                           /\ event[c].group \in Thread \cup {Nil}
                           /\ event[c].link \in Link \cup {Nil}
         /\ \A t \in Thread : /\ caller[t].keeps \in BOOLEAN
                              /\ caller[t].holds \in SUBSET Cmd
                              /\ caller[t].array \in Seq(Cmd)
                              /\ caller[t].i \in Nat /\ caller[t].n \in Nat
                              /\ caller[t].rv \in Nat
                              /\ caller[t].at \in {"idle", "wait", "waiting",
                                   "link", "gwait", "gwaiting", "unlink",
                                   "destroy", "join"}
                              /\ group[t] \in Outcome \cup {"NONE", "PENDING"}
         /\ \A t \in Thread : \A i \in Index :
                              /\ links[t][i].group \in Thread \cup {Nil}
                              /\ links[t][i].next \in Link \cup {Nil}
                              /\ links[t][i].prev \in Link \cup {Nil}
                              /\ links[t][i] = [group |-> links[t][i].group,
                                   next |-> links[t][i].next,
                                   prev |-> links[t][i].prev]
<1>1. /\ queue.list \in Seq(Cmd) /\ queue.ref \in Nat
      /\ queue.exit \in BOOLEAN /\ queue.freed \in BOOLEAN /\ ran \in Seq(Cmd)
  BY DEF TypeOK
<1>2. /\ worker.cur \in Cmd \cup {Nil} /\ worker.lk \in Link \cup {Nil}
      /\ worker.gp \in Thread \cup {Nil}
      /\ worker.st \in Outcome \cup {"PENDING"}
      /\ worker.at \in {"look", "asleep", "run", "signal", "walk", "drop", "gone"}
  BY DEF TypeOK
<1>3. \A c \in Cmd : /\ event[c].ref \in Nat
                     /\ event[c].st \in Outcome \cup {"NONE", "PENDING"}
                     /\ event[c].group \in Thread \cup {Nil}
                     /\ event[c].link \in Link \cup {Nil}
  BY DEF TypeOK
<1>4. \A t \in Thread : /\ caller[t].keeps \in BOOLEAN
                        /\ caller[t].holds \in SUBSET Cmd
                        /\ caller[t].array \in Seq(Cmd)
                        /\ caller[t].i \in Nat /\ caller[t].n \in Nat
                        /\ caller[t].rv \in Nat
                        /\ caller[t].at \in {"idle", "wait", "waiting",
                             "link", "gwait", "gwaiting", "unlink",
                             "destroy", "join"}
  BY DEF TypeOK
<1>5. \A t \in Thread : group[t] \in Outcome \cup {"NONE", "PENDING"}
  BY DEF TypeOK
<1>6. ASSUME NEW t \in Thread, NEW i \in Index
      PROVE  /\ links[t][i].group \in Thread \cup {Nil}
             /\ links[t][i].next \in Link \cup {Nil}
             /\ links[t][i].prev \in Link \cup {Nil}
             /\ links[t][i] = [group |-> links[t][i].group,
                  next |-> links[t][i].next, prev |-> links[t][i].prev]
  <2>1. links[t][i] \in [group : Thread \cup {Nil}, next : Link \cup {Nil},
                          prev : Link \cup {Nil}]
    BY DEF TypeOK
  <2> QED
    BY <2>1
<1> QED
  BY <1>1, <1>2, <1>3, <1>4, <1>5, <1>6

\* The elements of a sequence, and what a push and a pop do to them.
LEMMA ToSetFacts ==
  ASSUME NEW S, NEW s \in Seq(S)
  PROVE  /\ ToSet(s) = {s[k] : k \in 1 .. Len(s)}
         /\ ToSet(s) \subseteq S
         /\ \A x : ToSet(Append(s, x)) = ToSet(s) \cup {x}
         /\ s # <<>> => /\ Head(s) \in ToSet(s) /\ Head(s) = s[1]
                        /\ ToSet(s) = ToSet(Tail(s)) \cup {Head(s)}
                        /\ ToSet(Tail(s)) \subseteq ToSet(s)
<1>1. DOMAIN s = 1 .. Len(s) /\ Len(s) \in Nat
  OBVIOUS
<1>2. ToSet(s) = {s[k] : k \in 1 .. Len(s)}
  BY <1>1 DEF ToSet
<1>3. ToSet(s) \subseteq S
  BY <1>2
<1>4. ASSUME NEW x
      PROVE  ToSet(Append(s, x)) = ToSet(s) \cup {x}
  <2> DEFINE a == Append(s, x)
  <2>1. /\ DOMAIN a = 1 .. Len(s) + 1
        /\ \A k \in 1 .. Len(s) : a[k] = s[k]
        /\ a[Len(s) + 1] = x
    BY <1>1
  <2> HIDE DEF a
  <2>2. ToSet(a) = {a[k] : k \in 1 .. Len(s) + 1}
    BY <2>1 DEF ToSet
  <2>3. \A k \in 1 .. Len(s) + 1 : k \in 1 .. Len(s) \/ k = Len(s) + 1
    BY <1>1
  <2>4. \A k \in 1 .. Len(s) : k \in 1 .. Len(s) + 1
    BY <1>1
  <2>5. Len(s) + 1 \in 1 .. Len(s) + 1
    BY <1>1
  <2>6. ToSet(a) \subseteq ToSet(s) \cup {x}
    BY <1>2, <2>1, <2>2, <2>3
  <2>7. ToSet(s) \cup {x} \subseteq ToSet(a)
    BY <1>2, <2>1, <2>2, <2>4, <2>5
  <2> QED
    BY <2>6, <2>7 DEF a
<1>5. ASSUME s # <<>>
      PROVE  /\ Head(s) \in ToSet(s) /\ Head(s) = s[1]
             /\ ToSet(s) = ToSet(Tail(s)) \cup {Head(s)}
             /\ ToSet(Tail(s)) \subseteq ToSet(s)
  <2> DEFINE r == Tail(s)
  <2>1. Len(s) \in Nat \ {0} /\ Head(s) = s[1]
    BY <1>5
  <2>2. /\ DOMAIN r = 1 .. Len(s) - 1
        /\ \A k \in 1 .. Len(s) - 1 : r[k] = s[k + 1]
    BY <1>5
  <2> HIDE DEF r
  <2>3. ToSet(r) = {r[k] : k \in 1 .. Len(s) - 1}
    BY <2>2 DEF ToSet
  <2>4. Head(s) \in ToSet(s)
    BY <1>2, <2>1
  <2>5. \A k \in 1 .. Len(s) - 1 : k + 1 \in 1 .. Len(s)
    BY <2>1
  <2>6. ToSet(r) \subseteq ToSet(s)
    BY <1>2, <2>2, <2>3, <2>5
  <2>7. \A k \in 1 .. Len(s) : k = 1 \/ (k - 1 \in 1 .. Len(s) - 1 /\ (k - 1) + 1 = k)
    BY <2>1
  <2>8. ASSUME NEW x \in ToSet(s) PROVE x \in ToSet(r) \cup {Head(s)}
    <3>1. PICK k \in 1 .. Len(s) : x = s[k]
      BY <1>2
    <3>2. CASE k = 1
      BY <2>1, <3>1, <3>2
    <3>3. CASE k - 1 \in 1 .. Len(s) - 1 /\ (k - 1) + 1 = k
      <4>1. r[k - 1] = x
        BY <2>2, <3>1, <3>3
      <4> QED
        BY <2>3, <3>3, <4>1
    <3> QED
      BY <2>7, <3>2, <3>3
  <2> QED
    BY <2>1, <2>4, <2>6, <2>8 DEF r
<1> QED
  BY <1>2, <1>3, <1>4, <1>5

\* A list without repetitions stays so under a push of a new element and a pop.
LEMMA DistinctFacts ==
  ASSUME NEW S, NEW s \in Seq(S), Distinct(s)
  PROVE  /\ \A x : x \notin ToSet(s) => Distinct(Append(s, x))
         /\ s # <<>> => Distinct(Tail(s)) /\ Head(s) \notin ToSet(Tail(s))
<1>1. Len(s) \in Nat /\ \A i, j \in 1 .. Len(s) : s[i] = s[j] => i = j
  BY DEF Distinct
<1>2. ASSUME NEW x, x \notin ToSet(s) PROVE Distinct(Append(s, x))
  <2>1. \A i \in 1 .. Len(s) : s[i] # x
    BY <1>2, ToSetFacts
  <2>2. /\ Len(Append(s, x)) = Len(s) + 1
        /\ \A k \in 1 .. Len(s) : Append(s, x)[k] = s[k]
        /\ Append(s, x)[Len(s) + 1] = x
    OBVIOUS
  <2>3. \A k \in 1 .. Len(s) + 1 : k \in 1 .. Len(s) \/ k = Len(s) + 1
    BY <1>1
  <2> QED
    BY <1>1, <2>1, <2>2, <2>3 DEF Distinct
<1>3. ASSUME s # <<>>
      PROVE  Distinct(Tail(s)) /\ Head(s) \notin ToSet(Tail(s))
  <2>1. /\ Len(s) \in Nat \ {0} /\ Head(s) = s[1]
        /\ Tail(s) \in Seq(S) /\ Len(Tail(s)) = Len(s) - 1
        /\ \A k \in 1 .. Len(s) - 1 : Tail(s)[k] = s[k + 1]
    BY <1>3
  <2>2. \A k \in 1 .. Len(s) - 1 : k + 1 \in 1 .. Len(s) /\ k + 1 # 1
    BY <2>1
  <2>3. Distinct(Tail(s))
    BY <1>1, <2>1, <2>2 DEF Distinct
  <2>4. \A k \in 1 .. Len(s) - 1 : Tail(s)[k] # s[1]
    <3>1. 1 \in 1 .. Len(s)
      BY <2>1
    <3> QED
      BY <1>1, <2>1, <2>2, <3>1
  <2>5. ToSet(Tail(s)) = {Tail(s)[k] : k \in 1 .. Len(s) - 1}
    BY <2>1, ToSetFacts
  <2> QED
    BY <2>1, <2>3, <2>4, <2>5
<1> QED
  BY <1>2, <1>3

\* The arrays of xrp_wait_any.
LEMMA ArrayFacts ==
  ASSUME NEW a \in Arrays
  PROVE  /\ a \in Seq(Cmd) /\ Len(a) \in Index /\ DOMAIN a = 1 .. Len(a)
         /\ \A i, j \in 1 .. Len(a) : a[i] = a[j] => i = j
         /\ \A i \in 1 .. Len(a) : a[i] \in Cmd \ Silent
<1>1. PICK n \in Index : a \in [1 .. n -> Cmd \ Silent]
  BY DEF Arrays
<1>2. n \in Nat
  BY <1>1, QueueAssumption DEF Index
<1>3. a \in Seq(Cmd) /\ Len(a) = n
  BY <1>1, <1>2
<1> QED
  BY <1>1, <1>3 DEF Arrays, IsInjective

\* Where a thread in a call of xrp_wait or xrp_wait_any is in its array.
LEMMA CallFacts ==
  ASSUME TypeOK, NEW t \in Thread, Call(t)
  PROVE  /\ At(t) \in {"wait", "waiting"} =>
              /\ caller[t].array[1] \in caller[t].holds
              /\ caller[t].array[1] \in Cmd
              /\ ToSet(caller[t].array) = {caller[t].array[1]}
         /\ InAny(t) =>
              /\ caller[t].array \in Arrays
              /\ Len(caller[t].array) \in Index
              /\ 1 .. caller[t].n \subseteq 1 .. Len(caller[t].array)
              /\ 1 .. Len(caller[t].array) \subseteq Index
              /\ \A j \in 1 .. Len(caller[t].array) :
                   /\ caller[t].array[j] \in caller[t].holds
                   /\ caller[t].array[j] \in Cmd \ Silent
              /\ LinkedAt(t) \subseteq 1 .. Len(caller[t].array)
         /\ At(t) = "link" => caller[t].i \in 1 .. Len(caller[t].array)
         /\ At(t) = "unlink" /\ caller[t].i <= caller[t].n =>
              caller[t].i \in 1 .. Len(caller[t].array)
<1>1. /\ caller[t].holds \in SUBSET Cmd /\ caller[t].array \in Seq(Cmd)
      /\ caller[t].i \in Nat /\ caller[t].n \in Nat
  BY Fields
<1>2. ASSUME At(t) \in {"wait", "waiting"}
      PROVE  /\ caller[t].array[1] \in caller[t].holds
             /\ caller[t].array[1] \in Cmd
             /\ ToSet(caller[t].array) = {caller[t].array[1]}
  <2>1. PICK c \in caller[t].holds : caller[t].array = <<c>>
    BY <1>2 DEF Call
  <2>2. <<c>>[1] = c /\ ToSet(<<c>>) = {c}
    BY DEF ToSet
  <2> QED
    BY <1>1, <2>1, <2>2
<1>3. ASSUME InAny(t)
      PROVE  /\ caller[t].array \in Arrays
             /\ Len(caller[t].array) \in Index
             /\ 1 .. caller[t].n \subseteq 1 .. Len(caller[t].array)
             /\ 1 .. Len(caller[t].array) \subseteq Index
             /\ \A j \in 1 .. Len(caller[t].array) :
                  /\ caller[t].array[j] \in caller[t].holds
                  /\ caller[t].array[j] \in Cmd \ Silent
  <2> DEFINE a == caller[t].array
  <2>1. /\ a \in Arrays /\ ToSet(a) \subseteq caller[t].holds
        /\ caller[t].n <= Len(a)
    BY <1>3 DEF Call
  <2>2. /\ Len(a) \in Index /\ DOMAIN a = 1 .. Len(a)
        /\ \A i \in 1 .. Len(a) : a[i] \in Cmd \ Silent
    BY <2>1, ArrayFacts
  <2>3. Len(a) \in Nat /\ MaxArray \in Nat
    BY <2>2, QueueAssumption DEF Index
  <2>4. \A j \in 1 .. Len(a) : a[j] \in ToSet(a)
    BY <1>1, ToSetFacts
  <2>5. 1 .. caller[t].n \subseteq 1 .. Len(a)
    BY <1>1, <2>1, <2>3
  <2>6. 1 .. Len(a) \subseteq Index
    BY <2>2, <2>3 DEF Index
  <2> QED
    BY <2>1, <2>2, <2>4, <2>5, <2>6
<1>4. At(t) = "link" => caller[t].i \in 1 .. Len(caller[t].array)
  BY <1>3 DEF Call, InAny
<1>5. At(t) = "unlink" /\ caller[t].i <= caller[t].n =>
        caller[t].i \in 1 .. Len(caller[t].array)
  <2> SUFFICES ASSUME At(t) = "unlink", caller[t].i <= caller[t].n
               PROVE  caller[t].i \in 1 .. Len(caller[t].array)
    OBVIOUS
  <2>1. caller[t].i \in 1 .. caller[t].n
    BY <1>1 DEF Call
  <2> QED
    BY <1>3, <2>1 DEF InAny
<1>6. ASSUME InAny(t) PROVE LinkedAt(t) \subseteq 1 .. Len(caller[t].array)
  <2>1. CASE At(t) = "link"
    <3>1. caller[t].i \in 1 .. Len(caller[t].array) /\ Len(caller[t].array) \in Nat
      BY <1>1, <1>4, <2>1
    <3>2. LinkedAt(t) = 1 .. caller[t].i - 1
      BY <2>1 DEF LinkedAt
    <3> QED
      BY <3>1, <3>2
  <2>2. CASE At(t) \in {"gwait", "gwaiting"}
    BY <1>3, <1>6, <2>2 DEF LinkedAt
  <2>3. CASE At(t) = "unlink"
    <3>1. LinkedAt(t) = caller[t].i .. caller[t].n
      BY <2>3 DEF LinkedAt
    <3>2. caller[t].i >= 1
      BY <1>1, <2>3 DEF Call
    <3>3. LinkedAt(t) \subseteq 1 .. caller[t].n
      BY <1>1, <3>1, <3>2
    <3> QED
      BY <1>3, <1>6, <3>3
  <2> QED
    BY <1>6, <2>1, <2>2, <2>3 DEF InAny
<1> QED
  BY <1>2, <1>3, <1>4, <1>5, <1>6

\* A reference that is somebody's is counted.
LEMMA Counted ==
  ASSUME TypeOK, EventRefs, NEW t \in Thread, NEW c \in Cmd,
         c \in caller[t].holds
  PROVE  event[c].ref > 0
<1>1. IsFiniteSet(Holders(c))
  BY QueueAssumption, FS_Subset DEF Holders
<1>2. PICK n \in Nat : n = Cardinality(Holders(c))
  BY <1>1, FS_CardinalityType
<1>3. n # 0
  BY <1>1, <1>2, FS_EmptySet DEF Holders
<1>4. event[c].ref = n + AskedRef(c)
  BY <1>2 DEF EventRefs
<1>5. AskedRef(c) \in Nat
  BY DEF AskedRef
<1> QED
  BY <1>2, <1>3, <1>4, <1>5

\* The queue is there for whoever keeps it.
LEMMA KeptCounted ==
  ASSUME TypeOK, QueueRefs
  PROVE  /\ IsFiniteSet(Keepers) /\ IsFiniteSet(LiveEvents)
         /\ Cardinality(Keepers) \in Nat /\ Cardinality(LiveEvents) \in Nat
         /\ \A t \in Thread : caller[t].keeps => queue.ref > 0
         /\ \A c \in LiveEvents : queue.ref > 0
<1>1. IsFiniteSet(Keepers) /\ IsFiniteSet(LiveEvents)
  BY QueueAssumption, FS_Subset DEF Keepers, QueueRefs
<1>2. PICK n \in Nat, m \in Nat :
        n = Cardinality(Keepers) /\ m = Cardinality(LiveEvents)
  BY <1>1, FS_CardinalityType
<1>3. queue.ref = n + m
  BY <1>2 DEF QueueRefs
<1>4. ASSUME NEW t \in Thread, caller[t].keeps PROVE n # 0
  <2>1. t \in Keepers
    BY <1>4 DEF Keepers
  <2> QED
    BY <1>1, <1>2, <2>1, FS_EmptySet
<1>5. ASSUME NEW c \in LiveEvents PROVE m # 0
  BY <1>1, <1>2, <1>5, FS_EmptySet
<1> QED
  BY <1>1, <1>2, <1>3, <1>4, <1>5

\* Whoever holds an event, or has it asked for, holds one that exists.
LEMMA HeldLive ==
  ASSUME TypeOK, EventStates, EventRefs, NEW t \in Thread, NEW c \in Cmd,
         c \in caller[t].holds
  PROVE  c \in LiveEvents /\ ~Freed(c)
<1>1. event[c].ref > 0
  BY Counted
<1>2. event[c].st # "NONE"
  BY DEF EventStates, Holders
<1> QED
  BY <1>1, <1>2 DEF LiveEvents, Freed

\* So is the event of the worker's request.
LEMMA AskedLive ==
  ASSUME TypeOK, Requests, EventStates, EventRefs,
         worker.at \in {"signal", "walk", "drop"}
  PROVE  /\ worker.cur \in Cmd \ Silent
         /\ worker.cur \in LiveEvents /\ ~Freed(worker.cur)
         /\ AskedRef(worker.cur) = 1
<1>0. Nil \notin Cmd /\ "PENDING" # "NONE" /\ "NONE" \notin Outcome
  BY QueueAssumption
<1>1. worker.cur \in ToSet(ran) \ Silent
  BY DEF Requests
<1>2. ran \in Seq(Cmd) /\ ToSet(ran) \subseteq Cmd
  BY Fields, ToSetFacts
<1>3. AskedRef(worker.cur) = 1
  BY <1>0, <1>1, <1>2 DEF AskedRef, Asked
<1>4. IsFiniteSet(Holders(worker.cur))
  BY QueueAssumption, FS_Subset DEF Holders
<1>5. PICK n \in Nat : n = Cardinality(Holders(worker.cur))
  BY <1>4, FS_CardinalityType
<1>6. event[worker.cur].ref = n + 1
  BY <1>1, <1>2, <1>3, <1>5 DEF EventRefs
<1>7. event[worker.cur].st # "NONE"
  <2>1. CASE worker.at = "signal"
    BY <1>1, <2>1 DEF EventStates
  <2>2. CASE worker.at \in {"walk", "drop"}
    BY <1>0, <2>2 DEF EventStates, Complete
  <2> QED
    BY <2>1, <2>2
<1> QED
  BY <1>1, <1>2, <1>3, <1>5, <1>6, <1>7 DEF LiveEvents, Freed

(***************************************************************************)
(* What each step does to the records it changes.                          *)
(***************************************************************************)

Ats == {"idle", "wait", "waiting", "link", "gwait", "gwaiting", "unlink",
        "destroy", "join"}
CallerT == [at : Ats, keeps : BOOLEAN, holds : SUBSET Cmd, array : Seq(Cmd),
            i : Nat, n : Nat, rv : Nat]
EventT == [st : Outcome \cup {"NONE", "PENDING"}, ref : Nat,
           group : Thread \cup {Nil}, link : Link \cup {Nil}]
LinkT == [group : Thread \cup {Nil}, next : Link \cup {Nil},
          prev : Link \cup {Nil}]
WorkerT == [at : {"look", "asleep", "run", "signal", "walk", "drop", "gone"},
            cur : Cmd \cup {Nil}, st : Outcome \cup {"PENDING"},
            gp : Thread \cup {Nil}, lk : Link \cup {Nil}]
QueueT == [list : Seq(Cmd), exit : BOOLEAN, ref : Nat, freed : BOOLEAN]

\* What one thread's record becomes.
PutCaller(t, at, keeps, holds, array, i, n, rv) ==
  /\ caller' \in [Thread -> CallerT]
  /\ caller'[t].at = at /\ caller'[t].keeps = keeps
  /\ caller'[t].holds = holds /\ caller'[t].array = array
  /\ caller'[t].i = i /\ caller'[t].n = n /\ caller'[t].rv = rv
  /\ \A u \in Thread : u # t => caller'[u] = caller[u]

\* What one event becomes.
PutEvent(c, st, ref, waiting, link) ==
  /\ event' \in [Cmd -> EventT]
  /\ event'[c].st = st /\ event'[c].ref = ref
  /\ event'[c].group = waiting /\ event'[c].link = link
  /\ \A d \in Cmd : d # c => event'[d] = event[d]

\* What the queue becomes.
PutQueue(list, exit, ref, freed) ==
  /\ queue' \in QueueT /\ queue'.list = list /\ queue'.exit = exit
  /\ queue'.ref = ref /\ queue'.freed = freed

\* What the worker becomes.
PutWorker(at, cur, st, gp, lk) ==
  /\ worker' \in WorkerT /\ worker'.at = at /\ worker'.cur = cur
  /\ worker'.st = st /\ worker'.gp = gp /\ worker'.lk = lk

\* The variables have these types.
LEMMA TypeSets ==
  TypeOK <=> /\ queue \in QueueT /\ ran \in Seq(Cmd) /\ worker \in WorkerT
             /\ event \in [Cmd -> EventT] /\ caller \in [Thread -> CallerT]
             /\ group \in [Thread -> Outcome \cup {"NONE", "PENDING"}]
             /\ links \in [Thread -> [Index -> LinkT]]
  BY DEF TypeOK, QueueT, WorkerT, EventT, CallerT, LinkT, Ats

\* A caller's record is made of these.
IsCaller(e, at, keeps, holds, array, i, n, rv) ==
  e = [at |-> at, keeps |-> keeps, holds |-> holds, array |-> array,
       i |-> i, n |-> n, rv |-> rv]

\* A record of a type is what its fields are.
LEMMA CallerIs ==
  ASSUME NEW e \in CallerT
  PROVE  e = [at |-> e.at, keeps |-> e.keeps, holds |-> e.holds,
              array |-> e.array, i |-> e.i, n |-> e.n, rv |-> e.rv]
  BY DEF CallerT

\* One field of a caller's record.
LEMMA PutField ==
  ASSUME NEW r \in CallerT
  PROVE  /\ \A x \in Ats : [r EXCEPT !.at = x] \in CallerT
         /\ \A x \in BOOLEAN : [r EXCEPT !.keeps = x] \in CallerT
         /\ \A x \in SUBSET Cmd : [r EXCEPT !.holds = x] \in CallerT
         /\ \A x \in Seq(Cmd) : [r EXCEPT !.array = x] \in CallerT
         /\ \A x \in Nat : /\ [r EXCEPT !.i = x] \in CallerT
                           /\ [r EXCEPT !.n = x] \in CallerT
                           /\ [r EXCEPT !.rv = x] \in CallerT
  BY DEF CallerT

\* What a thread keeps and holds.
LEMMA PutDrop ==
  ASSUME NEW r \in CallerT, NEW x0 \in BOOLEAN, NEW x1 \in SUBSET Cmd, NEW x2 \in Ats
  PROVE  /\ [r EXCEPT !.keeps = x0, !.holds = x1, !.at = x2] \in CallerT
         /\ IsCaller([r EXCEPT !.keeps = x0, !.holds = x1, !.at = x2],
                     x2, x0, x1, r.array, r.i, r.n, r.rv)
<1> DEFINE e == [r EXCEPT !.keeps = x0, !.holds = x1, !.at = x2]
<1> DEFINE r1 == [r EXCEPT !.keeps = x0]
<1> DEFINE r2 == [r1 EXCEPT !.holds = x1]
<1> DEFINE r3 == [r2 EXCEPT !.at = x2]
<1>1. r1 \in CallerT
  BY PutField
<1>2. r2 \in CallerT
  <2> HIDE DEF r1
  <2> QED
    BY <1>1, PutField
<1>3. r3 \in CallerT
  <2> HIDE DEF r2
  <2> QED
    BY <1>2, PutField
<1>4. e \in CallerT
  BY <1>3
<1>5. DOMAIN r = {"at", "keeps", "holds", "array", "i", "n", "rv"}
  BY DEF CallerT
<1>6. /\ e.at = x2
      /\ e.keeps = x0
      /\ e.holds = x1
      /\ e.array = r.array
      /\ e.i = r.i
      /\ e.n = r.n
      /\ e.rv = r.rv
  BY <1>5
<1> HIDE DEF e
<1>7. e = [at |-> e.at, keeps |-> e.keeps, holds |-> e.holds,
           array |-> e.array, i |-> e.i, n |-> e.n, rv |-> e.rv]
  BY <1>4, CallerIs
<1>8. e =
        [at |-> x2, keeps |-> x0, holds |-> x1, array |-> r.array,
         i |-> r.i, n |-> r.n, rv |-> r.rv]
  BY <1>6, <1>7
<1> QED
  BY <1>4, <1>8 DEF e, IsCaller

\* The start and the end of a call.
LEMMA PutCall ==
  ASSUME NEW r \in CallerT, NEW x0 \in Ats, NEW x1 \in Seq(Cmd), NEW x2 \in Nat,
         NEW x3 \in Nat, NEW x4 \in Nat
  PROVE  /\ [r EXCEPT !.at = x0, !.array = x1, !.i = x2, !.n = x3, !.rv = x4] \in CallerT
         /\ IsCaller([r EXCEPT !.at = x0, !.array = x1, !.i = x2, !.n = x3, !.rv = x4],
                     x0, r.keeps, r.holds, x1, x2, x3, x4)
<1> DEFINE e == [r EXCEPT !.at = x0, !.array = x1, !.i = x2, !.n = x3, !.rv = x4]
<1> DEFINE r1 == [r EXCEPT !.at = x0]
<1> DEFINE r2 == [r1 EXCEPT !.array = x1]
<1> DEFINE r3 == [r2 EXCEPT !.i = x2]
<1> DEFINE r4 == [r3 EXCEPT !.n = x3]
<1> DEFINE r5 == [r4 EXCEPT !.rv = x4]
<1>1. r1 \in CallerT
  BY PutField
<1>2. r2 \in CallerT
  <2> HIDE DEF r1
  <2> QED
    BY <1>1, PutField
<1>3. r3 \in CallerT
  <2> HIDE DEF r2
  <2> QED
    BY <1>2, PutField
<1>4. r4 \in CallerT
  <2> HIDE DEF r3
  <2> QED
    BY <1>3, PutField
<1>5. r5 \in CallerT
  <2> HIDE DEF r4
  <2> QED
    BY <1>4, PutField
<1>6. e \in CallerT
  BY <1>5
<1>7. DOMAIN r = {"at", "keeps", "holds", "array", "i", "n", "rv"}
  BY DEF CallerT
<1>8. /\ e.at = x0
      /\ e.keeps = r.keeps
      /\ e.holds = r.holds
      /\ e.array = x1
      /\ e.i = x2
      /\ e.n = x3
      /\ e.rv = x4
  BY <1>7
<1> HIDE DEF e
<1>9. e = [at |-> e.at, keeps |-> e.keeps, holds |-> e.holds,
           array |-> e.array, i |-> e.i, n |-> e.n, rv |-> e.rv]
  BY <1>6, CallerIs
<1>10. e =
        [at |-> x0, keeps |-> r.keeps, holds |-> r.holds, array |-> x1,
         i |-> x2, n |-> x3, rv |-> x4]
  BY <1>8, <1>9
<1> QED
  BY <1>6, <1>10 DEF e, IsCaller

\* The next round of a call.
LEMMA PutNext ==
  ASSUME NEW r \in CallerT, NEW x0 \in Nat, NEW x1 \in Ats
  PROVE  /\ [r EXCEPT !.i = x0, !.at = x1] \in CallerT
         /\ IsCaller([r EXCEPT !.i = x0, !.at = x1],
                     x1, r.keeps, r.holds, r.array, x0, r.n, r.rv)
<1> DEFINE e == [r EXCEPT !.i = x0, !.at = x1]
<1> DEFINE r1 == [r EXCEPT !.i = x0]
<1> DEFINE r2 == [r1 EXCEPT !.at = x1]
<1>1. r1 \in CallerT
  BY PutField
<1>2. r2 \in CallerT
  <2> HIDE DEF r1
  <2> QED
    BY <1>1, PutField
<1>3. e \in CallerT
  BY <1>2
<1>4. DOMAIN r = {"at", "keeps", "holds", "array", "i", "n", "rv"}
  BY DEF CallerT
<1>5. /\ e.at = x1
      /\ e.keeps = r.keeps
      /\ e.holds = r.holds
      /\ e.array = r.array
      /\ e.i = x0
      /\ e.n = r.n
      /\ e.rv = r.rv
  BY <1>4
<1> HIDE DEF e
<1>6. e = [at |-> e.at, keeps |-> e.keeps, holds |-> e.holds,
           array |-> e.array, i |-> e.i, n |-> e.n, rv |-> e.rv]
  BY <1>3, CallerIs
<1>7. e =
        [at |-> x1, keeps |-> r.keeps, holds |-> r.holds, array |-> r.array,
         i |-> x0, n |-> r.n, rv |-> r.rv]
  BY <1>5, <1>6
<1> QED
  BY <1>3, <1>7 DEF e, IsCaller

\* The head of an event's chain.
LEMMA PutHead ==
  ASSUME NEW r \in EventT, NEW g \in Thread \cup {Nil}, NEW l \in Link \cup {Nil}
  PROVE  /\ [r EXCEPT !.group = g, !.link = l] \in EventT
         /\ [r EXCEPT !.group = g, !.link = l] =
              [st |-> r.st, ref |-> r.ref, group |-> g, link |-> l]
<1> DEFINE e == [r EXCEPT !.group = g, !.link = l]
           r1 == [r EXCEPT !.group = g]
<1>1. r1 \in EventT
  BY DEF EventT
<1>2. [r1 EXCEPT !.link = l] \in EventT
  <2> HIDE DEF r1
  <2> QED
    BY <1>1 DEF EventT
<1>3. e \in EventT
  BY <1>2
<1>4. DOMAIN r = {"st", "ref", "group", "link"}
  BY DEF EventT
<1>5. e.st = r.st /\ e.ref = r.ref /\ e.group = g /\ e.link = l
  BY <1>4
<1> HIDE DEF e
<1>6. e = [st |-> e.st, ref |-> e.ref, group |-> e.group, link |-> e.link]
  BY <1>3 DEF EventT
<1> QED
  BY <1>3, <1>5, <1>6 DEF e

\* The state of an event and its references.
LEMMA PutNew ==
  ASSUME NEW r \in EventT, NEW x \in Outcome \cup {"NONE", "PENDING"}, NEW m \in Nat
  PROVE  [r EXCEPT !.st = x, !.ref = m] =
           [st |-> x, ref |-> m, group |-> r.group, link |-> r.link]
<1> DEFINE e == [r EXCEPT !.st = x, !.ref = m]
           r1 == [r EXCEPT !.st = x]
<1>1. r1 \in EventT
  BY DEF EventT
<1>2. [r1 EXCEPT !.ref = m] \in EventT
  <2> HIDE DEF r1
  <2> QED
    BY <1>1 DEF EventT
<1>3. e \in EventT
  BY <1>2
<1>4. DOMAIN r = {"st", "ref", "group", "link"}
  BY DEF EventT
<1>5. e.st = x /\ e.ref = m /\ e.group = r.group /\ e.link = r.link
  BY <1>4
<1> HIDE DEF e
<1>6. e = [st |-> e.st, ref |-> e.ref, group |-> e.group, link |-> e.link]
  BY <1>3 DEF EventT
<1> QED
  BY <1>5, <1>6 DEF e

\* A push with an event: the caller and the request refer to it.
LEMMA EnqueueEffect ==
  ASSUME TypeOK,
         NEW t \in Thread, NEW c \in Cmd, c \notin Silent, Enqueue(t, c)
  PROVE  /\ PutCaller(t, caller[t].at, caller[t].keeps, caller[t].holds \cup {c},
            caller[t].array, caller[t].i, caller[t].n, caller[t].rv)
         /\ PutEvent(c, "PENDING", 2, event[c].group, event[c].link)
         /\ PutQueue(Append(queue.list, c), queue.exit, queue.ref + 1, queue.freed)
<1>0. TypeOK
  OBVIOUS
<1>10. caller' = [caller EXCEPT ![t].holds = @ \cup {c}]
  BY <1>0, Zenon DEF Enqueue, EnqueueWith, QueueT
<1>11. caller \in [Thread -> CallerT]
  BY <1>0, TypeSets
<1>12. caller'[t] =
        [caller[t] EXCEPT !.holds = @ \cup {c}]
  BY <1>10, <1>11, Zenon
<1>20. caller'[t] =
        [at |-> caller[t].at, keeps |-> caller[t].keeps,
         holds |-> caller[t].holds \cup {c}, array |-> caller[t].array,
         i |-> caller[t].i, n |-> caller[t].n, rv |-> caller[t].rv]
  <2>1. ASSUME NEW r, NEW h,
               r = [at |-> r.at, keeps |-> r.keeps, holds |-> r.holds,
                    array |-> r.array, i |-> r.i, n |-> r.n, rv |-> r.rv]
        PROVE  [r EXCEPT !.holds = h] =
                 [at |-> r.at, keeps |-> r.keeps, holds |-> h,
                  array |-> r.array, i |-> r.i, n |-> r.n, rv |-> r.rv]
    BY <2>1
  <2>2. caller[t] \in CallerT
    BY <1>11
  <2>3. caller[t] = [at |-> caller[t].at, keeps |-> caller[t].keeps,
                     holds |-> caller[t].holds, array |-> caller[t].array,
                     i |-> caller[t].i, n |-> caller[t].n, rv |-> caller[t].rv]
    BY <2>2, CallerIs
  <2>4. [caller[t] EXCEPT !.holds = @ \cup {c}] =
          [at |-> caller[t].at, keeps |-> caller[t].keeps,
           holds |-> caller[t].holds \cup {c}, array |-> caller[t].array,
           i |-> caller[t].i, n |-> caller[t].n, rv |-> caller[t].rv]
    BY <2>1, <2>3
  <2> QED
    BY <1>12, <2>4
<1>21. caller'[t] \in CallerT
  BY <1>0, <1>20, <1>11 DEF CallerT, Ats
<1>22. PutCaller(t, caller[t].at, caller[t].keeps, caller[t].holds \cup {c},
        caller[t].array, caller[t].i, caller[t].n, caller[t].rv)
  BY <1>10, <1>11, <1>20, <1>21 DEF PutCaller
<1>15. event' = [event EXCEPT ![c].st = "PENDING", ![c].ref = 2]
  BY <1>0, Zenon DEF Enqueue, EnqueueWith, QueueT
<1>16. event \in [Cmd -> EventT]
  BY <1>0, TypeSets
<1>17. event'[c] =
        [event[c] EXCEPT !.st = "PENDING", !.ref = 2]
  BY <1>15, <1>16, Zenon
<1>23. event'[c] =
        [st |-> "PENDING", ref |-> 2, group |-> event[c].group,
         link |-> event[c].link]
  <2>1. event[c] \in EventT
    BY <1>16
  <2>2. ASSUME NEW r \in EventT
        PROVE  [r EXCEPT !.st = "PENDING", !.ref = 2] =
                 [st |-> "PENDING", ref |-> 2, group |-> r.group, link |-> r.link]
    BY PutNew
  <2> QED
    BY <1>17, <2>1, <2>2
<1>24. event'[c] \in EventT
  BY <1>0, <1>23, <1>16 DEF EventT
<1>25. PutEvent(c, "PENDING", 2, event[c].group, event[c].link)
  BY <1>15, <1>16, <1>23, <1>24 DEF PutEvent
<1>40. /\ queue' = [list |-> Append(queue.list, c), exit |-> queue.exit,
             ref |-> queue.ref + 1, freed |-> queue.freed]
  BY <1>0, TypeSets DEF Enqueue, EnqueueWith, QueueT
<1>41. queue' \in QueueT
  BY <1>0, <1>40, Fields DEF QueueT
<1>45. PutQueue(Append(queue.list, c), queue.exit, queue.ref + 1, queue.freed)
  BY <1>40, <1>41 DEF PutQueue, PutWorker
<1> QED
  BY <1>22, <1>25, <1>45

\* A push without an event.
LEMMA SilentEffect ==
  ASSUME TypeOK,
         NEW t \in Thread, NEW c \in Cmd, c \in Silent, Enqueue(t, c)
  PROVE  /\ PutQueue(Append(queue.list, c), queue.exit, queue.ref, queue.freed)
         /\ UNCHANGED <<event, caller>>
<1>0. TypeOK
  OBVIOUS
<1>40. /\ queue' = [list |-> Append(queue.list, c), exit |-> queue.exit,
             ref |-> queue.ref, freed |-> queue.freed]
      /\ UNCHANGED <<event, caller>>
  BY <1>0, TypeSets DEF Enqueue, EnqueueWith, QueueT
<1>41. queue' \in QueueT
  BY <1>0, <1>40, Fields DEF QueueT
<1>45. PutQueue(Append(queue.list, c), queue.exit, queue.ref, queue.freed)
  BY <1>40, <1>41 DEF PutQueue, PutWorker
<1> QED
  BY <1>40, <1>45

\* Another thread gets a reference.
LEMMA ShareEffect ==
  ASSUME TypeOK,
         NEW t \in Thread, NEW u \in Thread, NEW c \in Cmd, Share(t, u, c)
  PROVE  /\ PutCaller(u, caller[u].at, caller[u].keeps, caller[u].holds \cup {c},
            caller[u].array, caller[u].i, caller[u].n, caller[u].rv)
         /\ PutEvent(c, event[c].st, event[c].ref + 1, event[c].group,
            event[c].link)
<1>0. TypeOK
  OBVIOUS
<1>20. caller'[u] =
        [at |-> caller[u].at, keeps |-> caller[u].keeps,
         holds |-> caller[u].holds \cup {c}, array |-> caller[u].array,
         i |-> caller[u].i, n |-> caller[u].n, rv |-> caller[u].rv]
  BY <1>0, TypeSets DEF Share, CallerT, EventT
<1>21. caller'[u] \in CallerT
  BY <1>0, <1>20, TypeSets DEF CallerT, Ats
<1>22. PutCaller(u, caller[u].at, caller[u].keeps, caller[u].holds \cup {c},
        caller[u].array, caller[u].i, caller[u].n, caller[u].rv)
  BY <1>0, <1>20, <1>21, TypeSets DEF PutCaller, Share
<1>23. event'[c] =
        [st |-> event[c].st, ref |-> event[c].ref + 1,
         group |-> event[c].group, link |-> event[c].link]
  BY <1>0, TypeSets DEF Share, CallerT, EventT
<1>24. event'[c] \in EventT
  BY <1>0, <1>23, TypeSets DEF EventT
<1>25. PutEvent(c, event[c].st, event[c].ref + 1, event[c].group,
        event[c].link)
  BY <1>0, <1>23, <1>24, TypeSets DEF PutEvent, Share
<1> QED
  BY <1>22, <1>25

\* A thread drops its reference to the queue.
LEMMA ReleaseQueueEffect ==
  ASSUME TypeOK, QueueRefs,
         NEW t \in Thread, ReleaseQueue(t)
  PROVE  /\ PutCaller(t, IF queue.ref = 1 THEN "destroy" ELSE "idle", FALSE,
            caller[t].holds, caller[t].array, caller[t].i, caller[t].n,
            caller[t].rv)
         /\ PutQueue(queue.list, queue.exit, queue.ref - 1, queue.freed)
         /\ queue.ref - 1 \in Nat
<1>0. TypeOK
  OBVIOUS
<1>1. queue.ref - 1 \in Nat
  BY KeptCounted, Fields DEF ReleaseQueue
<1>10. caller' = [caller EXCEPT ![t].keeps = FALSE, ![t].holds = caller[t].holds,
                  ![t].at = IF queue.ref = 1 THEN "destroy" ELSE "idle"]
  BY <1>0, <1>1, Zenon DEF ReleaseQueue, DropQueue, QueueT
<1>11. caller \in [Thread -> CallerT]
  BY <1>0, TypeSets
<1>12. caller'[t] =
        [caller[t] EXCEPT !.keeps = FALSE, !.holds = caller[t].holds,
                  !.at = IF queue.ref = 1 THEN "destroy" ELSE "idle"]
  BY <1>1, <1>10, <1>11, Zenon
<1>13. ASSUME NEW r \in CallerT,
             NEW k \in BOOLEAN,
             NEW h \in SUBSET Cmd,
             NEW a \in Ats,
             r = caller[t],
             k = FALSE,
             h = caller[t].holds,
             a = IF queue.ref = 1 THEN "destroy" ELSE "idle"
      PROVE  /\ caller'[t] \in CallerT
             /\ caller'[t] =
                  [at |-> IF queue.ref = 1 THEN "destroy" ELSE "idle",
                   keeps |-> FALSE, holds |-> caller[t].holds,
                   array |-> caller[t].array, i |-> caller[t].i, n |-> caller[t].n,
                   rv |-> caller[t].rv]
  <2>1. [r EXCEPT !.keeps = k, !.holds = h, !.at = a] \in CallerT
    BY PutDrop
  <2>2. IsCaller([r EXCEPT !.keeps = k, !.holds = h, !.at = a],
                a, k, h, r.array, r.i, r.n, r.rv)
    BY PutDrop
  <2>3. caller'[t] = [r EXCEPT !.keeps = k, !.holds = h, !.at = a]
    BY <1>12, <1>13, Zenon
  <2> QED
    BY <1>13, <2>1, <2>2, <2>3 DEF IsCaller
<1>14. PICK r \in CallerT, k \in BOOLEAN, h \in SUBSET Cmd, a \in Ats :
             /\ r = caller[t]
             /\ k = FALSE
             /\ h = caller[t].holds
             /\ a = IF queue.ref = 1 THEN "destroy" ELSE "idle"
  BY <1>1, <1>11, Fields DEF Ats
<1>20. caller'[t] =
        [at |-> IF queue.ref = 1 THEN "destroy" ELSE "idle",
         keeps |-> FALSE, holds |-> caller[t].holds,
         array |-> caller[t].array, i |-> caller[t].i, n |-> caller[t].n,
         rv |-> caller[t].rv]
  BY <1>13, <1>14
<1>21. caller'[t] \in CallerT
  BY <1>13, <1>14
<1>22. PutCaller(t, IF queue.ref = 1 THEN "destroy" ELSE "idle", FALSE,
        caller[t].holds, caller[t].array, caller[t].i, caller[t].n,
        caller[t].rv)
  BY <1>1, <1>10, <1>11, <1>20, <1>21 DEF PutCaller
<1>40. /\ queue' = [list |-> queue.list, exit |-> queue.exit, ref |-> queue.ref - 1,
             freed |-> queue.freed]
      /\ queue.ref - 1 \in Nat
  BY <1>0, <1>1, TypeSets DEF ReleaseQueue, DropQueue, QueueT
<1>41. queue' \in QueueT
  BY <1>0, <1>1, <1>40, Fields DEF QueueT
<1>45. PutQueue(queue.list, queue.exit, queue.ref - 1, queue.freed)
  BY <1>40, <1>41 DEF PutQueue, PutWorker
<1> QED
  BY <1>22, <1>40, <1>45

\* A thread drops the last reference to an event, and with it one to the queue.
LEMMA ReleaseLastEffect ==
  ASSUME TypeOK, EventStates, EventRefs, QueueRefs,
         NEW t \in Thread, NEW c \in Cmd, event[c].ref = 1, ReleaseEvent(t, c)
  PROVE  /\ PutCaller(t, IF queue.ref = 1 THEN "destroy" ELSE "idle",
            caller[t].keeps, caller[t].holds \ {c}, caller[t].array,
            caller[t].i, caller[t].n, caller[t].rv)
         /\ PutEvent(c, event[c].st, event[c].ref - 1, event[c].group,
            event[c].link)
         /\ PutQueue(queue.list, queue.exit, queue.ref - 1, queue.freed)
         /\ queue.ref - 1 \in Nat
<1>0. TypeOK
  OBVIOUS
<1>1. c \in LiveEvents
  BY HeldLive DEF ReleaseEvent
<1>2. event[c].ref - 1 \in Nat /\ queue.ref - 1 \in Nat
  BY <1>1, KeptCounted, Fields DEF LiveEvents
<1>10. caller' = [caller EXCEPT ![t].keeps = caller[t].keeps, ![t].holds = caller[t].holds \ {c},
                  ![t].at = IF queue.ref = 1 THEN "destroy" ELSE "idle"]
  BY <1>0, <1>2, Zenon DEF ReleaseEvent, DropQueue, QueueT
<1>11. caller \in [Thread -> CallerT]
  BY <1>0, TypeSets
<1>12. caller'[t] =
        [caller[t] EXCEPT !.keeps = caller[t].keeps, !.holds = caller[t].holds \ {c},
                  !.at = IF queue.ref = 1 THEN "destroy" ELSE "idle"]
  BY <1>2, <1>10, <1>11, Zenon
<1>13. ASSUME NEW r \in CallerT,
             NEW k \in BOOLEAN,
             NEW h \in SUBSET Cmd,
             NEW a \in Ats,
             r = caller[t],
             k = caller[t].keeps,
             h = caller[t].holds \ {c},
             a = IF queue.ref = 1 THEN "destroy" ELSE "idle"
      PROVE  /\ caller'[t] \in CallerT
             /\ caller'[t] =
                  [at |-> IF queue.ref = 1 THEN "destroy" ELSE "idle",
                   keeps |-> caller[t].keeps, holds |-> caller[t].holds \ {c},
                   array |-> caller[t].array, i |-> caller[t].i, n |-> caller[t].n,
                   rv |-> caller[t].rv]
  <2>1. [r EXCEPT !.keeps = k, !.holds = h, !.at = a] \in CallerT
    BY PutDrop
  <2>2. IsCaller([r EXCEPT !.keeps = k, !.holds = h, !.at = a],
                a, k, h, r.array, r.i, r.n, r.rv)
    BY PutDrop
  <2>3. caller'[t] = [r EXCEPT !.keeps = k, !.holds = h, !.at = a]
    BY <1>12, <1>13, Zenon
  <2> QED
    BY <1>13, <2>1, <2>2, <2>3 DEF IsCaller
<1>14. PICK r \in CallerT, k \in BOOLEAN, h \in SUBSET Cmd, a \in Ats :
             /\ r = caller[t]
             /\ k = caller[t].keeps
             /\ h = caller[t].holds \ {c}
             /\ a = IF queue.ref = 1 THEN "destroy" ELSE "idle"
  BY <1>2, <1>11, Fields DEF Ats
<1>20. caller'[t] =
        [at |-> IF queue.ref = 1 THEN "destroy" ELSE "idle",
         keeps |-> caller[t].keeps, holds |-> caller[t].holds \ {c},
         array |-> caller[t].array, i |-> caller[t].i, n |-> caller[t].n,
         rv |-> caller[t].rv]
  BY <1>13, <1>14
<1>21. caller'[t] \in CallerT
  BY <1>13, <1>14
<1>22. PutCaller(t, IF queue.ref = 1 THEN "destroy" ELSE "idle",
        caller[t].keeps, caller[t].holds \ {c}, caller[t].array,
        caller[t].i, caller[t].n, caller[t].rv)
  BY <1>2, <1>10, <1>11, <1>20, <1>21 DEF PutCaller
<1>15. event' = [event EXCEPT ![c].ref = @ - 1]
  BY <1>0, <1>2, Zenon DEF ReleaseEvent, DropQueue, QueueT
<1>16. event \in [Cmd -> EventT]
  BY <1>0, TypeSets
<1>17. event'[c] =
        [event[c] EXCEPT !.ref = @ - 1]
  BY <1>2, <1>15, <1>16, Zenon
<1>23. event'[c] =
        [st |-> event[c].st, ref |-> event[c].ref - 1,
         group |-> event[c].group, link |-> event[c].link]
  BY <1>2, <1>16, <1>17 DEF EventT
<1>24. event'[c] \in EventT
  BY <1>0, <1>2, <1>23, <1>16 DEF EventT
<1>25. PutEvent(c, event[c].st, event[c].ref - 1, event[c].group,
        event[c].link)
  BY <1>2, <1>15, <1>16, <1>23, <1>24 DEF PutEvent
<1>40. /\ queue' = [list |-> queue.list, exit |-> queue.exit, ref |-> queue.ref - 1,
             freed |-> queue.freed]
      /\ queue.ref - 1 \in Nat
  BY <1>0, <1>2, TypeSets DEF ReleaseEvent, DropQueue, QueueT
<1>41. queue' \in QueueT
  BY <1>0, <1>2, <1>40, Fields DEF QueueT
<1>45. PutQueue(queue.list, queue.exit, queue.ref - 1, queue.freed)
  BY <1>40, <1>41 DEF PutQueue, PutWorker
<1> QED
  BY <1>22, <1>25, <1>40, <1>45

\* A thread drops a reference to an event.
LEMMA ReleaseEffect ==
  ASSUME TypeOK, EventStates, EventRefs, QueueRefs,
         NEW t \in Thread, NEW c \in Cmd, event[c].ref # 1, ReleaseEvent(t, c)
  PROVE  /\ PutCaller(t, caller[t].at, caller[t].keeps, caller[t].holds \ {c},
            caller[t].array, caller[t].i, caller[t].n, caller[t].rv)
         /\ PutEvent(c, event[c].st, event[c].ref - 1, event[c].group,
            event[c].link)
         /\ UNCHANGED queue
<1>0. TypeOK
  OBVIOUS
<1>1. c \in LiveEvents
  BY HeldLive DEF ReleaseEvent
<1>2. event[c].ref - 1 \in Nat /\ queue.ref - 1 \in Nat
  BY <1>1, KeptCounted, Fields DEF LiveEvents
<1>10. caller' = [caller EXCEPT ![t].holds = @ \ {c}]
  BY <1>0, <1>2, Zenon DEF ReleaseEvent, DropQueue
<1>11. caller \in [Thread -> CallerT]
  BY <1>0, TypeSets
<1>12. caller'[t] =
        [caller[t] EXCEPT !.holds = @ \ {c}]
  BY <1>2, <1>10, <1>11, Zenon
<1>20. caller'[t] =
        [at |-> caller[t].at, keeps |-> caller[t].keeps,
         holds |-> caller[t].holds \ {c}, array |-> caller[t].array,
         i |-> caller[t].i, n |-> caller[t].n, rv |-> caller[t].rv]
  BY <1>2, <1>11, <1>12 DEF CallerT, Ats
<1>21. caller'[t] \in CallerT
  BY <1>0, <1>2, <1>20, <1>11 DEF CallerT, Ats
<1>22. PutCaller(t, caller[t].at, caller[t].keeps, caller[t].holds \ {c},
        caller[t].array, caller[t].i, caller[t].n, caller[t].rv)
  BY <1>2, <1>10, <1>11, <1>20, <1>21 DEF PutCaller
<1>15. event' = [event EXCEPT ![c].ref = @ - 1]
  BY <1>0, <1>2, Zenon DEF ReleaseEvent, DropQueue
<1>16. event \in [Cmd -> EventT]
  BY <1>0, TypeSets
<1>17. event'[c] =
        [event[c] EXCEPT !.ref = @ - 1]
  BY <1>2, <1>15, <1>16, Zenon
<1>23. event'[c] =
        [st |-> event[c].st, ref |-> event[c].ref - 1,
         group |-> event[c].group, link |-> event[c].link]
  BY <1>2, <1>16, <1>17 DEF EventT
<1>24. event'[c] \in EventT
  BY <1>0, <1>2, <1>23, <1>16 DEF EventT
<1>25. PutEvent(c, event[c].st, event[c].ref - 1, event[c].group,
        event[c].link)
  BY <1>2, <1>15, <1>16, <1>23, <1>24 DEF PutEvent
<1>40. /\ UNCHANGED queue
  BY <1>0, <1>2, TypeSets DEF ReleaseEvent, DropQueue
<1> QED
  BY <1>22, <1>25, <1>40

\* A thread calls xrp_wait.
LEMMA StartWaitEffect ==
  ASSUME TypeOK,
         NEW t \in Thread, NEW c \in Cmd, StartWait(t, c)
  PROVE  /\ PutCaller(t, "wait", caller[t].keeps, caller[t].holds, <<c>>,
            caller[t].i, caller[t].n, caller[t].rv)
<1>0. TypeOK
  OBVIOUS
<1>1. <<c>> \in Seq(Cmd)
  OBVIOUS
<1>20. caller'[t] =
        [at |-> "wait", keeps |-> caller[t].keeps,
         holds |-> caller[t].holds, array |-> <<c>>, i |-> caller[t].i,
         n |-> caller[t].n, rv |-> caller[t].rv]
  BY <1>0, <1>1, TypeSets DEF StartWait, CallerT, EventT
<1>21. caller'[t] \in CallerT
  BY <1>0, <1>1, <1>20, TypeSets DEF CallerT, Ats
<1>22. PutCaller(t, "wait", caller[t].keeps, caller[t].holds, <<c>>,
        caller[t].i, caller[t].n, caller[t].rv)
  BY <1>0, <1>1, <1>20, <1>21, TypeSets DEF PutCaller, StartWait
<1> QED
  BY <1>22

\* xrp_wait sleeps.
LEMMA SleepEffect ==
  ASSUME TypeOK,
         NEW t \in Thread, event[caller[t].array[1]].st = "PENDING", Wait(t)
  PROVE  /\ PutCaller(t, "waiting", caller[t].keeps, caller[t].holds,
            caller[t].array, caller[t].i, caller[t].n, caller[t].rv)
<1>0. TypeOK
  OBVIOUS
<1>20. caller'[t] =
        [at |-> "waiting", keeps |-> caller[t].keeps,
         holds |-> caller[t].holds, array |-> caller[t].array,
         i |-> caller[t].i, n |-> caller[t].n, rv |-> caller[t].rv]
  BY <1>0, TypeSets DEF Wait, Goto, CallerT, EventT
<1>21. caller'[t] \in CallerT
  BY <1>0, <1>20, TypeSets DEF CallerT, Ats
<1>22. PutCaller(t, "waiting", caller[t].keeps, caller[t].holds,
        caller[t].array, caller[t].i, caller[t].n, caller[t].rv)
  BY <1>0, <1>20, <1>21, TypeSets DEF PutCaller, Wait, Goto
<1> QED
  BY <1>22

\* xrp_wait returns.
LEMMA WokenEffect ==
  ASSUME TypeOK,
         NEW t \in Thread, event[caller[t].array[1]].st # "PENDING", Wait(t)
  PROVE  /\ PutCaller(t, "idle", caller[t].keeps, caller[t].holds, <<>>,
            caller[t].i, caller[t].n, caller[t].rv)
<1>0. TypeOK
  OBVIOUS
<1>1. <<>> \in Seq(Cmd)
  OBVIOUS
<1>20. caller'[t] =
        [at |-> "idle", keeps |-> caller[t].keeps,
         holds |-> caller[t].holds, array |-> <<>>, i |-> caller[t].i,
         n |-> caller[t].n, rv |-> caller[t].rv]
  BY <1>0, <1>1, TypeSets DEF Wait, Goto, CallerT, EventT
<1>21. caller'[t] \in CallerT
  BY <1>0, <1>1, <1>20, TypeSets DEF CallerT, Ats
<1>22. PutCaller(t, "idle", caller[t].keeps, caller[t].holds, <<>>,
        caller[t].i, caller[t].n, caller[t].rv)
  BY <1>0, <1>1, <1>20, <1>21, TypeSets DEF PutCaller, Wait, Goto
<1> QED
  BY <1>22

\* A thread calls xrp_wait_any.
LEMMA StartWaitAnyEffect ==
  ASSUME TypeOK,
         NEW t \in Thread, NEW a \in Arrays, StartWaitAny(t, a)
  PROVE  /\ PutCaller(t, "link", caller[t].keeps, caller[t].holds, a, 1, Len(a),
            Len(a) + 1)
<1>0. TypeOK
  OBVIOUS
<1>1. a \in Seq(Cmd) /\ Len(a) \in Nat /\ Len(a) + 1 \in Nat
  BY ArrayFacts
<1>10. caller' = [caller EXCEPT ![t].at = "link", ![t].array = a, ![t].i = 1,
                  ![t].n = Len(a), ![t].rv = Len(a) + 1]
  BY <1>0, <1>1, Zenon DEF StartWaitAny
<1>11. caller \in [Thread -> CallerT]
  BY <1>0, TypeSets
<1>12. caller'[t] =
        [caller[t] EXCEPT !.at = "link", !.array = a, !.i = 1,
                  !.n = Len(a), !.rv = Len(a) + 1]
  BY <1>1, <1>10, <1>11, Zenon
<1>13. ASSUME NEW r \in CallerT,
             NEW l \in Ats,
             NEW s \in Seq(Cmd),
             NEW i \in Nat,
             NEW n \in Nat,
             NEW v \in Nat,
             r = caller[t],
             l = "link",
             s = a,
             i = 1,
             n = Len(a),
             v = Len(a) + 1
      PROVE  /\ caller'[t] \in CallerT
             /\ caller'[t] =
                  [at |-> "link", keeps |-> caller[t].keeps,
                   holds |-> caller[t].holds, array |-> a, i |-> 1, n |-> Len(a),
                   rv |-> Len(a) + 1]
  <2>1. [r EXCEPT !.at = l, !.array = s, !.i = i, !.n = n, !.rv = v] \in CallerT
    BY PutCall
  <2>2. IsCaller([r EXCEPT !.at = l, !.array = s, !.i = i, !.n = n, !.rv = v],
                l, r.keeps, r.holds, s, i, n, v)
    BY PutCall
  <2>3. caller'[t] = [r EXCEPT !.at = l, !.array = s, !.i = i, !.n = n, !.rv = v]
    BY <1>12, <1>13, Zenon
  <2> QED
    BY <1>13, <2>1, <2>2, <2>3 DEF IsCaller
<1>14. PICK r \in CallerT, l \in Ats, s \in Seq(Cmd), i \in Nat, n \in Nat, v \in Nat :
             /\ r = caller[t]
             /\ l = "link"
             /\ s = a
             /\ i = 1
             /\ n = Len(a)
             /\ v = Len(a) + 1
  BY <1>1, <1>11 DEF Ats
<1>20. caller'[t] =
        [at |-> "link", keeps |-> caller[t].keeps,
         holds |-> caller[t].holds, array |-> a, i |-> 1, n |-> Len(a),
         rv |-> Len(a) + 1]
  BY <1>13, <1>14
<1>21. caller'[t] \in CallerT
  BY <1>13, <1>14
<1>22. PutCaller(t, "link", caller[t].keeps, caller[t].holds, a, 1, Len(a),
        Len(a) + 1)
  BY <1>1, <1>10, <1>11, <1>20, <1>21 DEF PutCaller
<1> QED
  BY <1>22

\* xrp_wait_any links itself to a pending event.
LEMMA LinkEffect ==
  ASSUME TypeOK, Calls,
         NEW t \in Thread, NEW c, c = caller[t].array[caller[t].i],
         event[c].st = "PENDING", LinkEvent(t)
  PROVE  /\ PutCaller(t, IF caller[t].i = caller[t].n THEN "gwait" ELSE "link",
            caller[t].keeps, caller[t].holds, caller[t].array,
            caller[t].i + 1, caller[t].n, caller[t].rv)
         /\ PutEvent(c, event[c].st, event[c].ref, t, <<t, caller[t].i>>)
<1>0. TypeOK
  OBVIOUS
<1>1. caller[t].i \in 1 .. Len(caller[t].array)
  BY CallFacts DEF LinkEvent, Calls
<1>2. At(t) = "link"
  BY DEF LinkEvent
<1>3. /\ caller[t].i \in Index /\ caller[t].array[caller[t].i] \in Cmd
      /\ caller[t].i \in Nat /\ caller[t].i - 1 \in Nat
      /\ <<t, caller[t].i>> \in Link
  BY <1>1, <1>2, CallFacts, QueueAssumption DEF Calls, InAny, Index, Link
<1>10. caller' = [caller EXCEPT ![t].i = caller[t].i + 1,
                 ![t].at = IF caller[t].i = caller[t].n THEN "gwait" ELSE "link"]
  BY <1>0, <1>1, <1>3, Zenon DEF LinkEvent
<1>11. caller \in [Thread -> CallerT]
  BY <1>0, TypeSets
<1>12. caller'[t] =
        [caller[t] EXCEPT !.i = caller[t].i + 1,
                 !.at = IF caller[t].i = caller[t].n THEN "gwait" ELSE "link"]
  BY <1>1, <1>3, <1>10, <1>11, Zenon
<1>13. ASSUME NEW r \in CallerT,
             NEW i \in Nat,
             NEW l \in Ats,
             r = caller[t],
             i = caller[t].i + 1,
             l = IF caller[t].i = caller[t].n THEN "gwait" ELSE "link"
      PROVE  /\ caller'[t] \in CallerT
             /\ caller'[t] =
                  [at |-> IF caller[t].i = caller[t].n THEN "gwait" ELSE "link",
                   keeps |-> caller[t].keeps, holds |-> caller[t].holds,
                   array |-> caller[t].array, i |-> caller[t].i + 1,
                   n |-> caller[t].n, rv |-> caller[t].rv]
  <2>1. [r EXCEPT !.i = i, !.at = l] \in CallerT
    BY PutNext
  <2>2. IsCaller([r EXCEPT !.i = i, !.at = l],
                l, r.keeps, r.holds, r.array, i, r.n, r.rv)
    BY PutNext
  <2>3. caller'[t] = [r EXCEPT !.i = i, !.at = l]
    BY <1>12, <1>13, Zenon
  <2> QED
    BY <1>13, <2>1, <2>2, <2>3 DEF IsCaller
<1>14. PICK e \in CallerT, x \in Nat, y \in Ats :
             /\ e = caller[t]
             /\ x = caller[t].i + 1
             /\ y = IF caller[t].i = caller[t].n THEN "gwait" ELSE "link"
  BY <1>1, <1>3, <1>11, Fields DEF Ats
<1>20. caller'[t] =
        [at |-> IF caller[t].i = caller[t].n THEN "gwait" ELSE "link",
         keeps |-> caller[t].keeps, holds |-> caller[t].holds,
         array |-> caller[t].array, i |-> caller[t].i + 1,
         n |-> caller[t].n, rv |-> caller[t].rv]
  BY <1>13, <1>14
<1>21. caller'[t] \in CallerT
  BY <1>13, <1>14
<1>22. PutCaller(t, IF caller[t].i = caller[t].n THEN "gwait" ELSE "link",
        caller[t].keeps, caller[t].holds, caller[t].array,
        caller[t].i + 1, caller[t].n, caller[t].rv)
  BY <1>1, <1>3, <1>10, <1>11, <1>20, <1>21 DEF PutCaller
<1>15. event' = [event EXCEPT ![c].group = t, ![c].link = <<t, caller[t].i>>]
  BY <1>0, <1>1, <1>3, Zenon DEF LinkEvent
<1>16. event \in [Cmd -> EventT]
  BY <1>0, TypeSets
<1>17. event'[c] =
        [event[c] EXCEPT !.group = t, !.link = <<t, caller[t].i>>]
  BY <1>1, <1>3, <1>15, <1>16, Zenon
<1>18. ASSUME NEW r \in EventT,
             NEW g \in Thread \cup {Nil},
             NEW l \in Link \cup {Nil},
             r = event[c],
             g = t,
             l = <<t, caller[t].i>>
      PROVE  /\ event'[c] \in EventT
             /\ event'[c] =
                  [st |-> event[c].st, ref |-> event[c].ref, group |-> t,
                   link |-> <<t, caller[t].i>>]
  <2>1. [r EXCEPT !.group = g, !.link = l] \in EventT
    BY PutHead
  <2>2. [r EXCEPT !.group = g, !.link = l] =
              [st |-> r.st, ref |-> r.ref, group |-> g, link |-> l]
    BY PutHead
  <2>3. event'[c] = [r EXCEPT !.group = g, !.link = l]
    BY <1>17, <1>18, Zenon
  <2> QED
    BY <1>18, <2>1, <2>2, <2>3
<1>19. PICK r \in EventT, g \in Thread \cup {Nil}, l \in Link \cup {Nil} :
             /\ r = event[c]
             /\ g = t
             /\ l = <<t, caller[t].i>>
  BY <1>1, <1>3, <1>16, Fields DEF Ats
<1>23. event'[c] =
        [st |-> event[c].st, ref |-> event[c].ref, group |-> t,
         link |-> <<t, caller[t].i>>]
  BY <1>18, <1>19
<1>24. event'[c] \in EventT
  BY <1>18, <1>19
<1>25. PutEvent(c, event[c].st, event[c].ref, t, <<t, caller[t].i>>)
  BY <1>1, <1>3, <1>15, <1>16, <1>23, <1>24 DEF PutEvent
<1> QED
  BY <1>22, <1>25

\* xrp_wait_any finds an event that is complete.
LEMMA FoundEffect ==
  ASSUME TypeOK, Calls,
         NEW t \in Thread, NEW c, c = caller[t].array[caller[t].i],
         event[c].st # "PENDING", LinkEvent(t)
  PROVE  /\ PutCaller(t, "unlink", caller[t].keeps, caller[t].holds,
            caller[t].array, 1, caller[t].i - 1, caller[t].i)
         /\ UNCHANGED <<event, links>>
<1>0. TypeOK
  OBVIOUS
<1>1. caller[t].i \in 1 .. Len(caller[t].array)
  BY CallFacts DEF LinkEvent, Calls
<1>2. At(t) = "link"
  BY DEF LinkEvent
<1>3. /\ caller[t].i \in Index /\ caller[t].array[caller[t].i] \in Cmd
      /\ caller[t].i \in Nat /\ caller[t].i - 1 \in Nat
      /\ <<t, caller[t].i>> \in Link
  BY <1>1, <1>2, CallFacts, QueueAssumption DEF Calls, InAny, Index, Link
<1>10. caller' = [caller EXCEPT ![t].at = "unlink", ![t].i = 1,
                  ![t].n = caller[t].i - 1, ![t].rv = caller[t].i]
  BY <1>0, <1>1, <1>3, Zenon DEF LinkEvent
<1>11. caller \in [Thread -> CallerT]
  BY <1>0, TypeSets
<1>12. caller'[t] =
        [caller[t] EXCEPT !.at = "unlink", !.i = 1,
                  !.n = caller[t].i - 1, !.rv = caller[t].i]
  BY <1>1, <1>3, <1>10, <1>11, Zenon
<1>20. caller'[t] =
        [at |-> "unlink", keeps |-> caller[t].keeps,
         holds |-> caller[t].holds, array |-> caller[t].array, i |-> 1,
         n |-> caller[t].i - 1, rv |-> caller[t].i]
  BY <1>0, <1>1, <1>3, TypeSets DEF LinkEvent, CallerT, EventT
<1>21. caller'[t] \in CallerT
  BY <1>0, <1>1, <1>3, <1>20, <1>11 DEF CallerT, Ats
<1>22. PutCaller(t, "unlink", caller[t].keeps, caller[t].holds,
        caller[t].array, 1, caller[t].i - 1, caller[t].i)
  BY <1>1, <1>3, <1>10, <1>11, <1>20, <1>21 DEF PutCaller
<1>40. /\ UNCHANGED <<event, links>>
  BY <1>0, <1>1, <1>3, TypeSets DEF LinkEvent
<1> QED
  BY <1>22, <1>40

\* xrp_wait_any sleeps.
LEMMA GroupSleepEffect ==
  ASSUME TypeOK,
         NEW t \in Thread, group[t] = "PENDING", WaitGroup(t)
  PROVE  /\ PutCaller(t, "gwaiting", caller[t].keeps, caller[t].holds,
            caller[t].array, caller[t].i, caller[t].n, caller[t].rv)
<1>0. TypeOK
  OBVIOUS
<1>20. caller'[t] =
        [at |-> "gwaiting", keeps |-> caller[t].keeps,
         holds |-> caller[t].holds, array |-> caller[t].array,
         i |-> caller[t].i, n |-> caller[t].n, rv |-> caller[t].rv]
  BY <1>0, TypeSets DEF WaitGroup, Goto, CallerT, EventT
<1>21. caller'[t] \in CallerT
  BY <1>0, <1>20, TypeSets DEF CallerT, Ats
<1>22. PutCaller(t, "gwaiting", caller[t].keeps, caller[t].holds,
        caller[t].array, caller[t].i, caller[t].n, caller[t].rv)
  BY <1>0, <1>20, <1>21, TypeSets DEF PutCaller, WaitGroup, Goto
<1> QED
  BY <1>22

\* xrp_wait_any was woken.
LEMMA GroupWokenEffect ==
  ASSUME TypeOK,
         NEW t \in Thread, group[t] # "PENDING", WaitGroup(t)
  PROVE  /\ PutCaller(t, "unlink", caller[t].keeps, caller[t].holds,
            caller[t].array, 1, caller[t].n, caller[t].rv)
<1>0. TypeOK
  OBVIOUS
<1>20. caller'[t] =
        [at |-> "unlink", keeps |-> caller[t].keeps,
         holds |-> caller[t].holds, array |-> caller[t].array, i |-> 1,
         n |-> caller[t].n, rv |-> caller[t].rv]
  BY <1>0, TypeSets DEF WaitGroup, Goto, CallerT, EventT
<1>21. caller'[t] \in CallerT
  BY <1>0, <1>20, TypeSets DEF CallerT, Ats
<1>22. PutCaller(t, "unlink", caller[t].keeps, caller[t].holds,
        caller[t].array, 1, caller[t].n, caller[t].rv)
  BY <1>0, <1>20, <1>21, TypeSets DEF PutCaller, WaitGroup, Goto
<1> QED
  BY <1>22

\* xrp_wait_any goes on to its next link.
LEMMA UnlinkEffect ==
  ASSUME TypeOK, Calls,
         NEW t \in Thread, UnlinkEvent(t)
  PROVE  /\ PutCaller(t, caller[t].at, caller[t].keeps, caller[t].holds,
            caller[t].array, caller[t].i + 1, caller[t].n, Found(t))
<1>0. TypeOK
  OBVIOUS
<1>1. At(t) = "unlink" /\ caller[t].i <= caller[t].n
  BY DEF UnlinkEvent, UnlinkWith
<1>2. /\ caller[t].i \in Index /\ caller[t].array[caller[t].i] \in Cmd
      /\ caller[t].i \in Nat /\ Found(t) \in Nat
  BY <1>1, CallFacts, Fields DEF Calls, InAny, Found
<1>20. caller'[t] =
        [at |-> caller[t].at, keeps |-> caller[t].keeps,
         holds |-> caller[t].holds, array |-> caller[t].array,
         i |-> caller[t].i + 1, n |-> caller[t].n, rv |-> Found(t)]
  BY <1>0, <1>2, TypeSets DEF UnlinkEvent, UnlinkWith, CallerT, EventT
<1>21. caller'[t] \in CallerT
  BY <1>0, <1>2, <1>20, TypeSets DEF CallerT, Ats
<1>22. PutCaller(t, caller[t].at, caller[t].keeps, caller[t].holds,
        caller[t].array, caller[t].i + 1, caller[t].n, Found(t))
  BY <1>0, <1>2, <1>20, <1>21, TypeSets DEF PutCaller, UnlinkEvent, UnlinkWith
<1> QED
  BY <1>22

\* xrp_wait_any returns.
LEMMA ReturnEffect ==
  ASSUME TypeOK,
         NEW t \in Thread, WaitAnyReturn(t)
  PROVE  /\ PutCaller(t, "idle", caller[t].keeps, caller[t].holds, <<>>, 1, 0, 0)
<1>0. TypeOK
  OBVIOUS
<1>1. <<>> \in Seq(Cmd)
  OBVIOUS
<1>10. caller' = [caller EXCEPT ![t].at = "idle", ![t].array = <<>>, ![t].i = 1,
                              ![t].n = 0, ![t].rv = 0]
  BY <1>0, <1>1, Zenon DEF WaitAnyReturn
<1>11. caller \in [Thread -> CallerT]
  BY <1>0, TypeSets
<1>12. caller'[t] =
        [caller[t] EXCEPT !.at = "idle", !.array = <<>>, !.i = 1,
                              !.n = 0, !.rv = 0]
  BY <1>1, <1>10, <1>11, Zenon
<1>13. ASSUME NEW r \in CallerT,
             NEW l \in Ats,
             NEW s \in Seq(Cmd),
             NEW i \in Nat,
             NEW n \in Nat,
             NEW v \in Nat,
             r = caller[t],
             l = "idle",
             s = <<>>,
             i = 1,
             n = 0,
             v = 0
      PROVE  /\ caller'[t] \in CallerT
             /\ caller'[t] =
                  [at |-> "idle", keeps |-> caller[t].keeps,
                   holds |-> caller[t].holds, array |-> <<>>, i |-> 1, n |-> 0,
                   rv |-> 0]
  <2>1. [r EXCEPT !.at = l, !.array = s, !.i = i, !.n = n, !.rv = v] \in CallerT
    BY PutCall
  <2>2. IsCaller([r EXCEPT !.at = l, !.array = s, !.i = i, !.n = n, !.rv = v],
                l, r.keeps, r.holds, s, i, n, v)
    BY PutCall
  <2>3. caller'[t] = [r EXCEPT !.at = l, !.array = s, !.i = i, !.n = n, !.rv = v]
    BY <1>12, <1>13, Zenon
  <2> QED
    BY <1>13, <2>1, <2>2, <2>3 DEF IsCaller
<1>14. PICK r \in CallerT, l \in Ats, s \in Seq(Cmd), i \in Nat, n \in Nat, v \in Nat :
             /\ r = caller[t]
             /\ l = "idle"
             /\ s = <<>>
             /\ i = 1
             /\ n = 0
             /\ v = 0
  BY <1>1, <1>11, Fields DEF Ats
<1>20. caller'[t] =
        [at |-> "idle", keeps |-> caller[t].keeps,
         holds |-> caller[t].holds, array |-> <<>>, i |-> 1, n |-> 0,
         rv |-> 0]
  BY <1>13, <1>14
<1>21. caller'[t] \in CallerT
  BY <1>13, <1>14
<1>22. PutCaller(t, "idle", caller[t].keeps, caller[t].holds, <<>>, 1, 0, 0)
  BY <1>1, <1>10, <1>11, <1>20, <1>21 DEF PutCaller
<1> QED
  BY <1>22

\* xrp_queue_destroy sets the exit flag.
LEMMA DestroyEffect ==
  ASSUME TypeOK,
         NEW t \in Thread, Destroy(t)
  PROVE  /\ PutCaller(t, "join", caller[t].keeps, caller[t].holds, caller[t].array,
            caller[t].i, caller[t].n, caller[t].rv)
         /\ PutQueue(queue.list, TRUE, queue.ref, queue.freed)
<1>0. TypeOK
  OBVIOUS
<1>20. caller'[t] =
        [at |-> "join", keeps |-> caller[t].keeps,
         holds |-> caller[t].holds, array |-> caller[t].array,
         i |-> caller[t].i, n |-> caller[t].n, rv |-> caller[t].rv]
  BY <1>0, TypeSets DEF Destroy, DestroyWith, Goto, QueueT, CallerT, EventT
<1>21. caller'[t] \in CallerT
  BY <1>0, <1>20, TypeSets DEF CallerT, Ats
<1>22. PutCaller(t, "join", caller[t].keeps, caller[t].holds, caller[t].array,
        caller[t].i, caller[t].n, caller[t].rv)
  BY <1>0, <1>20, <1>21, TypeSets DEF PutCaller, Destroy, DestroyWith, Goto, QueueT
<1>40. /\ queue' = [list |-> queue.list, exit |-> TRUE, ref |-> queue.ref,
             freed |-> queue.freed]
  BY <1>0, TypeSets DEF Destroy, DestroyWith, Goto, QueueT
<1>41. queue' \in QueueT
  BY <1>0, <1>40, Fields DEF QueueT
<1>45. PutQueue(queue.list, TRUE, queue.ref, queue.freed)
  BY <1>40, <1>41 DEF PutQueue, PutWorker
<1> QED
  BY <1>22, <1>45

\* xrp_queue_destroy frees the queue.
LEMMA JoinEffect ==
  ASSUME TypeOK,
         NEW t \in Thread, Join(t)
  PROVE  /\ PutCaller(t, "idle", caller[t].keeps, caller[t].holds, caller[t].array,
            caller[t].i, caller[t].n, caller[t].rv)
         /\ PutQueue(queue.list, queue.exit, queue.ref, TRUE)
<1>0. TypeOK
  OBVIOUS
<1>20. caller'[t] =
        [at |-> "idle", keeps |-> caller[t].keeps,
         holds |-> caller[t].holds, array |-> caller[t].array,
         i |-> caller[t].i, n |-> caller[t].n, rv |-> caller[t].rv]
  BY <1>0, TypeSets DEF Join, Goto, QueueT, CallerT, EventT
<1>21. caller'[t] \in CallerT
  BY <1>0, <1>20, TypeSets DEF CallerT, Ats
<1>22. PutCaller(t, "idle", caller[t].keeps, caller[t].holds, caller[t].array,
        caller[t].i, caller[t].n, caller[t].rv)
  BY <1>0, <1>20, <1>21, TypeSets DEF PutCaller, Join, Goto, QueueT
<1>40. /\ queue' = [list |-> queue.list, exit |-> queue.exit, ref |-> queue.ref,
             freed |-> TRUE]
  BY <1>0, TypeSets DEF Join, Goto, QueueT
<1>41. queue' \in QueueT
  BY <1>0, <1>40, Fields DEF QueueT
<1>45. PutQueue(queue.list, queue.exit, queue.ref, TRUE)
  BY <1>40, <1>41 DEF PutQueue, PutWorker
<1> QED
  BY <1>22, <1>45

\* The event of the worker's request gets its outcome.
LEMMA SignalEffect ==
  ASSUME TypeOK, Requests, EventStates, EventRefs,
         NEW c, c = worker.cur, Signal
  PROVE  /\ PutEvent(c, worker.st, event[c].ref, event[c].group, event[c].link)
         /\ PutWorker("walk", worker.cur, worker.st, event[c].group, event[c].link)
         /\ worker.st \in Outcome /\ c \in Cmd \ Silent
<1>0. TypeOK
  OBVIOUS
<1>1. c \in Cmd \ Silent /\ worker.st \in Outcome
  BY AskedLive DEF Signal, Requests
<1>20. event'[c] =
        [st |-> worker.st, ref |-> event[c].ref,
         group |-> event[c].group, link |-> event[c].link]
  BY <1>0, <1>1, TypeSets DEF Signal, WorkerT, CallerT, EventT
<1>21. event'[c] \in EventT
  BY <1>0, <1>1, <1>20, TypeSets DEF EventT
<1>22. PutEvent(c, worker.st, event[c].ref, event[c].group, event[c].link)
  BY <1>0, <1>1, <1>20, <1>21, TypeSets DEF PutEvent, Signal, WorkerT
<1>40. /\ worker' =
            [at |-> "walk", cur |-> worker.cur, st |-> worker.st,
             gp |-> event[c].group, lk |-> event[c].link]
      /\ worker.st \in Outcome /\ c \in Cmd \ Silent
  BY <1>0, <1>1, TypeSets DEF Signal, WorkerT
<1>41. worker' \in WorkerT
  BY <1>0, <1>1, <1>40, Fields DEF WorkerT
<1>45. PutWorker("walk", worker.cur, worker.st, event[c].group, event[c].link)
  BY <1>40, <1>41 DEF PutQueue, PutWorker
<1> QED
  BY <1>22, <1>40, <1>45

\* The worker drops its request's reference to the event.
LEMMA DropEffect ==
  ASSUME TypeOK, Requests, EventStates, EventRefs, QueueRefs,
         NEW c, c = worker.cur, DropEvent
  PROVE  /\ PutEvent(c, event[c].st, event[c].ref - 1, event[c].group,
            event[c].link)
         /\ PutQueue(queue.list, queue.exit \/ (event[c].ref = 1 /\ queue.ref = 1),
            IF event[c].ref = 1 THEN queue.ref - 1 ELSE queue.ref,
            queue.freed \/ (event[c].ref = 1 /\ queue.ref = 1))
         /\ PutWorker(IF event[c].ref = 1 /\ queue.ref = 1 THEN "gone" ELSE "look",
            Nil, "PENDING", worker.gp, worker.lk)
         /\ queue.ref - 1 \in Nat
<1>0. TypeOK
  OBVIOUS
<1>1. c \in LiveEvents /\ c \in Cmd
  BY AskedLive DEF DropEvent, DropEventThen
<1>2. event[c].ref - 1 \in Nat /\ queue.ref - 1 \in Nat
  BY <1>1, KeptCounted, Fields DEF LiveEvents
<1>10. event' = [event EXCEPT ![c].ref = @ - 1]
  BY <1>0, <1>1, <1>2, Zenon DEF DropEvent, DropEventThen, QueueT, WorkerT
<1>11. event \in [Cmd -> EventT]
  BY <1>0, TypeSets
<1>12. event'[c] =
        [event[c] EXCEPT !.ref = @ - 1]
  BY <1>1, <1>2, <1>10, <1>11, Zenon
<1>20. event'[c] =
        [st |-> event[c].st, ref |-> event[c].ref - 1,
         group |-> event[c].group, link |-> event[c].link]
  BY <1>1, <1>2, <1>11, <1>12 DEF EventT
<1>21. event'[c] \in EventT
  BY <1>0, <1>1, <1>2, <1>20, <1>11 DEF EventT
<1>22. PutEvent(c, event[c].st, event[c].ref - 1, event[c].group,
        event[c].link)
  BY <1>1, <1>2, <1>10, <1>11, <1>20, <1>21 DEF PutEvent
<1>40. /\ queue' =
            [list |-> queue.list,
             exit |-> queue.exit \/ (event[c].ref = 1 /\ queue.ref = 1),
             ref |-> IF event[c].ref = 1 THEN queue.ref - 1 ELSE queue.ref,
             freed |-> queue.freed \/ (event[c].ref = 1 /\ queue.ref = 1)]
      /\ worker' =
            [at |-> IF event[c].ref = 1 /\ queue.ref = 1 THEN "gone" ELSE "look",
             cur |-> Nil, st |-> "PENDING", gp |-> worker.gp,
             lk |-> worker.lk]
      /\ queue.ref - 1 \in Nat
  BY <1>0, <1>1, <1>2, TypeSets DEF DropEvent, DropEventThen, QueueT, WorkerT
<1>41. queue' \in QueueT
  BY <1>0, <1>1, <1>2, <1>40, Fields DEF QueueT
<1>42. worker' \in WorkerT
  BY <1>0, <1>1, <1>2, <1>40, Fields DEF WorkerT
<1>45. PutQueue(queue.list, queue.exit \/ (event[c].ref = 1 /\ queue.ref = 1),
            IF event[c].ref = 1 THEN queue.ref - 1 ELSE queue.ref,
            queue.freed \/ (event[c].ref = 1 /\ queue.ref = 1))
  BY <1>40, <1>41 DEF PutQueue, PutWorker
<1>46. PutWorker(IF event[c].ref = 1 /\ queue.ref = 1 THEN "gone" ELSE "look",
            Nil, "PENDING", worker.gp, worker.lk)
  BY <1>40, <1>42 DEF PutQueue, PutWorker
<1> QED
  BY <1>22, <1>40, <1>45, <1>46

\* The queue starts with the types right.
LEMMA TypeInit ==
  ASSUME Init
  PROVE  TypeOK
<1>1. Cardinality(Thread) \in Nat
  BY QueueAssumption, FS_CardinalityType
<1> QED
  BY <1>1 DEF Init, TypeOK, NoLink

\* Every operation keeps the types.
LEMMA TypeStep ==
  ASSUME IndInv, Next
  PROVE  TypeOK'
<1>0. /\ TypeOK /\ Requests /\ EventStates /\ Calls /\ EventRefs /\ QueueRefs
      /\ Nil \notin Cmd /\ Outcome \subseteq {"SUCCESS", "FAILURE"}
  BY QueueAssumption DEF IndInv
<1>a. /\ queue \in QueueT /\ ran \in Seq(Cmd) /\ worker \in WorkerT
      /\ event \in [Cmd -> EventT] /\ caller \in [Thread -> CallerT]
      /\ group \in [Thread -> Outcome \cup {"NONE", "PENDING"}]
      /\ links \in [Thread -> [Index -> LinkT]]
  BY <1>0, TypeSets
<1> DEFINE Typed == /\ queue' \in QueueT /\ ran' \in Seq(Cmd) /\ worker' \in WorkerT
                    /\ event' \in [Cmd -> EventT] /\ caller' \in [Thread -> CallerT]
                    /\ group' \in [Thread -> Outcome \cup {"NONE", "PENDING"}]
                    /\ links' \in [Thread -> [Index -> LinkT]]
<1> SUFFICES Typed
  BY DEF TypeOK, QueueT, WorkerT, EventT, CallerT, LinkT, Ats
<1>1. ASSUME NEW t \in Thread, NEW c \in Cmd, Enqueue(t, c)
      PROVE  Typed
  <2>1. /\ worker' \in {worker, [worker EXCEPT !.at = "look"]}
        /\ UNCHANGED <<ran, group, links>>
    BY <1>1 DEF Enqueue, EnqueueWith, WokenByPush, Woken
  <2>2. worker' \in WorkerT
    BY <1>a, <2>1 DEF WorkerT
  <2>3. Append(queue.list, c) \in Seq(Cmd)
    BY <1>0, Fields
  <2>4. CASE c \in Silent
    <3>1. queue' \in QueueT /\ UNCHANGED <<event, caller>>
      BY <1>0, <1>1, <2>4, SilentEffect DEF PutQueue, PutWorker
    <3> QED
      BY <1>a, <2>1, <2>2, <3>1
  <2>5. CASE c \notin Silent
    <3>1. /\ event' \in [Cmd -> EventT] /\ caller' \in [Thread -> CallerT]
          /\ queue' \in QueueT
      BY <1>0, <1>1, <2>5, EnqueueEffect DEF PutCaller, PutEvent, PutQueue, PutWorker
    <3> QED
      BY <1>a, <2>1, <2>2, <3>1
  <2> QED
    BY <2>4, <2>5
<1>2. ASSUME NEW t \in Thread, NEW c \in Cmd, StartWait(t, c)
      PROVE  Typed
  <2>1. caller' \in [Thread -> CallerT]
    BY <1>0, <1>2, StartWaitEffect DEF PutCaller
  <2> QED
    BY <1>a, <1>2, <2>1 DEF StartWait
<1>3. ASSUME NEW t \in Thread, NEW c \in Cmd, ReleaseEvent(t, c)
      PROVE  Typed
  <2>1. UNCHANGED <<ran, worker, group, links>>
    BY <1>3 DEF ReleaseEvent
  <2>2. CASE event[c].ref = 1
    <3>1. /\ event' \in [Cmd -> EventT] /\ caller' \in [Thread -> CallerT]
          /\ queue' \in QueueT
      BY <1>0, <1>3, <2>2, ReleaseLastEffect DEF PutCaller, PutEvent, PutQueue, PutWorker
    <3> QED
      BY <1>a, <2>1, <3>1
  <2>3. CASE event[c].ref # 1
    <3>1. /\ event' \in [Cmd -> EventT] /\ caller' \in [Thread -> CallerT]
          /\ queue' \in QueueT
      BY <1>0, <1>3, <1>a, <2>3, ReleaseEffect DEF PutCaller, PutEvent
    <3> QED
      BY <1>a, <2>1, <3>1
  <2> QED
    BY <2>2, <2>3
<1>4. ASSUME NEW t \in Thread, NEW c \in Cmd, NEW u \in Thread, Share(t, u, c)
      PROVE  Typed
  <2>1. event' \in [Cmd -> EventT] /\ caller' \in [Thread -> CallerT]
    BY <1>0, <1>4, ShareEffect DEF PutCaller, PutEvent
  <2> QED
    BY <1>a, <1>4, <2>1 DEF Share
<1>5. ASSUME NEW t \in Thread, ReleaseQueue(t)
      PROVE  Typed
  <2>1. caller' \in [Thread -> CallerT] /\ queue' \in QueueT
    BY <1>0, <1>5, ReleaseQueueEffect DEF PutCaller, PutQueue, PutWorker
  <2> QED
    BY <1>a, <1>5, <2>1 DEF ReleaseQueue
<1>6. ASSUME NEW t \in Thread, NEW a \in Arrays, StartWaitAny(t, a)
      PROVE  Typed
  <2>1. caller' \in [Thread -> CallerT]
    BY <1>0, <1>6, StartWaitAnyEffect DEF PutCaller
  <2>2. NoLink \in LinkT
    BY DEF NoLink, LinkT
  <2>3. /\ group' \in [Thread -> Outcome \cup {"NONE", "PENDING"}]
        /\ links' \in [Thread -> [Index -> LinkT]]
    BY <1>6, <1>a, <2>2 DEF StartWaitAny
  <2> QED
    BY <1>a, <1>6, <2>1, <2>3 DEF StartWaitAny
<1>7. ASSUME NEW t \in Thread, Wait(t)
      PROVE  Typed
  <2>1. caller' \in [Thread -> CallerT]
    BY <1>0, <1>7, SleepEffect, WokenEffect DEF PutCaller
  <2> QED
    BY <1>a, <1>7, <2>1 DEF Wait
<1>8. ASSUME NEW t \in Thread, LinkEvent(t)
      PROVE  Typed
  <2> DEFINE i == caller[t].i
             c == caller[t].array[i]
  <2>1. At(t) = "link" /\ UNCHANGED <<queue, ran, worker, group>>
    BY <1>8 DEF LinkEvent
  <2>2. i \in Index /\ c \in Cmd
    BY <1>0, <2>1, CallFacts DEF Calls, InAny
  <2>3. <<t, i>> \in Link
    BY <2>2 DEF Link
  <2>4. CASE event[c].st = "PENDING"
    <3>1. event' \in [Cmd -> EventT] /\ caller' \in [Thread -> CallerT]
      BY <1>0, <1>8, <2>4, LinkEffect DEF PutCaller, PutEvent
    <3>2. /\ event[c].group \in Thread \cup {Nil}
          /\ event[c].link \in Link \cup {Nil}
      BY <1>0, <2>2, Fields
    <3>3. links' = [u \in Thread |-> [j \in Index |->
                   IF <<u, j>> = <<t, i>>
                     THEN [links[t][i] EXCEPT !.group = event[c].group,
                                              !.next = event[c].link]
                   ELSE IF <<u, j>> = event[c].link
                     THEN [links[u][j] EXCEPT !.prev = <<t, i>>]
                     ELSE links[u][j]]]
      BY <1>8, <2>4 DEF LinkEvent
    <3>4. \A u \in Thread : \A j \in Index : links[u][j] \in LinkT
      BY <1>a
    <3>5. [links[t][i] EXCEPT !.group = event[c].group,
                              !.next = event[c].link] \in LinkT
      BY <2>2, <3>2, <3>4 DEF LinkT
    <3>6. \A u \in Thread : \A j \in Index :
            [links[u][j] EXCEPT !.prev = <<t, i>>] \in LinkT
      BY <2>3, <3>4 DEF LinkT
    <3>7. links' \in [Thread -> [Index -> LinkT]]
      BY <3>3, <3>4, <3>5, <3>6
    <3> QED
      BY <1>a, <2>1, <3>1, <3>7
  <2>5. CASE event[c].st # "PENDING"
    <3>1. caller' \in [Thread -> CallerT] /\ UNCHANGED <<event, links>>
      BY <1>0, <1>8, <2>5, FoundEffect DEF PutCaller
    <3> QED
      BY <1>a, <2>1, <3>1
  <2> QED
    BY <2>4, <2>5
<1>9. ASSUME NEW t \in Thread, WaitGroup(t)
      PROVE  Typed
  <2>1. caller' \in [Thread -> CallerT]
    BY <1>0, <1>9, GroupSleepEffect, GroupWokenEffect DEF PutCaller
  <2> QED
    BY <1>a, <1>9, <2>1 DEF WaitGroup
<1>10. ASSUME NEW t \in Thread, UnlinkEvent(t)
      PROVE  Typed
  <2> DEFINE i == caller[t].i
             c == caller[t].array[i]
             l == links[t][i]
             ahead == NextLink(t)
             behind == PrevLink(t)
  <2>1. At(t) = "unlink" /\ i <= caller[t].n
    BY <1>10 DEF UnlinkEvent, UnlinkWith
  <2>2. i \in Index /\ c \in Cmd
    BY <1>0, <2>1, CallFacts DEF Calls, InAny
  <2>3. /\ l.group \in Thread \cup {Nil} /\ l.next \in Link \cup {Nil}
        /\ l.prev \in Link \cup {Nil}
    BY <1>0, <2>2, Fields
  <2>4. /\ event' = IF event[c].group = t
                THEN [event EXCEPT ![c].group = l.group, ![c].link = l.next]
                ELSE event
        /\ links' = [u \in Thread |-> [j \in Index |->
                [links[u][j] EXCEPT
                   !.prev = IF <<u, j>> = ahead THEN l.prev ELSE @,
                   !.group = IF <<u, j>> = behind THEN l.group ELSE @,
                   !.next = IF <<u, j>> = behind THEN l.next ELSE @]]]
        /\ UNCHANGED <<queue, ran, worker, group>>
    BY <1>10 DEF UnlinkEvent, UnlinkWith
  <2>5. event' \in [Cmd -> EventT]
    <3>1. CASE event[c].group = t
      <4>1. event' = [event EXCEPT ![c].group = l.group, ![c].link = l.next]
        BY <2>4, <3>1
      <4>2. event'[c] = [event[c] EXCEPT !.group = l.group, !.link = l.next]
        BY <1>a, <2>2, <4>1, Zenon
      <4>3. ASSUME NEW r \in EventT, NEW g \in Thread \cup {Nil},
                   NEW m \in Link \cup {Nil}, r = event[c], g = l.group, m = l.next
            PROVE  event'[c] \in EventT
        <5>1. [r EXCEPT !.group = g, !.link = m] \in EventT
          BY PutHead
        <5> QED
          BY <4>2, <4>3, <5>1, Zenon
      <4>4. event'[c] \in EventT
        BY <1>a, <2>2, <2>3, <4>3
      <4> QED
        BY <1>a, <2>2, <4>1, <4>4
    <3>2. CASE event[c].group # t
      BY <1>a, <2>4, <3>2
    <3> QED
      BY <3>1, <3>2
  <2>6. caller' \in [Thread -> CallerT]
    BY <1>0, <1>10, UnlinkEffect DEF PutCaller
  <2>7. \A u \in Thread : \A j \in Index : links[u][j] \in LinkT
    BY <1>a
  <2>8. ASSUME NEW u \in Thread, NEW j \in Index
        PROVE  [links[u][j] EXCEPT
                   !.prev = IF <<u, j>> = ahead THEN l.prev ELSE @,
                   !.group = IF <<u, j>> = behind THEN l.group ELSE @,
                   !.next = IF <<u, j>> = behind THEN l.next ELSE @] \in LinkT
    <3>1. links[u][j] \in LinkT
      BY <2>7
    <3> QED
      BY <2>3, <3>1 DEF LinkT
  <2>9. links' \in [Thread -> [Index -> LinkT]]
    BY <2>4, <2>8
  <2> QED
    BY <1>a, <2>4, <2>5, <2>6, <2>9
<1>11. ASSUME NEW t \in Thread, WaitAnyReturn(t)
      PROVE  Typed
  <2>1. caller' \in [Thread -> CallerT]
    BY <1>0, <1>11, ReturnEffect DEF PutCaller
  <2>2. NoLink \in LinkT
    BY DEF NoLink, LinkT
  <2>3. /\ group' \in [Thread -> Outcome \cup {"NONE", "PENDING"}]
        /\ links' \in [Thread -> [Index -> LinkT]]
    BY <1>11, <1>a, <2>2 DEF WaitAnyReturn
  <2> QED
    BY <1>a, <1>11, <2>1, <2>3 DEF WaitAnyReturn
<1>12. ASSUME NEW t \in Thread, Destroy(t)
      PROVE  Typed
  <2>1. caller' \in [Thread -> CallerT] /\ queue' \in QueueT
    BY <1>0, <1>12, DestroyEffect DEF PutCaller, PutQueue, PutWorker
  <2>2. /\ worker' \in {worker, [worker EXCEPT !.at = "look"]}
        /\ UNCHANGED <<ran, event, group, links>>
    BY <1>12 DEF Destroy, DestroyWith, Woken
  <2>3. worker' \in WorkerT
    BY <1>a, <2>2 DEF WorkerT
  <2> QED
    BY <1>a, <2>1, <2>2, <2>3
<1>13. ASSUME NEW t \in Thread, Join(t)
      PROVE  Typed
  <2>1. caller' \in [Thread -> CallerT] /\ queue' \in QueueT
    BY <1>0, <1>13, JoinEffect DEF PutCaller, PutQueue, PutWorker
  <2> QED
    BY <1>a, <1>13, <2>1 DEF Join
<1>14. CASE Dequeue
  <2>1. queue.list # <<>> => Head(queue.list) \in Cmd /\ Tail(queue.list) \in Seq(Cmd)
    BY <1>0, Fields
  <2>2. CASE queue.list # <<>>
    <3>1. /\ worker' = [worker EXCEPT !.at = "run", !.cur = Head(queue.list)]
          /\ queue' = [queue EXCEPT !.list = Tail(queue.list)]
      BY <1>14, <2>2 DEF Dequeue, DequeueFrom
    <3>2. worker' \in WorkerT
      BY <1>a, <2>1, <2>2, <3>1 DEF WorkerT
    <3>3. queue' \in QueueT
      BY <1>a, <2>1, <2>2, <3>1 DEF QueueT
    <3> QED
      BY <1>a, <1>14, <3>2, <3>3 DEF Dequeue, DequeueFrom
  <2>3. CASE queue.list = <<>>
    <3>1. /\ worker' \in {[worker EXCEPT !.at = "gone"], [worker EXCEPT !.at = "asleep"]}
          /\ UNCHANGED queue
      BY <1>14, <2>3 DEF Dequeue, DequeueFrom
    <3>2. worker' \in WorkerT
      BY <1>a, <3>1 DEF WorkerT
    <3> QED
      BY <1>a, <1>14, <3>1, <3>2 DEF Dequeue, DequeueFrom
  <2> QED
    BY <2>2, <2>3
<1>15. ASSUME NEW s \in Outcome, Run(s)
      PROVE  Typed
  <2>1. Append(ran, worker.cur) \in Seq(Cmd)
    BY <1>0, <1>15, Fields DEF Run, Requests
  <2>2. worker' \in WorkerT
    BY <1>a, <1>15 DEF Run, WorkerT
  <2> QED
    BY <1>a, <1>15, <2>1, <2>2 DEF Run
<1>16. CASE Signal
  <2>1. worker.cur \in Cmd /\ worker.st \in Outcome
    BY <1>0, <1>16, AskedLive DEF Signal, Requests
  <2>2. ASSUME NEW u \in Thread
        PROVE  [caller[u] EXCEPT !.at = "wait"] \in CallerT
    <3>1. caller[u] \in CallerT /\ "wait" \in Ats
      BY <1>a DEF Ats
    <3> QED
      BY <3>1, PutField
  <2>3. caller' \in [Thread -> CallerT]
    BY <1>16, <1>a, <2>2 DEF Signal, Wake
  <2>4. event' \in [Cmd -> EventT] /\ worker' \in WorkerT
    BY <1>0, <1>16, SignalEffect DEF PutEvent, PutWorker
  <2> QED
    BY <1>a, <1>16, <2>3, <2>4 DEF Signal
<1>17. CASE WalkGroup
  <2>1. worker.lk \in Link /\ worker.st \in Outcome
    BY <1>0, <1>17, Fields DEF WalkGroup, Requests
  <2>2. worker.lk[1] \in Thread /\ worker.lk[2] \in Index
    BY <2>1 DEF Link
  <2> DEFINE l == links[worker.lk[1]][worker.lk[2]]
  <2>3. l.group \in Thread \cup {Nil} /\ l.next \in Link \cup {Nil}
    BY <1>0, <2>2, Fields
  <2>4. /\ group' = [group EXCEPT ![worker.gp] = worker.st]
        /\ caller' = [caller EXCEPT ![worker.gp].at = IF @ = "gwaiting" THEN "gwait" ELSE @]
        /\ worker' = [worker EXCEPT !.gp = l.group, !.lk = l.next]
        /\ UNCHANGED <<queue, ran, event, links>>
    BY <1>17 DEF WalkGroup
  <2> HIDE DEF l
  <2>5. worker' \in WorkerT
    BY <1>a, <2>3, <2>4 DEF WorkerT
  <2>6. group' \in [Thread -> Outcome \cup {"NONE", "PENDING"}]
    BY <1>a, <2>1, <2>4
  <2>7. caller' \in [Thread -> CallerT]
    <3> DEFINE g == worker.gp
               r == [caller[g] EXCEPT !.at = IF @ = "gwaiting" THEN "gwait" ELSE @]
    <3>1. caller' = [caller EXCEPT ![g] = r]
      BY <2>4, Zenon
    <3>2. CASE g \in Thread
      <4>1. caller[g] \in CallerT
        BY <1>a, <3>2
      <4>2. (IF caller[g].at = "gwaiting" THEN "gwait" ELSE caller[g].at) \in Ats
        BY <4>1 DEF CallerT, Ats
      <4>3. r \in CallerT
        BY <4>1, <4>2, PutField
      <4> HIDE DEF r
      <4> QED
        BY <1>a, <3>1, <4>3
    <3>3. CASE g \notin Thread
      <4> HIDE DEF r
      <4> QED
        BY <1>a, <3>1, <3>3
    <3> QED
      BY <3>2, <3>3
  <2> QED
    BY <1>a, <2>4, <2>5, <2>6, <2>7
<1>18. CASE WalkEnd
  <2>1. worker' \in WorkerT
    BY <1>a, <1>18 DEF WalkEnd, WorkerT
  <2> QED
    BY <1>a, <1>18, <2>1 DEF WalkEnd
<1>19. CASE DropEvent
  <2>1. event' \in [Cmd -> EventT] /\ queue' \in QueueT /\ worker' \in WorkerT
    BY <1>0, <1>19, DropEffect DEF PutEvent, PutQueue, PutWorker
  <2> QED
    BY <1>a, <1>19, <2>1 DEF DropEvent, DropEventThen
<1>20. CASE Finished
  BY <1>a, <1>20 DEF Finished, vars
<1> QED
  BY <1>1, <1>2, <1>3, <1>4, <1>5, <1>6, <1>7, <1>8, <1>9, <1>10, <1>11, <1>12,
     <1>13, <1>14, <1>15, <1>16, <1>17, <1>18, <1>19, <1>20
     DEF Next, Start, Continue, Work

(***************************************************************************)
(* Where the requests are, and the states of their events.                 *)
(***************************************************************************)

\* A step that leaves the requests and the states of the events alone.
Quiet ==
  /\ UNCHANGED ran /\ queue'.list = queue.list
  /\ \A c \in Cmd : event'[c].st = event[c].st
  /\ worker'.cur = worker.cur /\ worker'.st = worker.st
  /\ worker'.gp = worker.gp /\ worker'.lk = worker.lk
  /\ worker'.at = worker.at \/ (worker.at = "asleep" /\ worker'.at = "look")
  /\ \A t \in Thread : \A c \in caller'[t].holds :
       c \in caller[t].holds \/ event[c].st # "NONE"

\* The steps that are not quiet are a push and those of the worker.
LEMMA QuietCases ==
  ASSUME IndInv, Next
  PROVE  \/ Quiet
         \/ \E t \in Thread : \E c \in Cmd : Enqueue(t, c)
         \/ Dequeue \/ (\E s \in Outcome : Run(s)) \/ Signal \/ WalkGroup
         \/ WalkEnd \/ DropEvent
<1>0. /\ TypeOK /\ Requests /\ EventStates /\ Calls /\ EventRefs /\ QueueRefs
  BY DEF IndInv
<1>1. ASSUME UNCHANGED <<ran, worker>>, queue'.list = queue.list,
             \A c \in Cmd : event'[c].st = event[c].st,
             \A t \in Thread : \A c \in caller'[t].holds :
               c \in caller[t].holds \/ event[c].st # "NONE"
      PROVE  Quiet
  BY <1>1 DEF Quiet
<1>2. ASSUME NEW t \in Thread, NEW c \in Cmd, StartWait(t, c)
      PROVE  Quiet
  <2>1. \A u \in Thread : caller'[u].holds = caller[u].holds
    BY <1>0, <1>2, StartWaitEffect DEF PutCaller
  <2> QED
    BY <1>1, <1>2, <2>1 DEF StartWait
<1>3. ASSUME NEW t \in Thread, NEW c \in Cmd, ReleaseEvent(t, c)
      PROVE  Quiet
  <2>1. UNCHANGED <<ran, worker>>
    BY <1>3 DEF ReleaseEvent
  <2>2. CASE event[c].ref = 1
    <3>1. queue'.list = queue.list /\ \A d \in Cmd : event'[d].st = event[d].st
      BY <1>0, <1>3, <2>2, ReleaseLastEffect DEF PutEvent, PutQueue, PutWorker
    <3>2. \A u \in Thread : caller'[u].holds \subseteq caller[u].holds
      BY <1>0, <1>3, <2>2, ReleaseLastEffect DEF PutCaller, PutQueue, PutWorker
    <3> QED
      BY <1>1, <2>1, <3>1, <3>2
  <2>3. CASE event[c].ref # 1
    <3>1. queue'.list = queue.list /\ \A d \in Cmd : event'[d].st = event[d].st
      BY <1>0, <1>3, <2>3, ReleaseEffect DEF PutEvent, PutQueue, PutWorker
    <3>2. \A u \in Thread : caller'[u].holds \subseteq caller[u].holds
      BY <1>0, <1>3, <2>3, ReleaseEffect DEF PutCaller, PutQueue, PutWorker
    <3> QED
      BY <1>1, <2>1, <3>1, <3>2
  <2> QED
    BY <2>2, <2>3
<1>4. ASSUME NEW t \in Thread, NEW c \in Cmd, NEW u \in Thread, Share(t, u, c)
      PROVE  Quiet
  <2>1. \A d \in Cmd : event'[d].st = event[d].st
    BY <1>0, <1>4, ShareEffect DEF PutEvent
  <2>2. \A v \in Thread : caller'[v].holds \subseteq caller[v].holds \cup {c}
    BY <1>0, <1>4, ShareEffect DEF PutCaller
  <2>3. event[c].st # "NONE"
    BY <1>0, <1>4, HeldLive DEF Share, LiveEvents
  <2> QED
    BY <1>1, <1>4, <2>1, <2>2, <2>3 DEF Share
<1>5. ASSUME NEW t \in Thread, ReleaseQueue(t)
      PROVE  Quiet
  <2>1. /\ \A u \in Thread : caller'[u].holds = caller[u].holds
        /\ queue'.list = queue.list
    BY <1>0, <1>5, ReleaseQueueEffect DEF PutCaller, PutQueue, PutWorker
  <2> QED
    BY <1>1, <1>5, <2>1 DEF ReleaseQueue
<1>6. ASSUME NEW t \in Thread, NEW a \in Arrays, StartWaitAny(t, a)
      PROVE  Quiet
  <2>1. \A u \in Thread : caller'[u].holds = caller[u].holds
    BY <1>0, <1>6, StartWaitAnyEffect DEF PutCaller
  <2> QED
    BY <1>1, <1>6, <2>1 DEF StartWaitAny
<1>7. ASSUME NEW t \in Thread, Wait(t)
      PROVE  Quiet
  <2>1. \A u \in Thread : caller'[u].holds = caller[u].holds
    BY <1>0, <1>7, SleepEffect, WokenEffect DEF PutCaller
  <2> QED
    BY <1>1, <1>7, <2>1 DEF Wait
<1>8. ASSUME NEW t \in Thread, LinkEvent(t)
      PROVE  Quiet
  <2>1. UNCHANGED <<queue, ran, worker>>
    BY <1>8 DEF LinkEvent
  <2>2. CASE event[caller[t].array[caller[t].i]].st = "PENDING"
    <3>1. /\ \A u \in Thread : caller'[u].holds = caller[u].holds
          /\ \A d \in Cmd : event'[d].st = event[d].st
      BY <1>0, <1>8, <2>2, LinkEffect DEF PutCaller, PutEvent
    <3> QED
      BY <1>1, <2>1, <3>1
  <2>3. CASE event[caller[t].array[caller[t].i]].st # "PENDING"
    <3>1. /\ \A u \in Thread : caller'[u].holds = caller[u].holds
          /\ UNCHANGED event
      BY <1>0, <1>8, <2>3, FoundEffect DEF PutCaller
    <3> QED
      BY <1>1, <2>1, <3>1
  <2> QED
    BY <2>2, <2>3
<1>9. ASSUME NEW t \in Thread, WaitGroup(t)
      PROVE  Quiet
  <2>1. \A u \in Thread : caller'[u].holds = caller[u].holds
    BY <1>0, <1>9, GroupSleepEffect, GroupWokenEffect DEF PutCaller
  <2> QED
    BY <1>1, <1>9, <2>1 DEF WaitGroup
<1>10. ASSUME NEW t \in Thread, UnlinkEvent(t)
      PROVE  Quiet
  <2>1. \A u \in Thread : caller'[u].holds = caller[u].holds
    BY <1>0, <1>10, UnlinkEffect DEF PutCaller
  <2>2. UNCHANGED <<queue, ran, worker>>
    BY <1>10 DEF UnlinkEvent, UnlinkWith
  <2>3. \A d \in Cmd : event'[d].st = event[d].st
    BY <1>0, <1>10, TypeSets DEF UnlinkEvent, UnlinkWith, EventT
  <2> QED
    BY <1>1, <2>1, <2>2, <2>3
<1>11. ASSUME NEW t \in Thread, WaitAnyReturn(t)
      PROVE  Quiet
  <2>1. \A u \in Thread : caller'[u].holds = caller[u].holds
    BY <1>0, <1>11, ReturnEffect DEF PutCaller
  <2> QED
    BY <1>1, <1>11, <2>1 DEF WaitAnyReturn
<1>12. ASSUME NEW t \in Thread, Destroy(t)
      PROVE  Quiet
  <2>1. /\ \A u \in Thread : caller'[u].holds = caller[u].holds
        /\ queue'.list = queue.list
    BY <1>0, <1>12, DestroyEffect DEF PutCaller, PutQueue, PutWorker
  <2>2. /\ worker' = Woken /\ UNCHANGED <<ran, event, group, links>>
    BY <1>12 DEF Destroy, DestroyWith
  <2>3. /\ worker'.cur = worker.cur /\ worker'.st = worker.st
        /\ worker'.gp = worker.gp /\ worker'.lk = worker.lk
        /\ worker'.at = worker.at \/ (worker.at = "asleep" /\ worker'.at = "look")
    BY <1>0, <2>2, TypeSets DEF Woken, WorkerT
  <2> QED
    BY <2>1, <2>2, <2>3 DEF Quiet
<1>13. ASSUME NEW t \in Thread, Join(t)
      PROVE  Quiet
  <2>1. /\ \A u \in Thread : caller'[u].holds = caller[u].holds
        /\ queue'.list = queue.list
    BY <1>0, <1>13, JoinEffect DEF PutCaller, PutQueue, PutWorker
  <2> QED
    BY <1>1, <1>13, <2>1 DEF Join
<1>14. CASE Finished
  BY <1>1, <1>14 DEF Finished, vars
<1> QED
  BY <1>2, <1>3, <1>4, <1>5, <1>6, <1>7, <1>8, <1>9, <1>10, <1>11, <1>12,
     <1>13, <1>14 DEF Next, Start, Continue, Work

\* A push: one more request in the list.
LEMMA PushFields ==
  ASSUME TypeOK, NEW t \in Thread, NEW c \in Cmd, Enqueue(t, c)
  PROVE  /\ ran' = ran /\ group' = group /\ links' = links
         /\ queue'.list = Append(queue.list, c)
         /\ queue'.freed = queue.freed /\ queue'.exit = queue.exit
         /\ worker'.cur = worker.cur /\ worker'.st = worker.st
         /\ worker'.gp = worker.gp /\ worker'.lk = worker.lk
         /\ worker'.at = worker.at \/ (worker.at = "asleep" /\ worker'.at = "look")
         /\ event[c].st = "NONE" /\ c \notin ToSet(ran) \cup ToSet(queue.list)
         /\ c # worker.cur /\ At(t) = "idle" /\ caller[t].keeps
<1>1. /\ UNCHANGED <<ran, group, links>> /\ worker' \in {worker, Woken}
      /\ event[c].st = "NONE" /\ c \notin ToSet(ran) \cup ToSet(queue.list)
      /\ c # worker.cur /\ At(t) = "idle" /\ caller[t].keeps
  BY DEF Enqueue, EnqueueWith, WokenByPush
<1>2. /\ worker'.cur = worker.cur /\ worker'.st = worker.st
      /\ worker'.gp = worker.gp /\ worker'.lk = worker.lk
      /\ worker'.at = worker.at \/ (worker.at = "asleep" /\ worker'.at = "look")
  BY <1>1, TypeSets DEF Woken, WorkerT
<1>3. /\ queue'.list = Append(queue.list, c)
      /\ queue'.freed = queue.freed /\ queue'.exit = queue.exit
  BY SilentEffect, EnqueueEffect DEF PutQueue
<1> QED
  BY <1>1, <1>2, <1>3

\* Its event is pending, and the caller refers to it.
LEMMA PushHolds ==
  ASSUME TypeOK, NEW t \in Thread, NEW c \in Cmd, Enqueue(t, c)
  PROVE  /\ c \in Silent => UNCHANGED <<event, caller>>
         /\ c \notin Silent => event'[c].st = "PENDING"
         /\ \A d \in Cmd : d # c => event'[d] = event[d]
         /\ \A d \in Cmd : /\ event'[d].group = event[d].group
                           /\ event'[d].link = event[d].link
         /\ c \notin Silent => caller'[t].holds = caller[t].holds \cup {c}
         /\ \A u \in Thread :
              /\ u # t => caller'[u] = caller[u]
              /\ caller'[u].at = caller[u].at /\ caller'[u].keeps = caller[u].keeps
              /\ caller'[u].array = caller[u].array /\ caller'[u].i = caller[u].i
              /\ caller'[u].n = caller[u].n /\ caller'[u].rv = caller[u].rv
              /\ caller[u].holds \subseteq caller'[u].holds
<1>1. CASE c \in Silent
  <2>1. UNCHANGED <<event, caller>>
    BY <1>1, SilentEffect
  <2> QED
    BY <1>1, <2>1
<1>2. CASE c \notin Silent
  <2>1. /\ event'[c].st = "PENDING" /\ event'[c].group = event[c].group
        /\ event'[c].link = event[c].link
        /\ \A d \in Cmd : d # c => event'[d] = event[d]
    BY <1>2, EnqueueEffect DEF PutEvent
  <2>2. /\ \A u \in Thread : u # t => caller'[u] = caller[u]
        /\ caller'[t].holds = caller[t].holds \cup {c}
        /\ caller'[t].at = caller[t].at /\ caller'[t].keeps = caller[t].keeps
        /\ caller'[t].array = caller[t].array /\ caller'[t].i = caller[t].i
        /\ caller'[t].n = caller[t].n /\ caller'[t].rv = caller[t].rv
    BY <1>2, EnqueueEffect DEF PutCaller
  <2> QED
    BY <1>2, <2>1, <2>2
<1> QED
  BY <1>1, <1>2

\* The worker takes the first request, or finds none.
LEMMA DequeueFields ==
  ASSUME TypeOK, Dequeue
  PROVE  /\ worker.at = "look" /\ UNCHANGED <<ran, event, caller, group, links>>
         /\ queue'.exit = queue.exit /\ queue'.ref = queue.ref
         /\ queue'.freed = queue.freed
         /\ worker'.st = worker.st /\ worker'.lk = worker.lk
         /\ worker'.gp = worker.gp
         /\ \/ /\ queue.list # <<>> /\ queue'.list = Tail(queue.list)
               /\ worker'.at = "run" /\ worker'.cur = Head(queue.list)
            \/ /\ queue.list = <<>> /\ queue'.list = queue.list
               /\ worker'.at \in {"gone", "asleep"} /\ worker'.cur = worker.cur
<1>1. queue \in QueueT /\ worker \in WorkerT
  BY TypeSets
<1>2. /\ worker.at = "look" /\ UNCHANGED <<ran, event, caller, group, links>>
  BY DEF Dequeue, DequeueFrom
<1>3. CASE queue.list # <<>>
  <2>1. /\ worker' = [worker EXCEPT !.at = "run", !.cur = Head(queue.list)]
        /\ queue' = [queue EXCEPT !.list = Tail(queue.list)]
    BY <1>3 DEF Dequeue, DequeueFrom
  <2> QED
    BY <1>1, <1>2, <1>3, <2>1 DEF QueueT, WorkerT
<1>4. CASE queue.list = <<>>
  <2>1. /\ worker' \in {[worker EXCEPT !.at = "gone"], [worker EXCEPT !.at = "asleep"]}
        /\ UNCHANGED queue
    BY <1>4 DEF Dequeue, DequeueFrom
  <2> QED
    BY <1>1, <1>2, <1>4, <2>1 DEF QueueT, WorkerT
<1> QED
  BY <1>3, <1>4

\* The worker executes its request.
LEMMA RunFields ==
  ASSUME TypeOK, NEW s \in Outcome, Run(s)
  PROVE  /\ worker.at = "run" /\ UNCHANGED <<queue, event, caller, group, links>>
         /\ ran' = Append(ran, worker.cur)
         /\ worker'.gp = worker.gp /\ worker'.lk = worker.lk
         /\ worker.cur \in Silent => worker'.at = "look" /\ worker'.cur = Nil
         /\ worker.cur \notin Silent =>
              /\ worker'.at = "signal" /\ worker'.st = s
              /\ worker'.cur = worker.cur
  BY TypeSets DEF Run, WorkerT

\* One round of a broadcast.
LEMMA WalkFields ==
  ASSUME TypeOK, Requests, WalkGroup
  PROVE  /\ worker.at = "walk" /\ worker.lk \in Link
         /\ worker.lk[1] \in Thread /\ worker.lk[2] \in Index
         /\ UNCHANGED <<queue, ran, event, links>>
         /\ worker'.at = worker.at /\ worker'.cur = worker.cur
         /\ worker'.st = worker.st /\ worker.st \in Outcome
         /\ worker'.gp = links[worker.lk[1]][worker.lk[2]].group
         /\ worker'.lk = links[worker.lk[1]][worker.lk[2]].next
         /\ \A t \in Thread :
              /\ group'[t] = IF t = worker.gp THEN worker.st ELSE group[t]
              /\ t # worker.gp => caller'[t] = caller[t]
              /\ caller'[t].at = IF t = worker.gp /\ At(t) = "gwaiting"
                                   THEN "gwait" ELSE At(t)
              /\ caller'[t].keeps = caller[t].keeps
              /\ caller'[t].holds = caller[t].holds
              /\ caller'[t].array = caller[t].array
              /\ caller'[t].i = caller[t].i /\ caller'[t].n = caller[t].n
              /\ caller'[t].rv = caller[t].rv
<1>1. /\ worker.at = "walk" /\ worker.lk # Nil
      /\ UNCHANGED <<queue, ran, event, links>>
  BY DEF WalkGroup
<1>2. worker.lk \in Link /\ worker.st \in Outcome
  BY <1>1, Fields DEF Requests
<1>3. worker.lk[1] \in Thread /\ worker.lk[2] \in Index
  BY <1>2 DEF Link
<1> DEFINE l == links[worker.lk[1]][worker.lk[2]]
<1>4. /\ group' = [group EXCEPT ![worker.gp] = worker.st]
      /\ worker' = [worker EXCEPT !.gp = l.group, !.lk = l.next]
      /\ caller' = [caller EXCEPT ![worker.gp].at = IF @ = "gwaiting" THEN "gwait" ELSE @]
  BY DEF WalkGroup
<1> HIDE DEF l
<1>5. /\ worker'.at = worker.at /\ worker'.cur = worker.cur
      /\ worker'.st = worker.st /\ worker'.gp = l.group /\ worker'.lk = l.next
  BY <1>4, TypeSets DEF WorkerT
<1>6. ASSUME NEW t \in Thread
      PROVE  group'[t] = IF t = worker.gp THEN worker.st ELSE group[t]
  BY <1>4, TypeSets
<1>7. ASSUME NEW t \in Thread
      PROVE  /\ t # worker.gp => caller'[t] = caller[t]
             /\ caller'[t].at = IF t = worker.gp /\ At(t) = "gwaiting"
                                  THEN "gwait" ELSE At(t)
             /\ caller'[t].keeps = caller[t].keeps
             /\ caller'[t].holds = caller[t].holds
             /\ caller'[t].array = caller[t].array
             /\ caller'[t].i = caller[t].i /\ caller'[t].n = caller[t].n
             /\ caller'[t].rv = caller[t].rv
  BY <1>4, TypeSets DEF CallerT, At
<1> QED
  BY <1>1, <1>2, <1>3, <1>5, <1>6, <1>7 DEF l

\* The event is signalled, and the threads asleep on it look again.
LEMMA SignalFields ==
  ASSUME TypeOK, Signal
  PROVE  /\ worker.at = "signal" /\ UNCHANGED <<queue, ran, group, links>>
         /\ worker'.at = "walk" /\ worker'.cur = worker.cur
         /\ worker'.st = worker.st
         /\ worker'.gp = event[worker.cur].group
         /\ worker'.lk = event[worker.cur].link
         /\ \A t \in Thread :
              /\ caller'[t].at = At(t)
                   \/ (At(t) = "waiting" /\ caller'[t].at = "wait")
              /\ caller'[t].keeps = caller[t].keeps
              /\ caller'[t].holds = caller[t].holds
              /\ caller'[t].array = caller[t].array
              /\ caller'[t].i = caller[t].i /\ caller'[t].n = caller[t].n
              /\ caller'[t].rv = caller[t].rv
<1>1. /\ worker.at = "signal" /\ UNCHANGED <<queue, ran, group, links>>
      /\ caller' = Wake(worker.cur)
  BY DEF Signal
<1>2. /\ worker'.at = "walk" /\ worker'.cur = worker.cur
      /\ worker'.st = worker.st
      /\ worker'.gp = event[worker.cur].group
      /\ worker'.lk = event[worker.cur].link
  BY TypeSets DEF Signal, WorkerT
<1>3. ASSUME NEW t \in Thread
      PROVE  /\ caller'[t].at = At(t)
                  \/ (At(t) = "waiting" /\ caller'[t].at = "wait")
             /\ caller'[t].keeps = caller[t].keeps
             /\ caller'[t].holds = caller[t].holds
             /\ caller'[t].array = caller[t].array
             /\ caller'[t].i = caller[t].i /\ caller'[t].n = caller[t].n
             /\ caller'[t].rv = caller[t].rv
  <2>1. caller[t] \in CallerT
    BY TypeSets
  <2>2. caller'[t] \in {caller[t], [caller[t] EXCEPT !.at = "wait"]}
        /\ (caller'[t] # caller[t] => At(t) = "waiting")
    BY <1>1 DEF Wake
  <2> QED
    BY <2>1, <2>2 DEF CallerT, At
<1> QED
  BY <1>1, <1>2, <1>3

\* The broadcast ends.
LEMMA WalkEndFields ==
  ASSUME TypeOK, WalkEnd
  PROVE  /\ worker.at = "walk" /\ worker.lk = Nil
         /\ UNCHANGED <<queue, ran, event, caller, group, links>>
         /\ worker'.at = "drop" /\ worker'.cur = worker.cur
         /\ worker'.st = worker.st
  BY TypeSets DEF WalkEnd, WorkerT

\* The worker drops its reference to the event.
LEMMA DropFields ==
  ASSUME TypeOK, Requests, EventStates, EventRefs, QueueRefs, DropEvent
  PROVE  /\ worker.at = "drop" /\ UNCHANGED <<ran, caller, group, links>>
         /\ worker.cur \in Cmd \ Silent
         /\ queue'.list = queue.list
         /\ worker'.at \in {"look", "gone"} /\ worker'.cur = Nil
         /\ worker'.st = "PENDING"
         /\ event'[worker.cur].ref = event[worker.cur].ref - 1
         /\ event'[worker.cur].group = event[worker.cur].group
         /\ event'[worker.cur].link = event[worker.cur].link
         /\ \A d \in Cmd : d # worker.cur => event'[d] = event[d]
         /\ \A d \in Cmd : event'[d].st = event[d].st
<1>1. worker.at = "drop" /\ UNCHANGED <<ran, caller, group, links>>
  BY DEF DropEvent, DropEventThen
<1>2. worker.cur \in Cmd \ Silent
  BY <1>1, AskedLive
<1>3. /\ queue'.list = queue.list
      /\ worker'.at \in {"look", "gone"} /\ worker'.cur = Nil
      /\ worker'.st = "PENDING"
  BY DropEffect DEF PutQueue, PutWorker
<1>4. /\ event'[worker.cur].st = event[worker.cur].st
      /\ event'[worker.cur].ref = event[worker.cur].ref - 1
      /\ event'[worker.cur].group = event[worker.cur].group
      /\ event'[worker.cur].link = event[worker.cur].link
      /\ \A d \in Cmd : d # worker.cur => event'[d] = event[d]
  BY DropEffect DEF PutEvent, PutQueue, PutWorker
<1> QED
  BY <1>1, <1>2, <1>3, <1>4

\* A request stays in one place.
LEMMA RequestsStep ==
  ASSUME IndInv, Next
  PROVE  Requests'
<1>0. /\ TypeOK /\ Requests /\ EventStates /\ EventRefs /\ QueueRefs
      /\ Nil \notin Cmd
  BY QueueAssumption DEF IndInv
<1>a. /\ queue.list \in Seq(Cmd) /\ ran \in Seq(Cmd)
      /\ ToSet(queue.list) \subseteq Cmd /\ ToSet(ran) \subseteq Cmd
  BY <1>0, Fields, ToSetFacts
<1>b. /\ Distinct(queue.list)
      /\ ToSet(queue.list) \cap ToSet(ran) = {}
      /\ worker.cur \notin ToSet(queue.list)
      /\ worker.at = "run" => worker.cur \in Cmd \ ToSet(ran)
      /\ worker.at \in {"signal", "walk", "drop"} =>
           worker.cur \in ToSet(ran) \ Silent /\ worker.st \in Outcome
      /\ worker.at \in {"look", "asleep", "gone"} => worker.cur = Nil
  BY <1>0 DEF Requests
<1> DEFINE R == /\ Distinct(queue'.list)
                /\ ToSet(queue'.list) \cap ToSet(ran') = {}
                /\ worker'.cur \notin ToSet(queue'.list)
                /\ worker'.at = "run" => worker'.cur \in Cmd \ ToSet(ran')
                /\ worker'.at \in {"signal", "walk", "drop"} =>
                     worker'.cur \in ToSet(ran') \ Silent /\ worker'.st \in Outcome
                /\ worker'.at \in {"look", "asleep", "gone"} => worker'.cur = Nil
<1> SUFFICES R
  BY DEF Requests, Distinct, ToSet
<1>1. CASE Quiet
  BY <1>1, <1>b DEF Quiet
<1>2. ASSUME NEW t \in Thread, NEW c \in Cmd, Enqueue(t, c)
      PROVE  R
  <2>1. /\ ran' = ran /\ queue'.list = Append(queue.list, c)
        /\ worker'.cur = worker.cur /\ worker'.st = worker.st
        /\ worker'.at = worker.at \/ (worker.at = "asleep" /\ worker'.at = "look")
        /\ c \notin ToSet(ran) \cup ToSet(queue.list) /\ c # worker.cur
    BY <1>0, <1>2, PushFields
  <2>2. ToSet(queue'.list) = ToSet(queue.list) \cup {c}
    BY <1>a, <2>1, ToSetFacts
  <2>3. Distinct(queue'.list)
    BY <1>a, <1>b, <2>1, DistinctFacts
  <2> QED
    BY <1>b, <2>1, <2>2, <2>3
<1>3. CASE Dequeue
  <2>1. /\ worker.at = "look" /\ ran' = ran
        /\ \/ /\ queue.list # <<>> /\ queue'.list = Tail(queue.list)
              /\ worker'.at = "run" /\ worker'.cur = Head(queue.list)
           \/ /\ queue.list = <<>> /\ queue'.list = queue.list
              /\ worker'.at \in {"gone", "asleep"} /\ worker'.cur = worker.cur
    BY <1>0, <1>3, DequeueFields
  <2>2. CASE queue.list # <<>>
    <3>1. /\ Distinct(Tail(queue.list)) /\ Head(queue.list) \notin ToSet(Tail(queue.list))
          /\ Head(queue.list) \in ToSet(queue.list)
          /\ ToSet(Tail(queue.list)) \subseteq ToSet(queue.list)
      BY <1>a, <1>b, <2>2, DistinctFacts, ToSetFacts
    <3> QED
      BY <1>a, <1>b, <2>1, <2>2, <3>1
  <2>3. CASE queue.list = <<>>
    BY <1>b, <2>1, <2>3
  <2> QED
    BY <2>2, <2>3
<1>4. ASSUME NEW s \in Outcome, Run(s)
      PROVE  R
  <2>1. /\ worker.at = "run" /\ UNCHANGED queue
        /\ ran' = Append(ran, worker.cur)
        /\ worker.cur \in Silent => worker'.at = "look" /\ worker'.cur = Nil
        /\ worker.cur \notin Silent =>
             /\ worker'.at = "signal" /\ worker'.st = s
             /\ worker'.cur = worker.cur
    BY <1>0, <1>4, RunFields
  <2>2. ToSet(ran') = ToSet(ran) \cup {worker.cur}
    BY <1>a, <2>1, ToSetFacts
  <2> QED
    BY <1>0, <1>a, <1>b, <2>1, <2>2
<1>5. CASE Signal
  <2>1. /\ worker.at = "signal" /\ UNCHANGED <<queue, ran>>
        /\ worker'.at = "walk" /\ worker'.cur = worker.cur
        /\ worker'.st = worker.st
    BY <1>0, <1>5, SignalFields
  <2> QED
    BY <1>b, <2>1
<1>6. CASE WalkGroup
  <2>1. /\ worker.at = "walk" /\ UNCHANGED <<queue, ran>>
        /\ worker'.at = "walk" /\ worker'.cur = worker.cur
        /\ worker'.st = worker.st
    BY <1>0, <1>6, WalkFields
  <2> QED
    BY <1>b, <2>1
<1>7. CASE WalkEnd
  <2>1. /\ worker.at = "walk" /\ UNCHANGED <<queue, ran>>
        /\ worker'.at = "drop" /\ worker'.cur = worker.cur
        /\ worker'.st = worker.st
    BY <1>0, <1>7, WalkEndFields
  <2> QED
    BY <1>b, <2>1
<1>8. CASE DropEvent
  <2>1. /\ worker.at = "drop" /\ ran' = ran /\ queue'.list = queue.list
        /\ worker'.at \in {"look", "gone"} /\ worker'.cur = Nil
    BY <1>0, <1>8, DropFields
  <2> QED
    BY <1>0, <1>a, <1>b, <2>1
<1> QED
  BY <1>1, <1>2, <1>3, <1>4, <1>5, <1>6, <1>7, <1>8, QuietCases

\* The event of a request is pending until the worker signals it.
LEMMA EventStatesStep ==
  ASSUME IndInv, Next
  PROVE  EventStates'
<1>0. /\ TypeOK /\ Requests /\ EventStates /\ EventRefs /\ QueueRefs
      /\ Nil \notin Cmd /\ Silent \subseteq Cmd
      /\ Outcome \subseteq {"SUCCESS", "FAILURE"}
  BY QueueAssumption DEF IndInv
<1>a. /\ queue.list \in Seq(Cmd) /\ ran \in Seq(Cmd)
      /\ ToSet(queue.list) \subseteq Cmd /\ ToSet(ran) \subseteq Cmd
  BY <1>0, Fields, ToSetFacts
<1>b. /\ worker.cur \notin ToSet(queue.list)
      /\ worker.at = "run" => worker.cur \in Cmd \ ToSet(ran)
      /\ worker.at \in {"signal", "walk", "drop"} =>
           worker.cur \in ToSet(ran) \ Silent /\ worker.st \in Outcome
      /\ worker.at \in {"look", "asleep", "gone"} => worker.cur = Nil
      /\ ToSet(queue.list) \cap ToSet(ran) = {}
  BY <1>0 DEF Requests
<1>c. /\ \A c \in ToSet(queue.list) \ Silent : event[c].st = "PENDING"
      /\ worker.at \in {"run", "signal"} /\ worker.cur \notin Silent =>
           event[worker.cur].st = "PENDING"
      /\ worker.at \in {"walk", "drop"} => event[worker.cur].st \in Outcome
      /\ \A c \in Cmd : event[c].st = "NONE" =>
           \A t \in Thread : c \notin caller[t].holds
      /\ \A c \in Silent : event[c].st = "NONE"
  BY <1>0 DEF EventStates, Complete, Holders
<1> DEFINE R == /\ \A c \in ToSet(queue'.list) \ Silent : event'[c].st = "PENDING"
                /\ worker'.at \in {"run", "signal"} /\ worker'.cur \notin Silent =>
                     event'[worker'.cur].st = "PENDING"
                /\ worker'.at \in {"walk", "drop"} => event'[worker'.cur].st \in Outcome
                /\ \A c \in Cmd : event'[c].st = "NONE" =>
                     \A t \in Thread : c \notin caller'[t].holds
                /\ \A c \in Silent : event'[c].st = "NONE"
<1> SUFFICES R
  BY DEF EventStates, Complete, Holders, ToSet
<1>1. CASE Quiet
  <2>1. /\ queue'.list = queue.list
        /\ \A c \in Cmd : event'[c].st = event[c].st
        /\ worker'.cur = worker.cur
        /\ worker'.at = worker.at \/ (worker.at = "asleep" /\ worker'.at = "look")
        /\ \A t \in Thread : \A c \in caller'[t].holds :
             c \in caller[t].holds \/ event[c].st # "NONE"
    BY <1>1 DEF Quiet
  <2>2. worker.at \in {"run", "signal", "walk", "drop"} => worker.cur \in Cmd
    BY <1>a, <1>b
  <2> QED
    BY <1>0, <1>a, <1>c, <2>1, <2>2
<1>2. ASSUME NEW t \in Thread, NEW c \in Cmd, Enqueue(t, c)
      PROVE  R
  <2>0. /\ queue'.list = Append(queue.list, c)
        /\ worker'.cur = worker.cur
        /\ worker'.at = worker.at \/ (worker.at = "asleep" /\ worker'.at = "look")
        /\ event[c].st = "NONE" /\ c \notin ToSet(ran) \cup ToSet(queue.list)
        /\ c # worker.cur
    BY <1>0, <1>2, PushFields
  <2>a. /\ c \in Silent => UNCHANGED <<event, caller>>
        /\ c \notin Silent => event'[c].st = "PENDING"
        /\ \A d \in Cmd : d # c => event'[d] = event[d]
        /\ \A u \in Thread : u # t => caller'[u] = caller[u]
        /\ c \notin Silent => caller'[t].holds = caller[t].holds \cup {c}
    BY <1>0, <1>2, PushHolds
  <2>2. ToSet(queue'.list) = ToSet(queue.list) \cup {c}
    BY <1>a, <2>0, <2>a, ToSetFacts
  <2>3. worker.at \in {"run", "signal", "walk", "drop"} => worker.cur \in Cmd
    BY <1>a, <1>b
  <2>4. \A d \in ToSet(queue'.list) \ Silent : event'[d].st = "PENDING"
    BY <1>a, <1>c, <2>0, <2>a, <2>2
  <2>5. /\ worker'.at \in {"run", "signal"} /\ worker'.cur \notin Silent =>
             event'[worker'.cur].st = "PENDING"
        /\ worker'.at \in {"walk", "drop"} => event'[worker'.cur].st \in Outcome
    BY <1>c, <2>0, <2>a, <2>3
  <2>6. \A d \in Silent : event'[d].st = "NONE"
    BY <1>0, <1>c, <2>0, <2>a
  <2>7. ASSUME NEW d \in Cmd, event'[d].st = "NONE", NEW u \in Thread
        PROVE  d \notin caller'[u].holds
    <3>1. event[d].st = "NONE" /\ d \notin caller[u].holds
      BY <1>c, <2>0, <2>a, <2>7
    <3>2. d = c => c \in Silent
      BY <2>0, <2>a, <2>7
    <3> QED
      BY <2>0, <2>a, <3>1, <3>2
  <2> QED
    BY <2>4, <2>5, <2>6, <2>7
<1>3. CASE Dequeue
  <2>1. /\ worker.at = "look" /\ UNCHANGED <<event, caller>>
        /\ \/ /\ queue.list # <<>> /\ queue'.list = Tail(queue.list)
              /\ worker'.at = "run" /\ worker'.cur = Head(queue.list)
           \/ /\ queue.list = <<>> /\ queue'.list = queue.list
              /\ worker'.at \in {"gone", "asleep"} /\ worker'.cur = worker.cur
    BY <1>0, <1>3, DequeueFields
  <2>2. CASE queue.list # <<>>
    <3>1. /\ Head(queue.list) \in ToSet(queue.list)
          /\ ToSet(Tail(queue.list)) \subseteq ToSet(queue.list)
      BY <1>a, <2>2, ToSetFacts
    <3> QED
      BY <1>c, <2>1, <2>2, <3>1
  <2>3. CASE queue.list = <<>>
    BY <1>c, <2>1, <2>3
  <2> QED
    BY <2>2, <2>3
<1>4. ASSUME NEW s \in Outcome, Run(s)
      PROVE  R
  <2>1. /\ worker.at = "run" /\ UNCHANGED <<queue, event, caller>>
        /\ worker.cur \in Silent => worker'.at = "look" /\ worker'.cur = Nil
        /\ worker.cur \notin Silent =>
             /\ worker'.at = "signal" /\ worker'.cur = worker.cur
    BY <1>0, <1>4, RunFields
  <2> QED
    BY <1>c, <2>1
<1>5. CASE Signal
  <2>1. /\ worker.at = "signal" /\ UNCHANGED queue
        /\ worker'.at = "walk" /\ worker'.cur = worker.cur
        /\ \A t \in Thread : caller'[t].holds = caller[t].holds
    BY <1>0, <1>5, SignalFields
  <2>2. /\ worker.cur \in Cmd \ Silent
        /\ worker.st \in Outcome /\ event'[worker.cur].st = worker.st
        /\ \A d \in Cmd : d # worker.cur => event'[d] = event[d]
    BY <1>0, <1>5, SignalEffect DEF PutEvent
  <2>3. worker.cur \notin ToSet(queue.list) /\ "NONE" \notin Outcome
    BY <1>0, <1>b
  <2>4. \A c \in ToSet(queue'.list) \ Silent : event'[c].st = "PENDING"
    BY <1>a, <1>c, <2>1, <2>2, <2>3
  <2> QED
    BY <1>0, <1>c, <2>1, <2>2, <2>3, <2>4
<1>6. CASE WalkGroup
  <2>1. /\ worker.at = "walk" /\ UNCHANGED <<queue, event>>
        /\ worker'.at = "walk" /\ worker'.cur = worker.cur
        /\ \A t \in Thread : caller'[t].holds = caller[t].holds
    BY <1>0, <1>6, WalkFields
  <2> QED
    BY <1>c, <2>1
<1>7. CASE WalkEnd
  <2>1. /\ worker.at = "walk" /\ UNCHANGED <<queue, event, caller>>
        /\ worker'.at = "drop" /\ worker'.cur = worker.cur
    BY <1>0, <1>7, WalkEndFields
  <2> QED
    BY <1>c, <2>1
<1>8. CASE DropEvent
  <2>1. /\ worker.at = "drop" /\ queue'.list = queue.list /\ UNCHANGED caller
        /\ worker'.at \in {"look", "gone"} /\ worker'.cur = Nil
        /\ \A d \in Cmd : event'[d].st = event[d].st
    BY <1>0, <1>8, DropFields
  <2> QED
    BY <1>0, <1>a, <1>c, <2>1
<1> QED
  BY <1>1, <1>2, <1>3, <1>4, <1>5, <1>6, <1>7, <1>8, QuietCases

(***************************************************************************)
(* The references, and the end of the queue.                               *)
(***************************************************************************)

\* A step that leaves the references alone.
Steady ==
  /\ queue'.ref = queue.ref
  /\ \A c \in Cmd : /\ event'[c].ref = event[c].ref
                    /\ event'[c].st = "NONE" <=> event[c].st = "NONE"
  /\ \A t \in Thread : /\ caller'[t].keeps = caller[t].keeps
                       /\ caller'[t].holds = caller[t].holds
  /\ Asked' = Asked

\* A step that neither starts the destruction of the queue nor carries it on.
SameEnd ==
  /\ queue'.freed = queue.freed
  /\ worker.at = "gone" => worker'.at = "gone"
  /\ \A t \in Thread : caller'[t].at \in {"destroy", "join"} <=> Leaving(t)

\* What a step of a call leaves alone.
LEMMA CallSteady ==
  ASSUME UNCHANGED <<queue, worker>>, NEW t \in Thread,
         ~Leaving(t), caller'[t].at \notin {"destroy", "join"},
         caller'[t].keeps = caller[t].keeps, caller'[t].holds = caller[t].holds,
         \A u \in Thread : u # t => caller'[u] = caller[u],
         \A c \in Cmd : event'[c].ref = event[c].ref /\ event'[c].st = event[c].st
  PROVE  Steady /\ SameEnd
<1>1. Asked' = Asked
  BY DEF Asked, ToSet
<1>2. \A u \in Thread : caller'[u].at \in {"destroy", "join"} <=> Leaving(u)
  BY DEF Leaving, At
<1>3. \A u \in Thread : /\ caller'[u].keeps = caller[u].keeps
                        /\ caller'[u].holds = caller[u].holds
  OBVIOUS
<1> QED
  BY <1>1, <1>2, <1>3 DEF Steady, SameEnd

\* The steps that move references are a push, a share and the releases.
LEMMA SteadyCases ==
  ASSUME IndInv, Next
  PROVE  \/ Steady /\ SameEnd
         \/ Steady /\ \E t \in Thread : Destroy(t) \/ Join(t)
         \/ \E t \in Thread : \E c \in Cmd \ Silent : Enqueue(t, c)
         \/ \E t \in Thread : \E c \in Cmd : ReleaseEvent(t, c)
         \/ \E t \in Thread : \E c \in Cmd : \E u \in Thread : Share(t, u, c)
         \/ (\E t \in Thread : ReleaseQueue(t)) \/ DropEvent
<1>0. /\ TypeOK /\ Requests /\ EventStates /\ Calls /\ EventRefs /\ QueueRefs
      /\ Nil \notin Cmd
  BY QueueAssumption DEF IndInv
<1>a. /\ queue.list \in Seq(Cmd) /\ worker.cur \notin ToSet(queue.list)
      /\ worker.at \in {"look", "asleep", "gone"} => worker.cur = Nil
  BY <1>0, Fields DEF Requests
<1>2. ASSUME NEW t \in Thread, NEW c \in Cmd, StartWait(t, c)
      PROVE  Steady /\ SameEnd
  <2>1. /\ UNCHANGED <<queue, worker>> /\ ~Leaving(t)
        /\ \A d \in Cmd : event'[d].ref = event[d].ref /\ event'[d].st = event[d].st
    BY <1>2 DEF StartWait, Leaving
  <2>2. /\ caller'[t].at \notin {"destroy", "join"}
        /\ caller'[t].keeps = caller[t].keeps /\ caller'[t].holds = caller[t].holds
        /\ \A u \in Thread : u # t => caller'[u] = caller[u]
    BY <1>0, <1>2, StartWaitEffect DEF PutCaller
  <2> QED
    BY <2>1, <2>2, CallSteady
<1>6. ASSUME NEW t \in Thread, NEW a \in Arrays, StartWaitAny(t, a)
      PROVE  Steady /\ SameEnd
  <2>1. /\ UNCHANGED <<queue, worker>> /\ ~Leaving(t)
        /\ \A d \in Cmd : event'[d].ref = event[d].ref /\ event'[d].st = event[d].st
    BY <1>6 DEF StartWaitAny, Leaving
  <2>2. /\ caller'[t].at \notin {"destroy", "join"}
        /\ caller'[t].keeps = caller[t].keeps /\ caller'[t].holds = caller[t].holds
        /\ \A u \in Thread : u # t => caller'[u] = caller[u]
    BY <1>0, <1>6, StartWaitAnyEffect DEF PutCaller
  <2> QED
    BY <2>1, <2>2, CallSteady
<1>7. ASSUME NEW t \in Thread, Wait(t)
      PROVE  Steady /\ SameEnd
  <2>1. /\ UNCHANGED <<queue, worker>> /\ ~Leaving(t)
        /\ \A d \in Cmd : event'[d].ref = event[d].ref /\ event'[d].st = event[d].st
    BY <1>7 DEF Wait, Leaving
  <2>2. /\ caller'[t].at \notin {"destroy", "join"}
        /\ caller'[t].keeps = caller[t].keeps /\ caller'[t].holds = caller[t].holds
        /\ \A u \in Thread : u # t => caller'[u] = caller[u]
    BY <1>0, <1>7, SleepEffect, WokenEffect DEF PutCaller
  <2> QED
    BY <2>1, <2>2, CallSteady
<1>8. ASSUME NEW t \in Thread, LinkEvent(t)
      PROVE  Steady /\ SameEnd
  <2>1. UNCHANGED <<queue, worker>> /\ ~Leaving(t)
    BY <1>8 DEF LinkEvent, Leaving
  <2>2. CASE event[caller[t].array[caller[t].i]].st = "PENDING"
    <3>1. /\ caller'[t].at \notin {"destroy", "join"}
          /\ caller'[t].keeps = caller[t].keeps /\ caller'[t].holds = caller[t].holds
          /\ \A u \in Thread : u # t => caller'[u] = caller[u]
      BY <1>0, <1>8, <2>2, LinkEffect DEF PutCaller
    <3>2. \A d \in Cmd : event'[d].ref = event[d].ref /\ event'[d].st = event[d].st
      BY <1>0, <1>8, <2>2, LinkEffect DEF PutEvent
    <3> QED
      BY <2>1, <3>1, <3>2, CallSteady
  <2>3. CASE event[caller[t].array[caller[t].i]].st # "PENDING"
    <3>1. /\ caller'[t].at \notin {"destroy", "join"}
          /\ caller'[t].keeps = caller[t].keeps /\ caller'[t].holds = caller[t].holds
          /\ \A u \in Thread : u # t => caller'[u] = caller[u]
          /\ UNCHANGED event
      BY <1>0, <1>8, <2>3, FoundEffect DEF PutCaller
    <3> QED
      BY <2>1, <3>1, CallSteady
  <2> QED
    BY <2>2, <2>3
<1>9. ASSUME NEW t \in Thread, WaitGroup(t)
      PROVE  Steady /\ SameEnd
  <2>1. /\ UNCHANGED <<queue, worker>> /\ ~Leaving(t)
        /\ \A d \in Cmd : event'[d].ref = event[d].ref /\ event'[d].st = event[d].st
    BY <1>9 DEF WaitGroup, Leaving
  <2>2. /\ caller'[t].at \notin {"destroy", "join"}
        /\ caller'[t].keeps = caller[t].keeps /\ caller'[t].holds = caller[t].holds
        /\ \A u \in Thread : u # t => caller'[u] = caller[u]
    BY <1>0, <1>9, GroupSleepEffect, GroupWokenEffect DEF PutCaller
  <2> QED
    BY <2>1, <2>2, CallSteady
<1>10. ASSUME NEW t \in Thread, UnlinkEvent(t)
      PROVE  Steady /\ SameEnd
  <2>1. UNCHANGED <<queue, worker>> /\ ~Leaving(t) /\ At(t) = "unlink"
    BY <1>10 DEF UnlinkEvent, UnlinkWith, Leaving
  <2>2. /\ caller'[t].at \notin {"destroy", "join"}
        /\ caller'[t].keeps = caller[t].keeps /\ caller'[t].holds = caller[t].holds
        /\ \A u \in Thread : u # t => caller'[u] = caller[u]
    BY <1>0, <1>10, <2>1, UnlinkEffect DEF PutCaller, At
  <2>3. \A d \in Cmd : event'[d].ref = event[d].ref /\ event'[d].st = event[d].st
    BY <1>0, <1>10, TypeSets DEF UnlinkEvent, UnlinkWith, EventT
  <2> QED
    BY <2>1, <2>2, <2>3, CallSteady
<1>11. ASSUME NEW t \in Thread, WaitAnyReturn(t)
      PROVE  Steady /\ SameEnd
  <2>1. /\ UNCHANGED <<queue, worker>> /\ ~Leaving(t)
        /\ \A d \in Cmd : event'[d].ref = event[d].ref /\ event'[d].st = event[d].st
    BY <1>11 DEF WaitAnyReturn, Returning, Leaving
  <2>2. /\ caller'[t].at \notin {"destroy", "join"}
        /\ caller'[t].keeps = caller[t].keeps /\ caller'[t].holds = caller[t].holds
        /\ \A u \in Thread : u # t => caller'[u] = caller[u]
    BY <1>0, <1>11, ReturnEffect DEF PutCaller
  <2> QED
    BY <2>1, <2>2, CallSteady
<1>12. ASSUME NEW t \in Thread, Destroy(t)
      PROVE  Steady
  <2>1. /\ \A u \in Thread : /\ caller'[u].holds = caller[u].holds
                             /\ caller'[u].keeps = caller[u].keeps
        /\ queue'.list = queue.list /\ queue'.ref = queue.ref
    BY <1>0, <1>12, DestroyEffect DEF PutCaller, PutQueue
  <2>2. worker' = Woken /\ UNCHANGED event
    BY <1>12 DEF Destroy, DestroyWith
  <2>3. worker'.cur = worker.cur
    BY <1>0, <2>2, TypeSets DEF Woken, WorkerT
  <2>4. Asked' = Asked
    BY <2>1, <2>3 DEF Asked, ToSet
  <2> QED
    BY <2>1, <2>2, <2>4 DEF Steady
<1>13. ASSUME NEW t \in Thread, Join(t)
      PROVE  Steady
  <2>1. /\ \A u \in Thread : /\ caller'[u].holds = caller[u].holds
                             /\ caller'[u].keeps = caller[u].keeps
        /\ queue'.list = queue.list /\ queue'.ref = queue.ref
    BY <1>0, <1>13, JoinEffect DEF PutCaller, PutQueue
  <2>2. UNCHANGED <<event, worker>>
    BY <1>13 DEF Join
  <2>4. Asked' = Asked
    BY <2>1, <2>2 DEF Asked, ToSet
  <2> QED
    BY <2>1, <2>2, <2>4 DEF Steady
<1>14. ASSUME NEW t \in Thread, NEW c \in Silent, c \in Cmd, Enqueue(t, c)
      PROVE  Steady /\ SameEnd
  <2>1. /\ UNCHANGED <<event, caller>> /\ queue'.ref = queue.ref
        /\ queue'.freed = queue.freed /\ queue'.list = Append(queue.list, c)
    BY <1>0, <1>14, SilentEffect DEF PutQueue
  <2>2. /\ worker'.cur = worker.cur
        /\ worker.at = "gone" => worker'.at = "gone"
    BY <1>0, <1>14, PushFields
  <2>3. ToSet(queue'.list) = ToSet(queue.list) \cup {c}
    BY <1>a, <2>1, ToSetFacts
  <2>4. (ToSet(queue.list) \cup ({worker.cur} \ {Nil})) \ Silent
          = (ToSet(queue'.list) \cup ({worker'.cur} \ {Nil})) \ Silent
    BY <1>14, <2>2, <2>3
  <2>5. Asked' = Asked
    BY <2>4 DEF Asked, ToSet
  <2> QED
    BY <2>1, <2>2, <2>5 DEF Steady, SameEnd, Leaving, At
<1>15. CASE Dequeue
  <2>1. /\ worker.at = "look" /\ UNCHANGED <<event, caller>>
        /\ queue'.ref = queue.ref /\ queue'.freed = queue.freed
        /\ \/ /\ queue.list # <<>> /\ queue'.list = Tail(queue.list)
              /\ worker'.at = "run" /\ worker'.cur = Head(queue.list)
           \/ /\ queue.list = <<>> /\ queue'.list = queue.list
              /\ worker'.cur = worker.cur
    BY <1>0, <1>15, DequeueFields
  <2>2. ToSet(queue'.list) \cup ({worker'.cur} \ {Nil})
          = ToSet(queue.list) \cup ({worker.cur} \ {Nil})
    <3>1. CASE queue.list # <<>>
      <4>1. /\ ToSet(queue.list) = ToSet(Tail(queue.list)) \cup {Head(queue.list)}
            /\ Head(queue.list) \in Cmd
        BY <1>a, <3>1, ToSetFacts
      <4> QED
        BY <1>0, <1>a, <2>1, <3>1, <4>1
    <3>2. CASE queue.list = <<>>
      BY <2>1, <3>2
    <3> QED
      BY <3>1, <3>2
  <2>3. Asked' = Asked
    BY <2>2 DEF Asked, ToSet
  <2> QED
    BY <2>1, <2>3 DEF Steady, SameEnd, Leaving, At
<1>16. ASSUME NEW s \in Outcome, Run(s)
       PROVE  Steady /\ SameEnd
  <2>1. /\ worker.at = "run" /\ UNCHANGED <<queue, event, caller>>
        /\ worker.cur \in Silent => worker'.cur = Nil
        /\ worker.cur \notin Silent => worker'.cur = worker.cur
    BY <1>0, <1>16, RunFields
  <2>2. ({worker'.cur} \ {Nil}) \ Silent = ({worker.cur} \ {Nil}) \ Silent
    BY <2>1
  <2>3. Asked' = Asked
    BY <2>1, <2>2 DEF Asked, ToSet
  <2> QED
    BY <2>1, <2>3 DEF Steady, SameEnd, Leaving, At
<1>17. CASE Signal
  <2>1. /\ worker.at = "signal" /\ UNCHANGED queue /\ worker'.cur = worker.cur
        /\ \A t \in Thread :
             /\ caller'[t].at = At(t)
                  \/ (At(t) = "waiting" /\ caller'[t].at = "wait")
             /\ caller'[t].keeps = caller[t].keeps
             /\ caller'[t].holds = caller[t].holds
    BY <1>0, <1>17, SignalFields
  <2>2. \A d \in Cmd : /\ event'[d].ref = event[d].ref
                       /\ event'[d].st = "NONE" <=> event[d].st = "NONE"
    <3>1. /\ worker.cur \in Cmd /\ event[worker.cur].st # "NONE"
      BY <1>0, <2>1, AskedLive DEF LiveEvents
    <3>2. /\ event'[worker.cur].ref = event[worker.cur].ref
          /\ event'[worker.cur].st = worker.st /\ worker.st \in Outcome
          /\ \A d \in Cmd : d # worker.cur => event'[d] = event[d]
      BY <1>0, <1>17, SignalEffect DEF PutEvent
    <3>3. "NONE" \notin Outcome
      BY QueueAssumption
    <3> QED
      BY <3>1, <3>2, <3>3
  <2>3. Asked' = Asked
    BY <2>1 DEF Asked, ToSet
  <2> QED
    BY <2>1, <2>2, <2>3 DEF Steady, SameEnd, Leaving
<1>18. CASE WalkGroup
  <2>1. /\ worker.at = "walk" /\ UNCHANGED <<queue, event>> /\ worker'.cur = worker.cur
        /\ \A t \in Thread :
             /\ caller'[t].at = IF t = worker.gp /\ At(t) = "gwaiting"
                                  THEN "gwait" ELSE At(t)
             /\ caller'[t].keeps = caller[t].keeps
             /\ caller'[t].holds = caller[t].holds
    BY <1>0, <1>18, WalkFields
  <2>2. Asked' = Asked
    BY <2>1 DEF Asked, ToSet
  <2> QED
    BY <2>1, <2>2 DEF Steady, SameEnd, Leaving
<1>19. CASE WalkEnd
  <2>1. /\ worker.at = "walk" /\ UNCHANGED <<queue, event, caller>>
        /\ worker'.cur = worker.cur
    BY <1>0, <1>19, WalkEndFields
  <2>2. Asked' = Asked
    BY <2>1 DEF Asked, ToSet
  <2> QED
    BY <2>1, <2>2 DEF Steady, SameEnd, Leaving, At
<1>20. CASE Finished
  <2>1. UNCHANGED <<queue, event, caller, worker>>
    BY <1>20 DEF Finished, vars
  <2>2. Asked' = Asked
    BY <2>1 DEF Asked, ToSet
  <2> QED
    BY <2>1, <2>2 DEF Steady, SameEnd, Leaving, At
<1>21. ASSUME NEW t \in Thread, Start(t)
       PROVE  \/ Steady /\ SameEnd
              \/ \E c \in Cmd \ Silent : Enqueue(t, c)
              \/ \E c \in Cmd : ReleaseEvent(t, c)
              \/ \E c \in Cmd : \E u \in Thread : Share(t, u, c)
              \/ ReleaseQueue(t)
  BY <1>2, <1>6, <1>14, <1>21 DEF Start
<1>22. ASSUME NEW t \in Thread, Continue(t)
       PROVE  \/ Steady /\ SameEnd
              \/ Steady /\ (Destroy(t) \/ Join(t))
  BY <1>7, <1>8, <1>9, <1>10, <1>11, <1>12, <1>13, <1>22 DEF Continue
<1>23. CASE Work
  BY <1>15, <1>16, <1>17, <1>18, <1>19, <1>23 DEF Work
<1> QED
  BY <1>20, <1>21, <1>22, <1>23, Zenon DEF Next

\* One member more or less.
LEMMA OneMore ==
  ASSUME NEW S, IsFiniteSet(S), NEW x
  PROVE  /\ x \notin S => /\ IsFiniteSet(S \cup {x})
                          /\ Cardinality(S \cup {x}) = Cardinality(S) + 1
         /\ x \in S => /\ IsFiniteSet(S \ {x})
                       /\ Cardinality(S \ {x}) = Cardinality(S) - 1
                       /\ Cardinality(S) - 1 \in Nat
<1>1. Cardinality(S) \in Nat
  BY FS_CardinalityType
<1>2. ASSUME x \in S PROVE Cardinality(S) - 1 \in Nat
  BY <1>1, <1>2, FS_EmptySet
<1> QED
  BY <1>1, <1>2, FS_AddElement, FS_RemoveElement

\* Every reference to an event stays somebody's.
LEMMA EventRefsStep ==
  ASSUME IndInv, Next
  PROVE  EventRefs'
<1>0. /\ TypeOK /\ Requests /\ EventStates /\ Calls /\ EventRefs /\ QueueRefs
      /\ Nil \notin Cmd
  BY QueueAssumption DEF IndInv
<1>a. /\ queue.list \in Seq(Cmd) /\ worker.cur \notin ToSet(queue.list)
      /\ \A t \in Thread : caller[t].holds \in SUBSET Cmd
  BY <1>0, Fields DEF Requests
<1> SUFFICES ASSUME NEW d \in Cmd
             PROVE  event'[d].ref = Cardinality(Holders(d)') + AskedRef(d)'
  BY DEF EventRefs
<1>b. event[d].ref = Cardinality(Holders(d)) + AskedRef(d)
  BY <1>0 DEF EventRefs
<1>c. IsFiniteSet(Holders(d)) /\ Cardinality(Holders(d)) \in Nat
  BY QueueAssumption, FS_Subset, FS_CardinalityType DEF Holders
<1>d. AskedRef(d) \in {0, 1}
  BY DEF AskedRef
<1>e. ASSUME event'[d].ref = event[d].ref, Asked' = Asked,
             \A t \in Thread : d \in caller'[t].holds <=> d \in caller[t].holds
      PROVE  event'[d].ref = Cardinality(Holders(d)') + AskedRef(d)'
  <2>1. Holders(d)' = Holders(d)
    BY <1>e DEF Holders
  <2>2. AskedRef(d)' = AskedRef(d)
    BY <1>e DEF AskedRef
  <2> QED
    BY <1>b, <1>e, <2>1, <2>2
<1>1. CASE Steady
  BY <1>1, <1>e DEF Steady
<1>2. ASSUME NEW t \in Thread, NEW c \in Cmd \ Silent, Enqueue(t, c)
      PROVE  event'[d].ref = Cardinality(Holders(d)') + AskedRef(d)'
  <2>1. /\ event[c].st = "NONE" /\ c \notin ToSet(queue.list) /\ c # worker.cur
        /\ worker'.cur = worker.cur /\ queue'.list = Append(queue.list, c)
    BY <1>0, <1>2, PushFields
  <2>2. ToSet(queue'.list) = ToSet(queue.list) \cup {c}
    BY <1>a, <2>1, ToSetFacts
  <2>3. Asked' = Asked \cup {c}
    <3>1. (ToSet(queue'.list) \cup ({worker'.cur} \ {Nil})) \ Silent
            = ((ToSet(queue.list) \cup ({worker.cur} \ {Nil})) \ Silent) \cup {c}
      BY <2>1, <2>2
    <3> QED
      BY <3>1 DEF Asked, ToSet
  <2>4. /\ event'[c].ref = 2
        /\ \A e \in Cmd : e # c => event'[e] = event[e]
    BY <1>0, <1>2, EnqueueEffect DEF PutEvent
  <2>5. /\ caller'[t].holds = caller[t].holds \cup {c}
        /\ \A u \in Thread : u # t => caller'[u] = caller[u]
    BY <1>0, <1>2, EnqueueEffect DEF PutCaller
  <2>6. CASE d # c
    <3>1. Holders(d)' = Holders(d)
      BY <2>5, <2>6 DEF Holders
    <3>2. AskedRef(d)' = AskedRef(d)
      BY <2>3, <2>6 DEF AskedRef
    <3> QED
      BY <1>b, <2>4, <2>6, <3>1, <3>2
  <2>7. CASE d = c
    <3>1. Holders(c) = {}
      BY <1>0, <2>1 DEF EventStates
    <3>2. Holders(c)' = {t}
      BY <2>5, <3>1 DEF Holders
    <3>3. Cardinality({t}) = 1
      BY FS_Singleton
    <3>4. AskedRef(c)' = 1
      BY <2>3 DEF AskedRef
    <3> QED
      BY <2>4, <2>7, <3>2, <3>3, <3>4
  <2> QED
    BY <2>6, <2>7
<1>3. ASSUME NEW t \in Thread, NEW c \in Cmd, ReleaseEvent(t, c)
      PROVE  event'[d].ref = Cardinality(Holders(d)') + AskedRef(d)'
  <2>1. /\ c \in caller[t].holds /\ UNCHANGED worker
    BY <1>3 DEF ReleaseEvent
  <2>2. /\ event'[c].ref = event[c].ref - 1
        /\ \A e \in Cmd : e # c => event'[e] = event[e]
    <3>1. CASE event[c].ref = 1
      BY <1>0, <1>3, <3>1, ReleaseLastEffect DEF PutEvent
    <3>2. CASE event[c].ref # 1
      BY <1>0, <1>3, <3>2, ReleaseEffect DEF PutEvent
    <3> QED
      BY <3>1, <3>2
  <2>3. /\ caller'[t].holds = caller[t].holds \ {c}
        /\ \A u \in Thread : u # t => caller'[u] = caller[u]
    <3>1. CASE event[c].ref = 1
      BY <1>0, <1>3, <3>1, ReleaseLastEffect DEF PutCaller
    <3>2. CASE event[c].ref # 1
      BY <1>0, <1>3, <3>2, ReleaseEffect DEF PutCaller
    <3> QED
      BY <3>1, <3>2
  <2>4. queue'.list = queue.list
    <3>1. CASE event[c].ref = 1
      BY <1>0, <1>3, <3>1, ReleaseLastEffect DEF PutQueue
    <3>2. CASE event[c].ref # 1
      BY <1>0, <1>3, <3>2, ReleaseEffect
    <3> QED
      BY <3>1, <3>2
  <2>5. Asked' = Asked
    BY <2>1, <2>4 DEF Asked, ToSet
  <2>6. CASE d # c
    BY <1>e, <2>2, <2>3, <2>5, <2>6
  <2>7. CASE d = c
    <3>1. t \in Holders(d) /\ Holders(d)' = Holders(d) \ {t}
      BY <2>1, <2>3, <2>7 DEF Holders
    <3>2. Cardinality(Holders(d)') = Cardinality(Holders(d)) - 1
      BY <1>c, <3>1, OneMore
    <3>3. AskedRef(d)' = AskedRef(d)
      BY <2>5 DEF AskedRef
    <3> QED
      BY <1>b, <1>c, <1>d, <2>2, <2>7, <3>2, <3>3
  <2> QED
    BY <2>6, <2>7
<1>4. ASSUME NEW t \in Thread, NEW c \in Cmd, NEW u \in Thread, Share(t, u, c)
      PROVE  event'[d].ref = Cardinality(Holders(d)') + AskedRef(d)'
  <2>1. c \notin caller[u].holds /\ UNCHANGED <<queue, worker>>
    BY <1>4 DEF Share
  <2>2. /\ event'[c].ref = event[c].ref + 1
        /\ \A e \in Cmd : e # c => event'[e] = event[e]
    BY <1>0, <1>4, ShareEffect DEF PutEvent
  <2>3. /\ caller'[u].holds = caller[u].holds \cup {c}
        /\ \A v \in Thread : v # u => caller'[v] = caller[v]
    BY <1>0, <1>4, ShareEffect DEF PutCaller
  <2>5. Asked' = Asked
    BY <2>1 DEF Asked, ToSet
  <2>6. CASE d # c
    BY <1>e, <2>2, <2>3, <2>5, <2>6
  <2>7. CASE d = c
    <3>1. u \notin Holders(d) /\ Holders(d)' = Holders(d) \cup {u}
      BY <2>1, <2>3, <2>7 DEF Holders
    <3>2. Cardinality(Holders(d)') = Cardinality(Holders(d)) + 1
      BY <1>c, <3>1, OneMore
    <3>3. AskedRef(d)' = AskedRef(d)
      BY <2>5 DEF AskedRef
    <3> QED
      BY <1>b, <1>c, <1>d, <2>2, <2>7, <3>2, <3>3
  <2> QED
    BY <2>6, <2>7
<1>5. ASSUME NEW t \in Thread, ReleaseQueue(t)
      PROVE  event'[d].ref = Cardinality(Holders(d)') + AskedRef(d)'
  <2>1. /\ queue'.list = queue.list
        /\ \A u \in Thread : caller'[u].holds = caller[u].holds
    BY <1>0, <1>5, ReleaseQueueEffect DEF PutCaller, PutQueue
  <2>2. UNCHANGED <<event, worker>>
    BY <1>5 DEF ReleaseQueue
  <2>3. Asked' = Asked
    BY <2>1, <2>2 DEF Asked, ToSet
  <2> QED
    BY <1>e, <2>1, <2>2, <2>3
<1>6. CASE DropEvent
  <2>1. /\ worker.at = "drop" /\ UNCHANGED caller /\ worker.cur \in Cmd \ Silent
        /\ queue'.list = queue.list /\ worker'.cur = Nil
        /\ event'[worker.cur].ref = event[worker.cur].ref - 1
        /\ \A e \in Cmd : e # worker.cur => event'[e] = event[e]
    BY <1>0, <1>6, DropFields
  <2>2. Asked' = Asked \ {worker.cur} /\ worker.cur \in Asked
    <3>1. /\ (ToSet(queue'.list) \cup ({worker'.cur} \ {Nil})) \ Silent
               = ((ToSet(queue.list) \cup ({worker.cur} \ {Nil})) \ Silent) \ {worker.cur}
          /\ worker.cur \in (ToSet(queue.list) \cup ({worker.cur} \ {Nil})) \ Silent
      BY <1>0, <1>a, <2>1
    <3> QED
      BY <3>1 DEF Asked, ToSet
  <2>3. Holders(d)' = Holders(d)
    BY <2>1 DEF Holders
  <2>4. CASE d # worker.cur
    <3>1. AskedRef(d)' = AskedRef(d)
      BY <2>2, <2>4 DEF AskedRef
    <3> QED
      BY <1>b, <2>1, <2>3, <2>4, <3>1
  <2>5. CASE d = worker.cur
    <3>1. AskedRef(d)' = 0 /\ AskedRef(d) = 1
      BY <2>2, <2>5 DEF AskedRef
    <3> QED
      BY <1>b, <1>c, <2>1, <2>3, <2>5, <3>1
  <2> QED
    BY <2>4, <2>5
<1> QED
  BY <1>1, <1>2, <1>3, <1>4, <1>5, <1>6, SteadyCases, Zenon

\* Every reference to the queue stays somebody's.
LEMMA QueueRefsStep ==
  ASSUME IndInv, Next
  PROVE  QueueRefs'
<1>0. /\ TypeOK /\ Requests /\ EventStates /\ Calls /\ EventRefs /\ QueueRefs
      /\ Nil \notin Cmd
  BY QueueAssumption DEF IndInv
<1>b. queue.ref = Cardinality(Keepers) + Cardinality(LiveEvents)
  BY <1>0 DEF QueueRefs
<1>c. /\ IsFiniteSet(Keepers) /\ IsFiniteSet(LiveEvents)
      /\ Cardinality(Keepers) \in Nat /\ Cardinality(LiveEvents) \in Nat
  BY <1>0, KeptCounted
<1> DEFINE R == /\ IsFiniteSet(LiveEvents')
                /\ queue'.ref = Cardinality(Keepers') + Cardinality(LiveEvents')
<1> SUFFICES R
  BY DEF QueueRefs
<1>e. ASSUME queue'.ref = queue.ref, Keepers' = Keepers, LiveEvents' = LiveEvents
      PROVE  R
  BY <1>b, <1>c, <1>e
<1>f. ASSUME NEW c \in Cmd, event[c].st # "NONE", event[c].ref \in Nat \ {0},
             event'[c].st = event[c].st, event'[c].ref = event[c].ref - 1,
             \A d \in Cmd : d # c => event'[d] = event[d]
      PROVE  /\ c \in LiveEvents
             /\ LiveEvents' = IF event[c].ref = 1 THEN LiveEvents \ {c} ELSE LiveEvents
  <2>1. c \in LiveEvents
    BY <1>f DEF LiveEvents
  <2>2. c \in LiveEvents' <=> event[c].ref # 1
    BY <1>f DEF LiveEvents
  <2>3. \A d \in Cmd : d # c => (d \in LiveEvents' <=> d \in LiveEvents)
    BY <1>f DEF LiveEvents
  <2>4. LiveEvents \subseteq Cmd /\ LiveEvents' \subseteq Cmd
    BY DEF LiveEvents
  <2> HIDE DEF R
  <2> QED
    BY <2>1, <2>2, <2>3, <2>4
<1>1. CASE Steady
  <2>1. Keepers' = Keepers /\ LiveEvents' = LiveEvents /\ queue'.ref = queue.ref
    BY <1>1 DEF Steady, Keepers, LiveEvents
  <2> QED
    BY <1>e, <2>1
<1>2. ASSUME NEW t \in Thread, NEW c \in Cmd \ Silent, Enqueue(t, c)
      PROVE  R
  <2>1. event[c].st = "NONE"
    BY <1>0, <1>2, PushFields
  <2>2. /\ event'[c].ref = 2 /\ event'[c].st = "PENDING"
        /\ \A e \in Cmd : e # c => event'[e] = event[e]
    BY <1>0, <1>2, EnqueueEffect DEF PutEvent
  <2>3. /\ caller'[t].keeps = caller[t].keeps
        /\ \A u \in Thread : u # t => caller'[u] = caller[u]
    BY <1>0, <1>2, EnqueueEffect DEF PutCaller
  <2>4. queue'.ref = queue.ref + 1
    BY <1>0, <1>2, EnqueueEffect DEF PutQueue
  <2>5. Keepers' = Keepers
    BY <2>3 DEF Keepers
  <2>6. c \notin LiveEvents /\ LiveEvents' = LiveEvents \cup {c}
    BY <2>1, <2>2 DEF LiveEvents
  <2>7. /\ IsFiniteSet(LiveEvents')
        /\ Cardinality(LiveEvents') = Cardinality(LiveEvents) + 1
    BY <1>c, <2>6, OneMore
  <2> QED
    BY <1>b, <1>c, <2>4, <2>5, <2>7
<1>3. ASSUME NEW t \in Thread, NEW c \in Cmd, ReleaseEvent(t, c)
      PROVE  R
  <2>1. c \in caller[t].holds
    BY <1>3 DEF ReleaseEvent
  <2>2. event[c].st # "NONE" /\ event[c].ref \in Nat \ {0}
    BY <1>0, <2>1, HeldLive, Fields DEF LiveEvents
  <2>3. CASE event[c].ref = 1
    <3>1. /\ event'[c].ref = event[c].ref - 1 /\ event'[c].st = event[c].st
          /\ \A e \in Cmd : e # c => event'[e] = event[e]
      BY <1>0, <1>3, <2>3, ReleaseLastEffect DEF PutEvent
    <3>2. Keepers' = Keepers
      BY <1>0, <1>3, <2>3, ReleaseLastEffect DEF PutCaller, Keepers
    <3>3. queue'.ref = queue.ref - 1
      BY <1>0, <1>3, <2>3, ReleaseLastEffect DEF PutQueue
    <3>4. c \in LiveEvents /\ LiveEvents' = LiveEvents \ {c}
      BY <1>f, <2>2, <2>3, <3>1
    <3>5. /\ IsFiniteSet(LiveEvents')
          /\ Cardinality(LiveEvents') = Cardinality(LiveEvents) - 1
      BY <1>c, <3>4, OneMore
    <3> QED
      BY <1>b, <1>c, <3>2, <3>3, <3>5
  <2>4. CASE event[c].ref # 1
    <3>1. /\ event'[c].ref = event[c].ref - 1 /\ event'[c].st = event[c].st
          /\ \A e \in Cmd : e # c => event'[e] = event[e]
      BY <1>0, <1>3, <2>4, ReleaseEffect DEF PutEvent
    <3>2. Keepers' = Keepers
      BY <1>0, <1>3, <2>4, ReleaseEffect DEF PutCaller, Keepers
    <3>3. queue'.ref = queue.ref
      BY <1>0, <1>3, <2>4, ReleaseEffect
    <3>4. LiveEvents' = LiveEvents
      BY <1>f, <2>2, <2>4, <3>1
    <3> QED
      BY <1>e, <3>2, <3>3, <3>4
  <2> QED
    BY <2>3, <2>4
<1>4. ASSUME NEW t \in Thread, NEW c \in Cmd, NEW u \in Thread, Share(t, u, c)
      PROVE  R
  <2>1. c \in caller[t].holds /\ UNCHANGED queue
    BY <1>4 DEF Share
  <2>2. event[c].st # "NONE" /\ event[c].ref \in Nat \ {0}
    BY <1>0, <2>1, HeldLive, Fields DEF LiveEvents
  <2>3. /\ event'[c].ref = event[c].ref + 1 /\ event'[c].st = event[c].st
        /\ \A e \in Cmd : e # c => event'[e] = event[e]
    BY <1>0, <1>4, ShareEffect DEF PutEvent
  <2>4. Keepers' = Keepers
    BY <1>0, <1>4, ShareEffect DEF PutCaller, Keepers
  <2>5. LiveEvents' = LiveEvents
    BY <2>2, <2>3 DEF LiveEvents
  <2> QED
    BY <1>e, <2>1, <2>4, <2>5
<1>5. ASSUME NEW t \in Thread, ReleaseQueue(t)
      PROVE  R
  <2>1. /\ queue'.ref = queue.ref - 1
        /\ caller'[t].keeps = FALSE
        /\ \A u \in Thread : u # t => caller'[u] = caller[u]
    BY <1>0, <1>5, ReleaseQueueEffect DEF PutCaller, PutQueue
  <2>2. UNCHANGED event /\ caller[t].keeps
    BY <1>5 DEF ReleaseQueue
  <2>3. LiveEvents' = LiveEvents
    BY <2>2 DEF LiveEvents
  <2>4. t \in Keepers /\ Keepers' = Keepers \ {t}
    BY <2>1, <2>2 DEF Keepers
  <2>5. Cardinality(Keepers') = Cardinality(Keepers) - 1
    BY <1>c, <2>4, OneMore
  <2> QED
    BY <1>b, <1>c, <2>1, <2>3, <2>5
<1>6. CASE DropEvent
  <2>1. /\ worker.at = "drop" /\ UNCHANGED caller
        /\ event'[worker.cur].ref = event[worker.cur].ref - 1
        /\ \A e \in Cmd : e # worker.cur => event'[e] = event[e]
        /\ \A e \in Cmd : event'[e].st = event[e].st
    BY <1>0, <1>6, DropFields
  <2>2. /\ worker.cur \in Cmd /\ event[worker.cur].st # "NONE"
        /\ event[worker.cur].ref \in Nat \ {0}
    BY <1>0, <2>1, AskedLive, Fields DEF LiveEvents
  <2>3. queue'.ref = IF event[worker.cur].ref = 1 THEN queue.ref - 1 ELSE queue.ref
    BY <1>0, <1>6, DropEffect DEF PutQueue
  <2>4. Keepers' = Keepers
    BY <2>1 DEF Keepers
  <2>5. /\ worker.cur \in LiveEvents
        /\ LiveEvents' = IF event[worker.cur].ref = 1
                           THEN LiveEvents \ {worker.cur} ELSE LiveEvents
    BY <1>f, <2>1, <2>2
  <2>6. CASE event[worker.cur].ref = 1
    <3>1. /\ IsFiniteSet(LiveEvents')
          /\ Cardinality(LiveEvents') = Cardinality(LiveEvents) - 1
      BY <1>c, <2>5, <2>6, OneMore
    <3> QED
      BY <1>b, <1>c, <2>3, <2>4, <2>6, <3>1
  <2>7. CASE event[worker.cur].ref # 1
    BY <1>e, <2>3, <2>4, <2>5, <2>7
  <2> QED
    BY <2>6, <2>7
<1> QED
  BY <1>1, <1>2, <1>3, <1>4, <1>5, <1>6, SteadyCases, Zenon

\* The queue is destroyed once, when nobody refers to it.
LEMMA EndStep ==
  ASSUME IndInv, Next
  PROVE  End'
<1>0. /\ TypeOK /\ Requests /\ EventStates /\ Calls /\ EventRefs /\ QueueRefs
      /\ End
  BY DEF IndInv
<1>a. queue.ref \in Nat /\ queue.freed \in BOOLEAN
  BY <1>0, Fields
<1>b. /\ queue.freed => worker.at = "gone" /\ queue.ref = 0
      /\ \A t \in Thread : Leaving(t) => queue.ref = 0 /\ ~queue.freed
      /\ \A t, u \in Thread : Leaving(t) /\ Leaving(u) => t = u
  BY <1>0 DEF End
<1> DEFINE L(t) == caller'[t].at \in {"destroy", "join"}
<1> DEFINE R == /\ queue'.freed => worker'.at = "gone" /\ queue'.ref = 0
                /\ \A t \in Thread : L(t) => queue'.ref = 0 /\ ~queue'.freed
                /\ \A t, u \in Thread : L(t) /\ L(u) => t = u
<1> SUFFICES R
  BY DEF End, Leaving, At
<1>c. ASSUME queue.ref > 0
      PROVE  ~queue.freed /\ \A t \in Thread : ~Leaving(t)
  BY <1>a, <1>b, <1>c
<1>1. CASE Steady /\ SameEnd
  BY <1>1, <1>b DEF Steady, SameEnd
<1>2. ASSUME NEW t \in Thread, Destroy(t)
      PROVE  R
  <2>1. /\ queue'.freed = queue.freed /\ queue'.ref = queue.ref
        /\ caller'[t].at = "join"
        /\ \A u \in Thread : u # t => caller'[u] = caller[u]
    BY <1>0, <1>2, DestroyEffect DEF PutCaller, PutQueue
  <2>2. Leaving(t) /\ worker' = Woken
    BY <1>2 DEF Destroy, DestroyWith, Leaving
  <2>3. \A u \in Thread : L(u) <=> Leaving(u)
    BY <2>1, <2>2 DEF Leaving, At
  <2>4. ~queue'.freed /\ queue'.ref = 0
    BY <1>b, <2>1, <2>2
  <2> HIDE DEF L
  <2> QED
    BY <1>b, <2>3, <2>4
<1>3. ASSUME NEW t \in Thread, Join(t)
      PROVE  R
  <2>1. /\ queue'.ref = queue.ref /\ caller'[t].at = "idle"
        /\ \A u \in Thread : u # t => caller'[u] = caller[u]
    BY <1>0, <1>3, JoinEffect DEF PutCaller, PutQueue
  <2>2. Leaving(t) /\ worker.at = "gone" /\ worker' = worker
    BY <1>3 DEF Join, Leaving
  <2>3. \A u \in Thread : ~L(u)
    BY <1>b, <2>1, <2>2 DEF Leaving, At
  <2>4. queue'.ref = 0
    BY <1>b, <2>1, <2>2
  <2> HIDE DEF L
  <2> QED
    BY <2>2, <2>3, <2>4
<1>4. ASSUME NEW t \in Thread, NEW c \in Cmd \ Silent, Enqueue(t, c)
      PROVE  R
  <2>1. /\ queue'.freed = queue.freed /\ caller[t].keeps
    BY <1>0, <1>4, PushFields
  <2>2. \A u \in Thread : caller'[u].at = At(u)
    BY <1>0, <1>4, PushHolds DEF At
  <2>3. ~queue.freed /\ \A u \in Thread : ~Leaving(u)
    BY <1>0, <1>c, <2>1, KeptCounted
  <2> QED
    BY <2>1, <2>2, <2>3 DEF Leaving
<1>5. ASSUME NEW t \in Thread, NEW c \in Cmd, ReleaseEvent(t, c)
      PROVE  R
  <2>1. c \in caller[t].holds /\ At(t) = "idle"
    BY <1>5 DEF ReleaseEvent
  <2>2. c \in LiveEvents
    BY <1>0, <2>1, HeldLive
  <2>3. ~queue.freed /\ \A u \in Thread : ~Leaving(u)
    BY <1>0, <1>c, <2>2, KeptCounted
  <2>4. CASE event[c].ref = 1
    <3>1. /\ queue'.freed = queue.freed /\ queue'.ref = queue.ref - 1
      BY <1>0, <1>5, <2>4, ReleaseLastEffect DEF PutQueue
    <3>2. /\ caller'[t].at = IF queue.ref = 1 THEN "destroy" ELSE "idle"
          /\ \A u \in Thread : u # t => caller'[u] = caller[u]
      BY <1>0, <1>5, <2>4, ReleaseLastEffect DEF PutCaller
    <3>3. /\ \A u \in Thread : u # t => ~L(u)
          /\ L(t) => queue.ref = 1
      BY <2>3, <3>2 DEF Leaving, At
    <3> HIDE DEF L
    <3> QED
      BY <2>3, <3>1, <3>3
  <2>5. CASE event[c].ref # 1
    <3>1. queue' = queue
      BY <1>0, <1>5, <2>5, ReleaseEffect
    <3>2. /\ caller'[t].at = caller[t].at
          /\ \A u \in Thread : u # t => caller'[u] = caller[u]
      BY <1>0, <1>5, <2>5, ReleaseEffect DEF PutCaller
    <3>3. \A u \in Thread : ~L(u)
      BY <2>3, <3>2 DEF Leaving, At
    <3> HIDE DEF L
    <3> QED
      BY <2>3, <3>1, <3>3
  <2> QED
    BY <2>4, <2>5
<1>6. ASSUME NEW t \in Thread, NEW c \in Cmd, NEW u \in Thread, Share(t, u, c)
      PROVE  R
  <2>1. UNCHANGED <<queue, worker>>
    BY <1>6 DEF Share
  <2>2. \A v \in Thread : caller'[v].at = At(v)
    BY <1>0, <1>6, ShareEffect DEF PutCaller, At
  <2> QED
    BY <1>b, <2>1, <2>2 DEF Leaving
<1>7. ASSUME NEW t \in Thread, ReleaseQueue(t)
      PROVE  R
  <2>1. /\ queue'.ref = queue.ref - 1 /\ queue'.freed = queue.freed
    BY <1>0, <1>7, ReleaseQueueEffect DEF PutQueue
  <2>2. /\ caller'[t].at = IF queue.ref = 1 THEN "destroy" ELSE "idle"
        /\ \A u \in Thread : u # t => caller'[u] = caller[u]
    BY <1>0, <1>7, ReleaseQueueEffect DEF PutCaller
  <2>3. ~queue.freed /\ \A u \in Thread : ~Leaving(u)
    BY <1>0, <1>7, <1>c, KeptCounted DEF ReleaseQueue
  <2>4. /\ \A u \in Thread : u # t => ~L(u)
        /\ L(t) => queue.ref = 1
    BY <2>2, <2>3 DEF Leaving, At
  <2> HIDE DEF L
  <2> QED
    BY <2>1, <2>3, <2>4
<1>8. CASE DropEvent
  <2>1. worker.at = "drop" /\ UNCHANGED caller
    BY <1>0, <1>8, DropFields
  <2>2. worker.cur \in LiveEvents
    BY <1>0, <2>1, AskedLive
  <2>3. ~queue.freed /\ \A u \in Thread : ~Leaving(u)
    BY <1>0, <1>c, <2>2, KeptCounted
  <2>4. /\ queue'.ref = IF event[worker.cur].ref = 1 THEN queue.ref - 1 ELSE queue.ref
        /\ queue'.freed = (queue.freed \/ (event[worker.cur].ref = 1 /\ queue.ref = 1))
        /\ worker'.at = IF event[worker.cur].ref = 1 /\ queue.ref = 1 THEN "gone" ELSE "look"
    BY <1>0, <1>8, DropEffect DEF PutQueue, PutWorker
  <2>5. \A u \in Thread : ~L(u)
    BY <2>1, <2>3 DEF Leaving, At
  <2>6. queue'.freed => worker'.at = "gone" /\ queue'.ref = 0
    <3>1. CASE event[worker.cur].ref = 1 /\ queue.ref = 1
      BY <2>4, <3>1
    <3>2. CASE ~(event[worker.cur].ref = 1 /\ queue.ref = 1)
      BY <2>3, <2>4, <3>2, Zenon
    <3> QED
      BY <3>1, <3>2
  <2> HIDE DEF L
  <2> QED
    BY <2>5, <2>6
<1> QED
  BY <1>1, <1>2, <1>3, <1>4, <1>5, <1>6, <1>7, <1>8, SteadyCases, Zenon
=============================================================================
