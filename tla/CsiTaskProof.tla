------------------------------ MODULE CsiTaskProof ------------------------------
(***************************************************************************)
(* Proofs about the tasks of the csi_dsp library (module CsiTask), for any *)
(* threads, requests, buffers and sizes: the steps of the library, and     *)
(* what follows from the invariant of CsiHeapProof.                        *)
(*                                                                         *)
(* The invariant has two halves.  ListInv is about the request list: whose *)
(* event is on it, what a dequeue has copied and what it still knows.      *)
(* StoreInv is about the buffers: every reference is a member of a group,  *)
(* a mapping, a plane, a request's settings or lost for good, and the      *)
(* device has a reference for each live buffer.  The second half speaks of *)
(* memory that is not corrupted, and corruption needs one of three         *)
(* accidents, which the model records.                                     *)
(***************************************************************************)
EXTENDS CsiHeapProof

(***************************************************************************)
(* Enqueue and dequeue: the list of events and what the threads know.      *)
(***************************************************************************)

\* The variables of a thread with one of them changed.
LEMMA LocalFields ==
  ASSUME NEW l \in Locals
  PROVE  /\ l.req \in Request \cup {Nil} /\ l.evts \in Seq(Request \cup {Nil})
         /\ l.id \in Nat /\ l.raced \in BOOLEAN
         /\ l = [req |-> l.req, evts |-> l.evts, id |-> l.id, raced |-> l.raced]
<1>1. /\ l.req \in Request \cup {Nil} /\ l.evts \in Seq(Request \cup {Nil})
      /\ l.id \in Nat /\ l.raced \in BOOLEAN
  BY DEF Locals
<1>2. l = [req |-> l.req, evts |-> l.evts, id |-> l.id, raced |-> l.raced]
  BY DEF Locals
<1> QED
  BY <1>1, <1>2

\* A thread that does nothing.
LEMMA NoLocalFields ==
  /\ NoLocal \in Locals /\ NoLocal.req = Nil /\ NoLocal.evts = <<>>
  /\ NoLocal.id = 0 /\ NoLocal.raced = FALSE
  BY DEF Locals, NoLocal

\* Changes of a thread's variables.
LEMMA LocalExcept ==
  ASSUME NEW l \in Locals
  PROVE  /\ \A x \in Request \cup {Nil} :
              /\ [l EXCEPT !.req = x] \in Locals /\ [l EXCEPT !.req = x].req = x
              /\ [l EXCEPT !.req = x].evts = l.evts /\ [l EXCEPT !.req = x].id = l.id
              /\ [l EXCEPT !.req = x].raced = l.raced
         /\ \A x \in Seq(Request \cup {Nil}) :
              /\ [l EXCEPT !.evts = x] \in Locals /\ [l EXCEPT !.evts = x].evts = x
              /\ [l EXCEPT !.evts = x].req = l.req /\ [l EXCEPT !.evts = x].id = l.id
              /\ [l EXCEPT !.evts = x].raced = l.raced
         /\ \A x \in Nat :
              /\ [l EXCEPT !.id = x] \in Locals /\ [l EXCEPT !.id = x].id = x
              /\ [l EXCEPT !.id = x].req = l.req /\ [l EXCEPT !.id = x].evts = l.evts
              /\ [l EXCEPT !.id = x].raced = l.raced
         /\ \A x \in BOOLEAN :
              /\ [l EXCEPT !.raced = x] \in Locals /\ [l EXCEPT !.raced = x].raced = x
              /\ [l EXCEPT !.raced = x].req = l.req /\ [l EXCEPT !.raced = x].evts = l.evts
              /\ [l EXCEPT !.raced = x].id = l.id
<1>1. PICK req \in Request \cup {Nil}, evts \in Seq(Request \cup {Nil}), id \in Nat,
           raced \in BOOLEAN :
        l = [req |-> req, evts |-> evts, id |-> id, raced |-> raced]
  BY LocalFields
<1>2. \A x : [l EXCEPT !.req = x] = [req |-> x, evts |-> evts, id |-> id, raced |-> raced]
  BY <1>1
<1>3. \A x : [l EXCEPT !.evts = x] = [req |-> req, evts |-> x, id |-> id, raced |-> raced]
  BY <1>1
<1>4. \A x : [l EXCEPT !.id = x] = [req |-> req, evts |-> evts, id |-> x, raced |-> raced]
  BY <1>1
<1>5. \A x : [l EXCEPT !.raced = x] = [req |-> req, evts |-> evts, id |-> id, raced |-> x]
  BY <1>1
<1>6. l.req = req /\ l.evts = evts /\ l.id = id /\ l.raced = raced
  BY <1>1
<1> QED
  BY <1>2, <1>3, <1>4, <1>5, <1>6 DEF Locals

\* The request of a thread's variables changes.
LEMMA LocalReq ==
  ASSUME NEW l \in Locals, NEW x \in Request \cup {Nil}, NEW k, k = [l EXCEPT !.req = x]
  PROVE  k \in Locals /\ k.req = x /\ k.evts = l.evts /\ k.id = l.id /\ k.raced = l.raced
<1>1. /\ [l EXCEPT !.req = x] \in Locals /\ [l EXCEPT !.req = x].req = x
      /\ [l EXCEPT !.req = x].evts = l.evts /\ [l EXCEPT !.req = x].id = l.id
      /\ [l EXCEPT !.req = x].raced = l.raced
  BY LocalExcept
<1> QED
  BY <1>1

\* The events of a thread's variables change.
SetEvts(l, x) == [l EXCEPT !.evts = x]

\* Changing the events leaves the other variables as they are.
LEMMA LocalEvts ==
  ASSUME NEW l, l \in Locals, NEW x, x \in Seq(Request \cup {Nil})
  PROVE  /\ SetEvts(l, x) \in Locals /\ SetEvts(l, x).evts = x
         /\ SetEvts(l, x).req = l.req /\ SetEvts(l, x).id = l.id
         /\ SetEvts(l, x).raced = l.raced
<1>1. /\ [l EXCEPT !.evts = x] \in Locals /\ [l EXCEPT !.evts = x].evts = x
      /\ [l EXCEPT !.evts = x].req = l.req /\ [l EXCEPT !.evts = x].id = l.id
      /\ [l EXCEPT !.evts = x].raced = l.raced
  BY LocalExcept
<1> QED
  BY <1>1 DEF SetEvts

\* Steps on buffers alone leave the list and the threads as they are.
LEMMA ListKept ==
  ASSUME ListInv, UNCHANGED queue, status' \in [Request -> Status],
         \A r \in Request : status'[r] = "running" <=> status[r] = "running"
  PROVE  ListInv'
<1>1. /\ fifo' = fifo /\ result' = result /\ events' = events
      /\ event_num' = event_num /\ pc' = pc /\ local' = local
  BY DEF queue
<1>2. QueueTypes'
  BY <1>1 DEF ListInv, QueueTypes
<1>3. \A r \in Request : Adders(r)' = Adders(r)
  BY <1>1 DEF Adders
<1>4. Listed'
  BY <1>1, <1>3 DEF ListInv, Listed
<1>5. Commands'
  BY <1>1 DEF ListInv, Commands
<1>6. \A t \in Thread : Knows(t)' /\ Undisturbed(t)'
  <2>1. Dequeuing' = Dequeuing
    BY <1>1 DEF Dequeuing
  <2> QED
    BY <1>1, <2>1 DEF ListInv, Knows, Undisturbed
<1> QED
  BY <1>2, <1>4, <1>5, <1>6 DEF ListInv

\* Nothing of a thread but its place and its variables changes.
LEMMA GotoFacts ==
  ASSUME ListInv, NEW t \in Thread, NEW from, NEW to, NEW l \in Locals,
         to \in {"idle", "add", "count", "blocked", "found", "delete"},
         Goto(t, from, to, l)
  PROVE  /\ pc[t] = from /\ pc'[t] = to /\ local'[t] = l /\ wild = {}
         /\ \A v \in Thread : v # t => pc'[v] = pc[v] /\ local'[v] = local[v]
         /\ pc' \in [Thread -> {"idle", "add", "count", "blocked", "found", "delete"}]
         /\ local' \in [Thread -> Locals]
  BY DEF ListInv, QueueTypes, Goto

\* A dequeue ends, or goes on with what it has, without touching the list.
LEMMA DequeueKept ==
  ASSUME ListInv, NEW t \in Thread, NEW from \in {"count", "blocked", "found", "delete"},
         NEW to \in {"idle", "blocked", "found", "delete"}, NEW l \in Locals,
         Goto(t, from, to, l),
         UNCHANGED <<status, fifo, result, events, event_num>>,
         to # "idle" => l.raced = local[t].raced,
         Knows(t)', to # "idle" => Undisturbed(t)'
  PROVE  ListInv'
<1>1. /\ pc[t] = from /\ pc'[t] = to /\ local'[t] = l
      /\ \A v \in Thread : v # t => pc'[v] = pc[v] /\ local'[v] = local[v]
      /\ pc' \in [Thread -> {"idle", "add", "count", "blocked", "found", "delete"}]
      /\ local' \in [Thread -> Locals]
  BY GotoFacts
<1>2. /\ status' = status /\ fifo' = fifo /\ result' = result
      /\ events' = events /\ event_num' = event_num
  OBVIOUS
<1>3. QueueTypes'
  BY <1>1, <1>2 DEF ListInv, QueueTypes
<1>4. \A r \in Request : Adders(r)' = Adders(r)
  BY <1>1 DEF Adders
<1>5. Listed'
  BY <1>1, <1>2, <1>4 DEF ListInv, Listed
<1>6. Commands'
  BY <1>2 DEF ListInv, Commands
<1>7. Dequeuing' \subseteq Dequeuing
  BY <1>1 DEF Dequeuing
<1>8. ASSUME NEW v \in Thread, v # t PROVE Knows(v)' /\ Undisturbed(v)'
  <2>1. Knows(v) /\ Undisturbed(v) /\ pc'[v] = pc[v] /\ local'[v] = local[v]
    BY <1>1, <1>8 DEF ListInv
  <2>2. Knows(v)'
    BY <1>2, <2>1 DEF Knows
  <2>3. Undisturbed(v)'
    BY <1>2, <1>7, <2>1 DEF Undisturbed
  <2> QED
    BY <2>2, <2>3
<1>9. to = "idle" => Undisturbed(t)'
  BY <1>1 DEF Undisturbed, Dequeuing
<1> QED
  BY <1>3, <1>5, <1>6, <1>8, <1>9 DEF ListInv

\* A dequeue that gives up.
LEMMA DequeueEnds ==
  ASSUME ListInv, NEW t \in Thread, NEW from \in {"count", "blocked", "found", "delete"},
         Goto(t, from, "idle", NoLocal),
         UNCHANGED <<status, fifo, result, events, event_num>>
  PROVE  ListInv'
<1>1. pc'[t] = "idle"
  BY NoLocalFields, GotoFacts
<1>2. Knows(t)'
  BY <1>1 DEF Knows
<1> QED
  BY <1>2, NoLocalFields, DequeueKept

\* The beginning of a list.
LEMMA PrefixFacts ==
  ASSUME NEW S, NEW s \in Seq(S), NEW n \in 1 .. Len(s)
  PROVE  /\ SubSeq(s, 1, n) \in Seq(S) /\ Len(SubSeq(s, 1, n)) = n
         /\ DOMAIN SubSeq(s, 1, n) = 1 .. n
         /\ \A k \in 1 .. n : SubSeq(s, 1, n)[k] = s[k]
         /\ ToSet(SubSeq(s, 1, n)) \subseteq ToSet(s)
<1>1. PICK p \in Seq(S) : p = SubSeq(s, 1, n)
  <2>1. SubSeq(s, 1, n) \in Seq(S)
    OBVIOUS
  <2> QED
    BY <2>1
<1>2. Len(p) = n /\ DOMAIN p = 1 .. n /\ \A k \in 1 .. n : p[k] = s[k]
  BY <1>1
<1>3. \A k \in 1 .. n : k \in DOMAIN s
  OBVIOUS
<1> QED
  BY <1>1, <1>2, <1>3 DEF ToSet

\* csi_dsp_request_enqueue up to the status.
LEMMA EnqueueCommandList ==
  ASSUME ListInv, NEW t \in Thread, NEW r \in Request, EnqueueCommand(t, r)
  PROVE  ListInv'
<1> DEFINE l == [NoLocal EXCEPT !.req = r]
<1>1. /\ l \in Locals /\ l.req = r
  BY NoLocalFields, LocalExcept
<1> HIDE DEF l
<1>2. /\ pc[t] = "idle" /\ pc'[t] = "add" /\ local'[t] = l
      /\ \A v \in Thread : v # t => pc'[v] = pc[v] /\ local'[v] = local[v]
      /\ pc' \in [Thread -> {"idle", "add", "count", "blocked", "found", "delete"}]
      /\ local' \in [Thread -> Locals]
  <2>1. Goto(t, "idle", "add", l)
    BY DEF EnqueueCommand, l
  <2> QED
    BY <1>1, <2>1, GotoFacts
<1>3. /\ fifo' = Append(fifo, r) /\ result' = [result EXCEPT ![r] = "pending"]
      /\ status' = [status EXCEPT ![r] = "running"]
      /\ events' = events /\ event_num' = event_num
      /\ status[r] # "running" /\ \A v \in Thread : local[v].req # r
  BY DEF EnqueueCommand, Owned
<1>4. QueueTypes /\ Listed /\ Commands /\ \A v \in Thread : Knows(v) /\ Undisturbed(v)
  BY DEF ListInv
<1>5. /\ status \in [Request -> Status] /\ fifo \in Seq(Request) /\ events \in Seq(Request)
      /\ result \in [Request -> {"none", "pending", "ok", "error", "failed"}]
  BY <1>4 DEF QueueTypes
<1>6. result[r] = "none" /\ r \notin ToSet(fifo) /\ r \notin ToSet(events)
  BY <1>3, <1>4 DEF Commands, Listed
<1>7. /\ fifo' \in Seq(Request) /\ IsInjective(fifo') /\ ToSet(fifo') = ToSet(fifo) \cup {r}
  BY <1>3, <1>4, <1>5, <1>6, AppendFacts DEF Commands
<1>8. QueueTypes'
  BY <1>2, <1>3, <1>4, <1>5, <1>7 DEF QueueTypes, Status
<1>9. /\ Adders(r) = {} /\ Adders(r)' = {t}
      /\ \A q \in Request : q # r => Adders(q)' = Adders(q)
  BY <1>1, <1>2, <1>3 DEF Adders
<1>10. Listed'
  <2>1. \A q \in Request : q # r => status'[q] = status[q]
    BY <1>3, <1>5
  <2>2. status'[r] = "running"
    BY <1>3, <1>5
  <2>3. \A v \in Thread : pc'[v] = "add" => local'[v].req \in Request
    BY <1>1, <1>2, <1>4 DEF Listed
  <2> QED
    BY <1>3, <1>4, <1>6, <1>9, <2>1, <2>2, <2>3 DEF Listed
<1>11. Commands'
  BY <1>3, <1>4, <1>5, <1>7 DEF Commands
<1>12. ASSUME NEW v \in Thread PROVE Knows(v)' /\ Undisturbed(v)'
  <2>1. CASE v = t
    BY <1>2, <2>1 DEF Knows, Undisturbed, Dequeuing
  <2>2. CASE v # t
    <3>1. /\ pc'[v] = pc[v] /\ local'[v] = local[v] /\ Knows(v) /\ Undisturbed(v)
          /\ local[v].req # r /\ local[v] \in Locals
      BY <1>2, <1>3, <1>4, <2>2 DEF QueueTypes
    <3>2. Dequeuing' = Dequeuing
      BY <1>2 DEF Dequeuing
    <3>3. Undisturbed(v)'
      BY <1>3, <3>1, <3>2 DEF Undisturbed
    <3>4. \A q \in Request \cup {Nil} : q # r /\ q # Nil => result'[q] = result[q]
      BY <1>3, <1>5
    <3>5. pc[v] = "found" => local[v].evts[local[v].id] \in Request \cup {Nil}
                             /\ local[v].evts[local[v].id] # r
      <4> SUFFICES ASSUME pc[v] = "found"
                   PROVE  local[v].evts[local[v].id] \in Request \cup {Nil}
                          /\ local[v].evts[local[v].id] # r
        OBVIOUS
      <4>1. /\ local[v].id \in DOMAIN local[v].evts
            /\ ToSet(local[v].evts) \subseteq ToSet(events) \cup {Nil}
        BY <3>1 DEF Knows
      <4>2. local[v].evts[local[v].id] \in ToSet(local[v].evts)
        BY <4>1 DEF ToSet
      <4>3. Nil # r /\ ToSet(events) \subseteq Request
        BY <1>5, CsiAssumption, ToSetFacts
      <4> QED
        BY <1>6, <4>1, <4>2, <4>3
    <3>6. local[v].req \in Request \cup {Nil}
      BY <3>1, LocalFields
    <3>7. Knows(v)'
      BY <1>3, <3>1, <3>4, <3>5, <3>6 DEF Knows
    <3> QED
      BY <3>3, <3>7
  <2> QED
    BY <2>1, <2>2
<1> QED
  BY <1>8, <1>10, <1>11, <1>12 DEF ListInv

\* The critical section of csi_dsp_request_enqueue.
LEMMA EnqueueListList ==
  ASSUME ListInv, NEW t \in Thread, EnqueueList(t)
  PROVE  ListInv'
<1>0. PICK r : r = local[t].req
  OBVIOUS
<1>1. QueueTypes /\ Listed /\ Commands /\ \A v \in Thread : Knows(v) /\ Undisturbed(v)
  BY DEF ListInv
<1>2. /\ events \in Seq(Request) /\ event_num \in Nat /\ local \in [Thread -> Locals]
      /\ pc \in [Thread -> {"idle", "add", "count", "blocked", "found", "delete"}]
  BY <1>1 DEF QueueTypes
<1>3. /\ pc[t] = "add" /\ pc' = [pc EXCEPT ![t] = "idle"]
      /\ events' = Append(events, r) /\ event_num' = event_num + 1
      /\ status' = status /\ fifo' = fifo /\ result' = result
  BY <1>0 DEF EnqueueList
<1>4. ASSUME NEW v \in Thread
      PROVE  /\ v = t => local'[v] = NoLocal
             /\ v # t => local'[v] = [local[v] EXCEPT !.raced = (local[v].raced \/ v \in Counting)]
  BY Zenon DEF EnqueueList
<1>5. /\ r \in Request /\ t \in Adders(r) /\ r \notin ToSet(events) /\ status[r] = "running"
      /\ Adders(r) = {t} /\ \A q \in Request : t \in Adders(q) => q = r
  BY <1>0, <1>1, <1>3 DEF Listed, Adders
<1>6. ASSUME NEW v \in Thread
      PROVE  /\ local'[v] \in Locals
             /\ v = t => local'[v] = NoLocal
             /\ v # t => /\ local'[v].req = local[v].req /\ local'[v].evts = local[v].evts
                         /\ local'[v].id = local[v].id
                         /\ local'[v].raced = (local[v].raced \/ v \in Counting)
  <2> DEFINE b == local[v].raced \/ v \in Counting
             k == [local[v] EXCEPT !.raced = b]
  <2>1. local[v] \in Locals
    BY <1>2
  <2>2. b \in BOOLEAN
    BY <2>1, LocalFields
  <2>3. v # t => local'[v] = k
    BY <1>4
  <2> HIDE DEF b
  <2>4. /\ k \in Locals /\ k.req = local[v].req /\ k.evts = local[v].evts
        /\ k.id = local[v].id /\ k.raced = b
    BY <2>1, <2>2, LocalExcept
  <2> HIDE DEF k
  <2>5. v = t => local'[v] = NoLocal
    BY <1>4
  <2> QED
    BY <2>3, <2>4, <2>5, NoLocalFields DEF b
<1>7. /\ events' \in Seq(Request) /\ IsInjective(events')
      /\ ToSet(events') = ToSet(events) \cup {r} /\ Len(events') = Len(events) + 1
      /\ \A i \in 1 .. Len(events) : events'[i] = events[i]
  BY <1>1, <1>2, <1>3, <1>5, AppendFacts DEF Listed
<1>8. QueueTypes'
  <2>1. local' \in [Thread -> Locals]
    <3>1. local' = [v \in Thread |-> local'[v]]
      BY DEF EnqueueList
    <3> QED
      BY <1>6, <3>1
  <2>2. pc' \in [Thread -> {"idle", "add", "count", "blocked", "found", "delete"}]
    BY <1>2, <1>3
  <2>3. event_num' \in Nat
    BY <1>2, <1>3
  <2> QED
    BY <1>1, <1>3, <1>7, <2>1, <2>2, <2>3 DEF QueueTypes
<1>9. /\ Adders(r)' = {}
      /\ \A q \in Request : q # r => Adders(q)' = Adders(q)
  <2>1. \A v \in Thread : pc'[v] = "add" <=> (pc[v] = "add" /\ v # t)
    BY <1>2, <1>3
  <2>2. \A v \in Thread : v # t => local'[v].req = local[v].req
    BY <1>6
  <2>3. \A q \in Request : Adders(q)' = Adders(q) \ {t}
    BY <2>1, <2>2 DEF Adders
  <2>4. Adders(r)' = {}
    BY <1>5, <2>3
  <2>5. ASSUME NEW q \in Request, q # r PROVE Adders(q)' = Adders(q)
    <3>1. t \notin Adders(q)
      BY <1>5, <2>5
    <3>2. Adders(q)' = Adders(q) \ {t}
      BY <2>3
    <3> QED
      BY <3>1, <3>2
  <2> QED
    BY <2>4, <2>5
<1>10. Listed'
  <2>1. event_num' = Len(events')
    BY <1>1, <1>3, <1>7 DEF Listed
  <2>2. \A v \in Thread : pc'[v] = "add" => local'[v].req \in Request
    <3>1. ASSUME NEW v \in Thread, pc'[v] = "add" PROVE local'[v].req \in Request
      <4>1. v # t /\ pc[v] = "add"
        BY <1>2, <1>3, <3>1
      <4> QED
        BY <1>1, <1>6, <4>1 DEF Listed
    <3> QED
      BY <3>1
  <2>3. ASSUME NEW q \in Request
        PROVE  /\ status'[q] = "running" <=> q \in ToSet(events') \/ Adders(q)' # {}
               /\ q \in ToSet(events') => Adders(q)' = {}
               /\ \A x, v \in Adders(q)' : x = v
    <3>1. CASE q = r
      <4>1. status'[q] = "running" /\ q \in ToSet(events')
        BY <1>3, <1>5, <1>7, <3>1
      <4>2. Adders(q)' = {}
        BY <1>9, <3>1
      <4> QED
        BY <4>1, <4>2
    <3>2. CASE q # r
      BY <1>1, <1>3, <1>7, <1>9, <3>2 DEF Listed
    <3> QED
      BY <3>1, <3>2
  <2> QED
    BY <1>7, <2>1, <2>2, <2>3 DEF Listed
<1>11. Commands'
  BY <1>1, <1>3 DEF Commands
<1>12. Dequeuing' = Dequeuing /\ t \notin Dequeuing
  BY <1>2, <1>3 DEF Dequeuing
<1>13. ASSUME NEW v \in Thread PROVE Knows(v)' /\ Undisturbed(v)'
  <2>1. CASE v = t
    BY <1>2, <1>3, <2>1 DEF Knows, Undisturbed, Dequeuing
  <2>2. CASE v # t
    <3>1. /\ pc'[v] = pc[v] /\ local'[v].req = local[v].req /\ local'[v].evts = local[v].evts
          /\ local'[v].id = local[v].id
          /\ local'[v].raced = (local[v].raced \/ v \in Counting)
      BY <1>2, <1>3, <1>6, <2>2
    <3>2. Knows(v)'
      BY <1>1, <1>3, <1>7, <3>1 DEF Knows
    <3>3. ASSUME v \in Dequeuing', ~local'[v].raced
          PROVE  /\ \A x \in Dequeuing' : x = v
                 /\ pc'[v] = "count" => local'[v].evts = events'
                 /\ pc'[v] \in {"blocked", "found"} =>
                      /\ Len(local'[v].evts) <= Len(events')
                      /\ \A k \in DOMAIN local'[v].evts : local'[v].evts[k] = events'[k]
                 /\ pc'[v] = "delete" => local'[v].req \in ToSet(events')
      <4>1. v \in Dequeuing /\ ~local[v].raced /\ v \notin Counting
        BY <1>12, <3>1, <3>3
      <4>2. \A x \in Dequeuing' : x = v
        BY <1>1, <1>12, <4>1 DEF Undisturbed
      <4>3. pc'[v] # "count"
        BY <3>1, <4>1 DEF Counting
      <4>4. pc'[v] = "delete" => local'[v].req \in ToSet(events')
        BY <1>1, <1>7, <3>1, <4>1 DEF Undisturbed
      <4>5. ASSUME pc'[v] \in {"blocked", "found"}
            PROVE  /\ Len(local'[v].evts) <= Len(events')
                   /\ \A k \in DOMAIN local'[v].evts : local'[v].evts[k] = events'[k]
        <5> DEFINE s == local[v].evts
        <5>1. /\ Len(s) <= Len(events) /\ \A k \in DOMAIN s : s[k] = events[k]
          BY <1>1, <3>1, <4>1, <4>5 DEF Undisturbed
        <5>2. s \in Seq(Request \cup {Nil})
          BY <1>2, LocalFields
        <5>3. local'[v].evts = s
          BY <3>1
        <5> HIDE DEF s
        <5>4. Len(s) \in Nat /\ Len(events) \in Nat /\ DOMAIN s = 1 .. Len(s)
          BY <1>2, <5>2
        <5>5. \A k \in DOMAIN s : k \in 1 .. Len(events)
          BY <5>1, <5>4
        <5> QED
          BY <1>7, <5>1, <5>3, <5>4, <5>5
      <4> QED
        BY <4>2, <4>3, <4>4, <4>5
    <3>4. Undisturbed(v)'
      BY <3>3 DEF Undisturbed
    <3> QED
      BY <3>2, <3>4
  <2> QED
    BY <2>1, <2>2
<1> QED
  BY <1>8, <1>10, <1>11, <1>13 DEF ListInv

\* The queue thread executes a command.
LEMMA ProcessList ==
  ASSUME ListInv, Process
  PROVE  ListInv'
<1>1. QueueTypes /\ Listed /\ Commands /\ \A v \in Thread : Knows(v) /\ Undisturbed(v)
  BY DEF ListInv
<1>2. /\ status \in [Request -> Status] /\ fifo \in Seq(Request)
      /\ result \in [Request -> {"none", "pending", "ok", "error", "failed"}]
  BY <1>1 DEF QueueTypes
<1>3. /\ fifo # <<>> /\ fifo' = Tail(fifo)
      /\ status' = status /\ events' = events /\ event_num' = event_num
      /\ pc' = pc /\ local' = local
  BY DEF Process
<1>4. PICK x \in {"ok", "error", "failed"} : result' = [result EXCEPT ![Head(fifo)] = x]
  BY DEF Process
<1>5. /\ fifo' \in Seq(Request) /\ IsInjective(fifo') /\ Head(fifo) \in Request
      /\ Head(fifo) \in ToSet(fifo) /\ ToSet(fifo') = ToSet(fifo) \ {Head(fifo)}
  BY <1>1, <1>2, <1>3, TailFacts DEF Commands
<1>6. result[Head(fifo)] = "pending"
  BY <1>1, <1>5 DEF Commands
<1>7. /\ \A q \in Request : q # Head(fifo) => result'[q] = result[q]
      /\ result'[Head(fifo)] = x
      /\ result' \in [Request -> {"none", "pending", "ok", "error", "failed"}]
  BY <1>2, <1>4, <1>5
<1>8. QueueTypes'
  BY <1>1, <1>3, <1>5, <1>7 DEF QueueTypes
<1>9. \A q \in Request : Adders(q)' = Adders(q)
  BY <1>3 DEF Adders
<1>10. Listed'
  BY <1>1, <1>3, <1>9 DEF Listed
<1>11. Commands'
  <2>1. \A q \in ToSet(fifo') : q \in Request /\ q # Head(fifo) /\ result[q] = "pending"
    BY <1>1, <1>2, <1>5, ToSetFacts DEF Commands
  <2>2. ASSUME NEW q \in Request PROVE result'[q] = "none" <=> status'[q] # "running"
    <3>1. CASE q = Head(fifo)
      <4>1. result[q] # "none"
        BY <1>6, <3>1
      <4>2. status[q] = "running"
        BY <1>1, <4>1 DEF Commands
      <4> QED
        BY <1>3, <1>7, <3>1, <4>2
    <3>2. CASE q # Head(fifo)
      BY <1>1, <1>3, <1>7, <3>2 DEF Commands
    <3> QED
      BY <3>1, <3>2
  <2> QED
    BY <1>5, <1>7, <2>1, <2>2 DEF Commands
<1>12. ASSUME NEW v \in Thread PROVE Knows(v)' /\ Undisturbed(v)'
  <2>1. Knows(v) /\ Undisturbed(v)
    BY <1>1
  <2>2. \A q \in Request \cup {Nil} : q # Nil /\ result[q] # "pending" => result'[q] # "pending"
    BY <1>6, <1>7
  <2>3. Dequeuing' = Dequeuing
    BY <1>3 DEF Dequeuing
  <2>4. Undisturbed(v)'
    BY <1>3, <2>1, <2>3 DEF Undisturbed
  <2>5. local[v] \in Locals
    BY <1>1 DEF QueueTypes
  <2>6. /\ local[v].req \in Request \cup {Nil}
        /\ local[v].id \in DOMAIN local[v].evts => local[v].evts[local[v].id] \in Request \cup {Nil}
    BY <2>5, LocalFields
  <2>7. Knows(v)'
    BY <1>3, <2>1, <2>2, <2>6 DEF Knows
  <2> QED
    BY <2>4, <2>7
<1> QED
  BY <1>8, <1>10, <1>11, <1>12 DEF ListInv

\* csi_dsp_request_dequeue copies the list.
LEMMA DequeueCopyList ==
  ASSUME ListInv, NEW t \in Thread, DequeueCopy(t)
  PROVE  ListInv'
<1>1. QueueTypes /\ Listed /\ Commands /\ \A v \in Thread : Knows(v) /\ Undisturbed(v)
  BY DEF ListInv
<1>2. /\ events \in Seq(Request) /\ local \in [Thread -> Locals]
      /\ pc \in [Thread -> {"idle", "add", "count", "blocked", "found", "delete"}]
  BY <1>1 DEF QueueTypes
<1>3. /\ pc[t] = "idle" /\ pc' = [pc EXCEPT ![t] = "count"]
      /\ events' = events /\ event_num' = event_num
      /\ status' = status /\ fifo' = fifo /\ result' = result
  BY DEF DequeueCopy
<1>4. local' = [v \in Thread |->
        IF v = t THEN [NoLocal EXCEPT !.evts = events, !.raced = (Dequeuing # {})]
        ELSE [local[v] EXCEPT !.raced = (local[v].raced \/ v \in Dequeuing)]]
  BY Zenon DEF DequeueCopy
<1>5. ASSUME NEW v \in Thread
      PROVE  /\ local'[v] \in Locals
             /\ v = t => local'[v].evts = events /\ local'[v].raced = (Dequeuing # {})
             /\ v # t => /\ local'[v].req = local[v].req /\ local'[v].evts = local[v].evts
                         /\ local'[v].id = local[v].id
                         /\ local'[v].raced = (local[v].raced \/ v \in Dequeuing)
  <2>1. CASE v = t
    <3> DEFINE b == Dequeuing # {}
               k == [NoLocal EXCEPT !.evts = events]
               l == [k EXCEPT !.raced = b]
    <3>1. b \in BOOLEAN /\ events \in Seq(Request \cup {Nil})
      BY <1>2
    <3>2. local'[v] = [NoLocal EXCEPT !.evts = events, !.raced = b]
      BY <1>4, <2>1
    <3> HIDE DEF b
    <3>3. [NoLocal EXCEPT !.evts = events, !.raced = b] = l
      OBVIOUS
    <3>4. k \in Locals /\ k.evts = events
      <4>1. NoLocal \in Locals
        BY NoLocalFields
      <4>2. \A x \in Seq(Request \cup {Nil}) :
              [NoLocal EXCEPT !.evts = x] \in Locals /\ [NoLocal EXCEPT !.evts = x].evts = x
        BY <4>1, LocalExcept
      <4> QED
        BY <3>1, <4>2
    <3> HIDE DEF k
    <3>5. l \in Locals /\ l.evts = k.evts /\ l.raced = b
      BY <3>1, <3>4, LocalExcept
    <3> HIDE DEF l
    <3> QED
      BY <2>1, <3>2, <3>3, <3>4, <3>5 DEF b
  <2>2. CASE v # t
    <3> DEFINE b == local[v].raced \/ v \in Dequeuing
               k == [local[v] EXCEPT !.raced = b]
    <3>1. local[v] \in Locals
      BY <1>2
    <3>2. b \in BOOLEAN
      BY <3>1, LocalFields
    <3>3. local'[v] = k
      BY <1>4, <2>2
    <3> HIDE DEF b
    <3>4. /\ k \in Locals /\ k.req = local[v].req /\ k.evts = local[v].evts
          /\ k.id = local[v].id /\ k.raced = b
      BY <3>1, <3>2, LocalExcept
    <3> HIDE DEF k
    <3> QED
      BY <2>2, <3>3, <3>4 DEF b
  <2> QED
    BY <2>1, <2>2
<1>6. QueueTypes'
  <2>1. local' \in [Thread -> Locals]
    <3>1. local' = [v \in Thread |-> local'[v]]
      BY <1>4
    <3> QED
      BY <1>5, <3>1
  <2>2. pc' \in [Thread -> {"idle", "add", "count", "blocked", "found", "delete"}]
    BY <1>2, <1>3
  <2> QED
    BY <1>1, <1>3, <2>1, <2>2 DEF QueueTypes
<1>7. \A v \in Thread : v # t => pc'[v] = pc[v]
  BY <1>2, <1>3
<1>8. pc'[t] = "count"
  BY <1>2, <1>3
<1>9. \A q \in Request : Adders(q)' = Adders(q)
  BY <1>3, <1>5, <1>7, <1>8 DEF Adders
<1>10. Listed'
  <2>1. \A v \in Thread : pc'[v] = "add" => local'[v].req \in Request
    <3>1. ASSUME NEW v \in Thread, pc'[v] = "add" PROVE local'[v].req \in Request
      <4>1. v # t /\ pc[v] = "add"
        BY <1>7, <1>8, <3>1
      <4> QED
        BY <1>1, <1>5, <4>1 DEF Listed
    <3> QED
      BY <3>1
  <2> QED
    BY <1>1, <1>3, <1>9, <2>1 DEF Listed
<1>11. Commands'
  BY <1>1, <1>3 DEF Commands
<1>12. Dequeuing' = Dequeuing \cup {t} /\ t \notin Dequeuing
  BY <1>3, <1>7, <1>8 DEF Dequeuing
<1>13. ASSUME NEW v \in Thread PROVE Knows(v)' /\ Undisturbed(v)'
  <2>1. CASE v = t
    <3>1. Knows(v)'
      BY <1>3, <1>5, <1>8, <2>1 DEF Knows
    <3>2. ASSUME ~local'[v].raced
          PROVE  /\ \A x \in Dequeuing' : x = v
                 /\ local'[v].evts = events'
      <4>1. Dequeuing = {}
        BY <1>5, <2>1, <3>2
      <4> QED
        BY <1>3, <1>5, <1>12, <2>1, <4>1
    <3>3. Undisturbed(v)'
      BY <1>8, <2>1, <3>2 DEF Undisturbed
    <3> QED
      BY <3>1, <3>3
  <2>2. CASE v # t
    <3>1. /\ pc'[v] = pc[v] /\ local'[v].req = local[v].req /\ local'[v].evts = local[v].evts
          /\ local'[v].id = local[v].id
          /\ local'[v].raced = (local[v].raced \/ v \in Dequeuing)
      BY <1>5, <1>7, <2>2
    <3>2. Knows(v)'
      BY <1>1, <1>3, <3>1 DEF Knows
    <3>3. v \in Dequeuing' => local'[v].raced
      BY <1>12, <2>2, <3>1
    <3>4. Undisturbed(v)'
      BY <3>3 DEF Undisturbed
    <3> QED
      BY <3>2, <3>4
  <2> QED
    BY <2>1, <2>2
<1> QED
  BY <1>6, <1>10, <1>11, <1>13 DEF ListInv

\* xrp_wait_any on the copied events.
LEMMA DequeueWaitList ==
  ASSUME ListInv, NEW t \in Thread, DequeueWait(t)
  PROVE  ListInv'
<1>1. PICK l : l = local[t]
  OBVIOUS
<1>2. PICK evts : evts = SubSeq(l.evts, 1, event_num)
  OBVIOUS
<1>3. /\ pc[t] = "count" /\ event_num \in 1 .. Len(l.evts) /\ Nil \notin ToSet(evts)
      /\ UNCHANGED <<status, fifo, result, events, event_num>>
  BY <1>1, <1>2 DEF DequeueWait
<1>4. QueueTypes /\ Listed /\ Knows(t) /\ Undisturbed(t)
  BY DEF ListInv
<1>5. l \in Locals /\ l.evts \in Seq(Request \cup {Nil}) /\ events \in Seq(Request)
  BY <1>1, <1>4, LocalFields DEF QueueTypes
<1>6. /\ evts \in Seq(Request \cup {Nil}) /\ Len(evts) = event_num
      /\ DOMAIN evts = 1 .. event_num /\ \A k \in 1 .. event_num : evts[k] = l.evts[k]
      /\ ToSet(evts) \subseteq ToSet(l.evts)
  BY <1>2, <1>3, <1>5, PrefixFacts
<1>7. ToSet(l.evts) \subseteq ToSet(events) \cup {Nil} /\ event_num = Len(events)
  BY <1>1, <1>3, <1>4 DEF Knows, Listed
<1>8. ~l.raced => (\A v \in Dequeuing : v = t) /\ l.evts = events
  BY <1>1, <1>3, <1>4 DEF Undisturbed, Dequeuing
<1>9. CASE Complete(evts) = {}
  <2>1. PICK k : k = [l EXCEPT !.evts = evts]
    OBVIOUS
  <2>2. Goto(t, "count", "blocked", k)
    BY <1>1, <1>2, <1>9, <2>1 DEF DequeueWait
  <2>a. k = SetEvts(l, evts)
    BY <2>1 DEF SetEvts
  <2>3. k \in Locals /\ k.evts = evts /\ k.raced = l.raced
    BY <1>5, <1>6, <2>a, LocalEvts
  <2>4. /\ pc'[t] = "blocked" /\ local'[t] = k
        /\ \A v \in Thread : v # t => pc'[v] = pc[v]
    BY <2>2, <2>3, GotoFacts
  <2>5. Knows(t)'
    BY <1>3, <1>6, <1>7, <2>3, <2>4 DEF Knows
  <2>6. Dequeuing' = Dequeuing
    BY <1>3, <2>4 DEF Dequeuing
  <2>7. ~l.raced => /\ Len(evts) <= Len(events)
                    /\ \A i \in DOMAIN evts : evts[i] = events[i]
    BY <1>6, <1>7, <1>8, <1>5
  <2>8. Undisturbed(t)'
    BY <1>3, <1>8, <2>3, <2>4, <2>6, <2>7 DEF Undisturbed
  <2> QED
    BY <1>1, <1>3, <2>2, <2>3, <2>5, <2>8, DequeueKept
<1>10. CASE Complete(evts) # {}
  <2>1. PICK m : m = Min(Complete(evts))
    OBVIOUS
  <2>2. m \in Complete(evts)
    <3>1. Complete(evts) \subseteq 1 .. Len(evts)
      BY <1>6 DEF Complete
    <3> QED
      BY <1>6, <1>10, <2>1, <3>1, FirstPlace
  <2>3. m \in 1 .. event_num /\ result[evts[m]] # "pending"
    BY <1>6, <2>2 DEF Complete
  <2>4. PICK k : k = [l EXCEPT !.id = m]
    OBVIOUS
  <2>5. Goto(t, "count", "found", k)
    BY <1>1, <1>2, <1>10, <2>1, <2>4 DEF DequeueWait
  <2>6. m \in DOMAIN l.evts /\ l.evts[m] = evts[m] /\ m \in Nat
    BY <1>3, <1>5, <1>6, <2>3
  <2>7. k \in Locals /\ k.evts = l.evts /\ k.raced = l.raced /\ k.id = m
    BY <1>5, <2>4, <2>6, LocalExcept
  <2>8. /\ pc'[t] = "found" /\ local'[t] = k
        /\ \A v \in Thread : v # t => pc'[v] = pc[v]
    BY <2>5, <2>7, GotoFacts
  <2>9. Knows(t)'
    BY <1>3, <1>7, <2>3, <2>6, <2>7, <2>8 DEF Knows
  <2>10. Dequeuing' = Dequeuing
    BY <1>3, <2>8 DEF Dequeuing
  <2>11. Undisturbed(t)'
    <3>1. ~l.raced => Len(l.evts) <= Len(events)
      BY <1>5, <1>8
    <3> QED
      BY <1>3, <1>8, <2>7, <2>8, <2>10, <3>1 DEF Undisturbed
  <2> QED
    BY <1>1, <1>3, <2>5, <2>7, <2>9, <2>11, DequeueKept
<1> QED
  BY <1>9, <1>10

\* The wait of xrp_wait_any ends.
LEMMA DequeueWakeList ==
  ASSUME ListInv, NEW t \in Thread, DequeueWake(t)
  PROVE  ListInv'
<1>1. PICK l : l = local[t]
  OBVIOUS
<1>2. /\ pc[t] = "blocked"
      /\ UNCHANGED <<status, fifo, result, events, event_num>>
  BY DEF DequeueWake
<1>3. QueueTypes /\ Knows(t) /\ Undisturbed(t)
  BY DEF ListInv
<1>4. l \in Locals /\ l.evts \in Seq(Request \cup {Nil})
  BY <1>1, <1>3, LocalFields DEF QueueTypes
<1>5. CASE Nil \in ToSet(l.evts)
  <2>1. Goto(t, "blocked", "idle", NoLocal)
    BY <1>1, <1>5 DEF DequeueWake
  <2> QED
    BY <1>2, <2>1, DequeueEnds
<1>6. CASE Nil \notin ToSet(l.evts)
  <2>1. PICK m \in Complete(l.evts) : Goto(t, "blocked", "found", [l EXCEPT !.id = m])
    BY <1>1, <1>6 DEF DequeueWake
  <2>2. PICK k : k = [l EXCEPT !.id = m]
    OBVIOUS
  <2>3. m \in DOMAIN l.evts /\ m \in Nat /\ result[l.evts[m]] # "pending"
    BY <1>4, <2>1 DEF Complete
  <2>4. Goto(t, "blocked", "found", k)
    BY <2>1, <2>2
  <2>5. k \in Locals /\ k.evts = l.evts /\ k.raced = l.raced /\ k.id = m
    BY <1>4, <2>2, <2>3, LocalExcept
  <2>6. /\ pc'[t] = "found" /\ local'[t] = k
        /\ \A v \in Thread : v # t => pc'[v] = pc[v]
    BY <2>4, <2>5, GotoFacts
  <2>7. Knows(t)'
    BY <1>1, <1>2, <1>3, <2>3, <2>5, <2>6 DEF Knows
  <2>8. Dequeuing' = Dequeuing
    BY <1>2, <2>6 DEF Dequeuing
  <2>9. Undisturbed(t)'
    BY <1>1, <1>2, <1>3, <2>5, <2>6, <2>8 DEF Undisturbed
  <2> QED
    BY <1>1, <1>2, <2>4, <2>5, <2>7, <2>9, DequeueKept
<1> QED
  BY <1>5, <1>6

\* The search for the item of the event.
LEMMA DequeueFindList ==
  ASSUME ListInv, NEW t \in Thread, DequeueFind(t)
  PROVE  ListInv'
<1>1. PICK l : l = local[t]
  OBVIOUS
<1>2. /\ pc[t] = "found"
      /\ UNCHANGED <<status, fifo, result, events, event_num>>
  BY DEF DequeueFind, GiveUp
<1>3. QueueTypes /\ Knows(t) /\ Undisturbed(t)
  BY DEF ListInv
<1>4. l \in Locals /\ l.evts \in Seq(Request \cup {Nil}) /\ events \in Seq(Request)
  BY <1>1, <1>3, LocalFields DEF QueueTypes
<1>5. CASE GiveUp(t, "found")
  BY <1>2, <1>5, DequeueEnds DEF GiveUp
<1>6. CASE ~GiveUp(t, "found")
  <2>1. PICK e : e = l.evts[l.id]
    OBVIOUS
  <2>2. PICK q : q = IF e \in ToSet(events) THEN e ELSE Nil
    OBVIOUS
  <2>3. PICK k : k = [l EXCEPT !.req = q]
    OBVIOUS
  <2>4. Goto(t, "found", "delete", k)
    BY <1>1, <1>6, <2>1, <2>2, <2>3 DEF DequeueFind
  <2>5. ToSet(events) \subseteq Request /\ Nil \notin Request
    BY <1>4, ToSetFacts, CsiAssumption
  <2>6. q \in Request \cup {Nil}
    BY <2>2, <2>5
  <2>7. k \in Locals /\ k.req = q /\ k.raced = l.raced
    BY <1>4, <2>3, <2>6, LocalReq
  <2>8. /\ pc'[t] = "delete" /\ local'[t] = k
        /\ \A v \in Thread : v # t => pc'[v] = pc[v]
    BY <2>4, <2>7, GotoFacts
  <2>9. /\ l.id \in DOMAIN l.evts
        /\ e # Nil => result[e] # "pending"
    BY <1>1, <1>2, <1>3, <2>1 DEF Knows
  <2>10. Knows(t)'
    BY <1>2, <2>2, <2>5, <2>7, <2>8, <2>9 DEF Knows
  <2>11. Dequeuing' = Dequeuing
    BY <1>2, <2>8 DEF Dequeuing
  <2>12. ASSUME ~l.raced PROVE (\A v \in Dequeuing : v = t) /\ q \in ToSet(events)
    <3>1. /\ \A v \in Dequeuing : v = t
          /\ Len(l.evts) <= Len(events) /\ \A i \in DOMAIN l.evts : l.evts[i] = events[i]
      BY <1>1, <1>2, <1>3, <2>12 DEF Undisturbed, Dequeuing
    <3>2. l.id \in 1 .. Len(events) /\ e = events[l.id]
      <4>1. /\ Len(l.evts) \in Nat /\ Len(events) \in Nat
            /\ DOMAIN l.evts = 1 .. Len(l.evts)
        BY <1>4
      <4> QED
        BY <2>1, <2>9, <3>1, <4>1
    <3>3. e \in ToSet(events)
      BY <1>4, <3>2, ToSetFacts
    <3> QED
      BY <2>2, <3>1, <3>3
  <2>13. Undisturbed(t)'
    BY <1>2, <2>7, <2>8, <2>11, <2>12 DEF Undisturbed
  <2> QED
    BY <1>1, <1>2, <2>4, <2>7, <2>10, <2>13, DequeueKept
<1> QED
  BY <1>5, <1>6

\* The item is taken off the list.
LEMMA DequeueDeleteList ==
  ASSUME ListInv, NEW t \in Thread, DequeueDelete(t)
  PROVE  ListInv'
<1>0. PICK r : r = local[t].req
  OBVIOUS
<1>1. QueueTypes /\ Listed /\ Commands /\ \A v \in Thread : Knows(v) /\ Undisturbed(v)
  BY DEF ListInv
<1>2. /\ events \in Seq(Request) /\ local \in [Thread -> Locals]
      /\ pc \in [Thread -> {"idle", "add", "count", "blocked", "found", "delete"}]
      /\ status \in [Request -> Status] /\ fifo \in Seq(Request)
      /\ result \in [Request -> {"none", "pending", "ok", "error", "failed"}]
  BY <1>1 DEF QueueTypes
<1>3. /\ pc[t] = "delete" /\ pc' = [pc EXCEPT ![t] = "idle"]
      /\ r # Nil /\ r \in ToSet(events)
      /\ events' = RemoveFirst(events, r) /\ event_num' = event_num - 1
      /\ result' = [result EXCEPT ![r] = "none"] /\ fifo' = fifo
      /\ \E x \in {"done", "fail"} : status' = [status EXCEPT ![r] = x]
  BY <1>0 DEF DequeueDelete, EventNumDown
<1>4. local' = [v \in Thread |-> IF v = t THEN NoLocal
        ELSE [local[v] EXCEPT !.evts = [k \in DOMAIN local[v].evts |->
                IF local[v].evts[k] = r THEN Nil ELSE local[v].evts[k]]]]
  BY <1>0, Zenon DEF DequeueDelete
<1>5. r \in Request /\ Adders(r) = {} /\ status[r] = "running"
  <2>1. r \in Request
    BY <1>2, <1>3, ToSetFacts
  <2> QED
    BY <1>1, <1>3, <2>1 DEF Listed
<1>6. /\ events' \in Seq(Request) /\ IsInjective(events')
      /\ ToSet(events') = ToSet(events) \ {r} /\ Len(events') = Len(events) - 1
      /\ Len(events) \in Nat
  BY <1>1, <1>2, <1>3, RemoveFacts, ToSetFacts DEF Listed
<1>7. ASSUME NEW v \in Thread
      PROVE  /\ local'[v] \in Locals
             /\ v = t => local'[v] = NoLocal
             /\ v # t => /\ local'[v].req = local[v].req
                         /\ local'[v].id = local[v].id /\ local'[v].raced = local[v].raced
                         /\ DOMAIN local'[v].evts = DOMAIN local[v].evts
                         /\ \A k \in DOMAIN local[v].evts :
                              local'[v].evts[k] = IF local[v].evts[k] = r THEN Nil
                                                  ELSE local[v].evts[k]
  <2>1. CASE v = t
    BY <1>4, <2>1, NoLocalFields
  <2>2. CASE v # t
    <3> DEFINE s == local[v].evts
               w == [k \in DOMAIN s |-> IF s[k] = r THEN Nil ELSE s[k]]
               l == [local[v] EXCEPT !.evts = w]
    <3>1. s \in Seq(Request \cup {Nil}) /\ local[v] \in Locals
      BY <1>2, LocalFields
    <3>2. local'[v] = l
      BY <1>4, <2>2
    <3> HIDE DEF s
    <3>3. w \in Seq(Request \cup {Nil})
      <4>1. \A k \in DOMAIN s : s[k] \in Request \cup {Nil}
        BY <3>1
      <4>2. DOMAIN s = 1 .. Len(s) /\ Len(s) \in Nat
        BY <3>1
      <4>3. w \in [1 .. Len(s) -> Request \cup {Nil}]
        BY <4>1, <4>2
      <4> HIDE DEF w
      <4> QED
        BY <4>2, <4>3, IsASeq
    <3>4. DOMAIN w = DOMAIN s /\ \A k \in DOMAIN s : w[k] = IF s[k] = r THEN Nil ELSE s[k]
      OBVIOUS
    <3> HIDE DEF w
    <3> HIDE DEF l
    <3>6. l = SetEvts(local[v], w)
      BY DEF l, SetEvts
    <3>5. /\ l \in Locals /\ l.evts = w /\ l.req = local[v].req /\ l.id = local[v].id
          /\ l.raced = local[v].raced
      BY <3>1, <3>3, <3>6, LocalEvts
    <3> QED
      BY <2>2, <3>2, <3>4, <3>5 DEF s
  <2> QED
    BY <2>1, <2>2
<1>8. /\ pc' \in [Thread -> {"idle", "add", "count", "blocked", "found", "delete"}]
      /\ pc'[t] = "idle" /\ \A v \in Thread : v # t => pc'[v] = pc[v]
  BY <1>2, <1>3
<1>9. /\ \A q \in Request : q # r => result'[q] = result[q] /\ status'[q] = status[q]
      /\ result'[r] = "none" /\ status'[r] # "running"
      /\ status' \in [Request -> Status]
      /\ result' \in [Request -> {"none", "pending", "ok", "error", "failed"}]
  <2>1. PICK x \in {"done", "fail"} : status' = [status EXCEPT ![r] = x]
    BY <1>3
  <2>2. x \in Status /\ x # "running"
    BY <2>1 DEF Status
  <2> QED
    BY <1>2, <1>3, <1>5, <2>1, <2>2
<1>10. QueueTypes'
  <2>1. local' \in [Thread -> Locals]
    <3>1. local' = [v \in Thread |-> local'[v]]
      BY <1>4
    <3> QED
      BY <1>7, <3>1
  <2>2. event_num' = Len(events') /\ event_num' \in Nat
    BY <1>1, <1>3, <1>6 DEF Listed
  <2> QED
    BY <1>2, <1>3, <1>6, <1>8, <1>9, <2>1, <2>2 DEF QueueTypes
<1>11. \A q \in Request : Adders(q)' = Adders(q)
  <2>1. \A v \in Thread : pc'[v] = "add" <=> pc[v] = "add"
    BY <1>3, <1>8
  <2>2. \A v \in Thread : pc[v] = "add" => local'[v].req = local[v].req
    BY <1>3, <1>7
  <2> QED
    BY <2>1, <2>2 DEF Adders
<1>12. Listed'
  <2>1. event_num' = Len(events')
    BY <1>1, <1>3, <1>6 DEF Listed
  <2>2. \A v \in Thread : pc'[v] = "add" => local'[v].req \in Request
    <3>1. ASSUME NEW v \in Thread, pc'[v] = "add" PROVE local'[v].req \in Request
      <4>1. v # t /\ pc[v] = "add"
        BY <1>8, <3>1
      <4> QED
        BY <1>1, <1>7, <4>1 DEF Listed
    <3> QED
      BY <3>1
  <2>3. ASSUME NEW q \in Request
        PROVE  /\ status'[q] = "running" <=> q \in ToSet(events') \/ Adders(q)' # {}
               /\ q \in ToSet(events') => Adders(q)' = {}
               /\ \A x, v \in Adders(q)' : x = v
    <3>1. Adders(q)' = Adders(q)
      BY <1>11
    <3>2. CASE q = r
      BY <1>5, <1>6, <1>9, <3>1, <3>2
    <3>3. CASE q # r
      BY <1>1, <1>6, <1>9, <3>1, <3>3 DEF Listed
    <3> QED
      BY <3>2, <3>3
  <2> QED
    BY <1>6, <2>1, <2>2, <2>3 DEF Listed
<1>13. r \notin ToSet(fifo)
  <2>1. result[r] # "pending"
    BY <1>0, <1>1, <1>3 DEF Knows
  <2> QED
    BY <1>1, <2>1 DEF Commands
<1>14. Commands'
  <2>1. ToSet(fifo) \subseteq Request
    BY <1>2, ToSetFacts
  <2>2. \A q \in ToSet(fifo) : result'[q] = "pending"
    BY <1>1, <1>9, <1>13, <2>1 DEF Commands
  <2>3. ASSUME NEW q \in Request PROVE result'[q] = "none" <=> status'[q] # "running"
    <3>1. CASE q = r
      BY <1>9, <3>1
    <3>2. CASE q # r
      BY <1>1, <1>9, <3>2 DEF Commands
    <3> QED
      BY <3>1, <3>2
  <2> QED
    BY <1>1, <1>3, <2>2, <2>3 DEF Commands
<1>15. Dequeuing' \subseteq Dequeuing /\ t \in Dequeuing /\ t \notin Dequeuing'
  BY <1>3, <1>8 DEF Dequeuing
<1>16. ASSUME NEW v \in Thread PROVE Knows(v)' /\ Undisturbed(v)'
  <2>1. CASE v = t
    BY <1>8, <2>1 DEF Knows, Undisturbed, Dequeuing
  <2>2. CASE v # t
    <3> DEFINE s == local[v].evts
               w == local'[v].evts
    <3>1. /\ pc'[v] = pc[v] /\ local'[v].req = local[v].req
          /\ local'[v].id = local[v].id /\ local'[v].raced = local[v].raced
          /\ DOMAIN w = DOMAIN s
          /\ \A k \in DOMAIN s : w[k] = IF s[k] = r THEN Nil ELSE s[k]
      BY <1>7, <1>8, <2>2
    <3>2. Knows(v) /\ Undisturbed(v) /\ local[v] \in Locals
      BY <1>1, <1>2
    <3>3. s \in Seq(Request \cup {Nil}) /\ local[v].req \in Request \cup {Nil}
      BY <3>2, LocalFields
    <3>4. pc[v] \in {"count", "blocked", "found"} => ToSet(s) \subseteq ToSet(events) \cup {Nil}
      BY <3>2 DEF Knows
    <3>5. pc[v] = "found" => /\ local[v].id \in DOMAIN s
                             /\ s[local[v].id] # Nil => result[s[local[v].id]] # "pending"
      BY <3>2 DEF Knows
    <3> HIDE DEF s, w
    <3>6. pc[v] \in {"count", "blocked", "found"} => ToSet(w) \subseteq ToSet(events') \cup {Nil}
      BY <1>6, <3>1, <3>4 DEF ToSet
    <3>7. ASSUME pc[v] = "found", w[local[v].id] # Nil
          PROVE  result'[w[local[v].id]] # "pending"
      <4>1. local[v].id \in DOMAIN s /\ s[local[v].id] # r /\ w[local[v].id] = s[local[v].id]
        BY <3>1, <3>5, <3>7
      <4>2. s[local[v].id] \in Request /\ result[s[local[v].id]] # "pending"
        BY <3>3, <3>5, <3>7, <4>1
      <4> QED
        BY <1>9, <4>1, <4>2
    <3>8. ASSUME pc[v] = "delete", local[v].req # Nil
          PROVE  result'[local[v].req] # "pending"
      <4>1. local[v].req \in Request /\ result[local[v].req] # "pending"
        BY <3>2, <3>3, <3>8 DEF Knows
      <4> QED
        BY <1>9, <4>1
    <3>9. Knows(v)'
      <4>1. local'[v].evts = w
        BY DEF w
      <4> QED
        BY <3>1, <3>5, <3>6, <3>7, <3>8, <4>1 DEF Knows
    <3>10. Undisturbed(v)'
      <4>1. ~(v \in Dequeuing' /\ ~local'[v].raced)
        BY <1>15, <2>2, <3>1, <3>2 DEF Undisturbed
      <4> QED
        BY <4>1 DEF Undisturbed
    <3> QED
      BY <3>9, <3>10
  <2> QED
    BY <2>1, <2>2
<1> QED
  BY <1>10, <1>12, <1>14, <1>16 DEF ListInv

\* A dequeue that finds no event.
LEMMA DequeueNoneList ==
  ASSUME ListInv, NEW t \in Thread, DequeueNone(t)
  PROVE  ListInv'
  BY DequeueEnds DEF DequeueNone, GiveUp

\* A dequeue that reads foreign memory ends.
LEMMA DequeueWaitWildList ==
  ASSUME ListInv, NEW t \in Thread, DequeueWaitWild(t)
  PROVE  ListInv'
  BY DequeueEnds DEF DequeueWaitWild

\* A dequeue that takes foreign memory off the list ends.
LEMMA DequeueDeleteWildList ==
  ASSUME ListInv, NEW t \in Thread, DequeueDeleteWild(t)
  PROVE  ListInv'
  BY DequeueEnds DEF DequeueDeleteWild

(***************************************************************************)
(* What the steps need of the whole state.                                 *)
(***************************************************************************)

\* xrp_retain_device and xrp_release_device
LEMMA DeviceOK ==
  ASSUME NEW h, HeapOK(h), NEW k
  PROVE  /\ k = RetainDevice(h) =>
              /\ HeapOK(k) /\ Spare(k) = Spare(h) + 1 /\ LiveIn(k) = LiveIn(h)
              /\ k.ref = h.ref /\ k.maps = h.maps /\ k.gref = h.gref
              /\ k.grp = h.grp /\ k.bad = h.bad
         /\ k = ReleaseDevice(h) /\ Spare(h) >= 1 =>
              /\ HeapOK(k) /\ Spare(k) = Spare(h) - 1 /\ LiveIn(k) = LiveIn(h)
              /\ k.ref = h.ref /\ k.maps = h.maps /\ k.gref = h.gref
              /\ k.grp = h.grp /\ k.bad = h.bad
<1>1. h \in HeapRec /\ IsFiniteSet(LiveIn(h)) /\ Spare(h) >= 0 /\ h.dev \in Int
      /\ h.bad \in BOOLEAN
  BY HeapFields DEF HeapOK
<1>2. Cardinality(LiveIn(h)) \in Nat /\ Spare(h) = h.dev - Cardinality(LiveIn(h))
  BY <1>1, FS_CardinalityType DEF Spare
<1>3. ASSUME k = RetainDevice(h)
      PROVE  /\ HeapOK(k) /\ Spare(k) = Spare(h) + 1 /\ LiveIn(k) = LiveIn(h)
             /\ k.ref = h.ref /\ k.maps = h.maps /\ k.gref = h.gref
             /\ k.grp = h.grp /\ k.bad = h.bad
  <2>1. /\ k \in HeapRec /\ k.ref = h.ref /\ k.maps = h.maps /\ k.gref = h.gref
        /\ k.grp = h.grp /\ k.bad = h.bad /\ k.dev = h.dev + 1
    <3>1. PICK x : x = h.bad
      OBVIOUS
    <3>2. /\ k \in HeapRec
          /\ k = [ref |-> h.ref, maps |-> h.maps, gref |-> h.gref, grp |-> h.grp,
                  dev |-> h.dev + 1, bad |-> x]
      BY <1>1, <1>3, <3>1, DeviceFields, Zenon
    <3> QED
      BY <3>1, <3>2
  <2>2. LiveIn(k) = LiveIn(h)
    BY <2>1 DEF LiveIn
  <2>3. Spare(k) = Spare(h) + 1
    BY <1>1, <1>2, <2>1, <2>2 DEF Spare
  <2> QED
    BY <1>1, <1>2, <2>1, <2>2, <2>3 DEF HeapOK
<1>4. ASSUME k = ReleaseDevice(h), Spare(h) >= 1
      PROVE  /\ HeapOK(k) /\ Spare(k) = Spare(h) - 1 /\ LiveIn(k) = LiveIn(h)
             /\ k.ref = h.ref /\ k.maps = h.maps /\ k.gref = h.gref
             /\ k.grp = h.grp /\ k.bad = h.bad
  <2>1. /\ k \in HeapRec /\ k.ref = h.ref /\ k.maps = h.maps /\ k.gref = h.gref
        /\ k.grp = h.grp /\ k.bad = (h.bad \/ h.dev = 0) /\ k.dev = h.dev - 1
    <3>1. PICK x : x = (h.bad \/ h.dev = 0)
      OBVIOUS
    <3>2. /\ k \in HeapRec
          /\ k = [ref |-> h.ref, maps |-> h.maps, gref |-> h.gref, grp |-> h.grp,
                  dev |-> h.dev - 1, bad |-> x]
      BY <1>1, <1>4, <3>1, DeviceFields, Zenon
    <3>3. /\ k \in HeapRec /\ k.ref = h.ref /\ k.maps = h.maps /\ k.gref = h.gref
          /\ k.grp = h.grp /\ k.bad = x /\ k.dev = h.dev - 1
      BY <3>2
    <3> QED
      BY <3>1, <3>3
  <2>2. LiveIn(k) = LiveIn(h)
    BY <2>1 DEF LiveIn
  <2>3. Spare(k) = Spare(h) - 1
    BY <1>1, <1>2, <2>1, <2>2 DEF Spare
  <2>4. h.dev # 0
    BY <1>1, <1>2, <1>4
  <2> QED
    BY <1>1, <1>2, <1>4, <2>1, <2>2, <2>3, <2>4 DEF HeapOK
<1> QED
  BY <1>3, <1>4

\* Addresses from the pool are free and different.
LEMMA FreshFacts ==
  ASSUME HeapTypes, NEW n \in Nat, NEW us \in Fresh(n)
  PROVE  /\ us \in Seq(Buffer) /\ Len(us) = n /\ IsInjective(us) /\ Unused(heap, us)
         /\ ToSet(us) \subseteq size.memory
<1>1. size.memory \subseteq Buffer /\ Buffer \subseteq Nat
  BY CsiAssumption DEF HeapTypes
<1>2. Free \subseteq Buffer /\ Free \subseteq size.memory
      /\ \A u \in Free : ~(heap.ref[u] > 0)
  BY <1>1 DEF Free, Live
<1>3. /\ us \in [1 .. n -> Free]
      /\ \A k \in 1 .. n : \A j \in 1 .. k - 1 : us[j] < us[k]
  BY DEF Fresh
<1>4. us \in Seq(Free) /\ Len(us) = n
  <2>1. us \in Seq(Free)
    BY <1>3, SeqDef
  <2>2. DOMAIN us = 1 .. n
    BY <1>3
  <2> QED
    BY <2>1, <2>2, LenProperties
<1>5. ToSet(us) \subseteq Free
  BY <1>4, ToSetFacts
<1>6. us \in Seq(Buffer)
  BY <1>2, <1>3, <1>4, SeqDef
<1>7. IsInjective(us)
  <2> SUFFICES ASSUME NEW a \in 1 .. n, NEW b \in 1 .. n, us[a] = us[b]
               PROVE  a = b
    BY <1>3 DEF IsInjective
  <2>1. us[a] \in Nat /\ us[b] \in Nat
    BY <1>1, <1>2, <1>3
  <2>2. ~(a < b)
    <3>1. a < b => us[a] < us[b]
      BY <1>3
    <3> QED
      BY <2>1, <3>1
  <2>3. ~(b < a)
    <3>1. b < a => us[b] < us[a]
      BY <1>3
    <3> QED
      BY <2>1, <3>1
  <2> QED
    BY <2>2, <2>3
<1>8. Unused(heap, us)
  <2>1. heap.ref \in [Buffer -> Nat]
    BY HeapFields DEF HeapTypes, HeapOK
  <2> QED
    BY <1>2, <1>5, <2>1 DEF Unused
<1> QED
  BY <1>2, <1>4, <1>5, <1>6, <1>7, <1>8

\* The arrays of buffers of the groups.
LEMMA BufsFacts ==
  ASSUME tbufs \in Seq(Seq(Nat)), planes \in [Request -> Seq(Seq(Nat))]
  PROVE  /\ Bufs \in [Group -> Seq(Arrays)] /\ Bufs[TaskGroup] = tbufs
         /\ Bufs[CallGroup] = <<>> /\ \A r \in Request : r \in Group /\ Bufs[r] = planes[r]
<1>1. tbufs \in Seq(Arrays) /\ planes \in [Request -> Seq(Arrays)]
  BY DEF Arrays
<1>2. PICK e \in Seq(Arrays) : e = <<>>
  BY EmptyOf
<1>3. /\ TaskGroup \in Group /\ CallGroup \in Group /\ TaskGroup # CallGroup
      /\ TaskGroup \notin Request /\ CallGroup \notin Request /\ Request \subseteq Group
  BY CsiAssumption
<1>4. Bufs = [g \in Group |-> IF g = TaskGroup THEN tbufs
                              ELSE IF g \in Request THEN planes[g] ELSE e]
  BY <1>2 DEF Bufs
<1>5. \A g \in Group : (IF g = TaskGroup THEN tbufs
                        ELSE IF g \in Request THEN planes[g] ELSE e) \in Seq(Arrays)
  BY <1>1, <1>2
<1>6. Bufs \in [Group -> Seq(Arrays)]
  BY <1>4, <1>5
<1>7. Bufs[TaskGroup] = tbufs /\ Bufs[CallGroup] = e
      /\ \A r \in Request : r \in Group /\ Bufs[r] = planes[r]
  BY <1>3, <1>4
<1> QED
  BY <1>2, <1>6, <1>7

\* The array of the task changes.
LEMMA BufsTask ==
  ASSUME tbufs \in Seq(Seq(Nat)), planes \in [Request -> Seq(Seq(Nat))], planes' = planes
  PROVE  Bufs' = [Bufs EXCEPT ![TaskGroup] = tbufs']
<1>1. /\ TaskGroup \in Group /\ CallGroup \in Group /\ TaskGroup # CallGroup
      /\ TaskGroup \notin Request /\ CallGroup \notin Request /\ Request \subseteq Group
  BY CsiAssumption
<1> QED
  BY <1>1 DEF Bufs

\* One array of a request changes.
LEMMA BufsRequest ==
  ASSUME tbufs \in Seq(Seq(Nat)), planes \in [Request -> Seq(Seq(Nat))], tbufs' = tbufs,
         NEW r \in Request, NEW c, planes' = [planes EXCEPT ![r] = c]
  PROVE  Bufs' = [Bufs EXCEPT ![r] = c]
<1>1. /\ TaskGroup \in Group /\ CallGroup \in Group /\ TaskGroup # CallGroup
      /\ TaskGroup \notin Request /\ CallGroup \notin Request /\ Request \subseteq Group
  BY CsiAssumption
<1> QED
  BY <1>1 DEF Bufs

\* A step that leaves memory as it should be.
LEMMA Steady ==
  ASSUME StoreInv, wild = {}, wild' = {}, slips' = slips, size' = size,
         instance' \in BOOLEAN, task' \in {"none", "new", "ready"},
         planes' \in [Request -> Seq(Seq(Nat))], tbufs' \in Seq(Seq(Nat)),
         ~heap'.bad, Groups', Store(heap', Bufs', sett', lost'),
         Spare(heap') = 2 * One(instance') + One(task' # "none"),
         LiveIn(heap') \subseteq size.memory
  PROVE  StoreInv'
<1>1. slips = {} /\ size \in Sizes
  BY DEF StoreInv, Sound, HeapTypes
<1>2. /\ HeapOK(heap') /\ heap'.maps \in [Buffer -> Nat] /\ sett' \in [Request -> SettRec]
      /\ lost' \in [Buffer -> Nat]
  BY StoreFields
<1>3. HeapTypes'
  BY <1>1, <1>2 DEF HeapTypes
<1>4. Sound'
  BY <1>1 DEF Sound
<1> QED
  BY <1>3, <1>4 DEF StoreInv, MemorySafe

(***************************************************************************)
(* Memory and the steps of enqueue and dequeue.                            *)
(***************************************************************************)

\* Steps of threads that leave buffers alone.
LEMMA StoreKept ==
  ASSUME StoreInv, wild = {}, wild' = {}, slips' = slips, UNCHANGED <<objects, heap>>,
         \A r \in Request : status'[r] = "none" <=> status[r] = "none",
         fifo' = fifo
  PROVE  StoreInv'
<1>1. /\ size' = size /\ instance' = instance /\ task' = task /\ planes' = planes
      /\ tbufs' = tbufs /\ sett' = sett /\ lost' = lost /\ heap' = heap
  BY DEF objects, content
<1>2. Sound /\ HeapTypes
  BY DEF StoreInv
<1>3. Bufs' = Bufs
  BY <1>1 DEF Bufs
<1>4. Groups'
  BY <1>1, <1>2 DEF Sound, Groups, One
<1> QED
  BY <1>1, <1>2, <1>3, <1>4, Steady DEF Sound, HeapTypes

\* A dequeue that another one disturbed uses freed memory.
LEMMA Corrupted ==
  ASSUME StoreInv, wild = {}, UNCHANGED <<objects, heap>>,
         NEW t, local[t].raced, NEW what \in {"events", "list"}, Corrupts(t, what)
  PROVE  StoreInv'
<1>1. /\ size' = size /\ instance' = instance /\ task' = task /\ planes' = planes
      /\ tbufs' = tbufs /\ sett' = sett /\ lost' = lost /\ heap' = heap
  BY DEF objects, content
<1>2. wild' = {what} /\ slips' = {"race"}
  BY DEF Corrupts
<1>3. HeapTypes'
  BY <1>1, <1>2 DEF StoreInv, HeapTypes
<1>4. ~heap'.bad
  BY <1>1 DEF StoreInv, Sound
<1> QED
  BY <1>2, <1>3, <1>4 DEF StoreInv, MemorySafe

\* csi_dsp_request_dequeue copies the list.
LEMMA DequeueCopyStore ==
  ASSUME StoreInv, NEW t \in Thread, DequeueCopy(t)
  PROVE  StoreInv'
  BY StoreKept DEF DequeueCopy

\* The item of the request is put on the list.
LEMMA EnqueueListStore ==
  ASSUME StoreInv, NEW t \in Thread, EnqueueList(t)
  PROVE  StoreInv'
  BY StoreKept DEF EnqueueList

\* xrp_wait_any returns or blocks.
LEMMA DequeueWaitStore ==
  ASSUME StoreInv, NEW t \in Thread, DequeueWait(t)
  PROVE  StoreInv'
<1>1. wild = {} /\ UNCHANGED <<objects, heap, status, fifo, slips, wild>>
  BY DEF DequeueWait, Goto
<1> QED
  BY <1>1, StoreKept

\* There is no event.
LEMMA DequeueNoneStore ==
  ASSUME StoreInv, NEW t \in Thread, DequeueNone(t)
  PROVE  StoreInv'
<1>1. wild = {} /\ UNCHANGED <<objects, heap, status, fifo, slips, wild>>
  BY DEF DequeueNone, GiveUp, Goto
<1> QED
  BY <1>1, StoreKept

\* The item of the event is looked for.
LEMMA DequeueFindStore ==
  ASSUME StoreInv, NEW t \in Thread, DequeueFind(t)
  PROVE  StoreInv'
<1>1. wild = {} /\ UNCHANGED <<objects, heap, status, fifo, slips, wild>>
  BY DEF DequeueFind, GiveUp, Goto
<1> QED
  BY <1>1, StoreKept

\* The wait reads past the array only when the list has grown meanwhile.
LEMMA DequeueWaitWildStore ==
  ASSUME ListInv, StoreInv, NEW t \in Thread, DequeueWaitWild(t)
  PROVE  StoreInv'
<1>1. /\ wild = {} /\ pc[t] = "count" /\ Corrupts(t, "events") /\ UNCHANGED <<objects, heap>>
  BY DEF DequeueWaitWild, Goto
<1>2. PICK k \in 1 .. event_num :
        k > Len(local[t].evts) \/ (k <= Len(local[t].evts) /\ local[t].evts[k] = Nil)
  BY DEF DequeueWaitWild
<1>3. local[t].raced
  <2> SUFFICES ASSUME ~local[t].raced PROVE FALSE
    OBVIOUS
  <2>1. t \in Dequeuing
    BY <1>1 DEF Dequeuing
  <2>2. local[t].evts = events
    BY <1>1, <2>1 DEF ListInv, Undisturbed
  <2>3. events \in Seq(Request) /\ event_num = Len(events)
    BY DEF ListInv, QueueTypes, Listed
  <2>4. events[k] \in Request /\ k <= Len(events) /\ k \in Nat
    BY <1>2, <2>3
  <2> QED
    BY <1>2, <2>2, <2>3, <2>4, CsiAssumption
<1> QED
  BY <1>1, <1>3, Corrupted

\* The wait ends: the events it waits for are on the list unless another
\* dequeue took one off.
LEMMA DequeueWakeStore ==
  ASSUME ListInv, StoreInv, NEW t \in Thread, DequeueWake(t)
  PROVE  StoreInv'
<1>1. /\ wild = {} /\ pc[t] = "blocked" /\ UNCHANGED <<objects, heap, status, fifo>>
  BY DEF DequeueWake, Goto
<1>2. CASE Nil \in ToSet(local[t].evts)
  <2>1. Corrupts(t, "events")
    BY <1>2 DEF DequeueWake
  <2>2. local[t].raced
    <3> SUFFICES ASSUME ~local[t].raced PROVE FALSE
      OBVIOUS
    <3>1. t \in Dequeuing
      BY <1>1 DEF Dequeuing
    <3>2. /\ Len(local[t].evts) <= Len(events)
          /\ \A k \in DOMAIN local[t].evts : local[t].evts[k] = events[k]
      BY <1>1, <3>1 DEF ListInv, Undisturbed
    <3>3. events \in Seq(Request) /\ local[t].evts \in Seq(Request \cup {Nil})
      BY LocalFields DEF ListInv, QueueTypes
    <3>4. PICK k \in 1 .. Len(local[t].evts) : local[t].evts[k] = Nil
      BY <1>2, <3>3, ToSetFacts
    <3>5. k \in 1 .. Len(events) /\ k \in DOMAIN local[t].evts
      BY <3>2, <3>3, <3>4
    <3>6. events[k] \in Request
      BY <3>3, <3>5
    <3> QED
      BY <3>2, <3>4, <3>5, <3>6, CsiAssumption
  <2> QED
    BY <1>1, <2>1, <2>2, Corrupted
<1>3. CASE Nil \notin ToSet(local[t].evts)
  <2>1. UNCHANGED <<wild, slips>>
    BY <1>3 DEF DequeueWake
  <2> QED
    BY <1>1, <2>1, StoreKept
<1> QED
  BY <1>2, <1>3

\* The item that is taken off the list is on it unless another dequeue took it.
LEMMA DequeueDeleteWildStore ==
  ASSUME ListInv, StoreInv, NEW t \in Thread, DequeueDeleteWild(t)
  PROVE  StoreInv'
<1>1. /\ wild = {} /\ pc[t] = "delete" /\ Corrupts(t, "list") /\ UNCHANGED <<objects, heap>>
      /\ local[t].req = Nil \/ local[t].req \notin ToSet(events)
  BY DEF DequeueDeleteWild, Goto
<1>2. local[t].raced
  <2> SUFFICES ASSUME ~local[t].raced PROVE FALSE
    OBVIOUS
  <2>1. t \in Dequeuing
    BY <1>1 DEF Dequeuing
  <2>2. local[t].req \in ToSet(events)
    BY <1>1, <2>1 DEF ListInv, Undisturbed
  <2>3. ToSet(events) \subseteq Request
    BY ToSetFacts DEF ListInv, QueueTypes
  <2> QED
    BY <1>1, <2>2, <2>3, CsiAssumption
<1> QED
  BY <1>1, <1>2, Corrupted

\* The request gets its status.
LEMMA DequeueDeleteStore ==
  ASSUME ListInv, StoreInv, NEW t \in Thread, DequeueDelete(t)
  PROVE  StoreInv'
<1>1. PICK r \in Request : r = local[t].req /\ r \in ToSet(events)
  <2>1. ToSet(events) \subseteq Request
    BY ToSetFacts DEF ListInv, QueueTypes
  <2> QED
    BY <2>1 DEF DequeueDelete
<1>2. /\ wild = {} /\ fifo' = fifo /\ UNCHANGED <<objects, heap, slips, wild>>
      /\ \E x \in {"done", "fail"} : status' = [status EXCEPT ![r] = x]
  BY <1>1 DEF DequeueDelete
<1>3. status[r] = "running" /\ status \in [Request -> Status]
  BY <1>1 DEF ListInv, Listed, QueueTypes
<1>4. \A q \in Request : status'[q] = "none" <=> status[q] = "none"
  BY <1>2, <1>3
<1> QED
  BY <1>2, <1>4, StoreKept

\* csi_dsp_request_enqueue: the command takes a reference to the group.
LEMMA EnqueueCommandStore ==
  ASSUME ListInv, StoreInv, NEW t \in Thread, NEW r \in Request, EnqueueCommand(t, r)
  PROVE  StoreInv'
<1>1. /\ wild = {} /\ status[r] \notin {"none", "running"}
      /\ fifo' = Append(fifo, r) /\ status' = [status EXCEPT ![r] = "running"]
      /\ heap' = RetainGroup(heap, r)
      /\ wild' = IF heap'.bad THEN wild \cup {"buffer"} ELSE wild
      /\ slips' = slips /\ UNCHANGED objects
  BY DEF EnqueueCommand, Owned, SetHeap
<1>2. /\ size' = size /\ instance' = instance /\ task' = task /\ planes' = planes
      /\ tbufs' = tbufs /\ sett' = sett /\ lost' = lost
  BY <1>1 DEF objects, content
<1>3. Sound /\ HeapTypes /\ HeapOK(heap) /\ heap.gref \in [Group -> Nat] /\ ~heap.bad
  BY <1>1, HeapFields DEF StoreInv, HeapTypes, HeapOK, Sound
<1>4. r \in Group
  BY CsiAssumption
<1>5. PICK k : k = heap'
  OBVIOUS
<1>6. /\ HeapOK(k) /\ Spare(k) = Spare(heap) /\ k.ref = heap.ref /\ k.maps = heap.maps
      /\ k.gref = [heap.gref EXCEPT ![r] = heap.gref[r] + 1]
      /\ k.grp = heap.grp /\ k.dev = heap.dev /\ k.bad = heap.bad
  <2>1. k = RetainGroup(heap, r) /\ HeapOK(heap)
    BY <1>1, <1>3, <1>5
  <2> QED
    BY <1>4, <2>1, GroupRetained
<1>7. wild' = {}
  BY <1>1, <1>3, <1>5, <1>6
<1>8. fifo \in Seq(Request) /\ r \notin ToSet(fifo) /\ status \in [Request -> Status]
      /\ ToSet(fifo') = ToSet(fifo) \cup {r}
  <2>1. fifo \in Seq(Request) /\ status \in [Request -> Status]
    BY DEF ListInv, QueueTypes
  <2>2. r \notin ToSet(fifo)
    BY <1>1, <2>1 DEF ListInv, Commands
  <2> QED
    BY <1>1, <2>1, <2>2, ToSetAppend
<1>9. Groups'
  <2>1. k.gref[CallGroup] = heap.gref[CallGroup] /\ k.gref[TaskGroup] = heap.gref[TaskGroup]
        /\ CallGroup \in Group /\ TaskGroup \in Group
    BY <1>3, <1>6, CsiAssumption
  <2>2. \A q \in Request : k.gref[q] = One(status'[q] # "none") + One(q \in ToSet(fifo'))
    <3> SUFFICES ASSUME NEW q \in Request
                 PROVE  k.gref[q] = One(status'[q] # "none") + One(q \in ToSet(fifo'))
      OBVIOUS
    <3>1. q \in Group /\ heap.gref[q] = One(status[q] # "none") + One(q \in ToSet(fifo))
      BY <1>3, CsiAssumption DEF Sound, Groups
    <3>2. CASE q = r
      <4>1. k.gref[q] = heap.gref[q] + 1
        BY <1>3, <1>6, <3>1, <3>2
      <4>2. /\ status'[q] = "running" /\ status[q] # "none"
            /\ q \in ToSet(fifo') /\ q \notin ToSet(fifo)
        BY <1>1, <1>8, <3>2
      <4> QED
        BY <3>1, <4>1, <4>2 DEF One
    <3>3. CASE q # r
      <4>1. k.gref[q] = heap.gref[q]
        BY <1>3, <1>6, <3>1, <3>3
      <4>2. status'[q] = status[q] /\ (q \in ToSet(fifo') <=> q \in ToSet(fifo))
        BY <1>1, <1>8, <3>3
      <4> QED
        BY <3>1, <4>1, <4>2
    <3> QED
      BY <3>2, <3>3
  <2>3. \A g \in Group : k.gref[g] = 0 => k.grp[g] = <<>>
    <3> SUFFICES ASSUME NEW g \in Group, k.gref[g] = 0 PROVE k.grp[g] = <<>>
      OBVIOUS
    <3>1. heap.gref[g] = 0
      BY <1>3, <1>6
    <3> QED
      BY <1>3, <1>6, <3>1 DEF Sound, Groups
  <2>4. \A q \in Request : status'[q] = "none" => status[q] = "none"
    BY <1>1, <1>8
  <2> QED
    BY <1>2, <1>3, <1>5, <2>1, <2>2, <2>3, <2>4 DEF Sound, Groups
<1>10. Store(k, Bufs, sett, lost)
  BY <1>3, <1>6, StoreSame DEF Sound
<1>11. Bufs' = Bufs
  BY <1>2 DEF Bufs
<1>12. LiveIn(k) = LiveIn(heap)
  BY <1>6 DEF LiveIn
<1> QED
  BY <1>1, <1>2, <1>3, <1>5, <1>6, <1>7, <1>9, <1>10, <1>11, <1>12, Steady DEF Sound, HeapTypes

\* The queue thread drops the reference of the command.
LEMMA ProcessStore ==
  ASSUME ListInv, StoreInv, Process
  PROVE  StoreInv'
<1>1. /\ wild = {} /\ fifo # <<>> /\ fifo' = Tail(fifo) /\ status' = status
      /\ heap' = ReleaseGroup(heap, Head(fifo))
      /\ wild' = IF heap'.bad THEN wild \cup {"buffer"} ELSE wild
      /\ slips' = slips /\ UNCHANGED objects
  BY DEF Process, SetHeap
<1>2. /\ size' = size /\ instance' = instance /\ task' = task /\ planes' = planes
      /\ tbufs' = tbufs /\ sett' = sett /\ lost' = lost
  BY <1>1 DEF objects, content
<1>3. Sound /\ HeapTypes /\ HeapOK(heap) /\ heap.gref \in [Group -> Nat] /\ ~heap.bad
  BY <1>1, HeapFields DEF StoreInv, HeapTypes, HeapOK, Sound
<1>4. PICK r : r = Head(fifo)
  OBVIOUS
<1>5. /\ fifo \in Seq(Request) /\ r \in Request /\ r \in ToSet(fifo)
      /\ ToSet(fifo') = ToSet(fifo) \ {r}
  <2>1. fifo \in Seq(Request) /\ IsInjective(fifo)
    BY DEF ListInv, QueueTypes, Commands
  <2> QED
    BY <1>1, <1>4, <2>1, TailFacts
<1>6. status[r] # "none" /\ r \in Group
  <2>1. result[r] = "pending" /\ (result[r] = "none" <=> status[r] # "running")
    BY <1>5 DEF ListInv, Commands
  <2> QED
    BY <1>5, <2>1, CsiAssumption
<1>7. heap.gref[r] = 2
  <2>1. heap.gref[r] = One(status[r] # "none") + One(r \in ToSet(fifo))
    BY <1>3, <1>5 DEF Sound, Groups
  <2> QED
    BY <1>5, <1>6, <2>1 DEF One
<1>8. PICK k : k = heap'
  OBVIOUS
<1>9. /\ HeapOK(k) /\ Spare(k) = Spare(heap) /\ k.ref = heap.ref /\ k.maps = heap.maps
      /\ k.gref = [heap.gref EXCEPT ![r] = heap.gref[r] - 1]
      /\ k.grp = heap.grp /\ k.dev = heap.dev /\ k.bad = heap.bad
  <2>1. heap.gref[r] >= 2 /\ k = ReleaseGroup(heap, r)
    BY <1>1, <1>4, <1>7, <1>8
  <2> QED
    BY <1>3, <1>6, <2>1, GroupKept
<1>10. wild' = {}
  BY <1>1, <1>3, <1>8, <1>9
<1>11. Groups'
  <2>1. k.gref[CallGroup] = heap.gref[CallGroup] /\ k.gref[TaskGroup] = heap.gref[TaskGroup]
        /\ CallGroup \in Group /\ TaskGroup \in Group
    BY <1>3, <1>5, <1>9, CsiAssumption
  <2>2. \A q \in Request : k.gref[q] = One(status'[q] # "none") + One(q \in ToSet(fifo'))
    <3> SUFFICES ASSUME NEW q \in Request
                 PROVE  k.gref[q] = One(status'[q] # "none") + One(q \in ToSet(fifo'))
      OBVIOUS
    <3>1. q \in Group /\ heap.gref[q] = One(status[q] # "none") + One(q \in ToSet(fifo))
      BY <1>3, CsiAssumption DEF Sound, Groups
    <3>2. CASE q = r
      <4>1. k.gref[q] = 1
        BY <1>3, <1>7, <1>9, <3>1, <3>2
      <4>2. status'[q] # "none" /\ q \notin ToSet(fifo')
        BY <1>1, <1>5, <1>6, <3>2
      <4> QED
        BY <4>1, <4>2 DEF One
    <3>3. CASE q # r
      <4>1. k.gref[q] = heap.gref[q]
        BY <1>3, <1>9, <3>1, <3>3
      <4>2. status'[q] = status[q] /\ (q \in ToSet(fifo') <=> q \in ToSet(fifo))
        BY <1>1, <1>5, <3>3
      <4> QED
        BY <3>1, <4>1, <4>2
    <3> QED
      BY <3>2, <3>3
  <2>3. \A g \in Group : k.gref[g] = 0 => k.grp[g] = <<>>
    <3> SUFFICES ASSUME NEW g \in Group, k.gref[g] = 0 PROVE k.grp[g] = <<>>
      OBVIOUS
    <3>1. heap.gref[g] = 0
      BY <1>3, <1>6, <1>7, <1>9
    <3> QED
      BY <1>3, <1>9, <3>1 DEF Sound, Groups
  <2> QED
    BY <1>1, <1>2, <1>3, <1>8, <2>1, <2>2, <2>3 DEF Sound, Groups
<1>12. Store(k, Bufs, sett, lost)
  BY <1>3, <1>9, StoreSame DEF Sound
<1>13. Bufs' = Bufs
  BY <1>2 DEF Bufs
<1>14. LiveIn(k) = LiveIn(heap)
  BY <1>9 DEF LiveIn
<1> QED
  BY <1>1, <1>2, <1>3, <1>8, <1>9, <1>10, <1>11, <1>12, <1>13, <1>14, Steady
     DEF Sound, HeapTypes

(***************************************************************************)
(* Memory and the steps of the instance and its task.                      *)
(***************************************************************************)

\* The number of references of each group that is there.
LEMMA GroupsKept ==
  ASSUME Groups, heap'.gref = heap.gref, status' = status, fifo' = fifo,
         task' # "none" <=> task # "none", task' # "none" => instance',
         task' = "none" => tbufs' = <<>>,
         \A r \in Request : status[r] = "none" => planes'[r] = <<>> /\ sett'[r] = NoSett,
         \A g \in Group : heap.gref[g] = 0 => heap'.grp[g] = heap.grp[g]
  PROVE  Groups'
  BY DEF Groups, One

\* What a step starts from.
LEMMA Before ==
  ASSUME StoreInv, wild = {}
  PROVE  /\ Sound /\ HeapTypes /\ Groups /\ Store(heap, Bufs, sett, lost)
         /\ HeapOK(heap) /\ heap.gref \in [Group -> Nat] /\ heap.grp \in [Group -> Seq(Buffer)]
         /\ heap.ref \in [Buffer -> Nat] /\ heap.maps \in [Buffer -> Nat]
         /\ ~heap.bad /\ slips = {} /\ LiveIn(heap) \subseteq size.memory
         /\ Spare(heap) = 2 * One(instance) + One(task # "none")
         /\ instance \in BOOLEAN /\ task \in {"none", "new", "ready"}
         /\ tbufs \in Seq(Seq(Nat)) /\ planes \in [Request -> Seq(Seq(Nat))]
         /\ sett \in [Request -> SettRec] /\ lost \in [Buffer -> Nat]
         /\ size.memory \subseteq Buffer
         /\ TaskGroup \in Group /\ CallGroup \in Group /\ TaskGroup # CallGroup
         /\ Request \subseteq Group /\ TaskGroup \notin Request /\ CallGroup \notin Request
<1>1. Sound /\ HeapTypes
  BY DEF StoreInv
<1>2. HeapOK(heap) /\ heap.gref \in [Group -> Nat] /\ heap.grp \in [Group -> Seq(Buffer)]
      /\ heap.ref \in [Buffer -> Nat]
  BY <1>1, HeapFields DEF HeapTypes, HeapOK
<1>3. /\ TaskGroup \in Group /\ CallGroup \in Group /\ TaskGroup # CallGroup
      /\ Request \subseteq Group /\ TaskGroup \notin Request /\ CallGroup \notin Request
  BY CsiAssumption
<1>4. size.memory \subseteq Buffer
  BY <1>1, CsiAssumption DEF HeapTypes
<1> QED
  BY <1>1, <1>2, <1>3, <1>4 DEF Sound, HeapTypes

\* csi_dsp_create_instance
LEMMA CreateInstanceStore ==
  ASSUME StoreInv, CreateInstance
  PROVE  StoreInv'
<1>1. /\ ~instance /\ instance' = TRUE
      /\ heap' = RetainDevice(RetainDevice(heap))
      /\ wild' = IF heap'.bad THEN wild \cup {"buffer"} ELSE wild
      /\ size' = size /\ task' = task /\ status' = status /\ planes' = planes
      /\ tbufs' = tbufs /\ sett' = sett /\ fifo' = fifo /\ lost' = lost /\ slips' = slips
  BY DEF CreateInstance, SetHeap, content, queue
<1>2. PICK c : c = RetainDevice(heap)
  OBVIOUS
<1>3. PICK k : k = heap'
  OBVIOUS
<1>4. HeapOK(heap) /\ HeapTypes
  BY DEF StoreInv, HeapTypes
<1>5. /\ HeapOK(c) /\ Spare(c) = Spare(heap) + 1 /\ LiveIn(c) = LiveIn(heap)
      /\ c.ref = heap.ref /\ c.maps = heap.maps /\ c.gref = heap.gref
      /\ c.grp = heap.grp /\ c.bad = heap.bad
  BY <1>2, <1>4, DeviceOK
<1>6. /\ HeapOK(k) /\ Spare(k) = Spare(c) + 1 /\ LiveIn(k) = LiveIn(c)
      /\ k.ref = c.ref /\ k.maps = c.maps /\ k.gref = c.gref
      /\ k.grp = c.grp /\ k.bad = c.bad
  <2>1. k = RetainDevice(c)
    BY <1>1, <1>2, <1>3
  <2> QED
    BY <1>5, <2>1, DeviceOK
<1>7. wild' = wild
  <2>1. k.bad => "buffer" \in wild
    BY <1>5, <1>6 DEF StoreInv
  <2> QED
    BY <1>1, <1>3, <2>1
<1>8. CASE wild = {}
  <2>1. /\ Sound /\ Groups /\ Store(heap, Bufs, sett, lost) /\ ~heap.bad
        /\ Spare(heap) = 2 * One(instance) + One(task # "none")
        /\ LiveIn(heap) \subseteq size.memory /\ task \in {"none", "new", "ready"}
        /\ tbufs \in Seq(Seq(Nat)) /\ planes \in [Request -> Seq(Seq(Nat))]
    BY <1>8, Before
  <2>2. task = "none"
    BY <1>1, <2>1 DEF Groups
  <2>3. Groups'
    BY <1>1, <1>3, <1>5, <1>6, <2>1, <2>2, GroupsKept DEF Groups
  <2>4. Store(k, Bufs, sett, lost)
    <3>1. k.ref = heap.ref /\ k.maps = heap.maps /\ k.grp = heap.grp
      BY <1>5, <1>6
    <3> QED
      BY <1>6, <2>1, <3>1, StoreSame
  <2>5. Bufs' = Bufs
    BY <1>1 DEF Bufs
  <2>6. Spare(k) = 2 * One(instance') + One(task' # "none")
    BY <1>1, <1>5, <1>6, <2>1, <2>2 DEF One
  <2>7. ~k.bad /\ LiveIn(k) \subseteq size.memory
    BY <1>5, <1>6, <2>1
  <2> QED
    BY <1>1, <1>3, <1>7, <1>8, <2>1, <2>2, <2>3, <2>4, <2>5, <2>6, <2>7, Steady
<1>9. CASE wild # {}
  <2>1. HeapTypes'
    BY <1>1, <1>3, <1>4, <1>5, <1>6, <1>7 DEF HeapTypes
  <2>2. heap'.bad => "buffer" \in wild'
    BY <1>3, <1>5, <1>6, <1>7 DEF StoreInv
  <2> QED
    BY <1>1, <1>7, <1>9, <2>1, <2>2 DEF StoreInv, MemorySafe
<1> QED
  BY <1>8, <1>9

\* csi_dsp_delete_instance
LEMMA DeleteInstanceStore ==
  ASSUME StoreInv, DeleteInstance
  PROVE  StoreInv'
<1>1. /\ instance /\ instance' = FALSE /\ task = "none" /\ wild = {}
      /\ heap' = ReleaseDevice(ReleaseDevice(heap))
      /\ wild' = IF heap'.bad THEN wild \cup {"buffer"} ELSE wild
      /\ size' = size /\ task' = task /\ status' = status /\ planes' = planes
      /\ tbufs' = tbufs /\ sett' = sett /\ fifo' = fifo /\ lost' = lost /\ slips' = slips
  BY DEF DeleteInstance, SetHeap, content, queue
<1>2. PICK c : c = ReleaseDevice(heap)
  OBVIOUS
<1>3. PICK k : k = heap'
  OBVIOUS
<1>4. /\ Sound /\ Groups /\ Store(heap, Bufs, sett, lost) /\ ~heap.bad /\ HeapOK(heap)
      /\ Spare(heap) = 2 * One(instance) + One(task # "none")
      /\ LiveIn(heap) \subseteq size.memory
      /\ tbufs \in Seq(Seq(Nat)) /\ planes \in [Request -> Seq(Seq(Nat))]
  BY <1>1, Before
<1>5. Spare(heap) = 2
  BY <1>1, <1>4 DEF One
<1>6. /\ HeapOK(c) /\ Spare(c) = Spare(heap) - 1 /\ LiveIn(c) = LiveIn(heap)
      /\ c.ref = heap.ref /\ c.maps = heap.maps /\ c.gref = heap.gref
      /\ c.grp = heap.grp /\ c.bad = heap.bad
  <2>1. Spare(heap) >= 1
    BY <1>5
  <2> QED
    BY <1>2, <1>4, <2>1, DeviceOK
<1>7. /\ HeapOK(k) /\ Spare(k) = Spare(c) - 1 /\ LiveIn(k) = LiveIn(c)
      /\ k.ref = c.ref /\ k.maps = c.maps /\ k.gref = c.gref
      /\ k.grp = c.grp /\ k.bad = c.bad
  <2>1. k = ReleaseDevice(c) /\ Spare(c) >= 1
    BY <1>1, <1>2, <1>3, <1>5, <1>6
  <2> QED
    BY <1>6, <2>1, DeviceOK
<1>8. ~k.bad /\ LiveIn(k) \subseteq size.memory /\ wild' = {}
  BY <1>1, <1>3, <1>4, <1>6, <1>7
<1>9. Groups'
  BY <1>1, <1>3, <1>4, <1>6, <1>7, GroupsKept DEF Groups
<1>10. Store(k, Bufs, sett, lost)
  <2>1. k.ref = heap.ref /\ k.maps = heap.maps /\ k.grp = heap.grp
    BY <1>6, <1>7
  <2> QED
    BY <1>4, <1>7, <2>1, StoreSame
<1>11. Bufs' = Bufs
  BY <1>1 DEF Bufs
<1>12. Spare(k) = 2 * One(instance') + One(task' # "none")
  BY <1>1, <1>5, <1>6, <1>7 DEF One
<1> QED
  BY <1>1, <1>3, <1>4, <1>8, <1>9, <1>10, <1>11, <1>12, Steady

\* csi_dsp_task_load_algo
LEMMA LoadAlgoStore ==
  ASSUME StoreInv, LoadAlgo
  PROVE  StoreInv'
<1>1. /\ task # "none" /\ wild = {} /\ task' = "ready" /\ wild' = wild /\ heap' = heap
      /\ size' = size /\ instance' = instance /\ status' = status /\ planes' = planes
      /\ tbufs' = tbufs /\ sett' = sett /\ fifo' = fifo /\ lost' = lost /\ slips' = slips
  BY DEF LoadAlgo, content, queue
<1>2. /\ Sound /\ Groups /\ Store(heap, Bufs, sett, lost) /\ ~heap.bad /\ HeapOK(heap)
      /\ Spare(heap) = 2 * One(instance) + One(task # "none")
      /\ LiveIn(heap) \subseteq size.memory /\ instance \in BOOLEAN
      /\ tbufs \in Seq(Seq(Nat)) /\ planes \in [Request -> Seq(Seq(Nat))]
  BY <1>1, Before
<1>3. Groups'
  BY <1>1, <1>2 DEF Groups, One
<1>4. Bufs' = Bufs
  BY <1>1 DEF Bufs
<1>5. Spare(heap) = 2 * One(instance') + One(task' # "none")
  BY <1>1, <1>2 DEF One
<1> QED
  BY <1>1, <1>2, <1>3, <1>4, <1>5, Steady

\* csi_dsp_create_task
LEMMA CreateTaskStore ==
  ASSUME StoreInv, CreateTask
  PROVE  StoreInv'
<1>1. /\ instance /\ task = "none" /\ task' = "new" /\ wild = {}
      /\ heap' = CreateGroup(RetainDevice(heap), TaskGroup)
      /\ wild' = IF heap'.bad THEN wild \cup {"buffer"} ELSE wild
      /\ size' = size /\ instance' = instance /\ status' = status /\ planes' = planes
      /\ tbufs' = tbufs /\ sett' = sett /\ fifo' = fifo /\ lost' = lost /\ slips' = slips
  BY DEF CreateTask, SetHeap, content, queue
<1>2. PICK c : c = RetainDevice(heap)
  OBVIOUS
<1>3. PICK k : k = heap'
  OBVIOUS
<1>4. /\ Sound /\ Groups /\ Store(heap, Bufs, sett, lost) /\ ~heap.bad /\ HeapOK(heap)
      /\ Spare(heap) = 2 * One(instance) + One(task # "none")
      /\ LiveIn(heap) \subseteq size.memory
      /\ tbufs \in Seq(Seq(Nat)) /\ planes \in [Request -> Seq(Seq(Nat))]
      /\ heap.gref \in [Group -> Nat] /\ heap.grp \in [Group -> Seq(Buffer)]
      /\ TaskGroup \in Group /\ CallGroup \in Group /\ TaskGroup # CallGroup
      /\ Request \subseteq Group /\ TaskGroup \notin Request /\ CallGroup \notin Request
  BY <1>1, Before
<1>5. /\ HeapOK(c) /\ Spare(c) = Spare(heap) + 1 /\ LiveIn(c) = LiveIn(heap)
      /\ c.ref = heap.ref /\ c.maps = heap.maps /\ c.gref = heap.gref
      /\ c.grp = heap.grp /\ c.bad = heap.bad
  BY <1>2, <1>4, DeviceOK
<1>6. PICK x \in Nat, e \in Seq(Buffer) :
        x = 1 /\ e = <<>> /\ CreateGroup(c, TaskGroup) = Regroup(c, TaskGroup, x, e)
  BY GroupCreated
<1>7. /\ HeapOK(k) /\ Spare(k) = Spare(c) /\ k.ref = c.ref /\ k.maps = c.maps
      /\ k.gref = [c.gref EXCEPT ![TaskGroup] = x] /\ k.grp = [c.grp EXCEPT ![TaskGroup] = e]
      /\ k.dev = c.dev /\ k.bad = c.bad
  <2>1. k = Regroup(c, TaskGroup, x, e)
    BY <1>1, <1>2, <1>3, <1>6
  <2>2. x \in Nat /\ e \in Seq(Buffer) /\ TaskGroup \in Group /\ HeapOK(c)
    BY <1>4, <1>5, <1>6
  <2> QED
    BY <2>1, <2>2, GroupsOK
<1>8. k.grp = heap.grp
  <2>1. heap.grp[TaskGroup] = e
    BY <1>1, <1>4, <1>6 DEF Groups, One
  <2> QED
    BY <1>4, <1>5, <1>7, <2>1
<1>9. LiveIn(k) = LiveIn(heap)
  BY <1>5, <1>7 DEF LiveIn
<1>10. ~k.bad /\ wild' = {}
  BY <1>1, <1>3, <1>4, <1>5, <1>7
<1>11. Groups'
  <2>1. k.gref[TaskGroup] = 1 /\ \A g \in Group : g # TaskGroup => k.gref[g] = heap.gref[g]
    BY <1>4, <1>5, <1>6, <1>7
  <2>2. \A r \in Request : k.gref[r] = heap.gref[r]
    BY <1>4, <2>1
  <2>3. k.gref[CallGroup] = 0 /\ One(task' # "none") = 1
    BY <1>1, <1>4, <2>1 DEF Groups, One
  <2>4. \A g \in Group : k.gref[g] = 0 => k.grp[g] = <<>>
    BY <1>4, <1>8, <2>1 DEF Groups
  <2> QED
    BY <1>1, <1>3, <1>4, <2>1, <2>2, <2>3, <2>4 DEF Groups
<1>12. Store(k, Bufs, sett, lost)
  <2>1. k.ref = heap.ref /\ k.maps = heap.maps
    BY <1>5, <1>7
  <2> QED
    BY <1>4, <1>7, <1>8, <2>1, StoreSame
<1>13. Bufs' = Bufs
  BY <1>1 DEF Bufs
<1>14. Spare(k) = 2 * One(instance') + One(task' # "none")
  BY <1>1, <1>4, <1>5, <1>7 DEF One
<1> QED
  BY <1>1, <1>3, <1>4, <1>9, <1>10, <1>11, <1>12, <1>13, <1>14, Steady

(***************************************************************************)
(* Memory and the buffers of the task and of requests.                     *)
(***************************************************************************)

\* New planes are put into a group; if the next one fails they are given back.
LEMMA PlanesAdded ==
  ASSUME StoreInv, wild = {}, NEW q \in Group, heap.gref[q] # 0,
         NEW n \in 0 .. MaxPlanes, NEW us \in Fresh(n), NEW is, is = NextIndices(q, n)
  PROVE  /\ us \in Seq(Buffer) /\ IsInjective(us) /\ Unused(heap, us) /\ Len(us) <= MaxPlanes
         /\ Len(us) = n /\ ToSet(us) \subseteq size.memory
         /\ is = NextOf(heap.grp[q], us) /\ is \in Seq(Nat)
         /\ Gave(heap, AddPlanes(q, us), us, q, 3, 1)
<1>1. HeapTypes /\ HeapOK(heap) /\ heap.grp \in [Group -> Seq(Buffer)]
  BY Before
<1>2. n \in Nat /\ n <= MaxPlanes
  BY CsiAssumption
<1>3. /\ us \in Seq(Buffer) /\ Len(us) = n /\ IsInjective(us) /\ Unused(heap, us)
      /\ ToSet(us) \subseteq size.memory
  BY <1>1, <1>2, FreshFacts
<1>4. is = NextOf(heap.grp[q], us)
  BY <1>3 DEF NextIndices, NextOf
<1>5. is \in Seq(Nat)
  <2>1. Len(heap.grp[q]) \in Nat
    BY <1>1
  <2> QED
    BY <1>2, <2>1, NextPlaces DEF NextIndices
<1>6. Gave(heap, AddPlanes(q, us), us, q, 3, 1)
  BY <1>1, <1>3, AddPlanesGave DEF Unused
<1> QED
  BY <1>2, <1>3, <1>4, <1>5, <1>6

\* What else a step with new members of a group leaves as it should be.
LEMMA GaveRest ==
  ASSUME StoreInv, wild = {}, NEW q \in Group, heap.gref[q] # 0,
         NEW us \in Seq(Buffer), ToSet(us) \subseteq size.memory,
         NEW a \in Nat, NEW b, NEW k, Gave(heap, k, us, q, a, b)
  PROVE  /\ HeapOK(k) /\ Spare(k) = Spare(heap) /\ k.gref = heap.gref /\ ~k.bad
         /\ \A g \in Group : heap.gref[g] = 0 => k.grp[g] = heap.grp[g]
         /\ LiveIn(k) \subseteq size.memory
<1>1. /\ HeapOK(heap) /\ heap.ref \in [Buffer -> Nat] /\ heap.grp \in [Group -> Seq(Buffer)]
      /\ LiveIn(heap) \subseteq size.memory /\ ~heap.bad
  BY Before
<1>2. /\ HeapOK(k) /\ Spare(k) = Spare(heap) /\ k.gref = heap.gref /\ k.bad = heap.bad
      /\ k.grp = [heap.grp EXCEPT ![q] = heap.grp[q] \o us]
      /\ k.ref = [u \in Buffer |-> IF u \in ToSet(us) THEN a ELSE heap.ref[u]]
  BY DEF Gave
<1>3. LiveIn(k) \subseteq LiveIn(heap) \cup ToSet(us)
  BY <1>2 DEF LiveIn
<1>4. \A g \in Group : heap.gref[g] = 0 => k.grp[g] = heap.grp[g]
  BY <1>1, <1>2
<1> QED
  BY <1>1, <1>2, <1>3, <1>4

\* The planes are given back and stay members of the group.
LEMMA PlanesRefused ==
  ASSUME StoreInv, wild = {}, NEW q \in Group, heap.gref[q] # 0,
         NEW n \in 0 .. MaxPlanes, NEW us \in Fresh(n), NEW is, is = NextIndices(q, n),
         NEW k, k = DropPlanes(AddPlanes(q, us), q, is)
  PROVE  Gave(heap, k, us, q, 1, 0)
<1>1. /\ us \in Seq(Buffer) /\ IsInjective(us) /\ Unused(heap, us) /\ Len(us) <= MaxPlanes
      /\ is = NextOf(heap.grp[q], us) /\ is \in Seq(Nat)
  BY PlanesAdded
<1>2. PICK c : c = AddPlanes(q, us)
  OBVIOUS
<1>3. Gave(heap, c, us, q, 3, 1)
  BY <1>2, PlanesAdded
<1>4. /\ HeapOK(heap) /\ heap.grp \in [Group -> Seq(Buffer)] /\ heap.ref \in [Buffer -> Nat]
      /\ heap.maps \in [Buffer -> Nat] /\ Store(heap, Bufs, sett, lost)
  BY Before
<1>5. /\ HeapOK(c) /\ Spare(c) = Spare(heap) /\ c.gref = heap.gref /\ c.bad = heap.bad
      /\ c.grp = [heap.grp EXCEPT ![q] = heap.grp[q] \o us]
      /\ c.ref = [u \in Buffer |-> IF u \in ToSet(us) THEN 3 ELSE heap.ref[u]]
      /\ c.maps = [u \in Buffer |-> IF u \in ToSet(us) THEN heap.maps[u] + 1 ELSE heap.maps[u]]
  BY <1>3 DEF Gave
<1>6. PICK s \in Seq(Buffer) : s = heap.grp[q]
  BY <1>4
<1>7. c.grp[q] = s \o us
  BY <1>4, <1>5, <1>6
<1>8. /\ Within(is, s \o us) /\ Named(s \o us, is) = ToSet(us) /\ Len(is) = Len(us)
      /\ \A j \in 1 .. Len(is) : (s \o us)[is[j]] = us[j]
  <2>1. PICK e \in Seq(Arrays) : Inside(s, e)
    <3>1. PICK e \in Seq(Arrays) : e = <<>>
      BY EmptyOf
    <3>2. Inside(s, e)
      BY <3>1, PlanesOfNone
    <3> QED
      BY <3>1, <3>2
  <2>2. /\ s \in Seq(Buffer) /\ us \in Seq(Buffer) /\ e \in Seq(Arrays)
        /\ Inside(s, e) /\ Len(us) <= MaxPlanes /\ is = NextOf(s, us)
    BY <1>1, <1>6, <2>1
  <2>3. Within(is, s \o us)
    BY <2>2, PlanesAppended
  <2>4. Named(s \o us, is) = ToSet(us)
    BY <2>2, PlanesAppended
  <2>5. Len(is) = Len(us)
    BY <2>2, PlanesAppended
  <2>6. \A j \in 1 .. Len(is) : (s \o us)[is[j]] = us[j]
    <3>1. PICK w : w = s \o us
      OBVIOUS
    <3>2. \A j \in 1 .. Len(us) : w[Len(s) + j] = us[j]
      BY <2>2, <3>1, ConcatFacts
    <3>3. \A j \in 1 .. Len(us) : is[j] = Len(s) + j
      BY <2>2 DEF NextOf
    <3> QED
      BY <2>5, <3>1, <3>2, <3>3
  <2> QED
    BY <2>3, <2>4, <2>5, <2>6
<1>9. Took(c, k, Named(c.grp[q], is), 2, 1)
  <2>1. Within(is, c.grp[q])
    BY <1>7, <1>8
  <2>2. \A j \in 1 .. Len(is) : c.grp[q][is[j]] = us[j] /\ us[j] \in ToSet(us) /\ us[j] \in Buffer
    <3>1. \A j \in 1 .. Len(us) : us[j] \in ToSet(us) /\ us[j] \in Buffer
      BY <1>1, ToSetFacts
    <3> QED
      BY <1>7, <1>8, <3>1
  <2>3. \A j, m \in 1 .. Len(is) : c.grp[q][is[j]] = c.grp[q][is[m]] => j = m
    <3> SUFFICES ASSUME NEW j \in 1 .. Len(is), NEW m \in 1 .. Len(is),
                        c.grp[q][is[j]] = c.grp[q][is[m]]
                 PROVE  j = m
      OBVIOUS
    <3>1. us[j] = us[m]
      BY <2>2
    <3>2. j \in DOMAIN us /\ m \in DOMAIN us
      BY <1>1, <1>8
    <3> QED
      BY <1>1, <3>1, <3>2 DEF IsInjective
  <2>4. \A j \in 1 .. Len(is) : c.ref[c.grp[q][is[j]]] >= 2
    <3>1. \A u \in ToSet(us) : u \in Buffer => c.ref[u] = 3
      BY <1>5
    <3> SUFFICES ASSUME NEW j \in 1 .. Len(is) PROVE c.ref[c.grp[q][is[j]]] >= 2
      OBVIOUS
    <3>2. PICK u : u = c.grp[q][is[j]]
      OBVIOUS
    <3>3. c.ref[u] = 3
      BY <2>2, <3>1, <3>2
    <3> QED
      BY <3>2, <3>3
  <2>5. k = DropPlanes(c, q, is)
    BY <1>2
  <2>6. Took(c, DropPlanes(c, q, is), Named(c.grp[q], is), 2, 1)
    BY <1>1, <1>5, <2>1, <2>3, <2>4, PlanesTook
  <2> QED
    BY <2>5, <2>6
<1>10. Took(c, k, ToSet(us), 2, 1)
  BY <1>7, <1>8, <1>9
<1>11. /\ HeapOK(k) /\ Spare(k) = Spare(c)
       /\ k.gref = c.gref /\ k.grp = c.grp /\ k.bad = c.bad
       /\ k.ref = [u \in Buffer |-> IF u \in ToSet(us) THEN c.ref[u] - 2 ELSE c.ref[u]]
       /\ k.maps = [u \in Buffer |-> IF u \in ToSet(us) THEN c.maps[u] - 1 ELSE c.maps[u]]
  BY <1>10 DEF Took
<1>12. k.ref = [u \in Buffer |-> IF u \in ToSet(us) THEN 1 ELSE heap.ref[u]]
  BY <1>5, <1>11
<1>13. k.maps = [u \in Buffer |-> IF u \in ToSet(us) THEN heap.maps[u] + 0 ELSE heap.maps[u]]
  <2>1. \A u \in Buffer : heap.maps[u] \in Nat
    BY <1>4
  <2>2. \A u \in Buffer : (IF u \in ToSet(us) THEN c.maps[u] - 1 ELSE c.maps[u])
                          = (IF u \in ToSet(us) THEN heap.maps[u] + 0 ELSE heap.maps[u])
    BY <1>5, <2>1
  <2> QED
    BY <1>11, <2>2
<1> QED
  BY <1>5, <1>11, <1>12, <1>13 DEF Gave

\* csi_dsp_task_create_buffer
LEMMA TaskCreateBufferStore ==
  ASSUME StoreInv, TaskCreateBuffer
  PROVE  StoreInv'
<1>1. /\ task # "none" /\ wild = {}
      /\ size' = size /\ instance' = instance /\ status' = status /\ planes' = planes
      /\ task' = task /\ sett' = sett /\ fifo' = fifo /\ lost' = lost /\ slips' = slips
  BY DEF TaskCreateBuffer, queue
<1>2. PICK n \in 0 .. MaxPlanes : \E us \in Fresh(n) :
        \/ /\ n > 0
           /\ SetHeap(AddPlanes(TaskGroup, us))
           /\ tbufs' = Append(tbufs, NextIndices(TaskGroup, n))
        \/ /\ n < MaxPlanes
           /\ SetHeap(DropPlanes(AddPlanes(TaskGroup, us), TaskGroup, NextIndices(TaskGroup, n)))
           /\ UNCHANGED tbufs
  BY DEF TaskCreateBuffer
<1>3. PICK us \in Fresh(n) :
        \/ /\ n > 0
           /\ SetHeap(AddPlanes(TaskGroup, us))
           /\ tbufs' = Append(tbufs, NextIndices(TaskGroup, n))
        \/ /\ n < MaxPlanes
           /\ SetHeap(DropPlanes(AddPlanes(TaskGroup, us), TaskGroup, NextIndices(TaskGroup, n)))
           /\ UNCHANGED tbufs
  BY <1>2
<1>4. PICK is : is = NextIndices(TaskGroup, n)
  OBVIOUS
<1>5. PICK k : k = heap'
  OBVIOUS
<1>6. /\ Sound /\ Groups /\ Store(heap, Bufs, sett, lost)
      /\ Spare(heap) = 2 * One(instance) + One(task # "none")
      /\ instance \in BOOLEAN /\ task \in {"none", "new", "ready"}
      /\ tbufs \in Seq(Seq(Nat)) /\ planes \in [Request -> Seq(Seq(Nat))]
      /\ TaskGroup \in Group
  BY <1>1, Before
<1>7. heap.gref[TaskGroup] # 0
  BY <1>1, <1>6 DEF Groups, One
<1>8. /\ us \in Seq(Buffer) /\ IsInjective(us) /\ Unused(heap, us) /\ Len(us) <= MaxPlanes
      /\ ToSet(us) \subseteq size.memory
      /\ is = NextOf(heap.grp[TaskGroup], us) /\ is \in Seq(Nat)
      /\ Gave(heap, AddPlanes(TaskGroup, us), us, TaskGroup, 3, 1)
  BY <1>1, <1>4, <1>6, <1>7, PlanesAdded
<1>9. ASSUME NEW a \in Nat, NEW b, Gave(heap, k, us, TaskGroup, a, b),
             Store(k, Bufs', sett, lost), wild' = IF k.bad THEN wild \cup {"buffer"} ELSE wild,
             tbufs' \in Seq(Seq(Nat))
      PROVE  StoreInv'
  <2>1. /\ HeapOK(k) /\ Spare(k) = Spare(heap) /\ k.gref = heap.gref /\ ~k.bad
        /\ \A g \in Group : heap.gref[g] = 0 => k.grp[g] = heap.grp[g]
        /\ LiveIn(k) \subseteq size.memory
    BY <1>1, <1>6, <1>7, <1>8, <1>9, GaveRest
  <2>2. wild' = {}
    BY <1>1, <1>9, <2>1
  <2>3. Groups'
    BY <1>1, <1>5, <1>6, <2>1, GroupsKept DEF Groups
  <2>4. Spare(k) = 2 * One(instance') + One(task' # "none")
    BY <1>1, <1>6, <2>1
  <2> QED
    BY <1>1, <1>5, <1>6, <1>9, <2>1, <2>2, <2>3, <2>4, Steady
<1>10. CASE SetHeap(AddPlanes(TaskGroup, us)) /\ tbufs' = Append(tbufs, is)
  <2>1. k = AddPlanes(TaskGroup, us) /\ wild' = IF k.bad THEN wild \cup {"buffer"} ELSE wild
    BY <1>5, <1>10 DEF SetHeap
  <2>2. Gave(heap, k, us, TaskGroup, 3, 1)
    BY <1>8, <2>1
  <2>3. tbufs' \in Seq(Seq(Nat))
    BY <1>6, <1>8, <1>10
  <2>4. Bufs' = [Bufs EXCEPT ![TaskGroup] =
                  Append(Bufs[TaskGroup], NextOf(heap.grp[TaskGroup], us))]
    BY <1>1, <1>6, <1>8, <1>10, BufsTask, BufsFacts
  <2>5. Store(k, Bufs', sett, lost)
    BY <1>6, <1>8, <2>2, <2>4, StoreAdd
  <2>6. 3 \in Nat
    OBVIOUS
  <2> QED
    BY <1>9, <2>1, <2>2, <2>3, <2>5, <2>6
<1>11. CASE SetHeap(DropPlanes(AddPlanes(TaskGroup, us), TaskGroup, is)) /\ UNCHANGED tbufs
  <2>1. /\ k = DropPlanes(AddPlanes(TaskGroup, us), TaskGroup, is)
        /\ wild' = IF k.bad THEN wild \cup {"buffer"} ELSE wild
    BY <1>5, <1>11 DEF SetHeap
  <2>2. Gave(heap, k, us, TaskGroup, 1, 0)
    BY <1>1, <1>4, <1>6, <1>7, <2>1, PlanesRefused
  <2>3. tbufs' \in Seq(Seq(Nat)) /\ Bufs' = Bufs
    BY <1>1, <1>6, <1>11 DEF Bufs
  <2>5. Store(k, Bufs', sett, lost)
    BY <1>6, <1>8, <2>2, <2>3, StoreMember
  <2>6. 1 \in Nat
    OBVIOUS
  <2> QED
    BY <1>9, <2>1, <2>2, <2>3, <2>5, <2>6
<1> QED
  BY <1>3, <1>4, <1>10, <1>11

(***************************************************************************)
(* Buffers that are given back.                                            *)
(***************************************************************************)

\* What holds a plane.
LEMMA PlaneHeld ==
  ASSUME NEW h, NEW B, NEW T, NEW L, Store(h, B, T, L), NEW u, u \in Planes(h.grp, B)
  PROVE  u \in Buffer /\ h.ref[u] >= 3
<1>1. h.grp \in [Group -> Seq(Buffer)]
  BY StoreFields
<1>2. u \in Grouped(h.grp)
  BY <1>1, PlaneFacts DEF Store
<1>3. u \in Buffer
  <2>1. PICK g \in Group : u \in ToSet(h.grp[g])
    BY <1>2 DEF Grouped
  <2> QED
    BY <1>1, <2>1, ToSetFacts
<1>4. /\ h.ref[u] = One(u \in Grouped(h.grp)) + h.maps[u]
           + One(u \in Planes(h.grp, B)) + One(u \in Setts(T)) + L[u]
      /\ h.maps[u] >= One(u \in Planes(h.grp, B)) /\ h.maps[u] \in Nat /\ L[u] \in Nat
  BY <1>3, Account
<1>5. PICK s \in Nat : s = One(u \in Setts(T))
  BY OneFacts
<1>6. One(u \in Grouped(h.grp)) = 1 /\ One(u \in Planes(h.grp, B)) = 1
  BY <1>2 DEF One
<1> QED
  BY <1>3, <1>4, <1>5, <1>6

\* What else a step that drops references leaves as it should be.
LEMMA TookRest ==
  ASSUME NEW h, h.ref \in [Buffer -> Nat], NEW U, NEW a \in Nat, NEW b, NEW k,
         Took(h, k, U, a, b)
  PROVE  /\ HeapOK(k) /\ Spare(k) = Spare(h) /\ k.gref = h.gref /\ k.grp = h.grp
         /\ k.bad = h.bad /\ LiveIn(k) \subseteq LiveIn(h)
<1>1. /\ HeapOK(k) /\ Spare(k) = Spare(h) /\ k.gref = h.gref /\ k.grp = h.grp
      /\ k.bad = h.bad
      /\ k.ref = [u \in Buffer |-> IF u \in U THEN h.ref[u] - a ELSE h.ref[u]]
  BY DEF Took
<1>2. ASSUME NEW u \in Buffer, k.ref[u] > 0 PROVE h.ref[u] > 0
  <2>1. h.ref[u] \in Nat /\ (k.ref[u] = h.ref[u] - a \/ k.ref[u] = h.ref[u])
    BY <1>1
  <2> QED
    BY <1>2, <2>1
<1> QED
  BY <1>1, <1>2 DEF LiveIn

\* One buffer of the task is given back.
LEMMA TaskFreeBufferStore ==
  ASSUME StoreInv, TaskFreeBuffer
  PROVE  StoreInv'
<1>1. /\ wild = {}
      /\ size' = size /\ instance' = instance /\ status' = status /\ planes' = planes
      /\ task' = task /\ sett' = sett /\ fifo' = fifo /\ lost' = lost /\ slips' = slips
  BY DEF TaskFreeBuffer, queue
<1>2. PICK d \in DOMAIN tbufs : /\ SetHeap(DropPlanes(heap, TaskGroup, tbufs[d]))
                                /\ tbufs' = RemoveAt(tbufs, d)
  BY DEF TaskFreeBuffer
<1>3. PICK k : k = heap'
  OBVIOUS
<1>4. /\ Sound /\ Groups /\ Store(heap, Bufs, sett, lost)
      /\ Spare(heap) = 2 * One(instance) + One(task # "none")
      /\ instance \in BOOLEAN /\ task \in {"none", "new", "ready"}
      /\ tbufs \in Seq(Seq(Nat)) /\ planes \in [Request -> Seq(Seq(Nat))]
      /\ TaskGroup \in Group /\ HeapOK(heap) /\ heap.ref \in [Buffer -> Nat]
      /\ heap.grp \in [Group -> Seq(Buffer)] /\ ~heap.bad /\ LiveIn(heap) \subseteq size.memory
  BY <1>1, Before
<1>5. PICK G \in [Group -> Seq(Buffer)] : G = heap.grp
  BY <1>4
<1>6. PICK B \in [Group -> Seq(Arrays)] : B = Bufs
  BY <1>4, BufsFacts
<1>7. PICK bufs \in Seq(Arrays) : bufs = tbufs
  BY <1>4 DEF Arrays
<1>8. B[TaskGroup] = bufs
  BY <1>4, <1>6, <1>7, BufsFacts
<1>9. d \in 1 .. Len(bufs) /\ bufs[d] \in Seq(Nat)
  BY <1>2, <1>7 DEF Arrays
<1>10. PICK s \in Seq(Buffer) : s = G[TaskGroup]
  BY <1>4, <1>5
<1>11. /\ Single(G) /\ AllInside(G, B) /\ Inside(s, bufs) /\ IsInjective(s)
       /\ PlanesIn(s, bufs) \subseteq Planes(G, B)
  <2>1. Single(G) /\ AllInside(G, B)
    BY <1>4, <1>5, <1>6 DEF Store, AllInside
  <2>2. Inside(s, bufs)
    BY <1>4, <1>8, <1>10, <2>1 DEF AllInside
  <2>3. IsInjective(s)
    <3>1. \A g \in Group : IsInjective(G[g])
      BY <1>5, <2>1, SingleFacts
    <3> QED
      BY <1>4, <1>10, <3>1
  <2>4. PlanesIn(s, bufs) \subseteq Planes(G, B)
    BY <1>4, <1>8, <1>10 DEF Planes
  <2> QED
    BY <2>1, <2>2, <2>3, <2>4
<1>12. PICK is \in Seq(Nat) : is = bufs[d]
  BY <1>9
<1>13. PICK c : c = RemoveAt(bufs, d)
  OBVIOUS
<1>14. PICK X : X = Named(s, is)
  OBVIOUS
<1>15. /\ c \in Seq(Arrays) /\ Inside(s, c) /\ X \subseteq PlanesIn(s, bufs)
       /\ PlanesIn(s, c) = PlanesIn(s, bufs) \ X
  <2>1. /\ RemoveAt(bufs, d) \in Seq(Arrays) /\ Inside(s, RemoveAt(bufs, d))
        /\ PlanesIn(s, RemoveAt(bufs, d)) = PlanesIn(s, bufs) \ Named(s, bufs[d])
        /\ Named(s, bufs[d]) \subseteq PlanesIn(s, bufs)
    <3>1. s \in Seq(Buffer) /\ bufs \in Seq(Arrays)
      BY <1>7, <1>10
    <3> QED
      BY <1>9, <1>11, <3>1, PlanesRemoved
  <2> QED
    BY <1>12, <1>13, <1>14, <2>1
<1>16. Took(heap, k, X, 2, 1)
  <2>1. Within(is, s) /\ \A i, j \in 1 .. Len(is) : s[is[i]] = s[is[j]] => i = j
    <3>1. Within(is, s)
      BY <1>9, <1>11, <1>12 DEF Inside, AllWithin
    <3>2. \A i, j \in 1 .. Len(is) : is[i] = is[j] => i = j
      BY <1>9, <1>11, <1>12 DEF Inside, Different
    <3> SUFFICES ASSUME NEW i \in 1 .. Len(is), NEW j \in 1 .. Len(is), s[is[i]] = s[is[j]]
                 PROVE  i = j
      BY <3>1
    <3>3. is[i] \in DOMAIN s /\ is[j] \in DOMAIN s
      BY <3>1 DEF Within
    <3>4. is[i] = is[j]
      BY <1>11, <3>3 DEF IsInjective
    <3> QED
      BY <3>2, <3>4
  <2>2. \A j \in 1 .. Len(is) : heap.ref[s[is[j]]] >= 2
    <3> SUFFICES ASSUME NEW j \in 1 .. Len(is) PROVE heap.ref[s[is[j]]] >= 2
      OBVIOUS
    <3>1. PICK u : u = s[is[j]]
      OBVIOUS
    <3>2. u \in Planes(heap.grp, Bufs)
      BY <1>5, <1>6, <1>11, <1>14, <1>15, <3>1 DEF Named
    <3>3. u \in Buffer /\ heap.ref[u] >= 3
      BY <1>4, <3>2, PlaneHeld
    <3>4. heap.ref[u] \in Nat
      BY <1>4, <3>3
    <3> QED
      BY <3>1, <3>3, <3>4
  <2>3. /\ Within(is, heap.grp[TaskGroup])
        /\ \A i, j \in 1 .. Len(is) :
             heap.grp[TaskGroup][is[i]] = heap.grp[TaskGroup][is[j]] => i = j
        /\ \A j \in 1 .. Len(is) : heap.ref[heap.grp[TaskGroup][is[j]]] >= 2
    BY <1>5, <1>10, <2>1, <2>2
  <2>4. is \in Seq(Nat)
    BY <1>12
  <2>5. Took(heap, DropPlanes(heap, TaskGroup, is), Named(heap.grp[TaskGroup], is), 2, 1)
    BY <1>4, <2>3, <2>4, PlanesTook
  <2>6. k = DropPlanes(heap, TaskGroup, is)
    BY <1>2, <1>3, <1>7, <1>12 DEF SetHeap
  <2> QED
    BY <1>5, <1>10, <1>14, <2>5, <2>6
<1>17. PICK C : C = Bufs'
  OBVIOUS
<1>18. C = [B EXCEPT ![TaskGroup] = c] /\ tbufs' = c
  <2>1. tbufs' = c
    BY <1>2, <1>7, <1>13
  <2> QED
    BY <1>1, <1>4, <1>6, <1>17, <2>1, BufsTask
<1>19. Loses(G, B, TaskGroup, c, X, C)
  BY <1>8, <1>10, <1>15, <1>18 DEF Loses
<1>20. Fewer(G, B, X, C)
  <2>1. G \in [Group -> Seq(Buffer)] /\ B \in [Group -> Seq(Arrays)] /\ c \in Seq(Arrays)
        /\ TaskGroup \in Group
    BY <1>4, <1>5, <1>6, <1>15
  <2> QED
    BY <1>11, <1>19, <2>1, PlanesChanged
<1>21. Store(k, C, sett, lost)
  <2>1. Fewer(heap.grp, Bufs, X, C)
    BY <1>5, <1>6, <1>20
  <2> QED
    BY <1>4, <1>16, <2>1, StoreFree
<1>22. /\ HeapOK(k) /\ Spare(k) = Spare(heap) /\ k.gref = heap.gref /\ k.grp = heap.grp
       /\ k.bad = heap.bad /\ LiveIn(k) \subseteq LiveIn(heap)
  <2>1. PICK x \in Nat, y \in Nat : x = 2 /\ y = 1
    OBVIOUS
  <2>2. Took(heap, k, X, x, y) /\ x \in Nat
    BY <1>16, <2>1
  <2> QED
    BY <1>4, <2>2, TookRest
<1>23. wild' = {} /\ ~k.bad /\ LiveIn(k) \subseteq size.memory
  BY <1>1, <1>2, <1>3, <1>4, <1>22 DEF SetHeap
<1>24. tbufs' \in Seq(Seq(Nat))
  BY <1>15, <1>18 DEF Arrays
<1>25. Groups'
  <2>1. task = "none" => tbufs = <<>> /\ d \in DOMAIN tbufs
    BY <1>2, <1>4 DEF Groups
  <2>2. task # "none"
    BY <2>1
  <2> QED
    BY <1>1, <1>3, <1>4, <1>22, <2>2, GroupsKept DEF Groups
<1>26. Spare(k) = 2 * One(instance') + One(task' # "none")
  BY <1>1, <1>4, <1>22
<1> QED
  BY <1>1, <1>3, <1>4, <1>17, <1>21, <1>22, <1>23, <1>24, <1>25, <1>26, Steady

\* A buffer is one plane of an array, or none.
LEMMA PlanesAtFacts ==
  ASSUME heap.grp \in [Group -> Seq(Buffer)], NEW g \in Group,
         IsInjective(heap.grp[g]), NEW bufs \in Seq(Arrays), Inside(heap.grp[g], bufs), NEW u
  PROVE  /\ u \in PlanesIn(heap.grp[g], bufs) => \E p : PlanesAt(bufs, g, u) = {p}
         /\ u \notin PlanesIn(heap.grp[g], bufs) => PlanesAt(bufs, g, u) = {}
         /\ PlanesOf(bufs, g, u) = One(u \in PlanesIn(heap.grp[g], bufs))
<1>1. PICK s \in Seq(Buffer) : s = heap.grp[g]
  OBVIOUS
<1>2. IsInjective(s) /\ Inside(s, bufs)
  BY <1>1
<1>3. \A k \in 1 .. Len(bufs) : bufs[k] \in Arrays /\ DOMAIN bufs[k] = 1 .. Len(bufs[k])
                               /\ Len(bufs[k]) \in Nat /\ Len(bufs[k]) <= MaxPlanes
  <2> SUFFICES ASSUME NEW k \in 1 .. Len(bufs)
               PROVE  bufs[k] \in Arrays /\ DOMAIN bufs[k] = 1 .. Len(bufs[k])
                      /\ Len(bufs[k]) \in Nat /\ Len(bufs[k]) <= MaxPlanes
    OBVIOUS
  <2>1. PICK is : is = bufs[k]
    OBVIOUS
  <2>2. is \in Seq(Nat)
    BY <2>1 DEF Arrays
  <2>3. Len(is) <= MaxPlanes
    BY <1>2, <2>1 DEF Inside
  <2> QED
    BY <2>1, <2>2, <2>3 DEF Arrays
<1>4. PICK A : A = PlanesAt(bufs, g, u)
  OBVIOUS
<1>5. A \subseteq (1 .. Len(bufs)) \X (1 .. MaxPlanes)
  BY <1>4 DEF PlanesAt
<1>6. ASSUME NEW p \in A
      PROVE  /\ p[1] \in 1 .. Len(bufs) /\ p[2] \in 1 .. Len(bufs[p[1]])
             /\ s[bufs[p[1]][p[2]]] = u /\ p = <<p[1], p[2]>>
  BY <1>1, <1>3, <1>4 DEF PlanesAt, GetFromGroup
<1>7. ASSUME NEW k \in 1 .. Len(bufs), NEW j \in 1 .. Len(bufs[k]), u = s[bufs[k][j]]
      PROVE  <<k, j>> \in A
  <2>1. k \in DOMAIN bufs /\ j \in 1 .. MaxPlanes /\ j \in DOMAIN bufs[k]
    BY <1>3, CsiAssumption
  <2> QED
    BY <1>1, <1>4, <1>7, <2>1 DEF PlanesAt, GetFromGroup
<1>8. ASSUME NEW p \in A, NEW q \in A PROVE p = q
  <2>1. /\ p[1] \in 1 .. Len(bufs) /\ p[2] \in 1 .. Len(bufs[p[1]])
        /\ s[bufs[p[1]][p[2]]] = u /\ p = <<p[1], p[2]>>
    BY <1>6
  <2>2. /\ q[1] \in 1 .. Len(bufs) /\ q[2] \in 1 .. Len(bufs[q[1]])
        /\ s[bufs[q[1]][q[2]]] = u /\ q = <<q[1], q[2]>>
    BY <1>6
  <2>3. bufs[p[1]][p[2]] \in DOMAIN s /\ bufs[q[1]][q[2]] \in DOMAIN s
    BY <1>2, <2>1, <2>2 DEF Inside, AllWithin, Within
  <2>4. bufs[p[1]][p[2]] = bufs[q[1]][q[2]]
    BY <1>2, <2>1, <2>2, <2>3 DEF IsInjective
  <2>5. p[1] = q[1] /\ p[2] = q[2]
    BY <1>2, <2>1, <2>2, <2>4 DEF Inside, Different
  <2> QED
    BY <2>1, <2>2, <2>5
<1>9. CASE u \in PlanesIn(s, bufs)
  <2>1. PICK k \in 1 .. Len(bufs) : \E j \in 1 .. Len(bufs[k]) : u = s[bufs[k][j]]
    BY <1>9, PlanesInFacts
  <2>2. PICK j \in 1 .. Len(bufs[k]) : u = s[bufs[k][j]]
    BY <2>1
  <2>3. <<k, j>> \in A
    BY <1>7, <2>2
  <2>4. PICK p : p = <<k, j>>
    OBVIOUS
  <2>5. A = {p}
    BY <1>8, <2>3, <2>4
  <2>6. Cardinality(A) = 1
    BY <2>5, FS_Singleton
  <2> QED
    BY <1>1, <1>4, <1>9, <2>5, <2>6 DEF PlanesOf, One
<1>10. CASE u \notin PlanesIn(s, bufs)
  <2>1. A = {}
    <3> SUFFICES ASSUME NEW p \in A PROVE FALSE
      OBVIOUS
    <3>1. /\ p[1] \in 1 .. Len(bufs) /\ p[2] \in 1 .. Len(bufs[p[1]])
          /\ s[bufs[p[1]][p[2]]] = u
      BY <1>6
    <3> QED
      BY <1>10, <3>1, PlanesInFacts
  <2>2. Cardinality(A) = 0
    BY <2>1, FS_EmptySet
  <2> QED
    BY <1>1, <1>4, <1>10, <2>1, <2>2 DEF PlanesOf, One
<1> QED
  BY <1>1, <1>9, <1>10

\* csi_dsp_destroy_task
LEMMA DestroyTaskStore ==
  ASSUME StoreInv, DestroyTask
  PROVE  StoreInv'
<1>1. /\ task # "none" /\ wild = {} /\ task' = "none" /\ tbufs' = <<>>
      /\ \A r \in Request : status[r] = "none"
      /\ heap' = ReleaseGroup(ReleaseDevice(heap), TaskGroup)
      /\ wild' = IF heap'.bad THEN wild \cup {"buffer"} ELSE wild
      /\ lost' = [u \in Buffer |-> lost[u] + PlanesOf(tbufs, TaskGroup, u)]
      /\ size' = size /\ instance' = instance /\ status' = status /\ planes' = planes
      /\ sett' = sett /\ fifo' = fifo /\ slips' = slips
  BY DEF DestroyTask, SetHeap, queue
<1>2. PICK c : c = ReleaseDevice(heap)
  OBVIOUS
<1>3. PICK k : k = heap'
  OBVIOUS
<1>4. /\ Sound /\ Groups /\ Store(heap, Bufs, sett, lost) /\ HeapOK(heap)
      /\ heap.gref \in [Group -> Nat] /\ heap.grp \in [Group -> Seq(Buffer)]
      /\ heap.ref \in [Buffer -> Nat] /\ heap.maps \in [Buffer -> Nat] /\ ~heap.bad
      /\ LiveIn(heap) \subseteq size.memory
      /\ Spare(heap) = 2 * One(instance) + One(task # "none")
      /\ instance \in BOOLEAN /\ tbufs \in Seq(Seq(Nat))
      /\ planes \in [Request -> Seq(Seq(Nat))] /\ lost \in [Buffer -> Nat]
      /\ TaskGroup \in Group /\ CallGroup \in Group /\ TaskGroup # CallGroup
      /\ Request \subseteq Group /\ TaskGroup \notin Request
  BY <1>1, Before
<1>5. heap.gref[TaskGroup] = 1 /\ Spare(heap) >= 1 /\ instance /\ Spare(heap) = 3
  BY <1>1, <1>4 DEF Groups, One
<1>6. PICK G \in [Group -> Seq(Buffer)] : G = heap.grp
  BY <1>4
<1>7. PICK B \in [Group -> Seq(Arrays)] : B = Bufs
  BY <1>4, BufsFacts
<1>8. PICK bufs \in Seq(Arrays) : bufs = tbufs
  BY <1>4 DEF Arrays
<1>9. B[TaskGroup] = bufs
  BY <1>4, <1>7, <1>8, BufsFacts
<1>10. PICK s \in Seq(Buffer) : s = G[TaskGroup]
  BY <1>4, <1>6
<1>11. Single(G) /\ AllInside(G, B) /\ Inside(s, bufs) /\ IsInjective(s)
  <2>1. Single(G) /\ AllInside(G, B)
    BY <1>4, <1>6, <1>7 DEF Store, AllInside
  <2>2. Inside(s, bufs)
    BY <1>4, <1>9, <1>10, <2>1 DEF AllInside
  <2>3. IsInjective(s)
    <3>1. \A g \in Group : IsInjective(G[g])
      BY <1>6, <2>1, SingleFacts
    <3> QED
      BY <1>4, <1>10, <3>1
  <2> QED
    BY <2>1, <2>2, <2>3
<1>12. PICK X : X = PlanesIn(s, bufs)
  OBVIOUS
<1>13. PICK C : C = Bufs'
  OBVIOUS
<1>14. \E c2 \in Seq(Arrays) : tbufs' = c2 /\ C = [B EXCEPT ![TaskGroup] = c2]
          /\ Loses(G, B, TaskGroup, c2, X, C)
  <2>1. PICK e \in Seq(Arrays) : e = <<>>
    BY EmptyOf
  <2>2. tbufs' = e /\ C = [B EXCEPT ![TaskGroup] = tbufs']
    BY <1>1, <1>4, <1>7, <1>13, <2>1, BufsTask
  <2>3. PlanesIn(s, e) = {} /\ Inside(s, e)
    BY <2>1, PlanesOfNone
  <2>4. C = [B EXCEPT ![TaskGroup] = e]
    BY <2>2
  <2>5. Loses(G, B, TaskGroup, e, X, C)
    BY <1>9, <1>10, <1>12, <2>3, <2>4 DEF Loses
  <2> QED
    BY <2>1, <2>2, <2>4, <2>5
<1>15. PICK e \in Seq(Arrays) : tbufs' = e /\ Loses(G, B, TaskGroup, e, X, C)
  BY <1>14
<1>16. Fewer(G, B, X, C)
  <2>1. G \in [Group -> Seq(Buffer)] /\ B \in [Group -> Seq(Arrays)] /\ e \in Seq(Arrays)
        /\ TaskGroup \in Group
    BY <1>4, <1>6, <1>7, <1>15
  <2>2. Loses(G, B, TaskGroup, e, X, C)
    BY <1>15
  <2> QED
    BY <1>11, <2>1, <2>2, PlanesChanged
<1>17. PICK M : M = lost'
  OBVIOUS
<1>18. Forgets(lost, X, M)
  <2>1. /\ heap.grp \in [Group -> Seq(Buffer)] /\ TaskGroup \in Group
        /\ IsInjective(heap.grp[TaskGroup]) /\ bufs \in Seq(Arrays)
        /\ Inside(heap.grp[TaskGroup], bufs)
    BY <1>4, <1>6, <1>8, <1>10, <1>11
  <2>2. \A u : PlanesOf(bufs, TaskGroup, u) = One(u \in PlanesIn(heap.grp[TaskGroup], bufs))
    BY <2>1, PlanesAtFacts
  <2>3. \A u \in Buffer : PlanesOf(tbufs, TaskGroup, u) = One(u \in X)
    BY <1>6, <1>8, <1>10, <1>12, <2>2
  <2> QED
    BY <1>1, <1>17, <2>3 DEF Forgets
<1>19. Store(heap, C, sett, M)
  <2>1. X \subseteq PlanesIn(heap.grp[TaskGroup], Bufs[TaskGroup])
    BY <1>6, <1>7, <1>9, <1>10, <1>12
  <2>2. Fewer(heap.grp, Bufs, X, C)
    BY <1>6, <1>7, <1>16
  <2>3. Store(heap, Bufs, sett, lost) /\ TaskGroup \in Group /\ TaskGroup \notin Request
    BY <1>4
  <2> QED
    BY <1>18, <2>1, <2>2, <2>3, StoreForgetPlanes
<1>20. /\ HeapOK(c) /\ Spare(c) = Spare(heap) - 1 /\ LiveIn(c) = LiveIn(heap)
       /\ c.ref = heap.ref /\ c.maps = heap.maps /\ c.gref = heap.gref
       /\ c.grp = heap.grp /\ c.bad = heap.bad
  BY <1>2, <1>4, <1>5, DeviceOK
<1>21. Store(c, C, sett, M)
  BY <1>19, <1>20, StoreSame
<1>22. \A u \in ToSet(s) : c.ref[u] > 0
  <2> SUFFICES ASSUME NEW u \in ToSet(s) PROVE c.ref[u] > 0
    OBVIOUS
  <2>1. u \in Buffer /\ u \in Grouped(heap.grp)
    BY <1>4, <1>6, <1>10, ToSetFacts DEF Grouped
  <2>2. heap.ref[u] # 0
    BY <1>4, <2>1, Unheld
  <2> QED
    BY <1>4, <1>20, <2>1, <2>2
<1>23. Ended(c, k, TaskGroup)
  <2>1. LastHeld(c, TaskGroup) /\ k = ReleaseGroup(c, TaskGroup)
    BY <1>1, <1>2, <1>3, <1>5, <1>6, <1>10, <1>11, <1>20, <1>22 DEF LastHeld
  <2>2. HeapOK(c) /\ TaskGroup \in Group
    BY <1>4, <1>20
  <2> QED
    BY <2>1, <2>2, GroupEnds
<1>30. /\ HeapOK(k) /\ Spare(k) = Spare(c) /\ k.bad = c.bad /\ k.maps = c.maps
       /\ k.gref = [c.gref EXCEPT ![TaskGroup] = 0]
       /\ k.grp = [c.grp EXCEPT ![TaskGroup] = <<>>]
       /\ k.ref = [u \in Buffer |-> IF u \in ToSet(c.grp[TaskGroup]) THEN c.ref[u] - 1
                                    ELSE c.ref[u]]
  BY <1>23 DEF Ended
<1>24. Store(k, C, sett, M)
  <2>1. C[TaskGroup] = <<>>
    BY <1>1, <1>4, <1>7, <1>15 DEF Loses
  <2>2. TaskGroup \in Group /\ TaskGroup \notin Request
    BY <1>4
  <2> QED
    BY <1>21, <1>23, <2>1, <2>2, StoreGroupEnds
<1>25. LiveIn(k) \subseteq size.memory
  <2>1. ASSUME NEW u \in Buffer, k.ref[u] > 0 PROVE heap.ref[u] > 0
    <3>1. heap.ref[u] \in Nat
      BY <1>4
    <3>2. k.ref[u] = IF u \in ToSet(c.grp[TaskGroup]) THEN c.ref[u] - 1 ELSE c.ref[u]
      BY <1>30
    <3>3. c.ref[u] = heap.ref[u]
      BY <1>20
    <3> QED
      BY <2>1, <3>1, <3>2, <3>3
  <2> QED
    BY <1>4, <2>1 DEF LiveIn
<1>26. ~k.bad /\ wild' = {}
  BY <1>1, <1>3, <1>4, <1>20, <1>30
<1>27. Groups'
  <2>1. /\ k.gref[TaskGroup] = 0 /\ k.grp[TaskGroup] = <<>>
        /\ \A g \in Group : g # TaskGroup => k.gref[g] = heap.gref[g] /\ k.grp[g] = heap.grp[g]
    <3>1. k.gref[TaskGroup] = 0 /\ \A g \in Group : g # TaskGroup => k.gref[g] = heap.gref[g]
      BY <1>4, <1>20, <1>30
    <3>2. k.grp[TaskGroup] = <<>>
      BY <1>4, <1>20, <1>30
    <3>3. \A g \in Group : g # TaskGroup => k.grp[g] = heap.grp[g]
      BY <1>4, <1>20, <1>30
    <3> QED
      BY <3>1, <3>2, <3>3
  <2>2. \A r \in Request : k.gref[r] = heap.gref[r]
    BY <1>4, <2>1
  <2>3. k.gref[CallGroup] = 0 /\ One(task' # "none") = 0
    BY <1>1, <1>4, <2>1 DEF Groups, One
  <2>4. \A g \in Group : k.gref[g] = 0 => k.grp[g] = <<>>
    BY <1>4, <2>1 DEF Groups
  <2> QED
    BY <1>1, <1>3, <1>4, <2>1, <2>2, <2>3, <2>4 DEF Groups
<1>28. Spare(k) = 2 * One(instance') + One(task' # "none")
  BY <1>1, <1>5, <1>20, <1>30 DEF One
<1>29. tbufs' \in Seq(Seq(Nat))
  BY <1>15 DEF Arrays
<1> QED
  BY <1>1, <1>3, <1>4, <1>13, <1>17, <1>24, <1>25, <1>26, <1>27, <1>28, <1>29, Steady

(***************************************************************************)
(* Memory and the steps of a request.                                      *)
(***************************************************************************)

\* A request that is not running has no command.
LEMMA NoCommand ==
  ASSUME ListInv, NEW r \in Request, status[r] # "running"
  PROVE  r \notin ToSet(fifo)
  BY DEF ListInv, Commands

\* csi_dsp_create_request
LEMMA CreateRequestStore ==
  ASSUME ListInv, StoreInv, NEW r \in Request, CreateRequest(r)
  PROVE  StoreInv'
<1>1. /\ wild = {} /\ task = "ready" /\ status[r] = "none"
      /\ status' = [status EXCEPT ![r] = "idle"]
      /\ heap' = CreateGroup(heap, r)
      /\ wild' = IF heap'.bad THEN wild \cup {"buffer"} ELSE wild
      /\ size' = size /\ instance' = instance /\ task' = task /\ planes' = planes
      /\ tbufs' = tbufs /\ sett' = sett /\ fifo' = fifo /\ lost' = lost /\ slips' = slips
  BY DEF CreateRequest, SetHeap, content, queue
<1>3. PICK k : k = heap'
  OBVIOUS
<1>4. /\ Sound /\ Groups /\ Store(heap, Bufs, sett, lost) /\ ~heap.bad /\ HeapOK(heap)
      /\ Spare(heap) = 2 * One(instance) + One(task # "none")
      /\ LiveIn(heap) \subseteq size.memory
      /\ tbufs \in Seq(Seq(Nat)) /\ planes \in [Request -> Seq(Seq(Nat))]
      /\ instance \in BOOLEAN /\ task \in {"none", "new", "ready"}
      /\ heap.gref \in [Group -> Nat] /\ heap.grp \in [Group -> Seq(Buffer)]
      /\ TaskGroup \in Group /\ CallGroup \in Group /\ TaskGroup # CallGroup
      /\ Request \subseteq Group /\ TaskGroup \notin Request /\ CallGroup \notin Request
  BY <1>1, Before
<1>5. r \in Group /\ r \notin ToSet(fifo) /\ status \in [Request -> Status]
  BY <1>1, <1>4, NoCommand DEF ListInv, QueueTypes
<1>6. PICK x \in Nat, e \in Seq(Buffer) :
        x = 1 /\ e = <<>> /\ CreateGroup(heap, r) = Regroup(heap, r, x, e)
  BY GroupCreated
<1>7. /\ HeapOK(k) /\ Spare(k) = Spare(heap) /\ k.ref = heap.ref /\ k.maps = heap.maps
      /\ k.gref = [heap.gref EXCEPT ![r] = x] /\ k.grp = [heap.grp EXCEPT ![r] = e]
      /\ k.dev = heap.dev /\ k.bad = heap.bad
  <2>1. k = Regroup(heap, r, x, e)
    BY <1>1, <1>3, <1>6
  <2>2. x \in Nat /\ e \in Seq(Buffer) /\ r \in Group /\ HeapOK(heap)
    BY <1>4, <1>5, <1>6
  <2> QED
    BY <2>1, <2>2, GroupsOK
<1>8. k.grp = heap.grp
  <2>1. heap.gref[r] = 0
    BY <1>1, <1>4, <1>5 DEF Groups, One
  <2>2. heap.grp[r] = e
    BY <1>4, <1>5, <1>6, <2>1 DEF Groups
  <2> QED
    BY <1>4, <1>5, <1>7, <2>2
<1>9. LiveIn(k) = LiveIn(heap)
  BY <1>7 DEF LiveIn
<1>10. ~k.bad /\ wild' = {}
  BY <1>1, <1>3, <1>4, <1>7
<1>11. Groups'
  <2>1. k.gref[r] = 1 /\ \A g \in Group : g # r => k.gref[g] = heap.gref[g]
    BY <1>4, <1>5, <1>6, <1>7
  <2>2. \A q \in Request : k.gref[q] = One(status'[q] # "none") + One(q \in ToSet(fifo'))
    <3> SUFFICES ASSUME NEW q \in Request
                 PROVE  k.gref[q] = One(status'[q] # "none") + One(q \in ToSet(fifo))
      BY <1>1
    <3>1. CASE q = r
      <4>1. status'[q] # "none"
        BY <1>1, <1>5, <3>1
      <4> QED
        BY <1>5, <2>1, <3>1, <4>1 DEF One
    <3>2. CASE q # r
      <4>1. status'[q] = status[q] /\ k.gref[q] = heap.gref[q]
        BY <1>1, <1>4, <1>5, <2>1, <3>2
      <4> QED
        BY <1>4, <4>1 DEF Groups
    <3> QED
      BY <3>1, <3>2
  <2>3. k.gref[CallGroup] = heap.gref[CallGroup] /\ k.gref[TaskGroup] = heap.gref[TaskGroup]
    BY <1>4, <2>1
  <2>4. \A g \in Group : k.gref[g] = 0 => k.grp[g] = <<>>
    <3> SUFFICES ASSUME NEW g \in Group, k.gref[g] = 0 PROVE k.grp[g] = <<>>
      OBVIOUS
    <3>1. g # r
      BY <2>1
    <3>2. heap.gref[g] = 0
      BY <2>1, <3>1
    <3> QED
      BY <1>4, <1>8, <3>2 DEF Groups
  <2>5. \A q \in Request : status'[q] = "none" => status[q] = "none"
    BY <1>1, <1>5
  <2> QED
    BY <1>1, <1>3, <1>4, <2>2, <2>3, <2>4, <2>5 DEF Groups
<1>12. Store(k, Bufs, sett, lost)
  BY <1>4, <1>7, <1>8, StoreSame
<1>13. Bufs' = Bufs
  BY <1>1 DEF Bufs
<1>14. Spare(k) = 2 * One(instance') + One(task' # "none")
  BY <1>1, <1>4, <1>7
<1> QED
  BY <1>1, <1>3, <1>4, <1>9, <1>10, <1>11, <1>12, <1>13, <1>14, Steady

\* csi_dsp_request_add_buffer
LEMMA RequestAddBufferStore ==
  ASSUME StoreInv, NEW r \in Request, RequestAddBuffer(r)
  PROVE  StoreInv'
<1>1. /\ wild = {} /\ status[r] # "none"
      /\ size' = size /\ instance' = instance /\ status' = status /\ tbufs' = tbufs
      /\ task' = task /\ sett' = sett /\ fifo' = fifo /\ lost' = lost
  BY DEF RequestAddBuffer, Owned, queue
<1>2. PICK n \in 0 .. MaxPlanes : \E us \in Fresh(n) :
        \/ /\ heap' = AddPlanes(r, us)
           /\ planes' = [planes EXCEPT ![r] = Append(@, NextIndices(r, n))]
           /\ IF Len(planes[r]) < MaxBuffer THEN UNCHANGED <<slips, wild>>
              ELSE slips' = {"array"} /\ wild' = {"array"}
        \/ /\ SetHeap(DropPlanes(AddPlanes(r, us), r, NextIndices(r, n)))
           /\ UNCHANGED <<planes, slips>>
  BY DEF RequestAddBuffer
<1>3. PICK us \in Fresh(n) :
        \/ /\ heap' = AddPlanes(r, us)
           /\ planes' = [planes EXCEPT ![r] = Append(@, NextIndices(r, n))]
           /\ IF Len(planes[r]) < MaxBuffer THEN UNCHANGED <<slips, wild>>
              ELSE slips' = {"array"} /\ wild' = {"array"}
        \/ /\ SetHeap(DropPlanes(AddPlanes(r, us), r, NextIndices(r, n)))
           /\ UNCHANGED <<planes, slips>>
  BY <1>2
<1>4. PICK is : is = NextIndices(r, n)
  OBVIOUS
<1>5. PICK k : k = heap'
  OBVIOUS
<1>6. /\ Sound /\ HeapTypes /\ Groups /\ Store(heap, Bufs, sett, lost)
      /\ Spare(heap) = 2 * One(instance) + One(task # "none")
      /\ instance \in BOOLEAN /\ task \in {"none", "new", "ready"} /\ slips = {}
      /\ tbufs \in Seq(Seq(Nat)) /\ planes \in [Request -> Seq(Seq(Nat))]
      /\ r \in Group
  BY <1>1, Before
<1>7. heap.gref[r] # 0
  <2>1. PICK y \in Nat : y = One(r \in ToSet(fifo))
    BY OneFacts
  <2>2. heap.gref[r] = 1 + y
    BY <1>1, <1>6, <2>1 DEF Groups, One
  <2> QED
    BY <2>1, <2>2
<1>8. /\ us \in Seq(Buffer) /\ IsInjective(us) /\ Unused(heap, us) /\ Len(us) <= MaxPlanes
      /\ ToSet(us) \subseteq size.memory
      /\ is = NextOf(heap.grp[r], us) /\ is \in Seq(Nat)
      /\ Gave(heap, AddPlanes(r, us), us, r, 3, 1)
  BY <1>1, <1>4, <1>6, <1>7, PlanesAdded
<1>9. ASSUME NEW a \in Nat, NEW b, Gave(heap, k, us, r, a, b),
             Store(k, Bufs', sett, lost), planes' \in [Request -> Seq(Seq(Nat))],
             \A q \in Request : status[q] = "none" => planes'[q] = planes[q]
      PROVE  /\ HeapOK(k) /\ Spare(k) = Spare(heap) /\ ~k.bad /\ LiveIn(k) \subseteq size.memory
             /\ wild' = {} /\ slips' = slips => StoreInv'
  <2>1. /\ HeapOK(k) /\ Spare(k) = Spare(heap) /\ k.gref = heap.gref /\ ~k.bad
        /\ \A g \in Group : heap.gref[g] = 0 => k.grp[g] = heap.grp[g]
        /\ LiveIn(k) \subseteq size.memory
    BY <1>1, <1>6, <1>7, <1>8, <1>9, GaveRest
  <2>3. Groups'
    BY <1>1, <1>5, <1>6, <1>9, <2>1, GroupsKept DEF Groups
  <2>4. Spare(k) = 2 * One(instance') + One(task' # "none")
    BY <1>1, <1>6, <2>1
  <2>5. ASSUME wild' = {}, slips' = slips PROVE StoreInv'
    BY <1>1, <1>5, <1>6, <1>9, <2>1, <2>3, <2>4, <2>5, Steady
  <2> QED
    BY <2>1, <2>5
<1>10. CASE /\ heap' = AddPlanes(r, us)
            /\ planes' = [planes EXCEPT ![r] = Append(@, is)]
            /\ IF Len(planes[r]) < MaxBuffer THEN UNCHANGED <<slips, wild>>
               ELSE slips' = {"array"} /\ wild' = {"array"}
  <2>1. k = AddPlanes(r, us)
    BY <1>5, <1>10
  <2>2. Gave(heap, k, us, r, 3, 1)
    BY <1>8, <2>1
  <2>3. Append(planes[r], is) \in Seq(Seq(Nat))
    BY <1>6, <1>8
  <2>4. PICK c \in Seq(Seq(Nat)) : c = Append(planes[r], is)
    BY <2>3
  <2>5. planes' = [planes EXCEPT ![r] = c]
    BY <1>10, <2>4
  <2>6. /\ planes' \in [Request -> Seq(Seq(Nat))]
        /\ \A q \in Request : status[q] = "none" => planes'[q] = planes[q]
    BY <1>1, <1>6, <2>4, <2>5
  <2>7. Bufs' = [Bufs EXCEPT ![r] = c]
    BY <1>1, <1>6, <2>5, BufsRequest
  <2>8. Bufs[r] = planes[r]
    BY <1>6, BufsFacts
  <2>9. Bufs' = [Bufs EXCEPT ![r] = Append(Bufs[r], NextOf(heap.grp[r], us))]
    BY <1>8, <2>4, <2>7, <2>8
  <2>10. Store(k, Bufs', sett, lost)
    BY <1>6, <1>8, <2>2, <2>9, StoreAdd
  <2>11. /\ HeapOK(k) /\ Spare(k) = Spare(heap) /\ ~k.bad /\ LiveIn(k) \subseteq size.memory
         /\ wild' = {} /\ slips' = slips => StoreInv'
    <3>1. 3 \in Nat
      OBVIOUS
    <3> QED
      BY <1>9, <2>2, <2>6, <2>10, <3>1
  <2>12. CASE UNCHANGED <<slips, wild>>
    BY <1>1, <2>11, <2>12
  <2>13. CASE slips' = {"array"} /\ wild' = {"array"}
    <3>1. k.maps \in [Buffer -> Nat] /\ HeapOK(k) /\ ~k.bad
      BY <2>10, <2>11, StoreFields
    <3>2. HeapTypes'
      BY <1>1, <1>5, <1>6, <2>6, <2>13, <3>1 DEF HeapTypes
    <3> QED
      BY <1>5, <2>13, <3>1, <3>2 DEF StoreInv, MemorySafe
  <2> QED
    BY <1>10, <2>12, <2>13
<1>11. CASE /\ SetHeap(DropPlanes(AddPlanes(r, us), r, is))
            /\ UNCHANGED <<planes, slips>>
  <2>1. /\ k = DropPlanes(AddPlanes(r, us), r, is)
        /\ wild' = IF k.bad THEN wild \cup {"buffer"} ELSE wild
    BY <1>5, <1>11 DEF SetHeap
  <2>2. Gave(heap, k, us, r, 1, 0)
    BY <1>1, <1>4, <1>6, <1>7, <2>1, PlanesRefused
  <2>3. Bufs' = Bufs
    BY <1>1, <1>11 DEF Bufs
  <2>4. planes' \in [Request -> Seq(Seq(Nat))] /\ \A q \in Request : planes'[q] = planes[q]
    BY <1>6, <1>11
  <2>5. Store(k, Bufs', sett, lost)
    BY <1>6, <1>8, <2>2, <2>3, StoreMember
  <2>6. 1 \in Nat
    OBVIOUS
  <2>7. ~k.bad /\ (wild' = {} /\ slips' = slips => StoreInv')
    BY <1>9, <2>2, <2>4, <2>5, <2>6
  <2> QED
    BY <1>1, <1>11, <2>1, <2>7
<1> QED
  BY <1>3, <1>4, <1>10, <1>11

\* A buffer that is created and released again leaves no trace.
LEMMA CreateRelease ==
  ASSUME NEW h, HeapOK(h), NEW u \in Buffer, h.ref[u] = 0,
         NEW k, k = ReleaseBuffer(CreateBuffer(h, u), u)
  PROVE  /\ HeapOK(k) /\ Spare(k) = Spare(h) /\ k.ref = h.ref /\ k.maps = h.maps
         /\ k.gref = h.gref /\ k.grp = h.grp /\ k.bad = h.bad
<1>1. /\ h \in HeapRec /\ IsFiniteSet(LiveIn(h)) /\ Spare(h) >= 0 /\ h.dev \in Int
      /\ h.ref \in [Buffer -> Nat]
  BY HeapFields DEF HeapOK
<1>2. Cardinality(LiveIn(h)) \in Nat /\ Spare(h) = h.dev - Cardinality(LiveIn(h))
  BY <1>1, FS_CardinalityType DEF Spare
<1>3. PICK c : c = CreateBuffer(h, u)
  OBVIOUS
<1>4. /\ c \in HeapRec
      /\ c = [ref |-> [h.ref EXCEPT ![u] = 1], maps |-> h.maps,
              gref |-> h.gref, grp |-> h.grp, dev |-> h.dev + 1, bad |-> h.bad]
  BY <1>1, <1>3, CreateFields, Zenon
<1>5. /\ c.ref = [h.ref EXCEPT ![u] = 1] /\ c.maps = h.maps /\ c.gref = h.gref
      /\ c.grp = h.grp /\ c.dev = h.dev + 1 /\ c.bad = h.bad
  BY <1>4
<1>6. c.ref[u] = 1 /\ c.dev # 0
  BY <1>1, <1>2, <1>5
<1>7. k = ReleaseBuffer(c, u)
  BY <1>3
<1>8. c \in HeapRec
  BY <1>4
<1>9. /\ ReleaseBuffer(c, u) \in HeapRec
      /\ ReleaseBuffer(c, u).ref =
           [c.ref EXCEPT ![u] = IF c.ref[u] = 0 THEN 0 ELSE c.ref[u] - 1]
      /\ ReleaseBuffer(c, u).maps = c.maps
      /\ ReleaseBuffer(c, u).gref = c.gref
      /\ ReleaseBuffer(c, u).grp = c.grp
      /\ ReleaseBuffer(c, u).dev = IF c.ref[u] = 1 THEN c.dev - 1 ELSE c.dev
      /\ ReleaseBuffer(c, u).bad =
           (c.bad \/ c.ref[u] = 0 \/ (c.ref[u] = 1 /\ c.dev = 0))
  BY <1>8, ReleaseFields
<1>10. k \in HeapRec /\ k.maps = c.maps /\ k.gref = c.gref /\ k.grp = c.grp
       /\ k.ref = [c.ref EXCEPT ![u] = IF c.ref[u] = 0 THEN 0 ELSE c.ref[u] - 1]
  BY <1>7, <1>9
<1>11. k.dev = IF c.ref[u] = 1 THEN c.dev - 1 ELSE c.dev
  BY <1>7, <1>9
<1>12. k.bad = (c.bad \/ c.ref[u] = 0 \/ (c.ref[u] = 1 /\ c.dev = 0))
  BY <1>7, <1>9, Zenon
<1>13. k.ref = h.ref
  <2>1. k.ref = [c.ref EXCEPT ![u] = 0]
    BY <1>6, <1>10
  <2> QED
    BY <1>1, <1>5, <2>1
<1>14. k.dev = h.dev
  BY <1>1, <1>5, <1>6, <1>11
<1>15. k.bad = h.bad
  <2>1. h.bad \in BOOLEAN
    BY <1>1, HeapFields
  <2> QED
    BY <1>5, <1>6, <1>12, <2>1
<1>16. LiveIn(k) = LiveIn(h)
  BY <1>13 DEF LiveIn
<1>17. Spare(k) = Spare(h)
  BY <1>14, <1>16 DEF Spare
<1> QED
  BY <1>1, <1>5, <1>10, <1>13, <1>15, <1>16, <1>17 DEF HeapOK

\* A new buffer that becomes a member of a group.
LEMMA CallOne ==
  ASSUME NEW h, HeapOK(h), NEW u \in Buffer, h.ref[u] = 0, NEW q \in Group,
         NEW us, us = <<u>>, NEW k, k = AddToGroup(CreateBuffer(h, u), q, u)
  PROVE  Gave(h, k, us, q, 2, 0)
<1>1. h \in HeapRec /\ h.maps \in [Buffer -> Int]
  BY HeapFields DEF HeapOK
<1>2. /\ k \in HeapRec
      /\ k = [ref |-> [h.ref EXCEPT ![u] = 2], maps |-> h.maps, gref |-> h.gref,
              grp |-> [h.grp EXCEPT ![q] = Append(h.grp[q], u)],
              dev |-> h.dev + 1, bad |-> h.bad]
  BY <1>1, CallFields, Zenon
<1>3. PICK a \in Nat \ {0}, b \in Int : a = 2 /\ b = 0
  OBVIOUS
<1>4. /\ k.ref = [h.ref EXCEPT ![u] = a] /\ k.gref = h.gref /\ k.bad = h.bad
      /\ k.grp = [h.grp EXCEPT ![q] = Append(h.grp[q], u)] /\ k.dev = h.dev + 1
  BY <1>2, <1>3
<1>5. k.maps = [h.maps EXCEPT ![u] = h.maps[u] + b]
  <2>1. k.maps = h.maps
    BY <1>2
  <2>2. h.maps[u] + b = h.maps[u]
    BY <1>1, <1>3
  <2>3. [h.maps EXCEPT ![u] = h.maps[u]] = h.maps
    BY <1>1
  <2> QED
    BY <2>1, <2>2, <2>3
<1>6. Gave(h, k, <<u>>, q, a, b)
  BY <1>2, <1>3, <1>4, <1>5, GaveOne
<1> QED
  BY <1>3, <1>6

\* csi_dsp_request_set_property
LEMMA RequestSetPropertyStore ==
  ASSUME StoreInv, NEW r \in Request, RequestSetProperty(r)
  PROVE  StoreInv'
<1>1. /\ wild = {} /\ status[r] # "none"
      /\ size' = size /\ instance' = instance /\ status' = status /\ tbufs' = tbufs
      /\ task' = task /\ planes' = planes /\ fifo' = fifo /\ slips' = slips
  BY DEF RequestSetProperty, Owned, queue
<1>2. PICK us \in Fresh(1) :
        /\ \/ /\ SetHeap(AddToGroup(CreateBuffer(heap, us[1]), r, us[1]))
              /\ sett' = [sett EXCEPT ![r] = [at |-> us[1], held |-> TRUE]]
           \/ /\ SetHeap(ReleaseBuffer(CreateBuffer(heap, us[1]), us[1]))
              /\ sett' = [sett EXCEPT ![r] = [at |-> us[1], held |-> FALSE]]
        /\ lost' = IF sett[r].held THEN [lost EXCEPT ![sett[r].at] = @ + 1] ELSE lost
  BY DEF RequestSetProperty
<1>3. PICK k : k = heap'
  OBVIOUS
<1>4. /\ Sound /\ HeapTypes /\ Groups /\ Store(heap, Bufs, sett, lost) /\ HeapOK(heap)
      /\ heap.grp \in [Group -> Seq(Buffer)] /\ heap.ref \in [Buffer -> Nat] /\ ~heap.bad
      /\ LiveIn(heap) \subseteq size.memory
      /\ Spare(heap) = 2 * One(instance) + One(task # "none")
      /\ instance \in BOOLEAN /\ task \in {"none", "new", "ready"} /\ slips = {}
      /\ tbufs \in Seq(Seq(Nat)) /\ planes \in [Request -> Seq(Seq(Nat))]
      /\ sett \in [Request -> SettRec] /\ lost \in [Buffer -> Nat] /\ r \in Group
  BY <1>1, Before
<1>5. us \in Seq(Buffer) /\ Len(us) = 1 /\ Unused(heap, us) /\ ToSet(us) \subseteq size.memory
  <2>1. PICK n \in Nat : n = 1
    OBVIOUS
  <2>2. us \in Fresh(n) /\ n \in Nat
    BY <2>1
  <2>3. us \in Seq(Buffer) /\ Len(us) = n /\ Unused(heap, us) /\ ToSet(us) \subseteq size.memory
    BY <1>4, <2>2, FreshFacts
  <2> QED
    BY <2>1, <2>3
<1>6. PICK u \in Buffer : u = us[1]
  BY <1>5
<1>7. us = <<u>> /\ ToSet(us) = {u} /\ heap.ref[u] = 0
  <2>1. us = <<u>>
    BY <1>5, <1>6
  <2>2. ToSet(us) = {u}
    <3>1. \A x : x \in ToSet(us) <=> x = us[1]
      BY <1>5, ToSetFacts
    <3> QED
      BY <1>6, <3>1
  <2> QED
    BY <1>5, <2>1, <2>2 DEF Unused
<1>8. PICK M : M = lost'
  OBVIOUS
<1>9. M = IF sett[r].held THEN [lost EXCEPT ![sett[r].at] = lost[sett[r].at] + 1] ELSE lost
  BY <1>2, <1>8
<1>10. Bufs' = Bufs
  BY <1>1 DEF Bufs
<1>11. heap.gref[r] # 0
  <2>1. PICK y \in Nat : y = One(r \in ToSet(fifo))
    BY OneFacts
  <2>2. heap.gref[r] = 1 + y
    BY <1>1, <1>4, <2>1 DEF Groups, One
  <2> QED
    BY <2>1, <2>2
<1>12. ASSUME Store(k, Bufs, sett', M), HeapOK(k), Spare(k) = Spare(heap), k.gref = heap.gref,
              ~k.bad, wild' = IF k.bad THEN wild \cup {"buffer"} ELSE wild,
              LiveIn(k) \subseteq size.memory,
              \A g \in Group : heap.gref[g] = 0 => k.grp[g] = heap.grp[g],
              \A q \in Request : q # r => sett'[q] = sett[q]
       PROVE  StoreInv'
  <2>1. Groups'
    BY <1>1, <1>3, <1>4, <1>12, GroupsKept DEF Groups
  <2>2. wild' = {} /\ Spare(k) = 2 * One(instance') + One(task' # "none")
    BY <1>1, <1>4, <1>12
  <2> QED
    BY <1>1, <1>3, <1>4, <1>8, <1>10, <1>12, <2>1, <2>2, Steady
<1>13. CASE /\ SetHeap(AddToGroup(CreateBuffer(heap, u), r, u))
            /\ sett' = [sett EXCEPT ![r] = [at |-> u, held |-> TRUE]]
  <2>1. /\ k = AddToGroup(CreateBuffer(heap, u), r, u)
        /\ wild' = IF k.bad THEN wild \cup {"buffer"} ELSE wild
    BY <1>3, <1>13 DEF SetHeap
  <2>2. Gave(heap, k, us, r, 2, 0)
    BY <1>4, <1>6, <1>7, <2>1, CallOne
  <2>3. PICK T : T = [sett EXCEPT ![r] = [at |-> Nil, held |-> FALSE]]
    OBVIOUS
  <2>4. Store(heap, Bufs, T, M)
    <3>1. Nil \in Buffer \cup {Nil} /\ Nil \notin ToSet(heap.grp[r])
      BY <1>4, ToSetFacts, CsiAssumption
    <3> QED
      BY <1>4, <1>9, <2>3, <3>1, StoreForget
  <2>5. ~T[r].held /\ sett' = [T EXCEPT ![r] = [at |-> u, held |-> TRUE]]
    BY <1>4, <1>13, <2>3
  <2>6. Store(k, Bufs, sett', M)
    <3>1. PICK X : X = sett'
      OBVIOUS
    <3>2. X = [T EXCEPT ![r] = [at |-> u, held |-> TRUE]] /\ ~T[r].held
      BY <2>5, <3>1
    <3>3. us \in Seq(Buffer) /\ us = <<u>> /\ heap.ref[u] = 0
      BY <1>5, <1>7
    <3>4. Store(k, Bufs, X, M)
      BY <1>6, <2>2, <2>4, <3>2, <3>3, StoreSett
    <3> QED
      BY <3>1, <3>4
  <2>7. /\ HeapOK(k) /\ Spare(k) = Spare(heap) /\ k.gref = heap.gref /\ ~k.bad
        /\ \A g \in Group : heap.gref[g] = 0 => k.grp[g] = heap.grp[g]
        /\ LiveIn(k) \subseteq size.memory
    <3>1. PICK a \in Nat, b \in Nat : a = 2 /\ b = 0
      OBVIOUS
    <3>2. Gave(heap, k, us, r, a, b) /\ a \in Nat
      BY <2>2, <3>1
    <3> QED
      BY <1>1, <1>4, <1>5, <1>11, <3>2, GaveRest
  <2>8. \A q \in Request : q # r => sett'[q] = sett[q]
    BY <1>4, <1>13
  <2> QED
    BY <1>12, <2>1, <2>6, <2>7, <2>8
<1>14. CASE /\ SetHeap(ReleaseBuffer(CreateBuffer(heap, u), u))
            /\ sett' = [sett EXCEPT ![r] = [at |-> u, held |-> FALSE]]
  <2>1. /\ k = ReleaseBuffer(CreateBuffer(heap, u), u)
        /\ wild' = IF k.bad THEN wild \cup {"buffer"} ELSE wild
    BY <1>3, <1>14 DEF SetHeap
  <2>2. /\ HeapOK(k) /\ Spare(k) = Spare(heap) /\ k.ref = heap.ref /\ k.maps = heap.maps
        /\ k.gref = heap.gref /\ k.grp = heap.grp /\ k.bad = heap.bad
    BY <1>4, <1>6, <1>7, <2>1, CreateRelease
  <2>3. PICK X : X = sett'
    OBVIOUS
  <2>4. Store(heap, Bufs, X, M)
    <3>1. u \in Buffer \cup {Nil} /\ u \notin ToSet(heap.grp[r])
      <4>1. u \notin Grouped(heap.grp)
        BY <1>4, <1>6, <1>7, Unheld
      <4> QED
        BY <1>4, <1>6, <4>1 DEF Grouped
    <3>2. X = [sett EXCEPT ![r] = [at |-> u, held |-> FALSE]]
      BY <1>14, <2>3
    <3> QED
      BY <1>4, <1>9, <3>1, <3>2, StoreForget
  <2>5. Store(k, Bufs, sett', M)
    BY <2>2, <2>3, <2>4, StoreSame
  <2>6. LiveIn(k) = LiveIn(heap)
    BY <2>2 DEF LiveIn
  <2>7. \A q \in Request : q # r => sett'[q] = sett[q]
    BY <1>4, <1>14
  <2> QED
    BY <1>4, <1>12, <2>1, <2>2, <2>5, <2>6, <2>7
<1> QED
  BY <1>2, <1>6, <1>13, <1>14

\* The last reference to the group of a request without planes and settings.
LEMMA RequestEnds ==
  ASSUME ListInv, StoreInv, wild = {}, NEW r \in Request, status[r] # "none",
         status[r] # "running",
         NEW d, NEW C, NEW X, Store(d, C, X, lost), d.gref = heap.gref,
         ~d.bad, LiveIn(d) \subseteq size.memory,
         C[r] = <<>>, ~X[r].held, NEW k, k = ReleaseGroup(d, r)
  PROVE  Ended(d, k, r) /\ Store(k, C, X, lost) /\ ~k.bad /\ LiveIn(k) \subseteq size.memory
<1>1. Groups /\ r \in Group
  BY Before
<1>2. heap.gref[r] = 1
  <2>1. r \notin ToSet(fifo)
    BY NoCommand
  <2> QED
    BY <1>1, <2>1 DEF Groups, One
<1>3. /\ HeapOK(d) /\ d.ref \in [Buffer -> Nat] /\ d.grp \in [Group -> Seq(Buffer)]
  BY StoreFields
<1>4. IsInjective(d.grp[r])
  <2>1. \A g \in Group : IsInjective(d.grp[g])
    BY <1>3, SingleFacts DEF Store
  <2> QED
    BY <1>1, <2>1
<1>5. \A u \in ToSet(d.grp[r]) : d.ref[u] > 0
  <2> SUFFICES ASSUME NEW u \in ToSet(d.grp[r]) PROVE d.ref[u] > 0
    OBVIOUS
  <2>1. u \in Buffer /\ u \in Grouped(d.grp)
    BY <1>1, <1>3, ToSetFacts DEF Grouped
  <2>2. d.ref[u] # 0
    BY <2>1, Unheld
  <2> QED
    BY <1>3, <2>1, <2>2
<1>6. Ended(d, k, r)
  <2>1. LastHeld(d, r)
    BY <1>2, <1>4, <1>5 DEF LastHeld
  <2> QED
    BY <1>1, <1>3, <2>1, GroupEnds
<1>7. Store(k, C, X, lost)
  BY <1>1, <1>6, StoreGroupEnds
<1>8. /\ k.bad = d.bad
      /\ k.ref = [u \in Buffer |-> IF u \in ToSet(d.grp[r]) THEN d.ref[u] - 1 ELSE d.ref[u]]
  BY <1>6 DEF Ended
<1>9. LiveIn(k) \subseteq size.memory
  <2>1. ASSUME NEW u \in Buffer, k.ref[u] > 0 PROVE d.ref[u] > 0
    <3>1. d.ref[u] \in Nat
      BY <1>3
    <3>2. k.ref[u] = IF u \in ToSet(d.grp[r]) THEN d.ref[u] - 1 ELSE d.ref[u]
      BY <1>8
    <3> QED
      BY <2>1, <3>1, <3>2
  <2> QED
    BY <2>1 DEF LiveIn
<1> QED
  BY <1>6, <1>7, <1>8, <1>9

\* What else giving back planes leaves as it should be.
LEMMA PlanesRest ==
  ASSUME NEW h, h.ref \in [Buffer -> Nat], NEW U, NEW k, Took(h, k, U, 2, 1)
  PROVE  /\ HeapOK(k) /\ Spare(k) = Spare(h) /\ k.gref = h.gref /\ k.grp = h.grp
         /\ k.bad = h.bad /\ LiveIn(k) \subseteq LiveIn(h)
<1>1. PICK x \in Nat, y \in Nat : x = 2 /\ y = 1
  OBVIOUS
<1>2. Took(h, k, U, x, y) /\ x \in Nat
  BY <1>1
<1> QED
  BY <1>2, TookRest

\* The planes of a request are given back.
LEMMA RequestFreed ==
  ASSUME StoreInv, wild = {}, NEW r \in Request, planes' = [planes EXCEPT ![r] = <<>>],
         tbufs' = tbufs, NEW c, c = DropBuffers(heap, r, planes[r])
  PROVE  /\ Store(c, Bufs', sett, lost) /\ Bufs'[r] = <<>>
         /\ HeapOK(c) /\ Spare(c) = Spare(heap) /\ c.gref = heap.gref /\ c.grp = heap.grp
         /\ ~c.bad /\ LiveIn(c) \subseteq size.memory
<1>4. /\ Store(heap, Bufs, sett, lost) /\ HeapOK(heap)
      /\ heap.grp \in [Group -> Seq(Buffer)] /\ heap.ref \in [Buffer -> Nat] /\ ~heap.bad
      /\ LiveIn(heap) \subseteq size.memory
      /\ tbufs \in Seq(Seq(Nat)) /\ planes \in [Request -> Seq(Seq(Nat))] /\ r \in Group
  BY Before
<1>5. PICK G \in [Group -> Seq(Buffer)] : G = heap.grp
  BY <1>4
<1>6. PICK B \in [Group -> Seq(Arrays)] : B = Bufs
  BY <1>4, BufsFacts
<1>7. PICK bufs \in Seq(Arrays) : bufs = planes[r]
  BY <1>4 DEF Arrays
<1>8. B[r] = bufs
  BY <1>4, <1>6, <1>7, BufsFacts
<1>9. PICK s \in Seq(Buffer) : s = G[r]
  BY <1>4, <1>5
<1>10. /\ Single(G) /\ AllInside(G, B) /\ Inside(s, bufs) /\ IsInjective(s)
       /\ PlanesIn(s, bufs) \subseteq Planes(G, B)
  <2>1. Single(G) /\ AllInside(G, B)
    BY <1>4, <1>5, <1>6 DEF Store, AllInside
  <2>2. Inside(s, bufs)
    BY <1>4, <1>8, <1>9, <2>1 DEF AllInside
  <2>3. IsInjective(s)
    <3>1. \A g \in Group : IsInjective(G[g])
      BY <1>5, <2>1, SingleFacts
    <3> QED
      BY <1>4, <1>9, <3>1
  <2>4. PlanesIn(s, bufs) \subseteq Planes(G, B)
    BY <1>4, <1>8, <1>9 DEF Planes
  <2> QED
    BY <2>1, <2>2, <2>3, <2>4
<1>11. PICK X : X = PlanesIn(s, bufs)
  OBVIOUS
<1>12. Took(heap, c, X, 2, 1)
  <2>1. AllWithin(bufs, s)
    BY <1>10 DEF Inside
  <2>2. \A a, m \in 1 .. Len(bufs) : \A j \in 1 .. Len(bufs[a]), i \in 1 .. Len(bufs[m]) :
          s[bufs[a][j]] = s[bufs[m][i]] => a = m /\ j = i
    <3> SUFFICES ASSUME NEW a \in 1 .. Len(bufs), NEW m \in 1 .. Len(bufs),
                        NEW j \in 1 .. Len(bufs[a]), NEW i \in 1 .. Len(bufs[m]),
                        s[bufs[a][j]] = s[bufs[m][i]]
                 PROVE  a = m /\ j = i
      OBVIOUS
    <3>1. bufs[a][j] \in DOMAIN s /\ bufs[m][i] \in DOMAIN s
      BY <2>1 DEF AllWithin, Within
    <3>2. bufs[a][j] = bufs[m][i]
      BY <1>10, <3>1 DEF IsInjective
    <3> QED
      BY <1>10, <3>2 DEF Inside, Different
  <2>3. \A a \in 1 .. Len(bufs) : \A j \in 1 .. Len(bufs[a]) : heap.ref[s[bufs[a][j]]] >= 2
    <3> SUFFICES ASSUME NEW a \in 1 .. Len(bufs), NEW j \in 1 .. Len(bufs[a])
                 PROVE  heap.ref[s[bufs[a][j]]] >= 2
      OBVIOUS
    <3>1. PICK u : u = s[bufs[a][j]]
      OBVIOUS
    <3>2. u \in PlanesIn(s, bufs)
      BY <3>1, PlanesInFacts
    <3>3. u \in Planes(heap.grp, Bufs)
      BY <1>5, <1>6, <1>10, <3>2
    <3>4. u \in Buffer /\ heap.ref[u] >= 3
      BY <1>4, <3>3, PlaneHeld
    <3>5. heap.ref[u] \in Nat
      BY <1>4, <3>4
    <3> QED
      BY <3>1, <3>4, <3>5
  <2>4. /\ AllWithin(bufs, heap.grp[r])
        /\ \A a, m \in 1 .. Len(bufs) : \A j \in 1 .. Len(bufs[a]), i \in 1 .. Len(bufs[m]) :
             heap.grp[r][bufs[a][j]] = heap.grp[r][bufs[m][i]] => a = m /\ j = i
        /\ \A a \in 1 .. Len(bufs) : \A j \in 1 .. Len(bufs[a]) :
             heap.ref[heap.grp[r][bufs[a][j]]] >= 2
    <3>1. s = heap.grp[r]
      BY <1>5, <1>9
    <3>2. AllWithin(bufs, heap.grp[r])
      BY <2>1, <3>1
    <3>3. \A a, m \in 1 .. Len(bufs) : \A j \in 1 .. Len(bufs[a]), i \in 1 .. Len(bufs[m]) :
            heap.grp[r][bufs[a][j]] = heap.grp[r][bufs[m][i]] => a = m /\ j = i
      BY <2>2, <3>1
    <3>4. \A a \in 1 .. Len(bufs) : \A j \in 1 .. Len(bufs[a]) :
            heap.ref[heap.grp[r][bufs[a][j]]] >= 2
      BY <2>3, <3>1
    <3> QED
      BY <3>2, <3>3, <3>4
  <2>5. bufs \in Seq(Seq(Nat))
    BY <1>7 DEF Arrays
  <2>6. Took(heap, DropBuffers(heap, r, bufs),
             UNION {Named(heap.grp[r], bufs[a]) : a \in 1 .. Len(bufs)}, 2, 1)
    BY <1>4, <2>4, <2>5, BuffersTook
  <2>7. UNION {Named(heap.grp[r], bufs[a]) : a \in 1 .. Len(bufs)} = X
    BY <1>5, <1>9, <1>11 DEF PlanesIn
  <2>8. c = DropBuffers(heap, r, bufs)
    BY <1>7
  <2> QED
    BY <2>6, <2>7, <2>8
<1>13. PICK C : C = Bufs'
  OBVIOUS
<1>14. \E e \in Seq(Arrays) : e = <<>> /\ Loses(G, B, r, e, X, C)
  <2>1. PICK e \in Seq(Arrays) : e = <<>>
    BY EmptyOf
  <2>2. planes' = [planes EXCEPT ![r] = e]
    BY <2>1
  <2>3. C = [B EXCEPT ![r] = e]
    BY <1>4, <1>6, <1>13, <2>2, BufsRequest
  <2>4. PlanesIn(s, e) = {} /\ Inside(s, e)
    BY <2>1, PlanesOfNone
  <2>5. Loses(G, B, r, e, X, C)
    BY <1>8, <1>9, <1>11, <2>3, <2>4 DEF Loses
  <2> QED
    BY <2>1, <2>5
<1>15. PICK e \in Seq(Arrays) : e = <<>> /\ Loses(G, B, r, e, X, C)
  BY <1>14
<1>16. Fewer(G, B, X, C)
  <2>1. G \in [Group -> Seq(Buffer)] /\ B \in [Group -> Seq(Arrays)] /\ e \in Seq(Arrays)
        /\ r \in Group
    BY <1>4, <1>5, <1>6, <1>15
  <2>2. Loses(G, B, r, e, X, C)
    BY <1>15
  <2> QED
    BY <1>10, <2>1, <2>2, PlanesChanged
<1>17. Store(c, C, sett, lost)
  <2>1. Fewer(heap.grp, Bufs, X, C)
    BY <1>5, <1>6, <1>16
  <2> QED
    BY <1>4, <1>12, <2>1, StoreFree
<1>18. C[r] = <<>>
  BY <1>4, <1>6, <1>15 DEF Loses
<1>19. /\ HeapOK(c) /\ Spare(c) = Spare(heap) /\ c.gref = heap.gref /\ c.grp = heap.grp
       /\ c.bad = heap.bad /\ LiveIn(c) \subseteq LiveIn(heap)
  <2>1. heap.ref \in [Buffer -> Nat]
    BY <1>4
  <2> QED
    BY <1>12, <2>1, PlanesRest
<1> QED
  BY <1>4, <1>13, <1>17, <1>18, <1>19

\* What else giving back a settings buffer leaves as it should be.
LEMMA SettRest ==
  ASSUME NEW h, h.ref \in [Buffer -> Nat], NEW U, NEW k, Took(h, k, U, 1, 0)
  PROVE  /\ HeapOK(k) /\ Spare(k) = Spare(h) /\ k.gref = h.gref /\ k.grp = h.grp
         /\ k.bad = h.bad /\ LiveIn(k) \subseteq LiveIn(h)
<1>1. PICK x \in Nat, y \in Nat : x = 1 /\ y = 0
  OBVIOUS
<1>2. Took(h, k, U, x, y) /\ x \in Nat
  BY <1>1
<1> QED
  BY <1>2, TookRest

\* The holders of groups after the release of a request.
LEMMA GroupsReleased ==
  ASSUME ListInv, Groups, NEW r \in Request, status[r] # "running",
         status' = [status EXCEPT ![r] = "none"],
         planes' = [planes EXCEPT ![r] = <<>>], planes \in [Request -> Seq(Seq(Nat))],
         sett' = [sett EXCEPT ![r] = NoSett], sett \in [Request -> SettRec],
         heap.gref \in [Group -> Nat], heap.grp \in [Group -> Seq(Buffer)],
         heap'.gref = [heap.gref EXCEPT ![r] = 0], heap'.grp = [heap.grp EXCEPT ![r] = <<>>],
         fifo' = fifo, task' = task, instance' = instance, tbufs' = tbufs
  PROVE  Groups'
<1>1. /\ TaskGroup \in Group /\ CallGroup \in Group /\ r # TaskGroup /\ r # CallGroup
      /\ Request \subseteq Group
  BY CsiAssumption
<1>2. status \in [Request -> Status]
  BY DEF ListInv, QueueTypes
<1>3. heap'.gref[r] = 0 /\ heap'.grp[r] = <<>>
  BY <1>1
<1>4. \A g \in Group : g # r => heap'.gref[g] = heap.gref[g] /\ heap'.grp[g] = heap.grp[g]
  OBVIOUS
<1>5. /\ status'[r] = "none" /\ planes'[r] = <<>> /\ sett'[r] = NoSett
      /\ \A q \in Request : q # r => /\ status'[q] = status[q] /\ planes'[q] = planes[q]
                                     /\ sett'[q] = sett[q]
  BY <1>2
<1>6. r \notin ToSet(fifo)
  BY NoCommand
<1>7. \A q \in Request : heap'.gref[q] = One(status'[q] # "none") + One(q \in ToSet(fifo'))
  <2> SUFFICES ASSUME NEW q \in Request
               PROVE  heap'.gref[q] = One(status'[q] # "none") + One(q \in ToSet(fifo))
    OBVIOUS
  <2>1. CASE q = r
    BY <1>3, <1>5, <1>6, <2>1 DEF One
  <2>2. CASE q # r
    <3>1. heap'.gref[q] = heap.gref[q] /\ status'[q] = status[q]
      BY <1>1, <1>4, <1>5, <2>2
    <3>2. heap.gref[q] = One(status[q] # "none") + One(q \in ToSet(fifo))
      BY DEF Groups
    <3> QED
      BY <3>1, <3>2
  <2> QED
    BY <2>1, <2>2
<1>8. heap'.gref[CallGroup] = heap.gref[CallGroup] /\ heap'.gref[TaskGroup] = heap.gref[TaskGroup]
  BY <1>1, <1>4
<1>9. \A g \in Group : heap'.gref[g] = 0 => heap'.grp[g] = <<>>
  <2> SUFFICES ASSUME NEW g \in Group, heap'.gref[g] = 0 PROVE heap'.grp[g] = <<>>
    OBVIOUS
  <2>1. CASE g = r
    BY <1>3, <2>1
  <2>2. CASE g # r
    <3>1. heap'.gref[g] = heap.gref[g] /\ heap'.grp[g] = heap.grp[g]
      BY <1>4, <2>2
    <3> QED
      BY <3>1 DEF Groups
  <2> QED
    BY <2>1, <2>2
<1>10. \A q \in Request : status'[q] = "none" => planes'[q] = <<>> /\ sett'[q] = NoSett
  <2> SUFFICES ASSUME NEW q \in Request, status'[q] = "none"
               PROVE  planes'[q] = <<>> /\ sett'[q] = NoSett
    OBVIOUS
  <2>1. CASE q = r
    BY <1>5, <2>1
  <2>2. CASE q # r
    <3>1. status[q] = "none" /\ planes'[q] = planes[q] /\ sett'[q] = sett[q]
      BY <1>5, <2>2
    <3>2. planes[q] = <<>> /\ sett[q] = NoSett
      BY <3>1 DEF Groups
    <3> QED
      BY <3>1, <3>2
  <2> QED
    BY <2>1, <2>2
<1> QED
  BY <1>7, <1>8, <1>9, <1>10 DEF Groups

\* Settings whose buffer is not the request's any more, and is a member of the
\* group all the same, have no other holder: the buffer is freed with the group
\* still naming it.
LEMMA StaleReleased ==
  ASSUME NEW c, NEW C, NEW T, NEW L, Store(c, C, T, L), NEW r \in Request,
         C[r] = <<>>, ~T[r].held, NEW v, v = T[r].at, v \in ToSet(c.grp[r]),
         c.gref[r] = 1, NEW k, k = ReleaseGroup(ReleaseBuffer(c, v), r)
  PROVE  HeapOK(k) /\ k.maps = c.maps /\ k.bad /\ v \in Buffer
<1>1. /\ HeapOK(c) /\ c \in HeapRec /\ c.ref \in [Buffer -> Nat]
      /\ c.grp \in [Group -> Seq(Buffer)]
      /\ T \in [Request -> SettRec] /\ r \in Group
  BY StoreFields, CsiAssumption
<1>2. Single(c.grp) /\ \A g \in Group : Inside(c.grp[g], C[g])
  BY DEF Store
<1>3. v \in Buffer /\ v \in Grouped(c.grp)
  BY <1>1, ToSetFacts DEF Grouped
<1>4. v \notin Planes(c.grp, C)
  <2>1. PlanesIn(c.grp[r], C[r]) = {}
    BY PlanesOfNone
  <2>2. v \in Planes(c.grp, C) <=> v \in PlanesIn(c.grp[r], C[r])
    BY <1>1, <1>2, PlaneFacts
  <2> QED
    BY <2>1, <2>2
<1>5. v \notin Setts(T)
  <2> SUFFICES ASSUME NEW q \in Request, T[q].held, T[q].at = v PROVE FALSE
    BY DEF Setts
  <2>1. q = r
    BY <1>1, SettFacts
  <2> QED
    BY <2>1
<1>6. c.maps[v] = 0 /\ L[v] = 0
  <2>1. L[v] = 0 /\ c.maps[v] = One(v \in Planes(c.grp, C))
    BY DEF Store, Stale
  <2> QED
    BY <1>4, <2>1 DEF One
<1>7. c.ref[v] = 1
  <2>1. c.ref[v] = One(v \in Grouped(c.grp)) + c.maps[v]
              + One(v \in Planes(c.grp, C)) + One(v \in Setts(T)) + L[v]
    BY <1>3, Account
  <2> QED
    BY <1>3, <1>4, <1>5, <1>6, <2>1 DEF One
<1>8. PICK d : d = ReleaseBuffer(c, v)
  OBVIOUS
<1>9. HeapOK(d) /\ d.maps = c.maps /\ d.gref = c.gref /\ d.grp = c.grp
  BY <1>1, <1>3, <1>8, ReleaseFields, ReleaseSpare
<1>10. d.ref[v] = 0
  <2>1. d.ref = [c.ref EXCEPT ![v] = IF c.ref[v] = 0 THEN 0 ELSE c.ref[v] - 1]
    BY <1>1, <1>3, <1>8, ReleaseFields
  <2> QED
    BY <1>1, <1>3, <1>7, <2>1
<1>11. k = ReleaseGroup(d, r)
  BY <1>8
<1>12. /\ HeapOK(k) /\ k.maps = d.maps
       /\ (\E u \in ToSet(d.grp[r]) : d.ref[u] = 0) => k.bad
  BY <1>1, <1>9, <1>11, GroupGone
<1> QED
  BY <1>3, <1>9, <1>10, <1>12

\* csi_dsp_task_release_request
LEMMA ReleaseRequestStore ==
  ASSUME ListInv, StoreInv, NEW r \in Request, ReleaseRequest(r)
  PROVE  StoreInv'
<1>1. /\ wild = {} /\ status[r] # "none" /\ status[r] # "running"
      /\ size' = size /\ instance' = instance /\ tbufs' = tbufs
      /\ task' = task /\ fifo' = fifo /\ lost' = lost
      /\ status' = [status EXCEPT ![r] = "none"]
      /\ planes' = [planes EXCEPT ![r] = <<>>]
      /\ sett' = [sett EXCEPT ![r] = NoSett]
      /\ slips' = IF sett[r].at # Nil /\ ~sett[r].held /\ wild' # {} THEN {"sett"} ELSE slips
      /\ heap' = ReleaseGroup(SettReleased(DropBuffers(heap, r, planes[r]), r), r)
      /\ wild' = IF heap'.bad THEN wild \cup {"buffer"} ELSE wild
  BY DEF ReleaseRequest, Owned, SetHeap, queue
<1>2. PICK c : c = DropBuffers(heap, r, planes[r])
  OBVIOUS
<1>3. PICK C : C = Bufs'
  OBVIOUS
<1>4. PICK X : X = sett'
  OBVIOUS
<1>5. PICK k : k = heap'
  OBVIOUS
<1>6. /\ Sound /\ HeapTypes /\ Groups
      /\ heap.gref \in [Group -> Nat] /\ heap.grp \in [Group -> Seq(Buffer)]
      /\ Spare(heap) = 2 * One(instance) + One(task # "none")
      /\ instance \in BOOLEAN /\ task \in {"none", "new", "ready"} /\ slips = {}
      /\ tbufs \in Seq(Seq(Nat)) /\ planes \in [Request -> Seq(Seq(Nat))]
      /\ sett \in [Request -> SettRec] /\ r \in Group
  BY <1>1, Before
<1>7. /\ Store(c, C, sett, lost) /\ C[r] = <<>>
      /\ HeapOK(c) /\ Spare(c) = Spare(heap) /\ c.gref = heap.gref /\ c.grp = heap.grp
      /\ ~c.bad /\ LiveIn(c) \subseteq size.memory
  BY <1>1, <1>2, <1>3, RequestFreed
<1>8. k = ReleaseGroup(SettReleased(c, r), r)
  BY <1>1, <1>2, <1>5
<1>9. planes' \in [Request -> Seq(Seq(Nat))]
  <2>1. PICK e \in Seq(Seq(Nat)) : e = <<>>
    BY EmptyOf
  <2> QED
    BY <1>1, <1>6, <2>1
<1>10. X = [sett EXCEPT ![r] = NoSett]
  BY <1>1, <1>4
<1>11. ASSUME NEW d, Store(d, C, X, lost), d.gref = heap.gref, d.grp = heap.grp,
              Spare(d) = Spare(heap), ~d.bad, LiveIn(d) \subseteq size.memory,
              k = ReleaseGroup(d, r)
       PROVE  StoreInv'
  <2>1. ~X[r].held
    BY <1>6, <1>10 DEF NoSett
  <2>2. Ended(d, k, r) /\ Store(k, C, X, lost) /\ ~k.bad /\ LiveIn(k) \subseteq size.memory
    BY <1>1, <1>7, <1>11, <2>1, RequestEnds
  <2>3. /\ Spare(k) = Spare(heap) /\ k.gref = [heap.gref EXCEPT ![r] = 0]
        /\ k.grp = [heap.grp EXCEPT ![r] = <<>>]
    BY <1>11, <2>2 DEF Ended
  <2>4. Groups'
    BY <1>1, <1>5, <1>6, <2>3, GroupsReleased
  <2>5. wild' = {} /\ slips' = slips
    BY <1>1, <1>5, <2>2
  <2>6. Spare(k) = 2 * One(instance') + One(task' # "none")
    BY <1>1, <1>6, <2>3
  <2> QED
    BY <1>1, <1>3, <1>4, <1>5, <1>6, <1>9, <2>2, <2>4, <2>5, <2>6, Steady
<1>12. CASE sett[r].held
  <2>1. PICK v : v = sett[r].at
    OBVIOUS
  <2>2. v \in ToSet(c.grp[r]) /\ v \in Buffer /\ v \in Setts(sett)
    BY <1>7, <1>12, <2>1, SettFacts DEF Store
  <2>3. PICK d : d = ReleaseBuffer(c, v)
    OBVIOUS
  <2>4. c.ref \in [Buffer -> Nat]
    BY <1>7, StoreFields
  <2>5. c.ref[v] > 0
    <3>1. c.ref[v] # 0
      BY <1>7, <2>2, Unheld
    <3> QED
      BY <2>2, <2>4, <3>1
  <2>6. PICK V : V = {v}
    OBVIOUS
  <2>7. Took(c, d, V, 1, 0)
    <3>1. Took(c, ReleaseBuffer(c, v), {v}, 1, 0)
      BY <1>7, <2>2, <2>5, ReleaseTook
    <3> QED
      BY <2>3, <2>6, <3>1
  <2>8. Store(d, C, X, lost)
    BY <1>7, <1>10, <1>12, <2>1, <2>6, <2>7, StoreSettDrop
  <2>9. /\ Spare(d) = Spare(c) /\ d.gref = c.gref /\ d.grp = c.grp
        /\ d.bad = c.bad /\ LiveIn(d) \subseteq LiveIn(c)
    BY <2>4, <2>7, SettRest
  <2>10. k = ReleaseGroup(d, r)
    BY <1>8, <2>1, <2>2, <2>3 DEF SettReleased
  <2> QED
    BY <1>7, <1>11, <2>8, <2>9, <2>10
<1>13. CASE ~sett[r].held /\ sett[r].at \notin ToSet(c.grp[r])
  <2>1. k = ReleaseGroup(c, r)
    BY <1>8, <1>13 DEF SettReleased
  <2>2. Store(c, C, X, lost)
    <3>1. Nil \in Buffer \cup {Nil} /\ Nil \notin ToSet(c.grp[r])
      BY <1>6, <1>7, ToSetFacts, CsiAssumption
    <3>2. X = [sett EXCEPT ![r] = [at |-> Nil, held |-> FALSE]]
      BY <1>10 DEF NoSett
    <3>3. PICK M : M = lost
      OBVIOUS
    <3>4. M = IF sett[r].held THEN [lost EXCEPT ![sett[r].at] = lost[sett[r].at] + 1] ELSE lost
      BY <1>13, <3>3
    <3>5. Store(c, C, X, M)
      BY <1>7, <3>1, <3>2, <3>4, StoreForget
    <3> QED
      BY <3>3, <3>5
  <2> QED
    BY <1>7, <1>11, <2>1, <2>2
<1>14. CASE ~sett[r].held /\ sett[r].at \in ToSet(c.grp[r])
  <2>1. PICK v : v = sett[r].at
    OBVIOUS
  <2>2. k = ReleaseGroup(ReleaseBuffer(c, v), r)
    BY <1>8, <1>14, <2>1 DEF SettReleased
  <2>3. c.gref[r] = 1
    <3>1. r \notin ToSet(fifo)
      BY <1>1, NoCommand
    <3> QED
      BY <1>1, <1>6, <1>7, <3>1 DEF Groups, One
  <2>4. HeapOK(k) /\ k.maps = c.maps /\ k.bad /\ v \in Buffer
    BY <1>7, <1>14, <2>1, <2>2, <2>3, StaleReleased
  <2>5. c.maps \in [Buffer -> Nat]
    BY <1>7, StoreFields
  <2>6. wild' = {"buffer"} /\ slips' = {"sett"}
    <3>1. wild' = {"buffer"}
      BY <1>1, <1>5, <2>4
    <3>2. sett[r].at # Nil
      BY <2>1, <2>4, CsiAssumption
    <3> QED
      BY <1>1, <1>14, <3>1, <3>2
  <2>7. sett' \in [Request -> SettRec] /\ lost' \in [Buffer -> Nat]
    <3>1. NoSett \in SettRec
      BY DEF NoSett, SettRec
    <3> QED
      BY <1>1, <1>6, <3>1 DEF HeapTypes
  <2>8. HeapTypes'
    BY <1>1, <1>5, <1>6, <1>9, <2>4, <2>5, <2>6, <2>7 DEF HeapTypes
  <2> QED
    BY <2>6, <2>8 DEF StoreInv, MemorySafe
<1> QED
  BY <1>12, <1>13, <1>14

(***************************************************************************)
(* Memory and the calls about the algorithm of the task.                   *)
(***************************************************************************)

\* The heap with the group of a call, whose members are the new buffers us.
Called(h, us) ==
  /\ HeapOK(h) /\ Spare(h) = Spare(heap) /\ ~h.bad /\ h.maps = heap.maps
  /\ h.gref[CallGroup] = 1 /\ h.grp[CallGroup] = us
  /\ \A g \in Group \ {CallGroup} : h.gref[g] = heap.gref[g] /\ h.grp[g] = heap.grp[g]
  /\ \A u \in Buffer : h.ref[u] = IF u \in ToSet(us) THEN 2 ELSE heap.ref[u]

\* One reference to each buffer of U.
Ones(d, U) == d = [u \in Buffer |-> IF u \in U THEN 1 ELSE 0]

\* The heap without the group of the call, where d is what is left of the
\* references to its buffers us.
Back(us, k, d) ==
  /\ HeapOK(k) /\ Spare(k) = Spare(heap) /\ k.maps = heap.maps /\ ~k.bad
  /\ k.gref = heap.gref /\ k.grp = heap.grp /\ d \in [Buffer -> Nat]
  /\ \A u \in Buffer : k.ref[u] = heap.ref[u] + d[u]
  /\ \A u \in Buffer : d[u] # 0 => u \in ToSet(us)

\* The group of a call is there only during the call.
LEMMA NoCall ==
  ASSUME StoreInv, wild = {}
  PROVE  heap.gref[CallGroup] = 0 /\ heap.grp[CallGroup] = <<>>
<1>1. Groups /\ CallGroup \in Group
  BY Before
<1> QED
  BY <1>1 DEF Groups

\* A call creates its group and its buffers.
LEMMA CallMade ==
  ASSUME StoreInv, wild = {}, NEW us \in Seq(Buffer), IsInjective(us), Unused(heap, us),
         NEW h, h = CallBuffers(us)
  PROVE  Called(h, us)
<1>1. /\ HeapOK(heap) /\ ~heap.bad /\ CallGroup \in Group
      /\ heap.gref \in [Group -> Nat] /\ heap.grp \in [Group -> Seq(Buffer)]
      /\ heap.ref \in [Buffer -> Nat] /\ heap.maps \in [Buffer -> Nat]
  BY Before
<1>2. PICK c : c = CreateGroup(heap, CallGroup)
  OBVIOUS
<1>3. PICK x \in Nat, e \in Seq(Buffer) :
        x = 1 /\ e = <<>> /\ CreateGroup(heap, CallGroup) = Regroup(heap, CallGroup, x, e)
  BY GroupCreated
<1>4. /\ HeapOK(c) /\ Spare(c) = Spare(heap) /\ c.ref = heap.ref /\ c.maps = heap.maps
      /\ c.gref = [heap.gref EXCEPT ![CallGroup] = x]
      /\ c.grp = [heap.grp EXCEPT ![CallGroup] = e] /\ c.bad = heap.bad
  <2>1. c = Regroup(heap, CallGroup, x, e)
    BY <1>2, <1>3
  <2>2. x \in Nat /\ e \in Seq(Buffer) /\ CallGroup \in Group /\ HeapOK(heap)
    BY <1>1, <1>3
  <2> QED
    BY <2>1, <2>2, GroupsOK
<1>5. Gave(c, h, us, CallGroup, 2, 0)
  <2>1. \A u \in ToSet(us) : c.ref[u] = 0
    BY <1>4 DEF Unused
  <2> QED
    BY <1>1, <1>2, <1>4, <2>1, CallGave
<1>6. PICK w : w = e \o us
  OBVIOUS
<1>7. w = us
  <2>1. us \in Seq(Buffer) /\ e = <<>>
    BY <1>3
  <2> QED
    BY <1>6, <2>1
<1>8. c.gref[CallGroup] = 1 /\ c.grp[CallGroup] = e
      /\ \A g \in Group \ {CallGroup} : c.gref[g] = heap.gref[g] /\ c.grp[g] = heap.grp[g]
  BY <1>1, <1>3, <1>4
<1>9. /\ HeapOK(h) /\ Spare(h) = Spare(c) /\ h.gref = c.gref /\ h.bad = c.bad
      /\ h.grp = [c.grp EXCEPT ![CallGroup] = c.grp[CallGroup] \o us]
  BY <1>5 DEF Gave
<1>10. h.ref = [u \in Buffer |-> IF u \in ToSet(us) THEN 2 ELSE c.ref[u]]
  BY <1>5 DEF Gave
<1>11. h.maps = [u \in Buffer |-> IF u \in ToSet(us) THEN c.maps[u] + 0 ELSE c.maps[u]]
  BY <1>5 DEF Gave
<1>12. h.maps = heap.maps
  BY <1>1, <1>4, <1>11
<1>13. h.grp[CallGroup] = us /\ \A g \in Group \ {CallGroup} : h.grp[g] = heap.grp[g]
  <2>1. h.grp = [c.grp EXCEPT ![CallGroup] = w]
    BY <1>6, <1>8, <1>9
  <2>2. c.grp \in [Group -> Seq(Buffer)]
    BY <1>4, HeapFields DEF HeapOK
  <2> QED
    BY <1>1, <1>7, <1>8, <2>1, <2>2
<1> QED
  BY <1>1, <1>4, <1>8, <1>9, <1>10, <1>12, <1>13 DEF Called

\* The end of a call: of the buffers us, those in V were released by name.
LEMMA CallEnds ==
  ASSUME StoreInv, wild = {}, NEW us \in Seq(Buffer), IsInjective(us), Unused(heap, us),
         NEW h, Called(h, us), NEW V, V \subseteq ToSet(us),
         NEW d, Took(h, d, V, 1, 0), NEW k, k = ReleaseGroup(d, CallGroup),
         NEW e, Ones(e, ToSet(us) \ V)
  PROVE  Back(us, k, e)
<1>1. /\ HeapOK(heap) /\ CallGroup \in Group
      /\ heap.gref \in [Group -> Nat] /\ heap.grp \in [Group -> Seq(Buffer)]
      /\ heap.ref \in [Buffer -> Nat] /\ heap.maps \in [Buffer -> Nat]
  BY Before
<1>2. /\ HeapOK(h) /\ Spare(h) = Spare(heap) /\ ~h.bad /\ h.maps = heap.maps
      /\ h.gref[CallGroup] = 1 /\ h.grp[CallGroup] = us
      /\ \A g \in Group \ {CallGroup} : h.gref[g] = heap.gref[g] /\ h.grp[g] = heap.grp[g]
      /\ \A u \in Buffer : h.ref[u] = IF u \in ToSet(us) THEN 2 ELSE heap.ref[u]
  BY DEF Called
<1>3. /\ h.gref \in [Group -> Nat] /\ h.grp \in [Group -> Seq(Buffer)]
      /\ h.ref \in [Buffer -> Nat]
  BY <1>2, HeapFields DEF HeapOK
<1>4. /\ HeapOK(d) /\ Spare(d) = Spare(h) /\ d.gref = h.gref /\ d.grp = h.grp
      /\ d.bad = h.bad
  BY DEF Took
<1>5. d.ref = [u \in Buffer |-> IF u \in V THEN h.ref[u] - 1 ELSE h.ref[u]]
  BY DEF Took
<1>6. d.maps = heap.maps
  <2>1. d.maps = [u \in Buffer |-> IF u \in V THEN h.maps[u] - 0 ELSE h.maps[u]]
    BY DEF Took
  <2> QED
    BY <1>1, <1>2, <2>1
<1>7. \A u \in ToSet(us) : u \in Buffer /\ heap.ref[u] = 0
  BY ToSetFacts DEF Unused
<1>8. \A u \in ToSet(us) : d.ref[u] = (IF u \in V THEN 1 ELSE 2)
  BY <1>2, <1>5, <1>7
<1>9. Ended(d, k, CallGroup)
  <2>1. d.gref[CallGroup] = 1
    BY <1>2, <1>4
  <2>2. IsInjective(d.grp[CallGroup])
    BY <1>2, <1>4
  <2>3. \A u \in ToSet(d.grp[CallGroup]) : d.ref[u] > 0
    BY <1>2, <1>4, <1>8
  <2>4. LastHeld(d, CallGroup)
    BY <2>1, <2>2, <2>3 DEF LastHeld
  <2> QED
    BY <1>1, <1>4, <2>4, GroupEnds
<1>10. /\ HeapOK(k) /\ Spare(k) = Spare(d) /\ k.bad = d.bad /\ k.maps = d.maps
       /\ k.gref = [d.gref EXCEPT ![CallGroup] = 0]
  BY <1>9 DEF Ended
<1>11. k.grp = [d.grp EXCEPT ![CallGroup] = <<>>]
  BY <1>9 DEF Ended
<1>12. k.ref = [u \in Buffer |-> IF u \in ToSet(d.grp[CallGroup]) THEN d.ref[u] - 1 ELSE d.ref[u]]
  BY <1>9 DEF Ended
<1>13. k.gref = heap.gref
  <2>1. k.gref = [h.gref EXCEPT ![CallGroup] = 0] /\ heap.gref[CallGroup] = 0
    BY <1>4, <1>10, NoCall
  <2>2. /\ heap.gref \in [Group -> Nat] /\ h.gref \in [Group -> Nat] /\ CallGroup \in Group
        /\ \A g \in Group \ {CallGroup} : h.gref[g] = heap.gref[g]
    BY <1>1, <1>2, <1>3
  <2>3. PICK f, m, p : f = heap.gref /\ m = h.gref /\ p = k.gref
    OBVIOUS
  <2>4. \A g \in Group : p[g] = f[g]
    BY <2>1, <2>2, <2>3
  <2> QED
    BY <2>1, <2>2, <2>3, <2>4
<1>14. k.grp = heap.grp
  <2>1. PICK z \in Seq(Buffer) : z = <<>>
    BY EmptyOf
  <2>2. k.grp = [h.grp EXCEPT ![CallGroup] = z] /\ heap.grp[CallGroup] = z
    BY <1>4, <1>11, <2>1, NoCall
  <2>3. /\ heap.grp \in [Group -> Seq(Buffer)] /\ h.grp \in [Group -> Seq(Buffer)]
        /\ CallGroup \in Group /\ \A g \in Group \ {CallGroup} : h.grp[g] = heap.grp[g]
    BY <1>1, <1>2, <1>3
  <2>4. PICK f, m, p : f = heap.grp /\ m = h.grp /\ p = k.grp
    OBVIOUS
  <2>5. \A g \in Group : p[g] = f[g]
    BY <2>2, <2>3, <2>4
  <2> QED
    BY <2>2, <2>3, <2>4, <2>5
<1>15. \A u \in Buffer : k.ref[u] = heap.ref[u] + IF u \in ToSet(us) \ V THEN 1 ELSE 0
  <2> SUFFICES ASSUME NEW u \in Buffer
               PROVE  k.ref[u] = heap.ref[u] + IF u \in ToSet(us) \ V THEN 1 ELSE 0
    OBVIOUS
  <2>1. k.ref[u] = IF u \in ToSet(us) THEN d.ref[u] - 1 ELSE d.ref[u]
    BY <1>2, <1>4, <1>12
  <2>2. CASE u \in ToSet(us)
    BY <1>7, <1>8, <2>1, <2>2
  <2>3. CASE u \notin ToSet(us)
    <3>1. u \notin V /\ d.ref[u] = heap.ref[u] /\ heap.ref[u] \in Nat
      BY <1>1, <1>2, <1>5, <2>3
    <3> QED
      BY <2>1, <2>3, <3>1
  <2> QED
    BY <2>2, <2>3
<1>16. e = [u \in Buffer |-> IF u \in ToSet(us) \ V THEN 1 ELSE 0]
  BY DEF Ones
<1>17. e \in [Buffer -> Nat] /\ \A u \in Buffer : e[u] # 0 => u \in ToSet(us)
  BY <1>16
<1>18. \A u \in Buffer : k.ref[u] = heap.ref[u] + e[u]
  BY <1>15, <1>16
<1> QED
  BY <1>2, <1>4, <1>6, <1>10, <1>13, <1>14, <1>17, <1>18 DEF Back

\* The state after a call: some references to its buffers may be forgotten.
LEMMA CallOver ==
  ASSUME StoreInv, wild = {}, NEW us \in Seq(Buffer), Unused(heap, us),
         ToSet(us) \subseteq size.memory, NEW k, k = heap', NEW d, Back(us, k, d),
         NEW M, M = lost', M = [u \in Buffer |-> lost[u] + d[u]],
         wild' = IF k.bad THEN wild \cup {"buffer"} ELSE wild,
         task # "none", task' \in {task, "ready"},
         UNCHANGED <<size, instance, status, planes, tbufs, sett, fifo, slips>>
  PROVE  StoreInv'
<1>0. /\ HeapOK(k) /\ Spare(k) = Spare(heap) /\ k.maps = heap.maps /\ ~k.bad
      /\ k.gref = heap.gref /\ k.grp = heap.grp /\ d \in [Buffer -> Nat]
      /\ \A u \in Buffer : k.ref[u] = heap.ref[u] + d[u]
      /\ \A u \in Buffer : d[u] # 0 => u \in ToSet(us)
  BY DEF Back
<1>1. /\ Sound /\ Groups /\ Store(heap, Bufs, sett, lost)
      /\ Spare(heap) = 2 * One(instance) + One(task # "none")
      /\ LiveIn(heap) \subseteq size.memory /\ heap.ref \in [Buffer -> Nat]
      /\ tbufs \in Seq(Seq(Nat)) /\ planes \in [Request -> Seq(Seq(Nat))]
      /\ instance \in BOOLEAN /\ task \in {"none", "new", "ready"}
  BY Before
<1>2. task' # "none" /\ task' \in {"none", "new", "ready"} /\ wild' = {}
  BY <1>0, <1>1
<1>4. Store(k, Bufs, sett, M)
  <2>1. \A u \in Buffer : d[u] # 0 => heap.ref[u] = 0
    BY <1>0 DEF Unused
  <2>2. Forgot(heap, k, lost, d, M)
    BY <1>0, <2>1 DEF Forgot
  <2> QED
    BY <1>1, <2>2, StoreLose
<1>5. LiveIn(k) \subseteq size.memory
  <2> SUFFICES ASSUME NEW u \in Buffer, k.ref[u] > 0 PROVE u \in size.memory
    BY DEF LiveIn
  <2>1. CASE d[u] = 0
    <3>1. heap.ref[u] > 0
      BY <1>0, <1>1, <2>1
    <3> QED
      BY <1>1, <3>1 DEF LiveIn
  <2>2. CASE d[u] # 0
    BY <1>0, <2>2
  <2> QED
    BY <2>1, <2>2
<1>6. Bufs' = Bufs
  BY DEF Bufs
<1>7. Groups'
  BY <1>0, <1>1, <1>2, GroupsKept DEF Groups
<1>8. Spare(k) = 2 * One(instance') + One(task' # "none")
  BY <1>0, <1>1, <1>2
<1> QED
  BY <1>0, <1>1, <1>2, <1>4, <1>5, <1>6, <1>7, <1>8, Steady

\* csi_dsp_task_config_algo: the buffers by name, and how the call ends.
LEMMA ConfigAlgoParts ==
  ASSUME ConfigAlgo
  PROVE  /\ task # "none" /\ wild = {}
         /\ UNCHANGED <<size, instance, status, planes, tbufs, sett, queue, slips>>
         /\ \E n \in Nat : \E us \in Fresh(n) : \E D :
              /\ SetHeap(ReleaseGroup(ReleaseOf(CallBuffers(us), us, D), CallGroup))
              /\ lost' = [u \in Buffer |-> lost[u] + IF u \in ToSet(us) \ D THEN 1 ELSE 0]
              /\ task' \in {task, "ready"}
<1>1. PICK given \in SUBSET Part, out \in {"ok", "cmd"} \cup Part :
        LET created == {p \in given : out \in Part => Turn[p] < Turn[out]}
            place(p) == Cardinality({q \in created : Turn[q] <= Turn[p]})
        IN /\ out \in given \cup {"ok", "cmd"}
           /\ \E us \in Fresh(Cardinality(created)) :
                LET drops == {us[place(p)] : p \in created \cap ConfigAlgoDrops(out)}
                IN /\ SetHeap(ReleaseGroup(ReleaseOf(CallBuffers(us), us, drops), CallGroup))
                   /\ lost' = [u \in Buffer |->
                        lost[u] + IF u \in ToSet(us) \ drops THEN 1 ELSE 0]
           /\ task' = IF out = "ok" THEN "ready" ELSE task
  BY DEF ConfigAlgo
<1> DEFINE created == {p \in given : out \in Part => Turn[p] < Turn[out]}
           place(p) == Cardinality({q \in created : Turn[q] <= Turn[p]})
<1>2. PICK us \in Fresh(Cardinality(created)) :
        LET drops == {us[place(p)] : p \in created \cap ConfigAlgoDrops(out)}
        IN /\ SetHeap(ReleaseGroup(ReleaseOf(CallBuffers(us), us, drops), CallGroup))
           /\ lost' = [u \in Buffer |-> lost[u] + IF u \in ToSet(us) \ drops THEN 1 ELSE 0]
  BY <1>1
<1>3. PICK D : D = {us[place(p)] : p \in created \cap ConfigAlgoDrops(out)}
  OBVIOUS
<1>4. /\ SetHeap(ReleaseGroup(ReleaseOf(CallBuffers(us), us, D), CallGroup))
      /\ lost' = [u \in Buffer |-> lost[u] + IF u \in ToSet(us) \ D THEN 1 ELSE 0]
  BY <1>2, <1>3
<1>5. Cardinality(created) \in Nat
  <2>1. IsFiniteSet(Part)
    <3>1. IsFiniteSet({"sett"})
      BY FS_Singleton
    <3>2. IsFiniteSet({"sett"} \cup {"bufs"})
      BY <3>1, FS_AddElement
    <3>3. IsFiniteSet(({"sett"} \cup {"bufs"}) \cup {"algo"})
      BY <3>2, FS_AddElement
    <3>4. Part = ({"sett"} \cup {"bufs"}) \cup {"algo"}
      BY DEF Part
    <3> QED
      BY <3>3, <3>4
  <2>2. created \subseteq Part
    BY <1>1
  <2>3. IsFiniteSet(created)
    BY <2>1, <2>2, FS_Subset
  <2> QED
    BY <2>3, FS_CardinalityType
<1>6. task' \in {task, "ready"}
  BY <1>1
<1>7. /\ task # "none" /\ wild = {}
      /\ UNCHANGED <<size, instance, status, planes, tbufs, sett, queue, slips>>
  BY DEF ConfigAlgo, content
<1> HIDE DEF created
<1> QED
  BY <1>2, <1>4, <1>5, <1>6, <1>7

\* csi_dsp_task_config_algo
LEMMA ConfigAlgoStore ==
  ASSUME StoreInv, ConfigAlgo
  PROVE  StoreInv'
<1>1. /\ task # "none" /\ wild = {}
      /\ UNCHANGED <<size, instance, status, planes, tbufs, sett, fifo, slips>>
  BY ConfigAlgoParts DEF queue
<1>2. PICK n \in Nat : \E us \in Fresh(n) : \E D :
        /\ SetHeap(ReleaseGroup(ReleaseOf(CallBuffers(us), us, D), CallGroup))
        /\ lost' = [u \in Buffer |-> lost[u] + IF u \in ToSet(us) \ D THEN 1 ELSE 0]
        /\ task' \in {task, "ready"}
  BY ConfigAlgoParts
<1>3. PICK us, D :
        /\ us \in Fresh(n)
        /\ SetHeap(ReleaseGroup(ReleaseOf(CallBuffers(us), us, D), CallGroup))
        /\ lost' = [u \in Buffer |-> lost[u] + IF u \in ToSet(us) \ D THEN 1 ELSE 0]
        /\ task' \in {task, "ready"}
  BY <1>2
<1>4. us \in Seq(Buffer) /\ IsInjective(us) /\ Unused(heap, us) /\ ToSet(us) \subseteq size.memory
  <2>1. HeapTypes /\ us \in Fresh(n)
    BY <1>3 DEF StoreInv
  <2> QED
    BY <2>1, FreshFacts
<1>5. PICK h : h = CallBuffers(us)
  OBVIOUS
<1>6. PICK d : d = ReleaseOf(h, us, D)
  OBVIOUS
<1>7. PICK k : k = heap'
  OBVIOUS
<1>8. /\ k = ReleaseGroup(d, CallGroup)
      /\ wild' = IF k.bad THEN wild \cup {"buffer"} ELSE wild
  BY <1>3, <1>5, <1>6, <1>7 DEF SetHeap
<1>9. Called(h, us)
  BY <1>1, <1>4, <1>5, CallMade
<1>10. PICK V : V = ToSet(us) \cap D
  OBVIOUS
<1>11. Took(h, d, V, 1, 0)
  <2>1. HeapOK(h) /\ \A u \in ToSet(us) \cap D : h.ref[u] > 0
    BY <1>4, <1>9, ToSetFacts DEF Called
  <2>2. Took(h, ReleaseOf(h, us, D), ToSet(us) \cap D, 1, 0)
    BY <1>4, <2>1, OfTook
  <2> QED
    BY <1>6, <1>10, <2>2
<1>12. PICK e : e = [u \in Buffer |-> IF u \in ToSet(us) \ V THEN 1 ELSE 0]
  OBVIOUS
<1>13. Back(us, k, e)
  <2>1. Ones(e, ToSet(us) \ V)
    BY <1>12 DEF Ones
  <2>2. V \subseteq ToSet(us) /\ k = ReleaseGroup(d, CallGroup) /\ wild = {}
    BY <1>1, <1>8, <1>10
  <2> QED
    BY <1>4, <1>9, <1>11, <2>1, <2>2, CallEnds
<1>14. PICK M : M = lost'
  OBVIOUS
<1>15. M = [u \in Buffer |-> lost[u] + e[u]]
  <2>1. \A u \in Buffer : e[u] = IF u \in ToSet(us) \ D THEN 1 ELSE 0
    BY <1>10, <1>12
  <2> QED
    BY <1>3, <1>14, <2>1
<1>16. task' \in {task, "ready"}
  BY <1>3
<1> QED
  BY <1>1, <1>4, <1>7, <1>8, <1>13, <1>14, <1>15, <1>16, CallOver

\* csi_dsp_task_acquire_algo, once its buffer is created.
LEMMA AcquireAlgoMade ==
  ASSUME StoreInv, task # "none", wild = {},
         UNCHANGED <<size, instance, status, planes, tbufs, sett, fifo, slips>>,
         NEW us \in Fresh(1),
         \/ /\ SetHeap(ReleaseGroup(ReleaseBuffer(CallBuffers(us), us[1]), CallGroup))
            /\ task' = "ready"
            /\ UNCHANGED lost
         \/ \E held \in {1, 2} :
              /\ SetHeap([CallBuffers(us) EXCEPT !.ref[us[1]] = held,
                                                 !.gref[CallGroup] = 0, !.grp[CallGroup] = <<>>])
              /\ lost' = [lost EXCEPT ![us[1]] = held]
              /\ UNCHANGED task
  PROVE  StoreInv'
<1>1. /\ task # "none" /\ wild = {}
      /\ UNCHANGED <<size, instance, status, planes, tbufs, sett, fifo, slips>>
  OBVIOUS
<1>3. /\ us \in Seq(Buffer) /\ Len(us) = 1 /\ IsInjective(us) /\ Unused(heap, us)
      /\ ToSet(us) \subseteq size.memory
  <2>1. PICK n \in Nat : n = 1
    OBVIOUS
  <2>2. us \in Fresh(n) /\ n \in Nat /\ HeapTypes
    BY <2>1 DEF StoreInv
  <2>3. us \in Seq(Buffer) /\ Len(us) = n /\ IsInjective(us) /\ Unused(heap, us)
        /\ ToSet(us) \subseteq size.memory
    BY <2>2, FreshFacts
  <2> QED
    BY <2>1, <2>3
<1>4. PICK v \in Buffer : v = us[1]
  BY <1>3
<1>5. ToSet(us) = {v} /\ heap.ref[v] = 0
  <2>1. \A x : x \in ToSet(us) <=> x = us[1]
    BY <1>3, ToSetFacts
  <2> QED
    BY <1>3, <1>4, <2>1 DEF Unused
<1>6. PICK h : h = CallBuffers(us)
  OBVIOUS
<1>7. Called(h, us)
  BY <1>1, <1>3, <1>6, CallMade
<1>8. PICK k : k = heap'
  OBVIOUS
<1>9. /\ Store(heap, Bufs, sett, lost) /\ heap.ref \in [Buffer -> Nat]
      /\ lost \in [Buffer -> Nat] /\ CallGroup \in Group
      /\ heap.gref \in [Group -> Nat] /\ heap.grp \in [Group -> Seq(Buffer)]
  BY <1>1, Before
<1>10. CASE /\ SetHeap(ReleaseGroup(ReleaseBuffer(h, v), CallGroup))
            /\ task' = "ready" /\ UNCHANGED lost
  <2>1. PICK d : d = ReleaseBuffer(h, v)
    OBVIOUS
  <2>2. /\ k = ReleaseGroup(d, CallGroup)
        /\ wild' = IF k.bad THEN wild \cup {"buffer"} ELSE wild
    BY <1>8, <1>10, <2>1 DEF SetHeap
  <2>3. PICK V : V = {v}
    OBVIOUS
  <2>4. Took(h, d, V, 1, 0)
    <3>1. HeapOK(h) /\ h.ref[v] > 0
      BY <1>5, <1>7 DEF Called
    <3>2. Took(h, ReleaseBuffer(h, v), {v}, 1, 0)
      BY <3>1, ReleaseTook
    <3> QED
      BY <2>1, <2>3, <3>2
  <2>5. PICK e : e = [u \in Buffer |-> IF u \in ToSet(us) \ V THEN 1 ELSE 0]
    OBVIOUS
  <2>6. Back(us, k, e)
    <3>1. V \subseteq ToSet(us) /\ k = ReleaseGroup(d, CallGroup) /\ wild = {}
      BY <1>1, <1>5, <2>2, <2>3
    <3>2. Ones(e, ToSet(us) \ V)
      BY <2>5 DEF Ones
    <3> QED
      BY <1>3, <1>7, <2>4, <3>1, <3>2, CallEnds
  <2>7. PICK M : M = lost'
    OBVIOUS
  <2>8. M = [u \in Buffer |-> lost[u] + e[u]]
    <3>1. \A u \in Buffer : e[u] = 0
      BY <1>5, <2>3, <2>5
    <3> QED
      BY <1>9, <1>10, <2>7, <3>1
  <2>9. task' \in {task, "ready"}
    BY <1>10
  <2> QED
    BY <1>1, <1>3, <1>8, <2>2, <2>6, <2>7, <2>8, <2>9, CallOver
<1>11. CASE \E held \in {1, 2} :
              /\ SetHeap([h EXCEPT !.ref[v] = held,
                                   !.gref[CallGroup] = 0, !.grp[CallGroup] = <<>>])
              /\ lost' = [lost EXCEPT ![v] = held] /\ UNCHANGED task
  <2>0. PICK held \in {1, 2} :
          /\ SetHeap([h EXCEPT !.ref[v] = held,
                               !.gref[CallGroup] = 0, !.grp[CallGroup] = <<>>])
          /\ lost' = [lost EXCEPT ![v] = held] /\ UNCHANGED task
    BY <1>11
  <2>1. PICK x \in Nat : x = 0
    OBVIOUS
  <2>2. PICK s \in Seq(Buffer) : s = <<>>
    BY EmptyOf
  <2>a. PICK f : f = [h EXCEPT !.ref[v] = held]
    OBVIOUS
  <2>b. PICK m : m = [h EXCEPT !.ref[v] = held,
                               !.gref[CallGroup] = 0, !.grp[CallGroup] = <<>>]
    OBVIOUS
  <2>3. /\ k = Regroup(f, CallGroup, x, s)
        /\ wild' = IF k.bad THEN wild \cup {"buffer"} ELSE wild
    <3>1. k = m /\ wild' = IF k.bad THEN wild \cup {"buffer"} ELSE wild
      BY <1>8, <2>0, <2>b DEF SetHeap
    <3>2. m = [[h EXCEPT !.ref[v] = held] EXCEPT !.gref[CallGroup] = x, !.grp[CallGroup] = s]
      BY <2>1, <2>2, <2>b
    <3> QED
      BY <2>a, <3>1, <3>2 DEF Regroup
  <2>c. /\ HeapOK(h) /\ Spare(h) = Spare(heap) /\ ~h.bad /\ h.maps = heap.maps
        /\ \A g \in Group \ {CallGroup} : h.gref[g] = heap.gref[g] /\ h.grp[g] = heap.grp[g]
        /\ \A u \in Buffer : h.ref[u] = IF u \in ToSet(us) THEN 2 ELSE heap.ref[u]
    BY <1>7 DEF Called
  <2>d. /\ f \in HeapRec /\ f.ref = [h.ref EXCEPT ![v] = held] /\ f.maps = h.maps
        /\ f.gref = h.gref /\ f.grp = h.grp /\ f.dev = h.dev /\ f.bad = h.bad
    <3>1. h \in HeapRec /\ held \in Nat /\ v \in Buffer
      BY <2>c DEF HeapOK
    <3>2. /\ f \in HeapRec
          /\ f = [ref |-> [h.ref EXCEPT ![v] = held], maps |-> h.maps, gref |-> h.gref,
                  grp |-> h.grp, dev |-> h.dev, bad |-> h.bad]
      BY <2>a, <3>1, RefExcept
    <3> QED
      BY <3>2
  <2>e. \A u \in Buffer : f.ref[u] = IF u = v THEN held ELSE heap.ref[u]
    <3>1. h.ref \in [Buffer -> Nat]
      BY <2>c, HeapFields DEF HeapOK
    <3> QED
      BY <1>5, <2>c, <2>d, <3>1
  <2>f. LiveIn(f) = LiveIn(h)
    <3>1. \A u \in Buffer : f.ref[u] > 0 <=> h.ref[u] > 0
      BY <1>5, <2>c, <2>e
    <3> QED
      BY <3>1 DEF LiveIn
  <2>4. /\ HeapOK(f) /\ Spare(f) = Spare(heap) /\ ~f.bad /\ f.maps = heap.maps
        /\ \A g \in Group \ {CallGroup} : f.gref[g] = heap.gref[g] /\ f.grp[g] = heap.grp[g]
    <3>1. Spare(f) = Spare(h)
      BY <2>d, <2>f DEF Spare
    <3> QED
      BY <2>c, <2>d, <2>f, <3>1 DEF HeapOK
  <2>5. /\ HeapOK(k) /\ Spare(k) = Spare(f) /\ k.ref = f.ref /\ k.maps = f.maps
        /\ k.gref = [f.gref EXCEPT ![CallGroup] = x] /\ k.grp = [f.grp EXCEPT ![CallGroup] = s]
        /\ k.bad = f.bad
    <3>1. x \in Nat /\ s \in Seq(Buffer) /\ CallGroup \in Group /\ HeapOK(f)
      BY <1>9, <2>1, <2>2, <2>4
    <3>2. k = Regroup(f, CallGroup, x, s)
      BY <2>3
    <3> QED
      BY <3>1, <3>2, GroupsOK
  <2>6. f.gref \in [Group -> Nat] /\ f.grp \in [Group -> Seq(Buffer)]
    BY <2>4, HeapFields DEF HeapOK
  <2>7. k.gref = heap.gref
    <3>1. heap.gref[CallGroup] = x /\ k.gref = [f.gref EXCEPT ![CallGroup] = x]
      BY <1>1, <2>1, <2>5, NoCall
    <3>2. /\ heap.gref \in [Group -> Nat] /\ f.gref \in [Group -> Nat] /\ CallGroup \in Group
          /\ \A g \in Group \ {CallGroup} : f.gref[g] = heap.gref[g]
      BY <1>9, <2>4, <2>6
    <3>3. PICK y, z, p : y = heap.gref /\ z = f.gref /\ p = k.gref
      OBVIOUS
    <3>4. \A g \in Group : p[g] = y[g]
      BY <3>1, <3>2, <3>3
    <3>5. y \in [Group -> Nat]
      BY <3>2, <3>3
    <3>6. p \in [Group -> Nat]
      <4>1. z \in [Group -> Nat] /\ x \in Nat
        BY <3>2, <3>3
      <4>2. p = [z EXCEPT ![CallGroup] = x]
        BY <3>1, <3>3
      <4> QED
        BY <4>1, <4>2
    <3>7. p = y
      BY <3>4, <3>5, <3>6
    <3> QED
      BY <3>3, <3>7
  <2>8. k.grp = heap.grp
    <3>1. heap.grp[CallGroup] = s /\ k.grp = [f.grp EXCEPT ![CallGroup] = s]
      BY <1>1, <2>2, <2>5, NoCall
    <3>2. /\ heap.grp \in [Group -> Seq(Buffer)] /\ f.grp \in [Group -> Seq(Buffer)]
          /\ CallGroup \in Group /\ \A g \in Group \ {CallGroup} : f.grp[g] = heap.grp[g]
      BY <1>9, <2>4, <2>6
    <3>3. PICK y, z, p : y = heap.grp /\ z = f.grp /\ p = k.grp
      OBVIOUS
    <3>4. \A g \in Group : p[g] = y[g]
      BY <3>1, <3>2, <3>3
    <3>5. y \in [Group -> Seq(Buffer)]
      BY <3>2, <3>3
    <3>6. p \in [Group -> Seq(Buffer)]
      <4>1. z \in [Group -> Seq(Buffer)] /\ s \in Seq(Buffer)
        BY <2>2, <3>2, <3>3
      <4>2. p = [z EXCEPT ![CallGroup] = s]
        BY <3>1, <3>3
      <4> QED
        BY <4>1, <4>2
    <3>7. p = y
      BY <3>4, <3>5, <3>6
    <3> QED
      BY <3>3, <3>7
  <2>9. PICK e : e = [u \in Buffer |-> IF u = v THEN held ELSE 0]
    OBVIOUS
  <2>10. e \in [Buffer -> Nat] /\ \A u \in Buffer : e[u] # 0 => u \in ToSet(us)
    <3>1. held \in Nat /\ v \in ToSet(us)
      BY <1>5
    <3> QED
      BY <2>9, <3>1
  <2>11. \A u \in Buffer : k.ref[u] = heap.ref[u] + e[u]
    <3> SUFFICES ASSUME NEW u \in Buffer PROVE k.ref[u] = heap.ref[u] + e[u]
      OBVIOUS
    <3>1. CASE u = v
      BY <1>5, <2>e, <2>5, <2>9, <3>1
    <3>2. CASE u # v
      BY <1>9, <2>e, <2>5, <2>9, <3>2
    <3> QED
      BY <3>1, <3>2
  <2>12. Back(us, k, e)
    BY <2>4, <2>5, <2>7, <2>8, <2>10, <2>11 DEF Back
  <2>13. PICK M : M = lost'
    OBVIOUS
  <2>14. M = [u \in Buffer |-> lost[u] + e[u]]
    <3>1. lost[v] = 0 /\ lost \in [Buffer -> Nat]
      BY <1>5, <1>9, Unheld
    <3>2. M = [lost EXCEPT ![v] = held]
      BY <2>0, <2>13
    <3>3. \A u \in Buffer : M[u] = lost[u] + e[u]
      BY <2>9, <3>1, <3>2
    <3>4. M \in [Buffer -> Nat]
      BY <3>1, <3>2
    <3> QED
      BY <3>3, <3>4
  <2>15. task' \in {task, "ready"}
    BY <2>0
  <2> QED
    BY <1>1, <1>3, <1>8, <2>3, <2>12, <2>13, <2>14, <2>15, CallOver
<1> QED
  BY <1>4, <1>6, <1>10, <1>11

\* csi_dsp_task_acquire_algo
LEMMA AcquireAlgoStore ==
  ASSUME StoreInv, AcquireAlgo
  PROVE  StoreInv'
<1>1. /\ task # "none" /\ wild = {}
      /\ UNCHANGED <<size, instance, status, content, queue, slips>>
  BY DEF AcquireAlgo
<1>2. CASE UNCHANGED <<heap, task, lost, wild>>
  <2>1. UNCHANGED <<objects, heap>> /\ wild' = {} /\ fifo' = fifo
    BY <1>1, <1>2 DEF objects, queue
  <2> QED
    BY <1>1, <2>1, StoreKept
<1>3. CASE \E us \in Fresh(1) :
        \/ /\ SetHeap(ReleaseGroup(ReleaseBuffer(CallBuffers(us), us[1]), CallGroup))
           /\ task' = "ready"
           /\ UNCHANGED lost
        \/ \E held \in {1, 2} :
             /\ SetHeap([CallBuffers(us) EXCEPT !.ref[us[1]] = held,
                                                !.gref[CallGroup] = 0, !.grp[CallGroup] = <<>>])
             /\ lost' = [lost EXCEPT ![us[1]] = held]
             /\ UNCHANGED task
  <2>1. UNCHANGED <<size, instance, status, planes, tbufs, sett, fifo, slips>>
    BY <1>1 DEF queue, content
  <2> QED
    BY <1>1, <1>3, <2>1, AcquireAlgoMade
<1> QED
  BY <1>2, <1>3 DEF AcquireAlgo

(***************************************************************************)
(* The invariant.                                                          *)
(***************************************************************************)

\* Before csi_dsp_create_instance there is nothing.
LEMMA InitList ==
  ASSUME Init
  PROVE  ListInv
<1>1. /\ fifo = <<>> /\ events = <<>> /\ event_num = 0
      /\ status = [r \in Request |-> "none"] /\ result = [r \in Request |-> "none"]
      /\ pc = [t \in Thread |-> "idle"] /\ local = [t \in Thread |-> NoLocal]
  BY DEF Init
<1>2. PICK e \in Seq(Request) : e = <<>>
  BY EmptyOf
<1>3. Len(e) = 0 /\ ToSet(e) = {} /\ IsInjective(e)
  BY <1>2 DEF ToSet, IsInjective
<1>4. QueueTypes
  <2>1. NoLocal \in Locals
    BY NoLocalFields
  <2>2. fifo \in Seq(Request) /\ events \in Seq(Request)
    BY <1>1, <1>2
  <2> QED
    BY <1>1, <2>1, <2>2 DEF QueueTypes, Status
<1>5. \A t \in Thread : pc[t] = "idle" /\ local[t] = NoLocal
  BY <1>1
<1>6. Listed
  <2>1. \A r \in Request : Adders(r) = {}
    BY <1>5 DEF Adders
  <2>2. events = e /\ event_num = 0
    BY <1>1, <1>2
  <2>3. \A r \in Request : status[r] # "running"
    BY <1>1
  <2> QED
    BY <1>3, <1>5, <2>1, <2>2, <2>3 DEF Listed
<1>7. Commands
  <2>1. fifo = e
    BY <1>1, <1>2
  <2>2. \A r \in Request : result[r] = "none" /\ status[r] # "running"
    BY <1>1
  <2> QED
    BY <1>3, <2>1, <2>2 DEF Commands
<1>8. \A t \in Thread : Knows(t) /\ Undisturbed(t)
  BY <1>5 DEF Knows, Undisturbed, Dequeuing
<1> QED
  BY <1>4, <1>6, <1>7, <1>8 DEF ListInv

\* And no buffer.
LEMMA InitStore ==
  ASSUME Init
  PROVE  StoreInv
<1>1. /\ heap = EmptyHeap /\ size \in Sizes /\ instance = FALSE /\ task = "none"
      /\ status = [r \in Request |-> "none"]
      /\ planes = [r \in Request |-> <<>>] /\ tbufs = <<>> /\ fifo = <<>>
      /\ sett = [r \in Request |-> NoSett] /\ lost = [u \in Buffer |-> 0]
      /\ slips = {} /\ wild = {}
  BY DEF Init
<1>2. PICK e \in Seq(Buffer) : e = <<>>
  BY EmptyOf
<1>3. PICK b \in Seq(Seq(Nat)) : b = <<>>
  BY EmptyOf
<1>4. PICK h : h = heap
  OBVIOUS
<1>5. h = [ref  |-> [u \in Buffer |-> 0], maps |-> [u \in Buffer |-> 0],
           gref |-> [g \in Group |-> 0],  grp  |-> [g \in Group |-> e],
           dev  |-> 0, bad |-> FALSE]
  BY <1>1, <1>2, <1>4 DEF EmptyHeap
<1>6. /\ h.ref = [u \in Buffer |-> 0] /\ h.maps = [u \in Buffer |-> 0]
      /\ h.gref = [g \in Group |-> 0] /\ h.grp = [g \in Group |-> e]
      /\ h.dev = 0 /\ h.bad = FALSE
  BY <1>5
<1>7. h \in HeapRec
  <2>1. /\ h.ref \in [Buffer -> Nat] /\ h.maps \in [Buffer -> Int]
        /\ h.gref \in [Group -> Nat] /\ h.grp \in [Group -> Seq(Buffer)]
        /\ h.dev \in Int /\ h.bad \in BOOLEAN
    <3>1. h.ref \in [Buffer -> Nat] /\ h.maps \in [Buffer -> Int]
      BY <1>6
    <3>2. e \in Seq(Buffer)
      BY <1>2
    <3>3. h.gref \in [Group -> Nat] /\ h.grp \in [Group -> Seq(Buffer)]
      BY <1>6, <3>2
    <3>4. h.dev \in Int
      BY <1>6
    <3>5. h.bad \in BOOLEAN
      BY <1>6
    <3> QED
      BY <3>1, <3>3, <3>4, <3>5
  <2>2. [ref |-> h.ref, maps |-> h.maps, gref |-> h.gref, grp |-> h.grp,
         dev |-> h.dev, bad |-> h.bad] \in HeapRec
    BY <2>1, HeapOf
  <2>3. h = [ref |-> h.ref, maps |-> h.maps, gref |-> h.gref, grp |-> h.grp,
             dev |-> h.dev, bad |-> h.bad]
    BY <1>5
  <2> QED
    BY <2>2, <2>3
<1>8. LiveIn(h) = {}
  BY <1>6 DEF LiveIn
<1>9. Spare(h) = 0 /\ IsFiniteSet(LiveIn(h))
  BY <1>6, <1>8, FS_EmptySet DEF Spare
<1>10. HeapOK(h)
  BY <1>7, <1>9 DEF HeapOK
<1>11. /\ planes \in [Request -> Seq(Seq(Nat))] /\ tbufs \in Seq(Seq(Nat))
  BY <1>1, <1>3
<1>12. sett \in [Request -> SettRec] /\ \A r \in Request : ~sett[r].held /\ sett[r].at = Nil
  BY <1>1 DEF NoSett, SettRec
<1>13. HeapTypes
  <2>1. HeapOK(heap) /\ heap.maps \in [Buffer -> Nat]
    BY <1>4, <1>6, <1>10
  <2>2. lost \in [Buffer -> Nat] /\ sett \in [Request -> SettRec]
    BY <1>1, <1>12
  <2>3. size \in Sizes /\ instance \in BOOLEAN /\ task \in {"none", "new", "ready"}
        /\ slips = {} /\ wild = {}
    BY <1>1
  <2> QED
    BY <1>11, <2>1, <2>2, <2>3 DEF HeapTypes
<1>14. Groups
  <2>1. CallGroup \in Group /\ TaskGroup \in Group /\ Request \subseteq Group
    BY CsiAssumption
  <2>2. \A r : r \notin ToSet(fifo)
    BY <1>1 DEF ToSet
  <2>3. \A g \in Group : h.gref[g] = 0 /\ h.grp[g] = <<>>
    BY <1>2, <1>6
  <2>4. \A r \in Request : /\ heap.gref[r] = One(status[r] # "none") + One(r \in ToSet(fifo))
                           /\ planes[r] = <<>> /\ sett[r] = NoSett
    BY <1>1, <1>4, <2>1, <2>2, <2>3 DEF One
  <2>5. heap.gref[TaskGroup] = One(task # "none") /\ heap.gref[CallGroup] = 0
    BY <1>1, <1>4, <2>1, <2>3 DEF One
  <2> QED
    BY <1>1, <1>4, <2>3, <2>4, <2>5 DEF Groups
<1>15. Store(h, Bufs, sett, lost)
  <2>1. PICK B : B = Bufs
    OBVIOUS
  <2>2. B \in [Group -> Seq(Arrays)] /\ \A g \in Group : B[g] = <<>>
    <3>1. Bufs \in [Group -> Seq(Arrays)]
      BY <1>11, BufsFacts
    <3>2. \A g \in Group : Bufs[g] = <<>>
      BY <1>1 DEF Bufs
    <3> QED
      BY <2>1, <3>1, <3>2
  <2>3. lost \in [Buffer -> Nat] /\ \A u \in Buffer : lost[u] = 0
    BY <1>1
  <2>4. StoreTypes(h, B, sett, lost)
    BY <1>6, <1>10, <1>12, <2>2, <2>3 DEF StoreTypes
  <2>5. \A g \in Group : h.grp[g] = e /\ DOMAIN h.grp[g] = {} /\ ToSet(h.grp[g]) = {}
    BY <1>2, <1>6 DEF ToSet
  <2>6. Single(h.grp)
    BY <2>5 DEF Single
  <2>7. \A g \in Group : Inside(h.grp[g], B[g]) /\ PlanesIn(h.grp[g], B[g]) = {}
    BY <2>2, PlanesOfNone
  <2>8. Grouped(h.grp) = {} /\ Planes(h.grp, B) = {} /\ Setts(sett) = {}
    BY <1>12, <2>5, <2>7 DEF Grouped, Planes, Setts
  <2>9. Balanced(h, B, sett, lost)
    BY <1>6, <2>3, <2>8 DEF Balanced, One
  <2>10. Stale(h, B, sett, lost)
    <3>1. Request \subseteq Group
      BY CsiAssumption
    <3> QED
      BY <2>5, <3>1 DEF Stale
  <2> QED
    BY <1>12, <2>1, <2>4, <2>6, <2>7, <2>9, <2>10 DEF Store
<1>16. LiveIn(heap) \subseteq size.memory /\ ~heap.bad
  BY <1>4, <1>6, <1>8
<1>17. Spare(heap) = 2 * One(instance) + One(task # "none")
  BY <1>1, <1>4, <1>9 DEF One
<1>18. Sound
  BY <1>1, <1>4, <1>14, <1>15, <1>16, <1>17 DEF Sound
<1> QED
  BY <1>1, <1>13, <1>16, <1>18 DEF StoreInv, MemorySafe

\* The list and the threads in the steps about the instance, the task and the
\* content of requests.
LEMMA HeapList ==
  ASSUME ListInv,
         \/ TaskNext
         \/ \E r \in Request : RequestNext(r)
  PROVE  ListInv'
<1>1. status \in [Request -> Status]
  BY DEF ListInv, QueueTypes
<1>2. CASE TaskNext
  <2>1. UNCHANGED queue /\ status' = status
    BY <1>2 DEF TaskNext, CreateInstance, DeleteInstance, CreateTask, DestroyTask,
                ConfigAlgo, LoadAlgo, AcquireAlgo, TaskCreateBuffer, TaskFreeBuffer
  <2> QED
    BY <1>1, <2>1, ListKept
<1>3. CASE \E r \in Request : RequestNext(r)
  <2>1. PICK r \in Request : RequestNext(r)
    BY <1>3
  <2>2. CASE CreateRequest(r)
    <3>1. /\ UNCHANGED queue /\ status[r] # "running"
          /\ status' = [status EXCEPT ![r] = "idle"]
      BY <2>2 DEF CreateRequest
    <3>2. status' \in [Request -> Status]
          /\ \A q \in Request : status'[q] = "running" <=> status[q] = "running"
      BY <1>1, <3>1 DEF Status
    <3> QED
      BY <3>1, <3>2, ListKept
  <2>3. CASE RequestAddBuffer(r) \/ RequestSetProperty(r)
    <3>1. UNCHANGED queue /\ status' = status
      BY <2>3 DEF RequestAddBuffer, RequestSetProperty
    <3> QED
      BY <1>1, <3>1, ListKept
  <2>4. CASE ReleaseRequest(r)
    <3>1. /\ UNCHANGED queue /\ status[r] # "running"
          /\ status' = [status EXCEPT ![r] = "none"]
      BY <2>4 DEF ReleaseRequest, Owned
    <3>2. status' \in [Request -> Status]
          /\ \A q \in Request : status'[q] = "running" <=> status[q] = "running"
      BY <1>1, <3>1 DEF Status
    <3> QED
      BY <3>1, <3>2, ListKept
  <2> QED
    BY <2>1, <2>2, <2>3, <2>4 DEF RequestNext
<1> QED
  BY <1>2, <1>3

\* Every step keeps what is known of the list and the threads.
LEMMA ListStep ==
  ASSUME ListInv, Next
  PROVE  ListInv'
<1>1. CASE TaskNext \/ \E r \in Request : RequestNext(r)
  BY <1>1, HeapList
<1>2. CASE \E t \in Thread, r \in Request : EnqueueCommand(t, r)
  BY <1>2, EnqueueCommandList
<1>3. CASE \E t \in Thread : EnqueueList(t) \/ DequeueCopy(t) \/ DequeueStep(t)
  <2>1. PICK t \in Thread : EnqueueList(t) \/ DequeueCopy(t) \/ DequeueStep(t)
    BY <1>3
  <2>2. CASE EnqueueList(t)
    BY <2>2, EnqueueListList
  <2>3. CASE DequeueCopy(t)
    BY <2>3, DequeueCopyList
  <2>4. CASE DequeueWait(t) \/ DequeueWake(t) \/ DequeueFind(t) \/ DequeueDelete(t)
    BY <2>4, DequeueWaitList, DequeueWakeList, DequeueFindList, DequeueDeleteList
  <2>5. CASE DequeueNone(t) \/ DequeueWaitWild(t) \/ DequeueDeleteWild(t)
    BY <2>5, DequeueNoneList, DequeueWaitWildList, DequeueDeleteWildList
  <2> QED
    BY <2>1, <2>2, <2>3, <2>4, <2>5 DEF DequeueStep
<1>4. CASE Process
  BY <1>4, ProcessList
<1> QED
  BY <1>1, <1>2, <1>3, <1>4 DEF Next

\* Every step keeps what is known of buffers and groups.
LEMMA StoreStep ==
  ASSUME ListInv, StoreInv, Next
  PROVE  StoreInv'
<1>1. CASE TaskNext
  <2>1. CASE CreateInstance \/ DeleteInstance \/ CreateTask \/ DestroyTask \/ LoadAlgo
    BY <2>1, CreateInstanceStore, DeleteInstanceStore, CreateTaskStore, DestroyTaskStore,
       LoadAlgoStore
  <2>2. CASE ConfigAlgo \/ AcquireAlgo
    BY <2>2, ConfigAlgoStore, AcquireAlgoStore
  <2>3. CASE TaskCreateBuffer \/ TaskFreeBuffer
    BY <2>3, TaskCreateBufferStore, TaskFreeBufferStore
  <2> QED
    BY <1>1, <2>1, <2>2, <2>3 DEF TaskNext
<1>2. CASE \E r \in Request : RequestNext(r)
  BY <1>2, CreateRequestStore, RequestAddBufferStore, RequestSetPropertyStore,
     ReleaseRequestStore DEF RequestNext
<1>3. CASE \E t \in Thread, r \in Request : EnqueueCommand(t, r)
  BY <1>3, EnqueueCommandStore
<1>4. CASE \E t \in Thread : EnqueueList(t) \/ DequeueCopy(t) \/ DequeueStep(t)
  <2>1. PICK t \in Thread : EnqueueList(t) \/ DequeueCopy(t) \/ DequeueStep(t)
    BY <1>4
  <2>2. CASE EnqueueList(t)
    BY <2>2, EnqueueListStore
  <2>3. CASE DequeueCopy(t)
    BY <2>3, DequeueCopyStore
  <2>4. CASE DequeueWait(t) \/ DequeueWake(t) \/ DequeueFind(t) \/ DequeueDelete(t)
    BY <2>4, DequeueWaitStore, DequeueWakeStore, DequeueFindStore, DequeueDeleteStore
  <2>5. CASE DequeueNone(t) \/ DequeueWaitWild(t) \/ DequeueDeleteWild(t)
    BY <2>5, DequeueNoneStore, DequeueWaitWildStore, DequeueDeleteWildStore
  <2> QED
    BY <2>1, <2>2, <2>3, <2>4, <2>5 DEF DequeueStep
<1>5. CASE Process
  BY <1>5, ProcessStore
<1> QED
  BY <1>1, <1>2, <1>3, <1>4, <1>5 DEF Next

\* A step that changes nothing.
LEMMA StutterStep ==
  ASSUME IndInv, UNCHANGED vars
  PROVE  IndInv'
<1>1. /\ size' = size /\ heap' = heap /\ instance' = instance /\ task' = task
      /\ status' = status /\ planes' = planes /\ tbufs' = tbufs /\ sett' = sett
      /\ lost' = lost /\ wild' = wild /\ slips' = slips /\ fifo' = fifo
      /\ UNCHANGED queue
  BY DEF vars, queue, content
<1>2. ListInv'
  BY <1>1, ListKept DEF IndInv, ListInv, QueueTypes
<1>3. Bufs' = Bufs
  BY <1>1 DEF Bufs
<1>4. StoreInv'
  BY <1>1, <1>3 DEF IndInv, StoreInv, HeapTypes, Sound, Groups, MemorySafe
<1> QED
  BY <1>2, <1>4 DEF IndInv

\* The inductive invariant of the tasks and requests of csi_dsp.
THEOREM Invariance == Spec => []IndInv
<1>1. Init => IndInv
  BY InitList, InitStore DEF IndInv
<1>2. IndInv /\ [Next]_vars => IndInv'
  <2> SUFFICES ASSUME IndInv, [Next]_vars PROVE IndInv'
    OBVIOUS
  <2>1. CASE Next
    BY <2>1, ListStep, StoreStep DEF IndInv
  <2>2. CASE UNCHANGED vars
    BY <2>2, StutterStep
  <2> QED
    BY <2>1, <2>2
<1> QED
  BY <1>1, <1>2, PTL DEF Spec

(***************************************************************************)
(* What the invariant says.                                                *)
(***************************************************************************)

\* The tasks and requests of csi_dsp are well typed: reference counts, map
\* counts and the device count are never negative.
THEOREM TypeCorrect == Spec => []TypeOK
<1>1. IndInv => TypeOK
  <2> SUFFICES ASSUME IndInv PROVE TypeOK
    OBVIOUS
  <2>1. QueueTypes /\ HeapTypes
    BY DEF IndInv, ListInv, StoreInv
  <2>2. /\ heap.ref \in [Buffer -> Nat] /\ heap.gref \in [Group -> Nat] /\ heap.dev \in Int
        /\ IsFiniteSet(LiveIn(heap)) /\ Spare(heap) >= 0
    BY <2>1, HeapFields DEF HeapTypes, HeapOK
  <2>3. heap.dev \in Nat
    <3>1. Cardinality(LiveIn(heap)) \in Nat
      BY <2>2, FS_CardinalityType
    <3> QED
      BY <2>2, <3>1 DEF Spare
  <2>4. ToSet(events) \subseteq Request
    BY <2>1, ToSetFacts DEF QueueTypes
  <2> QED
    BY <2>1, <2>2, <2>3, <2>4 DEF TypeOK, QueueTypes, HeapTypes
<1> QED
  BY <1>1, Invariance, PTL

\* Memory is used after its release only in the named situations.
THEOREM MemorySafety == Spec => []MemorySafe
<1>1. IndInv => MemorySafe
  BY DEF IndInv, StoreInv
<1> QED
  BY <1>1, Invariance, PTL

\* The event list of csi_dsp_request_enqueue and csi_dsp_request_dequeue has one
\* item for each running request, and event_num is its length.
THEOREM OutstandingCorrect == Spec => []Outstanding
<1>1. IndInv => Outstanding
  <2> SUFFICES ASSUME IndInv PROVE Outstanding
    OBVIOUS
  <2>1. Listed /\ events \in Seq(Request)
    BY DEF IndInv, ListInv, QueueTypes
  <2>2. Cardinality(ToSet(events)) = Len(events)
    BY <2>1, InjectiveSize DEF Listed
  <2>3. \A r \in Request : Adders(r) # {} <=> \E t \in Thread : pc[t] = "add" /\ local[t].req = r
    BY DEF Adders
  <2> QED
    BY <2>1, <2>2, <2>3 DEF Listed, Outstanding
<1> QED
  BY <1>1, Invariance, PTL

\* The size of a set with at most one element.
LEMMA SizeOne ==
  ASSUME NEW A, \A x, y \in A : x = y
  PROVE  Cardinality(A) = One(A # {})
<1>1. CASE A = {}
  BY <1>1, FS_EmptySet DEF One
<1>2. CASE A # {}
  <2>1. PICK x : x \in A
    BY <1>2
  <2>2. A = {x}
    BY <2>1
  <2>3. Cardinality({x}) = 1
    BY FS_Singleton
  <2> QED
    BY <1>2, <2>2, <2>3 DEF One
<1> QED
  BY <1>1, <1>2

\* A buffer is a member of a group at one place.
LEMMA MemberSize ==
  ASSUME heap.grp \in [Group -> Seq(Buffer)], Single(heap.grp), NEW u
  PROVE  Cardinality({m \in Members : heap.grp[m[1]][m[2]] = u}) = One(u \in Grouped(heap.grp))
<1>1. PICK G : G = heap.grp
  OBVIOUS
<1>2. PICK A : A = {m \in Members : heap.grp[m[1]][m[2]] = u}
  OBVIOUS
<1>3. \A m : m \in Members <=> \E g \in Group : \E i \in DOMAIN G[g] : m = <<g, i>>
  BY <1>1 DEF Members
<1>4. ASSUME NEW m \in A
      PROVE  /\ m[1] \in Group /\ m[2] \in DOMAIN G[m[1]] /\ m = <<m[1], m[2]>>
             /\ G[m[1]][m[2]] = u
  <2>1. m \in Members /\ G[m[1]][m[2]] = u
    BY <1>1, <1>2
  <2>2. PICK g \in Group : \E i \in DOMAIN G[g] : m = <<g, i>>
    BY <1>3, <2>1
  <2>3. PICK i \in DOMAIN G[g] : m = <<g, i>>
    BY <2>2
  <2>4. m[1] = g /\ m[2] = i
    BY <2>3
  <2> QED
    BY <2>1, <2>3, <2>4
<1>5. ASSUME NEW m \in A, NEW n \in A PROVE m = n
  <2>1. /\ m[1] \in Group /\ m[2] \in DOMAIN G[m[1]] /\ m = <<m[1], m[2]>>
        /\ G[m[1]][m[2]] = u
    BY <1>4
  <2>2. /\ n[1] \in Group /\ n[2] \in DOMAIN G[n[1]] /\ n = <<n[1], n[2]>>
        /\ G[n[1]][n[2]] = u
    BY <1>4
  <2>3. m[1] = n[1] /\ m[2] = n[2]
    BY <1>1, <2>1, <2>2 DEF Single
  <2> QED
    BY <2>1, <2>2, <2>3
<1>6. A # {} <=> u \in Grouped(heap.grp)
  <2>1. ASSUME NEW m \in A PROVE u \in Grouped(G)
    BY <1>4 DEF Grouped, ToSet
  <2>2. ASSUME u \in Grouped(G) PROVE A # {}
    <3>1. PICK g \in Group : u \in ToSet(G[g])
      BY <2>2 DEF Grouped
    <3>2. PICK i \in DOMAIN G[g] : u = G[g][i]
      BY <3>1 DEF ToSet
    <3>3. PICK m : m = <<g, i>>
      OBVIOUS
    <3>4. m \in Members /\ m[1] = g /\ m[2] = i
      BY <1>3, <3>3
    <3> QED
      BY <1>1, <1>2, <3>2, <3>4
  <2> QED
    BY <1>1, <2>1, <2>2
<1>7. Cardinality(A) = One(A # {})
  BY <1>5, SizeOne
<1>8. One(A # {}) = One(u \in Grouped(heap.grp))
  BY <1>6 DEF One
<1> QED
  BY <1>2, <1>7, <1>8

\* A buffer is the settings of one request.
LEMMA SettSize ==
  ASSUME NEW h, NEW B, NEW T, NEW L, Store(h, B, T, L), NEW u
  PROVE  Cardinality({r \in Request : T[r].held /\ T[r].at = u}) = One(u \in Setts(T))
<1>1. PICK A : A = {r \in Request : T[r].held /\ T[r].at = u}
  OBVIOUS
<1>2. \A r, q \in A : r = q
  BY <1>1, SettFacts
<1>3. A # {} <=> u \in Setts(T)
  BY <1>1 DEF Setts
<1> QED
  BY <1>1, <1>2, <1>3, SizeOne

\* A buffer is one plane of one request.
LEMMA PlaneSize ==
  ASSUME heap.grp \in [Group -> Seq(Buffer)], Single(heap.grp),
         planes \in [Request -> Seq(Seq(Nat))],
         \A r \in Request : Inside(heap.grp[r], planes[r]), NEW u
  PROVE  Cardinality(UNION {{r} \X PlanesAt(planes[r], r, u) : r \in Request})
           = One(\E r \in Request : u \in PlanesIn(heap.grp[r], planes[r]))
<1>1. PICK A : A = UNION {{r} \X PlanesAt(planes[r], r, u) : r \in Request}
  OBVIOUS
<1>2. \A m : m \in A <=> \E r \in Request : \E p \in PlanesAt(planes[r], r, u) : m = <<r, p>>
  BY <1>1
<1>3. \A g \in Group : IsInjective(heap.grp[g])
  BY SingleFacts
<1>4. ASSUME NEW r \in Request
      PROVE  /\ u \in PlanesIn(heap.grp[r], planes[r]) => \E p : PlanesAt(planes[r], r, u) = {p}
             /\ u \notin PlanesIn(heap.grp[r], planes[r]) => PlanesAt(planes[r], r, u) = {}
             /\ PlanesIn(heap.grp[r], planes[r]) \subseteq ToSet(heap.grp[r])
             /\ r \in Group
  <2>1. r \in Group /\ planes[r] \in Seq(Arrays) /\ heap.grp[r] \in Seq(Buffer)
    BY CsiAssumption DEF Arrays
  <2>2. IsInjective(heap.grp[r]) /\ Inside(heap.grp[r], planes[r])
    BY <1>3, <2>1
  <2>3. PlanesIn(heap.grp[r], planes[r]) \subseteq ToSet(heap.grp[r])
    BY <2>1, <2>2, PlanesAreMembers
  <2> QED
    BY <2>1, <2>2, <2>3, PlanesAtFacts
<1>5. ASSUME NEW m \in A, NEW n \in A PROVE m = n
  <2>1. PICK r \in Request : \E p \in PlanesAt(planes[r], r, u) : m = <<r, p>>
    BY <1>2
  <2>2. PICK p \in PlanesAt(planes[r], r, u) : m = <<r, p>>
    BY <2>1
  <2>3. PICK q \in Request : \E s \in PlanesAt(planes[q], q, u) : n = <<q, s>>
    BY <1>2
  <2>4. PICK s \in PlanesAt(planes[q], q, u) : n = <<q, s>>
    BY <2>3
  <2>5. u \in PlanesIn(heap.grp[r], planes[r]) /\ u \in PlanesIn(heap.grp[q], planes[q])
    BY <1>4, <2>1, <2>2, <2>3, <2>4
  <2>6. r = q
    BY <1>4, <2>5, SingleFacts
  <2>7. p = s
    BY <1>4, <2>2, <2>4, <2>5, <2>6
  <2> QED
    BY <2>2, <2>4, <2>6, <2>7
<1>6. A # {} <=> \E r \in Request : u \in PlanesIn(heap.grp[r], planes[r])
  <2>1. ASSUME NEW m \in A PROVE \E r \in Request : u \in PlanesIn(heap.grp[r], planes[r])
    BY <1>2, <1>4
  <2>2. ASSUME NEW r \in Request, u \in PlanesIn(heap.grp[r], planes[r]) PROVE A # {}
    <3>1. PICK p : PlanesAt(planes[r], r, u) = {p}
      BY <1>4, <2>2
    <3>2. <<r, p>> \in A
      BY <1>2, <3>1
    <3> QED
      BY <3>2
  <2> QED
    BY <2>1, <2>2
<1>7. Cardinality(A) = One(A # {})
  BY <1>5, SizeOne
<1>8. One(A # {}) = One(\E r \in Request : u \in PlanesIn(heap.grp[r], planes[r]))
  BY <1>6 DEF One
<1> QED
  BY <1>1, <1>7, <1>8

\* The references that planes are.
LEMMA PlaneAccount ==
  ASSUME StoreInv, wild = {}, NEW u
  PROVE  /\ One(u \in Planes(heap.grp, Bufs)) =
              PlanesOf(tbufs, TaskGroup, u)
              + Cardinality(UNION {{r} \X PlanesAt(planes[r], r, u) : r \in Request})
         /\ PlanesOf(tbufs, TaskGroup, u) \in Nat
         /\ Cardinality(UNION {{r} \X PlanesAt(planes[r], r, u) : r \in Request}) \in Nat
<1>1. /\ Store(heap, Bufs, sett, lost) /\ heap.grp \in [Group -> Seq(Buffer)]
      /\ tbufs \in Seq(Seq(Nat)) /\ planes \in [Request -> Seq(Seq(Nat))]
      /\ TaskGroup \in Group /\ CallGroup \in Group /\ TaskGroup \notin Request
      /\ Request \subseteq Group
  BY Before
<1>2. /\ Bufs \in [Group -> Seq(Arrays)] /\ Bufs[TaskGroup] = tbufs
      /\ Bufs[CallGroup] = <<>> /\ \A r \in Request : r \in Group /\ Bufs[r] = planes[r]
  BY <1>1, BufsFacts
<1>3. Single(heap.grp) /\ \A g \in Group : Inside(heap.grp[g], Bufs[g])
  BY <1>1 DEF Store
<1>4. \A g \in Group : IsInjective(heap.grp[g])
  BY <1>1, <1>3, SingleFacts
<1>5. PlanesOf(tbufs, TaskGroup, u) = One(u \in PlanesIn(heap.grp[TaskGroup], tbufs))
  <2>1. tbufs \in Seq(Arrays) /\ Inside(heap.grp[TaskGroup], tbufs)
        /\ IsInjective(heap.grp[TaskGroup])
    BY <1>1, <1>2, <1>3, <1>4 DEF Arrays
  <2> QED
    BY <1>1, <2>1, PlanesAtFacts
<1>6. Cardinality(UNION {{r} \X PlanesAt(planes[r], r, u) : r \in Request})
        = One(\E r \in Request : u \in PlanesIn(heap.grp[r], planes[r]))
  <2>1. \A r \in Request : Inside(heap.grp[r], planes[r])
    BY <1>2, <1>3
  <2> QED
    BY <1>1, <1>3, <2>1, PlaneSize
<1>7. u \in Planes(heap.grp, Bufs) <=>
        \/ u \in PlanesIn(heap.grp[TaskGroup], tbufs)
        \/ \E r \in Request : u \in PlanesIn(heap.grp[r], planes[r])
  <2>1. \A g \in Group : g = TaskGroup \/ g = CallGroup \/ g \in Request
    BY CsiAssumption
  <2>2. PlanesIn(heap.grp[CallGroup], Bufs[CallGroup]) = {}
    BY <1>2, PlanesOfNone
  <2>3. u \in Planes(heap.grp, Bufs) <=> \E g \in Group : u \in PlanesIn(heap.grp[g], Bufs[g])
    BY DEF Planes
  <2>4. ASSUME NEW g \in Group, u \in PlanesIn(heap.grp[g], Bufs[g])
        PROVE  \/ u \in PlanesIn(heap.grp[TaskGroup], tbufs)
               \/ \E r \in Request : u \in PlanesIn(heap.grp[r], planes[r])
    <3>1. g # CallGroup
      BY <2>2, <2>4
    <3>2. CASE g = TaskGroup
      BY <1>2, <2>4, <3>2
    <3>3. CASE g \in Request
      BY <1>2, <2>4, <3>3
    <3> QED
      BY <2>1, <3>1, <3>2, <3>3
  <2>5. ASSUME u \in PlanesIn(heap.grp[TaskGroup], tbufs)
        PROVE  \E g \in Group : u \in PlanesIn(heap.grp[g], Bufs[g])
    BY <1>1, <1>2, <2>5
  <2>6. ASSUME NEW r \in Request, u \in PlanesIn(heap.grp[r], planes[r])
        PROVE  \E g \in Group : u \in PlanesIn(heap.grp[g], Bufs[g])
    BY <1>2, <2>6
  <2> QED
    BY <2>3, <2>4, <2>5, <2>6
<1>8. ASSUME u \in PlanesIn(heap.grp[TaskGroup], tbufs), NEW r \in Request,
             u \in PlanesIn(heap.grp[r], planes[r])
      PROVE  FALSE
  <2>1. \A g \in Group : PlanesIn(heap.grp[g], Bufs[g]) \subseteq ToSet(heap.grp[g])
    BY <1>1, <1>3, PlaneFacts
  <2>2. u \in ToSet(heap.grp[TaskGroup]) /\ u \in ToSet(heap.grp[r]) /\ r \in Group
    BY <1>1, <1>2, <1>8, <2>1
  <2>3. r = TaskGroup
    BY <1>1, <1>3, <2>2, SingleFacts
  <2> QED
    BY <1>1, <2>3
<1>9. One(u \in Planes(heap.grp, Bufs)) =
        One(u \in PlanesIn(heap.grp[TaskGroup], tbufs))
        + One(\E r \in Request : u \in PlanesIn(heap.grp[r], planes[r]))
  <2>1. CASE u \in PlanesIn(heap.grp[TaskGroup], tbufs)
    <3>1. ~(\E r \in Request : u \in PlanesIn(heap.grp[r], planes[r]))
      BY <1>8, <2>1
    <3> QED
      BY <1>7, <2>1, <3>1 DEF One
  <2>2. CASE u \notin PlanesIn(heap.grp[TaskGroup], tbufs)
    BY <1>7, <2>2 DEF One
  <2> QED
    BY <2>1, <2>2
<1> QED
  BY <1>5, <1>6, <1>9, OneFacts

\* Every reference to a buffer and to the device has a holder, through all the
\* calls of csi_dsp and all their failures.
THEOREM BuffersAccountedFor == Spec => []BuffersAccounted
<1>1. IndInv => BuffersAccounted
  <2> SUFFICES ASSUME IndInv, wild = {}
               PROVE  /\ \A u \in Buffer :
                           heap.ref[u] =
                               Cardinality({m \in Members : heap.grp[m[1]][m[2]] = u})
                             + heap.maps[u] + PlanesOf(tbufs, TaskGroup, u)
                             + Cardinality(UNION {{r} \X PlanesAt(planes[r], r, u) : r \in Request})
                             + Cardinality({r \in Request : sett[r].held /\ sett[r].at = u})
                             + lost[u]
                      /\ heap.dev = (IF instance THEN 2 ELSE 0)
                                    + (IF task = "none" THEN 0 ELSE 1) + Cardinality(Live)
    BY DEF BuffersAccounted
  <2>1. /\ StoreInv /\ Store(heap, Bufs, sett, lost) /\ heap.grp \in [Group -> Seq(Buffer)]
        /\ HeapOK(heap) /\ Spare(heap) = 2 * One(instance) + One(task # "none")
    BY Before DEF IndInv
  <2>2. ASSUME NEW u \in Buffer
        PROVE  heap.ref[u] =
                   Cardinality({m \in Members : heap.grp[m[1]][m[2]] = u})
                 + heap.maps[u] + PlanesOf(tbufs, TaskGroup, u)
                 + Cardinality(UNION {{r} \X PlanesAt(planes[r], r, u) : r \in Request})
                 + Cardinality({r \in Request : sett[r].held /\ sett[r].at = u})
                 + lost[u]
    <3>1. /\ heap.ref[u] = One(u \in Grouped(heap.grp)) + heap.maps[u]
              + One(u \in Planes(heap.grp, Bufs)) + One(u \in Setts(sett)) + lost[u]
          /\ heap.maps[u] \in Nat /\ lost[u] \in Nat
      BY <2>1, Account
    <3>2. PICK a : a = Cardinality({m \in Members : heap.grp[m[1]][m[2]] = u})
      OBVIOUS
    <3>3. PICK b : b = PlanesOf(tbufs, TaskGroup, u)
      OBVIOUS
    <3>4. PICK c : c = Cardinality(UNION {{r} \X PlanesAt(planes[r], r, u) : r \in Request})
      OBVIOUS
    <3>5. PICK s : s = Cardinality({r \in Request : sett[r].held /\ sett[r].at = u})
      OBVIOUS
    <3>6. a = One(u \in Grouped(heap.grp))
      <4>1. Single(heap.grp)
        BY <2>1 DEF Store
      <4> QED
        BY <2>1, <3>2, <4>1, MemberSize
    <3>7. s = One(u \in Setts(sett))
      BY <2>1, <3>5, SettSize
    <3>8. One(u \in Planes(heap.grp, Bufs)) = b + c
      BY <2>1, <3>3, <3>4, PlaneAccount
    <3>9. a \in Nat /\ s \in Nat /\ b \in Nat /\ c \in Nat
      <4>1. a \in Nat /\ s \in Nat
        BY <3>6, <3>7, OneFacts
      <4>2. b \in Nat
        BY <2>1, <3>3, PlaneAccount
      <4>3. c \in Nat
        BY <2>1, <3>4, PlaneAccount
      <4> QED
        BY <4>1, <4>2, <4>3
    <3>10. PICK x : x = heap.maps[u]
      OBVIOUS
    <3>11. heap.ref[u] = a + x + (b + c) + s + lost[u]
      BY <3>1, <3>6, <3>7, <3>8, <3>10
    <3>12. heap.ref[u] = a + x + b + c + s + lost[u]
      BY <3>1, <3>9, <3>10, <3>11
    <3> QED
      BY <3>2, <3>3, <3>4, <3>5, <3>10, <3>12
  <2>3. heap.dev = (IF instance THEN 2 ELSE 0) + (IF task = "none" THEN 0 ELSE 1)
                   + Cardinality(Live)
    <3>1. Live = LiveIn(heap)
      BY DEF Live, LiveIn
    <3>2. Cardinality(LiveIn(heap)) \in Nat /\ heap.dev \in Int
      BY <2>1, HeapFields, FS_CardinalityType DEF HeapOK
    <3> QED
      BY <2>1, <3>1, <3>2 DEF Spare, One
  <2> QED
    BY <2>2, <2>3
<1> QED
  BY <1>1, Invariance, PTL
=============================================================================
