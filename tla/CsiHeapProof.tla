------------------------------ MODULE CsiHeapProof ------------------------------
(***************************************************************************)
(* Proofs about the buffers and groups of the csi_dsp library (modules     *)
(* XrpBuffer and CsiTask), for any buffers, groups and sizes.              *)
(*                                                                         *)
(* Here are the inductive invariant of CsiTask and what the operations of  *)
(* the library do to its records.  A call that makes or releases several   *)
(* buffers is a fold of heap functions; it is taken apart into the heaps   *)
(* between its steps, and each of them is compared with what the call has  *)
(* changed so far.  Then come the holders of buffers: which of them a call *)
(* adds, which it takes away, and that every reference keeps one.          *)
(***************************************************************************)
EXTENDS CsiTask, SequenceTheorems, FiniteSetTheorems, FunctionTheorems,
        NaturalsInduction, WellFoundedInduction, TLAPS

(***************************************************************************)
(* The inductive invariant.                                                *)
(***************************************************************************)

\* A heap whose device has a reference for each live buffer.
LiveIn(h) == {u \in Buffer : h.ref[u] > 0}
Spare(h) == h.dev - Cardinality(LiveIn(h))

HeapRec == [ref  : [Buffer -> Nat], maps : [Buffer -> Int],
            gref : [Group -> Nat],  grp  : [Group -> Seq(Buffer)],
            dev  : Int, bad : BOOLEAN]

HeapOK(h) == h \in HeapRec /\ IsFiniteSet(LiveIn(h)) /\ Spare(h) >= 0

\* The variables of the command queue and of the threads have their types.
Locals == [req : Request \cup {Nil}, evts : Seq(Request \cup {Nil}),
           id : Nat, raced : BOOLEAN]
QueueTypes ==
  /\ status \in [Request -> Status]
  /\ result \in [Request -> {"none", "pending", "ok", "error", "failed"}]
  /\ fifo \in Seq(Request) /\ events \in Seq(Request) /\ event_num \in Nat
  /\ pc \in [Thread -> {"idle", "add", "count", "blocked", "found", "delete"}]
  /\ local \in [Thread -> Locals]

\* So have the other variables.
SettRec == [at : Buffer \cup {Nil}, held : BOOLEAN]
HeapTypes ==
  /\ HeapOK(heap) /\ heap.maps \in [Buffer -> Nat]
  /\ size \in Sizes /\ instance \in BOOLEAN /\ task \in {"none", "new", "ready"}
  /\ planes \in [Request -> Seq(Seq(Nat))] /\ tbufs \in Seq(Seq(Nat))
  /\ sett \in [Request -> SettRec]
  /\ lost \in [Buffer -> Nat]
  /\ slips \subseteq {"race", "sett", "array"}
  /\ wild \subseteq {"buffer", "array", "events", "list"}

\* An item is on the list once, and each thread puts its own there.
Adders(r) == {t \in Thread : pc[t] = "add" /\ local[t].req = r}
Listed ==
  /\ event_num = Len(events) /\ IsInjective(events)
  /\ \A r \in Request : /\ status[r] = "running" <=>
                             r \in ToSet(events) \/ Adders(r) # {}
                        /\ r \in ToSet(events) => Adders(r) = {}
                        /\ \A t, v \in Adders(r) : t = v
  /\ \A t \in Thread : pc[t] = "add" => local[t].req \in Request

\* A command waits in the queue as long as its result is pending.
Commands ==
  /\ IsInjective(fifo)
  /\ \A r \in ToSet(fifo) : result[r] = "pending"
  /\ \A r \in Request : result[r] = "none" <=> status[r] # "running"

\* What a dequeue knows of the list: an event it has copied is there as long as
\* nobody took it off, and the one it found stays complete.
Knows(t) ==
  LET l == local[t] IN
  /\ pc[t] \in {"count", "blocked", "found"} =>
       ToSet(l.evts) \subseteq ToSet(events) \cup {Nil}
  /\ pc[t] = "found" => /\ l.id \in DOMAIN l.evts
                        /\ l.evts[l.id] # Nil => result[l.evts[l.id]] # "pending"
  /\ pc[t] = "delete" /\ l.req # Nil => result[l.req] # "pending"

\* A dequeue that nobody disturbed is the only one, and what it has copied is
\* the beginning of the list.
Undisturbed(t) ==
  LET l == local[t] IN
  t \in Dequeuing /\ ~l.raced =>
    /\ \A v \in Dequeuing : v = t
    /\ pc[t] = "count" => l.evts = events
    /\ pc[t] \in {"blocked", "found"} =>
         /\ Len(l.evts) <= Len(events)
         /\ \A k \in DOMAIN l.evts : l.evts[k] = events[k]
    /\ pc[t] = "delete" => l.req \in ToSet(events)

\* The part of the invariant about enqueue and dequeue.
ListInv ==
  /\ QueueTypes /\ Listed /\ Commands
  /\ \A t \in Thread : Knows(t) /\ Undisturbed(t)

\* Groups live as long as the task, the request or a command needs them.
One(p) == IF p THEN 1 ELSE 0
Groups ==
  /\ heap.gref[CallGroup] = 0
  /\ heap.gref[TaskGroup] = One(task # "none")
  /\ \A r \in Request :
       heap.gref[r] = One(status[r] # "none") + One(r \in ToSet(fifo))
  /\ \A g \in Group : heap.gref[g] = 0 => heap.grp[g] = <<>>
  /\ task = "none" => tbufs = <<>>
  /\ task # "none" => instance
  /\ \A r \in Request : status[r] = "none" => planes[r] = <<>> /\ sett[r] = NoSett

(***************************************************************************)
(* The holders of buffers, for a heap h, the arrays B of buffers of each   *)
(* group, the settings T and the forgotten references L.                   *)
(***************************************************************************)

\* Indices into a sequence, sequences of them, and what they name.
Within(is, s) == \A k \in 1 .. Len(is) : is[k] \in DOMAIN s
AllWithin(bufs, s) == \A k \in 1 .. Len(bufs) : Within(bufs[k], s)
Named(s, is) == {s[is[k]] : k \in 1 .. Len(is)}

\* The planes of an array of buffers are different members of its group.
PlanesIn(s, bufs) == UNION {Named(s, bufs[k]) : k \in 1 .. Len(bufs)}
Different(bufs) ==
  \A k, m \in 1 .. Len(bufs) : \A j \in 1 .. Len(bufs[k]), i \in 1 .. Len(bufs[m]) :
    bufs[k][j] = bufs[m][i] => k = m /\ j = i
Inside(s, bufs) ==
  /\ AllWithin(bufs, s) /\ Different(bufs)
  /\ \A k \in 1 .. Len(bufs) : Len(bufs[k]) <= MaxPlanes

Arrays == Seq(Nat)

\* A buffer is a member of one group, once.
Single(G) ==
  \A g, q \in Group : \A i \in DOMAIN G[g], j \in DOMAIN G[q] :
    G[g][i] = G[q][j] => g = q /\ i = j

\* The holders.
Grouped(G)   == UNION {ToSet(G[g]) : g \in Group}
Planes(G, B) == UNION {PlanesIn(G[g], B[g]) : g \in Group}
Setts(T)     == {T[r].at : r \in {x \in Request : T[x].held}}

\* Every reference is somebody's, and a plane is mapped.
Balanced(h, B, T, L) ==
  \A u \in Buffer :
    /\ h.ref[u] = One(u \in Grouped(h.grp)) + h.maps[u] + One(u \in Planes(h.grp, B))
                  + One(u \in Setts(T)) + L[u]
    /\ h.maps[u] >= One(u \in Planes(h.grp, B))

\* A plane at the address of settings that were never a member of the group:
\* what its members and planes hold is all there is.
Stale(h, B, T, L) ==
  \A r \in Request :
    ~T[r].held /\ T[r].at \in ToSet(h.grp[r]) =>
      L[T[r].at] = 0 /\ h.maps[T[r].at] = One(T[r].at \in Planes(h.grp, B))

StoreTypes(h, B, T, L) ==
  /\ HeapOK(h) /\ h.maps \in [Buffer -> Nat]
  /\ B \in [Group -> Seq(Arrays)] /\ T \in [Request -> SettRec]
  /\ L \in [Buffer -> Nat]

Store(h, B, T, L) ==
  /\ StoreTypes(h, B, T, L)
  /\ Single(h.grp)
  /\ \A g \in Group : Inside(h.grp[g], B[g])
  /\ \A r \in Request : T[r].held => T[r].at \in ToSet(h.grp[r])
  /\ Balanced(h, B, T, L) /\ Stale(h, B, T, L)

\* The arrays of buffers of the task and of the requests.
Bufs == [g \in Group |-> IF g = TaskGroup THEN tbufs
                         ELSE IF g \in Request THEN planes[g] ELSE <<>>]

\* What holds until memory is corrupted.
Sound ==
  /\ ~heap.bad /\ slips = {}
  /\ Groups
  /\ Store(heap, Bufs, sett, lost)
  /\ Spare(heap) = 2 * One(instance) + One(task # "none")
  /\ LiveIn(heap) \subseteq size.memory

\* The part about buffers and groups.
StoreInv ==
  /\ HeapTypes
  /\ wild = {} => Sound
  /\ heap.bad => "buffer" \in wild
  /\ MemorySafe

IndInv == ListInv /\ StoreInv

(***************************************************************************)
(* Folds.                                                                  *)
(***************************************************************************)

\* A set of numbers has a least element.
LEMMA Least ==
  ASSUME NEW T, T \subseteq Nat, T # {}
  PROVE  \E x \in T : \A y \in T : x <= y
<1>1. PICK R : /\ R = {p \in Nat \X Nat : p[1] < p[2]}
               /\ IsWellFoundedOn(R, Nat)
  BY NatLessThanWellFounded DEF OpToRel
<1>2. PICK x \in T : \A y \in T : ~(<<y, x>> \in R)
  BY <1>1, WFMin
<1>3. ASSUME NEW y \in T PROVE x <= y
  <2>1. x \in Nat /\ y \in Nat
    BY <1>2
  <2>2. y < x => <<y, x>> \in R
    BY <1>1, <2>1
  <2> QED
    BY <1>2, <2>1, <2>2
<1> QED
  BY <1>3

\* A set of places has a last one.
LEMMA MaxIn ==
  ASSUME NEW n \in Nat, NEW S \in SUBSET (1 .. n), S # {}
  PROVE  Max(S) \in S /\ \A x \in S : Max(S) >= x
<1> DEFINE T == {y \in Nat : \A x \in S : x <= y}
<1>1. T \subseteq Nat /\ n \in T
  OBVIOUS
<1>2. PICK m \in T : \A y \in T : m <= y
  <2> HIDE DEF T
  <2> QED
    BY <1>1, Least
<1>3. m \in Nat /\ \A x \in S : x \in Nat /\ x >= 1 /\ x <= m
  BY <1>2
<1>4. m \in S
  <2> SUFFICES ASSUME m \notin S PROVE FALSE
    OBVIOUS
  <2>1. ASSUME NEW x \in S PROVE x <= m - 1
    <3>1. x # m /\ x \in Nat /\ x <= m
      BY <1>3
    <3> QED
      BY <1>3, <3>1
  <2>2. m - 1 \in Nat
    <3>1. PICK x \in S : TRUE
      OBVIOUS
    <3>2. x \in Nat /\ x >= 1 /\ x <= m
      BY <1>3, <3>1
    <3> QED
      BY <1>3, <3>2
  <2>3. m - 1 \in T
    BY <2>1, <2>2
  <2> QED
    BY <1>2, <1>3, <2>3
<1>5. \E x \in S : \A y \in S : x >= y
  BY <1>3, <1>4
<1> QED
  BY <1>5 DEF Max

\* The last of the first places.
LEMMA MaxLast ==
  ASSUME NEW m \in Nat, NEW S \in SUBSET (1 .. m), m \in S
  PROVE  Max(S) = m
<1>1. Max(S) \in S /\ Max(S) >= m
  BY MaxIn
<1>2. Max(S) \in 1 .. m
  BY <1>1
<1> HIDE DEF Max
<1> QED
  BY <1>1, <1>2

\* What holds at first and is kept by each step holds at last.
LEMMA Stays ==
  ASSUME NEW H, NEW n \in Nat, NEW g, g[0] \in H,
         \A k \in 1 .. n : g[k - 1] \in H => g[k] \in H
  PROVE  \A k \in 0 .. n : g[k] \in H
<1> SUFFICES ASSUME NEW k \in 0 .. n, g[k] \notin H PROVE FALSE
  OBVIOUS
<1> DEFINE T == {m \in 0 .. n : g[m] \notin H}
<1>1. T \subseteq Nat /\ T # {}
  OBVIOUS
<1>2. PICK x \in T : \A y \in T : x <= y
  <2> HIDE DEF T
  <2> QED
    BY <1>1, Least
<1>3. x \in 0 .. n /\ g[x] \notin H /\ x # 0
  BY <1>2
<1>4. x \in 1 .. n /\ x - 1 \in 0 .. n /\ ~(x <= x - 1)
  BY <1>3
<1>5. g[x - 1] \in H
  BY <1>2, <1>4
<1> QED
  BY <1>3, <1>4, <1>5

\* A fold over the first places of a sequence, from the last one down.
Folding(f, b, n, step) ==
  \A S \in SUBSET (1 .. n) :
    f[S] = IF S = {} THEN b ELSE step[Max(S)][f[S \ {Max(S)}]]

\* The recursion of a fold has a solution.
LEMMA FoldExists ==
  ASSUME NEW H, NEW b \in H, NEW n \in Nat, NEW step \in [1 .. n -> [H -> H]]
  PROVE  \E f \in [SUBSET (1 .. n) -> H] : Folding(f, b, n, step)
<1> DEFINE Solved(m) ==
      \E f \in [SUBSET (1 .. m) -> H] : Folding(f, b, m, step)
           T == {m \in 0 .. n : ~Solved(m)}
<1> SUFFICES Solved(n)
  OBVIOUS
<1> SUFFICES ASSUME ~Solved(n) PROVE FALSE
  OBVIOUS
<1>1. T \subseteq Nat /\ T # {}
  <2> HIDE DEF Solved
  <2> QED
    OBVIOUS
<1>2. PICK m \in T : \A y \in T : m <= y
  <2> HIDE DEF T
  <2> QED
    BY <1>1, Least
<1>3. m \in 0 .. n /\ ~Solved(m)
  BY <1>2
<1>4. CASE m = 0
  <2> DEFINE f == [S \in SUBSET (1 .. m) |-> b]
  <2>1. \A S \in SUBSET (1 .. m) : S = {}
    BY <1>4
  <2>2. f \in [SUBSET (1 .. m) -> H]
    OBVIOUS
  <2>3. Folding(f, b, m, step)
    BY <2>1 DEF Folding
  <2> QED
    BY <1>3, <2>2, <2>3
<1>5. CASE m # 0
  <2>1. m - 1 \in 0 .. n /\ m \in 1 .. n /\ ~(m <= m - 1)
    BY <1>3, <1>5
  <2>2. Solved(m - 1)
    BY <1>2, <2>1
  <2>3. PICK g \in [SUBSET (1 .. m - 1) -> H] :
          Folding(g, b, m - 1, step)
    BY <2>2
  <2> DEFINE f == [S \in SUBSET (1 .. m) |->
                     IF m \in S THEN step[m][g[S \ {m}]] ELSE g[S]]
  <2>4. \A S \in SUBSET (1 .. m) : /\ S \ {m} \in SUBSET (1 .. m - 1)
                                   /\ m \notin S => S \in SUBSET (1 .. m - 1)
    BY <2>1
  <2>5. f \in [SUBSET (1 .. m) -> H]
    <3>1. step[m] \in [H -> H]
      BY <2>1
    <3> QED
      BY <2>3, <2>4, <3>1
  <2>6. ASSUME NEW S \in SUBSET (1 .. m)
        PROVE  f[S] = IF S = {} THEN b ELSE step[Max(S)][f[S \ {Max(S)}]]
    <3>1. CASE m \in S
      <4>1. Max(S) = m
        BY <2>1, <3>1, MaxLast
      <4>2. f[S \ {m}] = g[S \ {m}]
        BY <2>4
      <4>3. f[S] = step[m][g[S \ {m}]]
        BY <3>1
      <4>4. S # {}
        BY <3>1
      <4> QED
        BY <4>1, <4>2, <4>3, <4>4
    <3>2. CASE m \notin S
      <4>1. f[S] = g[S]
        BY <3>2
      <4>2. S \in SUBSET (1 .. m - 1) /\ S \ {Max(S)} \in SUBSET (1 .. m)
        BY <2>4, <3>2
      <4>3. f[S \ {Max(S)}] = g[S \ {Max(S)}]
        BY <3>2, <4>2
      <4> QED
        BY <2>3, <4>1, <4>2, <4>3 DEF Folding
    <3> QED
      BY <3>1, <3>2
  <2> HIDE DEF f
  <2> QED
    BY <1>3, <2>5, <2>6 DEF Folding
<1> QED
  BY <1>4, <1>5

\* The values g a fold f goes through.
Traces(g, f, n) ==
  /\ g[0] = f[{}] /\ g[n] = f[1 .. n]
  /\ \A k \in 1 .. n : /\ 1 .. k \in SUBSET (1 .. n) /\ 1 .. k # {}
                       /\ Max(1 .. k) = k /\ g[k] = f[1 .. k]
                       /\ g[k - 1] = f[(1 .. k) \ {k}]

\* A fold adds one place after the other.
LEMMA FoldTrace ==
  ASSUME NEW n \in Nat, NEW f,
         NEW g, \A k \in 0 .. n : g[k] = f[1 .. k]
  PROVE  Traces(g, f, n)
<1>1. 1 .. 0 = {}
  OBVIOUS
<1>2. ASSUME NEW k \in 1 .. n
      PROVE  /\ 1 .. k \in SUBSET (1 .. n) /\ k \in 1 .. k
             /\ Max(1 .. k) = k /\ g[k] = f[1 .. k]
             /\ g[k - 1] = f[(1 .. k) \ {k}]
  <2>1. 1 .. k \in SUBSET (1 .. n) /\ k \in 1 .. k /\ k \in Nat
    OBVIOUS
  <2>2. Max(1 .. k) = k
    BY <2>1, MaxLast
  <2>3. (1 .. k) \ {k} = 1 .. k - 1 /\ k - 1 \in 0 .. n
    OBVIOUS
  <2>4. g[k] = f[1 .. k] /\ g[k - 1] = f[1 .. k - 1]
    BY <2>3
  <2> QED
    BY <2>1, <2>2, <2>3, <2>4
<1>3. g[0] = f[1 .. 0] /\ g[n] = f[1 .. n]
  <2>1. 0 \in 0 .. n /\ n \in 0 .. n
    OBVIOUS
  <2> QED
    BY <2>1
<1> HIDE DEF Max
<1> QED
  BY <1>1, <1>2, <1>3 DEF Traces

(***************************************************************************)
(* What an operation does to the heap.                                     *)
(***************************************************************************)

\* The fields of a heap.
LEMMA HeapFields ==
  ASSUME NEW h \in HeapRec
  PROVE  /\ h = [ref |-> h.ref, maps |-> h.maps, gref |-> h.gref,
                 grp |-> h.grp, dev |-> h.dev, bad |-> h.bad]
         /\ h.ref \in [Buffer -> Nat] /\ h.maps \in [Buffer -> Int]
         /\ h.gref \in [Group -> Nat] /\ h.grp \in [Group -> Seq(Buffer)]
         /\ h.dev \in Int /\ h.bad \in BOOLEAN
  BY DEF HeapRec

\* A heap from its fields.
LEMMA HeapOf ==
  ASSUME NEW ref \in [Buffer -> Nat], NEW maps \in [Buffer -> Int],
         NEW gref \in [Group -> Nat], NEW grp \in [Group -> Seq(Buffer)],
         NEW dev \in Int, NEW bad \in BOOLEAN
  PROVE  [ref |-> ref, maps |-> maps, gref |-> gref, grp |-> grp, dev |-> dev,
          bad |-> bad] \in HeapRec
  BY DEF HeapRec

\* A heap with one field changed.
LEMMA HeapExcept ==
  ASSUME NEW h \in HeapRec, NEW x
  PROVE  /\ [h EXCEPT !.ref = x] =
              [ref |-> x, maps |-> h.maps, gref |-> h.gref, grp |-> h.grp,
               dev |-> h.dev, bad |-> h.bad]
         /\ [h EXCEPT !.maps = x] =
              [ref |-> h.ref, maps |-> x, gref |-> h.gref, grp |-> h.grp,
               dev |-> h.dev, bad |-> h.bad]
         /\ [h EXCEPT !.gref = x] =
              [ref |-> h.ref, maps |-> h.maps, gref |-> x, grp |-> h.grp,
               dev |-> h.dev, bad |-> h.bad]
         /\ [h EXCEPT !.grp = x] =
              [ref |-> h.ref, maps |-> h.maps, gref |-> h.gref, grp |-> x,
               dev |-> h.dev, bad |-> h.bad]
         /\ [h EXCEPT !.dev = x] =
              [ref |-> h.ref, maps |-> h.maps, gref |-> h.gref, grp |-> h.grp,
               dev |-> x, bad |-> h.bad]
         /\ [h EXCEPT !.bad = x] =
              [ref |-> h.ref, maps |-> h.maps, gref |-> h.gref, grp |-> h.grp,
               dev |-> h.dev, bad |-> x]
<1>0. h = [ref |-> h.ref, maps |-> h.maps, gref |-> h.gref,
           grp |-> h.grp, dev |-> h.dev, bad |-> h.bad]
  BY HeapFields
<1>1. ASSUME NEW ref, NEW maps, NEW gref, NEW grp, NEW dev, NEW bad,
             h = [ref |-> ref, maps |-> maps, gref |-> gref, grp |-> grp,
                  dev |-> dev, bad |-> bad]
      PROVE  /\ [h EXCEPT !.ref = x] =
                  [ref |-> x, maps |-> maps, gref |-> gref, grp |-> grp,
                   dev |-> dev, bad |-> bad]
             /\ [h EXCEPT !.maps = x] =
                  [ref |-> ref, maps |-> x, gref |-> gref, grp |-> grp,
                   dev |-> dev, bad |-> bad]
             /\ [h EXCEPT !.gref = x] =
                  [ref |-> ref, maps |-> maps, gref |-> x, grp |-> grp,
                   dev |-> dev, bad |-> bad]
             /\ [h EXCEPT !.grp = x] =
                  [ref |-> ref, maps |-> maps, gref |-> gref, grp |-> x,
                   dev |-> dev, bad |-> bad]
             /\ [h EXCEPT !.dev = x] =
                  [ref |-> ref, maps |-> maps, gref |-> gref, grp |-> grp,
                   dev |-> x, bad |-> bad]
             /\ [h EXCEPT !.bad = x] =
                  [ref |-> ref, maps |-> maps, gref |-> gref, grp |-> grp,
                   dev |-> dev, bad |-> x]
  BY <1>1
<1> HIDE DEF HeapRec
<1> QED
  BY <1>0, <1>1

\* xrp_retain_device and xrp_release_device.
LEMMA DeviceFields ==
  ASSUME NEW h \in HeapRec
  PROVE  /\ RetainDevice(h) \in HeapRec
         /\ RetainDevice(h) =
              [ref |-> h.ref, maps |-> h.maps, gref |-> h.gref, grp |-> h.grp,
               dev |-> h.dev + 1, bad |-> h.bad]
         /\ ReleaseDevice(h) \in HeapRec
         /\ ReleaseDevice(h) =
              [ref |-> h.ref, maps |-> h.maps, gref |-> h.gref, grp |-> h.grp,
               dev |-> h.dev - 1, bad |-> (h.bad \/ h.dev = 0)]
<1>1. h.dev + 1 \in Int /\ h.dev - 1 \in Int /\ (h.bad \/ h.dev = 0) \in BOOLEAN
  BY HeapFields
<1>2. RetainDevice(h) =
        [ref |-> h.ref, maps |-> h.maps, gref |-> h.gref, grp |-> h.grp,
         dev |-> h.dev + 1, bad |-> h.bad]
  BY HeapExcept DEF RetainDevice
<1>3. ReleaseDevice(h) =
        [ref |-> h.ref, maps |-> h.maps, gref |-> h.gref, grp |-> h.grp,
         dev |-> h.dev - 1, bad |-> (h.bad \/ h.dev = 0)]
  <2> DEFINE m == [ref |-> h.ref, maps |-> h.maps, gref |-> h.gref, grp |-> h.grp,
                   dev |-> h.dev - 1, bad |-> h.bad]
             b == (h.bad \/ h.dev = 0)
  <2>1. ReleaseDevice(h) = [h EXCEPT !.dev = h.dev - 1, !.bad = b]
    BY Zenon DEF ReleaseDevice
  <2> HIDE DEF b
  <2>2. [h EXCEPT !.dev = h.dev - 1, !.bad = b] =
          [[h EXCEPT !.dev = h.dev - 1] EXCEPT !.bad = b]
    OBVIOUS
  <2>3. [h EXCEPT !.dev = h.dev - 1] = m
    BY HeapExcept
  <2>4. [m EXCEPT !.bad = b] =
          [ref |-> h.ref, maps |-> h.maps, gref |-> h.gref, grp |-> h.grp,
           dev |-> h.dev - 1, bad |-> b]
    OBVIOUS
  <2> HIDE DEF m
  <2> QED
    BY <2>1, <2>2, <2>3, <2>4 DEF b
<1>4. /\ h.ref \in [Buffer -> Nat] /\ h.maps \in [Buffer -> Int]
      /\ h.gref \in [Group -> Nat] /\ h.grp \in [Group -> Seq(Buffer)]
      /\ h.bad \in BOOLEAN
  BY HeapFields
<1> DEFINE up == [ref |-> h.ref, maps |-> h.maps, gref |-> h.gref, grp |-> h.grp,
                  dev |-> h.dev + 1, bad |-> h.bad]
           down == [ref |-> h.ref, maps |-> h.maps, gref |-> h.gref, grp |-> h.grp,
                    dev |-> h.dev - 1, bad |-> (h.bad \/ h.dev = 0)]
<1>5. up \in HeapRec
  BY <1>1, <1>4, HeapOf
<1>6. down \in HeapRec
  BY <1>1, <1>4, HeapOf
<1> QED
  BY <1>2, <1>3, <1>5, <1>6 DEF Traces

\* A heap with another count of one buffer.
LEMMA RefExcept ==
  ASSUME NEW h \in HeapRec, NEW u \in Buffer, NEW k \in Nat
  PROVE  /\ [h EXCEPT !.ref[u] = k] \in HeapRec
         /\ [h EXCEPT !.ref[u] = k] =
              [ref |-> [h.ref EXCEPT ![u] = k], maps |-> h.maps, gref |-> h.gref,
               grp |-> h.grp, dev |-> h.dev, bad |-> h.bad]
<1> DEFINE r == [h.ref EXCEPT ![u] = k]
           m == [ref |-> r, maps |-> h.maps, gref |-> h.gref, grp |-> h.grp,
                 dev |-> h.dev, bad |-> h.bad]
<1>1. r \in [Buffer -> Nat]
  BY HeapFields
<1>2. [h EXCEPT !.ref[u] = k] = [h EXCEPT !.ref = r]
  OBVIOUS
<1> HIDE DEF r
<1>4. m \in HeapRec
  BY <1>1, HeapFields, HeapOf
<1>5. [h EXCEPT !.ref[u] = k] = m
  BY <1>2, HeapExcept
<1> QED
  BY <1>4, <1>5 DEF r

\* xrp_create_buffer.
LEMMA CreateFields ==
  ASSUME NEW h \in HeapRec, NEW u \in Buffer
  PROVE  /\ CreateBuffer(h, u) \in HeapRec
         /\ CreateBuffer(h, u) =
              [ref |-> [h.ref EXCEPT ![u] = 1], maps |-> h.maps,
               gref |-> h.gref, grp |-> h.grp, dev |-> h.dev + 1, bad |-> h.bad]
<1> DEFINE m == [h EXCEPT !.ref[u] = 1]
<1>1. /\ m \in HeapRec
      /\ m = [ref |-> [h.ref EXCEPT ![u] = 1], maps |-> h.maps, gref |-> h.gref,
              grp |-> h.grp, dev |-> h.dev, bad |-> h.bad]
  BY RefExcept
<1>2. CreateBuffer(h, u) = RetainDevice(m)
  BY DEF CreateBuffer
<1> HIDE DEF m
<1>3. /\ RetainDevice(m) \in HeapRec
      /\ RetainDevice(m) =
           [ref |-> m.ref, maps |-> m.maps, gref |-> m.gref, grp |-> m.grp,
            dev |-> m.dev + 1, bad |-> m.bad]
  BY <1>1, DeviceFields
<1> QED
  BY <1>1, <1>2, <1>3

\* xrp_retain_buffer.
LEMMA RetainFields ==
  ASSUME NEW h \in HeapRec, NEW u \in Buffer
  PROVE  /\ RetainBuffer(h, u) \in HeapRec
         /\ RetainBuffer(h, u) =
              [ref |-> [h.ref EXCEPT ![u] = h.ref[u] + 1], maps |-> h.maps,
               gref |-> h.gref, grp |-> h.grp, dev |-> h.dev,
               bad |-> (h.bad \/ h.ref[u] = 0)]
<1> DEFINE b == (h.bad \/ h.ref[u] = 0)
           r == [h.ref EXCEPT ![u] = h.ref[u] + 1]
           m == [ref |-> r, maps |-> h.maps, gref |-> h.gref, grp |-> h.grp,
                 dev |-> h.dev, bad |-> b]
<1>1. b \in BOOLEAN /\ r \in [Buffer -> Nat]
  BY HeapFields
<1>2. RetainBuffer(h, u) = [h EXCEPT !.ref[u] = h.ref[u] + 1, !.bad = b]
  BY Zenon DEF RetainBuffer
<1> HIDE DEF b
<1>4. [h EXCEPT !.ref[u] = h.ref[u] + 1, !.bad = b] =
        [[h EXCEPT !.ref[u] = h.ref[u] + 1] EXCEPT !.bad = b]
  OBVIOUS
<1> DEFINE k == [ref |-> r, maps |-> h.maps, gref |-> h.gref, grp |-> h.grp,
                 dev |-> h.dev, bad |-> h.bad]
<1>5. [h EXCEPT !.ref[u] = h.ref[u] + 1] = k
  <2>1. h.ref[u] + 1 \in Nat
    BY HeapFields
  <2> QED
    BY <2>1, RefExcept
<1>6. [k EXCEPT !.bad = b] = m
  OBVIOUS
<1> HIDE DEF b, r
<1>3. m \in HeapRec
  BY <1>1, HeapFields, HeapOf
<1> HIDE DEF k
<1> QED
  BY <1>2, <1>3, <1>4, <1>5, <1>6 DEF b, r

\* xrp_release_buffer.
LEMMA ReleaseFields ==
  ASSUME NEW h \in HeapRec, NEW u \in Buffer
  PROVE  /\ ReleaseBuffer(h, u) \in HeapRec
         /\ ReleaseBuffer(h, u).ref =
              [h.ref EXCEPT ![u] = IF h.ref[u] = 0 THEN 0 ELSE h.ref[u] - 1]
         /\ ReleaseBuffer(h, u).maps = h.maps
         /\ ReleaseBuffer(h, u).gref = h.gref
         /\ ReleaseBuffer(h, u).grp = h.grp
         /\ ReleaseBuffer(h, u).dev = IF h.ref[u] = 1 THEN h.dev - 1 ELSE h.dev
         /\ ReleaseBuffer(h, u).bad =
              (h.bad \/ h.ref[u] = 0 \/ (h.ref[u] = 1 /\ h.dev = 0))
<1>1. h.ref[u] \in Nat /\ h.bad \in BOOLEAN /\ h.ref \in [Buffer -> Nat]
  BY HeapFields
<1>2. CASE h.ref[u] = 0
  <2>1. ReleaseBuffer(h, u) = [h EXCEPT !.bad = TRUE]
    BY <1>2 DEF ReleaseBuffer
  <2>2. h.ref = [h.ref EXCEPT ![u] = 0]
    BY <1>1, <1>2
  <2>3. ReleaseBuffer(h, u) =
          [ref |-> h.ref, maps |-> h.maps, gref |-> h.gref, grp |-> h.grp,
           dev |-> h.dev, bad |-> TRUE]
    BY <2>1, HeapExcept
  <2> DEFINE m == [ref |-> h.ref, maps |-> h.maps, gref |-> h.gref, grp |-> h.grp,
                   dev |-> h.dev, bad |-> TRUE]
  <2>4. m \in HeapRec
    BY HeapFields, HeapOf
  <2>5. /\ m.ref = h.ref /\ m.maps = h.maps /\ m.gref = h.gref /\ m.grp = h.grp
        /\ m.dev = h.dev /\ m.bad = TRUE
    OBVIOUS
  <2>6. ReleaseBuffer(h, u) = m
    BY <2>3
  <2>7. (h.bad \/ h.ref[u] = 0 \/ (h.ref[u] = 1 /\ h.dev = 0)) = TRUE
    BY <1>2
  <2>8. (IF h.ref[u] = 1 THEN h.dev - 1 ELSE h.dev) = h.dev
    BY <1>2
  <2>9. [h.ref EXCEPT ![u] = IF h.ref[u] = 0 THEN 0 ELSE h.ref[u] - 1] = h.ref
    BY <1>2, <2>2
  <2> HIDE DEF m
  <2> QED
    BY <2>4, <2>5, <2>6, <2>7, <2>8, <2>9
<1>3. CASE h.ref[u] = 1
  <2> DEFINE m == [h EXCEPT !.ref[u] = 0]
  <2>1. /\ m \in HeapRec
        /\ m = [ref |-> [h.ref EXCEPT ![u] = 0], maps |-> h.maps, gref |-> h.gref,
                grp |-> h.grp, dev |-> h.dev, bad |-> h.bad]
    BY RefExcept
  <2>2. ReleaseBuffer(h, u) = ReleaseDevice(m)
    BY <1>3 DEF ReleaseBuffer
  <2> HIDE DEF m
  <2>3. /\ ReleaseDevice(m) \in HeapRec
        /\ ReleaseDevice(m) =
             [ref |-> m.ref, maps |-> m.maps, gref |-> m.gref, grp |-> m.grp,
              dev |-> m.dev - 1, bad |-> (m.bad \/ m.dev = 0)]
    BY <2>1, DeviceFields
  <2>4. ReleaseBuffer(h, u) =
          [ref |-> [h.ref EXCEPT ![u] = 0], maps |-> h.maps, gref |-> h.gref,
           grp |-> h.grp, dev |-> h.dev - 1, bad |-> (h.bad \/ h.dev = 0)]
    BY <2>1, <2>2, <2>3
  <2>5. h.ref[u] # 0 /\ h.ref[u] - 1 = 0
    BY <1>3
  <2> QED
    BY <1>3, <2>2, <2>3, <2>4, <2>5
<1>4. CASE h.ref[u] # 0 /\ h.ref[u] # 1
  <2> DEFINE k == h.ref[u] - 1
  <2>1. k \in Nat
    BY <1>1, <1>4
  <2>2. ReleaseBuffer(h, u) = [h EXCEPT !.ref[u] = k]
    <3>1. h = [ref |-> h.ref, maps |-> h.maps, gref |-> h.gref,
               grp |-> h.grp, dev |-> h.dev, bad |-> h.bad]
      BY HeapFields
    <3>2. ASSUME NEW ref \in [Buffer -> Nat], NEW maps, NEW gref, NEW grp, NEW dev,
                 NEW bad,
                 h = [ref |-> ref, maps |-> maps, gref |-> gref, grp |-> grp,
                      dev |-> dev, bad |-> bad]
          PROVE  [h EXCEPT !.ref[u] = @ - 1] = [h EXCEPT !.ref[u] = k]
      BY <3>2
    <3>3. [h EXCEPT !.ref[u] = @ - 1] = [h EXCEPT !.ref[u] = k]
      BY <1>1, <3>1, <3>2
    <3> QED
      BY <1>4, <3>3 DEF ReleaseBuffer
  <2> HIDE DEF k
  <2>3. /\ [h EXCEPT !.ref[u] = k] \in HeapRec
        /\ [h EXCEPT !.ref[u] = k] =
             [ref |-> [h.ref EXCEPT ![u] = k], maps |-> h.maps, gref |-> h.gref,
              grp |-> h.grp, dev |-> h.dev, bad |-> h.bad]
    BY <2>1, RefExcept
  <2>4. ReleaseBuffer(h, u) =
          [ref |-> [h.ref EXCEPT ![u] = k], maps |-> h.maps, gref |-> h.gref,
           grp |-> h.grp, dev |-> h.dev, bad |-> h.bad]
    BY <2>2, <2>3
  <2>5. (h.bad \/ h.ref[u] = 0 \/ (h.ref[u] = 1 /\ h.dev = 0)) = h.bad
    BY <1>1, <1>4
  <2>6. (IF h.ref[u] = 1 THEN h.dev - 1 ELSE h.dev) = h.dev
    BY <1>4
  <2>7. (IF h.ref[u] = 0 THEN 0 ELSE h.ref[u] - 1) = k
    BY <1>4 DEF k
  <2> QED
    BY <2>2, <2>3, <2>4, <2>5, <2>6, <2>7
<1> QED
  BY <1>2, <1>3, <1>4

\* The size of the set of live buffers and the references to the device move
\* together.
LEMMA ReleaseSpare ==
  ASSUME NEW h, HeapOK(h), NEW u \in Buffer
  PROVE  /\ HeapOK(ReleaseBuffer(h, u))
         /\ Spare(ReleaseBuffer(h, u)) = Spare(h)
         /\ ReleaseBuffer(h, u).bad = (h.bad \/ h.ref[u] = 0)
<1> DEFINE k == ReleaseBuffer(h, u)
<1>1. /\ h \in HeapRec /\ IsFiniteSet(LiveIn(h)) /\ Spare(h) >= 0
      /\ Cardinality(LiveIn(h)) \in Nat /\ h.ref \in [Buffer -> Nat]
      /\ h.dev \in Int /\ h.bad \in BOOLEAN /\ h.ref[u] \in Nat
  BY HeapFields, FS_CardinalityType DEF HeapOK
<1>2. /\ k \in HeapRec
      /\ k.ref = [h.ref EXCEPT ![u] = IF h.ref[u] = 0 THEN 0 ELSE h.ref[u] - 1]
      /\ k.dev = IF h.ref[u] = 1 THEN h.dev - 1 ELSE h.dev
      /\ k.bad = (h.bad \/ h.ref[u] = 0 \/ (h.ref[u] = 1 /\ h.dev = 0))
  BY <1>1, ReleaseFields
<1> HIDE DEF k
<1>3. CASE h.ref[u] = 1
  <2>1. LiveIn(k) = LiveIn(h) \ {u} /\ u \in LiveIn(h)
    BY <1>1, <1>2, <1>3 DEF LiveIn
  <2>2. /\ IsFiniteSet(LiveIn(k))
        /\ Cardinality(LiveIn(k)) = Cardinality(LiveIn(h)) - 1
    BY <1>1, <2>1, FS_RemoveElement
  <2>3. Spare(k) = Spare(h)
    BY <1>1, <1>2, <1>3, <2>2 DEF Spare
  <2>4. Cardinality(LiveIn(h)) # 0
    BY <1>1, <2>1, FS_EmptySet
  <2>5. h.dev # 0
    BY <1>1, <2>4 DEF Spare
  <2> QED
    BY <1>1, <1>2, <1>3, <2>2, <2>3, <2>5 DEF HeapOK, k
<1>4. CASE h.ref[u] # 1
  <2>1. LiveIn(k) = LiveIn(h)
    BY <1>1, <1>2, <1>4 DEF LiveIn
  <2>2. Spare(k) = Spare(h)
    BY <1>2, <1>4, <2>1 DEF Spare
  <2>3. k.bad = (h.bad \/ h.ref[u] = 0)
    BY <1>2, <1>4
  <2> QED
    BY <1>1, <1>2, <2>1, <2>2, <2>3 DEF HeapOK, k
<1> QED
  BY <1>3, <1>4

(***************************************************************************)
(* The last release of a group, step by step.                              *)
(***************************************************************************)

\* The last release of a group: its buffers one after the other.
LEMMA ReleaseLoop ==
  ASSUME NEW h \in HeapRec, NEW us \in Seq(Buffer)
  PROVE  \E g : /\ g[0] = h /\ g[Len(us)] = FoldLeft(ReleaseBuffer, h, us)
                /\ \A k \in 1 .. Len(us) : g[k] = ReleaseBuffer(g[k - 1], us[k])
<1> DEFINE n == Len(us)
           step == [k \in 1 .. n |-> [x \in HeapRec |-> ReleaseBuffer(x, us[k])]]
           F(it) == [S \in SUBSET (1 .. n) |->
                       IF S = {} THEN h
                       ELSE ReleaseBuffer(it[S \ {Max(S)}], us[Max(S)])]
           e == CHOOSE it : it = F(it)
<1>0. n \in Nat /\ DOMAIN us = 1 .. n /\ \A k \in 1 .. n : us[k] \in Buffer
  OBVIOUS
<1>1. FoldLeft(ReleaseBuffer, h, us) = e[1 .. n]
  BY <1>0 DEF FoldLeft, MapThenFoldSet
<1>2. step \in [1 .. n -> [HeapRec -> HeapRec]]
  BY <1>0, ReleaseFields
<1>3. PICK f \in [SUBSET (1 .. n) -> HeapRec] :
        Folding(f, h, n, step)
  <2> HIDE DEF step, n
  <2> QED
    BY <1>0, <1>2, FoldExists
<1>4. f = F(f)
  <2>1. ASSUME NEW S \in SUBSET (1 .. n), S # {}
        PROVE  f[S] = ReleaseBuffer(f[S \ {Max(S)}], us[Max(S)])
    <3>1. Max(S) \in 1 .. n
      BY <1>0, <2>1, MaxIn
    <3>2. f[S \ {Max(S)}] \in HeapRec
      OBVIOUS
    <3>3. f[S] = step[Max(S)][f[S \ {Max(S)}]]
      BY <1>3, <2>1 DEF Folding
    <3> HIDE DEF n, Max
    <3> QED
      BY <3>1, <3>2, <3>3
  <2>2. f = [S \in SUBSET (1 .. n) |-> f[S]] /\ f[{}] = h
    BY <1>3 DEF Folding
  <2> QED
    BY <2>1, <2>2
<1>5. e = F(e)
  BY <1>4
<1> DEFINE g == [k \in 0 .. n |-> e[1 .. k]]
<1>6. Traces(g, e, n)
  <2>1. n \in Nat
    BY <1>0
  <2> HIDE DEF e, n
  <2>2. \A k \in 0 .. n : g[k] = e[1 .. k]
    OBVIOUS
  <2> HIDE DEF g
  <2> QED
    BY <2>1, <2>2, FoldTrace
<1>7. g[0] = h
  BY <1>5, <1>6 DEF Traces
<1>8. ASSUME NEW k \in 1 .. n PROVE g[k] = ReleaseBuffer(g[k - 1], us[k])
  <2>1. e[1 .. k] = ReleaseBuffer(e[(1 .. k) \ {Max(1 .. k)}], us[Max(1 .. k)])
    <3> HIDE DEF e, g, Max
    <3> QED
      BY <1>5, <1>6 DEF Traces
  <2> HIDE DEF e, g
  <2> QED
    BY <1>6, <2>1 DEF Traces
<1> HIDE DEF g, e
<1> QED
  BY <1>1, <1>6, <1>7, <1>8 DEF Traces

(***************************************************************************)
(* Changes of the heap in closed form.                                     *)
(***************************************************************************)

\* From h to k each buffer of U has lost a references and b mappings.
Took(h, k, U, a, b) ==
  /\ HeapOK(k) /\ Spare(k) = Spare(h)
  /\ k.gref = h.gref /\ k.grp = h.grp /\ k.bad = h.bad
  /\ k.ref = [u \in Buffer |-> IF u \in U THEN h.ref[u] - a ELSE h.ref[u]]
  /\ k.maps = [u \in Buffer |-> IF u \in U THEN h.maps[u] - b ELSE h.maps[u]]

\* From h to k the buffers us were created, each with a references, b of them
\* mappings, and became members of g.
Gave(h, k, us, g, a, b) ==
  /\ HeapOK(k) /\ Spare(k) = Spare(h)
  /\ k.gref = h.gref /\ k.bad = h.bad
  /\ k.grp = [h.grp EXCEPT ![g] = h.grp[g] \o us]
  /\ k.ref = [u \in Buffer |-> IF u \in ToSet(us) THEN a ELSE h.ref[u]]
  /\ k.maps = [u \in Buffer |-> IF u \in ToSet(us) THEN h.maps[u] + b ELSE h.maps[u]]

\* No step changes nothing.
LEMMA TookNone ==
  ASSUME NEW h, HeapOK(h), NEW a, NEW b
  PROVE  Took(h, h, {}, a, b)
<1>1. h.ref \in [Buffer -> Nat] /\ h.maps \in [Buffer -> Int]
  BY HeapFields DEF HeapOK
<1>2. h.ref = [u \in Buffer |-> IF u \in {} THEN h.ref[u] - a ELSE h.ref[u]]
  BY <1>1
<1>3. h.maps = [u \in Buffer |-> IF u \in {} THEN h.maps[u] - b ELSE h.maps[u]]
  BY <1>1
<1> QED
  BY <1>2, <1>3 DEF Took

\* Two steps on different buffers are one on both.
LEMMA TookMore ==
  ASSUME NEW h, NEW k, NEW m, HeapOK(h), NEW U, NEW V, U \cap V = {},
         NEW a \in Int, NEW b \in Int, Took(h, k, U, a, b), Took(k, m, V, a, b)
  PROVE  Took(h, m, U \cup V, a, b)
<1>1. /\ HeapOK(m) /\ Spare(m) = Spare(h)
      /\ m.gref = h.gref /\ m.grp = h.grp /\ m.bad = h.bad
  BY DEF Took
<1>2. m.ref = [u \in Buffer |-> IF u \in U \cup V THEN h.ref[u] - a ELSE h.ref[u]]
  <2>1. \A u \in Buffer : k.ref[u] = IF u \in U THEN h.ref[u] - a ELSE h.ref[u]
    BY DEF Took
  <2>2. m.ref = [u \in Buffer |-> IF u \in V THEN k.ref[u] - a ELSE k.ref[u]]
    BY DEF Took
  <2>3. \A u \in Buffer : (IF u \in V THEN k.ref[u] - a ELSE k.ref[u]) =
                          IF u \in U \cup V THEN h.ref[u] - a ELSE h.ref[u]
    BY <2>1
  <2> QED
    BY <2>2, <2>3
<1>3. m.maps = [u \in Buffer |-> IF u \in U \cup V THEN h.maps[u] - b ELSE h.maps[u]]
  <2>1. \A u \in Buffer : k.maps[u] = IF u \in U THEN h.maps[u] - b ELSE h.maps[u]
    BY DEF Took
  <2>2. m.maps = [u \in Buffer |-> IF u \in V THEN k.maps[u] - b ELSE k.maps[u]]
    BY DEF Took
  <2>3. \A u \in Buffer : (IF u \in V THEN k.maps[u] - b ELSE k.maps[u]) =
                          IF u \in U \cup V THEN h.maps[u] - b ELSE h.maps[u]
    BY <2>1
  <2> QED
    BY <2>2, <2>3
<1> QED
  BY <1>1, <1>2, <1>3 DEF Took

\* A release takes one reference of a live buffer.
LEMMA ReleaseTook ==
  ASSUME NEW h, HeapOK(h), NEW u \in Buffer, h.ref[u] > 0
  PROVE  Took(h, ReleaseBuffer(h, u), {u}, 1, 0)
<1> DEFINE k == ReleaseBuffer(h, u)
<1>1. /\ h \in HeapRec /\ h.ref \in [Buffer -> Nat] /\ h.maps \in [Buffer -> Int]
      /\ h.bad \in BOOLEAN
  BY HeapFields DEF HeapOK
<1>2. /\ k.ref = [h.ref EXCEPT ![u] = IF h.ref[u] = 0 THEN 0 ELSE h.ref[u] - 1]
      /\ k.maps = h.maps /\ k.gref = h.gref /\ k.grp = h.grp
  BY <1>1, ReleaseFields
<1>3. HeapOK(k) /\ Spare(k) = Spare(h) /\ k.bad = (h.bad \/ h.ref[u] = 0)
  BY ReleaseSpare
<1> HIDE DEF k
<1>4. k.bad = h.bad
  BY <1>1, <1>3
<1>5. k.ref = [v \in Buffer |-> IF v \in {u} THEN h.ref[v] - 1 ELSE h.ref[v]]
  BY <1>1, <1>2
<1>6. k.maps = [v \in Buffer |-> IF v \in {u} THEN h.maps[v] - 0 ELSE h.maps[v]]
  BY <1>1, <1>2
<1> QED
  BY <1>2, <1>3, <1>4, <1>5, <1>6 DEF Took, k

\* A heap with other mappings.
LEMMA MapsExcept ==
  ASSUME NEW h \in HeapRec, NEW u \in Buffer, NEW x \in Int
  PROVE  /\ [h EXCEPT !.maps[u] = x] \in HeapRec
         /\ [h EXCEPT !.maps[u] = x] =
              [ref |-> h.ref, maps |-> [h.maps EXCEPT ![u] = x], gref |-> h.gref,
               grp |-> h.grp, dev |-> h.dev, bad |-> h.bad]
<1> DEFINE r == [h.maps EXCEPT ![u] = x]
           m == [ref |-> h.ref, maps |-> r, gref |-> h.gref, grp |-> h.grp,
                 dev |-> h.dev, bad |-> h.bad]
<1>1. r \in [Buffer -> Int]
  BY HeapFields
<1>2. [h EXCEPT !.maps[u] = x] = [h EXCEPT !.maps = r]
  OBVIOUS
<1> HIDE DEF r
<1>4. m \in HeapRec
  BY <1>1, HeapFields, HeapOf
<1>5. [h EXCEPT !.maps[u] = x] = m
  BY <1>2, HeapExcept
<1> QED
  BY <1>4, <1>5 DEF r

\* A heap with another member of a group.
LEMMA GroupExcept ==
  ASSUME NEW h \in HeapRec, NEW g \in Group, NEW s \in Seq(Buffer)
  PROVE  /\ [h EXCEPT !.grp[g] = s] \in HeapRec
         /\ [h EXCEPT !.grp[g] = s] =
              [ref |-> h.ref, maps |-> h.maps, gref |-> h.gref,
               grp |-> [h.grp EXCEPT ![g] = s], dev |-> h.dev, bad |-> h.bad]
<1> DEFINE r == [h.grp EXCEPT ![g] = s]
           m == [ref |-> h.ref, maps |-> h.maps, gref |-> h.gref, grp |-> r,
                 dev |-> h.dev, bad |-> h.bad]
<1>1. r \in [Group -> Seq(Buffer)]
  BY HeapFields
<1>2. [h EXCEPT !.grp[g] = s] = [h EXCEPT !.grp = r]
  OBVIOUS
<1> HIDE DEF r
<1>4. m \in HeapRec
  BY <1>1, HeapFields, HeapOf
<1>5. [h EXCEPT !.grp[g] = s] = m
  BY <1>2, HeapExcept
<1> QED
  BY <1>4, <1>5 DEF r

\* xrp_add_buffer_to_group.
LEMMA AddFields ==
  ASSUME NEW h \in HeapRec, NEW u \in Buffer, NEW g \in Group
  PROVE  /\ AddToGroup(h, g, u) \in HeapRec
         /\ AddToGroup(h, g, u) =
              [ref |-> [h.ref EXCEPT ![u] = h.ref[u] + 1], maps |-> h.maps,
               gref |-> h.gref, grp |-> [h.grp EXCEPT ![g] = Append(h.grp[g], u)],
               dev |-> h.dev, bad |-> (h.bad \/ h.ref[u] = 0)]
<1> DEFINE m == [h EXCEPT !.grp[g] = Append(h.grp[g], u)]
<1>1. Append(h.grp[g], u) \in Seq(Buffer)
  BY HeapFields
<1>2. /\ m \in HeapRec
      /\ m = [ref |-> h.ref, maps |-> h.maps, gref |-> h.gref,
              grp |-> [h.grp EXCEPT ![g] = Append(h.grp[g], u)],
              dev |-> h.dev, bad |-> h.bad]
  BY <1>1, GroupExcept
<1>3. AddToGroup(h, g, u) = RetainBuffer(m, u)
  BY DEF AddToGroup
<1> HIDE DEF m
<1>4. /\ RetainBuffer(m, u) \in HeapRec
      /\ RetainBuffer(m, u) =
           [ref |-> [m.ref EXCEPT ![u] = m.ref[u] + 1], maps |-> m.maps,
            gref |-> m.gref, grp |-> m.grp, dev |-> m.dev,
            bad |-> (m.bad \/ m.ref[u] = 0)]
  BY <1>2, RetainFields
<1>5. /\ m.ref = h.ref /\ m.maps = h.maps /\ m.gref = h.gref /\ m.dev = h.dev
      /\ m.bad = h.bad /\ m.grp = [h.grp EXCEPT ![g] = Append(h.grp[g], u)]
  BY <1>2
<1> QED
  BY <1>3, <1>4, <1>5

\* xrp_map_buffer.
LEMMA MapFields ==
  ASSUME NEW h \in HeapRec, NEW u \in Buffer
  PROVE  /\ MapBuffer(h, u) \in HeapRec
         /\ MapBuffer(h, u) =
              [ref |-> [h.ref EXCEPT ![u] = h.ref[u] + 1],
               maps |-> [h.maps EXCEPT ![u] = h.maps[u] + 1],
               gref |-> h.gref, grp |-> h.grp, dev |-> h.dev,
               bad |-> (h.bad \/ h.ref[u] = 0)]
<1> DEFINE m == [h EXCEPT !.maps[u] = h.maps[u] + 1]
<1>1. h.maps[u] + 1 \in Int
  BY HeapFields
<1>2. /\ m \in HeapRec
      /\ m = [ref |-> h.ref, maps |-> [h.maps EXCEPT ![u] = h.maps[u] + 1],
              gref |-> h.gref, grp |-> h.grp, dev |-> h.dev, bad |-> h.bad]
  BY <1>1, MapsExcept
<1>3. MapBuffer(h, u) = RetainBuffer(m, u)
  BY DEF MapBuffer
<1> HIDE DEF m
<1>4. /\ RetainBuffer(m, u) \in HeapRec
      /\ RetainBuffer(m, u) =
           [ref |-> [m.ref EXCEPT ![u] = m.ref[u] + 1], maps |-> m.maps,
            gref |-> m.gref, grp |-> m.grp, dev |-> m.dev,
            bad |-> (m.bad \/ m.ref[u] = 0)]
  BY <1>2, RetainFields
<1>5. /\ m.ref = h.ref /\ m.grp = h.grp /\ m.gref = h.gref /\ m.dev = h.dev
      /\ m.bad = h.bad /\ m.maps = [h.maps EXCEPT ![u] = h.maps[u] + 1]
  BY <1>2
<1> QED
  BY <1>3, <1>4, <1>5

\* A new member of a group that is not mapped: a buffer of a call.
LEMMA CallFields ==
  ASSUME NEW h \in HeapRec, NEW u \in Buffer, NEW g \in Group
  PROVE  /\ AddToGroup(CreateBuffer(h, u), g, u) \in HeapRec
         /\ AddToGroup(CreateBuffer(h, u), g, u) =
              [ref |-> [h.ref EXCEPT ![u] = 2], maps |-> h.maps, gref |-> h.gref,
               grp |-> [h.grp EXCEPT ![g] = Append(h.grp[g], u)],
               dev |-> h.dev + 1, bad |-> h.bad]
<1> DEFINE c == CreateBuffer(h, u)
<1>1. /\ c \in HeapRec
      /\ c = [ref |-> [h.ref EXCEPT ![u] = 1], maps |-> h.maps, gref |-> h.gref,
              grp |-> h.grp, dev |-> h.dev + 1, bad |-> h.bad]
  BY CreateFields
<1> HIDE DEF c
<1>2. /\ c.ref = [h.ref EXCEPT ![u] = 1] /\ c.maps = h.maps /\ c.gref = h.gref
      /\ c.grp = h.grp /\ c.dev = h.dev + 1 /\ c.bad = h.bad
  BY <1>1
<1>3. /\ AddToGroup(c, g, u) \in HeapRec
      /\ AddToGroup(c, g, u) =
           [ref |-> [c.ref EXCEPT ![u] = c.ref[u] + 1], maps |-> c.maps,
            gref |-> c.gref, grp |-> [c.grp EXCEPT ![g] = Append(c.grp[g], u)],
            dev |-> c.dev, bad |-> (c.bad \/ c.ref[u] = 0)]
  BY <1>1, AddFields
<1>4. h.ref \in [Buffer -> Nat] /\ h.bad \in BOOLEAN
  BY HeapFields
<1>5. c.ref[u] = 1 /\ [c.ref EXCEPT ![u] = c.ref[u] + 1] = [h.ref EXCEPT ![u] = 2]
  BY <1>2, <1>4
<1>6. (c.bad \/ c.ref[u] = 0) = h.bad
  BY <1>2, <1>4, <1>5
<1> QED
  BY <1>2, <1>3, <1>5, <1>6 DEF c

\* A new plane: created, mapped and a member of its group.
LEMMA PlaneFields ==
  ASSUME NEW h \in HeapRec, NEW u \in Buffer, NEW g \in Group
  PROVE  /\ AddPlane(h, g, u) \in HeapRec
         /\ AddPlane(h, g, u) =
              [ref |-> [h.ref EXCEPT ![u] = 3],
               maps |-> [h.maps EXCEPT ![u] = h.maps[u] + 1], gref |-> h.gref,
               grp |-> [h.grp EXCEPT ![g] = Append(h.grp[g], u)],
               dev |-> h.dev + 1, bad |-> h.bad]
<1> DEFINE c == CreateBuffer(h, u)
           m == MapBuffer(c, u)
<1>1. /\ c \in HeapRec
      /\ c = [ref |-> [h.ref EXCEPT ![u] = 1], maps |-> h.maps, gref |-> h.gref,
              grp |-> h.grp, dev |-> h.dev + 1, bad |-> h.bad]
  BY CreateFields
<1> HIDE DEF c
<1>2. /\ c.ref = [h.ref EXCEPT ![u] = 1] /\ c.maps = h.maps /\ c.gref = h.gref
      /\ c.grp = h.grp /\ c.dev = h.dev + 1 /\ c.bad = h.bad
  BY <1>1
<1>3. /\ m \in HeapRec
      /\ m = [ref |-> [c.ref EXCEPT ![u] = c.ref[u] + 1],
              maps |-> [c.maps EXCEPT ![u] = c.maps[u] + 1],
              gref |-> c.gref, grp |-> c.grp, dev |-> c.dev,
              bad |-> (c.bad \/ c.ref[u] = 0)]
  BY <1>1, MapFields
<1> HIDE DEF m
<1>4. h.ref \in [Buffer -> Nat] /\ h.bad \in BOOLEAN
  BY HeapFields
<1>5. c.ref[u] = 1 /\ [c.ref EXCEPT ![u] = c.ref[u] + 1] = [h.ref EXCEPT ![u] = 2]
  BY <1>2, <1>4
<1>6. (c.bad \/ c.ref[u] = 0) = h.bad
  BY <1>2, <1>4, <1>5
<1>7. /\ m.ref = [h.ref EXCEPT ![u] = 2]
      /\ m.maps = [h.maps EXCEPT ![u] = h.maps[u] + 1] /\ m.gref = h.gref
      /\ m.grp = h.grp /\ m.dev = h.dev + 1 /\ m.bad = h.bad
  BY <1>2, <1>3, <1>5, <1>6
<1>8. /\ AddToGroup(m, g, u) \in HeapRec
      /\ AddToGroup(m, g, u) =
           [ref |-> [m.ref EXCEPT ![u] = m.ref[u] + 1], maps |-> m.maps,
            gref |-> m.gref, grp |-> [m.grp EXCEPT ![g] = Append(m.grp[g], u)],
            dev |-> m.dev, bad |-> (m.bad \/ m.ref[u] = 0)]
  BY <1>3, AddFields
<1>9. m.ref[u] = 2 /\ [m.ref EXCEPT ![u] = m.ref[u] + 1] = [h.ref EXCEPT ![u] = 3]
  BY <1>4, <1>7
<1>10. (m.bad \/ m.ref[u] = 0) = h.bad
  BY <1>4, <1>7, <1>9
<1>11. AddPlane(h, g, u) = AddToGroup(m, g, u)
  BY DEF AddPlane, m, c
<1> QED
  BY <1>7, <1>8, <1>9, <1>10, <1>11

\* One more live buffer and one more reference to the device.
LEMMA GaveOne ==
  ASSUME NEW h, HeapOK(h), NEW k \in HeapRec, NEW u \in Buffer, NEW g \in Group,
         h.ref[u] = 0, NEW a \in Nat \ {0}, NEW b \in Int,
         k.ref = [h.ref EXCEPT ![u] = a], k.gref = h.gref, k.bad = h.bad,
         k.maps = [h.maps EXCEPT ![u] = h.maps[u] + b],
         k.grp = [h.grp EXCEPT ![g] = Append(h.grp[g], u)], k.dev = h.dev + 1
  PROVE  Gave(h, k, <<u>>, g, a, b)
<1>1. /\ h \in HeapRec /\ h.ref \in [Buffer -> Nat] /\ h.maps \in [Buffer -> Int]
      /\ h.grp \in [Group -> Seq(Buffer)] /\ h.dev \in Int
      /\ IsFiniteSet(LiveIn(h)) /\ Spare(h) >= 0
      /\ Cardinality(LiveIn(h)) \in Nat
  BY HeapFields, FS_CardinalityType DEF HeapOK
<1>2. LiveIn(k) = LiveIn(h) \cup {u} /\ u \notin LiveIn(h)
  BY <1>1 DEF LiveIn
<1>3. IsFiniteSet(LiveIn(k)) /\ Cardinality(LiveIn(k)) = Cardinality(LiveIn(h)) + 1
  <2>1. IsFiniteSet(LiveIn(h))
    BY <1>1
  <2>2. /\ IsFiniteSet(LiveIn(h) \cup {u})
        /\ Cardinality(LiveIn(h) \cup {u}) = Cardinality(LiveIn(h)) + 1
    BY <1>2, <2>1, FS_AddElement
  <2> QED
    BY <1>2, <2>2
<1>4. Spare(k) = Spare(h)
  BY <1>1, <1>3 DEF Spare
<1>5. HeapOK(k)
  BY <1>1, <1>3, <1>4 DEF HeapOK
<1>6. ToSet(<<u>>) = {u}
  BY DEF ToSet
<1>7. k.ref = [v \in Buffer |-> IF v \in {u} THEN a ELSE h.ref[v]]
  BY <1>1
<1>8. k.maps = [v \in Buffer |-> IF v \in {u} THEN h.maps[v] + b ELSE h.maps[v]]
  BY <1>1
<1>9. Append(h.grp[g], u) = h.grp[g] \o <<u>>
  <2>1. h.grp[g] \in Seq(Buffer)
    BY <1>1
  <2> QED
    BY <2>1
<1> QED
  BY <1>4, <1>5, <1>6, <1>7, <1>8, <1>9 DEF Gave

\* xrp_unmap_buffer and xrp_release_buffer of a plane.
LEMMA DropFields ==
  ASSUME NEW h \in HeapRec, NEW g \in Group, NEW i \in Nat, h.grp[g][i] \in Buffer
  PROVE  DropPlane(h, g, i) \in HeapRec /\ DropPlane(h, g, i).grp = h.grp
<1> DEFINE u == h.grp[g][i]
           m == [h EXCEPT !.maps[u] = h.maps[u] - 1]
           k == ReleaseBuffer(m, u)
<1>0. u \in Buffer
  OBVIOUS
<1>1. DropPlane(h, g, i) = ReleaseBuffer(k, u)
  BY DEF DropPlane, UnmapBuffer, GetFromGroup
<1>2. h.maps[u] - 1 \in Int
  BY HeapFields, <1>0
<1> HIDE DEF u
<1>3. /\ m \in HeapRec
      /\ m = [ref |-> h.ref, maps |-> [h.maps EXCEPT ![u] = h.maps[u] - 1],
              gref |-> h.gref, grp |-> h.grp, dev |-> h.dev, bad |-> h.bad]
  BY <1>0, <1>2, MapsExcept
<1> HIDE DEF m
<1>4. k \in HeapRec /\ k.grp = m.grp
  BY <1>0, <1>3, ReleaseFields
<1> HIDE DEF k
<1>5. ReleaseBuffer(k, u) \in HeapRec /\ ReleaseBuffer(k, u).grp = k.grp
  BY <1>0, <1>4, ReleaseFields
<1> QED
  BY <1>1, <1>3, <1>4, <1>5

\* A plane that is mapped and held loses both references.
LEMMA DropTook ==
  ASSUME NEW h, HeapOK(h), NEW g \in Group, NEW i \in Nat,
         NEW u \in Buffer, h.grp[g][i] = u, h.ref[u] >= 2
  PROVE  Took(h, DropPlane(h, g, i), {u}, 2, 1)
<1> DEFINE m == [h EXCEPT !.maps[u] = h.maps[u] - 1]
           k == ReleaseBuffer(m, u)
           n == ReleaseBuffer(k, u)
<1>1. DropPlane(h, g, i) = n
  BY DEF DropPlane, UnmapBuffer, GetFromGroup
<1>2. /\ h \in HeapRec /\ h.ref \in [Buffer -> Nat] /\ h.maps \in [Buffer -> Int]
      /\ h.maps[u] - 1 \in Int /\ IsFiniteSet(LiveIn(h)) /\ Spare(h) >= 0
  BY HeapFields DEF HeapOK
<1>3. /\ m \in HeapRec
      /\ m = [ref |-> h.ref, maps |-> [h.maps EXCEPT ![u] = h.maps[u] - 1],
              gref |-> h.gref, grp |-> h.grp, dev |-> h.dev, bad |-> h.bad]
  BY <1>2, MapsExcept
<1> HIDE DEF m
<1>4. /\ m.ref = h.ref /\ m.maps = [h.maps EXCEPT ![u] = h.maps[u] - 1]
      /\ m.gref = h.gref /\ m.grp = h.grp /\ m.dev = h.dev /\ m.bad = h.bad
  BY <1>3
<1>5. HeapOK(m) /\ Spare(m) = Spare(h)
  BY <1>2, <1>3, <1>4 DEF HeapOK, Spare, LiveIn
<1>6. Took(m, k, {u}, 1, 0)
  BY <1>2, <1>4, <1>5, ReleaseTook
<1> HIDE DEF k
<1>7. HeapOK(k) /\ k.ref[u] = h.ref[u] - 1 /\ k.ref[u] > 0
  BY <1>2, <1>4, <1>6 DEF Took
<1>8. Took(k, n, {u}, 1, 0)
  BY <1>7, ReleaseTook
<1> HIDE DEF n
<1>9. /\ HeapOK(n) /\ Spare(n) = Spare(h)
      /\ n.gref = h.gref /\ n.grp = h.grp /\ n.bad = h.bad
  BY <1>4, <1>5, <1>6, <1>8 DEF Took
<1>10. n.ref = [v \in Buffer |-> IF v \in {u} THEN h.ref[v] - 2 ELSE h.ref[v]]
  <2>1. \A v \in Buffer : k.ref[v] = IF v \in {u} THEN h.ref[v] - 1 ELSE h.ref[v]
    BY <1>4, <1>6 DEF Took
  <2>2. n.ref = [v \in Buffer |-> IF v \in {u} THEN k.ref[v] - 1 ELSE k.ref[v]]
    BY <1>8 DEF Took
  <2>3. \A v \in Buffer : h.ref[v] \in Nat
    BY <1>2
  <2> QED
    BY <2>1, <2>2, <2>3
<1>11. n.maps = [v \in Buffer |-> IF v \in {u} THEN h.maps[v] - 1 ELSE h.maps[v]]
  <2>1. \A v \in Buffer : m.maps[v] = IF v \in {u} THEN h.maps[v] - 1 ELSE h.maps[v]
    BY <1>2, <1>4
  <2>2. k.maps = [v \in Buffer |-> IF v \in {u} THEN m.maps[v] - 0 ELSE m.maps[v]]
    BY <1>6 DEF Took
  <2>3. n.maps = [v \in Buffer |-> IF v \in {u} THEN k.maps[v] - 0 ELSE k.maps[v]]
    BY <1>8 DEF Took
  <2>4. \A v \in Buffer : h.maps[v] \in Int
    BY <1>2
  <2> QED
    BY <2>1, <2>2, <2>3, <2>4
<1> QED
  BY <1>1, <1>9, <1>10, <1>11 DEF Took

(***************************************************************************)
(* Sequences.                                                              *)
(***************************************************************************)

\* The members of a sequence with one more, and of one cell.
LEMMA ToSetAppend ==
  ASSUME NEW S, NEW s \in Seq(S), NEW u
  PROVE  ToSet(<<u>>) = {u} /\ ToSet(Append(s, u)) = ToSet(s) \cup {u}
<1>1. ToSet(<<u>>) = {u}
  BY DEF ToSet
<1>2. /\ Len(s) \in Nat /\ DOMAIN s = 1 .. Len(s)
      /\ DOMAIN Append(s, u) = 1 .. Len(s) + 1
      /\ \A i \in 1 .. Len(s) : Append(s, u)[i] = s[i]
      /\ Append(s, u)[Len(s) + 1] = u
  OBVIOUS
<1>3. ASSUME NEW x \in ToSet(Append(s, u)) PROVE x \in ToSet(s) \cup {u}
  <2>1. PICK i \in 1 .. Len(s) + 1 : x = Append(s, u)[i]
    BY <1>2 DEF ToSet
  <2>2. i \in 1 .. Len(s) \/ i = Len(s) + 1
    BY <1>2
  <2> QED
    BY <1>2, <2>1, <2>2 DEF ToSet
<1>4. ASSUME NEW x \in ToSet(s) \cup {u} PROVE x \in ToSet(Append(s, u))
  <2>1. CASE x = u
    <3>1. Len(s) + 1 \in 1 .. Len(s) + 1
      BY <1>2
    <3> QED
      BY <1>2, <2>1, <3>1 DEF ToSet
  <2>2. CASE x \in ToSet(s)
    <3>1. PICK i \in 1 .. Len(s) : x = s[i]
      BY <1>2, <2>2 DEF ToSet
    <3>2. i \in 1 .. Len(s) + 1
      BY <1>2
    <3> QED
      BY <1>2, <3>1, <3>2 DEF ToSet
  <2> QED
    BY <2>1, <2>2
<1> QED
  BY <1>1, <1>3, <1>4

\* One more at the end of the second sequence.
LEMMA ConcatAppend ==
  ASSUME NEW S, NEW s \in Seq(S), NEW w \in Seq(S), NEW u \in S
  PROVE  (w \o s) \o <<u>> = w \o Append(s, u)
<1>1. Append(s, u) = s \o <<u>> /\ <<u>> \in Seq(S)
  BY AppendIsConcat
<1>2. (w \o s) \o <<u>> = w \o (s \o <<u>>)
  BY <1>1, ConcatAssociative
<1> QED
  BY <1>1, <1>2

\* Disjoint sets, and the union of the first ones.
Apart(V, n) == \A j, k \in 1 .. n : j # k => V[j] \cap V[k] = {}
First(V, n) == UNION {V[j] : j \in 1 .. n}

\* The k-th step takes from V[k], when those before took from the sets before.
Taking(h, g, n, V, a, b) ==
  \A k \in 1 .. n :
    Took(h, g[k - 1], First(V, k - 1), a, b) => Took(g[k - 1], g[k], V[k], a, b)

\* The k-th step creates us[k].
Giving(h, g, us, q, a, b) ==
  \A k \in 1 .. Len(us) :
    Gave(h, g[k - 1], SubSeq(us, 1, k - 1), q, a, b)
      => Gave(g[k - 1], g[k], <<us[k]>>, q, a, b)

\* A number of steps on different buffers.
LEMMA TookAll ==
  ASSUME NEW h, HeapOK(h), NEW n \in Nat, NEW g, g[0] = h, NEW V,
         NEW a \in Int, NEW b \in Int,
         Apart(V, n), Taking(h, g, n, V, a, b)
  PROVE  Took(h, g[n], First(V, n), a, b)
<1> DEFINE W(k) == First(V, k)
           T == {k \in 0 .. n : ~Took(h, g[k], W(k), a, b)}
<1> SUFFICES ASSUME ~Took(h, g[n], W(n), a, b) PROVE FALSE
  OBVIOUS
<1>1. T \subseteq Nat /\ T # {}
  <2> HIDE DEF W
  <2> QED
    OBVIOUS
<1>2. PICK k \in T : \A y \in T : k <= y
  <2> HIDE DEF T
  <2> QED
    BY <1>1, Least
<1>3. k \in 0 .. n /\ ~Took(h, g[k], W(k), a, b)
  BY <1>2
<1>4. k # 0
  <2>1. W(0) = {}
    BY DEF First
  <2> HIDE DEF W
  <2>2. Took(h, g[0], W(0), a, b)
    BY <2>1, TookNone
  <2> QED
    BY <1>3, <2>2
<1>5. k \in 1 .. n /\ k - 1 \in 0 .. n /\ ~(k <= k - 1)
  BY <1>3, <1>4
<1>6. Took(h, g[k - 1], W(k - 1), a, b)
  BY <1>2, <1>5
<1>7. Took(g[k - 1], g[k], V[k], a, b)
  BY <1>5, <1>6 DEF Taking
<1>8. W(k - 1) \cap V[k] = {}
  <2>1. \A j \in 1 .. k - 1 : j \in 1 .. n /\ j # k
    BY <1>5
  <2>2. \A j \in 1 .. k - 1 : V[j] \cap V[k] = {}
    BY <1>5, <2>1 DEF Apart
  <2> QED
    BY <2>2 DEF First
<1>9. W(k) = W(k - 1) \cup V[k]
  <2>1. 1 .. k = (1 .. k - 1) \cup {k}
    BY <1>5
  <2> QED
    BY <2>1 DEF First
<1> HIDE DEF W
<1>10. Took(h, g[k], W(k - 1) \cup V[k], a, b)
  BY <1>6, <1>7, <1>8, TookMore
<1> QED
  BY <1>3, <1>9, <1>10

\* Nothing is created.
LEMMA GaveNone ==
  ASSUME NEW h, HeapOK(h), NEW q \in Group, NEW a, NEW b
  PROVE  Gave(h, h, <<>>, q, a, b)
<1>1. /\ h.ref \in [Buffer -> Nat] /\ h.maps \in [Buffer -> Int]
      /\ h.grp \in [Group -> Seq(Buffer)]
  BY HeapFields DEF HeapOK
<1>2. ToSet(<<>>) = {}
  BY DEF ToSet
<1>3. h.ref = [u \in Buffer |-> IF u \in {} THEN a ELSE h.ref[u]]
  BY <1>1
<1>4. h.maps = [u \in Buffer |-> IF u \in {} THEN h.maps[u] + b ELSE h.maps[u]]
  BY <1>1
<1>5. h.grp = [h.grp EXCEPT ![q] = h.grp[q] \o <<>>]
  <2>1. h.grp[q] \o <<>> = h.grp[q]
    BY <1>1
  <2> QED
    BY <1>1, <2>1
<1> QED
  BY <1>2, <1>3, <1>4, <1>5 DEF Gave

\* One more is created.
LEMMA GaveMore ==
  ASSUME NEW h, NEW k, NEW m, HeapOK(h), NEW s \in Seq(Buffer), NEW u \in Buffer,
         u \notin ToSet(s), NEW q \in Group, NEW a \in Nat, NEW b \in Int,
         Gave(h, k, s, q, a, b), Gave(k, m, <<u>>, q, a, b)
  PROVE  Gave(h, m, Append(s, u), q, a, b)
<1>1. /\ h.ref \in [Buffer -> Nat] /\ h.maps \in [Buffer -> Int]
      /\ h.grp \in [Group -> Seq(Buffer)]
  BY HeapFields DEF HeapOK
<1>2. ToSet(<<u>>) = {u} /\ ToSet(Append(s, u)) = ToSet(s) \cup {u}
  BY ToSetAppend
<1>3. m.ref = [v \in Buffer |-> IF v \in ToSet(s) \cup {u} THEN a ELSE h.ref[v]]
  <2>1. \A v \in Buffer : k.ref[v] = IF v \in ToSet(s) THEN a ELSE h.ref[v]
    BY DEF Gave
  <2>2. m.ref = [v \in Buffer |-> IF v \in {u} THEN a ELSE k.ref[v]]
    BY <1>2 DEF Gave
  <2> QED
    BY <2>1, <2>2
<1>4. m.maps = [v \in Buffer |-> IF v \in ToSet(s) \cup {u} THEN h.maps[v] + b
                                 ELSE h.maps[v]]
  <2>1. \A v \in Buffer : k.maps[v] = IF v \in ToSet(s) THEN h.maps[v] + b ELSE h.maps[v]
    BY DEF Gave
  <2>2. m.maps = [v \in Buffer |-> IF v \in {u} THEN k.maps[v] + b ELSE k.maps[v]]
    BY <1>2 DEF Gave
  <2> QED
    BY <2>1, <2>2
<1>5. m.grp = [h.grp EXCEPT ![q] = h.grp[q] \o Append(s, u)]
  <2>1. k.grp = [h.grp EXCEPT ![q] = h.grp[q] \o s]
    BY DEF Gave
  <2>2. m.grp = [k.grp EXCEPT ![q] = k.grp[q] \o <<u>>]
    BY DEF Gave
  <2>3. k.grp[q] = h.grp[q] \o s
    BY <1>1, <2>1
  <2>4. (h.grp[q] \o s) \o <<u>> = h.grp[q] \o Append(s, u)
    <3>1. h.grp[q] \in Seq(Buffer)
      BY <1>1
    <3> QED
      BY <3>1, ConcatAppend
  <2> QED
    BY <1>1, <2>1, <2>2, <2>3, <2>4
<1>6. /\ HeapOK(m) /\ Spare(m) = Spare(h)
      /\ m.gref = h.gref /\ m.bad = h.bad
  BY DEF Gave
<1> QED
  BY <1>2, <1>3, <1>4, <1>5, <1>6 DEF Gave

\* All of them are created, one after the other.
LEMMA GaveAll ==
  ASSUME NEW h, HeapOK(h), NEW us \in Seq(Buffer), IsInjective(us),
         NEW g, g[0] = h, NEW q \in Group, NEW a \in Nat, NEW b \in Int,
         Giving(h, g, us, q, a, b)
  PROVE  Gave(h, g[Len(us)], us, q, a, b)
<1> DEFINE n == Len(us)
           W(k) == SubSeq(us, 1, k)
           T == {k \in 0 .. n : ~Gave(h, g[k], W(k), q, a, b)}
<1>0. n \in Nat /\ W(n) = us
  OBVIOUS
<1> SUFFICES ASSUME ~Gave(h, g[n], W(n), q, a, b) PROVE FALSE
  BY <1>0
<1>1. T \subseteq Nat /\ T # {}
  <2> HIDE DEF W, n
  <2> QED
    BY <1>0
<1>2. PICK k \in T : \A y \in T : k <= y
  <2> HIDE DEF T
  <2> QED
    BY <1>1, Least
<1>3. k \in 0 .. n /\ ~Gave(h, g[k], W(k), q, a, b)
  BY <1>2
<1>4. k # 0
  <2>1. W(0) = <<>>
    OBVIOUS
  <2> HIDE DEF W
  <2>2. Gave(h, g[0], W(0), q, a, b)
    BY <2>1, GaveNone
  <2> QED
    BY <1>3, <2>2
<1>5. k \in 1 .. n /\ k - 1 \in 0 .. n /\ ~(k <= k - 1)
  BY <1>0, <1>3, <1>4
<1>6. Gave(h, g[k - 1], W(k - 1), q, a, b)
  BY <1>2, <1>5
<1>7. Gave(g[k - 1], g[k], <<us[k]>>, q, a, b)
  BY <1>5, <1>6 DEF Giving
<1>8. /\ W(k - 1) \in Seq(Buffer) /\ us[k] \in Buffer
      /\ Len(W(k - 1)) = k - 1
      /\ \A j \in 1 .. k - 1 : W(k - 1)[j] = us[j]
  BY <1>0, <1>5
<1>9. us[k] \notin ToSet(W(k - 1))
  <2> SUFFICES ASSUME us[k] \in ToSet(W(k - 1)) PROVE FALSE
    OBVIOUS
  <2>1. PICK j \in 1 .. k - 1 : us[k] = W(k - 1)[j]
    <3> HIDE DEF W
    <3> QED
      BY <1>8 DEF ToSet
  <2>2. us[k] = us[j] /\ j \in 1 .. n /\ j # k
    BY <1>0, <1>5, <1>8, <2>1
  <2> QED
    BY <1>5, <2>2 DEF IsInjective
<1>10. W(k) = Append(W(k - 1), us[k])
  BY <1>0, <1>5
<1> HIDE DEF W
<1>11. Gave(h, g[k], Append(W(k - 1), us[k]), q, a, b)
  BY <1>6, <1>7, <1>8, <1>9, GaveMore
<1> QED
  BY <1>3, <1>10, <1>11

(***************************************************************************)
(* The loops of the library, step by step.                                 *)
(***************************************************************************)

\* Some of the buffers are released by name.
LEMMA OfLoop ==
  ASSUME NEW h0 \in HeapRec, NEW us \in Seq(Buffer), NEW U
  PROVE  \E g : /\ g[0] = h0 /\ g[Len(us)] = ReleaseOf(h0, us, U)
                /\ \A k \in 1 .. Len(us) :
                    /\ g[k - 1] \in HeapRec
                    /\ g[k] = (IF us[k] \in U THEN ReleaseBuffer(g[k - 1], us[k])
                               ELSE g[k - 1])
<1> DEFINE n == Len(us)
           b == h0
           H == HeapRec
           step == [k \in 1 .. n |-> [x \in H |->
                    (IF us[k] \in U THEN ReleaseBuffer(x, us[k]) ELSE x)]]
           F(it) == [S \in SUBSET (1 .. n) |->
                       IF S = {} THEN b
                       ELSE (IF us[Max(S)] \in U
                             THEN ReleaseBuffer(it[S \ {Max(S)}], us[Max(S)])
                             ELSE it[S \ {Max(S)}])]
           e == CHOOSE it : it = F(it)
<1>0. n \in Nat /\ DOMAIN us = 1 .. n /\ \A k \in 1 .. n : us[k] \in Buffer
  OBVIOUS
<1>1. ReleaseOf(h0, us, U) = e[1 .. n]
  BY <1>0 DEF FoldLeft, MapThenFoldSet, ReleaseOf
<1>2. b \in H /\ step \in [1 .. n -> [H -> H]]
  <2>1. ASSUME NEW k \in 1 .. n, NEW x \in H
        PROVE  (IF us[k] \in U THEN ReleaseBuffer(x, us[k]) ELSE x) \in H
    BY <1>0, ReleaseFields
  <2> QED
    BY <2>1
<1>3. PICK f \in [SUBSET (1 .. n) -> H] : Folding(f, b, n, step)
  <2> HIDE DEF step, n, b, H
  <2> QED
    BY <1>0, <1>2, FoldExists
<1>4. f = F(f)
  <2>1. ASSUME NEW S \in SUBSET (1 .. n), S # {}
        PROVE  f[S] = (IF us[Max(S)] \in U
                       THEN ReleaseBuffer(f[S \ {Max(S)}], us[Max(S)])
                       ELSE f[S \ {Max(S)}])
    <3>1. Max(S) \in 1 .. n
      BY <1>0, <2>1, MaxIn
    <3>2. f[S \ {Max(S)}] \in H
      OBVIOUS
    <3>3. f[S] = step[Max(S)][f[S \ {Max(S)}]]
      BY <1>3, <2>1 DEF Folding
    <3> HIDE DEF n, Max, H
    <3> QED
      BY <3>1, <3>2, <3>3
  <2>2. f = [S \in SUBSET (1 .. n) |-> f[S]] /\ f[{}] = b
    BY <1>3 DEF Folding
  <2> HIDE DEF b, H
  <2> QED
    BY <2>1, <2>2
<1>5. e = F(e)
  BY <1>4
<1> DEFINE g == [k \in 0 .. n |-> e[1 .. k]]
<1>6. Traces(g, e, n)
  <2>1. n \in Nat
    BY <1>0
  <2> HIDE DEF e, n
  <2>2. \A k \in 0 .. n : g[k] = e[1 .. k]
    OBVIOUS
  <2> HIDE DEF g
  <2> QED
    BY <2>1, <2>2, FoldTrace
<1>7. g[0] = b
  <2> HIDE DEF b
  <2> QED
    BY <1>5, <1>6 DEF Traces
<1>8. ASSUME NEW k \in 1 .. n
      PROVE  g[k] = (IF us[k] \in U THEN ReleaseBuffer(g[k - 1], us[k]) ELSE g[k - 1])
  <2>1. e[1 .. k] = (IF us[Max(1 .. k)] \in U
                     THEN ReleaseBuffer(e[(1 .. k) \ {Max(1 .. k)}], us[Max(1 .. k)])
                     ELSE e[(1 .. k) \ {Max(1 .. k)}])
    <3> HIDE DEF e, g, Max, b
    <3> QED
      BY <1>5, <1>6 DEF Traces
  <2> HIDE DEF e, g, b
  <2> QED
    BY <1>6, <2>1 DEF Traces
<1>9. \A k \in 0 .. n : g[k] \in H
  <2>1. ASSUME NEW k \in 1 .. n, g[k - 1] \in H PROVE g[k] \in H
    <3>1. g[k] = step[k][g[k - 1]]
      <4> HIDE DEF g, H, e, b
      <4> QED
        BY <1>8, <2>1
    <3> HIDE DEF g, step, H, e, b, n
    <3> QED
      BY <1>2, <2>1, <3>1
  <2> HIDE DEF g, H, b, step
  <2> QED
    BY <1>0, <1>2, <1>7, <2>1, Stays
<1>10. \A k \in 1 .. n : k - 1 \in 0 .. n
  BY <1>0
<1> HIDE DEF g, e
<1> QED
  BY <1>1, <1>6, <1>7, <1>8, <1>9, <1>10 DEF Traces

\* The buffers of a call are created one after the other.
LEMMA CallLoop ==
  ASSUME CreateGroup(heap, CallGroup) \in HeapRec, NEW us \in Seq(Buffer),
         CallGroup \in Group
  PROVE  \E g : /\ g[0] = CreateGroup(heap, CallGroup) /\ g[Len(us)] = CallBuffers(us)
                /\ \A k \in 1 .. Len(us) : /\ g[k - 1] \in HeapRec
                                           /\ g[k] = AddToGroup(CreateBuffer(g[k - 1], us[k]),
                                                                CallGroup, us[k])
<1> DEFINE n == Len(us)
           b == CreateGroup(heap, CallGroup)
           H == HeapRec
           step == [k \in 1 .. n |->
                    [x \in H |-> AddToGroup(CreateBuffer(x, us[k]), CallGroup, us[k])]]
           F(it) == [S \in SUBSET (1 .. n) |->
                       IF S = {} THEN b
                       ELSE AddToGroup(CreateBuffer(it[S \ {Max(S)}], us[Max(S)]),
                                       CallGroup, us[Max(S)])]
           e == CHOOSE it : it = F(it)
<1>0. n \in Nat /\ DOMAIN us = 1 .. n /\ \A k \in 1 .. n : us[k] \in Buffer
  OBVIOUS
<1>1. CallBuffers(us) = e[1 .. n]
  BY <1>0 DEF FoldLeft, MapThenFoldSet, CallBuffers
<1>2. b \in H /\ step \in [1 .. n -> [H -> H]]
  <2>1. ASSUME NEW k \in 1 .. n, NEW x \in H
        PROVE  AddToGroup(CreateBuffer(x, us[k]), CallGroup, us[k]) \in H
    BY <1>0, CallFields
  <2> QED
    BY <2>1
<1>3. PICK f \in [SUBSET (1 .. n) -> H] : Folding(f, b, n, step)
  <2> HIDE DEF step, n, b, H
  <2> QED
    BY <1>0, <1>2, FoldExists
<1>4. f = F(f)
  <2>1. ASSUME NEW S \in SUBSET (1 .. n), S # {}
        PROVE  f[S] = AddToGroup(CreateBuffer(f[S \ {Max(S)}], us[Max(S)]), CallGroup, us[Max(S)])
    <3>1. Max(S) \in 1 .. n
      BY <1>0, <2>1, MaxIn
    <3>2. f[S \ {Max(S)}] \in H
      OBVIOUS
    <3>3. f[S] = step[Max(S)][f[S \ {Max(S)}]]
      BY <1>3, <2>1 DEF Folding
    <3> HIDE DEF n, Max, H
    <3> QED
      BY <3>1, <3>2, <3>3
  <2>2. f = [S \in SUBSET (1 .. n) |-> f[S]] /\ f[{}] = b
    BY <1>3 DEF Folding
  <2> HIDE DEF b, H
  <2> QED
    BY <2>1, <2>2
<1>5. e = F(e)
  BY <1>4
<1> DEFINE g == [k \in 0 .. n |-> e[1 .. k]]
<1>6. Traces(g, e, n)
  <2>1. n \in Nat
    BY <1>0
  <2> HIDE DEF e, n
  <2>2. \A k \in 0 .. n : g[k] = e[1 .. k]
    OBVIOUS
  <2> HIDE DEF g
  <2> QED
    BY <2>1, <2>2, FoldTrace
<1>7. g[0] = b
  <2> HIDE DEF b
  <2> QED
    BY <1>5, <1>6 DEF Traces
<1>8. ASSUME NEW k \in 1 .. n
      PROVE  g[k] = AddToGroup(CreateBuffer(g[k - 1], us[k]), CallGroup, us[k])
  <2>1. e[1 .. k] = AddToGroup(CreateBuffer(e[(1 .. k) \ {Max(1 .. k)}], us[Max(1 .. k)]),
                             CallGroup, us[Max(1 .. k)])
    <3> HIDE DEF e, g, Max, b
    <3> QED
      BY <1>5, <1>6 DEF Traces
  <2> HIDE DEF e, g, b
  <2> QED
    BY <1>6, <2>1 DEF Traces
<1>9. \A k \in 0 .. n : g[k] \in H
  <2>1. ASSUME NEW k \in 1 .. n, g[k - 1] \in H PROVE g[k] \in H
    <3>1. g[k] = step[k][g[k - 1]]
      <4> HIDE DEF g, H, e, b
      <4> QED
        BY <1>8, <2>1
    <3> HIDE DEF g, step, H, e, b, n
    <3> QED
      BY <1>2, <2>1, <3>1
  <2> HIDE DEF g, H, b, step
  <2> QED
    BY <1>0, <1>2, <1>7, <2>1, Stays
<1>10. \A k \in 1 .. n : k - 1 \in 0 .. n
  BY <1>0
<1> HIDE DEF g, e
<1> QED
  BY <1>1, <1>6, <1>7, <1>8, <1>9, <1>10 DEF Traces

\* The planes of a buffer are created one after the other.
LEMMA AddLoop ==
  ASSUME heap \in HeapRec, NEW us \in Seq(Buffer), NEW q \in Group
  PROVE  \E g : /\ g[0] = heap /\ g[Len(us)] = AddPlanes(q, us)
                /\ \A k \in 1 .. Len(us) : /\ g[k - 1] \in HeapRec
                                           /\ g[k] = AddPlane(g[k - 1], q, us[k])
<1> DEFINE n == Len(us)
           b == heap
           H == HeapRec
           step == [k \in 1 .. n |-> [x \in H |-> AddPlane(x, q, us[k])]]
           F(it) == [S \in SUBSET (1 .. n) |->
                       IF S = {} THEN b
                       ELSE AddPlane(it[S \ {Max(S)}], q, us[Max(S)])]
           e == CHOOSE it : it = F(it)
<1>0. n \in Nat /\ DOMAIN us = 1 .. n /\ \A k \in 1 .. n : us[k] \in Buffer
  OBVIOUS
<1>1. AddPlanes(q, us) = e[1 .. n]
  BY <1>0 DEF FoldLeft, MapThenFoldSet, AddPlanes
<1>2. b \in H /\ step \in [1 .. n -> [H -> H]]
  <2>1. ASSUME NEW k \in 1 .. n, NEW x \in H PROVE AddPlane(x, q, us[k]) \in H
    BY <1>0, PlaneFields
  <2> QED
    BY <2>1
<1>3. PICK f \in [SUBSET (1 .. n) -> H] : Folding(f, b, n, step)
  <2> HIDE DEF step, n, b, H
  <2> QED
    BY <1>0, <1>2, FoldExists
<1>4. f = F(f)
  <2>1. ASSUME NEW S \in SUBSET (1 .. n), S # {}
        PROVE  f[S] = AddPlane(f[S \ {Max(S)}], q, us[Max(S)])
    <3>1. Max(S) \in 1 .. n
      BY <1>0, <2>1, MaxIn
    <3>2. f[S \ {Max(S)}] \in H
      OBVIOUS
    <3>3. f[S] = step[Max(S)][f[S \ {Max(S)}]]
      BY <1>3, <2>1 DEF Folding
    <3> HIDE DEF n, Max, H
    <3> QED
      BY <3>1, <3>2, <3>3
  <2>2. f = [S \in SUBSET (1 .. n) |-> f[S]] /\ f[{}] = b
    BY <1>3 DEF Folding
  <2> HIDE DEF b, H
  <2> QED
    BY <2>1, <2>2
<1>5. e = F(e)
  BY <1>4
<1> DEFINE g == [k \in 0 .. n |-> e[1 .. k]]
<1>6. Traces(g, e, n)
  <2>1. n \in Nat
    BY <1>0
  <2> HIDE DEF e, n
  <2>2. \A k \in 0 .. n : g[k] = e[1 .. k]
    OBVIOUS
  <2> HIDE DEF g
  <2> QED
    BY <2>1, <2>2, FoldTrace
<1>7. g[0] = b
  <2> HIDE DEF b
  <2> QED
    BY <1>5, <1>6 DEF Traces
<1>8. ASSUME NEW k \in 1 .. n PROVE g[k] = AddPlane(g[k - 1], q, us[k])
  <2>1. e[1 .. k] = AddPlane(e[(1 .. k) \ {Max(1 .. k)}], q, us[Max(1 .. k)])
    <3> HIDE DEF e, g, Max, b
    <3> QED
      BY <1>5, <1>6 DEF Traces
  <2> HIDE DEF e, g, b
  <2> QED
    BY <1>6, <2>1 DEF Traces
<1>9. \A k \in 0 .. n : g[k] \in H
  <2>1. ASSUME NEW k \in 1 .. n, g[k - 1] \in H PROVE g[k] \in H
    <3>1. g[k] = step[k][g[k - 1]]
      <4> HIDE DEF g, H, e, b
      <4> QED
        BY <1>8, <2>1
    <3> HIDE DEF g, step, H, e, b, n
    <3> QED
      BY <1>2, <2>1, <3>1
  <2> HIDE DEF g, H, b, step
  <2> QED
    BY <1>0, <1>2, <1>7, <2>1, Stays
<1>10. \A k \in 1 .. n : k - 1 \in 0 .. n
  BY <1>0
<1> HIDE DEF g, e
<1> QED
  BY <1>1, <1>6, <1>7, <1>8, <1>9, <1>10 DEF Traces

\* The heaps with the groups of another heap.
Alike(h) == {x \in HeapRec : x.grp = h.grp}

\* The planes of a buffer are given back one after the other.
LEMMA DropLoop ==
  ASSUME NEW h0 \in HeapRec, NEW q \in Group, NEW is \in Seq(Nat),
         Within(is, h0.grp[q])
  PROVE  \E g : /\ g[0] = h0 /\ g[Len(is)] = DropPlanes(h0, q, is)
                /\ \A k \in 1 .. Len(is) : /\ g[k - 1] \in Alike(h0)
                                           /\ g[k] = DropPlane(g[k - 1], q, is[k])
<1> DEFINE n == Len(is)
           b == h0
           H == Alike(h0)
           step == [k \in 1 .. n |-> [x \in H |-> DropPlane(x, q, is[k])]]
           F(it) == [S \in SUBSET (1 .. n) |->
                       IF S = {} THEN b
                       ELSE DropPlane(it[S \ {Max(S)}], q, is[Max(S)])]
           e == CHOOSE it : it = F(it)
<1>0. n \in Nat /\ DOMAIN is = 1 .. n /\ \A k \in 1 .. n : is[k] \in Nat
  OBVIOUS
<1>1. DropPlanes(h0, q, is) = e[1 .. n]
  BY <1>0 DEF FoldLeft, MapThenFoldSet, DropPlanes
<1>2. b \in H /\ step \in [1 .. n -> [H -> H]]
  <2>1. ASSUME NEW k \in 1 .. n, NEW x \in H PROVE DropPlane(x, q, is[k]) \in H
    <3>1. x \in HeapRec /\ x.grp = h0.grp
      BY DEF Alike
    <3>2. x.grp[q] \in Seq(Buffer)
      BY <3>1, HeapFields
    <3>3. is[k] \in Nat /\ x.grp[q][is[k]] \in Buffer
      BY <1>0, <3>1, <3>2 DEF Within
    <3>4. DropPlane(x, q, is[k]) \in HeapRec /\ DropPlane(x, q, is[k]).grp = x.grp
      BY <3>1, <3>3, DropFields
    <3> QED
      BY <3>1, <3>4 DEF Alike
  <2>2. h0 \in H
    BY DEF Alike
  <2> HIDE DEF H
  <2> QED
    BY <2>1, <2>2
<1>3. PICK f \in [SUBSET (1 .. n) -> H] : Folding(f, b, n, step)
  <2> HIDE DEF step, n, b, H
  <2> QED
    BY <1>0, <1>2, FoldExists
<1>4. f = F(f)
  <2>1. ASSUME NEW S \in SUBSET (1 .. n), S # {}
        PROVE  f[S] = DropPlane(f[S \ {Max(S)}], q, is[Max(S)])
    <3>1. Max(S) \in 1 .. n
      BY <1>0, <2>1, MaxIn
    <3>2. f[S \ {Max(S)}] \in H
      OBVIOUS
    <3>3. f[S] = step[Max(S)][f[S \ {Max(S)}]]
      BY <1>3, <2>1 DEF Folding
    <3> HIDE DEF n, Max, H
    <3> QED
      BY <3>1, <3>2, <3>3
  <2>2. f = [S \in SUBSET (1 .. n) |-> f[S]] /\ f[{}] = b
    BY <1>3 DEF Folding
  <2> HIDE DEF b, H
  <2> QED
    BY <2>1, <2>2
<1>5. e = F(e)
  BY <1>4
<1> DEFINE g == [k \in 0 .. n |-> e[1 .. k]]
<1>6. Traces(g, e, n)
  <2>1. n \in Nat
    BY <1>0
  <2> HIDE DEF e, n
  <2>2. \A k \in 0 .. n : g[k] = e[1 .. k]
    OBVIOUS
  <2> HIDE DEF g
  <2> QED
    BY <2>1, <2>2, FoldTrace
<1>7. g[0] = b
  <2> HIDE DEF b
  <2> QED
    BY <1>5, <1>6 DEF Traces
<1>8. ASSUME NEW k \in 1 .. n PROVE g[k] = DropPlane(g[k - 1], q, is[k])
  <2>1. e[1 .. k] = DropPlane(e[(1 .. k) \ {Max(1 .. k)}], q, is[Max(1 .. k)])
    <3> HIDE DEF e, g, Max, b
    <3> QED
      BY <1>5, <1>6 DEF Traces
  <2> HIDE DEF e, g, b
  <2> QED
    BY <1>6, <2>1 DEF Traces
<1>9. \A k \in 0 .. n : g[k] \in H
  <2>1. ASSUME NEW k \in 1 .. n, g[k - 1] \in H PROVE g[k] \in H
    <3>1. g[k] = step[k][g[k - 1]]
      <4> HIDE DEF g, H, e, b
      <4> QED
        BY <1>8, <2>1
    <3> HIDE DEF g, step, H, e, b, n
    <3> QED
      BY <1>2, <2>1, <3>1
  <2> HIDE DEF g, H, b, step
  <2> QED
    BY <1>0, <1>2, <1>7, <2>1, Stays
<1>10. \A k \in 1 .. n : k - 1 \in 0 .. n
  BY <1>0
<1> HIDE DEF g, e
<1> QED
  BY <1>1, <1>6, <1>7, <1>8, <1>9, <1>10 DEF Traces

\* Giving planes back leaves the groups alone.
LEMMA DropAlike ==
  ASSUME NEW h \in HeapRec, NEW q \in Group, NEW is \in Seq(Nat),
         Within(is, h.grp[q])
  PROVE  DropPlanes(h, q, is) \in Alike(h)
<1>1. PICK g : /\ g[0] = h /\ g[Len(is)] = DropPlanes(h, q, is)
               /\ \A k \in 1 .. Len(is) : /\ g[k - 1] \in Alike(h)
                                          /\ g[k] = DropPlane(g[k - 1], q, is[k])
  BY DropLoop
<1>2. Len(is) \in Nat
  OBVIOUS
<1>3. CASE Len(is) = 0
  BY <1>1, <1>3 DEF Alike
<1>4. CASE Len(is) # 0
  <2>1. Len(is) \in 1 .. Len(is) /\ is[Len(is)] \in Nat
    BY <1>2, <1>4
  <2> DEFINE x == g[Len(is) - 1]
  <2>2. x \in HeapRec /\ x.grp = h.grp
    BY <1>1, <2>1 DEF Alike
  <2>3. x.grp[q] \in Seq(Buffer)
    BY <2>2, HeapFields
  <2>4. x.grp[q][is[Len(is)]] \in Buffer
    BY <2>1, <2>2, <2>3 DEF Within
  <2>5. g[Len(is)] = DropPlane(x, q, is[Len(is)])
    BY <1>1, <2>1
  <2> HIDE DEF x
  <2>6. DropPlane(x, q, is[Len(is)]) \in HeapRec /\ DropPlane(x, q, is[Len(is)]).grp = x.grp
    BY <2>1, <2>2, <2>4, DropFields
  <2> QED
    BY <1>1, <2>2, <2>5, <2>6 DEF Alike
<1> QED
  BY <1>3, <1>4

\* The buffers of a request are given back one after the other.
LEMMA BuffersLoop ==
  ASSUME NEW h0 \in HeapRec, NEW q \in Group, NEW bufs \in Seq(Seq(Nat)),
         AllWithin(bufs, h0.grp[q])
  PROVE  \E g : /\ g[0] = h0 /\ g[Len(bufs)] = DropBuffers(h0, q, bufs)
                /\ \A k \in 1 .. Len(bufs) : /\ g[k - 1] \in Alike(h0)
                                           /\ g[k] = DropPlanes(g[k - 1], q, bufs[k])
<1> DEFINE n == Len(bufs)
           b == h0
           H == Alike(h0)
           step == [k \in 1 .. n |-> [x \in H |-> DropPlanes(x, q, bufs[k])]]
           F(it) == [S \in SUBSET (1 .. n) |->
                       IF S = {} THEN b
                       ELSE DropPlanes(it[S \ {Max(S)}], q, bufs[Max(S)])]
           e == CHOOSE it : it = F(it)
<1>0. n \in Nat /\ DOMAIN bufs = 1 .. n /\ \A k \in 1 .. n : bufs[k] \in Seq(Nat)
  OBVIOUS
<1>1. DropBuffers(h0, q, bufs) = e[1 .. n]
  BY <1>0 DEF FoldLeft, MapThenFoldSet, DropBuffers
<1>2. b \in H /\ step \in [1 .. n -> [H -> H]]
  <2>1. ASSUME NEW k \in 1 .. n, NEW x \in H PROVE DropPlanes(x, q, bufs[k]) \in H
    <3>1. x \in HeapRec /\ x.grp = h0.grp
      BY DEF Alike
    <3>2. DropPlanes(x, q, bufs[k]) \in Alike(x)
      BY <1>0, <3>1, DropAlike DEF AllWithin
    <3> QED
      BY <3>1, <3>2 DEF Alike
  <2>2. h0 \in H
    BY DEF Alike
  <2> HIDE DEF H
  <2> QED
    BY <2>1, <2>2
<1>3. PICK f \in [SUBSET (1 .. n) -> H] : Folding(f, b, n, step)
  <2> HIDE DEF step, n, b, H
  <2> QED
    BY <1>0, <1>2, FoldExists
<1>4. f = F(f)
  <2>1. ASSUME NEW S \in SUBSET (1 .. n), S # {}
        PROVE  f[S] = DropPlanes(f[S \ {Max(S)}], q, bufs[Max(S)])
    <3>1. Max(S) \in 1 .. n
      BY <1>0, <2>1, MaxIn
    <3>2. f[S \ {Max(S)}] \in H
      OBVIOUS
    <3>3. f[S] = step[Max(S)][f[S \ {Max(S)}]]
      BY <1>3, <2>1 DEF Folding
    <3> HIDE DEF n, Max, H
    <3> QED
      BY <3>1, <3>2, <3>3
  <2>2. f = [S \in SUBSET (1 .. n) |-> f[S]] /\ f[{}] = b
    BY <1>3 DEF Folding
  <2> HIDE DEF b, H
  <2> QED
    BY <2>1, <2>2
<1>5. e = F(e)
  BY <1>4
<1> DEFINE g == [k \in 0 .. n |-> e[1 .. k]]
<1>6. Traces(g, e, n)
  <2>1. n \in Nat
    BY <1>0
  <2> HIDE DEF e, n
  <2>2. \A k \in 0 .. n : g[k] = e[1 .. k]
    OBVIOUS
  <2> HIDE DEF g
  <2> QED
    BY <2>1, <2>2, FoldTrace
<1>7. g[0] = b
  <2> HIDE DEF b
  <2> QED
    BY <1>5, <1>6 DEF Traces
<1>8. ASSUME NEW k \in 1 .. n PROVE g[k] = DropPlanes(g[k - 1], q, bufs[k])
  <2>1. e[1 .. k] = DropPlanes(e[(1 .. k) \ {Max(1 .. k)}], q, bufs[Max(1 .. k)])
    <3> HIDE DEF e, g, Max, b
    <3> QED
      BY <1>5, <1>6 DEF Traces
  <2> HIDE DEF e, g, b
  <2> QED
    BY <1>6, <2>1 DEF Traces
<1>9. \A k \in 0 .. n : g[k] \in H
  <2>1. ASSUME NEW k \in 1 .. n, g[k - 1] \in H PROVE g[k] \in H
    <3>1. g[k] = step[k][g[k - 1]]
      <4> HIDE DEF g, H, e, b
      <4> QED
        BY <1>8, <2>1
    <3> HIDE DEF g, step, H, e, b, n
    <3> QED
      BY <1>2, <2>1, <3>1
  <2> HIDE DEF g, H, b, step
  <2> QED
    BY <1>0, <1>2, <1>7, <2>1, Stays
<1>10. \A k \in 1 .. n : k - 1 \in 0 .. n
  BY <1>0
<1> HIDE DEF g, e
<1> QED
  BY <1>1, <1>6, <1>7, <1>8, <1>9, <1>10 DEF Traces

(***************************************************************************)
(* The loops in closed form.                                               *)
(***************************************************************************)

\* A member of an injective sequence is not among those before it.
LEMMA NotBefore ==
  ASSUME NEW S, NEW us \in Seq(S), IsInjective(us), NEW k \in 1 .. Len(us)
  PROVE  /\ us[k] \notin ToSet(SubSeq(us, 1, k - 1))
         /\ \A j \in 1 .. k - 1 : us[j] # us[k]
         /\ us[k] \in ToSet(us)
<1>1. /\ Len(us) \in Nat /\ DOMAIN us = 1 .. Len(us)
      /\ DOMAIN SubSeq(us, 1, k - 1) = 1 .. k - 1
      /\ \A j \in 1 .. k - 1 : SubSeq(us, 1, k - 1)[j] = us[j]
  OBVIOUS
<1>2. \A j \in 1 .. k - 1 : us[j] # us[k]
  <2> SUFFICES ASSUME NEW j \in 1 .. k - 1, us[j] = us[k] PROVE FALSE
    OBVIOUS
  <2>1. j \in 1 .. Len(us) /\ j # k
    BY <1>1
  <2> QED
    BY <1>1, <2>1 DEF IsInjective
<1>3. us[k] \in ToSet(us)
  BY <1>1 DEF ToSet
<1> QED
  BY <1>1, <1>2, <1>3 DEF ToSet

\* New planes: three references, one of them a mapping.
LEMMA AddPlanesGave ==
  ASSUME HeapOK(heap), NEW us \in Seq(Buffer), IsInjective(us), NEW q \in Group,
         \A u \in ToSet(us) : heap.ref[u] = 0
  PROVE  Gave(heap, AddPlanes(q, us), us, q, 3, 1)
<1>1. heap \in HeapRec
  BY DEF HeapOK
<1>2. PICK g : /\ g[0] = heap /\ g[Len(us)] = AddPlanes(q, us)
               /\ \A k \in 1 .. Len(us) : /\ g[k - 1] \in HeapRec
                                          /\ g[k] = AddPlane(g[k - 1], q, us[k])
  BY <1>1, AddLoop
<1>3. ASSUME NEW k \in 1 .. Len(us),
             Gave(heap, g[k - 1], SubSeq(us, 1, k - 1), q, 3, 1)
      PROVE  Gave(g[k - 1], g[k], <<us[k]>>, q, 3, 1)
  <2> DEFINE h == g[k - 1]
             u == us[k]
  <2>1. u \in Buffer /\ u \in ToSet(us) /\ u \notin ToSet(SubSeq(us, 1, k - 1))
    BY NotBefore
  <2>2. HeapOK(h) /\ h.ref[u] = 0 /\ h \in HeapRec
    BY <1>3, <2>1 DEF Gave, HeapOK
  <2>3. g[k] = AddPlane(h, q, u)
    BY <1>2
  <2> HIDE DEF h, u
  <2> DEFINE m == AddPlane(h, q, u)
  <2>4. /\ m \in HeapRec
        /\ m = [ref |-> [h.ref EXCEPT ![u] = 3],
                maps |-> [h.maps EXCEPT ![u] = h.maps[u] + 1], gref |-> h.gref,
                grp |-> [h.grp EXCEPT ![q] = Append(h.grp[q], u)],
                dev |-> h.dev + 1, bad |-> h.bad]
    BY <2>1, <2>2, PlaneFields
  <2> HIDE DEF m
  <2>5. /\ m.ref = [h.ref EXCEPT ![u] = 3] /\ m.gref = h.gref /\ m.bad = h.bad
        /\ m.maps = [h.maps EXCEPT ![u] = h.maps[u] + 1]
        /\ m.grp = [h.grp EXCEPT ![q] = Append(h.grp[q], u)] /\ m.dev = h.dev + 1
    BY <2>4
  <2>6. Gave(h, m, <<u>>, q, 3, 1)
    <3>1. 3 \in Nat \ {0} /\ 1 \in Int
      OBVIOUS
    <3> QED
      BY <2>1, <2>2, <2>4, <2>5, <3>1, GaveOne
  <2> QED
    BY <2>3, <2>6 DEF h, u, m
<1>4. Gave(heap, g[Len(us)], us, q, 3, 1)
  <2>1. Giving(heap, g, us, q, 3, 1)
    BY <1>3 DEF Giving
  <2> QED
    BY <1>2, <2>1, GaveAll
<1> QED
  BY <1>2, <1>4

\* The buffers of a call: the creator's reference and the group's.
LEMMA CallGave ==
  ASSUME NEW us \in Seq(Buffer), IsInjective(us), CallGroup \in Group,
         NEW c, c = CreateGroup(heap, CallGroup), HeapOK(c),
         \A u \in ToSet(us) : c.ref[u] = 0
  PROVE  Gave(c, CallBuffers(us), us, CallGroup, 2, 0)
<1>1. c \in HeapRec
  BY DEF HeapOK
<1>2. PICK g : /\ g[0] = c /\ g[Len(us)] = CallBuffers(us)
               /\ \A k \in 1 .. Len(us) :
                    /\ g[k - 1] \in HeapRec
                    /\ g[k] = AddToGroup(CreateBuffer(g[k - 1], us[k]), CallGroup, us[k])
  BY <1>1, CallLoop
<1>3. ASSUME NEW k \in 1 .. Len(us),
             Gave(c, g[k - 1], SubSeq(us, 1, k - 1), CallGroup, 2, 0)
      PROVE  Gave(g[k - 1], g[k], <<us[k]>>, CallGroup, 2, 0)
  <2> DEFINE h == g[k - 1]
             u == us[k]
  <2>1. u \in Buffer /\ u \in ToSet(us) /\ u \notin ToSet(SubSeq(us, 1, k - 1))
    BY NotBefore
  <2>2. HeapOK(h) /\ h.ref[u] = 0 /\ h \in HeapRec
    BY <1>3, <2>1 DEF Gave, HeapOK
  <2>3. g[k] = AddToGroup(CreateBuffer(h, u), CallGroup, u)
    BY <1>2
  <2> HIDE DEF h, u
  <2> DEFINE m == AddToGroup(CreateBuffer(h, u), CallGroup, u)
  <2>4. /\ m \in HeapRec
        /\ m = [ref |-> [h.ref EXCEPT ![u] = 2], maps |-> h.maps, gref |-> h.gref,
                grp |-> [h.grp EXCEPT ![CallGroup] = Append(h.grp[CallGroup], u)],
                dev |-> h.dev + 1, bad |-> h.bad]
    BY <2>1, <2>2, CallFields
  <2> HIDE DEF m
  <2>5. /\ m.ref = [h.ref EXCEPT ![u] = 2] /\ m.gref = h.gref /\ m.bad = h.bad
        /\ m.maps = [h.maps EXCEPT ![u] = h.maps[u] + 0]
        /\ m.grp = [h.grp EXCEPT ![CallGroup] = Append(h.grp[CallGroup], u)]
        /\ m.dev = h.dev + 1
    <3>1. h.maps \in [Buffer -> Int]
      BY <2>2, HeapFields
    <3>2. h.maps = [h.maps EXCEPT ![u] = h.maps[u] + 0]
      BY <2>1, <3>1
    <3> QED
      BY <2>4, <3>2
  <2>6. Gave(h, m, <<u>>, CallGroup, 2, 0)
    <3>1. 2 \in Nat \ {0} /\ 0 \in Int
      OBVIOUS
    <3> QED
      BY <2>1, <2>2, <2>4, <2>5, <3>1, GaveOne
  <2> QED
    BY <2>3, <2>6 DEF h, u, m
<1>4. Gave(c, g[Len(us)], us, CallGroup, 2, 0)
  <2>1. Giving(c, g, us, CallGroup, 2, 0)
    BY <1>3 DEF Giving
  <2> QED
    BY <1>2, <2>1, GaveAll
<1> QED
  BY <1>2, <1>4

\* The members of a group lose a reference each.
LEMMA ReleaseAll ==
  ASSUME NEW h, HeapOK(h), NEW us \in Seq(Buffer), IsInjective(us),
         \A u \in ToSet(us) : h.ref[u] > 0
  PROVE  Took(h, FoldLeft(ReleaseBuffer, h, us), ToSet(us), 1, 0)
<1>1. h \in HeapRec
  BY DEF HeapOK
<1>2. PICK g : /\ g[0] = h /\ g[Len(us)] = FoldLeft(ReleaseBuffer, h, us)
               /\ \A k \in 1 .. Len(us) : g[k] = ReleaseBuffer(g[k - 1], us[k])
  BY <1>1, ReleaseLoop
<1> DEFINE V == [k \in 1 .. Len(us) |-> {us[k]}]
<1>3. Len(us) \in Nat /\ DOMAIN us = 1 .. Len(us)
  OBVIOUS
<1>4. ASSUME NEW k \in 1 .. Len(us),
             Took(h, g[k - 1], First(V, k - 1), 1, 0)
      PROVE  Took(g[k - 1], g[k], V[k], 1, 0)
  <2>1. us[k] \in Buffer /\ us[k] \in ToSet(us) /\ \A j \in 1 .. k - 1 : us[j] # us[k]
    BY NotBefore
  <2>2. us[k] \notin First(V, k - 1)
    <3>1. \A j \in 1 .. k - 1 : j \in 1 .. Len(us) /\ us[k] \notin V[j]
      BY <1>3, <2>1
    <3> HIDE DEF V
    <3> QED
      BY <3>1 DEF First
  <2>3. HeapOK(g[k - 1]) /\ g[k - 1].ref[us[k]] > 0
    BY <1>4, <2>1, <2>2 DEF Took
  <2>4. Took(g[k - 1], ReleaseBuffer(g[k - 1], us[k]), {us[k]}, 1, 0)
    BY <2>1, <2>3, ReleaseTook
  <2> QED
    BY <1>2, <2>4
<1>5. Apart(V, Len(us))
  BY <1>3 DEF IsInjective, Apart
<1>6. First(V, Len(us)) = ToSet(us)
  BY <1>3 DEF ToSet, First
<1> HIDE DEF V
<1>7. Took(h, g[Len(us)], First(V, Len(us)), 1, 0)
  <2>1. Taking(h, g, Len(us), V, 1, 0)
    BY <1>4 DEF Taking
  <2> QED
    BY <1>2, <1>3, <1>5, <2>1, TookAll
<1> QED
  BY <1>2, <1>6, <1>7

\* Those of the buffers that are released by name lose a reference.
LEMMA OfTook ==
  ASSUME NEW h, HeapOK(h), NEW us \in Seq(Buffer), IsInjective(us), NEW U,
         \A u \in ToSet(us) \cap U : h.ref[u] > 0
  PROVE  Took(h, ReleaseOf(h, us, U), ToSet(us) \cap U, 1, 0)
<1>1. h \in HeapRec
  BY DEF HeapOK
<1>2. PICK g : /\ g[0] = h /\ g[Len(us)] = ReleaseOf(h, us, U)
               /\ \A k \in 1 .. Len(us) :
                    /\ g[k - 1] \in HeapRec
                    /\ g[k] = (IF us[k] \in U THEN ReleaseBuffer(g[k - 1], us[k])
                               ELSE g[k - 1])
  BY <1>1, OfLoop
<1> DEFINE V == [k \in 1 .. Len(us) |-> {us[k]} \cap U]
<1>3. Len(us) \in Nat /\ DOMAIN us = 1 .. Len(us)
  OBVIOUS
<1>4. ASSUME NEW k \in 1 .. Len(us),
             Took(h, g[k - 1], First(V, k - 1), 1, 0)
      PROVE  Took(g[k - 1], g[k], V[k], 1, 0)
  <2>1. us[k] \in Buffer /\ us[k] \in ToSet(us) /\ \A j \in 1 .. k - 1 : us[j] # us[k]
    BY NotBefore
  <2>2. us[k] \notin First(V, k - 1)
    <3>1. \A j \in 1 .. k - 1 : j \in 1 .. Len(us) /\ us[k] \notin V[j]
      BY <1>3, <2>1
    <3> HIDE DEF V
    <3> QED
      BY <3>1 DEF First
  <2>3. HeapOK(g[k - 1])
    BY <1>4 DEF Took
  <2>4. CASE us[k] \in U
    <3>1. g[k - 1].ref[us[k]] > 0
      BY <1>4, <2>1, <2>2, <2>4 DEF Took
    <3>2. Took(g[k - 1], ReleaseBuffer(g[k - 1], us[k]), {us[k]}, 1, 0)
      BY <2>1, <2>3, <3>1, ReleaseTook
    <3>3. V[k] = {us[k]} /\ g[k] = ReleaseBuffer(g[k - 1], us[k])
      BY <1>2, <2>4
    <3> QED
      BY <3>2, <3>3
  <2>5. CASE us[k] \notin U
    <3>1. V[k] = {} /\ g[k] = g[k - 1]
      BY <1>2, <2>5
    <3>2. Took(g[k - 1], g[k - 1], {}, 1, 0)
      BY <2>3, TookNone
    <3> QED
      BY <3>1, <3>2
  <2> QED
    BY <2>4, <2>5
<1>5. Apart(V, Len(us))
  BY <1>3 DEF IsInjective, Apart
<1>6. First(V, Len(us)) = ToSet(us) \cap U
  BY <1>3 DEF ToSet, First
<1> HIDE DEF V
<1>7. Took(h, g[Len(us)], First(V, Len(us)), 1, 0)
  <2>1. Taking(h, g, Len(us), V, 1, 0)
    BY <1>4 DEF Taking
  <2> QED
    BY <1>2, <1>3, <1>5, <2>1, TookAll
<1> QED
  BY <1>2, <1>6, <1>7

\* The planes of a buffer lose their mapping and two references each.
LEMMA PlanesTook ==
  ASSUME NEW h, HeapOK(h), NEW q \in Group, NEW is \in Seq(Nat),
         Within(is, h.grp[q]),
         \A j, k \in 1 .. Len(is) : h.grp[q][is[j]] = h.grp[q][is[k]] => j = k,
         \A k \in 1 .. Len(is) : h.ref[h.grp[q][is[k]]] >= 2
  PROVE  Took(h, DropPlanes(h, q, is), Named(h.grp[q], is), 2, 1)
<1>1. h \in HeapRec
  BY DEF HeapOK
<1>2. PICK g : /\ g[0] = h /\ g[Len(is)] = DropPlanes(h, q, is)
               /\ \A k \in 1 .. Len(is) : /\ g[k - 1] \in Alike(h)
                                          /\ g[k] = DropPlane(g[k - 1], q, is[k])
  BY <1>1, DropLoop
<1> DEFINE w == [k \in 1 .. Len(is) |-> h.grp[q][is[k]]]
           V == [k \in 1 .. Len(is) |-> {w[k]}]
<1>3. /\ Len(is) \in Nat /\ DOMAIN is = 1 .. Len(is)
      /\ \A k \in 1 .. Len(is) : is[k] \in Nat /\ w[k] \in Buffer
  <2>1. h.grp[q] \in Seq(Buffer)
    BY <1>1, HeapFields
  <2> QED
    BY <2>1 DEF Within
<1>4. /\ \A j, k \in 1 .. Len(is) : w[j] = w[k] => j = k
      /\ \A k \in 1 .. Len(is) : h.ref[w[k]] >= 2 /\ w[k] = h.grp[q][is[k]]
  OBVIOUS
<1>6. First(V, Len(is)) = Named(h.grp[q], is)
  BY DEF Named, First
<1> HIDE DEF w
<1>5. ASSUME NEW k \in 1 .. Len(is),
             Took(h, g[k - 1], First(V, k - 1), 2, 1)
      PROVE  Took(g[k - 1], g[k], V[k], 2, 1)
  <2>1. w[k] \in Buffer /\ \A j \in 1 .. k - 1 : w[j] # w[k]
    BY <1>3, <1>4
  <2>2. w[k] \notin First(V, k - 1)
    <3>1. \A j \in 1 .. k - 1 : j \in 1 .. Len(is) /\ w[k] \notin V[j]
      BY <1>3, <2>1
    <3> HIDE DEF V
    <3> QED
      BY <3>1 DEF First
  <2>3. HeapOK(g[k - 1]) /\ g[k - 1].ref[w[k]] >= 2
    BY <1>4, <1>5, <2>1, <2>2 DEF Took
  <2>4. g[k - 1].grp[q][is[k]] = w[k]
    BY <1>2, <1>4 DEF Alike
  <2>5. Took(g[k - 1], DropPlane(g[k - 1], q, is[k]), {w[k]}, 2, 1)
    <3>1. is[k] \in Nat
      BY <1>3
    <3> QED
      BY <2>1, <2>3, <2>4, <3>1, DropTook
  <2> QED
    BY <1>2, <2>5
<1>7. Apart(V, Len(is))
  BY <1>4 DEF Apart
<1> HIDE DEF V
<1>8. Took(h, g[Len(is)], First(V, Len(is)), 2, 1)
  <2>1. Taking(h, g, Len(is), V, 2, 1)
    BY <1>5 DEF Taking
  <2> QED
    BY <1>2, <1>3, <1>7, <2>1, TookAll
<1> QED
  BY <1>2, <1>6, <1>8

\* So do the planes of all the buffers of a request.
LEMMA BuffersTook ==
  ASSUME NEW h, HeapOK(h), NEW q \in Group, NEW bufs \in Seq(Seq(Nat)),
         AllWithin(bufs, h.grp[q]),
         \A k, m \in 1 .. Len(bufs) : \A j \in 1 .. Len(bufs[k]), i \in 1 .. Len(bufs[m]) :
           h.grp[q][bufs[k][j]] = h.grp[q][bufs[m][i]] => k = m /\ j = i,
         \A k \in 1 .. Len(bufs) : \A j \in 1 .. Len(bufs[k]) :
           h.ref[h.grp[q][bufs[k][j]]] >= 2
  PROVE  Took(h, DropBuffers(h, q, bufs),
              UNION {Named(h.grp[q], bufs[k]) : k \in 1 .. Len(bufs)}, 2, 1)
<1>1. h \in HeapRec
  BY DEF HeapOK
<1>2. PICK g : /\ g[0] = h /\ g[Len(bufs)] = DropBuffers(h, q, bufs)
               /\ \A k \in 1 .. Len(bufs) : /\ g[k - 1] \in Alike(h)
                                            /\ g[k] = DropPlanes(g[k - 1], q, bufs[k])
  BY <1>1, BuffersLoop
<1> DEFINE s == h.grp[q]
           V == [k \in 1 .. Len(bufs) |-> Named(s, bufs[k])]
<1>3. /\ Len(bufs) \in Nat /\ DOMAIN bufs = 1 .. Len(bufs) /\ s \in Seq(Buffer)
      /\ \A k \in 1 .. Len(bufs) : bufs[k] \in Seq(Nat) /\ Within(bufs[k], s)
  BY <1>1, HeapFields DEF AllWithin
<1>4. Apart(V, Len(bufs))
  <2> SUFFICES ASSUME NEW k \in 1 .. Len(bufs), NEW m \in 1 .. Len(bufs),
                      NEW x, x \in V[k], x \in V[m]
               PROVE  k = m
    <3> HIDE DEF V
    <3> QED
      BY DEF Apart
  <2>1. PICK j \in 1 .. Len(bufs[k]) : x = s[bufs[k][j]]
    BY DEF Named
  <2>2. PICK i \in 1 .. Len(bufs[m]) : x = s[bufs[m][i]]
    BY DEF Named
  <2> QED
    BY <2>1, <2>2
<1> HIDE DEF s
<1>5. ASSUME NEW k \in 1 .. Len(bufs),
             Took(h, g[k - 1], First(V, k - 1), 2, 1)
      PROVE  Took(g[k - 1], g[k], V[k], 2, 1)
  <2>1. HeapOK(g[k - 1]) /\ g[k - 1].grp[q] = s
    BY <1>2, <1>5 DEF Took, Alike, s
  <2>2. Named(s, bufs[k]) \cap First(V, k - 1) = {}
    <3>1. \A j \in 1 .. k - 1 : j \in 1 .. Len(bufs) /\ j # k
      BY <1>3
    <3>2. \A j \in 1 .. k - 1 : V[j] \cap Named(s, bufs[k]) = {}
      <4>1. V[k] = Named(s, bufs[k])
        OBVIOUS
      <4> HIDE DEF V
      <4> QED
        BY <1>4, <3>1, <4>1 DEF Apart
    <3> HIDE DEF V
    <3> QED
      BY <3>2 DEF First
  <2>3. ASSUME NEW j \in 1 .. Len(bufs[k])
        PROVE  /\ s[bufs[k][j]] \in Named(s, bufs[k]) /\ s[bufs[k][j]] \in Buffer
               /\ h.ref[s[bufs[k][j]]] >= 2
    BY <1>3 DEF Named, Within, s
  <2>4. \A j \in 1 .. Len(bufs[k]) : g[k - 1].ref[s[bufs[k][j]]] >= 2
    <3> SUFFICES ASSUME NEW j \in 1 .. Len(bufs[k])
                 PROVE  g[k - 1].ref[s[bufs[k][j]]] >= 2
      OBVIOUS
    <3> DEFINE u == s[bufs[k][j]]
    <3>1. u \in Buffer /\ u \notin First(V, k - 1) /\ h.ref[u] >= 2
      BY <2>2, <2>3
    <3> HIDE DEF u, V
    <3>2. g[k - 1].ref[u] = h.ref[u]
      BY <1>5, <3>1 DEF Took
    <3> QED
      BY <3>1, <3>2 DEF u
  <2>5. \A i, j \in 1 .. Len(bufs[k]) : s[bufs[k][i]] = s[bufs[k][j]] => i = j
    BY DEF s
  <2>6. Took(g[k - 1], DropPlanes(g[k - 1], q, bufs[k]), Named(s, bufs[k]), 2, 1)
    BY <1>3, <2>1, <2>4, <2>5, PlanesTook
  <2> QED
    BY <1>2, <2>6
<1>6. First(V, Len(bufs)) =
        UNION {Named(h.grp[q], bufs[k]) : k \in 1 .. Len(bufs)}
  BY DEF s, First
<1> HIDE DEF V
<1>7. Took(h, g[Len(bufs)], First(V, Len(bufs)), 2, 1)
  <2>1. Taking(h, g, Len(bufs), V, 2, 1)
    BY <1>5 DEF Taking
  <2> QED
    BY <1>2, <1>3, <1>4, <2>1, TookAll
<1> QED
  BY <1>2, <1>6, <1>7

(***************************************************************************)
(* Groups.                                                                 *)
(***************************************************************************)

\* A heap with another reference count, and with other members, of one group.
Recount(h, q, x) == [h EXCEPT !.gref[q] = x]
Regroup(h, q, x, s) == [h EXCEPT !.gref[q] = x, !.grp[q] = s]

\* The fields of such a heap.
LEMMA GroupsExcept ==
  ASSUME NEW h \in HeapRec, NEW q \in Group, NEW x \in Nat, NEW s \in Seq(Buffer)
  PROVE  /\ Regroup(h, q, x, s) \in HeapRec
         /\ Regroup(h, q, x, s) =
              [ref |-> h.ref, maps |-> h.maps, gref |-> [h.gref EXCEPT ![q] = x],
               grp |-> [h.grp EXCEPT ![q] = s], dev |-> h.dev, bad |-> h.bad]
<1> DEFINE w == [h.gref EXCEPT ![q] = x]
           k == [ref |-> h.ref, maps |-> h.maps, gref |-> w, grp |-> h.grp,
                 dev |-> h.dev, bad |-> h.bad]
<1>1. w \in [Group -> Nat]
  BY HeapFields
<1>2. Regroup(h, q, x, s) = [[h EXCEPT !.gref = w] EXCEPT !.grp[q] = s]
  BY DEF Regroup
<1> HIDE DEF w
<1>3. [h EXCEPT !.gref = w] = k
  BY HeapExcept
<1>4. k \in HeapRec
  BY <1>1, HeapFields, HeapOf
<1>5. k.ref = h.ref /\ k.maps = h.maps /\ k.gref = w /\ k.grp = h.grp /\
      k.dev = h.dev /\ k.bad = h.bad
  OBVIOUS
<1> HIDE DEF k
<1>6. /\ [k EXCEPT !.grp[q] = s] \in HeapRec
      /\ [k EXCEPT !.grp[q] = s] =
           [ref |-> k.ref, maps |-> k.maps, gref |-> k.gref,
            grp |-> [k.grp EXCEPT ![q] = s], dev |-> k.dev, bad |-> k.bad]
  BY <1>4, GroupExcept
<1> QED
  BY <1>2, <1>3, <1>5, <1>6 DEF w

\* A group comes or goes: no buffer is touched.
LEMMA GroupsOK ==
  ASSUME NEW h, HeapOK(h), NEW q \in Group, NEW x \in Nat, NEW s \in Seq(Buffer),
         NEW k, k = Regroup(h, q, x, s)
  PROVE  /\ HeapOK(k) /\ Spare(k) = Spare(h) /\ k.ref = h.ref /\ k.maps = h.maps
         /\ k.gref = [h.gref EXCEPT ![q] = x] /\ k.grp = [h.grp EXCEPT ![q] = s]
         /\ k.dev = h.dev /\ k.bad = h.bad
<1>1. h \in HeapRec /\ IsFiniteSet(LiveIn(h)) /\ Spare(h) >= 0
  BY DEF HeapOK
<1>2. /\ k \in HeapRec
      /\ k = [ref |-> h.ref, maps |-> h.maps, gref |-> [h.gref EXCEPT ![q] = x],
              grp |-> [h.grp EXCEPT ![q] = s], dev |-> h.dev, bad |-> h.bad]
  <2>1. /\ Regroup(h, q, x, s) \in HeapRec
        /\ Regroup(h, q, x, s) =
             [ref |-> h.ref, maps |-> h.maps, gref |-> [h.gref EXCEPT ![q] = x],
              grp |-> [h.grp EXCEPT ![q] = s], dev |-> h.dev, bad |-> h.bad]
    BY <1>1, GroupsExcept
  <2> QED
    BY <2>1
<1>3. /\ k.ref = h.ref /\ k.maps = h.maps
      /\ k.gref = [h.gref EXCEPT ![q] = x] /\ k.grp = [h.grp EXCEPT ![q] = s]
      /\ k.dev = h.dev /\ k.bad = h.bad
  BY <1>2
<1>4. LiveIn(k) = LiveIn(h) /\ Spare(k) = Spare(h)
  BY <1>3 DEF LiveIn, Spare
<1> QED
  BY <1>1, <1>2, <1>3, <1>4 DEF HeapOK

\* Another reference count alone.
LEMMA CountExcept ==
  ASSUME NEW h, HeapOK(h), NEW q \in Group, NEW x \in Nat,
         NEW k, k = Recount(h, q, x)
  PROVE  /\ HeapOK(k) /\ Spare(k) = Spare(h) /\ k.ref = h.ref /\ k.maps = h.maps
         /\ k.gref = [h.gref EXCEPT ![q] = x] /\ k.grp = h.grp
         /\ k.dev = h.dev /\ k.bad = h.bad
<1>1. h \in HeapRec /\ h.grp \in [Group -> Seq(Buffer)] /\ h.gref \in [Group -> Nat]
  BY HeapFields DEF HeapOK
<1> DEFINE w == [h.gref EXCEPT ![q] = x]
<1>2. k = [h EXCEPT !.gref = w]
  BY DEF Recount
<1>3. w \in [Group -> Nat]
  BY <1>1
<1> HIDE DEF w
<1>4. k = [ref |-> h.ref, maps |-> h.maps, gref |-> w, grp |-> h.grp,
           dev |-> h.dev, bad |-> h.bad]
  BY <1>1, <1>2, HeapExcept
<1>5. [ref |-> h.ref, maps |-> h.maps, gref |-> w, grp |-> h.grp,
       dev |-> h.dev, bad |-> h.bad] \in HeapRec
  BY <1>1, <1>3, HeapFields, HeapOf
<1>6. /\ k.ref = h.ref /\ k.maps = h.maps /\ k.gref = w /\ k.grp = h.grp
      /\ k.dev = h.dev /\ k.bad = h.bad
  BY <1>4
<1>7. LiveIn(k) = LiveIn(h) /\ Spare(k) = Spare(h)
  BY <1>6 DEF LiveIn, Spare
<1> QED
  BY <1>4, <1>5, <1>6, <1>7 DEF HeapOK, w

\* xrp_create_buffer_group
LEMMA GroupCreated ==
  ASSUME NEW h, NEW q
  PROVE  \E x \in Nat, e \in Seq(Buffer) :
           x = 1 /\ e = <<>> /\ CreateGroup(h, q) = Regroup(h, q, x, e)
<1>1. <<>> \in Seq(Buffer)
  BY EmptySeq
<1>2. CreateGroup(h, q) = Regroup(h, q, 1, <<>>)
  BY DEF CreateGroup, Regroup
<1> QED
  BY <1>1, <1>2

\* xrp_retain_buffer_group
LEMMA GroupRetained ==
  ASSUME NEW h, HeapOK(h), NEW q \in Group, NEW k, k = RetainGroup(h, q)
  PROVE  /\ HeapOK(k) /\ Spare(k) = Spare(h) /\ k.ref = h.ref /\ k.maps = h.maps
         /\ k.gref = [h.gref EXCEPT ![q] = h.gref[q] + 1]
         /\ k.grp = h.grp /\ k.dev = h.dev /\ k.bad = h.bad
<1>1. h.gref[q] + 1 \in Nat
  BY HeapFields DEF HeapOK
<1>2. k = Recount(h, q, h.gref[q] + 1)
  BY Zenon DEF RetainGroup, Recount
<1> QED
  BY <1>1, <1>2, CountExcept

\* xrp_release_buffer_group as long as somebody else holds the group.
LEMMA GroupKept ==
  ASSUME NEW h, HeapOK(h), NEW q \in Group, h.gref[q] >= 2,
         NEW k, k = ReleaseGroup(h, q)
  PROVE  /\ HeapOK(k) /\ Spare(k) = Spare(h) /\ k.ref = h.ref /\ k.maps = h.maps
         /\ k.gref = [h.gref EXCEPT ![q] = h.gref[q] - 1]
         /\ k.grp = h.grp /\ k.dev = h.dev /\ k.bad = h.bad
<1>1. /\ h \in HeapRec /\ h.gref[q] \in Nat /\ h.gref[q] # 1 /\ h.gref[q] # 0
      /\ h.gref[q] - 1 \in Nat /\ h.bad \in BOOLEAN
  BY HeapFields DEF HeapOK
<1> DEFINE b == (h.bad \/ h.gref[q] = 0)
           x == h.gref[q] - 1
           m == Recount(h, q, x)
<1>2. k = [h EXCEPT !.gref[q] = x, !.bad = b]
  <2>1. k = [h EXCEPT !.gref[q] = @ - 1, !.bad = @ \/ h.gref[q] = 0]
    BY <1>1, Zenon DEF ReleaseGroup
  <2> QED
    BY <2>1, Zenon
<1>3. b = h.bad
  BY <1>1
<1> HIDE DEF b, x
<1>4. [h EXCEPT !.gref[q] = x, !.bad = b] = [m EXCEPT !.bad = b]
  BY DEF Recount
<1>5. /\ HeapOK(m) /\ Spare(m) = Spare(h) /\ m.ref = h.ref /\ m.maps = h.maps
      /\ m.gref = [h.gref EXCEPT ![q] = x] /\ m.grp = h.grp
      /\ m.dev = h.dev /\ m.bad = h.bad
  <2>1. x \in Nat
    BY <1>1 DEF x
  <2> QED
    BY <2>1, CountExcept
<1> HIDE DEF m
<1>6. m \in HeapRec
  BY <1>5 DEF HeapOK
<1>7. [m EXCEPT !.bad = b] = m
  <2>1. m = [ref |-> m.ref, maps |-> m.maps, gref |-> m.gref, grp |-> m.grp,
             dev |-> m.dev, bad |-> m.bad]
    BY <1>6, HeapFields
  <2>2. [m EXCEPT !.bad = b] =
          [ref |-> m.ref, maps |-> m.maps, gref |-> m.gref, grp |-> m.grp,
           dev |-> m.dev, bad |-> b]
    BY <1>6, HeapExcept
  <2> QED
    BY <1>3, <1>5, <2>1, <2>2
<1> QED
  BY <1>2, <1>4, <1>5, <1>7 DEF x

\* Only one holds group q, and its members are buffers.
LastHeld(h, q) ==
  h.gref[q] = 1 /\ IsInjective(h.grp[q]) /\ \A u \in ToSet(h.grp[q]) : h.ref[u] > 0

\* From h to k group q went, with its references to its members.
Ended(h, k, q) ==
  /\ HeapOK(k) /\ Spare(k) = Spare(h) /\ k.bad = h.bad /\ k.maps = h.maps
  /\ k.gref = [h.gref EXCEPT ![q] = 0] /\ k.grp = [h.grp EXCEPT ![q] = <<>>]
  /\ k.ref = [u \in Buffer |-> IF u \in ToSet(h.grp[q]) THEN h.ref[u] - 1 ELSE h.ref[u]]

\* The last reference to a group goes: its members lose one reference each.
LEMMA GroupEnds ==
  ASSUME NEW h, HeapOK(h), NEW q \in Group, LastHeld(h, q), NEW k, k = ReleaseGroup(h, q)
  PROVE  Ended(h, k, q)
<1>0. h.gref[q] = 1 /\ IsInjective(h.grp[q]) /\ \A u \in ToSet(h.grp[q]) : h.ref[u] > 0
  BY DEF LastHeld
<1> DEFINE m == Regroup(h, q, 0, <<>>)
           us == h.grp[q]
<1>1. us \in Seq(Buffer) /\ 0 \in Nat /\ <<>> \in Seq(Buffer) /\ h.maps \in [Buffer -> Int]
  BY HeapFields DEF HeapOK
<1>2. k = FoldLeft(ReleaseBuffer, m, us)
  BY <1>0 DEF ReleaseGroup, Regroup
<1>3. /\ HeapOK(m) /\ Spare(m) = Spare(h) /\ m.ref = h.ref /\ m.maps = h.maps
      /\ m.gref = [h.gref EXCEPT ![q] = 0] /\ m.grp = [h.grp EXCEPT ![q] = <<>>]
      /\ m.dev = h.dev /\ m.bad = h.bad
  <2> DEFINE e == <<>>
  <2>1. m = Regroup(h, q, 0, e) /\ e \in Seq(Buffer)
    BY <1>1
  <2> HIDE DEF e, m
  <2>2. /\ HeapOK(m) /\ Spare(m) = Spare(h) /\ m.ref = h.ref /\ m.maps = h.maps
        /\ m.gref = [h.gref EXCEPT ![q] = 0] /\ m.grp = [h.grp EXCEPT ![q] = e]
        /\ m.dev = h.dev /\ m.bad = h.bad
    BY <1>1, <2>1, GroupsOK
  <2> QED
    BY <2>2 DEF e
<1> HIDE DEF m
<1>4. Took(m, k, ToSet(us), 1, 0)
  BY <1>0, <1>1, <1>2, <1>3, ReleaseAll
<1>5. k.maps = h.maps
  <2>1. k.maps = [u \in Buffer |-> IF u \in ToSet(us) THEN h.maps[u] - 0 ELSE h.maps[u]]
    BY <1>3, <1>4 DEF Took
  <2> QED
    BY <1>1, <2>1
<1> QED
  BY <1>3, <1>4, <1>5 DEF Took, Ended

\* Whatever the counts are, the heap stays a heap; and a member whose last
\* reference is gone is a use after the release.
LEMMA GroupGone ==
  ASSUME NEW h, HeapOK(h), NEW q \in Group, h.gref[q] = 1,
         NEW k, k = ReleaseGroup(h, q)
  PROVE  /\ HeapOK(k) /\ k.maps = h.maps
         /\ (\E u \in ToSet(h.grp[q]) : h.ref[u] = 0) => k.bad
<1> DEFINE m == Regroup(h, q, 0, <<>>)
           us == h.grp[q]
<1>1. us \in Seq(Buffer) /\ 0 \in Nat /\ <<>> \in Seq(Buffer)
  BY HeapFields DEF HeapOK
<1>2. k = FoldLeft(ReleaseBuffer, m, us)
  BY DEF ReleaseGroup, Regroup
<1>3. HeapOK(m) /\ m.ref = h.ref /\ m.maps = h.maps /\ m \in HeapRec
  <2> DEFINE e == <<>>
  <2>1. m = Regroup(h, q, 0, e) /\ e \in Seq(Buffer)
    BY <1>1
  <2> HIDE DEF e, m
  <2>2. /\ HeapOK(m) /\ Spare(m) = Spare(h) /\ m.ref = h.ref /\ m.maps = h.maps
        /\ m.gref = [h.gref EXCEPT ![q] = 0] /\ m.grp = [h.grp EXCEPT ![q] = e]
        /\ m.dev = h.dev /\ m.bad = h.bad
    BY <1>1, <2>1, GroupsOK
  <2> QED
    BY <2>2 DEF HeapOK
<1> HIDE DEF m, us
<1>4. PICK g : /\ g[0] = m /\ g[Len(us)] = k
               /\ \A j \in 1 .. Len(us) : g[j] = ReleaseBuffer(g[j - 1], us[j])
  <2>1. \E g : /\ g[0] = m /\ g[Len(us)] = FoldLeft(ReleaseBuffer, m, us)
               /\ \A j \in 1 .. Len(us) : g[j] = ReleaseBuffer(g[j - 1], us[j])
    BY <1>1, <1>3, ReleaseLoop
  <2> QED
    BY <1>2, <2>1
<1>5. /\ Len(us) \in Nat /\ DOMAIN us = 1 .. Len(us)
      /\ \A j \in 1 .. Len(us) : us[j] \in Buffer
  BY <1>1
<1> DEFINE H == {x \in HeapRec : HeapOK(x) /\ x.maps = h.maps}
<1>6. ASSUME NEW j \in 1 .. Len(us), g[j - 1] \in H PROVE g[j] \in H
  <2> DEFINE x == g[j - 1]
  <2>1. x \in HeapRec /\ HeapOK(x) /\ x.maps = h.maps /\ us[j] \in Buffer
    BY <1>5, <1>6
  <2>2. g[j] = ReleaseBuffer(x, us[j])
    BY <1>4
  <2> HIDE DEF x
  <2>3. /\ ReleaseBuffer(x, us[j]) \in HeapRec /\ ReleaseBuffer(x, us[j]).maps = x.maps
        /\ HeapOK(ReleaseBuffer(x, us[j]))
    BY <2>1, ReleaseFields, ReleaseSpare
  <2> QED
    BY <2>1, <2>2, <2>3
<1>7. m \in H
  BY <1>3
<1> HIDE DEF H
<1>8. \A j \in 0 .. Len(us) : g[j] \in H
  BY <1>4, <1>5, <1>6, <1>7, Stays
<1>9. ASSUME NEW u \in ToSet(us), h.ref[u] = 0 PROVE k.bad
  <2>1. PICK i \in 1 .. Len(us) : us[i] = u
    BY <1>5 DEF ToSet
  <2>2. u \in Buffer
    BY <1>5, <2>1
  <2> DEFINE G == [j \in 0 .. Len(us) |-> <<j, g[j]>>]
             D == {p \in (0 .. Len(us)) \X HeapRec :
                     p[2].ref[u] = 0 /\ (p[1] >= i => p[2].bad)}
  <2>3. ASSUME NEW j \in 1 .. Len(us), G[j - 1] \in D PROVE G[j] \in D
    <3> DEFINE x == g[j - 1]
               y == g[j]
    <3>0. j - 1 \in 0 .. Len(us) /\ j \in 0 .. Len(us) /\ us[j] \in Buffer
      BY <1>5
    <3>1. x \in HeapRec /\ HeapOK(x) /\ x.ref[u] = 0 /\ (j - 1 >= i => x.bad)
      BY <1>8, <2>3, <3>0 DEF H
    <3>2. y = ReleaseBuffer(x, us[j])
      BY <1>4
    <3> HIDE DEF x, y
    <3>7. us[j] \in Buffer
      BY <3>0
    <3>3. /\ y \in HeapRec
          /\ y.ref = [x.ref EXCEPT ![us[j]] = IF x.ref[us[j]] = 0 THEN 0 ELSE x.ref[us[j]] - 1]
          /\ y.bad = (x.bad \/ x.ref[us[j]] = 0)
      <4>1. /\ ReleaseBuffer(x, us[j]) \in HeapRec
            /\ ReleaseBuffer(x, us[j]).ref =
                 [x.ref EXCEPT ![us[j]] = IF x.ref[us[j]] = 0 THEN 0 ELSE x.ref[us[j]] - 1]
        BY <3>1, <3>7, ReleaseFields
      <4>2. ReleaseBuffer(x, us[j]).bad = (x.bad \/ x.ref[us[j]] = 0)
        BY <3>1, <3>7, ReleaseSpare
      <4> QED
        BY <3>2, <4>1, <4>2
    <3>4. y.ref[u] = 0
      <4>1. x.ref \in [Buffer -> Nat]
        BY <3>1, HeapFields
      <4> QED
        BY <2>2, <3>0, <3>1, <3>3, <4>1
    <3>5. j >= i => y.bad
      <4>1. CASE j = i
        BY <2>1, <3>1, <3>3, <4>1
      <4>2. CASE j >= i /\ j # i
        <5>1. j - 1 >= i
          BY <4>2
        <5> QED
          BY <3>1, <3>3, <5>1
      <4> QED
        BY <4>1, <4>2
    <3>6. G[j] = <<j, y>>
      BY <3>0 DEF y
    <3>8. <<j, y>> \in D
      BY <3>0, <3>3, <3>4, <3>5
    <3> HIDE DEF G, D
    <3> QED
      BY <3>6, <3>8
  <2>4. G[0] \in D
    <3>1. G[0] = <<0, m>> /\ 0 \in 0 .. Len(us) /\ ~(0 >= i)
      BY <1>4, <1>5
    <3> HIDE DEF G
    <3> QED
      BY <1>3, <1>9, <3>1
  <2>5. Len(us) \in 0 .. Len(us) /\ Len(us) >= i
    BY <1>5
  <2>6. G[Len(us)] = <<Len(us), k>>
    BY <1>4, <2>5
  <2> HIDE DEF G, D
  <2>7. \A j \in 0 .. Len(us) : G[j] \in D
    BY <1>5, <2>3, <2>4, Stays
  <2> QED
    BY <2>5, <2>6, <2>7 DEF D
<1>10. k \in H
  BY <1>4, <1>5, <1>8
<1> QED
  BY <1>9, <1>10 DEF H, us

(***************************************************************************)
(* Lists without repetitions.                                              *)
(***************************************************************************)

\* The elements of a list.
LEMMA ToSetFacts ==
  ASSUME NEW S, NEW s \in Seq(S)
  PROVE  /\ ToSet(s) \subseteq S /\ Len(s) \in Nat /\ DOMAIN s = 1 .. Len(s)
         /\ \A i \in 1 .. Len(s) : s[i] \in ToSet(s)
         /\ \A x \in ToSet(s) : \E i \in 1 .. Len(s) : x = s[i]
  BY DEF ToSet

\* One more at the end of a list.
LEMMA AppendFacts ==
  ASSUME NEW S, NEW s \in Seq(S), NEW x \in S, x \notin ToSet(s), IsInjective(s)
  PROVE  /\ Append(s, x) \in Seq(S) /\ IsInjective(Append(s, x))
         /\ ToSet(Append(s, x)) = ToSet(s) \cup {x} /\ Len(Append(s, x)) = Len(s) + 1
         /\ \A i \in 1 .. Len(s) : Append(s, x)[i] = s[i]
<1>1. PICK t \in Seq(S) : t = Append(s, x)
  <2>1. Append(s, x) \in Seq(S)
    OBVIOUS
  <2> QED
    BY <2>1
<1>2. /\ Len(t) = Len(s) + 1 /\ Len(s) \in Nat /\ t[Len(s) + 1] = x
      /\ \A i \in 1 .. Len(s) : t[i] = s[i]
      /\ DOMAIN t = 1 .. Len(s) + 1 /\ DOMAIN s = 1 .. Len(s)
  BY <1>1
<1>3. \A i \in 1 .. Len(s) : s[i] # x
  BY ToSetFacts
<1>4. IsInjective(t)
  BY <1>2, <1>3 DEF IsInjective
<1>5. ToSet(t) = ToSet(s) \cup {x}
  BY <1>1, ToSetAppend
<1> QED
  BY <1>1, <1>2, <1>4, <1>5

\* The first of a list is taken off.
LEMMA TailFacts ==
  ASSUME NEW S, NEW s \in Seq(S), s # <<>>, IsInjective(s)
  PROVE  /\ Tail(s) \in Seq(S) /\ IsInjective(Tail(s)) /\ Head(s) \in S
         /\ Head(s) \in ToSet(s) /\ ToSet(Tail(s)) = ToSet(s) \ {Head(s)}
<1>1. PICK t \in Seq(S) : t = Tail(s)
  <2>1. Tail(s) \in Seq(S)
    OBVIOUS
  <2> QED
    BY <2>1
<1>2. /\ Len(s) \in Nat /\ Len(s) # 0 /\ DOMAIN s = 1 .. Len(s)
      /\ Len(t) = Len(s) - 1 /\ DOMAIN t = 1 .. Len(s) - 1
      /\ \A i \in 1 .. Len(s) - 1 : t[i] = s[i + 1]
  BY <1>1
<1>3. 1 \in 1 .. Len(s) /\ Head(s) = s[1]
  BY <1>2
<1>4. IsInjective(t)
  <2> SUFFICES ASSUME NEW i \in 1 .. Len(s) - 1, NEW j \in 1 .. Len(s) - 1, t[i] = t[j]
               PROVE  i = j
    BY <1>2 DEF IsInjective
  <2>1. i + 1 \in 1 .. Len(s) /\ j + 1 \in 1 .. Len(s) /\ s[i + 1] = s[j + 1]
    BY <1>2
  <2>2. i + 1 = j + 1
    BY <1>2, <2>1 DEF IsInjective
  <2> QED
    BY <2>2
<1>5. ASSUME NEW y \in ToSet(t) PROVE y \in ToSet(s) \ {Head(s)}
  <2>1. PICK i \in 1 .. Len(s) - 1 : y = t[i]
    BY <1>2 DEF ToSet
  <2>2. i + 1 \in 1 .. Len(s) /\ i + 1 # 1 /\ y = s[i + 1]
    BY <1>2, <2>1
  <2>3. y # s[1]
    BY <1>2, <1>3, <2>2 DEF IsInjective
  <2> QED
    BY <1>2, <1>3, <2>2, <2>3 DEF ToSet
<1>6. ASSUME NEW y \in ToSet(s) \ {Head(s)} PROVE y \in ToSet(t)
  <2>1. PICK i \in 1 .. Len(s) : y = s[i]
    BY <1>2 DEF ToSet
  <2>2. i # 1
    BY <1>3, <2>1
  <2>3. i - 1 \in 1 .. Len(s) - 1 /\ (i - 1) + 1 = i
    BY <1>2, <2>2
  <2>4. y = t[i - 1]
    BY <1>2, <2>1, <2>3
  <2> QED
    BY <1>2, <2>3, <2>4 DEF ToSet
<1>7. Head(s) \in ToSet(s) /\ Head(s) \in S
  BY <1>2, <1>3 DEF ToSet
<1> QED
  BY <1>1, <1>4, <1>5, <1>6, <1>7

\* A list without repetitions has as many elements as places.
LEMMA InjectiveSize ==
  ASSUME NEW S, NEW s \in Seq(S), IsInjective(s)
  PROVE  Cardinality(ToSet(s)) = Len(s)
<1>1. Len(s) \in Nat /\ DOMAIN s = 1 .. Len(s)
  OBVIOUS
<1> DEFINE n == Len(s)
           T == ToSet(s)
<1>2. s \in [1 .. n -> T]
  <2>1. s = [i \in 1 .. n |-> s[i]] /\ \A i \in 1 .. n : s[i] \in T
    BY <1>1 DEF ToSet
  <2> HIDE DEF n, T
  <2> QED
    BY <2>1
<1>3. s \in Bijection(1 .. n, T)
  <2>1. \A a, b \in 1 .. n : s[a] = s[b] => a = b
    BY <1>1 DEF IsInjective
  <2>2. \A y \in T : \E i \in 1 .. n : s[i] = y
    BY <1>1 DEF ToSet
  <2> HIDE DEF n, T
  <2> QED
    BY <1>2, <2>1, <2>2, Fun_IsBij
<1>4. n \in Nat /\ IsFiniteSet(1 .. n) /\ Cardinality(1 .. n) = n
  BY <1>1, FS_Interval
<1> HIDE DEF n, T
<1>5. Cardinality(T) = n
  BY <1>3, <1>4, FS_Bijection DEF ExistsBijection
<1> QED
  BY <1>5 DEF n, T

\* The first place where a list holds x.
LEMMA FirstPlace ==
  ASSUME NEW S, NEW s \in Seq(S), NEW I, I \subseteq 1 .. Len(s), I # {}
  PROVE  Min(I) \in I
<1>1. I \subseteq Nat
  OBVIOUS
<1> QED
  BY <1>1, Least DEF Min

\* Taking an element off a list without repetitions.
LEMMA RemoveFacts ==
  ASSUME NEW S, NEW s \in Seq(S), NEW x, IsInjective(s)
  PROVE  /\ RemoveFirst(s, x) \in Seq(S) /\ IsInjective(RemoveFirst(s, x))
         /\ ToSet(RemoveFirst(s, x)) = ToSet(s) \ {x}
         /\ x \in ToSet(s) => Len(RemoveFirst(s, x)) = Len(s) - 1
<1>1. CASE ~\E i \in 1 .. Len(s) : s[i] = x
  <2>1. RemoveFirst(s, x) = s
    BY <1>1 DEF RemoveFirst
  <2>2. x \notin ToSet(s)
    BY <1>1, ToSetFacts
  <2> QED
    BY <2>1, <2>2
<1>2. CASE \E i \in 1 .. Len(s) : s[i] = x
  <2>1. PICK I : I = {i \in 1 .. Len(s) : s[i] = x}
    OBVIOUS
  <2>2. I # {} /\ I \subseteq 1 .. Len(s)
    BY <1>2, <2>1
  <2>3. RemoveFirst(s, x) = RemoveAt(s, Min(I))
    <3>1. SelectInSeq(s, LAMBDA v : v = x) = Min(I)
      BY <2>1, <2>2 DEF SelectInSeq
    <3> QED
      BY <1>2, <3>1 DEF RemoveFirst
  <2>4. PICK k \in 1 .. Len(s) : k = Min(I) /\ s[k] = x
    BY <2>1, <2>2, FirstPlace
  <2>5. PICK t : t = SubSeq(s, 1, k - 1) \o SubSeq(s, k + 1, Len(s))
    OBVIOUS
  <2>6. /\ t \in Seq(S) /\ Len(t) = Len(s) - 1
        /\ \A i \in 1 .. k - 1 : t[i] = s[i]
        /\ \A i \in k .. Len(s) - 1 : t[i] = s[i + 1]
    <3>1. PICK a \in Seq(S) : a = SubSeq(s, 1, k - 1)
      <4>1. SubSeq(s, 1, k - 1) \in Seq(S)
        BY <2>4, SubSeqProperties
      <4> QED
        BY <4>1
    <3>2. Len(a) = k - 1 /\ \A i \in 1 .. k - 1 : a[i] = s[i]
      BY <3>1
    <3>3. PICK b \in Seq(S) : b = SubSeq(s, k + 1, Len(s))
      <4>1. SubSeq(s, k + 1, Len(s)) \in Seq(S)
        BY <2>4, SubSeqProperties
      <4> QED
        BY <4>1
    <3>4. Len(b) = Len(s) - k /\ \A i \in 1 .. Len(s) - k : b[i] = s[k + i]
      BY <3>3
    <3>5. t = a \o b
      BY <2>5, <3>1, <3>3
    <3>6. t \in Seq(S) /\ Len(t) = Len(s) - 1
      BY <3>2, <3>4, <3>5
    <3>7. \A i \in 1 .. k - 1 : t[i] = a[i]
      BY <3>2, <3>4, <3>5
    <3>8. \A i \in k .. Len(s) - 1 : t[i] = b[i - (k - 1)]
      BY <3>2, <3>4, <3>5
    <3> QED
      BY <3>2, <3>4, <3>6, <3>7, <3>8
  <2>7. /\ DOMAIN t = 1 .. Len(s) - 1 /\ DOMAIN s = 1 .. Len(s) /\ Len(s) \in Nat
    BY <2>6
  <2>8. \A i \in 1 .. Len(s) : s[i] = x => i = k
    BY <2>4, <2>7 DEF IsInjective
  <2>9. \A i \in 1 .. Len(s) - 1 : \E j \in 1 .. Len(s) :
          t[i] = s[j] /\ j # k /\ j = IF i < k THEN i ELSE i + 1
    <3> TAKE i \in 1 .. Len(s) - 1
    <3>1. CASE i < k
      <4>1. i \in 1 .. k - 1 /\ i \in 1 .. Len(s) /\ i # k
        BY <2>7, <3>1
      <4> QED
        BY <2>6, <3>1, <4>1
    <3>2. CASE ~(i < k)
      <4>1. i \in k .. Len(s) - 1 /\ i + 1 \in 1 .. Len(s) /\ i + 1 # k
        BY <2>7, <3>2
      <4> QED
        BY <2>6, <3>2, <4>1
    <3> QED
      BY <3>1, <3>2
  <2>10. IsInjective(t)
    <3> SUFFICES ASSUME NEW i \in 1 .. Len(s) - 1, NEW j \in 1 .. Len(s) - 1, t[i] = t[j]
                 PROVE  i = j
      BY <2>7 DEF IsInjective
    <3>1. PICK m \in 1 .. Len(s) : t[i] = s[m] /\ m = IF i < k THEN i ELSE i + 1
      BY <2>9
    <3>2. PICK n \in 1 .. Len(s) : t[j] = s[n] /\ n = IF j < k THEN j ELSE j + 1
      BY <2>9
    <3>3. m = n
      BY <3>1, <3>2, <2>7 DEF IsInjective
    <3> QED
      BY <3>1, <3>2, <3>3
  <2>11. ASSUME NEW y
         PROVE  y \in ToSet(t) <=> y \in ToSet(s) \ {x}
    <3>1. ASSUME y \in ToSet(t)
          PROVE  y \in ToSet(s) /\ y # x
      <4>1. PICK i \in 1 .. Len(s) - 1 : y = t[i]
        BY <2>7, <3>1 DEF ToSet
      <4>2. PICK j \in 1 .. Len(s) : t[i] = s[j] /\ j # k
        BY <2>9
      <4> QED
        BY <4>1, <4>2, <2>8, ToSetFacts
    <3>2. ASSUME y \in ToSet(s), y # x
          PROVE  y \in ToSet(t)
      <4>1. PICK j \in 1 .. Len(s) : y = s[j]
        BY <3>2, ToSetFacts
      <4>2. j # k
        BY <2>4, <3>2, <4>1
      <4>3. PICK i \in 1 .. Len(s) - 1 : t[i] = s[j]
        <5>1. CASE j < k
          <6>1. j \in 1 .. k - 1 /\ j \in 1 .. Len(s) - 1
            BY <5>1
          <6> QED
            BY <6>1, <2>6
        <5>2. CASE j > k
          <6>1. j - 1 \in k .. Len(s) - 1 /\ j - 1 \in 1 .. Len(s) - 1 /\ (j - 1) + 1 = j
            BY <5>2
          <6> QED
            BY <6>1, <2>6
        <5> QED
          BY <4>2, <5>1, <5>2
      <4> QED
        BY <2>7, <4>1, <4>3 DEF ToSet
    <3> QED
      BY <3>1, <3>2
  <2>12. RemoveFirst(s, x) = t
    BY <2>3, <2>4, <2>5 DEF RemoveAt
  <2> QED
    BY <2>6, <2>10, <2>11, <2>12
<1> QED
  BY <1>1, <1>2

(***************************************************************************)
(* The planes of arrays of buffers.                                        *)
(***************************************************************************)

\* Two sequences, one after the other.
LEMMA ConcatFacts ==
  ASSUME NEW S, NEW s \in Seq(S), NEW t \in Seq(S), NEW w, w = s \o t
  PROVE  /\ w \in Seq(S) /\ Len(w) = Len(s) + Len(t) /\ DOMAIN w = 1 .. Len(s) + Len(t)
         /\ \A i \in 1 .. Len(s) : w[i] = s[i]
         /\ \A i \in 1 .. Len(t) : w[Len(s) + i] = t[i]
<1>1. /\ w \in Seq(S) /\ Len(w) = Len(s) + Len(t)
      /\ \A i \in 1 .. Len(s) + Len(t) : w[i] = IF i <= Len(s) THEN s[i] ELSE t[i - Len(s)]
  BY ConcatProperties
<1>2. Len(s) \in Nat /\ Len(t) \in Nat /\ DOMAIN w = 1 .. Len(w)
  BY <1>1, ToSetFacts
<1>3. \A i \in 1 .. Len(s) : w[i] = s[i]
  BY <1>1, <1>2
<1>4. ASSUME NEW i \in 1 .. Len(t) PROVE w[Len(s) + i] = t[i]
  <2>1. Len(s) + i \in 1 .. Len(s) + Len(t) /\ ~(Len(s) + i <= Len(s))
        /\ (Len(s) + i) - Len(s) = i
    BY <1>2
  <2> QED
    BY <1>1, <2>1
<1> QED
  BY <1>1, <1>2, <1>3, <1>4

\* One more at the end of a sequence.
LEMMA OneMore ==
  ASSUME NEW S, NEW s \in Seq(S), NEW x \in S, NEW c, c = Append(s, x)
  PROVE  /\ c \in Seq(S) /\ Len(c) = Len(s) + 1 /\ c[Len(s) + 1] = x
         /\ \A i \in 1 .. Len(s) : c[i] = s[i]
  OBVIOUS

\* One less in the middle of a sequence.
LEMMA RemoveAtFacts ==
  ASSUME NEW S, NEW s \in Seq(S), NEW d \in 1 .. Len(s), NEW c, c = RemoveAt(s, d)
  PROVE  /\ c \in Seq(S) /\ Len(c) = Len(s) - 1
         /\ \A k \in 1 .. d - 1 : c[k] = s[k]
         /\ \A k \in d .. Len(s) - 1 : c[k] = s[k + 1]
<1>0. PICK l \in Nat : l = Len(s)
  BY ToSetFacts
<1>1. PICK a \in Seq(S) : a = SubSeq(s, 1, d - 1)
  <2>1. SubSeq(s, 1, d - 1) \in Seq(S)
    BY SubSeqProperties
  <2> QED
    BY <2>1
<1>2. Len(a) = d - 1 /\ \A i \in 1 .. d - 1 : a[i] = s[i]
  BY <1>1
<1>3. PICK b \in Seq(S) : b = SubSeq(s, d + 1, l)
  <2>1. SubSeq(s, d + 1, l) \in Seq(S)
    BY <1>0, SubSeqProperties
  <2> QED
    BY <2>1
<1>4. Len(b) = l - d /\ \A i \in 1 .. l - d : b[i] = s[d + i]
  <2>1. PICK m \in Nat : m = d + 1 /\ d + 1 <= l + 1 /\ d \in Nat
    BY <1>0
  <2>2. \A i \in m .. l : s[i] \in S
    BY <1>0, <2>1
  <2>3. /\ Len(SubSeq(s, m, l)) = IF m <= l THEN l - m + 1 ELSE 0
        /\ \A i \in 1 .. l - m + 1 : SubSeq(s, m, l)[i] = s[m + i - 1]
    BY <1>0, <2>1, <2>2, SubSeqProperties
  <2> QED
    BY <1>0, <1>3, <2>1, <2>3
<1>5. c = a \o b
  BY <1>0, <1>1, <1>3 DEF RemoveAt
<1>6. /\ c \in Seq(S) /\ Len(c) = Len(a) + Len(b)
      /\ \A i \in 1 .. Len(a) : c[i] = a[i]
      /\ \A i \in 1 .. Len(b) : c[Len(a) + i] = b[i]
  BY <1>5, ConcatFacts
<1>7. Len(c) = l - 1 /\ \A k \in 1 .. d - 1 : c[k] = s[k]
  BY <1>0, <1>2, <1>4, <1>6
<1>8. ASSUME NEW k \in d .. l - 1 PROVE c[k] = s[k + 1]
  <2>1. PICK j \in 1 .. l - d : k = (d - 1) + j /\ k + 1 = d + j
    <3>1. k - (d - 1) \in 1 .. l - d /\ k = (d - 1) + (k - (d - 1))
          /\ k + 1 = d + (k - (d - 1))
      BY <1>0
    <3> QED
      BY <3>1
  <2>2. c[Len(a) + j] = b[j]
    BY <1>4, <1>6, <2>1
  <2>3. b[j] = s[d + j]
    BY <1>4, <2>1
  <2> QED
    BY <1>2, <2>1, <2>2, <2>3
<1> QED
  BY <1>0, <1>6, <1>7, <1>8

\* The places after the first m.
LEMMA NextPlaces ==
  ASSUME NEW m \in Nat, NEW n \in Nat, NEW is, is = [k \in 1 .. n |-> m + k]
  PROVE  is \in Seq(Nat) /\ Len(is) = n /\ \A k \in 1 .. n : is[k] = m + k
<1>1. \A k \in 1 .. n : m + k \in Nat
  OBVIOUS
<1>2. is \in Seq(Nat)
  BY <1>1, IsASeq
<1>3. DOMAIN is = 1 .. n
  OBVIOUS
<1>4. Len(is) \in Nat /\ DOMAIN is = 1 .. Len(is)
  BY <1>2, ToSetFacts
<1> QED
  BY <1>2, <1>3, <1>4

\* The planes that an array of buffers names.
LEMMA PlanesInFacts ==
  ASSUME NEW s, NEW bufs
  PROVE  \A u : u \in PlanesIn(s, bufs) <=>
           \E k \in 1 .. Len(bufs) : \E j \in 1 .. Len(bufs[k]) : u = s[bufs[k][j]]
  BY DEF PlanesIn, Named

\* They are members of the group.
LEMMA PlanesAreMembers ==
  ASSUME NEW s \in Seq(Buffer), NEW bufs, Inside(s, bufs)
  PROVE  PlanesIn(s, bufs) \subseteq ToSet(s)
  BY PlanesInFacts DEF Inside, AllWithin, Within, ToSet

\* An array without buffers.
LEMMA PlanesOfNone ==
  ASSUME NEW s
  PROVE  PlanesIn(s, <<>>) = {} /\ Inside(s, <<>>)
<1>1. PICK e : e = <<>>
  OBVIOUS
<1>2. Len(e) = 0
  BY <1>1
<1>3. PlanesIn(s, e) = {} /\ Inside(s, e)
  BY <1>2 DEF PlanesIn, Inside, AllWithin, Different
<1> QED
  BY <1>1, <1>3

\* More members of the group change nothing of the planes.
LEMMA PlanesKept ==
  ASSUME NEW s \in Seq(Buffer), NEW us \in Seq(Buffer), NEW bufs, Inside(s, bufs)
  PROVE  PlanesIn(s \o us, bufs) = PlanesIn(s, bufs) /\ Inside(s \o us, bufs)
<1>1. PICK w : w = s \o us
  OBVIOUS
<1>2. /\ DOMAIN s \subseteq DOMAIN w /\ \A i \in DOMAIN s : w[i] = s[i]
  <2>1. /\ DOMAIN w = 1 .. Len(s) + Len(us) /\ \A i \in 1 .. Len(s) : w[i] = s[i]
    BY <1>1, ConcatFacts
  <2>2. Len(s) \in Nat /\ Len(us) \in Nat /\ DOMAIN s = 1 .. Len(s)
    BY ToSetFacts
  <2> QED
    BY <2>1, <2>2
<1>3. \A k \in 1 .. Len(bufs) : \A j \in 1 .. Len(bufs[k]) : bufs[k][j] \in DOMAIN s
  BY DEF Inside, AllWithin, Within
<1>4. \A k \in 1 .. Len(bufs) : Named(w, bufs[k]) = Named(s, bufs[k])
  BY <1>2, <1>3 DEF Named
<1>5. PlanesIn(w, bufs) = PlanesIn(s, bufs)
  BY <1>4 DEF PlanesIn
<1>6. Inside(w, bufs)
  BY <1>2, <1>3 DEF Inside, AllWithin, Within
<1> QED
  BY <1>1, <1>5, <1>6

\* The indices of new members.
NextOf(s, us) == [k \in 1 .. Len(us) |-> Len(s) + k]

\* The planes of a new buffer are the new members of the group.
LEMMA PlanesAppended ==
  ASSUME NEW s \in Seq(Buffer), NEW us \in Seq(Buffer), NEW bufs \in Seq(Arrays),
         Inside(s, bufs), Len(us) <= MaxPlanes,
         NEW is, is = NextOf(s, us)
  PROVE  /\ is \in Arrays /\ Append(bufs, is) \in Seq(Arrays)
         /\ Inside(s \o us, Append(bufs, is))
         /\ PlanesIn(s \o us, Append(bufs, is)) = PlanesIn(s, bufs) \cup ToSet(us)
         /\ Within(is, s \o us) /\ Named(s \o us, is) = ToSet(us)
         /\ \A k \in 1 .. Len(is) : (s \o us)[is[k]] = us[k]
         /\ Len(is) = Len(us)
<1>1. PICK n \in Nat : n = Len(us)
  BY ToSetFacts
<1>2. PICK m \in Nat : m = Len(s)
  BY ToSetFacts
<1>3. is \in Seq(Nat) /\ Len(is) = n /\ \A k \in 1 .. n : is[k] = m + k
  BY <1>1, <1>2, NextPlaces DEF NextOf
<1>a. is \in Arrays
  BY <1>3 DEF Arrays
<1>4. PICK w : w = s \o us
  OBVIOUS
<1>5. /\ DOMAIN w = 1 .. m + n /\ \A i \in 1 .. m : w[i] = s[i]
      /\ \A k \in 1 .. n : w[m + k] = us[k]
  BY <1>1, <1>2, <1>4, ConcatFacts
<1>6. Within(is, w) /\ Named(w, is) = ToSet(us) /\ \A k \in 1 .. n : w[is[k]] = us[k]
  <2>1. \A k \in 1 .. n : is[k] = m + k /\ m + k \in 1 .. m + n
    BY <1>1, <1>2, <1>3
  <2>2. Within(is, w)
    BY <1>3, <1>5, <2>1 DEF Within
  <2>3. \A k \in 1 .. n : w[is[k]] = us[k]
    BY <1>5, <2>1
  <2>4. DOMAIN us = 1 .. n
    BY <1>1, ToSetFacts
  <2>5. Named(w, is) = ToSet(us)
    <3>1. Named(w, is) = {w[is[k]] : k \in 1 .. n}
      BY <1>3 DEF Named
    <3>2. ToSet(us) = {us[k] : k \in 1 .. n}
      BY <2>4 DEF ToSet
    <3>3. ASSUME NEW k \in 1 .. n PROVE w[is[k]] = us[k]
      BY <2>3
    <3>4. {w[is[k]] : k \in 1 .. n} = {us[k] : k \in 1 .. n}
      BY <3>3
    <3> QED
      BY <3>1, <3>2, <3>4
  <2> QED
    BY <2>2, <2>3, <2>5
<1>7. PICK c : c = Append(bufs, is)
  OBVIOUS
<1>8. PICK l \in Nat : l = Len(bufs)
  BY ToSetFacts
<1>9. /\ c \in Seq(Arrays) /\ Len(c) = l + 1 /\ c[l + 1] = is
      /\ \A k \in 1 .. l : c[k] = bufs[k]
  BY <1>a, <1>7, <1>8, OneMore
<1>10. \A k \in 1 .. l : \A j \in 1 .. Len(bufs[k]) : bufs[k][j] \in 1 .. m
  <2>1. DOMAIN s = 1 .. m
    BY <1>2, ToSetFacts
  <2> QED
    BY <1>8, <2>1 DEF Inside, AllWithin, Within
<1>11. 1 .. l + 1 = (1 .. l) \cup {l + 1}
  <2>1. ASSUME NEW x \in 1 .. l + 1 PROVE x \in 1 .. l \/ x = l + 1
    BY <1>8
  <2>2. ASSUME NEW x \in 1 .. l PROVE x \in 1 .. l + 1
    BY <1>8
  <2>3. l + 1 \in 1 .. l + 1
    BY <1>8
  <2> QED
    BY <2>1, <2>2, <2>3
<1>12. AllWithin(c, w)
  <2>1. \A k \in 1 .. l : Within(c[k], w)
    <3> SUFFICES ASSUME NEW k \in 1 .. l PROVE Within(c[k], w)
      OBVIOUS
    <3>1. \A j \in 1 .. Len(bufs[k]) : bufs[k][j] \in DOMAIN w
      BY <1>1, <1>2, <1>5, <1>10
    <3>2. c[k] = bufs[k]
      BY <1>9
    <3> QED
      BY <3>1, <3>2 DEF Within
  <2> QED
    BY <1>6, <1>9, <1>11, <2>1 DEF AllWithin
<1>13. Different(c)
  <2> SUFFICES ASSUME NEW k \in 1 .. l + 1, NEW x \in 1 .. l + 1,
                      NEW j \in 1 .. Len(c[k]), NEW i \in 1 .. Len(c[x]),
                      c[k][j] = c[x][i]
               PROVE  k = x /\ j = i
    BY <1>9 DEF Different
  <2>1. /\ k \in 1 .. l => c[k][j] \in 1 .. m
        /\ x \in 1 .. l => c[x][i] \in 1 .. m
    BY <1>9, <1>10
  <2>2. /\ k = l + 1 => c[k][j] = m + j /\ j \in 1 .. n
        /\ x = l + 1 => c[x][i] = m + i /\ i \in 1 .. n
    BY <1>3, <1>9
  <2>3. CASE k \in 1 .. l /\ x \in 1 .. l
    <3>1. c[k] = bufs[k] /\ c[x] = bufs[x]
      BY <1>9, <2>3
    <3> QED
      BY <1>8, <2>3, <3>1 DEF Inside, Different
  <2>4. CASE k = l + 1 /\ x = l + 1
    BY <2>2, <2>4
  <2>5. CASE k = l + 1 /\ x \in 1 .. l
    BY <2>1, <2>2, <2>5
  <2>6. CASE k \in 1 .. l /\ x = l + 1
    BY <2>1, <2>2, <2>6
  <2> QED
    BY <1>11, <2>3, <2>4, <2>5, <2>6
<1>14. \A k \in 1 .. Len(c) : Len(c[k]) <= MaxPlanes
  <2>1. \A k \in 1 .. l : Len(c[k]) <= MaxPlanes
    BY <1>8, <1>9 DEF Inside
  <2> QED
    BY <1>1, <1>3, <1>9, <1>11, <2>1
<1>15. Inside(w, c)
  BY <1>12, <1>13, <1>14 DEF Inside
<1>16. PlanesIn(w, c) = PlanesIn(s, bufs) \cup ToSet(us)
  <2>1. PlanesIn(w, bufs) = PlanesIn(s, bufs)
    BY <1>4, PlanesKept
  <2>2. PlanesIn(w, bufs) = UNION {Named(w, c[k]) : k \in 1 .. l}
    BY <1>8, <1>9 DEF PlanesIn
  <2>3. PlanesIn(w, c) = (UNION {Named(w, c[k]) : k \in 1 .. l}) \cup Named(w, c[l + 1])
    <3>1. Len(c) = l + 1
      BY <1>9
    <3>2. {Named(w, c[k]) : k \in 1 .. Len(c)} =
            {Named(w, c[k]) : k \in 1 .. l} \cup {Named(w, c[l + 1])}
      BY <1>11, <3>1
    <3> QED
      BY <3>2 DEF PlanesIn
  <2> QED
    <3>1. Named(w, c[l + 1]) = ToSet(us)
      BY <1>6, <1>9
    <3> QED
      BY <2>1, <2>2, <2>3, <3>1
<1> QED
  BY <1>1, <1>a, <1>3, <1>4, <1>6, <1>7, <1>9, <1>15, <1>16

\* One of the buffers is given back.
LEMMA PlanesRemoved ==
  ASSUME NEW s \in Seq(Buffer), IsInjective(s), NEW bufs \in Seq(Arrays), Inside(s, bufs),
         NEW d \in 1 .. Len(bufs)
  PROVE  /\ RemoveAt(bufs, d) \in Seq(Arrays) /\ Inside(s, RemoveAt(bufs, d))
         /\ PlanesIn(s, RemoveAt(bufs, d)) = PlanesIn(s, bufs) \ Named(s, bufs[d])
         /\ Named(s, bufs[d]) \subseteq PlanesIn(s, bufs)
<1>1. PICK l \in Nat : l = Len(bufs)
  BY ToSetFacts
<1>2. PICK c : c = RemoveAt(bufs, d)
  OBVIOUS
<1>3. /\ c \in Seq(Arrays) /\ Len(c) = l - 1
      /\ \A k \in 1 .. d - 1 : c[k] = bufs[k]
      /\ \A k \in d .. l - 1 : c[k] = bufs[k + 1]
  <2>1. bufs \in Seq(Arrays) /\ d \in 1 .. Len(bufs) /\ c = RemoveAt(bufs, d)
    BY <1>2
  <2>2. /\ c \in Seq(Arrays) /\ Len(c) = Len(bufs) - 1
        /\ \A k \in 1 .. d - 1 : c[k] = bufs[k]
        /\ \A k \in d .. Len(bufs) - 1 : c[k] = bufs[k + 1]
    BY <2>1, RemoveAtFacts
  <2> QED
    BY <1>1, <2>2
<1>4. PICK f : f = [k \in 1 .. l - 1 |-> IF k < d THEN k ELSE k + 1]
  OBVIOUS
<1>5. /\ \A k \in 1 .. l - 1 : f[k] \in (1 .. l) \ {d} /\ c[k] = bufs[f[k]]
      /\ \A k, m \in 1 .. l - 1 : f[k] = f[m] => k = m
      /\ \A m \in (1 .. l) \ {d} : \E k \in 1 .. l - 1 : f[k] = m
  <2>1. ASSUME NEW k \in 1 .. l - 1 PROVE f[k] \in (1 .. l) \ {d} /\ c[k] = bufs[f[k]]
    <3>1. d \in 1 .. l /\ l \in Nat /\ k \in Nat
      BY <1>1
    <3>2. CASE k < d
      <4>1. f[k] = k /\ k \in 1 .. d - 1
        BY <1>4, <3>1, <3>2
      <4> QED
        BY <1>3, <3>1, <3>2, <4>1
    <3>3. CASE ~(k < d)
      <4>1. f[k] = k + 1 /\ k \in d .. l - 1
        BY <1>4, <3>1, <3>3
      <4> QED
        BY <1>3, <3>1, <3>3, <4>1
    <3> QED
      BY <3>2, <3>3
  <2>2. \A k, m \in 1 .. l - 1 : f[k] = f[m] => k = m
    <3>1. d \in Nat /\ l \in Nat
      BY <1>1
    <3> QED
      <4> SUFFICES ASSUME NEW k \in 1 .. l - 1, NEW m \in 1 .. l - 1, f[k] = f[m]
                   PROVE  k = m
        OBVIOUS
      <4>1. /\ f[k] = IF k < d THEN k ELSE k + 1
            /\ f[m] = IF m < d THEN m ELSE m + 1
        BY <1>4
      <4>2. k \in Nat /\ m \in Nat
        BY <3>1
      <4>3. ASSUME k < d, ~(m < d) PROVE FALSE
        <5>1. f[k] = k /\ f[m] = m + 1
          BY <4>1, <4>3
        <5>2. k = m + 1
          BY <5>1
        <5> QED
          BY <3>1, <4>2, <4>3, <5>2
      <4>4. ASSUME ~(k < d), m < d PROVE FALSE
        <5>1. f[k] = k + 1 /\ f[m] = m
          BY <4>1, <4>4
        <5>2. m = k + 1
          BY <5>1
        <5> QED
          BY <3>1, <4>2, <4>4, <5>2
      <4>5. CASE k < d /\ m < d
        BY <4>1, <4>5
      <4>6. CASE ~(k < d) /\ ~(m < d)
        <5>1. k + 1 = m + 1
          BY <4>1, <4>6
        <5> QED
          BY <4>2, <5>1
      <4> QED
        BY <4>3, <4>4, <4>5, <4>6
  <2>3. ASSUME NEW m \in (1 .. l) \ {d} PROVE \E k \in 1 .. l - 1 : f[k] = m
    <3>1. CASE m < d
      <4>1. m \in 1 .. l - 1 /\ f[m] = m
        BY <1>1, <1>4, <3>1
      <4> QED
        BY <4>1
    <3>2. CASE m > d
      <4>1. m - 1 \in 1 .. l - 1 /\ f[m - 1] = m
        BY <1>1, <1>4, <3>2
      <4> QED
        BY <4>1
    <3> QED
      BY <1>1, <3>1, <3>2
  <2> QED
    BY <2>1, <2>2, <2>3
<1>6. Inside(s, c)
  <2>1. AllWithin(c, s)
    <3>1. \A k \in 1 .. l : Within(bufs[k], s)
      BY <1>1 DEF Inside, AllWithin
    <3> QED
      BY <1>3, <1>5, <3>1 DEF AllWithin
  <2>2. \A k \in 1 .. Len(c) : Len(c[k]) <= MaxPlanes
    <3>1. \A k \in 1 .. l : Len(bufs[k]) <= MaxPlanes
      BY <1>1 DEF Inside
    <3> QED
      BY <1>3, <1>5, <3>1
  <2>3. Different(c)
    <3> SUFFICES ASSUME NEW k \in 1 .. l - 1, NEW m \in 1 .. l - 1,
                        NEW j \in 1 .. Len(c[k]), NEW i \in 1 .. Len(c[m]),
                        c[k][j] = c[m][i]
                 PROVE  k = m /\ j = i
      BY <1>3 DEF Different
    <3>1. /\ f[k] \in 1 .. l /\ f[m] \in 1 .. l /\ c[k] = bufs[f[k]] /\ c[m] = bufs[f[m]]
      BY <1>5
    <3>2. Different(bufs) /\ f[k] \in 1 .. Len(bufs) /\ f[m] \in 1 .. Len(bufs)
      BY <1>1, <3>1 DEF Inside
    <3>3. /\ j \in 1 .. Len(bufs[f[k]]) /\ i \in 1 .. Len(bufs[f[m]])
          /\ bufs[f[k]][j] = bufs[f[m]][i]
      BY <3>1
    <3>4. f[k] = f[m] /\ j = i
      <4>1. \A x, y \in 1 .. Len(bufs) : \A a \in 1 .. Len(bufs[x]), e \in 1 .. Len(bufs[y]) :
              bufs[x][a] = bufs[y][e] => x = y /\ a = e
        BY <3>2 DEF Different
      <4>2. PICK x \in 1 .. Len(bufs) : x = f[k]
        BY <3>2
      <4>3. PICK y \in 1 .. Len(bufs) : y = f[m]
        BY <3>2
      <4>4. j \in 1 .. Len(bufs[x]) /\ i \in 1 .. Len(bufs[y]) /\ bufs[x][j] = bufs[y][i]
        BY <3>3, <4>2, <4>3
      <4>5. x = y /\ j = i
        BY <4>1, <4>4
      <4> QED
        BY <4>2, <4>3, <4>5
    <3> QED
      BY <1>5, <3>4
  <2> QED
    BY <2>1, <2>2, <2>3 DEF Inside
<1>7. PlanesIn(s, c) = PlanesIn(s, bufs) \ Named(s, bufs[d])
  <2>1. ASSUME NEW u, u \in PlanesIn(s, c) PROVE u \in PlanesIn(s, bufs) \ Named(s, bufs[d])
    <3>0. PICK k \in 1 .. Len(c) : \E j \in 1 .. Len(c[k]) : u = s[c[k][j]]
      <4>1. \E k \in 1 .. Len(c) : \E j \in 1 .. Len(c[k]) : u = s[c[k][j]]
        BY <2>1 DEF PlanesIn, Named
      <4> QED
        BY <4>1
    <3>1. k \in 1 .. l - 1 /\ \E j \in 1 .. Len(c[k]) : u = s[c[k][j]]
      BY <1>3, <3>0
    <3>2. PICK j \in 1 .. Len(c[k]) : u = s[c[k][j]]
      BY <3>1
    <3>3. f[k] \in 1 .. l /\ f[k] # d /\ c[k] = bufs[f[k]]
      BY <1>5, <3>1
    <3>4. u \in PlanesIn(s, bufs)
      BY <1>1, <3>2, <3>3, PlanesInFacts
    <3>5. ASSUME u \in Named(s, bufs[d]) PROVE FALSE
      <4>1. PICK i \in 1 .. Len(bufs[d]) : u = s[bufs[d][i]]
        BY <3>5 DEF Named
      <4>2. bufs[d][i] \in DOMAIN s /\ bufs[f[k]][j] \in DOMAIN s
        BY <1>1, <3>2, <3>3 DEF Inside, AllWithin, Within
      <4>3. bufs[d][i] = bufs[f[k]][j]
        BY <3>2, <3>3, <4>1, <4>2 DEF IsInjective
      <4>4. \A x, y \in 1 .. Len(bufs) : \A a \in 1 .. Len(bufs[x]), e \in 1 .. Len(bufs[y]) :
              bufs[x][a] = bufs[y][e] => x = y /\ a = e
        BY DEF Inside, Different
      <4>5. f[k] \in 1 .. Len(bufs) /\ j \in 1 .. Len(bufs[f[k]])
        BY <1>1, <3>2, <3>3
      <4> QED
        BY <3>3, <4>1, <4>3, <4>4, <4>5
    <3> QED
      BY <3>4, <3>5
  <2>2. ASSUME NEW u, u \in PlanesIn(s, bufs), u \notin Named(s, bufs[d])
        PROVE  u \in PlanesIn(s, c)
    <3>1. PICK m \in 1 .. l : \E j \in 1 .. Len(bufs[m]) : u = s[bufs[m][j]]
      BY <1>1, <2>2, PlanesInFacts
    <3>2. m # d
      BY <2>2, <3>1 DEF Named
    <3>3. PICK k \in 1 .. l - 1 : f[k] = m
      BY <1>5, <3>2
    <3>4. c[k] = bufs[m]
      BY <1>5, <3>3
    <3> QED
      BY <1>3, <3>1, <3>4, PlanesInFacts
  <2> QED
    BY <2>1, <2>2
<1>8. Named(s, bufs[d]) \subseteq PlanesIn(s, bufs)
  BY DEF PlanesIn
<1> QED
  BY <1>2, <1>3, <1>6, <1>7, <1>8

(***************************************************************************)
(* Who holds the buffers.                                                  *)
(***************************************************************************)

\* The parts of a consistent store.
LEMMA StoreFields ==
  ASSUME NEW h, NEW B, NEW T, NEW L, Store(h, B, T, L)
  PROVE  /\ HeapOK(h) /\ h \in HeapRec /\ h.ref \in [Buffer -> Nat]
         /\ h.maps \in [Buffer -> Nat] /\ h.gref \in [Group -> Nat]
         /\ h.grp \in [Group -> Seq(Buffer)] /\ h.bad \in BOOLEAN
         /\ B \in [Group -> Seq(Arrays)] /\ T \in [Request -> SettRec]
         /\ L \in [Buffer -> Nat]
  BY HeapFields DEF Store, StoreTypes, HeapOK

\* A buffer is a member of one group, once.
LEMMA SingleFacts ==
  ASSUME NEW G \in [Group -> Seq(Buffer)], Single(G)
  PROVE  /\ \A g \in Group : IsInjective(G[g])
         /\ \A g, q \in Group : \A u : u \in ToSet(G[g]) /\ u \in ToSet(G[q]) => g = q
<1>1. \A g \in Group : IsInjective(G[g])
  BY DEF Single, IsInjective
<1>2. ASSUME NEW g \in Group, NEW q \in Group, NEW u, u \in ToSet(G[g]), u \in ToSet(G[q])
      PROVE  g = q
  <2>1. PICK i \in DOMAIN G[g] : u = G[g][i]
    BY <1>2 DEF ToSet
  <2>2. PICK j \in DOMAIN G[q] : u = G[q][j]
    BY <1>2 DEF ToSet
  <2> QED
    BY <2>1, <2>2 DEF Single
<1> QED
  BY <1>1, <1>2

\* A plane belongs to the array of buffers of its group.
LEMMA PlaneFacts ==
  ASSUME NEW G \in [Group -> Seq(Buffer)], Single(G), NEW B,
         \A g \in Group : Inside(G[g], B[g])
  PROVE  /\ Planes(G, B) \subseteq Grouped(G)
         /\ \A g \in Group : \A u \in ToSet(G[g]) :
              u \in Planes(G, B) <=> u \in PlanesIn(G[g], B[g])
         /\ \A g \in Group : PlanesIn(G[g], B[g]) \subseteq ToSet(G[g])
<1>1. \A g \in Group : PlanesIn(G[g], B[g]) \subseteq ToSet(G[g])
  BY PlanesAreMembers
<1>2. Planes(G, B) \subseteq Grouped(G)
  BY <1>1 DEF Planes, Grouped
<1>3. ASSUME NEW g \in Group, NEW u \in ToSet(G[g]), u \in Planes(G, B)
      PROVE  u \in PlanesIn(G[g], B[g])
  <2>1. PICK q \in Group : u \in PlanesIn(G[q], B[q])
    BY <1>3 DEF Planes
  <2>2. u \in ToSet(G[q])
    BY <1>1, <2>1
  <2>3. q = g
    BY <2>2, SingleFacts
  <2> QED
    BY <2>1, <2>3
<1>4. ASSUME NEW g \in Group, NEW u, u \in PlanesIn(G[g], B[g]) PROVE u \in Planes(G, B)
  BY <1>4 DEF Planes
<1> QED
  BY <1>1, <1>2, <1>3, <1>4

\* A buffer without references has no holder.
LEMMA Unheld ==
  ASSUME NEW h, NEW B, NEW T, NEW L, Store(h, B, T, L), NEW u \in Buffer, h.ref[u] = 0
  PROVE  /\ u \notin Grouped(h.grp) /\ u \notin Planes(h.grp, B) /\ u \notin Setts(T)
         /\ h.maps[u] = 0 /\ L[u] = 0
<1>1. /\ h.ref[u] = One(u \in Grouped(h.grp)) + h.maps[u] + One(u \in Planes(h.grp, B))
                    + One(u \in Setts(T)) + L[u]
  BY DEF Store, Balanced
<1>2. h.maps[u] \in Nat /\ L[u] \in Nat
  BY StoreFields
<1> QED
  BY <1>1, <1>2 DEF One

\* A holder of settings holds a member of its group, and no other does.
LEMMA SettFacts ==
  ASSUME NEW h, NEW B, NEW T, NEW L, Store(h, B, T, L)
  PROVE  /\ Setts(T) \subseteq Grouped(h.grp)
         /\ \A r \in Request : T[r].held => T[r].at \in Setts(T) /\ T[r].at \in Buffer
         /\ \A r \in Request : \A q \in Group :
              T[r].held /\ T[r].at \in ToSet(h.grp[q]) => q = r
         /\ \A r, q \in Request : T[r].held /\ T[q].held /\ T[r].at = T[q].at => r = q
<1>1. Request \subseteq Group
  BY CsiAssumption
<1>2. \A r \in Request : T[r].held => T[r].at \in ToSet(h.grp[r])
  BY DEF Store
<1>3. h.grp \in [Group -> Seq(Buffer)] /\ Single(h.grp)
  BY StoreFields DEF Store
<1>4. \A r \in Request : T[r].held => T[r].at \in Buffer
  BY <1>1, <1>2, <1>3, ToSetFacts
<1>5. \A r \in Request : \A q \in Group :
        T[r].held /\ T[r].at \in ToSet(h.grp[q]) => q = r
  BY <1>1, <1>2, <1>3, SingleFacts
<1>6. \A r \in Request : T[r].held => T[r].at \in Setts(T)
  BY DEF Setts
<1>7. Setts(T) \subseteq Grouped(h.grp)
  BY <1>1, <1>2 DEF Setts, Grouped
<1> QED
  BY <1>1, <1>2, <1>4, <1>5, <1>6, <1>7

\* Buffers that nobody holds.
Unused(h, us) == \A u \in ToSet(us) : h.ref[u] = 0

\* From h to k the buffers us became members of q.
Extends(h, k, B, us, q) ==
  /\ HeapOK(k) /\ k.grp \in [Group -> Seq(Buffer)] /\ Single(k.grp)
  /\ Grouped(k.grp) = Grouped(h.grp) \cup ToSet(us)
  /\ \A g \in Group : /\ Inside(k.grp[g], B[g])
                      /\ PlanesIn(k.grp[g], B[g]) = PlanesIn(h.grp[g], B[g])
                      /\ ToSet(h.grp[g]) \subseteq ToSet(k.grp[g])
                      /\ g # q => k.grp[g] = h.grp[g]
  /\ k.grp[q] = h.grp[q] \o us
  /\ ToSet(k.grp[q]) = ToSet(h.grp[q]) \cup ToSet(us)
  /\ Planes(k.grp, B) = Planes(h.grp, B)

\* New members of a group: what the groups and the planes are then.
LEMMA Extended ==
  ASSUME NEW h, NEW k, NEW B, NEW T, NEW L, Store(h, B, T, L),
         NEW us \in Seq(Buffer), IsInjective(us), Unused(h, us),
         NEW q \in Group, NEW a, NEW b, Gave(h, k, us, q, a, b)
  PROVE  Extends(h, k, B, us, q)
<1>1. /\ h.grp \in [Group -> Seq(Buffer)] /\ Single(h.grp)
      /\ \A g \in Group : Inside(h.grp[g], B[g])
  BY StoreFields DEF Store
<1>2. HeapOK(k) /\ k.grp = [h.grp EXCEPT ![q] = h.grp[q] \o us]
  BY DEF Gave
<1>3. k.grp \in [Group -> Seq(Buffer)]
  BY <1>2, HeapFields DEF HeapOK
<1>4. k.grp[q] = h.grp[q] \o us /\ \A g \in Group : g # q => k.grp[g] = h.grp[g]
  BY <1>1, <1>2
<1>5. PICK s \in Seq(Buffer) : s = h.grp[q]
  BY <1>1
<1>6. PICK w \in Seq(Buffer) : w = k.grp[q]
  BY <1>3
<1>7. /\ Len(w) = Len(s) + Len(us) /\ DOMAIN w = 1 .. Len(s) + Len(us)
      /\ \A i \in 1 .. Len(s) : w[i] = s[i]
      /\ \A i \in 1 .. Len(us) : w[Len(s) + i] = us[i]
  BY <1>4, <1>5, <1>6, ConcatFacts
<1>8. PICK m \in Nat, n \in Nat :
        m = Len(s) /\ n = Len(us) /\ DOMAIN s = 1 .. m /\ DOMAIN us = 1 .. n
  BY <1>5, ToSetFacts
<1>9. \A x \in DOMAIN w : \/ x \in DOMAIN s /\ w[x] = s[x]
                          \/ \E i \in DOMAIN us : x = m + i /\ w[x] = us[i]
  <2> SUFFICES ASSUME NEW x \in DOMAIN w, x \notin DOMAIN s
               PROVE  \E i \in DOMAIN us : x = m + i /\ w[x] = us[i]
    BY <1>7, <1>8
  <2>1. x \in 1 .. m + n /\ x \notin 1 .. m
    BY <1>7, <1>8
  <2>2. x - m \in 1 .. n /\ x = m + (x - m)
    BY <1>8, <2>1
  <2>3. w[m + (x - m)] = us[x - m]
    BY <1>7, <1>8, <2>2
  <2> QED
    BY <1>8, <2>2, <2>3
<1>10. ToSet(w) = ToSet(s) \cup ToSet(us)
  <2>1. ToSet(w) \subseteq ToSet(s) \cup ToSet(us)
    BY <1>9 DEF ToSet
  <2>2. ToSet(s) \subseteq ToSet(w)
    <3>1. \A i \in DOMAIN s : i \in DOMAIN w /\ w[i] = s[i]
      BY <1>7, <1>8
    <3> QED
      BY <3>1 DEF ToSet
  <2>3. ToSet(us) \subseteq ToSet(w)
    <3>1. ASSUME NEW i \in DOMAIN us PROVE m + i \in DOMAIN w /\ w[m + i] = us[i]
      <4>1. i \in 1 .. n /\ m + i \in 1 .. m + n
        BY <1>8
      <4> QED
        BY <1>7, <1>8, <4>1
    <3> QED
      BY <3>1 DEF ToSet
  <2> QED
    BY <2>1, <2>2, <2>3
<1>11. \A g \in Group : ToSet(h.grp[g]) \cap ToSet(us) = {}
  <2> SUFFICES ASSUME NEW g \in Group, NEW u, u \in ToSet(h.grp[g]), u \in ToSet(us)
               PROVE  FALSE
    OBVIOUS
  <2>1. u \in Buffer /\ h.ref[u] = 0
    BY ToSetFacts DEF Unused
  <2>2. u \in Grouped(h.grp)
    BY DEF Grouped
  <2> QED
    BY <2>1, <2>2, Unheld
<1>12. Grouped(k.grp) = Grouped(h.grp) \cup ToSet(us)
  <2>1. \A g \in Group : ToSet(k.grp[g]) = IF g = q THEN ToSet(h.grp[g]) \cup ToSet(us)
                                           ELSE ToSet(h.grp[g])
    BY <1>4, <1>5, <1>6, <1>10
  <2> QED
    BY <2>1 DEF Grouped
<1>13. \A g \in Group : /\ Inside(k.grp[g], B[g])
                        /\ PlanesIn(k.grp[g], B[g]) = PlanesIn(h.grp[g], B[g])
  <2>1. Inside(k.grp[q], B[q]) /\ PlanesIn(k.grp[q], B[q]) = PlanesIn(h.grp[q], B[q])
    <3>1. Inside(s, B[q]) /\ w = s \o us
      BY <1>1, <1>4, <1>5, <1>6
    <3>2. PlanesIn(w, B[q]) = PlanesIn(s, B[q]) /\ Inside(w, B[q])
      BY <3>1, PlanesKept
    <3> QED
      BY <1>5, <1>6, <3>2
  <2> QED
    BY <1>1, <1>4, <2>1
<1>14. Single(k.grp)
  <2> SUFFICES ASSUME NEW g \in Group, NEW p \in Group, NEW i \in DOMAIN k.grp[g],
                      NEW j \in DOMAIN k.grp[p], k.grp[g][i] = k.grp[p][j]
               PROVE  g = p /\ i = j
    BY DEF Single
  <2>1. ASSUME NEW x \in Group, NEW y \in DOMAIN k.grp[x]
        PROVE  \/ y \in DOMAIN h.grp[x] /\ k.grp[x][y] = h.grp[x][y]
               \/ x = q /\ \E z \in DOMAIN us : y = m + z /\ k.grp[x][y] = us[z]
    BY <1>4, <1>5, <1>6, <1>9
  <2>2. CASE /\ i \in DOMAIN h.grp[g] /\ k.grp[g][i] = h.grp[g][i]
             /\ j \in DOMAIN h.grp[p] /\ k.grp[p][j] = h.grp[p][j]
    <3>1. \A x, y \in Group : \A e \in DOMAIN h.grp[x], f \in DOMAIN h.grp[y] :
            h.grp[x][e] = h.grp[y][f] => x = y /\ e = f
      BY <1>1 DEF Single
    <3>2. h.grp[g][i] = h.grp[p][j]
      BY <2>2
    <3> QED
      BY <2>2, <3>1, <3>2
  <2>3. CASE /\ g = q /\ \E z \in DOMAIN us : i = m + z /\ k.grp[g][i] = us[z]
             /\ p = q /\ \E z \in DOMAIN us : j = m + z /\ k.grp[p][j] = us[z]
    BY <2>3 DEF IsInjective
  <2>4. CASE /\ g = q /\ \E z \in DOMAIN us : i = m + z /\ k.grp[g][i] = us[z]
             /\ j \in DOMAIN h.grp[p] /\ k.grp[p][j] = h.grp[p][j]
    <3>1. k.grp[g][i] \in ToSet(us) /\ k.grp[p][j] \in ToSet(h.grp[p])
      BY <2>4 DEF ToSet
    <3> QED
      BY <1>11, <3>1
  <2>5. CASE /\ p = q /\ \E z \in DOMAIN us : j = m + z /\ k.grp[p][j] = us[z]
             /\ i \in DOMAIN h.grp[g] /\ k.grp[g][i] = h.grp[g][i]
    <3>1. k.grp[p][j] \in ToSet(us) /\ k.grp[g][i] \in ToSet(h.grp[g])
      BY <2>5 DEF ToSet
    <3> QED
      BY <1>11, <3>1
  <2> QED
    BY <2>1, <2>2, <2>3, <2>4, <2>5
<1>15. Planes(k.grp, B) = Planes(h.grp, B)
  BY <1>13 DEF Planes
<1>16. \A g \in Group : ToSet(h.grp[g]) \subseteq ToSet(k.grp[g])
  BY <1>4, <1>5, <1>6, <1>10
<1> QED
  BY <1>2, <1>3, <1>4, <1>5, <1>6, <1>10, <1>12, <1>13, <1>14, <1>15, <1>16 DEF Extends

(***************************************************************************)
(* Buffers come.                                                           *)
(***************************************************************************)

\* A buffer with new planes.
LEMMA StoreAdd ==
  ASSUME NEW h, NEW k, NEW B, NEW T, NEW L, Store(h, B, T, L),
         NEW us \in Seq(Buffer), IsInjective(us), Unused(h, us),
         NEW q \in Group, Gave(h, k, us, q, 3, 1), Len(us) <= MaxPlanes,
         NEW C, C = [B EXCEPT ![q] = Append(B[q], NextOf(h.grp[q], us))]
  PROVE  Store(k, C, T, L)
<1>1. /\ HeapOK(k) /\ k.grp \in [Group -> Seq(Buffer)] /\ Single(k.grp)
      /\ Grouped(k.grp) = Grouped(h.grp) \cup ToSet(us)
      /\ \A g \in Group : /\ Inside(k.grp[g], B[g])
                          /\ PlanesIn(k.grp[g], B[g]) = PlanesIn(h.grp[g], B[g])
                          /\ ToSet(h.grp[g]) \subseteq ToSet(k.grp[g])
                          /\ g # q => k.grp[g] = h.grp[g]
      /\ k.grp[q] = h.grp[q] \o us
      /\ ToSet(k.grp[q]) = ToSet(h.grp[q]) \cup ToSet(us)
      /\ Planes(k.grp, B) = Planes(h.grp, B)
  <2>1. PICK a, b : a = 3 /\ b = 1
    OBVIOUS
  <2>2. Gave(h, k, us, q, a, b)
    BY <2>1
  <2>3. Extends(h, k, B, us, q)
    BY <2>2, Extended
  <2> QED
    BY <2>3 DEF Extends
<1>2. /\ HeapOK(h) /\ h.ref \in [Buffer -> Nat] /\ h.maps \in [Buffer -> Nat]
      /\ h.grp \in [Group -> Seq(Buffer)]
      /\ B \in [Group -> Seq(Arrays)] /\ T \in [Request -> SettRec] /\ L \in [Buffer -> Nat]
      /\ Single(h.grp) /\ \A g \in Group : Inside(h.grp[g], B[g])
  BY StoreFields DEF Store
<1>3. /\ k.ref = [u \in Buffer |-> IF u \in ToSet(us) THEN 3 ELSE h.ref[u]]
      /\ k.maps = [u \in Buffer |-> IF u \in ToSet(us) THEN h.maps[u] + 1 ELSE h.maps[u]]
  BY DEF Gave
<1>4. /\ C[q] \in Seq(Arrays) /\ Inside(k.grp[q], C[q])
      /\ PlanesIn(k.grp[q], C[q]) = PlanesIn(k.grp[q], B[q]) \cup ToSet(us)
  <2>1. PICK s \in Seq(Buffer) : s = h.grp[q]
    BY <1>2
  <2>2. PICK bufs \in Seq(Arrays) : bufs = B[q]
    BY <1>2
  <2>3. PICK is : is = NextOf(s, us)
    OBVIOUS
  <2>4. C[q] = Append(bufs, is) /\ k.grp[q] = s \o us /\ Inside(s, bufs)
    BY <1>1, <1>2, <2>1, <2>2, <2>3
  <2>5. /\ Append(bufs, is) \in Seq(Arrays) /\ Inside(s \o us, Append(bufs, is))
        /\ PlanesIn(s \o us, Append(bufs, is)) = PlanesIn(s, bufs) \cup ToSet(us)
    BY <2>3, <2>4, PlanesAppended
  <2>6. PlanesIn(k.grp[q], B[q]) = PlanesIn(s, bufs)
    BY <1>1, <2>1, <2>2
  <2> QED
    BY <2>4, <2>5, <2>6
<1>5. \A g \in Group : g # q => C[g] = B[g]
  BY <1>2
<1>6. C \in [Group -> Seq(Arrays)]
  BY <1>2, <1>4
<1>7. \A g \in Group : Inside(k.grp[g], C[g])
  BY <1>1, <1>4, <1>5
<1>8. Planes(k.grp, C) = Planes(h.grp, B) \cup ToSet(us)
  <2>1. ASSUME NEW u
        PROVE  u \in Planes(k.grp, C) <=> u \in Planes(k.grp, B) \/ u \in ToSet(us)
    <3>1. u \in Planes(k.grp, C) <=> \E g \in Group : u \in PlanesIn(k.grp[g], C[g])
      BY DEF Planes
    <3>2. u \in Planes(k.grp, B) <=> \E g \in Group : u \in PlanesIn(k.grp[g], B[g])
      BY DEF Planes
    <3>3. \A g \in Group : g # q => PlanesIn(k.grp[g], C[g]) = PlanesIn(k.grp[g], B[g])
      BY <1>5
    <3>4. u \in PlanesIn(k.grp[q], C[q]) <=> u \in PlanesIn(k.grp[q], B[q]) \/ u \in ToSet(us)
      BY <1>4
    <3> QED
      BY <3>1, <3>2, <3>3, <3>4
  <2>2. Planes(k.grp, C) = Planes(k.grp, B) \cup ToSet(us)
    BY <2>1
  <2> QED
    BY <1>1, <2>2
<1>9. \A u \in ToSet(us) : /\ u \in Buffer /\ u \notin Grouped(h.grp) /\ u \notin Planes(h.grp, B)
                           /\ u \notin Setts(T) /\ h.maps[u] = 0 /\ L[u] = 0
  BY ToSetFacts, Unheld DEF Unused
<1>10. Balanced(k, C, T, L)
  <2> SUFFICES ASSUME NEW u \in Buffer
               PROVE  /\ k.ref[u] = One(u \in Grouped(k.grp)) + k.maps[u]
                           + One(u \in Planes(k.grp, C)) + One(u \in Setts(T)) + L[u]
                      /\ k.maps[u] >= One(u \in Planes(k.grp, C))
    BY DEF Balanced
  <2>1. CASE u \in ToSet(us)
    <3>1. k.ref[u] = 3 /\ k.maps[u] = 1 /\ L[u] = 0
      BY <1>3, <1>9, <2>1
    <3>2. u \in Grouped(k.grp) /\ u \in Planes(k.grp, C) /\ u \notin Setts(T)
      BY <1>1, <1>8, <1>9, <2>1
    <3> QED
      BY <3>1, <3>2 DEF One
  <2>2. CASE u \notin ToSet(us)
    <3>1. k.ref[u] = h.ref[u] /\ k.maps[u] = h.maps[u]
      BY <1>3, <2>2
    <3>2. /\ u \in Grouped(k.grp) <=> u \in Grouped(h.grp)
          /\ u \in Planes(k.grp, C) <=> u \in Planes(h.grp, B)
      BY <1>1, <1>8, <2>2
    <3>3. /\ h.ref[u] = One(u \in Grouped(h.grp)) + h.maps[u]
               + One(u \in Planes(h.grp, B)) + One(u \in Setts(T)) + L[u]
          /\ h.maps[u] >= One(u \in Planes(h.grp, B))
      BY DEF Store, Balanced
    <3> QED
      BY <3>1, <3>2, <3>3 DEF One
  <2> QED
    BY <2>1, <2>2
<1>11. Stale(k, C, T, L)
  <2> SUFFICES ASSUME NEW r \in Request, ~T[r].held, T[r].at \in ToSet(k.grp[r])
               PROVE  L[T[r].at] = 0 /\ k.maps[T[r].at] = One(T[r].at \in Planes(k.grp, C))
    BY DEF Stale
  <2>0. PICK u : u = T[r].at
    OBVIOUS
  <2>1. r \in Group
    BY CsiAssumption
  <2>2. CASE u \in ToSet(us)
    <3>1. k.maps[u] = 1 /\ L[u] = 0 /\ u \in Planes(k.grp, C)
      <4>1. u \in Buffer /\ h.maps[u] = 0 /\ L[u] = 0
        BY <1>9, <2>2
      <4>2. k.maps[u] = h.maps[u] + 1
        BY <1>3, <2>2, <4>1
      <4>3. k.maps[u] = 1
        BY <4>1, <4>2
      <4>4. u \in Planes(k.grp, C)
        BY <1>8, <2>2
      <4> QED
        BY <4>1, <4>3, <4>4
    <3> QED
      BY <2>0, <3>1 DEF One
  <2>3. CASE u \notin ToSet(us)
    <3>1. u \in ToSet(h.grp[r])
      BY <1>1, <2>0, <2>1, <2>3
    <3>2. u \in Buffer
      BY <1>2, <2>1, <3>1, ToSetFacts
    <3>3. L[u] = 0 /\ h.maps[u] = One(u \in Planes(h.grp, B))
      BY <2>0, <3>1 DEF Store, Stale
    <3>4. k.maps[u] = h.maps[u]
      BY <1>3, <2>3, <3>2
    <3>5. u \in Planes(k.grp, C) <=> u \in Planes(h.grp, B)
      BY <1>8, <2>3
    <3> QED
      BY <2>0, <3>3, <3>4, <3>5 DEF One
  <2> QED
    BY <2>2, <2>3
<1>12. k.maps \in [Buffer -> Nat]
  BY <1>2, <1>3
<1>13. \A r \in Request : T[r].held => T[r].at \in ToSet(k.grp[r])
  BY <1>1, CsiAssumption DEF Store
<1> QED
  BY <1>1, <1>2, <1>6, <1>7, <1>10, <1>11, <1>12, <1>13 DEF Store, StoreTypes

\* New members of a group with the group's reference and, for a settings
\* buffer, the creator's.
LEMMA StoreMember ==
  ASSUME NEW h, NEW k, NEW B, NEW T, NEW L, Store(h, B, T, L),
         NEW us \in Seq(Buffer), IsInjective(us), Unused(h, us),
         NEW q \in Group, Gave(h, k, us, q, 1, 0)
  PROVE  Store(k, B, T, L)
<1>1. /\ HeapOK(k) /\ k.grp \in [Group -> Seq(Buffer)] /\ Single(k.grp)
      /\ Grouped(k.grp) = Grouped(h.grp) \cup ToSet(us)
      /\ \A g \in Group : /\ Inside(k.grp[g], B[g])
                          /\ PlanesIn(k.grp[g], B[g]) = PlanesIn(h.grp[g], B[g])
                          /\ ToSet(h.grp[g]) \subseteq ToSet(k.grp[g])
                          /\ g # q => k.grp[g] = h.grp[g]
      /\ k.grp[q] = h.grp[q] \o us
      /\ ToSet(k.grp[q]) = ToSet(h.grp[q]) \cup ToSet(us)
      /\ Planes(k.grp, B) = Planes(h.grp, B)
  <2>1. PICK a, b : a = 1 /\ b = 0
    OBVIOUS
  <2>2. Gave(h, k, us, q, a, b)
    BY <2>1
  <2>3. Extends(h, k, B, us, q)
    BY <2>2, Extended
  <2> QED
    BY <2>3 DEF Extends
<1>2. /\ HeapOK(h) /\ h.ref \in [Buffer -> Nat] /\ h.maps \in [Buffer -> Nat]
      /\ h.grp \in [Group -> Seq(Buffer)]
      /\ B \in [Group -> Seq(Arrays)] /\ T \in [Request -> SettRec] /\ L \in [Buffer -> Nat]
      /\ Single(h.grp) /\ \A g \in Group : Inside(h.grp[g], B[g])
  BY StoreFields DEF Store
<1>3. /\ k.ref = [u \in Buffer |-> IF u \in ToSet(us) THEN 1 ELSE h.ref[u]]
      /\ k.maps = [u \in Buffer |-> IF u \in ToSet(us) THEN h.maps[u] + 0 ELSE h.maps[u]]
  BY DEF Gave
<1>4. k.maps = h.maps
  BY <1>2, <1>3
<1>9. \A u \in ToSet(us) : /\ u \in Buffer /\ u \notin Grouped(h.grp) /\ u \notin Planes(h.grp, B)
                           /\ u \notin Setts(T) /\ h.maps[u] = 0 /\ L[u] = 0
  BY ToSetFacts, Unheld DEF Unused
<1>10. Balanced(k, B, T, L)
  <2> SUFFICES ASSUME NEW u \in Buffer
               PROVE  /\ k.ref[u] = One(u \in Grouped(k.grp)) + k.maps[u]
                           + One(u \in Planes(k.grp, B)) + One(u \in Setts(T)) + L[u]
                      /\ k.maps[u] >= One(u \in Planes(k.grp, B))
    BY DEF Balanced
  <2>1. CASE u \in ToSet(us)
    <3>1. k.ref[u] = 1 /\ k.maps[u] = 0 /\ L[u] = 0
      BY <1>3, <1>4, <1>9, <2>1
    <3>2. u \in Grouped(k.grp) /\ u \notin Planes(k.grp, B) /\ u \notin Setts(T)
      BY <1>1, <1>9, <2>1
    <3> QED
      BY <3>1, <3>2 DEF One
  <2>2. CASE u \notin ToSet(us)
    <3>1. k.ref[u] = h.ref[u] /\ k.maps[u] = h.maps[u]
      BY <1>3, <1>4, <2>2
    <3>2. /\ u \in Grouped(k.grp) <=> u \in Grouped(h.grp)
          /\ u \in Planes(k.grp, B) <=> u \in Planes(h.grp, B)
      BY <1>1, <2>2
    <3>3. /\ h.ref[u] = One(u \in Grouped(h.grp)) + h.maps[u]
               + One(u \in Planes(h.grp, B)) + One(u \in Setts(T)) + L[u]
          /\ h.maps[u] >= One(u \in Planes(h.grp, B))
      BY DEF Store, Balanced
    <3> QED
      BY <3>1, <3>2, <3>3 DEF One
  <2> QED
    BY <2>1, <2>2
<1>11. Stale(k, B, T, L)
  <2> SUFFICES ASSUME NEW r \in Request, ~T[r].held, T[r].at \in ToSet(k.grp[r])
               PROVE  L[T[r].at] = 0 /\ k.maps[T[r].at] = One(T[r].at \in Planes(k.grp, B))
    BY DEF Stale
  <2>0. PICK u : u = T[r].at
    OBVIOUS
  <2>1. r \in Group
    BY CsiAssumption
  <2>2. CASE u \in ToSet(us)
    <3>1. k.maps[u] = 0 /\ L[u] = 0 /\ u \notin Planes(k.grp, B)
      BY <1>1, <1>4, <1>9, <2>2
    <3> QED
      BY <2>0, <3>1 DEF One
  <2>3. CASE u \notin ToSet(us)
    <3>1. u \in ToSet(h.grp[r])
      BY <1>1, <2>0, <2>1, <2>3
    <3>3. L[u] = 0 /\ h.maps[u] = One(u \in Planes(h.grp, B))
      BY <2>0, <3>1 DEF Store, Stale
    <3> QED
      BY <1>1, <1>4, <2>0, <3>3
  <2> QED
    BY <2>2, <2>3
<1>13. \A r \in Request : T[r].held => T[r].at \in ToSet(k.grp[r])
  BY <1>1, CsiAssumption DEF Store
<1> QED
  BY <1>1, <1>2, <1>4, <1>10, <1>11, <1>13 DEF Store, StoreTypes

(***************************************************************************)
(* Holders go.                                                             *)
(***************************************************************************)

\* Only the counts and the groups of the heap matter.
LEMMA StoreSame ==
  ASSUME NEW h, NEW k, NEW B, NEW T, NEW L, Store(h, B, T, L),
         HeapOK(k), k.ref = h.ref, k.maps = h.maps, k.grp = h.grp
  PROVE  Store(k, B, T, L)
  BY DEF Store, StoreTypes, Balanced, Stale

\* The account of one buffer.
LEMMA Account ==
  ASSUME NEW h, NEW B, NEW T, NEW L, Store(h, B, T, L), NEW u \in Buffer
  PROVE  /\ h.ref[u] = One(u \in Grouped(h.grp)) + h.maps[u]
              + One(u \in Planes(h.grp, B)) + One(u \in Setts(T)) + L[u]
         /\ h.maps[u] >= One(u \in Planes(h.grp, B))
         /\ h.ref[u] \in Nat /\ h.maps[u] \in Nat /\ L[u] \in Nat
         /\ u \in Planes(h.grp, B) => u \in Grouped(h.grp)
         /\ u \in Setts(T) => u \in Grouped(h.grp)
<1>1. h.ref[u] \in Nat /\ h.maps[u] \in Nat /\ L[u] \in Nat
  BY StoreFields
<1>2. Setts(T) \subseteq Grouped(h.grp)
  BY SettFacts
<1>3. Planes(h.grp, B) \subseteq Grouped(h.grp)
  <2>1. /\ h.grp \in [Group -> Seq(Buffer)] /\ Single(h.grp)
        /\ \A g \in Group : Inside(h.grp[g], B[g])
    BY StoreFields DEF Store
  <2> QED
    BY <2>1, PlaneFacts
<1> QED
  BY <1>1, <1>2, <1>3 DEF Store, Balanced

\* Earlier settings are forgotten.
LEMMA StoreForget ==
  ASSUME NEW h, NEW B, NEW T, NEW L, Store(h, B, T, L), NEW r \in Request,
         NEW x \in Buffer \cup {Nil}, x \notin ToSet(h.grp[r]),
         NEW X, X = [T EXCEPT ![r] = [at |-> x, held |-> FALSE]],
         NEW M, M = IF T[r].held THEN [L EXCEPT ![T[r].at] = L[T[r].at] + 1] ELSE L
  PROVE  Store(h, B, X, M)
<1>1. /\ HeapOK(h) /\ h.ref \in [Buffer -> Nat] /\ h.maps \in [Buffer -> Nat]
      /\ h.grp \in [Group -> Seq(Buffer)]
      /\ B \in [Group -> Seq(Arrays)] /\ T \in [Request -> SettRec] /\ L \in [Buffer -> Nat]
  BY StoreFields
<1>2. PICK rec : rec = [at |-> x, held |-> FALSE]
  OBVIOUS
<1>3. rec \in SettRec /\ rec.at = x /\ rec.held = FALSE
  BY <1>2 DEF SettRec
<1>4. X \in [Request -> SettRec] /\ X[r] = rec /\ \A q \in Request : q # r => X[q] = T[q]
  BY <1>1, <1>2, <1>3
<1>5. PICK v : v = T[r].at
  OBVIOUS
<1>6. T[r].held => v \in Buffer /\ v \in Setts(T)
                   /\ \A q \in Request : T[q].held /\ T[q].at = v => q = r
  BY <1>5, SettFacts
<1>7. /\ M \in [Buffer -> Nat]
      /\ \A u \in Buffer : M[u] = IF T[r].held /\ u = v THEN L[u] + 1 ELSE L[u]
  BY <1>1, <1>5, <1>6
<1>8. \A u : u \in Setts(X) <=> u \in Setts(T) /\ ~(T[r].held /\ u = v)
  <2>1. ASSUME NEW u, u \in Setts(X) PROVE u \in Setts(T) /\ ~(T[r].held /\ u = v)
    <3>1. PICK q \in Request : X[q].held /\ u = X[q].at
      BY <2>1 DEF Setts
    <3>2. q # r /\ T[q].held /\ u = T[q].at
      BY <1>3, <1>4, <3>1
    <3> QED
      BY <1>6, <3>2 DEF Setts
  <2>2. ASSUME NEW u, u \in Setts(T), ~(T[r].held /\ u = v) PROVE u \in Setts(X)
    <3>1. PICK q \in Request : T[q].held /\ u = T[q].at
      BY <2>2 DEF Setts
    <3>2. q # r
      BY <1>5, <2>2, <3>1
    <3> QED
      BY <1>4, <3>1, <3>2 DEF Setts
  <2> QED
    BY <2>1, <2>2
<1>9. Balanced(h, B, X, M)
  <2> SUFFICES ASSUME NEW u \in Buffer
               PROVE  /\ h.ref[u] = One(u \in Grouped(h.grp)) + h.maps[u]
                           + One(u \in Planes(h.grp, B)) + One(u \in Setts(X)) + M[u]
                      /\ h.maps[u] >= One(u \in Planes(h.grp, B))
    BY DEF Balanced
  <2>1. /\ h.ref[u] = One(u \in Grouped(h.grp)) + h.maps[u]
             + One(u \in Planes(h.grp, B)) + One(u \in Setts(T)) + L[u]
        /\ h.maps[u] >= One(u \in Planes(h.grp, B))
        /\ h.maps[u] \in Nat /\ L[u] \in Nat
    BY Account
  <2>2. CASE T[r].held /\ u = v
    <3>1. u \in Setts(T) /\ u \notin Setts(X) /\ M[u] = L[u] + 1
      BY <1>6, <1>7, <1>8, <2>2
    <3> QED
      BY <2>1, <3>1 DEF One
  <2>3. CASE ~(T[r].held /\ u = v)
    <3>1. (u \in Setts(X) <=> u \in Setts(T)) /\ M[u] = L[u]
      BY <1>7, <1>8, <2>3
    <3> QED
      BY <2>1, <3>1 DEF One
  <2> QED
    BY <2>2, <2>3
<1>10. Stale(h, B, X, M)
  <2> SUFFICES ASSUME NEW q \in Request, ~X[q].held, X[q].at \in ToSet(h.grp[q])
               PROVE  M[X[q].at] = 0 /\ h.maps[X[q].at] = One(X[q].at \in Planes(h.grp, B))
    BY DEF Stale
  <2>1. q # r
    BY <1>3, <1>4
  <2>2. X[q] = T[q]
    BY <1>4, <2>1
  <2>3. L[T[q].at] = 0 /\ h.maps[T[q].at] = One(T[q].at \in Planes(h.grp, B))
    BY <2>2 DEF Store, Stale
  <2>4. q \in Group /\ T[q].at \in ToSet(h.grp[q])
    BY <2>2, CsiAssumption
  <2>5. T[q].at \in Buffer
    BY <1>1, <2>4, ToSetFacts
  <2>6. ~(T[r].held /\ T[q].at = v)
    BY <1>5, <2>1, <2>4, SettFacts
  <2>7. M[T[q].at] = L[T[q].at]
    BY <1>7, <2>5, <2>6
  <2> QED
    BY <2>2, <2>3, <2>7
<1>11. \A q \in Request : X[q].held => X[q].at \in ToSet(h.grp[q])
  BY <1>3, <1>4 DEF Store
<1> QED
  BY <1>1, <1>4, <1>7, <1>9, <1>10, <1>11 DEF Store, StoreTypes

\* A new settings buffer, held by the request and a member of its group.
LEMMA StoreSett ==
  ASSUME NEW h, NEW k, NEW B, NEW T, NEW L, Store(h, B, T, L), NEW r \in Request,
         ~T[r].held, NEW u \in Buffer, h.ref[u] = 0,
         NEW us \in Seq(Buffer), us = <<u>>, Gave(h, k, us, r, 2, 0),
         NEW X, X = [T EXCEPT ![r] = [at |-> u, held |-> TRUE]]
  PROVE  Store(k, B, X, L)
<1>0. r \in Group
  BY CsiAssumption
<1>1. IsInjective(us) /\ ToSet(us) = {u}
  BY DEF IsInjective, ToSet
<1>2. Unused(h, us)
  BY <1>1 DEF Unused
<1>3. Extends(h, k, B, us, r)
  <2>1. PICK a, b : a = 2 /\ b = 0
    OBVIOUS
  <2>2. Gave(h, k, us, r, a, b)
    BY <2>1
  <2> QED
    BY <1>0, <1>1, <1>2, <2>2, Extended
<1>4. /\ HeapOK(k) /\ k.grp \in [Group -> Seq(Buffer)] /\ Single(k.grp)
      /\ \A w : w \in Grouped(k.grp) <=> w \in Grouped(h.grp) \/ w = u
      /\ \A g \in Group : /\ Inside(k.grp[g], B[g])
                          /\ ToSet(h.grp[g]) \subseteq ToSet(k.grp[g])
                          /\ g # r => k.grp[g] = h.grp[g]
      /\ ToSet(k.grp[r]) = ToSet(h.grp[r]) \cup {u}
      /\ Planes(k.grp, B) = Planes(h.grp, B)
  BY <1>1, <1>3 DEF Extends
<1>5. /\ HeapOK(h) /\ h.ref \in [Buffer -> Nat] /\ h.maps \in [Buffer -> Nat]
      /\ h.grp \in [Group -> Seq(Buffer)]
      /\ B \in [Group -> Seq(Arrays)] /\ T \in [Request -> SettRec] /\ L \in [Buffer -> Nat]
  BY StoreFields
<1>6. /\ k.ref[u] = 2 /\ \A w \in Buffer : w # u => k.ref[w] = h.ref[w]
      /\ k.maps = h.maps
  <2>1. /\ k.ref = [w \in Buffer |-> IF w \in ToSet(us) THEN 2 ELSE h.ref[w]]
        /\ k.maps = [w \in Buffer |-> IF w \in ToSet(us) THEN h.maps[w] + 0 ELSE h.maps[w]]
    BY DEF Gave
  <2> QED
    BY <1>1, <1>5, <2>1
<1>7. /\ u \notin Grouped(h.grp) /\ u \notin Planes(h.grp, B) /\ u \notin Setts(T)
      /\ h.maps[u] = 0 /\ L[u] = 0
  BY Unheld
<1>8. PICK rec : rec = [at |-> u, held |-> TRUE]
  OBVIOUS
<1>9. rec \in SettRec /\ rec.at = u /\ rec.held = TRUE
  BY <1>8 DEF SettRec
<1>10. X \in [Request -> SettRec] /\ X[r] = rec /\ \A q \in Request : q # r => X[q] = T[q]
  BY <1>5, <1>8, <1>9
<1>11. \A w : w \in Setts(X) <=> w \in Setts(T) \/ w = u
  <2>1. ASSUME NEW w, w \in Setts(X), w # u PROVE w \in Setts(T)
    <3>1. PICK q \in Request : X[q].held /\ w = X[q].at
      BY <2>1 DEF Setts
    <3>2. q # r
      BY <1>9, <1>10, <2>1, <3>1
    <3> QED
      BY <1>10, <3>1, <3>2 DEF Setts
  <2>2. ASSUME NEW w, w \in Setts(T) PROVE w \in Setts(X)
    <3>1. PICK q \in Request : T[q].held /\ w = T[q].at
      BY <2>2 DEF Setts
    <3>2. q # r
      BY <3>1
    <3> QED
      BY <1>10, <3>1, <3>2 DEF Setts
  <2>3. u \in Setts(X)
    BY <1>9, <1>10 DEF Setts
  <2> QED
    BY <2>1, <2>2, <2>3
<1>12. Balanced(k, B, X, L)
  <2> SUFFICES ASSUME NEW w \in Buffer
               PROVE  /\ k.ref[w] = One(w \in Grouped(k.grp)) + k.maps[w]
                           + One(w \in Planes(k.grp, B)) + One(w \in Setts(X)) + L[w]
                      /\ k.maps[w] >= One(w \in Planes(k.grp, B))
    BY DEF Balanced
  <2>1. CASE w = u
    <3>1. k.ref[w] = 2 /\ k.maps[w] = 0 /\ L[w] = 0
      BY <1>6, <1>7, <2>1
    <3>2. w \in Grouped(k.grp) /\ w \notin Planes(k.grp, B) /\ w \in Setts(X)
      BY <1>4, <1>7, <1>11, <2>1
    <3> QED
      BY <3>1, <3>2 DEF One
  <2>2. CASE w # u
    <3>1. /\ h.ref[w] = One(w \in Grouped(h.grp)) + h.maps[w]
               + One(w \in Planes(h.grp, B)) + One(w \in Setts(T)) + L[w]
          /\ h.maps[w] >= One(w \in Planes(h.grp, B))
      BY Account
    <3>2. k.ref[w] = h.ref[w] /\ k.maps[w] = h.maps[w]
      BY <1>6, <2>2
    <3>3. /\ w \in Grouped(k.grp) <=> w \in Grouped(h.grp)
          /\ w \in Planes(k.grp, B) <=> w \in Planes(h.grp, B)
          /\ w \in Setts(X) <=> w \in Setts(T)
      BY <1>4, <1>11, <2>2
    <3> QED
      BY <3>1, <3>2, <3>3 DEF One
  <2> QED
    BY <2>1, <2>2
<1>13. Stale(k, B, X, L)
  <2> SUFFICES ASSUME NEW q \in Request, ~X[q].held, X[q].at \in ToSet(k.grp[q])
               PROVE  L[X[q].at] = 0 /\ k.maps[X[q].at] = One(X[q].at \in Planes(k.grp, B))
    BY DEF Stale
  <2>1. q # r
    BY <1>9, <1>10
  <2>2. X[q] = T[q] /\ k.grp[q] = h.grp[q]
    BY <1>4, <1>10, <2>1, CsiAssumption
  <2>3. L[T[q].at] = 0 /\ h.maps[T[q].at] = One(T[q].at \in Planes(h.grp, B))
    BY <2>2 DEF Store, Stale
  <2> QED
    BY <1>4, <1>6, <2>2, <2>3
<1>14. \A q \in Request : X[q].held => X[q].at \in ToSet(k.grp[q])
  BY <1>4, <1>9, <1>10, CsiAssumption DEF Store
<1> QED
  BY <1>4, <1>5, <1>6, <1>10, <1>12, <1>13, <1>14 DEF Store, StoreTypes

\* An array without buffers or a group without members.
LEMMA EmptyOf ==
  ASSUME NEW S
  PROVE  \E e \in Seq(S) : e = <<>>
<1>1. <<>> \in Seq(S)
  BY EmptySeq
<1> QED
  BY <1>1

\* The arrays of buffers name members of their groups.
AllInside(G, B) == \A g \in Group : Inside(G[g], B[g])

\* The account of a buffer, for natural numbers.
LEMMA Sums ==
  /\ \A a, m, s, l \in Nat : (a + m + 1 + s + l) - 2 = a + (m - 1) + 0 + s + l
  /\ \A a, m, s, l \in Nat : a + m + 1 + s + l = a + m + 0 + s + (l + 1)
  /\ \A m, p, s, l \in Nat : (1 + m + p + s + l) - 1 = 0 + m + p + s + l
  OBVIOUS

\* The numbers that One stands for.
LEMMA OneFacts ==
  ASSUME NEW p
  PROVE  One(p) \in Nat /\ (p => One(p) = 1) /\ (~p => One(p) = 0)
  BY DEF One

\* The request's own reference to its settings buffer is dropped.
LEMMA StoreSettDrop ==
  ASSUME NEW h, NEW k, NEW B, NEW T, NEW L, Store(h, B, T, L), NEW r \in Request,
         T[r].held, NEW v, v = T[r].at, NEW V, V = {v}, Took(h, k, V, 1, 0),
         NEW X, X = [T EXCEPT ![r] = NoSett]
  PROVE  Store(k, B, X, L)
<1>1. /\ HeapOK(h) /\ h.ref \in [Buffer -> Nat] /\ h.maps \in [Buffer -> Nat]
      /\ h.grp \in [Group -> Seq(Buffer)]
      /\ B \in [Group -> Seq(Arrays)] /\ T \in [Request -> SettRec] /\ L \in [Buffer -> Nat]
  BY StoreFields
<1>2. /\ HeapOK(k) /\ k.grp = h.grp
      /\ k.ref = [u \in Buffer |-> IF u \in V THEN h.ref[u] - 1 ELSE h.ref[u]]
      /\ k.maps = [u \in Buffer |-> IF u \in V THEN h.maps[u] - 0 ELSE h.maps[u]]
  BY DEF Took
<1>3. /\ k.maps = h.maps
      /\ \A u \in Buffer : k.ref[u] = IF u = v THEN h.ref[u] - 1 ELSE h.ref[u]
  BY <1>1, <1>2
<1>4. NoSett \in SettRec /\ NoSett.at = Nil /\ NoSett.held = FALSE
  BY DEF NoSett, SettRec
<1>5. X \in [Request -> SettRec] /\ X[r] = NoSett /\ \A q \in Request : q # r => X[q] = T[q]
  BY <1>1, <1>4
<1>6. v \in Buffer /\ v \in Setts(T) /\ \A q \in Request : T[q].held /\ T[q].at = v => q = r
  BY SettFacts
<1>8. \A u : u \in Setts(X) <=> u \in Setts(T) /\ u # v
  <2>1. ASSUME NEW u, u \in Setts(X) PROVE u \in Setts(T) /\ u # v
    <3>1. PICK q \in Request : X[q].held /\ u = X[q].at
      BY <2>1 DEF Setts
    <3>2. q # r /\ T[q].held /\ u = T[q].at
      BY <1>4, <1>5, <3>1
    <3> QED
      BY <1>6, <3>2 DEF Setts
  <2>2. ASSUME NEW u, u \in Setts(T), u # v PROVE u \in Setts(X)
    <3>1. PICK q \in Request : T[q].held /\ u = T[q].at
      BY <2>2 DEF Setts
    <3>2. q # r
      BY <2>2, <3>1
    <3> QED
      BY <1>5, <3>1, <3>2 DEF Setts
  <2> QED
    BY <2>1, <2>2
<1>9. Balanced(k, B, X, L)
  <2> SUFFICES ASSUME NEW u \in Buffer
               PROVE  /\ k.ref[u] = One(u \in Grouped(h.grp)) + h.maps[u]
                           + One(u \in Planes(h.grp, B)) + One(u \in Setts(X)) + L[u]
                      /\ h.maps[u] >= One(u \in Planes(h.grp, B))
    BY <1>2, <1>3 DEF Balanced
  <2>1. /\ h.ref[u] = One(u \in Grouped(h.grp)) + h.maps[u]
             + One(u \in Planes(h.grp, B)) + One(u \in Setts(T)) + L[u]
        /\ h.maps[u] >= One(u \in Planes(h.grp, B))
        /\ h.maps[u] \in Nat /\ L[u] \in Nat
    BY Account
  <2>2. CASE u = v
    <3>1. u \in Setts(T) /\ u \notin Setts(X) /\ k.ref[u] = h.ref[u] - 1
      BY <1>3, <1>6, <1>8, <2>2
    <3> QED
      BY <2>1, <3>1 DEF One
  <2>3. CASE u # v
    <3>1. (u \in Setts(X) <=> u \in Setts(T)) /\ k.ref[u] = h.ref[u]
      BY <1>3, <1>8, <2>3
    <3> QED
      BY <2>1, <3>1 DEF One
  <2> QED
    BY <2>2, <2>3
<1>10. Stale(k, B, X, L)
  <2> SUFFICES ASSUME NEW q \in Request, ~X[q].held, X[q].at \in ToSet(h.grp[q])
               PROVE  L[X[q].at] = 0 /\ h.maps[X[q].at] = One(X[q].at \in Planes(h.grp, B))
    BY <1>2, <1>3 DEF Stale
  <2>1. q # r
    <3>1. Nil \notin ToSet(h.grp[q])
      BY <1>1, ToSetFacts, CsiAssumption
    <3> QED
      BY <1>4, <1>5, <3>1
  <2> QED
    BY <1>5, <2>1 DEF Store, Stale
<1>11. \A q \in Request : X[q].held => X[q].at \in ToSet(h.grp[q])
  BY <1>4, <1>5 DEF Store
<1>12. Single(k.grp) /\ \A g \in Group : Inside(k.grp[g], B[g])
  BY <1>2 DEF Store
<1> QED
  BY <1>1, <1>2, <1>3, <1>5, <1>9, <1>10, <1>11, <1>12 DEF Store, StoreTypes

\* The array of buffers of group q becomes c, without the planes X.
Loses(G, B, q, c, X, C) ==
  /\ Inside(G[q], c) /\ X \subseteq PlanesIn(G[q], B[q])
  /\ PlanesIn(G[q], c) = PlanesIn(G[q], B[q]) \ X
  /\ C = [B EXCEPT ![q] = c]

\* The arrays C are the arrays B without the planes X.
Fewer(G, B, X, C) ==
  /\ C \in [Group -> Seq(Arrays)] /\ AllInside(G, C)
  /\ Planes(G, C) = Planes(G, B) \ X /\ X \subseteq Planes(G, B)

\* The array of buffers of one group changes.
LEMMA PlanesChanged ==
  ASSUME NEW G \in [Group -> Seq(Buffer)], Single(G),
         NEW B \in [Group -> Seq(Arrays)], AllInside(G, B),
         NEW q \in Group, NEW c \in Seq(Arrays),
         NEW X, NEW C, Loses(G, B, q, c, X, C)
  PROVE  Fewer(G, B, X, C)
<1>0. /\ Inside(G[q], c) /\ X \subseteq PlanesIn(G[q], B[q])
      /\ PlanesIn(G[q], c) = PlanesIn(G[q], B[q]) \ X
      /\ C = [B EXCEPT ![q] = c]
  BY DEF Loses
<1>1. C[q] = c /\ \A g \in Group : g # q => C[g] = B[g]
  BY <1>0
<1>2. C \in [Group -> Seq(Arrays)] /\ AllInside(G, C)
  BY <1>0, <1>1 DEF AllInside
<1>3. \A g \in Group : PlanesIn(G[g], B[g]) \subseteq ToSet(G[g])
  BY PlaneFacts DEF AllInside
<1>4. ASSUME NEW u, u \in Planes(G, C) PROVE u \in Planes(G, B) /\ u \notin X
  <2>1. PICK g \in Group : u \in PlanesIn(G[g], C[g])
    BY <1>4 DEF Planes
  <2>2. CASE g = q
    BY <1>0, <1>1, <2>1, <2>2 DEF Planes
  <2>3. CASE g # q
    <3>1. u \in PlanesIn(G[g], B[g])
      BY <1>1, <2>1, <2>3
    <3>2. u \notin X
      BY <1>0, <1>3, <2>3, <3>1, SingleFacts
    <3> QED
      BY <3>1, <3>2 DEF Planes
  <2> QED
    BY <2>2, <2>3
<1>5. ASSUME NEW u, u \in Planes(G, B), u \notin X PROVE u \in Planes(G, C)
  <2>1. PICK g \in Group : u \in PlanesIn(G[g], B[g])
    BY <1>5 DEF Planes
  <2>2. u \in PlanesIn(G[g], C[g])
    BY <1>0, <1>1, <1>5, <2>1
  <2> QED
    BY <2>2 DEF Planes
<1>6. X \subseteq Planes(G, B)
  BY <1>0 DEF Planes
<1> QED
  BY <1>2, <1>4, <1>5, <1>6 DEF Fewer

\* Planes are given back.
LEMMA StoreFree ==
  ASSUME NEW h, NEW k, NEW B, NEW T, NEW L, Store(h, B, T, L),
         NEW X, Took(h, k, X, 2, 1), NEW C, Fewer(h.grp, B, X, C)
  PROVE  Store(k, C, T, L)
<1>0. /\ X \subseteq Planes(h.grp, B) /\ C \in [Group -> Seq(Arrays)] /\ AllInside(h.grp, C)
      /\ Planes(h.grp, C) = Planes(h.grp, B) \ X
  BY DEF Fewer
<1>1. /\ HeapOK(h) /\ h.ref \in [Buffer -> Nat] /\ h.maps \in [Buffer -> Nat]
      /\ h.grp \in [Group -> Seq(Buffer)]
      /\ B \in [Group -> Seq(Arrays)] /\ T \in [Request -> SettRec] /\ L \in [Buffer -> Nat]
  BY StoreFields
<1>2. /\ HeapOK(k) /\ k.grp = h.grp
      /\ k.ref = [u \in Buffer |-> IF u \in X THEN h.ref[u] - 2 ELSE h.ref[u]]
      /\ k.maps = [u \in Buffer |-> IF u \in X THEN h.maps[u] - 1 ELSE h.maps[u]]
  BY DEF Took
<1>3. ASSUME NEW u \in Buffer
      PROVE  /\ k.ref[u] = One(u \in Grouped(h.grp)) + k.maps[u]
                  + One(u \in Planes(h.grp, C)) + One(u \in Setts(T)) + L[u]
             /\ k.maps[u] >= One(u \in Planes(h.grp, C))
             /\ k.maps[u] \in Nat
  <2>1. /\ h.ref[u] = One(u \in Grouped(h.grp)) + h.maps[u]
             + One(u \in Planes(h.grp, B)) + One(u \in Setts(T)) + L[u]
        /\ h.maps[u] >= One(u \in Planes(h.grp, B))
        /\ h.maps[u] \in Nat /\ L[u] \in Nat
    BY Account
  <2>2. CASE u \in X
    <3>1. u \in Planes(h.grp, B) /\ u \notin Planes(h.grp, C)
      BY <1>0, <2>2
    <3>2. k.ref[u] = h.ref[u] - 2 /\ k.maps[u] = h.maps[u] - 1
      BY <1>2, <2>2
    <3> QED
      <4>1. PICK a \in Nat, s \in Nat : a = One(u \in Grouped(h.grp)) /\ s = One(u \in Setts(T))
        BY OneFacts
      <4>2. One(u \in Planes(h.grp, B)) = 1 /\ One(u \in Planes(h.grp, C)) = 0
        BY <3>1 DEF One
      <4>3. h.ref[u] = a + h.maps[u] + 1 + s + L[u] /\ h.maps[u] >= 1
        BY <2>1, <4>1, <4>2
      <4>4. k.ref[u] = a + (h.maps[u] - 1) + 0 + s + L[u]
        BY <2>1, <3>2, <4>1, <4>3, Sums
      <4> QED
        BY <2>1, <3>2, <4>1, <4>2, <4>3, <4>4
  <2>3. CASE u \notin X
    <3>1. u \in Planes(h.grp, C) <=> u \in Planes(h.grp, B)
      BY <1>0, <2>3
    <3>2. k.ref[u] = h.ref[u] /\ k.maps[u] = h.maps[u]
      BY <1>2, <2>3
    <3> QED
      BY <2>1, <3>1, <3>2 DEF One
  <2> QED
    BY <2>2, <2>3
<1>4. Balanced(k, C, T, L)
  BY <1>2, <1>3 DEF Balanced
<1>5. k.maps \in [Buffer -> Nat]
  BY <1>2, <1>3
<1>6. Stale(k, C, T, L)
  <2> SUFFICES ASSUME NEW r \in Request, ~T[r].held, T[r].at \in ToSet(h.grp[r])
               PROVE  L[T[r].at] = 0 /\ k.maps[T[r].at] = One(T[r].at \in Planes(h.grp, C))
    BY <1>2 DEF Stale
  <2>0. PICK u : u = T[r].at
    OBVIOUS
  <2>1. L[u] = 0 /\ h.maps[u] = One(u \in Planes(h.grp, B))
    BY <2>0 DEF Store, Stale
  <2>2. u \in Buffer
    BY <1>1, <2>0, ToSetFacts, CsiAssumption
  <2>3. CASE u \in X
    <3>1. u \in Planes(h.grp, B) /\ u \notin Planes(h.grp, C)
      BY <1>0, <2>3
    <3>2. k.maps[u] = h.maps[u] - 1
      BY <1>2, <2>2, <2>3
    <3> QED
      BY <2>0, <2>1, <3>1, <3>2 DEF One
  <2>4. CASE u \notin X
    <3>1. u \in Planes(h.grp, C) <=> u \in Planes(h.grp, B)
      BY <1>0, <2>4
    <3>2. k.maps[u] = h.maps[u]
      BY <1>2, <2>2, <2>4
    <3> QED
      BY <2>0, <2>1, <3>1, <3>2 DEF One
  <2> QED
    BY <2>3, <2>4
<1> QED
  BY <1>0, <1>1, <1>2, <1>4, <1>5, <1>6 DEF Store, StoreTypes, AllInside

\* The references that nobody will drop are L and one to each buffer of X.
Forgets(L, X, M) == M = [u \in Buffer |-> L[u] + One(u \in X)]

\* Planes that nobody gave back are forgotten with their task.
LEMMA StoreForgetPlanes ==
  ASSUME NEW h, NEW B, NEW T, NEW L, Store(h, B, T, L),
         NEW q \in Group, q \notin Request,
         NEW X, X \subseteq PlanesIn(h.grp[q], B[q]), NEW C, Fewer(h.grp, B, X, C),
         NEW M, Forgets(L, X, M)
  PROVE  Store(h, C, T, M)
<1>1. /\ HeapOK(h) /\ h.ref \in [Buffer -> Nat] /\ h.maps \in [Buffer -> Nat]
      /\ h.grp \in [Group -> Seq(Buffer)] /\ Single(h.grp)
      /\ B \in [Group -> Seq(Arrays)] /\ T \in [Request -> SettRec] /\ L \in [Buffer -> Nat]
      /\ \A g \in Group : Inside(h.grp[g], B[g])
  BY StoreFields DEF Store
<1>5. /\ C \in [Group -> Seq(Arrays)] /\ AllInside(h.grp, C)
      /\ Planes(h.grp, C) = Planes(h.grp, B) \ X /\ X \subseteq Planes(h.grp, B)
  BY DEF Fewer
<1>6. M \in [Buffer -> Nat] /\ \A u \in Buffer : M[u] = IF u \in X THEN L[u] + 1 ELSE L[u]
  BY <1>1 DEF One, Forgets
<1>7. Balanced(h, C, T, M)
  <2> SUFFICES ASSUME NEW u \in Buffer
               PROVE  /\ h.ref[u] = One(u \in Grouped(h.grp)) + h.maps[u]
                           + One(u \in Planes(h.grp, C)) + One(u \in Setts(T)) + M[u]
                      /\ h.maps[u] >= One(u \in Planes(h.grp, C))
    BY DEF Balanced
  <2>1. /\ h.ref[u] = One(u \in Grouped(h.grp)) + h.maps[u]
             + One(u \in Planes(h.grp, B)) + One(u \in Setts(T)) + L[u]
        /\ h.maps[u] >= One(u \in Planes(h.grp, B))
        /\ h.maps[u] \in Nat /\ L[u] \in Nat
    BY Account
  <2>2. CASE u \in X
    <3>1. u \in Planes(h.grp, B) /\ u \notin Planes(h.grp, C) /\ M[u] = L[u] + 1
      BY <1>5, <1>6, <2>2
    <3>2. PICK a \in Nat, s \in Nat : a = One(u \in Grouped(h.grp)) /\ s = One(u \in Setts(T))
      BY OneFacts
    <3>3. One(u \in Planes(h.grp, B)) = 1 /\ One(u \in Planes(h.grp, C)) = 0
      BY <3>1 DEF One
    <3>4. h.ref[u] = a + h.maps[u] + 1 + s + L[u]
      BY <2>1, <3>2, <3>3
    <3>6. PICK m \in Nat, l \in Nat : m = h.maps[u] /\ l = L[u]
      BY <2>1
    <3>5. h.ref[u] = a + h.maps[u] + 0 + s + (L[u] + 1)
      <4>1. a + m + 1 + s + l = a + m + 0 + s + (l + 1)
        BY Sums
      <4> QED
        BY <3>4, <3>6, <4>1
    <3> QED
      BY <2>1, <3>1, <3>2, <3>3, <3>5
  <2>3. CASE u \notin X
    <3>1. (u \in Planes(h.grp, C) <=> u \in Planes(h.grp, B)) /\ M[u] = L[u]
      BY <1>5, <1>6, <2>3
    <3> QED
      BY <2>1, <3>1 DEF One
  <2> QED
    BY <2>2, <2>3
<1>8. Stale(h, C, T, M)
  <2> SUFFICES ASSUME NEW r \in Request, ~T[r].held, T[r].at \in ToSet(h.grp[r])
               PROVE  M[T[r].at] = 0 /\ h.maps[T[r].at] = One(T[r].at \in Planes(h.grp, C))
    BY DEF Stale
  <2>1. L[T[r].at] = 0 /\ h.maps[T[r].at] = One(T[r].at \in Planes(h.grp, B))
    BY DEF Store, Stale
  <2>2. r \in Group /\ r # q
    BY CsiAssumption
  <2>3. T[r].at \in Buffer
    BY <1>1, <2>2, ToSetFacts
  <2>4. T[r].at \notin X
    <3>1. X \subseteq ToSet(h.grp[q])
      BY <1>1, PlaneFacts
    <3> QED
      BY <1>1, <2>2, <3>1, SingleFacts
  <2>5. PICK u \in Buffer : u = T[r].at
    BY <2>3
  <2>6. M[u] = L[u] /\ (u \in Planes(h.grp, C) <=> u \in Planes(h.grp, B))
    BY <1>5, <1>6, <2>4, <2>5
  <2> QED
    BY <2>1, <2>5, <2>6 DEF One
<1> QED
  BY <1>1, <1>5, <1>6, <1>7, <1>8 DEF Store, StoreTypes, AllInside

\* The last reference to a group without planes goes.
LEMMA StoreGroupEnds ==
  ASSUME NEW h, NEW k, NEW B, NEW T, NEW L, Store(h, B, T, L),
         NEW q \in Group, B[q] = <<>>, q \in Request => ~T[q].held, Ended(h, k, q)
  PROVE  Store(k, B, T, L)
<1>0. /\ HeapOK(k) /\ k.maps = h.maps /\ k.grp = [h.grp EXCEPT ![q] = <<>>]
      /\ k.ref = [u \in Buffer |-> IF u \in ToSet(h.grp[q]) THEN h.ref[u] - 1
                                    ELSE h.ref[u]]
  BY DEF Ended
<1>1. /\ HeapOK(h) /\ h.ref \in [Buffer -> Nat] /\ h.maps \in [Buffer -> Nat]
      /\ h.grp \in [Group -> Seq(Buffer)] /\ Single(h.grp)
      /\ B \in [Group -> Seq(Arrays)] /\ T \in [Request -> SettRec] /\ L \in [Buffer -> Nat]
      /\ \A g \in Group : Inside(h.grp[g], B[g])
  BY StoreFields DEF Store
<1>2. PICK V : V = ToSet(h.grp[q])
  OBVIOUS
<1>3. PICK e \in Seq(Buffer) : e = <<>>
  BY EmptyOf
<1>4. k.grp[q] = e /\ \A g \in Group : g # q => k.grp[g] = h.grp[g]
  BY <1>0, <1>1, <1>3
<1>5. DOMAIN e = {} /\ ToSet(e) = {} /\ PlanesIn(e, B[q]) = {} /\ Inside(e, B[q])
  <2>1. DOMAIN e = {} /\ ToSet(e) = {}
    BY <1>3 DEF ToSet
  <2> QED
    BY <2>1, PlanesOfNone
<1>6. PlanesIn(h.grp[q], B[q]) = {}
  BY PlanesOfNone
<1>7. Single(k.grp)
  <2> SUFFICES ASSUME NEW g \in Group, NEW p \in Group, NEW i \in DOMAIN k.grp[g],
                      NEW j \in DOMAIN k.grp[p], k.grp[g][i] = k.grp[p][j]
               PROVE  g = p /\ i = j
    BY DEF Single
  <2>1. g # q /\ p # q
    BY <1>4, <1>5
  <2>2. k.grp[g] = h.grp[g] /\ k.grp[p] = h.grp[p]
    BY <1>4, <2>1
  <2>3. \A x, y \in Group : \A a \in DOMAIN h.grp[x], f \in DOMAIN h.grp[y] :
          h.grp[x][a] = h.grp[y][f] => x = y /\ a = f
    BY <1>1 DEF Single
  <2> QED
    BY <2>2, <2>3
<1>8. /\ \A g \in Group : Inside(k.grp[g], B[g])
      /\ \A g \in Group : PlanesIn(k.grp[g], B[g]) = PlanesIn(h.grp[g], B[g])
  BY <1>1, <1>4, <1>5, <1>6
<1>9. Planes(k.grp, B) = Planes(h.grp, B)
  BY <1>8 DEF Planes
<1>10. \A u : u \in Grouped(k.grp) <=> u \in Grouped(h.grp) /\ u \notin V
  <2>1. ASSUME NEW u, u \in Grouped(k.grp) PROVE u \in Grouped(h.grp) /\ u \notin V
    <3>1. PICK g \in Group : u \in ToSet(k.grp[g])
      BY <2>1 DEF Grouped
    <3>2. g # q /\ u \in ToSet(h.grp[g])
      BY <1>4, <1>5, <3>1
    <3>3. u \notin V
      BY <1>1, <1>2, <3>2, SingleFacts
    <3> QED
      BY <3>2, <3>3 DEF Grouped
  <2>2. ASSUME NEW u, u \in Grouped(h.grp), u \notin V PROVE u \in Grouped(k.grp)
    <3>1. PICK g \in Group : u \in ToSet(h.grp[g])
      BY <2>2 DEF Grouped
    <3>2. u \in ToSet(k.grp[g])
      BY <1>2, <1>4, <2>2, <3>1
    <3> QED
      BY <3>2 DEF Grouped
  <2> QED
    BY <2>1, <2>2
<1>11. V \subseteq Grouped(h.grp)
  BY <1>2 DEF Grouped
<1>12. Balanced(k, B, T, L)
  <2> SUFFICES ASSUME NEW u \in Buffer
               PROVE  /\ k.ref[u] = One(u \in Grouped(k.grp)) + h.maps[u]
                           + One(u \in Planes(h.grp, B)) + One(u \in Setts(T)) + L[u]
                      /\ h.maps[u] >= One(u \in Planes(h.grp, B))
    BY <1>0, <1>9 DEF Balanced
  <2>1. /\ h.ref[u] = One(u \in Grouped(h.grp)) + h.maps[u]
             + One(u \in Planes(h.grp, B)) + One(u \in Setts(T)) + L[u]
        /\ h.maps[u] >= One(u \in Planes(h.grp, B))
        /\ h.maps[u] \in Nat /\ L[u] \in Nat
    BY Account
  <2>2. CASE u \in V
    <3>1. u \in Grouped(h.grp) /\ u \notin Grouped(k.grp) /\ k.ref[u] = h.ref[u] - 1
      BY <1>0, <1>2, <1>10, <1>11, <2>2
    <3>2. PICK p \in Nat, s \in Nat : p = One(u \in Planes(h.grp, B)) /\ s = One(u \in Setts(T))
      BY OneFacts
    <3>3. One(u \in Grouped(h.grp)) = 1 /\ One(u \in Grouped(k.grp)) = 0
      BY <3>1 DEF One
    <3>4. h.ref[u] = 1 + h.maps[u] + p + s + L[u]
      BY <2>1, <3>2, <3>3
    <3>5. k.ref[u] = 0 + h.maps[u] + p + s + L[u]
      <4>1. PICK m \in Nat, l \in Nat : m = h.maps[u] /\ l = L[u]
        BY <2>1
      <4>2. k.ref[u] = (1 + m + p + s + l) - 1
        BY <3>1, <3>4, <4>1
      <4>3. (1 + m + p + s + l) - 1 = 0 + m + p + s + l
        BY Sums
      <4> QED
        BY <4>1, <4>2, <4>3
    <3> QED
      BY <2>1, <3>2, <3>3, <3>5
  <2>3. CASE u \notin V
    <3>1. (u \in Grouped(k.grp) <=> u \in Grouped(h.grp)) /\ k.ref[u] = h.ref[u]
      BY <1>0, <1>2, <1>10, <2>3
    <3> QED
      BY <2>1, <3>1 DEF One
  <2> QED
    BY <2>2, <2>3
<1>13. Stale(k, B, T, L)
  <2> SUFFICES ASSUME NEW r \in Request, ~T[r].held, T[r].at \in ToSet(k.grp[r])
               PROVE  L[T[r].at] = 0 /\ h.maps[T[r].at] = One(T[r].at \in Planes(h.grp, B))
    BY <1>0, <1>9 DEF Stale
  <2>1. r # q /\ r \in Group
    BY <1>4, <1>5, CsiAssumption
  <2>2. T[r].at \in ToSet(h.grp[r])
    BY <1>4, <2>1
  <2> QED
    BY <2>2 DEF Store, Stale
<1>14. \A r \in Request : T[r].held => T[r].at \in ToSet(k.grp[r])
  <2>1. \A r \in Request : T[r].held => r # q /\ r \in Group /\ T[r].at \in ToSet(h.grp[r])
    BY CsiAssumption DEF Store
  <2> QED
    BY <1>4, <2>1
<1>15. k.grp \in [Group -> Seq(Buffer)]
  BY <1>0, HeapFields DEF HeapOK
<1> QED
  BY <1>0, <1>1, <1>7, <1>8, <1>12, <1>13, <1>14 DEF Store, StoreTypes

\* From h to k the buffers got the references d, which nobody holds.
Forgot(h, k, L, d, M) ==
  /\ HeapOK(k) /\ k.maps = h.maps /\ k.grp = h.grp /\ d \in [Buffer -> Nat]
  /\ \A u \in Buffer : k.ref[u] = h.ref[u] + d[u]
  /\ \A u \in Buffer : d[u] # 0 => h.ref[u] = 0
  /\ M = [u \in Buffer |-> L[u] + d[u]]

\* References to new buffers are forgotten.
LEMMA StoreLose ==
  ASSUME NEW h, NEW k, NEW B, NEW T, NEW L, Store(h, B, T, L),
         NEW d, NEW M, Forgot(h, k, L, d, M)
  PROVE  Store(k, B, T, M)
<1>0. /\ HeapOK(k) /\ k.maps = h.maps /\ k.grp = h.grp /\ d \in [Buffer -> Nat]
      /\ \A u \in Buffer : k.ref[u] = h.ref[u] + d[u]
      /\ \A u \in Buffer : d[u] # 0 => h.ref[u] = 0
      /\ M = [u \in Buffer |-> L[u] + d[u]]
  BY DEF Forgot
<1>1. /\ HeapOK(h) /\ h.ref \in [Buffer -> Nat] /\ h.maps \in [Buffer -> Nat]
      /\ h.grp \in [Group -> Seq(Buffer)]
      /\ B \in [Group -> Seq(Arrays)] /\ T \in [Request -> SettRec] /\ L \in [Buffer -> Nat]
  BY StoreFields
<1>2. M \in [Buffer -> Nat] /\ \A u \in Buffer : M[u] = L[u] + d[u]
  BY <1>0, <1>1
<1>3. Balanced(k, B, T, M)
  <2> SUFFICES ASSUME NEW u \in Buffer
               PROVE  /\ k.ref[u] = One(u \in Grouped(h.grp)) + h.maps[u]
                           + One(u \in Planes(h.grp, B)) + One(u \in Setts(T)) + M[u]
                      /\ h.maps[u] >= One(u \in Planes(h.grp, B))
    BY <1>0 DEF Balanced
  <2>1. /\ h.ref[u] = One(u \in Grouped(h.grp)) + h.maps[u]
             + One(u \in Planes(h.grp, B)) + One(u \in Setts(T)) + L[u]
        /\ h.maps[u] >= One(u \in Planes(h.grp, B))
        /\ h.maps[u] \in Nat /\ L[u] \in Nat
    BY Account
  <2>2. k.ref[u] = h.ref[u] + d[u] /\ M[u] = L[u] + d[u] /\ d[u] \in Nat
    BY <1>0, <1>2
  <2> QED
    BY <2>1, <2>2 DEF One
<1>4. Stale(k, B, T, M)
  <2> SUFFICES ASSUME NEW r \in Request, ~T[r].held, T[r].at \in ToSet(h.grp[r])
               PROVE  M[T[r].at] = 0 /\ h.maps[T[r].at] = One(T[r].at \in Planes(h.grp, B))
    BY <1>0 DEF Stale
  <2>0. PICK u : u = T[r].at
    OBVIOUS
  <2>1. L[u] = 0 /\ h.maps[u] = One(u \in Planes(h.grp, B))
    BY <2>0 DEF Store, Stale
  <2>2. u \in Buffer /\ u \in Grouped(h.grp)
    <3>1. r \in Group
      BY CsiAssumption
    <3> QED
      BY <1>1, <2>0, <3>1, ToSetFacts DEF Grouped
  <2>3. d[u] = 0
    BY <1>0, <2>2, Unheld
  <2> QED
    BY <1>2, <2>0, <2>1, <2>2, <2>3
<1>5. /\ Single(k.grp) /\ \A g \in Group : Inside(k.grp[g], B[g])
      /\ \A r \in Request : T[r].held => T[r].at \in ToSet(k.grp[r])
  BY <1>0 DEF Store
<1> QED
  BY <1>0, <1>1, <1>2, <1>3, <1>4, <1>5 DEF Store, StoreTypes
=============================================================================
