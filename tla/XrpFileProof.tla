---------------------------- MODULE XrpFileProof ----------------------------
(***************************************************************************)
(* Proofs about open files, their memory and the requests that share it    *)
(* (module XrpFile), for any threads, files, devices, blocks, areas and    *)
(* shapes of requests, and about the address translation they use (module  *)
(* XrpAddressMap), for tables of any length.                               *)
(*                                                                         *)
(* RefsAccounted counts sets, and its induction needs them finite: the     *)
(* invariant says so.  It also needs the lists without repetitions, the    *)
(* owners of what is mapped, and that a slot of a request holds nothing    *)
(* until it is shared; DspReaches needs what was shared in reach already   *)
(* while the rest of the request is mapped, and that a block a request     *)
(* holds keeps its owner (a second induction, on top of the first).        *)
(***************************************************************************)
EXTENDS XrpFile, SequenceTheorems, FiniteSetTheorems, FunctionTheorems,
        NaturalsInduction, TLAPS

\* A set of numbers has a least element.
LEMMA Least ==
  ASSUME NEW T, T \subseteq Nat, T # {}
  PROVE  \E x \in T : \A y \in T : x <= y
<1>1. PICK R : /\ R = {p \in Nat \X Nat : p[1] < p[2]}
               /\ IsWellFoundedOn(R, Nat)
  BY NatLessThanWellFounded DEF OpToRel
<1>2. PICK x \in T : \A y \in T : ~(<<y, x>> \in R)
  BY <1>1, WFMin
<1>3. ASSUME NEW y \in T PROVE x <= y
  <2>1. x \in Nat /\ y \in Nat
    BY <1>2
  <2>2. y < x => <<y, x>> \in R
    BY <1>1, <2>1
  <2> QED
    BY <1>2, <2>1, <2>2
<1> QED
  BY <1>3

(***************************************************************************)
(* The bisection of the address map.                                       *)
(***************************************************************************)

\* The windows with at most m entries.
Upto(n, m) == {w \in Windows(n) : w[2] <= m}

\* The windows a turn goes on with lie in its own and are smaller.
LEMMA Halves ==
  ASSUME NEW n \in Nat, NEW m \in Nat, NEW w \in Upto(n, m + 1), w[2] # 0
  PROVE  /\ <<w[1] + w[2] \div 2 + 1, (w[2] - 1) \div 2>> \in Upto(n, m)
         /\ <<w[1], w[2] \div 2>> \in Upto(n, m)
         /\ w[1] + w[2] \div 2 + 1 \in w[1] + 1 .. w[1] + w[2]
         /\ w[1] + w[2] \div 2 + 1 \in 1 .. n
<1>1. PICK a \in 0 .. n, k \in 0 .. n :
        a = w[1] /\ k = w[2] /\ a + k <= n /\ k <= m + 1 /\ k # 0
  BY DEF Upto, Windows
<1>2. k \in Nat /\ a \in Nat /\ k >= 1
  BY <1>1
<1>3. PICK h \in Nat : h = k \div 2 /\ (k = 2 * h \/ k = 2 * h + 1)
  BY <1>2
<1>4. PICK g \in Nat : g = (k - 1) \div 2 /\ (k - 1 = 2 * g \/ k - 1 = 2 * g + 1)
  BY <1>2
<1>5. a + h + 1 <= a + k /\ a + h + 1 >= 1 /\ h <= m /\ h <= k
  BY <1>1, <1>2, <1>3
<1>6. h + 1 + g <= k /\ g <= m
  BY <1>1, <1>2, <1>3, <1>4
<1>7. /\ a + h + 1 \in 0 .. n /\ a + h + 1 \in a + 1 .. a + k
      /\ a + h + 1 \in 1 .. n
  BY <1>1, <1>2, <1>5
<1>8. <<a + h + 1, g>> \in Upto(n, m)
  BY <1>1, <1>2, <1>6, <1>7 DEF Upto, Windows
<1>9. <<a, h>> \in Upto(n, m)
  BY <1>1, <1>2, <1>5 DEF Upto, Windows
<1> QED
  BY <1>1, <1>3, <1>4, <1>7, <1>8, <1>9

\* A turn depends only on smaller windows.
LEMMA ProbeSame ==
  ASSUME NEW n \in Nat, NEW m \in Nat, NEW map, NEW addr, NEW f, NEW g,
         \A w \in Upto(n, m) : f[w] = g[w], NEW w \in Upto(n, m + 1)
  PROVE  Probe(f, map, addr, w) = Probe(g, map, addr, w)
<1>1. CASE w[2] = 0
  BY <1>1 DEF Probe
<1>2. CASE w[2] # 0
  <2>1. PICK u \in Upto(n, m), v \in Upto(n, m) :
          /\ u = <<w[1] + w[2] \div 2 + 1, (w[2] - 1) \div 2>>
          /\ v = <<w[1], w[2] \div 2>>
    BY <1>2, Halves
  <2>2. f[u] = g[u] /\ f[v] = g[v]
    BY <2>1
  <2> QED
    BY <2>1, <2>2, Zenon DEF Probe
<1> QED
  BY <1>1, <1>2

\* The bisection of the windows up to a size.
Solves(f, S, map, addr) == f = [w \in S |-> Probe(f, map, addr, w)]

\* There are look-ups of all windows up to any size.
LEMMA SolvedUpto ==
  ASSUME NEW n \in Nat, NEW map, NEW addr
  PROVE  \A m \in Nat : \E f : Solves(f, Upto(n, m), map, addr)
<1> DEFINE T == {m \in Nat : ~\E f : Solves(f, Upto(n, m), map, addr)}
<1> SUFFICES ASSUME T # {}
             PROVE  FALSE
  OBVIOUS
<1>1. PICK k \in T : \A m \in T : k <= m
  BY Least
<1>2. CASE k = 0
  <2>1. PICK f : f = [w \in Upto(n, 0) |-> 0]
    OBVIOUS
  <2>2. \A w \in Upto(n, 0) : Probe(f, map, addr, w) = 0
    BY DEF Upto, Windows, Probe
  <2>3. f = [w \in Upto(n, 0) |-> Probe(f, map, addr, w)]
    BY <2>1, <2>2
  <2> QED
    BY <1>1, <1>2, <2>3 DEF Solves
<1>3. CASE k # 0
  <2>1. PICK m \in Nat : k = m + 1 /\ m \notin T
    <3>1. k - 1 \in Nat /\ k = (k - 1) + 1 /\ ~(k <= k - 1)
      BY <1>3
    <3> QED
      BY <1>1, <3>1
  <2>2. PICK f : Solves(f, Upto(n, m), map, addr)
    BY <2>1
  <2>3. PICK g : g = [w \in Upto(n, k) |-> Probe(f, map, addr, w)]
    OBVIOUS
  <2>4. Upto(n, m) \subseteq Upto(n, k)
    BY <2>1 DEF Upto, Windows
  <2>5. \A w \in Upto(n, m) : f[w] = g[w]
    BY <2>2, <2>3, <2>4 DEF Solves
  <2>6. \A w \in Upto(n, k) : Probe(f, map, addr, w) = Probe(g, map, addr, w)
    BY <2>1, <2>5, ProbeSame
  <2>7. g = [w \in Upto(n, k) |-> Probe(g, map, addr, w)]
    BY <2>3, <2>6, Zenon
  <2> QED
    BY <1>1, <2>7 DEF Solves
<1> QED
  BY <1>2, <1>3

\* What the bisection finds: the look-ups of all windows exist.
LEMMA BsearchLook ==
  ASSUME NEW map, Len(map) \in Nat, NEW addr
  PROVE  \E f : /\ Solves(f, Windows(Len(map)), map, addr)
                /\ Bsearch(map, addr) = f[<<0, Len(map)>>]
<1>1. PICK n \in Nat : n = Len(map)
  OBVIOUS
<1>2. Upto(n, n) = Windows(n)
  BY <1>1 DEF Upto, Windows
<1>3. \E f : f = [w \in Windows(n) |-> Probe(f, map, addr, w)]
  BY <1>1, <1>2, SolvedUpto DEF Solves
<1>4. PICK g : g = CHOOSE f : f = [w \in Windows(n) |-> Probe(f, map, addr, w)]
  OBVIOUS
<1>5. g = [w \in Windows(n) |-> Probe(g, map, addr, w)]
  BY <1>3, <1>4, Zenon
<1>6. Bsearch(map, addr) = g[<<0, n>>]
  BY <1>1, <1>4, Zenon DEF Bsearch
<1> QED
  BY <1>1, <1>5, <1>6 DEF Solves

\* A table of the driver: sorted, with ranges that do not overlap.
Sorted(map) == \A i, j \in DOMAIN map : i < j => SortsBefore(map[i], map[j])

\* What a look-up of the window w may say.
Right(map, addr, w, r) ==
  /\ r = 0 \/ (r \in 1 .. Len(map) /\ CompareAddress(addr, map[r]) = 0)
  /\ Sorted(map) /\ r = 0 =>
       \A i \in w[1] + 1 .. w[1] + w[2] : CompareAddress(addr, map[i]) # 0

\* The fields of an entry are numbers.
LEMMA EntryFields ==
  ASSUME NEW e \in Entry
  PROVE  e.src_addr \in Nat /\ e.dst_addr \in Nat /\ e.size \in Nat
  BY WordAssumption DEF Entry

\* An address before or behind an entry is before or behind those on that side.
LEMMA OtherSide ==
  ASSUME NEW map \in Seq(Entry), Sorted(map), NEW addr \in Nat,
         NEW p \in 1 .. Len(map), NEW i \in 1 .. Len(map)
  PROVE  /\ CompareAddress(addr, map[p]) > 0 /\ i <= p
              => CompareAddress(addr, map[i]) # 0
         /\ CompareAddress(addr, map[p]) < 0 /\ i >= p
              => CompareAddress(addr, map[i]) # 0
<1>1. PICK a \in Nat, k \in Nat : a = map[p].src_addr /\ k = map[p].size
  <2>1. map[p] \in Entry
    OBVIOUS
  <2>2. map[p].src_addr \in Nat /\ map[p].size \in Nat
    BY <2>1, EntryFields
  <2> QED
    BY <2>2
<1>2. PICK b \in Nat, l \in Nat : b = map[i].src_addr /\ l = map[i].size
  <2>1. map[i] \in Entry
    OBVIOUS
  <2>2. map[i].src_addr \in Nat /\ map[i].size \in Nat
    BY <2>1, EntryFields
  <2> QED
    BY <2>2
<1>3. i < p => b < a /\ a - b >= l
  BY <1>1, <1>2 DEF Sorted, SortsBefore
<1>4. i > p => a < b /\ b - a >= k
  BY <1>1, <1>2 DEF Sorted, SortsBefore
<1>5. i = p => a = b /\ k = l
  BY <1>1, <1>2
<1>6. CompareAddress(addr, map[p]) > 0 => addr >= a + k /\ addr >= a
  BY <1>1 DEF CompareAddress
<1>7. CompareAddress(addr, map[p]) < 0 => addr < a
  BY <1>1 DEF CompareAddress
<1>8. CompareAddress(addr, map[i]) = 0 => addr >= b /\ addr - b < l
  BY <1>2 DEF CompareAddress
<1>9. i < p \/ i = p \/ i > p
  OBVIOUS
<1> QED
  BY <1>3, <1>4, <1>5, <1>6, <1>7, <1>8, <1>9

\* A turn is right if the look-ups of the smaller windows are.
LEMMA ProbeRight ==
  ASSUME NEW map \in Seq(Entry), NEW addr \in Nat, NEW n \in Nat, n = Len(map),
         NEW m \in Nat, NEW f, \A w \in Upto(n, m) : Right(map, addr, w, f[w]),
         NEW w \in Upto(n, m + 1)
  PROVE  Right(map, addr, w, Probe(f, map, addr, w))
<1>1. PICK a \in Nat, k \in Nat : w[1] = a /\ w[2] = k /\ a + k <= n
  BY DEF Upto, Windows
<1>2. CASE k = 0
  BY <1>1, <1>2 DEF Probe, Right
<1>3. CASE k # 0
  <2>1. PICK p \in Nat : p = a + k \div 2 + 1
    BY <1>1
  <2>2. PICK u \in Upto(n, m), v \in Upto(n, m) :
          u = <<p, (k - 1) \div 2>> /\ v = <<a, k \div 2>>
    BY <1>1, <1>3, <2>1, Halves
  <2>3. p \in 1 .. n /\ p \in a + 1 .. a + k
    BY <1>1, <1>3, <2>1, Halves
  <2>4. CompareAddress(addr, map[p]) \in {-1, 0, 1}
    BY DEF CompareAddress
  <2>5. CASE CompareAddress(addr, map[p]) = 0
    <3>1. Probe(f, map, addr, w) = p
      BY <1>1, <1>3, <2>1, <2>5 DEF Probe
    <3>2. p # 0
      BY <2>3
    <3> QED
      BY <3>1, <3>2, <2>3, <2>5 DEF Right
  <2>6. CASE CompareAddress(addr, map[p]) = 1
    <3>1. Probe(f, map, addr, w) = f[u]
      BY <1>1, <1>3, <2>1, <2>2, <2>6 DEF Probe
    <3>2. Right(map, addr, u, f[u])
      OBVIOUS
    <3>3. ASSUME Sorted(map), f[u] = 0, NEW i \in a + 1 .. a + k
          PROVE  CompareAddress(addr, map[i]) # 0
      <4>1. i \in 1 .. Len(map)
        BY <1>1
      <4>2. CASE i <= p
        BY <2>3, <2>6, <3>3, <4>1, <4>2, OtherSide
      <4>3. CASE i > p
        <5>1. PICK h \in Nat : h = k \div 2 /\ (k = 2 * h \/ k = 2 * h + 1)
          BY <1>1
        <5>2. PICK g \in Nat : g = (k - 1) \div 2 /\ (k - 1 = 2 * g \/ k - 1 = 2 * g + 1)
          BY <1>1, <1>3
        <5>3. h + 1 + g = k
          BY <1>1, <5>1, <5>2
        <5>4. i \in p + 1 .. p + g
          BY <1>1, <2>1, <4>3, <5>1, <5>3
        <5>5. u[1] = p /\ u[2] = g
          BY <2>2, <5>2
        <5> QED
          BY <3>2, <3>3, <5>4, <5>5 DEF Right
      <4> QED
        BY <1>1, <2>1, <4>2, <4>3
    <3> QED
      BY <1>1, <3>1, <3>2, <3>3 DEF Right
  <2>7. CASE CompareAddress(addr, map[p]) = -1
    <3>1. Probe(f, map, addr, w) = f[v]
      BY <1>1, <1>3, <2>1, <2>2, <2>7 DEF Probe
    <3>2. Right(map, addr, v, f[v])
      OBVIOUS
    <3>3. ASSUME Sorted(map), f[v] = 0, NEW i \in a + 1 .. a + k
          PROVE  CompareAddress(addr, map[i]) # 0
      <4>1. i \in 1 .. Len(map)
        BY <1>1
      <4>2. CASE i >= p
        BY <2>3, <2>7, <3>3, <4>1, <4>2, OtherSide
      <4>3. CASE i < p
        <5>1. PICK h \in Nat : h = k \div 2
          BY <1>1
        <5>2. i \in a + 1 .. a + h
          BY <1>1, <2>1, <4>3, <5>1
        <5>3. v[1] = a /\ v[2] = h
          BY <2>2, <5>1
        <5> QED
          BY <3>2, <3>3, <5>2, <5>3 DEF Right
      <4> QED
        BY <1>1, <2>1, <4>2, <4>3
    <3> QED
      BY <1>1, <3>1, <3>2, <3>3 DEF Right
  <2> QED
    BY <2>4, <2>5, <2>6, <2>7
<1> QED
  BY <1>1, <1>2, <1>3

\* Every look-up is right.
LEMMA LookRight ==
  ASSUME NEW map \in Seq(Entry), NEW addr \in Nat, NEW n \in Nat, n = Len(map),
         NEW f, Solves(f, Windows(n), map, addr)
  PROVE  \A m \in Nat : \A w \in Upto(n, m) : Right(map, addr, w, f[w])
<1> DEFINE T == {m \in Nat : ~\A w \in Upto(n, m) : Right(map, addr, w, f[w])}
<1>0. \A m \in Nat : \A w \in Upto(n, m) : f[w] = Probe(f, map, addr, w)
  BY DEF Solves, Upto
<1> SUFFICES ASSUME T # {}
             PROVE  FALSE
  OBVIOUS
<1>1. PICK k \in T : \A m \in T : k <= m
  BY Least
<1>2. CASE k = 0
  <2>1. ASSUME NEW w \in Upto(n, 0) PROVE Right(map, addr, w, f[w])
    <3>1. w[1] \in Nat /\ w[2] = 0
      BY DEF Upto, Windows
    <3>2. f[w] = 0
      BY <1>0, <3>1 DEF Probe
    <3> QED
      BY <3>1, <3>2 DEF Right
  <2> QED
    BY <1>1, <1>2, <2>1
<1>3. CASE k # 0
  <2>1. PICK m \in Nat : k = m + 1 /\ m \notin T
    <3>1. k - 1 \in Nat /\ k = (k - 1) + 1 /\ ~(k <= k - 1)
      BY <1>3
    <3> QED
      BY <1>1, <3>1
  <2>2. \A w \in Upto(n, m) : Right(map, addr, w, f[w])
    BY <2>1
  <2>3. \A w \in Upto(n, k) : Right(map, addr, w, Probe(f, map, addr, w))
    BY <2>1, <2>2, ProbeRight
  <2>4. \A w \in Upto(n, k) : Right(map, addr, w, f[w])
    BY <1>0, <2>3
  <2> QED
    BY <1>1, <2>4
<1> QED
  BY <1>2, <1>3

\* The bisection of a table finds the entry that holds an address or, if the
\* table is sorted and its ranges do not overlap, there is none (bsearch with
\* xrp_compare_address in xrp_get_address_mapping).
THEOREM BisectionExact ==
  ASSUME NEW map \in Seq(Entry), NEW addr \in Nat
  PROVE  LET i == Bsearch(map, addr)
         IN /\ i # 0 => i \in DOMAIN map /\ CompareAddress(addr, map[i]) = 0
            /\ Sorted(map) /\ i = 0 =>
                 \A j \in DOMAIN map : CompareAddress(addr, map[j]) # 0
<1>1. PICK n \in Nat : n = Len(map)
  OBVIOUS
<1>2. PICK f : Solves(f, Windows(n), map, addr) /\ Bsearch(map, addr) = f[<<0, n>>]
  BY <1>1, BsearchLook
<1>3. PICK w \in Upto(n, n) : w = <<0, n>>
  <2>1. 0 \in 0 .. n /\ n \in 0 .. n /\ 0 + n <= n
    OBVIOUS
  <2>2. <<0, n>> \in Upto(n, n)
    BY <2>1 DEF Upto, Windows
  <2> QED
    BY <2>2
<1>4. Right(map, addr, w, f[w])
  BY <1>1, <1>2, LookRight
<1>5. w[1] = 0 /\ w[2] = n /\ DOMAIN map = 1 .. n /\ 0 + 1 = 1 /\ 0 + n = n
  BY <1>1, <1>3
<1>6. Bsearch(map, addr) = f[w]
  BY <1>2, <1>3
<1> QED
  BY <1>1, <1>4, <1>5, <1>6 DEF Right

\* What is below the modulus is its own remainder.
LEMMA Remainder ==
  ASSUME NEW w \in Nat, NEW x \in Nat, x < w
  PROVE  x % w = x
  OBVIOUS

\* Two entries whose ranges do not overlap for the DSP, nor end at 2^32 or
\* behind it.
Apart(d, e) ==
  d.dst_addr + d.size <= e.dst_addr \/ e.dst_addr + e.size <= d.dst_addr

Unwrapped(map) ==
  /\ \A i \in DOMAIN map : map[i].dst_addr + map[i].size < Word
  /\ \A i, j \in DOMAIN map : i # j => Apart(map[i], map[j])

\* xrp_translate_to_dsp and xrp_translate_dsp_to_host are each other's inverse
\* on what a table maps, if its ranges do not overlap for the DSP and do not
\* wrap; an address that is mapped never looks like XRP_NO_TRANSLATION.
THEOREM TranslationInverse ==
  ASSUME NEW map \in Seq(Entry), Unwrapped(map), NEW addr \in Nat,
         Bsearch(map, addr) # 0
  PROVE  /\ TranslateToDsp(map, addr) # NoTranslation
         /\ TranslateToHost(map, TranslateToDsp(map, addr)) = addr
<1>1. PICK i \in 1 .. Len(map) : i = Bsearch(map, addr) /\ CompareAddress(addr, map[i]) = 0
  BY BisectionExact
<1>2. PICK s \in Nat, d \in Nat, z \in Nat :
        s = map[i].src_addr /\ d = map[i].dst_addr /\ z = map[i].size
  <2>1. map[i] \in Entry
    OBVIOUS
  <2> QED
    BY <2>1, EntryFields
<1>3. addr >= s /\ addr - s < z
  BY <1>1, <1>2 DEF CompareAddress
<1>4. PICK w \in Nat : w = Word /\ d + z < w
  <2>1. d + z < Word
    BY <1>2 DEF Unwrapped
  <2> QED
    BY <2>1, WordAssumption
<1>5. PICK x \in Nat : x = d + addr - s
  BY <1>2, <1>3
<1>6. d <= x /\ x < d + z /\ x < w - 1 /\ x < w
  BY <1>3, <1>4, <1>5
<1>7. TranslateToDsp(map, addr) = x
  <2>1. x % Word = x
    BY <1>4, <1>6, Remainder
  <2>2. TranslateToDsp(map, addr) = (d + addr - s) % Word
    BY <1>1, <1>2 DEF TranslateToDsp
  <2> QED
    BY <1>5, <2>1, <2>2
<1>8. ASSUME NEW j \in 1 .. Len(map)
      PROVE  HoldsDspAddress(map[j], x) <=> j = i
  <2>1. PICK e \in Nat, y \in Nat : e = map[j].dst_addr /\ y = map[j].size
    <3>1. map[j] \in Entry
      OBVIOUS
    <3> QED
      BY <3>1, EntryFields
  <2>2. (e + y) % Word = e + y
    <3>1. PICK n \in Nat : n = e + y
      BY <2>1
    <3>2. n < w
      BY <1>4, <2>1, <3>1 DEF Unwrapped
    <3>3. n % w = n
      BY <3>2, Remainder
    <3> QED
      BY <1>4, <3>1, <3>3
  <2>3. HoldsDspAddress(map[j], x) <=> e <= x /\ e + y > x
    BY <2>1, <2>2 DEF HoldsDspAddress
  <2>4. CASE j = i
    BY <1>2, <1>6, <2>1, <2>3, <2>4
  <2>5. CASE j # i
    <3>1. d + z <= e \/ e + y <= d
      BY <1>2, <2>1, <2>5 DEF Unwrapped, Apart
    <3>2. ~(e <= x /\ e + y > x)
      BY <1>6, <3>1
    <3> QED
      BY <2>3, <2>5, <3>2
  <2> QED
    BY <2>4, <2>5
<1>9. SelectInSeq(map, LAMBDA e : HoldsDspAddress(e, x)) = i
  <2>1. PICK I : I = {j \in 1 .. Len(map) : HoldsDspAddress(map[j], x)}
    OBVIOUS
  <2>2. I = {i}
    BY <1>8, <2>1
  <2>3. Min(I) = i
    BY <2>2 DEF Min
  <2>4. SelectInSeq(map, LAMBDA e : HoldsDspAddress(e, x)) = Min(I)
    BY <2>1, <2>2 DEF SelectInSeq
  <2> QED
    BY <2>3, <2>4
<1>10. TranslateToHost(map, x) = s + x - d
  <2>1. i # 0
    OBVIOUS
  <2> QED
    BY <1>2, <1>9, <2>1 DEF TranslateToHost
<1>11. s + x - d = addr
  BY <1>5
<1>12. x # NoTranslation
  BY <1>4, <1>6 DEF NoTranslation
<1> QED
  BY <1>7, <1>10, <1>11, <1>12

(***************************************************************************)
(* Lists without repetitions.                                              *)
(***************************************************************************)

Distinct(s) == \A i, j \in DOMAIN s : s[i] = s[j] => i = j

\* The first place where a list holds x.
LEMMA FirstPlace ==
  ASSUME NEW S, NEW s \in Seq(S), NEW I, I \subseteq 1 .. Len(s), I # {}
  PROVE  Min(I) \in I
<1>1. I \subseteq Nat
  OBVIOUS
<1> QED
  BY <1>1, Least DEF Min

\* The elements of a list.
LEMMA ToSetFacts ==
  ASSUME NEW S, NEW s \in Seq(S)
  PROVE  /\ ToSet(s) \subseteq S
         /\ \A i \in 1 .. Len(s) : s[i] \in ToSet(s)
         /\ \A x \in ToSet(s) : \E i \in 1 .. Len(s) : x = s[i]
  BY DEF ToSet

\* Taking an element off a list without repetitions.
LEMMA RemoveFacts ==
  ASSUME NEW S, NEW s \in Seq(S), NEW x, Distinct(s)
  PROVE  /\ RemoveFirst(s, x) \in Seq(S) /\ Distinct(RemoveFirst(s, x))
         /\ ToSet(RemoveFirst(s, x)) = ToSet(s) \ {x}
<1>1. CASE ~\E i \in 1 .. Len(s) : s[i] = x
  <2>1. RemoveFirst(s, x) = s
    BY <1>1 DEF RemoveFirst
  <2>2. x \notin ToSet(s)
    BY <1>1, ToSetFacts
  <2> QED
    BY <2>1, <2>2
<1>2. CASE \E i \in 1 .. Len(s) : s[i] = x
  <2>1. PICK I : I = {i \in 1 .. Len(s) : s[i] = x}
    OBVIOUS
  <2>2. I # {} /\ I \subseteq 1 .. Len(s)
    BY <1>2, <2>1
  <2>3. RemoveFirst(s, x) = RemoveAt(s, Min(I))
    <3>1. SelectInSeq(s, LAMBDA v : v = x) = Min(I)
      BY <2>1, <2>2 DEF SelectInSeq
    <3> QED
      BY <1>2, <3>1 DEF RemoveFirst
  <2>4. PICK k \in 1 .. Len(s) : k = Min(I) /\ s[k] = x
    BY <2>1, <2>2, FirstPlace
  <2>5. PICK t : t = SubSeq(s, 1, k - 1) \o SubSeq(s, k + 1, Len(s))
    OBVIOUS
  <2>6. /\ t \in Seq(S) /\ Len(t) = Len(s) - 1
        /\ \A i \in 1 .. k - 1 : t[i] = s[i]
        /\ \A i \in k .. Len(s) - 1 : t[i] = s[i + 1]
    <3>1. PICK a \in Seq(S) : a = SubSeq(s, 1, k - 1)
      <4>1. SubSeq(s, 1, k - 1) \in Seq(S)
        BY <2>4, SubSeqProperties
      <4> QED
        BY <4>1
    <3>2. Len(a) = k - 1 /\ \A i \in 1 .. k - 1 : a[i] = s[i]
      BY <3>1
    <3>3. PICK b \in Seq(S) : b = SubSeq(s, k + 1, Len(s))
      <4>1. SubSeq(s, k + 1, Len(s)) \in Seq(S)
        BY <2>4, SubSeqProperties
      <4> QED
        BY <4>1
    <3>4. Len(b) = Len(s) - k /\ \A i \in 1 .. Len(s) - k : b[i] = s[k + i]
      BY <3>3
    <3>5. t = a \o b
      BY <2>5, <3>1, <3>3
    <3>6. t \in Seq(S) /\ Len(t) = Len(s) - 1
      BY <3>2, <3>4, <3>5
    <3>7. \A i \in 1 .. k - 1 : t[i] = a[i]
      BY <3>2, <3>4, <3>5
    <3>8. \A i \in k .. Len(s) - 1 : t[i] = b[i - (k - 1)]
      BY <3>2, <3>4, <3>5
    <3> QED
      BY <3>2, <3>4, <3>6, <3>7, <3>8
  <2>7. /\ DOMAIN t = 1 .. Len(s) - 1 /\ DOMAIN s = 1 .. Len(s) /\ Len(s) \in Nat
    BY <2>6
  <2>8. \A i \in 1 .. Len(s) : s[i] = x => i = k
    BY <2>4, <2>7 DEF Distinct
  <2>9. \A i \in 1 .. Len(s) - 1 : \E j \in 1 .. Len(s) :
          t[i] = s[j] /\ j # k /\ j = IF i < k THEN i ELSE i + 1
    <3> TAKE i \in 1 .. Len(s) - 1
    <3>1. CASE i < k
      <4>1. i \in 1 .. k - 1 /\ i \in 1 .. Len(s) /\ i # k
        BY <2>7, <3>1
      <4> QED
        BY <2>6, <3>1, <4>1
    <3>2. CASE ~(i < k)
      <4>1. i \in k .. Len(s) - 1 /\ i + 1 \in 1 .. Len(s) /\ i + 1 # k
        BY <2>7, <3>2
      <4> QED
        BY <2>6, <3>2, <4>1
    <3> QED
      BY <3>1, <3>2
  <2>10. Distinct(t)
    <3> SUFFICES ASSUME NEW i \in 1 .. Len(s) - 1, NEW j \in 1 .. Len(s) - 1, t[i] = t[j]
                 PROVE  i = j
      BY <2>7 DEF Distinct
    <3>1. PICK m \in 1 .. Len(s) : t[i] = s[m] /\ m = IF i < k THEN i ELSE i + 1
      BY <2>9
    <3>2. PICK n \in 1 .. Len(s) : t[j] = s[n] /\ n = IF j < k THEN j ELSE j + 1
      BY <2>9
    <3>3. m = n
      BY <3>1, <3>2, <2>7 DEF Distinct
    <3> QED
      BY <3>1, <3>2, <3>3
  <2>11. ASSUME NEW y
         PROVE  y \in ToSet(t) <=> y \in ToSet(s) \ {x}
    <3>1. ASSUME y \in ToSet(t)
          PROVE  y \in ToSet(s) /\ y # x
      <4>1. PICK i \in 1 .. Len(s) - 1 : y = t[i]
        BY <2>7, <3>1 DEF ToSet
      <4>2. PICK j \in 1 .. Len(s) : t[i] = s[j] /\ j # k
        BY <2>9
      <4> QED
        BY <4>1, <4>2, <2>8, ToSetFacts
    <3>2. ASSUME y \in ToSet(s), y # x
          PROVE  y \in ToSet(t)
      <4>1. PICK j \in 1 .. Len(s) : y = s[j]
        BY <3>2, ToSetFacts
      <4>2. j # k
        BY <2>4, <3>2, <4>1
      <4>3. PICK i \in 1 .. Len(s) - 1 : t[i] = s[j]
        <5>1. CASE j < k
          <6>1. j \in 1 .. k - 1 /\ j \in 1 .. Len(s) - 1
            BY <5>1
          <6> QED
            BY <6>1, <2>6
        <5>2. CASE j > k
          <6>1. j - 1 \in k .. Len(s) - 1 /\ j - 1 \in 1 .. Len(s) - 1 /\ (j - 1) + 1 = j
            BY <5>2
          <6> QED
            BY <6>1, <2>6
        <5> QED
          BY <4>2, <5>1, <5>2
      <4> QED
        BY <2>7, <4>1, <4>3 DEF ToSet
    <3> QED
      BY <3>1, <3>2
  <2>12. RemoveFirst(s, x) = t
    BY <2>3, <2>4, <2>5 DEF RemoveAt
  <2> QED
    BY <2>6, <2>10, <2>11, <2>12
<1> QED
  BY <1>1, <1>2

\* Two such lists with nothing in common ...
Separate(S, a, b) ==
  /\ a \in Seq(S) /\ Distinct(a)
  /\ b \in Seq(S) /\ Distinct(b)
  /\ ToSet(a) \cap ToSet(b) = {}

\* ... one after the other.
Joined(S, a, b) ==
  /\ a \o b \in Seq(S) /\ Distinct(a \o b)
  /\ ToSet(a \o b) = ToSet(a) \cup ToSet(b)

\* Both together have no repetitions.
LEMMA ConcatJoined ==
  ASSUME NEW S, NEW a \in Seq(S), NEW b \in Seq(S), Distinct(a), Distinct(b),
         ToSet(a) \cap ToSet(b) = {}
  PROVE  /\ a \o b \in Seq(S) /\ Distinct(a \o b)
         /\ ToSet(a \o b) = ToSet(a) \cup ToSet(b)
<1>1. PICK c \in Seq(S) : c = a \o b
  <2>1. a \o b \in Seq(S)
    OBVIOUS
  <2> QED
    BY <2>1
<1>2. PICK m \in Nat, n \in Nat : m = Len(a) /\ n = Len(b)
  OBVIOUS
<1>3. /\ DOMAIN a = 1 .. m /\ DOMAIN b = 1 .. n /\ DOMAIN c = 1 .. m + n
      /\ \A i \in 1 .. m : c[i] = a[i]
      /\ \A i \in m + 1 .. m + n : c[i] = b[i - m]
  BY <1>1, <1>2
<1>4. \A i \in m + 1 .. m + n : i - m \in 1 .. n
  OBVIOUS
<1>5. \A i \in 1 .. m, j \in 1 .. n : a[i] # b[j]
  BY <1>3 DEF ToSet
<1>6. Distinct(c)
  <2> SUFFICES ASSUME NEW i \in 1 .. m + n, NEW j \in 1 .. m + n, c[i] = c[j]
               PROVE  i = j
    BY <1>3 DEF Distinct
  <2>1. CASE i <= m /\ j <= m
    <3>1. i \in 1 .. m /\ j \in 1 .. m
      BY <2>1
    <3>2. a[i] = a[j]
      BY <1>3, <3>1
    <3> QED
      BY <1>3, <3>1, <3>2 DEF Distinct
  <2>2. CASE i > m /\ j > m
    <3>1. i \in m + 1 .. m + n /\ j \in m + 1 .. m + n
      BY <2>2
    <3>2. b[i - m] = b[j - m] /\ i - m \in 1 .. n /\ j - m \in 1 .. n
      BY <1>3, <1>4, <3>1
    <3>3. i - m = j - m
      BY <1>3, <3>2 DEF Distinct
    <3> QED
      BY <3>3
  <2>3. CASE i <= m /\ j > m
    <3>1. i \in 1 .. m /\ j \in m + 1 .. m + n
      BY <2>3
    <3> QED
      BY <1>3, <1>4, <1>5, <3>1
  <2>4. CASE i > m /\ j <= m
    <3>1. j \in 1 .. m /\ i \in m + 1 .. m + n
      BY <2>4
    <3> QED
      BY <1>3, <1>4, <1>5, <3>1
  <2> QED
    BY <1>2, <2>1, <2>2, <2>3, <2>4
<1>7. ASSUME NEW y PROVE y \in ToSet(c) <=> y \in ToSet(a) \cup ToSet(b)
  <2>1. ASSUME y \in ToSet(c) PROVE y \in ToSet(a) \cup ToSet(b)
    <3>1. PICK i \in 1 .. m + n : y = c[i]
      BY <1>3, <2>1 DEF ToSet
    <3>2. CASE i <= m
      <4>1. i \in 1 .. m
        BY <3>2
      <4> QED
        BY <1>3, <3>1, <4>1 DEF ToSet
    <3>3. CASE i > m
      <4>1. i \in m + 1 .. m + n
        BY <3>3
      <4> QED
        BY <1>3, <1>4, <3>1, <4>1 DEF ToSet
    <3> QED
      BY <1>2, <3>2, <3>3
  <2>2. ASSUME y \in ToSet(a) PROVE y \in ToSet(c)
    <3>1. PICK i \in 1 .. m : y = a[i]
      BY <1>3, <2>2 DEF ToSet
    <3>2. i \in 1 .. m + n
      OBVIOUS
    <3> QED
      BY <1>3, <3>1, <3>2 DEF ToSet
  <2>3. ASSUME y \in ToSet(b) PROVE y \in ToSet(c)
    <3>1. PICK i \in 1 .. n : y = b[i]
      BY <1>3, <2>3 DEF ToSet
    <3>2. i + m \in m + 1 .. m + n /\ (i + m) - m = i /\ i + m \in 1 .. m + n
      OBVIOUS
    <3>3. c[i + m] = b[i]
      BY <1>3, <3>2
    <3> QED
      BY <1>3, <3>1, <3>2, <3>3 DEF ToSet
  <2> QED
    BY <2>1, <2>2, <2>3
<1> QED
  BY <1>1, <1>6, <1>7

\* The same with names for what is assumed and what follows.
LEMMA ConcatFacts ==
  ASSUME NEW S, NEW a, NEW b, Separate(S, a, b)
  PROVE  Joined(S, a, b)
  BY ConcatJoined DEF Separate, Joined

\* A new head.
LEMMA PushFacts ==
  ASSUME NEW S, NEW s \in Seq(S), NEW x \in S, x \notin ToSet(s), Distinct(s)
  PROVE  /\ <<x>> \o s \in Seq(S) /\ Distinct(<<x>> \o s)
         /\ ToSet(<<x>> \o s) = ToSet(s) \cup {x}
<1>1. <<x>> \in Seq(S) /\ Distinct(<<x>>) /\ ToSet(<<x>>) = {x}
  BY DEF Distinct, ToSet
<1>2. PICK a \in Seq(S) : a = <<x>>
  BY <1>1
<1>3. Distinct(a) /\ ToSet(a) \cap ToSet(s) = {}
  BY <1>1, <1>2
<1>4. Joined(S, a, s)
  <2>1. Separate(S, a, s)
    BY <1>3 DEF Separate
  <2> QED
    BY <2>1, ConcatFacts
<1>5. <<x>> \o s = a \o s
  BY <1>2
<1> QED
  BY <1>1, <1>2, <1>4, <1>5 DEF Joined

\* The slots of a request.
SlotName == {"in", "out", "b1", "b2", "descriptors"}

\* The slots of a request are a list without repetitions.
LEMMA SlotsFacts ==
  ASSUME NEW s \in Shape
  PROVE  Slots(s) \in Seq(SlotName) /\ Distinct(Slots(s))
<1>1. PICK a \in Seq(SlotName) : /\ a = IF s.in THEN <<"in">> ELSE <<>>
                                 /\ Distinct(a) /\ ToSet(a) \subseteq {"in"}
  <2>1. CASE s.in
    <3>1. <<"in">> \in Seq(SlotName) /\ Distinct(<<"in">>) /\ ToSet(<<"in">>) = {"in"}
      BY DEF SlotName, Distinct, ToSet
    <3> QED
      BY <2>1, <3>1
  <2>2. CASE ~s.in
    <3>1. <<>> \in Seq(SlotName) /\ Distinct(<<>>) /\ ToSet(<<>>) = {}
      BY DEF SlotName, Distinct, ToSet
    <3> QED
      BY <2>2, <3>1
  <2> QED
    BY <2>1, <2>2
<1>2. PICK b \in Seq(SlotName) : /\ b = IF s.out THEN <<"out">> ELSE <<>>
                                 /\ Distinct(b) /\ ToSet(b) \subseteq {"out"}
  <2>1. CASE s.out
    <3>1. <<"out">> \in Seq(SlotName) /\ Distinct(<<"out">>) /\ ToSet(<<"out">>) = {"out"}
      BY DEF SlotName, Distinct, ToSet
    <3> QED
      BY <2>1, <3>1
  <2>2. CASE ~s.out
    <3>1. <<>> \in Seq(SlotName) /\ Distinct(<<>>) /\ ToSet(<<>>) = {}
      BY DEF SlotName, Distinct, ToSet
    <3> QED
      BY <2>2, <3>1
  <2> QED
    BY <2>1, <2>2
<1>3. PICK c \in Seq(SlotName) : /\ c = SubSeq(<<"b1", "b2">>, 1, s.n)
                                 /\ Distinct(c) /\ ToSet(c) \subseteq {"b1", "b2"}
  <2>1. PICK n \in 0 .. 2 : n = s.n
    BY FileAssumption
  <2>2. PICK w \in Seq(SlotName) : w = <<"b1", "b2">> /\ Len(w) = 2
    <3>1. <<"b1", "b2">> \in Seq(SlotName) /\ Len(<<"b1", "b2">>) = 2
      BY DEF SlotName
    <3> QED
      BY <3>1
  <2>3. w[1] = "b1" /\ w[2] = "b2"
    BY <2>2
  <2>4. PICK v \in Seq(SlotName) : v = SubSeq(w, 1, n)
    <3>1. SubSeq(w, 1, n) \in Seq(SlotName)
      BY <2>1, <2>2, SubSeqProperties
    <3> QED
      BY <3>1
  <2>5. Len(v) = n /\ DOMAIN v = 1 .. n /\ \A i \in 1 .. n : v[i] = w[i]
    BY <2>1, <2>2, <2>4
  <2>6. \A i \in 1 .. n : i = 1 \/ i = 2
    BY <2>1
  <2>7. Distinct(v)
    BY <2>3, <2>5, <2>6 DEF Distinct
  <2>8. ToSet(v) \subseteq {"b1", "b2"}
    BY <2>3, <2>5, <2>6 DEF ToSet
  <2>9. v = SubSeq(<<"b1", "b2">>, 1, s.n)
    BY <2>1, <2>2, <2>4
  <2> QED
    BY <2>7, <2>8, <2>9
<1>4. PICK d \in Seq(SlotName) :
        /\ d = IF s.n > InlineBuffers THEN <<"descriptors">> ELSE <<>>
        /\ Distinct(d) /\ ToSet(d) \subseteq {"descriptors"}
  <2>1. CASE s.n > InlineBuffers
    <3>1. /\ <<"descriptors">> \in Seq(SlotName) /\ Distinct(<<"descriptors">>)
          /\ ToSet(<<"descriptors">>) = {"descriptors"}
      BY DEF SlotName, Distinct, ToSet
    <3> QED
      BY <2>1, <3>1
  <2>2. CASE ~(s.n > InlineBuffers)
    <3>1. <<>> \in Seq(SlotName) /\ Distinct(<<>>) /\ ToSet(<<>>) = {}
      BY DEF SlotName, Distinct, ToSet
    <3> QED
      BY <2>2, <3>1
  <2> QED
    BY <2>1, <2>2
<1>5. PICK ab \in Seq(SlotName) : /\ ab = a \o b /\ Distinct(ab)
                                  /\ ToSet(ab) \subseteq {"in", "out"}
  <2>1. ToSet(a) \cap ToSet(b) = {}
    BY <1>1, <1>2
  <2>2. Joined(SlotName, a, b)
    <3>1. Separate(SlotName, a, b)
      BY <2>1, <1>1, <1>2 DEF Separate
    <3> QED
      BY <3>1, ConcatFacts
  <2> QED
    BY <1>1, <1>2, <2>2 DEF Joined
<1>6. PICK abc \in Seq(SlotName) : /\ abc = ab \o c /\ Distinct(abc)
                                   /\ ToSet(abc) \subseteq {"in", "out", "b1", "b2"}
  <2>1. ToSet(ab) \cap ToSet(c) = {}
    BY <1>5, <1>3
  <2>2. Joined(SlotName, ab, c)
    <3>1. Separate(SlotName, ab, c)
      BY <2>1, <1>3, <1>5 DEF Separate
    <3> QED
      BY <3>1, ConcatFacts
  <2> QED
    BY <1>3, <1>5, <2>2 DEF Joined
<1>7. PICK abcd \in Seq(SlotName) : abcd = abc \o d /\ Distinct(abcd)
  <2>1. ToSet(abc) \cap ToSet(d) = {}
    BY <1>6, <1>4
  <2>2. Separate(SlotName, abc, d)
    BY <1>4, <1>6, <2>1 DEF Separate
  <2>3. Joined(SlotName, abc, d)
    BY <2>2, ConcatFacts
  <2> QED
    BY <2>3 DEF Joined
<1>8. Slots(s) = ((a \o b) \o c) \o d
  BY <1>1, <1>2, <1>3, <1>4, Zenon DEF Slots
<1> QED
  BY <1>5, <1>6, <1>7, <1>8, Zenon

(***************************************************************************)
(* The invariant.                                                          *)
(***************************************************************************)

\* RefsAccounted, whether or not memory was corrupted, over finite sets.
BlockCounted(b) ==
  /\ IsFiniteSet(Vmas(b)) /\ IsFiniteSet(Listing(b)) /\ IsFiniteSet(Sharing(b))
  /\ ref[b] = Cardinality(Vmas(b)) + Cardinality(Listing(b))
              + Cardinality(Sharing(b)) + lost.ref[b]

PinsCounted ==
  IsFiniteSet(Pinning) /\ pins = Cardinality(Pinning) + lost.pins

Counted == (\A b \in Block : BlockCounted(b)) /\ PinsCounted

\* The part of the invariant about memory ...
MemoryTypes ==
  /\ ref \in [Block -> Nat] /\ pins \in Nat
  /\ owner \in [Block -> File \cup {Nil}]
  /\ busy \in [File -> Seq(Block)]
  /\ vmas \in [File -> [Block -> 0 .. MaxVma]]
  /\ DOMAIN rq = Thread
  /\ lost \in [ref : [Block -> Nat], pins : Nat]

MemoryInv == MemoryTypes /\ Counted /\ BusyExclusive /\ Owned

\* ... and the part about threads.
ThreadTypes ==
  /\ pc \in [Thread -> Place] /\ call \in [Thread -> Call]
  /\ DOMAIN rq = Thread
  /\ \A t \in Thread : \A k \in DOMAIN rq[t] : rq[t][k].kind \in Kind

\* What may be shared with a device: what it reaches, and without a look at its
\* map its own blocks and a beginning of an array.
Exempt(dev, m) ==
  \/ m.kind \in {"native", "copy"} /\ m.block \in Block /\ PoolOf[m.block] \in {dev, Nil}
  \/ m.kind = "kernel" /\ TranslateToDsp(Map[dev], m.area.pages[1]) # NoTranslation

Vetted(dev, m) == InOneEntry(Map[dev], PagesOf(m)) \/ Exempt(dev, m)

AllVetted ==
  \A t \in Thread : pc[t] \in {"map", "dsp"} =>
    \A k \in DOMAIN rq[t] : rq[t][k].kind \notin {"none", "unset", "half"} =>
      Vetted(DeviceOf[call[t].file], rq[t][k])

ThreadInv == ThreadTypes /\ Calling /\ AllVetted

FileTypes == known \subseteq opened /\ opened \subseteq File /\ off \subseteq Device

IInv == MemoryInv /\ ThreadInv /\ FileTypes

\* The types of the three parts are the type invariant.
LEMMA TypesTogether ==
  MemoryTypes /\ ThreadTypes /\ FileTypes <=> TypeOK
  BY DEF MemoryTypes, ThreadTypes, FileTypes, TypeOK

(***************************************************************************)
(* The users of a block.                                                   *)
(***************************************************************************)

\* What does not touch mappings, lists or requests leaves the users as they are.
LEMMA VmasSame ==
  ASSUME NEW b, UNCHANGED vmas
  PROVE  Vmas(b)' = Vmas(b)
  BY DEF Vmas

\* The same for the busy lists ...
LEMMA ListingSame ==
  ASSUME NEW b, UNCHANGED busy
  PROVE  Listing(b)' = Listing(b)
  BY DEF Listing

\* ... and for the requests.
LEMMA SharingSame ==
  ASSUME NEW b, UNCHANGED rq
  PROVE  Sharing(b)' = Sharing(b) /\ Pinning' = Pinning
  BY DEF Sharing, Pinning

\* One more mapping of a block through a file.
LEMMA VmasMore ==
  ASSUME MemoryTypes, NEW f \in File, NEW b \in Block, AddVma(f, b), NEW c \in Block
  PROVE  /\ c # b => Vmas(c)' = Vmas(c)
         /\ Vmas(b)' = Vmas(b) \cup {<<f, vmas[f][b] + 1>>}
         /\ <<f, vmas[f][b] + 1>> \notin Vmas(b)
<1>1. vmas \in [File -> [Block -> 0 .. MaxVma]] /\ MaxVma \in Nat
  BY FileAssumption DEF MemoryTypes
<1>2. \A g \in File, d \in Block :
        vmas'[g][d] = IF g = f /\ d = b THEN vmas[g][d] + 1 ELSE vmas[g][d]
  BY <1>1 DEF AddVma
<1>3. c # b => Vmas(c)' = Vmas(c)
  <2>1. c # b => \A g \in File : vmas'[g][c] = vmas[g][c]
    BY <1>2
  <2> QED
    BY <2>1 DEF Vmas
<1>4. PICK n \in Nat : n = vmas[f][b]
  BY <1>1
<1>5. \A k : k \in 1 .. n + 1 <=> k \in 1 .. n \/ k = n + 1
  OBVIOUS
<1>6. n + 1 \notin 1 .. n
  OBVIOUS
<1>7. Vmas(b)' = UNION {{g} \X (1 .. vmas'[g][b]) : g \in File}
  BY DEF Vmas
<1>8. UNION {{g} \X (1 .. vmas'[g][b]) : g \in File} = Vmas(b) \cup {<<f, n + 1>>}
  <2>1. \A z : z \in UNION {{g} \X (1 .. vmas'[g][b]) : g \in File}
              <=> \E g \in File : \E k \in 1 .. vmas'[g][b] : z = <<g, k>>
    OBVIOUS
  <2>2. \A z : z \in Vmas(b)
              <=> \E g \in File : \E k \in 1 .. vmas[g][b] : z = <<g, k>>
    BY DEF Vmas
  <2>3. \A g \in File : \A k : k \in 1 .. vmas'[g][b] <=>
          IF g = f THEN k \in 1 .. vmas[g][b] \/ k = n + 1 ELSE k \in 1 .. vmas[g][b]
    BY <1>2, <1>4, <1>5
  <2>4. n + 1 \notin 1 .. vmas[f][b]
    BY <1>4, <1>6
  <2> QED
    BY <2>1, <2>2, <2>3, <2>4
<1>9. <<f, n + 1>> \notin Vmas(b)
  BY <1>4, <1>6 DEF Vmas
<1> QED
  BY <1>3, <1>4, <1>7, <1>8, <1>9

\* One less.
LEMMA VmasLess ==
  ASSUME MemoryTypes, NEW f \in File, NEW b \in Block, vmas[f][b] > 0, DelVma(f, b),
         NEW c \in Block
  PROVE  /\ c # b => Vmas(c)' = Vmas(c)
         /\ Vmas(b)' = Vmas(b) \ {<<f, vmas[f][b]>>}
         /\ <<f, vmas[f][b]>> \in Vmas(b)
<1>1. vmas \in [File -> [Block -> 0 .. MaxVma]] /\ MaxVma \in Nat
  BY FileAssumption DEF MemoryTypes
<1>2. \A g \in File, d \in Block :
        vmas'[g][d] = IF g = f /\ d = b THEN vmas[g][d] - 1 ELSE vmas[g][d]
  BY <1>1 DEF DelVma
<1>3. c # b => Vmas(c)' = Vmas(c)
  <2>1. c # b => \A g \in File : vmas'[g][c] = vmas[g][c]
    BY <1>2
  <2> QED
    BY <2>1 DEF Vmas
<1>4. PICK n \in Nat : n = vmas[f][b] /\ n > 0
  BY <1>1
<1>5. \A k : k \in 1 .. n - 1 <=> k \in 1 .. n /\ k # n
  BY <1>4
<1>6. n \in 1 .. n
  BY <1>4
<1>7. Vmas(b)' = UNION {{g} \X (1 .. vmas'[g][b]) : g \in File}
  BY DEF Vmas
<1>8. UNION {{g} \X (1 .. vmas'[g][b]) : g \in File} = Vmas(b) \ {<<f, n>>}
  <2>1. \A z : z \in UNION {{g} \X (1 .. vmas'[g][b]) : g \in File}
              <=> \E g \in File : \E k \in 1 .. vmas'[g][b] : z = <<g, k>>
    OBVIOUS
  <2>2. \A z : z \in Vmas(b)
              <=> \E g \in File : \E k \in 1 .. vmas[g][b] : z = <<g, k>>
    BY DEF Vmas
  <2>3. \A g \in File : \A k : k \in 1 .. vmas'[g][b] <=>
          IF g = f THEN k \in 1 .. vmas[g][b] /\ k # n ELSE k \in 1 .. vmas[g][b]
    BY <1>2, <1>4, <1>5
  <2>4. n \in 1 .. vmas[f][b]
    BY <1>4, <1>6
  <2> QED
    BY <2>1, <2>2, <2>3, <2>4
<1>9. <<f, n>> \in Vmas(b)
  BY <1>4, <1>6 DEF Vmas
<1> QED
  BY <1>3, <1>4, <1>7, <1>8, <1>9

\* A block enters the list of a file, leaves it, or the list is forgotten.
LEMMA ListingMore ==
  ASSUME MemoryTypes, NEW f \in File, NEW b \in Block, Distinct(busy[f]),
         b \notin ToSet(busy[f]), AllocationQueue(f, b)
  PROVE  /\ busy' \in [File -> Seq(Block)] /\ Distinct(busy'[f])
         /\ \A g \in File \ {f} : busy'[g] = busy[g]
         /\ \A c \in Block : Listing(c)' = IF c = b THEN Listing(c) \cup {f} ELSE Listing(c)
<1>1. busy \in [File -> Seq(Block)]
  BY DEF MemoryTypes
<1>2. PICK s \in Seq(Block) : s = busy[f]
  BY <1>1
<1>3. /\ <<b>> \o s \in Seq(Block) /\ Distinct(<<b>> \o s)
      /\ ToSet(<<b>> \o s) = ToSet(s) \cup {b}
  BY <1>2, PushFacts
<1>4. PICK p \in Seq(Block) : p = <<b>> \o s /\ Distinct(p) /\ ToSet(p) = ToSet(s) \cup {b}
  BY <1>3
<1>5. busy' = [busy EXCEPT ![f] = p]
  BY <1>2, <1>4 DEF AllocationQueue
<1>6. /\ busy' \in [File -> Seq(Block)] /\ busy'[f] = p
      /\ \A g \in File \ {f} : busy'[g] = busy[g]
  BY <1>1, <1>5
<1>7. ASSUME NEW c \in Block
      PROVE  Listing(c)' = IF c = b THEN Listing(c) \cup {f} ELSE Listing(c)
  <2>1. Listing(c)' = {g \in File : c \in ToSet(busy'[g])}
    BY DEF Listing
  <2>2. \A g \in File : c \in ToSet(busy'[g]) <=>
          c \in ToSet(busy[g]) \/ (c = b /\ g = f)
    <3> TAKE g \in File
    <3>1. CASE g = f
      BY <1>2, <1>4, <1>6, <3>1
    <3>2. CASE g # f
      BY <1>6, <3>2
    <3> QED
      BY <3>1, <3>2
  <2> QED
    BY <2>1, <2>2 DEF Listing
<1> QED
  BY <1>4, <1>6, <1>7

\* A block leaves the list it is found on (xrp_allocation_dequeue).
LEMMA ListingLess ==
  ASSUME MemoryTypes, NEW f \in File, NEW b \in Block, Distinct(busy[f]),
         AllocationDequeue(f, b)
  PROVE  /\ busy' \in [File -> Seq(Block)] /\ Distinct(busy'[f])
         /\ \A g \in File \ {f} : busy'[g] = busy[g]
         /\ b \in ToSet(busy[f]) /\ ToSet(busy'[f]) = ToSet(busy[f]) \ {b}
         /\ \A c \in Block : Listing(c)' = IF c = b THEN Listing(c) \ {f} ELSE Listing(c)
<1>1. busy \in [File -> Seq(Block)]
  BY DEF MemoryTypes
<1>2. PICK s \in Seq(Block) : s = busy[f]
  BY <1>1
<1>3. /\ RemoveFirst(s, b) \in Seq(Block) /\ Distinct(RemoveFirst(s, b))
      /\ ToSet(RemoveFirst(s, b)) = ToSet(s) \ {b}
  BY <1>2, RemoveFacts
<1>4. PICK p \in Seq(Block) : /\ p = RemoveFirst(s, b) /\ Distinct(p)
                              /\ ToSet(p) = ToSet(s) \ {b}
  BY <1>3
<1>5. busy' = [busy EXCEPT ![f] = p] /\ b \in ToSet(busy[f])
  BY <1>2, <1>4 DEF AllocationDequeue
<1>6. /\ busy' \in [File -> Seq(Block)] /\ busy'[f] = p
      /\ \A g \in File \ {f} : busy'[g] = busy[g]
  BY <1>1, <1>5
<1>7. ASSUME NEW c \in Block
      PROVE  Listing(c)' = IF c = b THEN Listing(c) \ {f} ELSE Listing(c)
  <2>1. Listing(c)' = {g \in File : c \in ToSet(busy'[g])}
    BY DEF Listing
  <2>2. \A g \in File : c \in ToSet(busy'[g]) <=>
          c \in ToSet(busy[g]) /\ ~(c = b /\ g = f)
    <3> TAKE g \in File
    <3>1. CASE g = f
      BY <1>2, <1>4, <1>6, <3>1
    <3>2. CASE g # f
      BY <1>6, <3>2
    <3> QED
      BY <3>1, <3>2
  <2> QED
    BY <2>1, <2>2 DEF Listing
<1> QED
  BY <1>2, <1>4, <1>5, <1>6, <1>7

\* A closed file's list is empty.
LEMMA ListingNone ==
  ASSUME MemoryTypes, NEW f \in File, busy' = [busy EXCEPT ![f] = <<>>]
  PROVE  /\ busy' \in [File -> Seq(Block)] /\ busy'[f] = <<>>
         /\ \A g \in File \ {f} : busy'[g] = busy[g]
         /\ \A c \in Block : Listing(c)' = Listing(c) \ {f}
<1>1. busy \in [File -> Seq(Block)]
  BY DEF MemoryTypes
<1>2. /\ busy' \in [File -> Seq(Block)] /\ busy'[f] = <<>>
      /\ \A g \in File \ {f} : busy'[g] = busy[g]
  BY <1>1
<1>3. ToSet(<<>>) = {}
  BY DEF ToSet
<1>4. ASSUME NEW c \in Block
      PROVE  Listing(c)' = Listing(c) \ {f}
  <2>1. Listing(c)' = {g \in File : c \in ToSet(busy'[g])}
    BY DEF Listing
  <2>2. \A g \in File : c \in ToSet(busy'[g]) <=> c \in ToSet(busy[g]) /\ g # f
    BY <1>2, <1>3
  <2> QED
    BY <2>1, <2>2 DEF Listing
<1> QED
  BY <1>2, <1>4

(***************************************************************************)
(* The mappings of requests.                                               *)
(***************************************************************************)

\* One slot is set.
LEMMA SlotSet ==
  ASSUME DOMAIN rq = Thread, NEW t \in Thread, NEW k \in DOMAIN rq[t], NEW m,
         rq' = [rq EXCEPT ![t][k] = m]
  PROVE  /\ DOMAIN rq' = Thread /\ DOMAIN rq'[t] = DOMAIN rq[t] /\ rq'[t][k] = m
         /\ \A u \in Thread \ {t} : rq'[u] = rq[u]
         /\ \A j \in DOMAIN rq[t] \ {k} : rq'[t][j] = rq[t][j]
<1>1. PICK r : r = [rq[t] EXCEPT ![k] = m]
  OBVIOUS
<1>2. DOMAIN r = DOMAIN rq[t] /\ r[k] = m /\ \A j \in DOMAIN rq[t] \ {k} : r[j] = rq[t][j]
  BY <1>1
<1>3. rq' = [rq EXCEPT ![t] = r]
  BY <1>1
<1>4. DOMAIN rq' = Thread /\ rq'[t] = r /\ \A u \in Thread \ {t} : rq'[u] = rq[u]
  BY <1>3
<1> QED
  BY <1>2, <1>4

\* All slots of a thread are set.
LEMMA RequestSet ==
  ASSUME DOMAIN rq = Thread, NEW t \in Thread, NEW r, rq' = [rq EXCEPT ![t] = r]
  PROVE  DOMAIN rq' = Thread /\ rq'[t] = r /\ \A u \in Thread \ {t} : rq'[u] = rq[u]
  OBVIOUS

\* Pairs of an index and a member of its set.
Pairs(A) == UNION {{u} \X A[u] : u \in DOMAIN A}

\* The pairs of an index and an element of its set.
LEMMA PairsAre ==
  ASSUME NEW A
  PROVE  \A z : z \in Pairs(A) <=> \E u \in DOMAIN A : \E j \in A[u] : z = <<u, j>>
  BY DEF Pairs

\* Only the set of t grows, by k.
Grows(T, A, B, t, k) ==
  /\ DOMAIN A = T /\ DOMAIN B = T
  /\ k \notin A[t] /\ B[t] = A[t] \cup {k}
  /\ \A u \in T \ {t} : B[u] = A[u]

\* One set grows by one element, and so do the pairs.
LEMMA PairsMore ==
  ASSUME NEW T, NEW A, NEW B, NEW t \in T, NEW k, Grows(T, A, B, t, k)
  PROVE  Pairs(B) = Pairs(A) \cup {<<t, k>>} /\ <<t, k>> \notin Pairs(A)
<1>1. \A u \in T : \A j : j \in B[u] <=> j \in A[u] \/ (u = t /\ j = k)
  BY DEF Grows
<1>2. \A z : z \in Pairs(A) <=> \E u \in T : \E j \in A[u] : z = <<u, j>>
  BY PairsAre DEF Grows
<1>3. \A z : z \in Pairs(B) <=> \E u \in T : \E j \in B[u] : z = <<u, j>>
  BY PairsAre DEF Grows
<1>4. ASSUME NEW z \in Pairs(B)
      PROVE  z \in Pairs(A) \/ z = <<t, k>>
  BY <1>1, <1>2, <1>3
<1>5. ASSUME NEW z \in Pairs(A)
      PROVE  z \in Pairs(B)
  BY <1>1, <1>2, <1>3
<1>6. <<t, k>> \in Pairs(B)
  BY <1>1, <1>3
<1>7. <<t, k>> \notin Pairs(A)
  BY <1>2 DEF Grows
<1> QED
  BY <1>4, <1>5, <1>6, <1>7

\* One set becomes empty, and its pairs go.
LEMMA PairsLess ==
  ASSUME NEW T, NEW A, NEW B, DOMAIN A = T, DOMAIN B = T, NEW t \in T,
         B[t] = {}, \A u \in T \ {t} : B[u] = A[u]
  PROVE  Pairs(B) = Pairs(A) \ ({t} \X A[t]) /\ {t} \X A[t] \subseteq Pairs(A)
<1>1. \A u \in T : \A j : j \in B[u] <=> j \in A[u] /\ u # t
  OBVIOUS
<1>2. \A z : z \in Pairs(A) <=> \E u \in T : \E j \in A[u] : z = <<u, j>>
  BY PairsAre
<1>3. \A z : z \in Pairs(B) <=> \E u \in T : \E j \in B[u] : z = <<u, j>>
  BY PairsAre
<1>4. \A z : z \in {t} \X A[t] <=> \E j \in A[t] : z = <<t, j>>
  OBVIOUS
<1>5. ASSUME NEW z \in Pairs(B)
      PROVE  z \in Pairs(A) /\ z \notin {t} \X A[t]
  BY <1>1, <1>2, <1>3, <1>4
<1>6. ASSUME NEW z \in Pairs(A), z \notin {t} \X A[t]
      PROVE  z \in Pairs(B)
  BY <1>1, <1>2, <1>3, <1>4, <1>6
<1>7. {t} \X A[t] \subseteq Pairs(A)
  BY <1>2, <1>4
<1> QED
  BY <1>5, <1>6, <1>7

\* The pairs of an index with its set are as many as that set.
LEMMA PairsOfIndex ==
  ASSUME NEW S, IsFiniteSet(S), NEW t, NEW H, {t} \X H \subseteq S
  PROVE  /\ IsFiniteSet(H) /\ Cardinality(H) \in Nat /\ Cardinality(S) \in Nat
         /\ IsFiniteSet(S \ ({t} \X H))
         /\ Cardinality(S \ ({t} \X H)) = Cardinality(S) - Cardinality(H)
<1>1. IsFiniteSet({t} \X H)
  BY FS_Subset
<1>2. IsFiniteSet(H)
  <2>1. PICK g : g = [j \in H |-> <<t, j>>]
    OBVIOUS
  <2>2. g \in Injection(H, {t} \X H)
    BY <2>1 DEF Injection, IsInjective
  <2> QED
    BY <1>1, <2>2, FS_Injection
<1>3. IsFiniteSet({t}) /\ Cardinality({t}) = 1
  BY FS_Singleton
<1>4. Cardinality({t} \X H) = 1 * Cardinality(H)
  BY <1>2, <1>3, FS_Product
<1>5. Cardinality(H) \in Nat /\ Cardinality(S) \in Nat
  BY <1>2, FS_CardinalityType
<1>6. S \cap ({t} \X H) = {t} \X H
  OBVIOUS
<1>7. PICK P : P = {t} \X H
  OBVIOUS
<1>8. IsFiniteSet(S \ P) /\ Cardinality(S \ P) = Cardinality(S) - Cardinality(S \cap P)
  BY FS_Difference
<1>9. S \cap P = P /\ Cardinality(P) = Cardinality(H)
  <2>1. 1 * Cardinality(H) = Cardinality(H)
    BY <1>5
  <2> QED
    BY <1>4, <1>6, <1>7, <2>1
<1>10. Cardinality(S \ P) = Cardinality(S) - Cardinality(H)
  BY <1>8, <1>9
<1> QED
  BY <1>2, <1>5, <1>7, <1>8, <1>10

\* The slots that share a block and those with pins, by thread.
LEMMA SharingPairs ==
  ASSUME NEW c
  PROVE  /\ Sharing(c) = Pairs([u \in Thread |-> Holds(rq[u], c)])
         /\ Sharing(c)' = Pairs([u \in Thread |-> Holds(rq'[u], c)])
<1>1. Sharing(c) = Pairs([u \in Thread |-> Holds(rq[u], c)])
  BY DEF Sharing, Pairs
<1>2. Sharing(c)' = UNION {{u} \X Holds(rq'[u], c) : u \in Thread}
  BY DEF Sharing, Holds
<1>3. UNION {{u} \X Holds(rq'[u], c) : u \in Thread}
        = Pairs([u \in Thread |-> Holds(rq'[u], c)])
  BY DEF Pairs
<1> QED
  BY <1>1, <1>2, <1>3, Zenon

\* The same for the slots with pinned pages.
LEMMA PinningPairs ==
  /\ Pinning = Pairs([u \in Thread |-> Pins(rq[u])])
  /\ Pinning' = Pairs([u \in Thread |-> Pins(rq'[u])])
<1>1. Pinning = Pairs([u \in Thread |-> Pins(rq[u])])
  BY DEF Pinning, Pairs
<1>2. Pinning' = UNION {{u} \X Pins(rq'[u]) : u \in Thread}
  BY DEF Pinning, Pins
<1>3. UNION {{u} \X Pins(rq'[u]) : u \in Thread}
        = Pairs([u \in Thread |-> Pins(rq'[u])])
  BY DEF Pairs
<1> QED
  BY <1>1, <1>2, <1>3, Zenon

\* A slot that held nothing comes to hold a block, or something else.
LEMMA SharingMore ==
  ASSUME DOMAIN rq = Thread, NEW t \in Thread, NEW k \in DOMAIN rq[t], NEW m,
         rq' = [rq EXCEPT ![t][k] = m], rq[t][k].kind \in {"none", "unset"}, NEW c
  PROVE  /\ <<t, k>> \notin Sharing(c)
         /\ Sharing(c)' = IF m.block = c /\ m.kind \in {"native", "copy"}
                    THEN Sharing(c) \cup {<<t, k>>} ELSE Sharing(c)
<1>1. /\ DOMAIN rq' = Thread /\ DOMAIN rq'[t] = DOMAIN rq[t] /\ rq'[t][k] = m
      /\ \A u \in Thread \ {t} : rq'[u] = rq[u]
      /\ \A j \in DOMAIN rq[t] \ {k} : rq'[t][j] = rq[t][j]
  BY SlotSet
<1>2. rq[t][k].kind \notin {"native", "copy", "gup"}
  OBVIOUS
<1>3. PICK A : A = [u \in Thread |-> Holds(rq[u], c)]
  OBVIOUS
<1>4. PICK B : B = [u \in Thread |-> Holds(rq'[u], c)]
  OBVIOUS
<1>5. Sharing(c) = Pairs(A) /\ Sharing(c)' = Pairs(B)
  BY <1>3, <1>4, SharingPairs, Zenon
<1>6. /\ DOMAIN A = Thread /\ DOMAIN B = Thread
      /\ A[t] = Holds(rq[t], c) /\ B[t] = Holds(rq'[t], c)
  BY <1>3, <1>4
<1>7. \A u \in Thread \ {t} : B[u] = A[u]
  BY <1>1, <1>3, <1>4
<1>8. k \notin A[t]
  BY <1>2, <1>6 DEF Holds
<1>9. <<t, k>> \notin Pairs(A)
  <2>1. \A z : z \in Pairs(A) <=> \E u \in Thread : \E j \in A[u] : z = <<u, j>>
    BY <1>6 DEF Pairs
  <2> QED
    BY <1>8, <2>1
<1>10. CASE m.block = c /\ m.kind \in {"native", "copy"}
  <2>1. B[t] = A[t] \cup {k}
    <3>1. \A j : j \in B[t] <=> j \in A[t] \/ j = k
      BY <1>1, <1>2, <1>6, <1>10 DEF Holds
    <3> QED
      BY <3>1
  <2>2. Pairs(B) = Pairs(A) \cup {<<t, k>>}
    <3>1. Grows(Thread, A, B, t, k)
      BY <1>6, <1>7, <1>8, <2>1 DEF Grows
    <3>2. Pairs(B) = Pairs(A) \cup {<<t, k>>} /\ <<t, k>> \notin Pairs(A)
      BY <3>1, PairsMore, Zenon
    <3> QED
      BY <3>2
  <2> QED
    BY <1>5, <1>9, <1>10, <2>2
<1>11. CASE ~(m.block = c /\ m.kind \in {"native", "copy"})
  <2>1. B[t] = A[t]
    <3>1. \A j : j \in B[t] <=> j \in A[t]
      BY <1>1, <1>2, <1>6, <1>11 DEF Holds
    <3> QED
      BY <1>6, <3>1 DEF Holds
  <2>2. B = A
    BY <1>3, <1>4, <1>7, <2>1
  <2> QED
    BY <1>5, <1>9, <1>11, <2>2
<1> QED
  BY <1>10, <1>11

\* A slot of a request is filled: the slots with pinned pages.
LEMMA PinningMore ==
  ASSUME DOMAIN rq = Thread, NEW t \in Thread, NEW k \in DOMAIN rq[t], NEW m,
         rq' = [rq EXCEPT ![t][k] = m], rq[t][k].kind \in {"none", "unset"}
  PROVE  /\ <<t, k>> \notin Pinning
         /\ Pinning' = IF m.kind = "gup"
                    THEN Pinning \cup {<<t, k>>} ELSE Pinning
<1>1. /\ DOMAIN rq' = Thread /\ DOMAIN rq'[t] = DOMAIN rq[t] /\ rq'[t][k] = m
      /\ \A u \in Thread \ {t} : rq'[u] = rq[u]
      /\ \A j \in DOMAIN rq[t] \ {k} : rq'[t][j] = rq[t][j]
  BY SlotSet
<1>2. rq[t][k].kind \notin {"native", "copy", "gup"}
  OBVIOUS
<1>3. PICK A : A = [u \in Thread |-> Pins(rq[u])]
  OBVIOUS
<1>4. PICK B : B = [u \in Thread |-> Pins(rq'[u])]
  OBVIOUS
<1>5. Pinning = Pairs(A) /\ Pinning' = Pairs(B)
  BY <1>3, <1>4, PinningPairs, Zenon
<1>6. /\ DOMAIN A = Thread /\ DOMAIN B = Thread
      /\ A[t] = Pins(rq[t]) /\ B[t] = Pins(rq'[t])
  BY <1>3, <1>4
<1>7. \A u \in Thread \ {t} : B[u] = A[u]
  BY <1>1, <1>3, <1>4
<1>8. k \notin A[t]
  BY <1>2, <1>6 DEF Pins
<1>9. <<t, k>> \notin Pairs(A)
  <2>1. \A z : z \in Pairs(A) <=> \E u \in Thread : \E j \in A[u] : z = <<u, j>>
    BY <1>6 DEF Pairs
  <2> QED
    BY <1>8, <2>1
<1>10. CASE m.kind = "gup"
  <2>1. B[t] = A[t] \cup {k}
    <3>1. \A j : j \in B[t] <=> j \in A[t] \/ j = k
      BY <1>1, <1>2, <1>6, <1>10 DEF Pins
    <3> QED
      BY <3>1
  <2>2. Pairs(B) = Pairs(A) \cup {<<t, k>>}
    <3>1. Grows(Thread, A, B, t, k)
      BY <1>6, <1>7, <1>8, <2>1 DEF Grows
    <3>2. Pairs(B) = Pairs(A) \cup {<<t, k>>} /\ <<t, k>> \notin Pairs(A)
      BY <3>1, PairsMore, Zenon
    <3> QED
      BY <3>2
  <2> QED
    BY <1>5, <1>9, <1>10, <2>2
<1>11. CASE m.kind # "gup"
  <2>1. B[t] = A[t]
    <3>1. \A j : j \in B[t] <=> j \in A[t]
      BY <1>1, <1>2, <1>6, <1>11 DEF Pins
    <3> QED
      BY <1>6, <3>1 DEF Pins
  <2>2. B = A
    BY <1>3, <1>4, <1>7, <2>1
  <2> QED
    BY <1>5, <1>9, <1>11, <2>2
<1> QED
  BY <1>10, <1>11

\* The request of a thread is over.
LEMMA SharingNone ==
  ASSUME DOMAIN rq = Thread, NEW t \in Thread, rq' = [rq EXCEPT ![t] = << >>], NEW c,
         IsFiniteSet(Sharing(c))
  PROVE  /\ IsFiniteSet(Sharing(c)') /\ Held(rq[t], c) \in Nat
         /\ Cardinality(Sharing(c)) \in Nat /\ Cardinality(Sharing(c)') \in Nat
         /\ Cardinality(Sharing(c)') = Cardinality(Sharing(c)) - Held(rq[t], c)
<1>1. rq'[t] = << >> /\ \A u \in Thread \ {t} : rq'[u] = rq[u]
  OBVIOUS
<1>2. PICK A : A = [u \in Thread |-> Holds(rq[u], c)]
  OBVIOUS
<1>3. PICK B : B = [u \in Thread |-> Holds(rq'[u], c)]
  OBVIOUS
<1>4. Sharing(c) = Pairs(A) /\ Sharing(c)' = Pairs(B)
  BY <1>2, <1>3, SharingPairs, Zenon
<1>5. /\ DOMAIN A = Thread /\ DOMAIN B = Thread
      /\ A[t] = Holds(rq[t], c) /\ B[t] = Holds(rq'[t], c)
  BY <1>2, <1>3
<1>6. B[t] = {}
  <2>1. DOMAIN rq'[t] = {}
    BY <1>1
  <2> QED
    BY <1>5, <2>1 DEF Holds
<1>7. \A u \in Thread \ {t} : B[u] = A[u]
  BY <1>1, <1>2, <1>3
<1>8. Pairs(B) = Pairs(A) \ ({t} \X A[t]) /\ {t} \X A[t] \subseteq Pairs(A)
  BY <1>5, <1>6, <1>7, PairsLess
<1>9. Held(rq[t], c) = Cardinality(A[t])
  BY <1>5 DEF Held
<1>10. IsFiniteSet(Pairs(A))
  BY <1>4
<1>11. PICK S, H : /\ S = Pairs(A) /\ H = A[t]
                   /\ IsFiniteSet(S) /\ {t} \X H \subseteq S
  BY <1>8, <1>10
<1>12. /\ Cardinality(H) \in Nat /\ Cardinality(S) \in Nat
       /\ IsFiniteSet(S \ ({t} \X H))
       /\ Cardinality(S \ ({t} \X H)) = Cardinality(S) - Cardinality(H)
  BY <1>11, PairsOfIndex, Zenon
<1>13. Cardinality(S \ ({t} \X H)) \in Nat
  BY <1>12, FS_CardinalityType
<1> QED
  BY <1>4, <1>8, <1>9, <1>11, <1>12, <1>13

\* A request ends: the slots with pinned pages.
LEMMA PinningNone ==
  ASSUME DOMAIN rq = Thread, NEW t \in Thread, rq' = [rq EXCEPT ![t] = << >>],
         IsFiniteSet(Pinning)
  PROVE  /\ IsFiniteSet(Pinning') /\ Pinned(rq[t]) \in Nat
         /\ Cardinality(Pinning) \in Nat /\ Cardinality(Pinning') \in Nat
         /\ Cardinality(Pinning') = Cardinality(Pinning) - Pinned(rq[t])
<1>1. rq'[t] = << >> /\ \A u \in Thread \ {t} : rq'[u] = rq[u]
  OBVIOUS
<1>2. PICK A : A = [u \in Thread |-> Pins(rq[u])]
  OBVIOUS
<1>3. PICK B : B = [u \in Thread |-> Pins(rq'[u])]
  OBVIOUS
<1>4. Pinning = Pairs(A) /\ Pinning' = Pairs(B)
  BY <1>2, <1>3, PinningPairs, Zenon
<1>5. /\ DOMAIN A = Thread /\ DOMAIN B = Thread
      /\ A[t] = Pins(rq[t]) /\ B[t] = Pins(rq'[t])
  BY <1>2, <1>3
<1>6. B[t] = {}
  <2>1. DOMAIN rq'[t] = {}
    BY <1>1
  <2> QED
    BY <1>5, <2>1 DEF Pins
<1>7. \A u \in Thread \ {t} : B[u] = A[u]
  BY <1>1, <1>2, <1>3
<1>8. Pairs(B) = Pairs(A) \ ({t} \X A[t]) /\ {t} \X A[t] \subseteq Pairs(A)
  BY <1>5, <1>6, <1>7, PairsLess
<1>9. Pinned(rq[t]) = Cardinality(A[t])
  BY <1>5 DEF Pinned
<1>10. IsFiniteSet(Pairs(A))
  BY <1>4
<1>11. PICK S, H : /\ S = Pairs(A) /\ H = A[t]
                   /\ IsFiniteSet(S) /\ {t} \X H \subseteq S
  BY <1>8, <1>10
<1>12. /\ Cardinality(H) \in Nat /\ Cardinality(S) \in Nat
       /\ IsFiniteSet(S \ ({t} \X H))
       /\ Cardinality(S \ ({t} \X H)) = Cardinality(S) - Cardinality(H)
  BY <1>11, PairsOfIndex, Zenon
<1>13. Cardinality(S \ ({t} \X H)) \in Nat
  BY <1>12, FS_CardinalityType
<1> QED
  BY <1>4, <1>8, <1>9, <1>11, <1>12, <1>13

\* A request begins, with slots that hold nothing.
LEMMA SharingBegins ==
  ASSUME DOMAIN rq = Thread, NEW t \in Thread, rq[t] = << >>, NEW r,
         rq' = [rq EXCEPT ![t] = r],
         \A k \in DOMAIN r : r[k].kind \in {"none", "unset"}
  PROVE  /\ \A c \in Block : Sharing(c)' = Sharing(c)
         /\ Pinning' = Pinning
<1>1. rq'[t] = r /\ \A u \in Thread \ {t} : rq'[u] = rq[u]
  OBVIOUS
<1>2. \A c \in Block : \A u \in Thread : Holds(rq'[u], c) = Holds(rq[u], c)
  <2> TAKE c \in Block
  <2> TAKE u \in Thread
  <2>1. Holds(rq[t], c) = {} /\ Holds(r, c) = {}
    BY DEF Holds
  <2> QED
    BY <1>1, <2>1
<1>3. \A u \in Thread : Pins(rq'[u]) = Pins(rq[u])
  <2> TAKE u \in Thread
  <2>1. Pins(rq[t]) = {} /\ Pins(r) = {}
    BY DEF Pins
  <2> QED
    BY <1>1, <2>1
<1>4. \A c : Sharing(c)' = UNION {{u} \X Holds(rq'[u], c) : u \in Thread}
  BY DEF Sharing, Holds
<1>5. Pinning' = UNION {{u} \X Pins(rq'[u]) : u \in Thread}
  BY DEF Pinning, Pins
<1> QED
  BY <1>2, <1>3, <1>4, <1>5 DEF Sharing, Pinning

(***************************************************************************)
(* What the counts say about a block.                                      *)
(***************************************************************************)

\* Counts of finite sets are numbers, zero for the empty set only.
LEMMA Cards ==
  ASSUME NEW b, BlockCounted(b)
  PROVE  /\ Cardinality(Vmas(b)) \in Nat /\ Cardinality(Listing(b)) \in Nat
         /\ Cardinality(Sharing(b)) \in Nat
         /\ Cardinality(Vmas(b)) = 0 => Vmas(b) = {}
         /\ Cardinality(Listing(b)) = 0 => Listing(b) = {}
         /\ Cardinality(Sharing(b)) = 0 => Sharing(b) = {}
         /\ Vmas(b) # {} => Cardinality(Vmas(b)) >= 1
         /\ Listing(b) # {} => Cardinality(Listing(b)) >= 1
         /\ Sharing(b) # {} => Cardinality(Sharing(b)) >= 1
<1>1. ASSUME NEW S, IsFiniteSet(S)
      PROVE  /\ Cardinality(S) \in Nat /\ (Cardinality(S) = 0 => S = {})
             /\ (S # {} => Cardinality(S) >= 1)
  <2>1. Cardinality(S) \in Nat /\ (Cardinality(S) = 0 <=> S = {})
    BY <1>1, FS_CardinalityType, FS_EmptySet
  <2> QED
    BY <2>1
<1>2. IsFiniteSet(Vmas(b)) /\ IsFiniteSet(Listing(b)) /\ IsFiniteSet(Sharing(b))
  BY DEF BlockCounted
<1> QED
  BY <1>1, <1>2

\* A block that is mapped has a mapping among its users.
LEMMA MappedSomewhere ==
  ASSUME MemoryTypes, NEW f \in File, NEW b \in Block
  PROVE  vmas[f][b] > 0 <=> \E k \in Nat : <<f, k>> \in Vmas(b)
<1>1. vmas[f][b] \in Nat
  BY FileAssumption DEF MemoryTypes
<1>2. \A k : <<f, k>> \in Vmas(b) <=> k \in 1 .. vmas[f][b]
  BY DEF Vmas
<1>3. vmas[f][b] > 0 => 1 \in 1 .. vmas[f][b]
  BY <1>1
<1>4. \A k \in 1 .. vmas[f][b] : k \in Nat /\ vmas[f][b] > 0
  BY <1>1
<1> QED
  BY <1>2, <1>3, <1>4

\* What the invariant says about one block.
LEMMA Used ==
  ASSUME MemoryInv, NEW b \in Block
  PROVE  /\ BlockCounted(b) /\ ref[b] \in Nat /\ lost.ref[b] \in Nat
         /\ \A f \in File : (b \in ToSet(busy[f])) <=> (f \in Listing(b))
         /\ \A f \in File : vmas[f][b] \in 0 .. MaxVma /\ vmas[f][b] \in Nat
         /\ \A f \in File : vmas[f][b] > 0 => Vmas(b) # {}
<1>1. BlockCounted(b)
  BY DEF MemoryInv, Counted
<1>2. ref[b] \in Nat /\ lost.ref[b] \in Nat
  BY DEF MemoryInv, MemoryTypes
<1>3. \A f \in File : (b \in ToSet(busy[f])) <=> (f \in Listing(b))
  BY DEF Listing
<1>4. \A f \in File : vmas[f][b] \in 0 .. MaxVma /\ vmas[f][b] \in Nat
  BY FileAssumption DEF MemoryInv, MemoryTypes
<1>5. \A f \in File : vmas[f][b] > 0 => Vmas(b) # {}
  BY MappedSomewhere DEF MemoryInv
<1> QED
  BY <1>1, <1>2, <1>3, <1>4, <1>5

\* A free block has no users.
LEMMA FreeBlock ==
  ASSUME MemoryInv, NEW b \in Block, ref[b] = 0
  PROVE  /\ Vmas(b) = {} /\ Listing(b) = {} /\ Sharing(b) = {} /\ lost.ref[b] = 0
         /\ \A f \in File : vmas[f][b] = 0 /\ b \notin ToSet(busy[f])
<1>1. BlockCounted(b) /\ lost.ref[b] \in Nat
  BY Used
<1>2. Cardinality(Vmas(b)) + Cardinality(Listing(b)) + Cardinality(Sharing(b))
        + lost.ref[b] = 0
  BY <1>1 DEF BlockCounted
<1>3. /\ Cardinality(Vmas(b)) = 0 /\ Cardinality(Listing(b)) = 0
      /\ Cardinality(Sharing(b)) = 0 /\ lost.ref[b] = 0
  <2>1. /\ Cardinality(Vmas(b)) \in Nat /\ Cardinality(Listing(b)) \in Nat
        /\ Cardinality(Sharing(b)) \in Nat
    BY <1>1, Cards
  <2>2. PICK v, l, s, o \in Nat :
          /\ v = Cardinality(Vmas(b)) /\ l = Cardinality(Listing(b))
          /\ s = Cardinality(Sharing(b)) /\ o = lost.ref[b]
    BY <1>1, <2>1
  <2>3. v + l + s + o = 0
    BY <1>2, <2>2
  <2>4. v = 0 /\ l = 0 /\ s = 0 /\ o = 0
    BY <2>3
  <2> QED
    BY <2>2, <2>4
<1>4. Vmas(b) = {} /\ Listing(b) = {} /\ Sharing(b) = {}
  BY <1>1, <1>3, Cards
<1>5. ASSUME NEW f \in File
      PROVE  vmas[f][b] = 0 /\ b \notin ToSet(busy[f])
  <2>1. ~(vmas[f][b] > 0) /\ vmas[f][b] \in Nat /\ b \notin ToSet(busy[f])
    BY <1>4, Used
  <2> QED
    BY <2>1
<1> QED
  BY <1>3, <1>4, <1>5

\* A block on a busy list has no other user.
LEMMA ListedBlock ==
  ASSUME MemoryInv, NEW f \in File, NEW b \in ToSet(busy[f])
  PROVE  /\ b \in Block /\ ref[b] = 1 /\ owner[b] = f
         /\ Vmas(b) = {} /\ Sharing(b) = {} /\ lost.ref[b] = 0
         /\ Cardinality(Listing(b)) = 1 /\ Listing(b) = {f}
         /\ \A g \in File : vmas[g][b] = 0
<1>1. b \in Block
  <2>1. busy[f] \in Seq(Block)
    BY DEF MemoryInv, MemoryTypes
  <2> QED
    BY <2>1, ToSetFacts
<1>2. ref[b] = 1 /\ owner[b] = f
  BY DEF MemoryInv, BusyExclusive
<1>3. BlockCounted(b) /\ lost.ref[b] \in Nat /\ f \in Listing(b)
  BY <1>1, Used
<1>4. Cardinality(Vmas(b)) + Cardinality(Listing(b)) + Cardinality(Sharing(b))
        + lost.ref[b] = 1
  BY <1>2, <1>3 DEF BlockCounted
<1>5. Cardinality(Listing(b)) >= 1
  BY <1>3, Cards
<1>6. /\ Cardinality(Vmas(b)) = 0 /\ Cardinality(Listing(b)) = 1
      /\ Cardinality(Sharing(b)) = 0 /\ lost.ref[b] = 0
  <2>1. /\ Cardinality(Vmas(b)) \in Nat /\ Cardinality(Listing(b)) \in Nat
        /\ Cardinality(Sharing(b)) \in Nat
    BY <1>3, Cards
  <2> QED
    BY <1>3, <1>4, <1>5, <2>1
<1>7. Vmas(b) = {} /\ Sharing(b) = {}
  BY <1>3, <1>6, Cards
<1>8. Listing(b) = {f}
  <2>1. IsFiniteSet(Listing(b))
    BY <1>3 DEF BlockCounted
  <2>2. \E x : Listing(b) = {x}
    BY <1>6, <2>1, FS_Singleton
  <2> QED
    BY <1>3, <2>2
<1>9. ASSUME NEW g \in File
      PROVE  vmas[g][b] = 0
  <2>1. ~(vmas[g][b] > 0) /\ vmas[g][b] \in Nat
    BY <1>1, <1>7, Used
  <2> QED
    BY <2>1
<1> QED
  BY <1>1, <1>2, <1>6, <1>7, <1>8, <1>9

\* A mapped block, or one that a request shares, is in use and on no list.
LEMMA MappedBlock ==
  ASSUME MemoryInv, NEW f \in File, NEW b \in Block, vmas[f][b] > 0
  PROVE  /\ ref[b] >= 1 /\ owner[b] = f /\ owner[b] # Nil
         /\ \A g \in File : b \notin ToSet(busy[g])
<1>1. BlockCounted(b) /\ Vmas(b) # {} /\ lost.ref[b] \in Nat
  BY Used
<1>2. Cardinality(Vmas(b)) >= 1
  BY <1>1, Cards
<1>3. ref[b] >= 1
  <2>1. Cardinality(Listing(b)) \in Nat /\ Cardinality(Sharing(b)) \in Nat
    BY <1>1, Cards
  <2>2. ref[b] = Cardinality(Vmas(b)) + Cardinality(Listing(b))
                 + Cardinality(Sharing(b)) + lost.ref[b]
    BY <1>1 DEF BlockCounted
  <2>3. Cardinality(Vmas(b)) \in Nat
    BY <1>1, Cards
  <2> QED
    BY <1>1, <1>2, <2>1, <2>2, <2>3
<1>4. owner[b] = f
  BY DEF MemoryInv, Owned
<1>5. \A g \in File : b \notin ToSet(busy[g])
  BY <1>1, ListedBlock
<1> QED
  BY <1>3, <1>4, <1>5, FileAssumption

\* No list names a block twice.
LEMMA BusyDistinct ==
  ASSUME MemoryInv, NEW f \in File
  PROVE  Distinct(busy[f])
  BY DEF MemoryInv, BusyExclusive, Distinct

\* Nothing changes for a block.
LEMMA SameBlock ==
  ASSUME NEW c, BlockCounted(c), Vmas(c)' = Vmas(c), Listing(c)' = Listing(c),
         Sharing(c)' = Sharing(c), ref'[c] = ref[c], lost'.ref[c] = lost.ref[c]
  PROVE  BlockCounted(c)'
  BY DEF BlockCounted

(***************************************************************************)
(* What the steps do to memory.                                            *)
(***************************************************************************)

\* Nothing.
LEMMA MemorySame ==
  ASSUME MemoryInv, UNCHANGED <<ref, owner, pins, busy, vmas, rq, lost>>
  PROVE  MemoryInv'
<1>1. /\ \A b : Vmas(b)' = Vmas(b) /\ Listing(b)' = Listing(b) /\ Sharing(b)' = Sharing(b)
      /\ Pinning' = Pinning
  BY VmasSame, ListingSame, SharingSame
<1>2. Counted'
  BY <1>1 DEF MemoryInv, Counted, PinsCounted, BlockCounted
<1>3. MemoryTypes' /\ BusyExclusive'
  BY DEF MemoryInv, MemoryTypes, BusyExclusive
<1>4. Owned'
  BY DEF MemoryInv, Owned
<1> QED
  BY <1>2, <1>3, <1>4 DEF MemoryInv

\* A free block is taken from the pool and put on the list of its file.
LEMMA MemoryAlloc ==
  ASSUME MemoryInv, NEW f \in File, NEW b \in Free(DeviceOf[f]),
         ref' = [ref EXCEPT ![b] = 1], owner' = [owner EXCEPT ![b] = f],
         AllocationQueue(f, b), UNCHANGED <<pins, vmas, rq, lost>>
  PROVE  MemoryInv'
<1>1. b \in Block /\ ref[b] = 0 /\ PoolOf[b] \in {DeviceOf[f], Nil}
  BY DEF Free
<1>2. /\ Vmas(b) = {} /\ Listing(b) = {} /\ Sharing(b) = {} /\ lost.ref[b] = 0
      /\ \A g \in File : vmas[g][b] = 0 /\ b \notin ToSet(busy[g])
  BY <1>1, FreeBlock
<1>3. /\ ref'[b] = 1 /\ owner'[b] = f
      /\ \A c \in Block \ {b} : ref'[c] = ref[c] /\ owner'[c] = owner[c]
  BY <1>1 DEF MemoryInv, MemoryTypes
<1>4. /\ busy' \in [File -> Seq(Block)] /\ Distinct(busy'[f])
      /\ \A g \in File \ {f} : busy'[g] = busy[g]
      /\ \A c \in Block : Listing(c)' = IF c = b THEN Listing(c) \cup {f} ELSE Listing(c)
  BY <1>1, <1>2, BusyDistinct, ListingMore DEF MemoryInv
<1>5. \A c : Vmas(c)' = Vmas(c) /\ Sharing(c)' = Sharing(c) /\ Pinning' = Pinning
  BY VmasSame, SharingSame
<1>6. MemoryTypes'
  BY <1>1, <1>4 DEF MemoryInv, MemoryTypes
<1>7. Counted'
  <2>1. ASSUME NEW c \in Block, c # b PROVE BlockCounted(c)'
    <3>1. BlockCounted(c)
      BY Used
    <3> QED
      BY <1>3, <1>4, <1>5, <2>1, <3>1, SameBlock
  <2>2. BlockCounted(b)'
    <3>1. Vmas(b)' = {} /\ Listing(b)' = {f} /\ Sharing(b)' = {}
      BY <1>1, <1>2, <1>4, <1>5
    <3>2. IsFiniteSet({}) /\ Cardinality({}) = 0 /\ IsFiniteSet({f}) /\ Cardinality({f}) = 1
      BY FS_EmptySet, FS_Singleton
    <3> QED
      BY <1>2, <1>3, <3>1, <3>2 DEF BlockCounted
  <2>3. PinsCounted'
    BY <1>5 DEF MemoryInv, Counted, PinsCounted
  <2> QED
    BY <2>1, <2>2, <2>3 DEF Counted
<1>8. BusyExclusive'
  <2>1. ASSUME NEW g \in File, NEW c \in ToSet(busy'[g])
        PROVE  ref'[c] = 1 /\ owner'[c] = g
    <3>1. c \in Block
      <4>1. busy'[g] \in Seq(Block)
        BY <1>4
      <4> QED
        BY <4>1, ToSetFacts
    <3>2. g \in Listing(c)'
      BY <2>1 DEF Listing
    <3>3. CASE c = b
      <4>1. g = f
        BY <1>2, <1>4, <3>1, <3>2, <3>3
      <4> QED
        BY <1>3, <3>3, <4>1
    <3>4. CASE c # b
      <4>1. c \in ToSet(busy[g])
        BY <1>4, <3>1, <3>2, <3>4, Used
      <4> QED
        BY <1>3, <3>1, <3>4, <4>1 DEF MemoryInv, BusyExclusive
    <3> QED
      BY <3>3, <3>4
  <2>2. \A g \in File : Distinct(busy'[g])
    BY <1>4, BusyDistinct
  <2> QED
    BY <2>1, <2>2 DEF BusyExclusive, Distinct
<1>9. Owned'
  <2>1. \A g \in File, c \in Block : vmas'[g][c] > 0 => owner'[c] = g
    <3> TAKE g \in File, c \in Block
    <3>1. CASE c = b
      BY <1>2, <3>1
    <3>2. CASE c # b
      BY <1>3, <3>2 DEF MemoryInv, Owned
    <3> QED
      BY <3>1, <3>2
  <2>2. ASSUME NEW u \in Thread, NEW k \in DOMAIN rq[u], rq[u][k].kind = "copy"
        PROVE  rq[u][k].block \in Block /\ owner'[rq[u][k].block] = Nil
    <3>1. rq[u][k].block \in Block /\ owner[rq[u][k].block] = Nil
      BY <2>2 DEF MemoryInv, Owned
    <3>2. k \in Holds(rq[u], rq[u][k].block)
      BY <2>2 DEF Holds
    <3>3. <<u, k>> \in Sharing(rq[u][k].block)
      BY <3>2 DEF Sharing
    <3>4. rq[u][k].block # b
      BY <1>2, <3>3
    <3> QED
      BY <1>3, <3>1, <3>4
  <2>3. \A c \in Block : owner'[c] # Nil => PoolOf[c] \in {DeviceOf[owner'[c]], Nil}
    <3> TAKE c \in Block
    <3>1. CASE c = b
      BY <1>1, <1>3, <3>1
    <3>2. CASE c # b
      BY <1>3, <3>2 DEF MemoryInv, Owned
    <3> QED
      BY <3>1, <3>2
  <2> QED
    BY <2>1, <2>2, <2>3 DEF Owned
<1> QED
  BY <1>6, <1>7, <1>8, <1>9 DEF MemoryInv

\* A listed block is mapped: the reference of the list becomes the mapping's ...
LEMMA MemoryMap ==
  ASSUME MemoryInv, NEW f \in File, NEW b \in Block, AllocationDequeue(f, b),
         AddVma(f, b), UNCHANGED <<ref, owner, pins, rq, lost>>
  PROVE  MemoryInv'
<1>1. b \in ToSet(busy[f])
  BY DEF AllocationDequeue
<1>2. /\ ref[b] = 1 /\ owner[b] = f
      /\ Vmas(b) = {} /\ Sharing(b) = {} /\ lost.ref[b] = 0
      /\ Listing(b) = {f} /\ \A g \in File : vmas[g][b] = 0
  BY <1>1, ListedBlock
<1>3. /\ busy' \in [File -> Seq(Block)] /\ Distinct(busy'[f])
      /\ \A g \in File \ {f} : busy'[g] = busy[g]
      /\ ToSet(busy'[f]) = ToSet(busy[f]) \ {b}
      /\ \A c \in Block : Listing(c)' = IF c = b THEN Listing(c) \ {f} ELSE Listing(c)
  BY BusyDistinct, ListingLess DEF MemoryInv
<1>4. \A g \in File, c \in Block :
        vmas'[g][c] = IF g = f /\ c = b THEN vmas[g][c] + 1 ELSE vmas[g][c]
  BY DEF MemoryInv, MemoryTypes, AddVma
<1>5. \A c \in Block : c # b => Vmas(c)' = Vmas(c)
  BY VmasMore DEF MemoryInv
<1>6. Vmas(b)' = {<<f, 1>>}
  <2>1. Vmas(b)' = Vmas(b) \cup {<<f, vmas[f][b] + 1>>}
    BY VmasMore DEF MemoryInv
  <2>2. vmas[f][b] + 1 = 1
    BY <1>2
  <2> QED
    BY <1>2, <2>1, <2>2
<1>7. \A c : Sharing(c)' = Sharing(c) /\ Pinning' = Pinning
  BY SharingSame
<1>8. MemoryTypes'
  <2>1. vmas[f][b] + 1 \in 0 .. MaxVma
    BY <1>2, FileAssumption
  <2>2. vmas' \in [File -> [Block -> 0 .. MaxVma]]
    BY <2>1 DEF MemoryInv, MemoryTypes, AddVma
  <2> QED
    BY <1>3, <2>2 DEF MemoryInv, MemoryTypes
<1>9. Counted'
  <2>1. ASSUME NEW c \in Block, c # b PROVE BlockCounted(c)'
    <3>1. BlockCounted(c)
      BY Used
    <3> QED
      BY <1>3, <1>5, <1>7, <2>1, <3>1, SameBlock
  <2>2. BlockCounted(b)'
    <3>1. Vmas(b)' = {<<f, 1>>} /\ Listing(b)' = {} /\ Sharing(b)' = {}
      BY <1>2, <1>3, <1>6, <1>7
    <3>2. /\ IsFiniteSet({}) /\ Cardinality({}) = 0
          /\ IsFiniteSet({<<f, 1>>}) /\ Cardinality({<<f, 1>>}) = 1
      BY FS_EmptySet, FS_Singleton
    <3> QED
      BY <1>2, <3>1, <3>2 DEF BlockCounted
  <2>3. PinsCounted'
    BY <1>7 DEF MemoryInv, Counted, PinsCounted
  <2> QED
    BY <2>1, <2>2, <2>3 DEF Counted
<1>10. BusyExclusive'
  <2>1. \A g \in File : ToSet(busy'[g]) \subseteq ToSet(busy[g])
    BY <1>3
  <2>2. \A g \in File : Distinct(busy'[g])
    BY <1>3, BusyDistinct
  <2> QED
    BY <2>1, <2>2 DEF MemoryInv, BusyExclusive, Distinct
<1>11. Owned'
  <2>1. \A g \in File, c \in Block : vmas'[g][c] > 0 => owner[c] = g
    <3> TAKE g \in File, c \in Block
    <3>1. CASE g = f /\ c = b
      BY <1>2, <3>1
    <3>2. CASE ~(g = f /\ c = b)
      BY <1>4, <3>2 DEF MemoryInv, Owned
    <3> QED
      BY <3>1, <3>2
  <2> QED
    BY <2>1 DEF MemoryInv, Owned
<1> QED
  BY <1>8, <1>9, <1>10, <1>11 DEF MemoryInv

\* ... or is lost.
LEMMA MemoryMapFails ==
  ASSUME MemoryInv, NEW f \in File, NEW b \in Block, AllocationDequeue(f, b),
         lost' = [lost EXCEPT !.ref[b] = @ + 1], UNCHANGED <<ref, owner, pins, vmas, rq>>
  PROVE  MemoryInv'
<1>1. b \in ToSet(busy[f])
  BY DEF AllocationDequeue
<1>2. /\ ref[b] = 1 /\ owner[b] = f
      /\ Vmas(b) = {} /\ Sharing(b) = {} /\ lost.ref[b] = 0 /\ Listing(b) = {f}
  BY <1>1, ListedBlock
<1>3. /\ busy' \in [File -> Seq(Block)] /\ Distinct(busy'[f])
      /\ \A g \in File \ {f} : busy'[g] = busy[g]
      /\ ToSet(busy'[f]) = ToSet(busy[f]) \ {b}
      /\ \A c \in Block : Listing(c)' = IF c = b THEN Listing(c) \ {f} ELSE Listing(c)
  BY BusyDistinct, ListingLess DEF MemoryInv
<1>4. /\ lost' \in [ref : [Block -> Nat], pins : Nat] /\ lost'.pins = lost.pins
      /\ lost'.ref[b] = lost.ref[b] + 1
      /\ \A c \in Block \ {b} : lost'.ref[c] = lost.ref[c]
  <2>1. lost \in [ref : [Block -> Nat], pins : Nat]
    BY DEF MemoryInv, MemoryTypes
  <2>2. PICK r \in [Block -> Nat] : r = [lost.ref EXCEPT ![b] = @ + 1]
    BY <2>1
  <2>3. lost' = [lost EXCEPT !.ref = r]
    BY <2>2
  <2>4. r[b] = lost.ref[b] + 1 /\ \A c \in Block \ {b} : r[c] = lost.ref[c]
    BY <2>1, <2>2
  <2>5. lost'.ref = r /\ lost'.pins = lost.pins /\ lost' \in [ref : [Block -> Nat], pins : Nat]
    BY <2>1, <2>3
  <2> QED
    BY <2>4, <2>5
<1>5. \A c : Vmas(c)' = Vmas(c) /\ Sharing(c)' = Sharing(c) /\ Pinning' = Pinning
  BY VmasSame, SharingSame
<1>6. MemoryTypes'
  BY <1>3, <1>4 DEF MemoryInv, MemoryTypes
<1>7. Counted'
  <2>1. ASSUME NEW c \in Block, c # b PROVE BlockCounted(c)'
    <3>1. BlockCounted(c)
      BY Used
    <3> QED
      BY <1>3, <1>4, <1>5, <2>1, <3>1, SameBlock
  <2>2. BlockCounted(b)'
    <3>1. Vmas(b)' = {} /\ Listing(b)' = {} /\ Sharing(b)' = {}
      BY <1>2, <1>3, <1>5
    <3>2. IsFiniteSet({}) /\ Cardinality({}) = 0
      BY FS_EmptySet
    <3> QED
      BY <1>2, <1>4, <3>1, <3>2 DEF BlockCounted
  <2>3. PinsCounted'
    BY <1>4, <1>5 DEF MemoryInv, Counted, PinsCounted
  <2> QED
    BY <2>1, <2>2, <2>3 DEF Counted
<1>8. BusyExclusive'
  <2>1. \A g \in File : ToSet(busy'[g]) \subseteq ToSet(busy[g])
    BY <1>3
  <2>2. \A g \in File : Distinct(busy'[g])
    BY <1>3, BusyDistinct
  <2> QED
    BY <2>1, <2>2 DEF MemoryInv, BusyExclusive, Distinct
<1>9. Owned'
  BY DEF MemoryInv, Owned
<1> QED
  BY <1>6, <1>7, <1>8, <1>9 DEF MemoryInv

\* A mapping is split or inherited and takes a reference of its own.
LEMMA MemoryOpen ==
  ASSUME MemoryInv, NEW f \in File, NEW b \in Block, vmas[f][b] \in 1 .. MaxVma - 1,
         AddVma(f, b), ref' = [ref EXCEPT ![b] = @ + 1],
         UNCHANGED <<owner, pins, busy, rq, lost>>
  PROVE  MemoryInv'
<1>1. vmas[f][b] > 0 /\ MaxVma \in Nat
  BY FileAssumption
<1>2. owner[b] = f /\ \A g \in File : b \notin ToSet(busy[g])
  BY <1>1, MappedBlock
<1>3. \A g \in File, c \in Block :
        vmas'[g][c] = IF g = f /\ c = b THEN vmas[g][c] + 1 ELSE vmas[g][c]
  BY DEF MemoryInv, MemoryTypes, AddVma
<1>4. ref'[b] = ref[b] + 1 /\ \A c \in Block \ {b} : ref'[c] = ref[c]
  BY DEF MemoryInv, MemoryTypes
<1>5. \A c \in Block : c # b => Vmas(c)' = Vmas(c)
  BY VmasMore DEF MemoryInv
<1>6. /\ Vmas(b)' = Vmas(b) \cup {<<f, vmas[f][b] + 1>>}
      /\ <<f, vmas[f][b] + 1>> \notin Vmas(b)
  BY VmasMore DEF MemoryInv
<1>7. \A c : Listing(c)' = Listing(c) /\ Sharing(c)' = Sharing(c) /\ Pinning' = Pinning
  BY ListingSame, SharingSame
<1>8. MemoryTypes'
  <2>1. vmas[f][b] + 1 \in 0 .. MaxVma
    BY <1>1
  <2>2. vmas' \in [File -> [Block -> 0 .. MaxVma]]
    BY <2>1 DEF MemoryInv, MemoryTypes, AddVma
  <2>3. ref' \in [Block -> Nat]
    BY DEF MemoryInv, MemoryTypes
  <2> QED
    BY <2>2, <2>3 DEF MemoryInv, MemoryTypes
<1>9. Counted'
  <2>1. ASSUME NEW c \in Block, c # b PROVE BlockCounted(c)'
    <3>1. BlockCounted(c)
      BY Used
    <3> QED
      BY <1>4, <1>5, <1>7, <2>1, <3>1, SameBlock
  <2>2. BlockCounted(b)'
    <3>1. BlockCounted(b) /\ lost.ref[b] \in Nat
      BY Used
    <3>2. IsFiniteSet(Vmas(b)) /\ Cardinality(Vmas(b)) \in Nat
          /\ Cardinality(Listing(b)) \in Nat /\ Cardinality(Sharing(b)) \in Nat
      BY <3>1, Cards DEF BlockCounted
    <3>3. IsFiniteSet(Vmas(b)') /\ Cardinality(Vmas(b)') = Cardinality(Vmas(b)) + 1
      <4>1. \A x : x \notin Vmas(b) =>
              /\ IsFiniteSet(Vmas(b) \cup {x})
              /\ Cardinality(Vmas(b) \cup {x}) = Cardinality(Vmas(b)) + 1
        BY <3>2, FS_AddElement
      <4> QED
        BY <1>6, <4>1
    <3> QED
      BY <1>4, <1>7, <3>1, <3>2, <3>3 DEF BlockCounted
  <2>3. PinsCounted'
    BY <1>7 DEF MemoryInv, Counted, PinsCounted
  <2> QED
    BY <2>1, <2>2, <2>3 DEF Counted
<1>10. BusyExclusive'
  <2>1. \A g \in File : \A c \in ToSet(busy[g]) : c \in Block /\ c # b
    BY <1>2, ListedBlock
  <2> QED
    BY <1>4, <2>1 DEF MemoryInv, BusyExclusive
<1>11. Owned'
  <2>1. \A g \in File, c \in Block : vmas'[g][c] > 0 => owner[c] = g
    <3> TAKE g \in File, c \in Block
    <3>1. CASE g = f /\ c = b
      BY <1>2, <3>1
    <3>2. CASE ~(g = f /\ c = b)
      BY <1>3, <3>2 DEF MemoryInv, Owned
    <3> QED
      BY <3>1, <3>2
  <2> QED
    BY <2>1 DEF MemoryInv, Owned
<1> QED
  BY <1>8, <1>9, <1>10, <1>11 DEF MemoryInv

\* What xrp_allocation_put does to the owners.
LEMMA OwnersAfter ==
  ASSUME MemoryInv, NEW r \in [Block -> Int], SetRef(r)
  PROVE  /\ ref' = r /\ owner' \in [Block -> File \cup {Nil}]
         /\ \A c \in Block : owner'[c] = IF ref'[c] = 0 THEN Nil ELSE owner[c]
  BY DEF MemoryInv, MemoryTypes, SetRef

\* The owners are right again once the counts are.
LEMMA OwnedAfter ==
  ASSUME MemoryInv, NEW r \in [Block -> Int], SetRef(r), MemoryTypes', Counted',
         \A g \in File, c \in Block : vmas'[g][c] > 0 => vmas[g][c] > 0,
         \A u \in Thread : rq'[u] = rq[u] \/ rq'[u] = << >>
  PROVE  Owned'
<1>1. /\ ref' = r
      /\ \A c \in Block : owner'[c] = IF ref'[c] = 0 THEN Nil ELSE owner[c]
  BY OwnersAfter
<1>2. ASSUME NEW g \in File, NEW c \in Block, vmas'[g][c] > 0
      PROVE  owner'[c] = g
    <2>1. owner[c] = g
      BY <1>2 DEF MemoryInv, Owned
    <2>2. BlockCounted(c)' /\ lost'.ref[c] \in Nat /\ vmas'[g][c] \in Nat
      BY FileAssumption DEF Counted, MemoryTypes
    <2>3. <<g, 1>> \in Vmas(c)'
      <3>1. 1 \in 1 .. vmas'[g][c]
        BY <1>2, <2>2
      <3>2. Vmas(c)' = UNION {{h} \X (1 .. vmas'[h][c]) : h \in File}
        BY DEF Vmas
      <3> QED
        BY <3>1, <3>2
    <2>4. /\ IsFiniteSet(Vmas(c)') /\ IsFiniteSet(Listing(c)') /\ IsFiniteSet(Sharing(c)')
          /\ ref'[c] = Cardinality(Vmas(c)') + Cardinality(Listing(c)')
                       + Cardinality(Sharing(c)') + lost'.ref[c]
      BY <2>2 DEF BlockCounted
    <2>5. /\ Cardinality(Vmas(c)') \in Nat /\ Cardinality(Listing(c)') \in Nat
          /\ Cardinality(Sharing(c)') \in Nat
      BY <2>4, FS_CardinalityType
    <2>6. Cardinality(Vmas(c)') # 0
      BY <2>3, <2>4, FS_EmptySet
    <2>7. ref'[c] # 0
      BY <2>2, <2>4, <2>5, <2>6
    <2> QED
      BY <1>1, <2>1, <2>7
<1>3. ASSUME NEW u \in Thread, NEW k \in DOMAIN rq'[u], rq'[u][k].kind = "copy"
      PROVE  rq'[u][k].block \in Block /\ owner'[rq'[u][k].block] = Nil
  <2>1. rq'[u] = rq[u]
    BY <1>3
  <2>2. rq[u][k].block \in Block /\ owner[rq[u][k].block] = Nil
    BY <1>3, <2>1 DEF MemoryInv, Owned
  <2> QED
    BY <1>1, <2>1, <2>2
<1>4. \A c \in Block : owner'[c] # Nil => PoolOf[c] \in {DeviceOf[owner'[c]], Nil}
  BY <1>1 DEF MemoryInv, Owned
<1> QED
  BY <1>2, <1>3, <1>4 DEF Owned

\* A mapping goes with its reference.
LEMMA MemoryClose ==
  ASSUME MemoryInv, NEW f \in File, NEW b \in Block, vmas[f][b] > 0,
         DelVma(f, b), Put(b), UNCHANGED <<pins, busy, rq, lost>>
  PROVE  MemoryInv'
<1>1. ref[b] >= 1 /\ \A g \in File : b \notin ToSet(busy[g])
  BY MappedBlock
<1>2. PICK r \in [Block -> Int] : r = [ref EXCEPT ![b] = @ - 1] /\ SetRef(r)
  <2>1. [ref EXCEPT ![b] = @ - 1] \in [Block -> Int]
    BY DEF MemoryInv, MemoryTypes
  <2> QED
    BY <2>1 DEF Put
<1>3. /\ ref' = r /\ owner' \in [Block -> File \cup {Nil}]
      /\ \A c \in Block : owner'[c] = IF ref'[c] = 0 THEN Nil ELSE owner[c]
  BY <1>2, OwnersAfter
<1>4. /\ ref' \in [Block -> Nat] /\ ref'[b] = ref[b] - 1
      /\ \A c \in Block \ {b} : ref'[c] = ref[c]
  BY <1>1, <1>2, <1>3 DEF MemoryInv, MemoryTypes
<1>5. \A g \in File, c \in Block :
        vmas'[g][c] = IF g = f /\ c = b THEN vmas[g][c] - 1 ELSE vmas[g][c]
  BY DEF MemoryInv, MemoryTypes, DelVma
<1>6. \A c \in Block : c # b => Vmas(c)' = Vmas(c)
  BY VmasLess DEF MemoryInv
<1>7. Vmas(b)' = Vmas(b) \ {<<f, vmas[f][b]>>} /\ <<f, vmas[f][b]>> \in Vmas(b)
  BY VmasLess DEF MemoryInv
<1>8. \A c : Listing(c)' = Listing(c) /\ Sharing(c)' = Sharing(c) /\ Pinning' = Pinning
  BY ListingSame, SharingSame
<1>9. MemoryTypes'
  <2>1. vmas[f][b] - 1 \in 0 .. MaxVma
    BY FileAssumption DEF MemoryInv, MemoryTypes
  <2>2. vmas' \in [File -> [Block -> 0 .. MaxVma]]
    BY <2>1 DEF MemoryInv, MemoryTypes, DelVma
  <2> QED
    BY <1>3, <1>4, <2>2 DEF MemoryInv, MemoryTypes
<1>10. Counted'
  <2>1. ASSUME NEW c \in Block, c # b PROVE BlockCounted(c)'
    <3>1. BlockCounted(c)
      BY Used
    <3> QED
      BY <1>4, <1>6, <1>8, <2>1, <3>1, SameBlock
  <2>2. BlockCounted(b)'
    <3>1. BlockCounted(b) /\ lost.ref[b] \in Nat
      BY Used
    <3>2. IsFiniteSet(Vmas(b)) /\ Cardinality(Vmas(b)) \in Nat
          /\ Cardinality(Listing(b)) \in Nat /\ Cardinality(Sharing(b)) \in Nat
      BY <3>1, Cards DEF BlockCounted
    <3>3. IsFiniteSet(Vmas(b)') /\ Cardinality(Vmas(b)') = Cardinality(Vmas(b)) - 1
      BY <1>7, <3>2, FS_RemoveElement
    <3> QED
      BY <1>4, <1>8, <3>1, <3>2, <3>3 DEF BlockCounted
  <2>3. PinsCounted'
    BY <1>8 DEF MemoryInv, Counted, PinsCounted
  <2> QED
    BY <2>1, <2>2, <2>3 DEF Counted
<1>11. BusyExclusive'
  <2>1. \A g \in File : \A c \in ToSet(busy[g]) : c \in Block /\ c # b
    BY <1>1, ListedBlock
  <2> QED
    BY <1>3, <1>4, <2>1 DEF MemoryInv, BusyExclusive
<1>12. Owned'
  <2>1. \A g \in File, c \in Block : vmas'[g][c] > 0 => vmas[g][c] > 0
    BY <1>5
  <2> QED
    BY <1>2, <1>9, <1>10, <2>1, OwnedAfter
<1> QED
  BY <1>9, <1>10, <1>11, <1>12 DEF MemoryInv

\* A file is closed: the references of its list are lost.
LEMMA MemoryForget ==
  ASSUME MemoryInv, NEW f \in File, busy' = [busy EXCEPT ![f] = <<>>],
         lost' = [lost EXCEPT !.ref = [b \in Block |->
                    @[b] + IF b \in ToSet(busy[f]) THEN 1 ELSE 0]],
         UNCHANGED <<ref, owner, pins, vmas, rq>>
  PROVE  MemoryInv'
<1>1. /\ busy' \in [File -> Seq(Block)] /\ busy'[f] = <<>>
      /\ \A g \in File \ {f} : busy'[g] = busy[g]
      /\ \A c \in Block : Listing(c)' = Listing(c) \ {f}
  BY ListingNone DEF MemoryInv
<1>2. /\ lost' \in [ref : [Block -> Nat], pins : Nat] /\ lost'.pins = lost.pins
      /\ \A c \in Block : lost'.ref[c] =
           lost.ref[c] + IF c \in ToSet(busy[f]) THEN 1 ELSE 0
  <2>1. lost \in [ref : [Block -> Nat], pins : Nat]
    BY DEF MemoryInv, MemoryTypes
  <2>2. PICK r \in [Block -> Nat] :
          r = [b \in Block |-> lost.ref[b] + IF b \in ToSet(busy[f]) THEN 1 ELSE 0]
    BY <2>1
  <2>3. lost' = [lost EXCEPT !.ref = r]
    BY <2>2
  <2>4. \A c \in Block : r[c] = lost.ref[c] + IF c \in ToSet(busy[f]) THEN 1 ELSE 0
    BY <2>2
  <2>5. lost'.ref = r /\ lost'.pins = lost.pins /\ lost' \in [ref : [Block -> Nat], pins : Nat]
    BY <2>1, <2>3
  <2> QED
    BY <2>4, <2>5
<1>3. \A c : Vmas(c)' = Vmas(c) /\ Sharing(c)' = Sharing(c) /\ Pinning' = Pinning
  BY VmasSame, SharingSame
<1>4. MemoryTypes'
  BY <1>1, <1>2 DEF MemoryInv, MemoryTypes
<1>5. Counted'
  <2>1. ASSUME NEW c \in Block PROVE BlockCounted(c)'
    <3>1. BlockCounted(c) /\ (c \in ToSet(busy[f]) <=> f \in Listing(c))
          /\ lost.ref[c] \in Nat
      BY Used
    <3>2. IsFiniteSet(Listing(c)) /\ Cardinality(Listing(c)) \in Nat
          /\ Cardinality(Vmas(c)) \in Nat /\ Cardinality(Sharing(c)) \in Nat
      BY <3>1, Cards DEF BlockCounted
    <3>3. /\ IsFiniteSet(Listing(c)')
          /\ Cardinality(Listing(c)') =
               IF f \in Listing(c) THEN Cardinality(Listing(c)) - 1 ELSE Cardinality(Listing(c))
      BY <1>1, <3>2, FS_RemoveElement
    <3>4. PICK v \in Nat, l \in Nat, s \in Nat, o \in Nat :
            /\ v = Cardinality(Vmas(c)) /\ l = Cardinality(Listing(c))
            /\ s = Cardinality(Sharing(c)) /\ o = lost.ref[c]
      BY <3>1, <3>2
    <3>5. ref[c] = v + l + s + o
      BY <3>1, <3>4 DEF BlockCounted
    <3>6. CASE f \in Listing(c)
      <4>1. Cardinality(Listing(c)') = l - 1 /\ lost'.ref[c] = o + 1
        BY <1>2, <3>1, <3>3, <3>4, <3>6
      <4>2. v + (l - 1) + s + (o + 1) = v + l + s + o
        OBVIOUS
      <4> QED
        BY <1>3, <3>1, <3>3, <3>4, <3>5, <4>1, <4>2 DEF BlockCounted
    <3>7. CASE f \notin Listing(c)
      <4>1. Cardinality(Listing(c)') = l /\ lost'.ref[c] = o
        BY <1>2, <3>1, <3>3, <3>4, <3>7
      <4> QED
        BY <1>3, <3>1, <3>3, <3>4, <3>5, <4>1 DEF BlockCounted
    <3> QED
      BY <3>6, <3>7
  <2>2. PinsCounted'
    BY <1>2, <1>3 DEF MemoryInv, Counted, PinsCounted
  <2> QED
    BY <2>1, <2>2 DEF Counted
<1>6. BusyExclusive'
  <2>1. ToSet(<<>>) = {} /\ Distinct(<<>>)
    BY DEF ToSet, Distinct
  <2>2. \A g \in File : ToSet(busy'[g]) \subseteq ToSet(busy[g])
    BY <1>1, <2>1
  <2>3. \A g \in File : Distinct(busy'[g])
    BY <1>1, <2>1, BusyDistinct
  <2> QED
    BY <2>2, <2>3 DEF MemoryInv, BusyExclusive, Distinct
<1>7. Owned'
  BY DEF MemoryInv, Owned
<1> QED
  BY <1>4, <1>5, <1>6, <1>7 DEF MemoryInv

\* A slot of a request is set to m and had held nothing.
Fills(t, k, m) ==
  /\ k \in DOMAIN rq[t] /\ rq[t][k].kind \in {"none", "unset"}
  /\ rq' = [rq EXCEPT ![t][k] = m]

\* What filling a slot changes.
LEMMA FillFacts ==
  ASSUME MemoryInv, NEW t \in Thread, NEW k, NEW m, Fills(t, k, m)
  PROVE  /\ DOMAIN rq' = Thread /\ DOMAIN rq'[t] = DOMAIN rq[t] /\ rq'[t][k] = m
         /\ k \in DOMAIN rq[t]
         /\ \A u \in Thread \ {t} : rq'[u] = rq[u]
         /\ \A j \in DOMAIN rq[t] \ {k} : rq'[t][j] = rq[t][j]
  BY SlotSet DEF Fills, MemoryInv, MemoryTypes

\* What filling a slot adds to the users of a block and to the pins.
LEMMA FillCounts ==
  ASSUME MemoryInv, NEW t \in Thread, NEW k, NEW m, Fills(t, k, m)
  PROVE  /\ \A c : /\ <<t, k>> \notin Sharing(c)
                   /\ Sharing(c)' = IF m.block = c /\ m.kind \in {"native", "copy"}
                                    THEN Sharing(c) \cup {<<t, k>>} ELSE Sharing(c)
         /\ <<t, k>> \notin Pinning
         /\ Pinning' = IF m.kind = "gup" THEN Pinning \cup {<<t, k>>} ELSE Pinning
<1>1. /\ DOMAIN rq = Thread /\ k \in DOMAIN rq[t] /\ rq[t][k].kind \in {"none", "unset"}
      /\ rq' = [rq EXCEPT ![t][k] = m]
  BY DEF Fills, MemoryInv, MemoryTypes
<1> QED
  BY <1>1, SharingMore, PinningMore

\* The second part of Owned, whatever m is.
LEMMA FillOwned ==
  ASSUME MemoryInv, NEW t \in Thread, NEW k, NEW m, Fills(t, k, m),
         \A u \in Thread : \A j \in DOMAIN rq[u] :
           rq[u][j].kind = "copy" => owner'[rq[u][j].block] = owner[rq[u][j].block],
         m.kind = "copy" => m.block \in Block /\ owner'[m.block] = Nil
  PROVE  \A u \in Thread : \A j \in DOMAIN rq'[u] :
           rq'[u][j].kind = "copy" => rq'[u][j].block \in Block /\ owner'[rq'[u][j].block] = Nil
<1>1. /\ DOMAIN rq'[t] = DOMAIN rq[t] /\ rq'[t][k] = m
      /\ \A u \in Thread \ {t} : rq'[u] = rq[u]
      /\ \A j \in DOMAIN rq[t] \ {k} : rq'[t][j] = rq[t][j]
  BY FillFacts
<1>2. \A u \in Thread : \A j \in DOMAIN rq[u] : rq[u][j].kind = "copy"
        => rq[u][j].block \in Block /\ owner'[rq[u][j].block] = Nil
  BY DEF MemoryInv, Owned
<1> SUFFICES ASSUME NEW u \in Thread, NEW j \in DOMAIN rq'[u], rq'[u][j].kind = "copy"
             PROVE  rq'[u][j].block \in Block /\ owner'[rq'[u][j].block] = Nil
  OBVIOUS
<1>3. CASE u = t /\ j = k
  BY <1>1, <1>3
<1>4. CASE u = t /\ j # k
  <2>1. j \in DOMAIN rq[t] /\ rq'[t][j] = rq[t][j]
    BY <1>1, <1>4
  <2> QED
    BY <1>2, <1>4, <2>1
<1>5. CASE u # t
  <2>1. rq'[u] = rq[u]
    BY <1>1, <1>5
  <2> QED
    BY <1>2, <2>1
<1> QED
  BY <1>3, <1>4, <1>5

\* Nothing counted: a mapping of another driver, or none.
LEMMA MemoryPlain ==
  ASSUME MemoryInv, NEW t \in Thread, NEW k, NEW m, Fills(t, k, m),
         m.kind \notin {"native", "copy", "gup"},
         UNCHANGED <<ref, owner, pins, busy, vmas, lost>>
  PROVE  MemoryInv'
<1>1. \A c : Sharing(c)' = Sharing(c)
  BY FillCounts
<1>2. Pinning' = Pinning
  BY FillCounts
<1>3. \A c : Vmas(c)' = Vmas(c) /\ Listing(c)' = Listing(c)
  BY VmasSame, ListingSame
<1>4. MemoryTypes' /\ BusyExclusive'
  BY FillFacts DEF MemoryInv, MemoryTypes, BusyExclusive
<1>5. Counted'
  BY <1>1, <1>2, <1>3 DEF MemoryInv, Counted, PinsCounted, BlockCounted
<1>6. Owned'
  <2>1. \A u \in Thread : \A j \in DOMAIN rq'[u] :
          rq'[u][j].kind = "copy" => rq'[u][j].block \in Block /\ owner'[rq'[u][j].block] = Nil
    BY FillOwned
  <2> QED
    BY <2>1 DEF MemoryInv, Owned
<1> QED
  BY <1>4, <1>5, <1>6 DEF MemoryInv

\* Pinned pages.
LEMMA MemoryPin ==
  ASSUME MemoryInv, NEW t \in Thread, NEW k, NEW m, Fills(t, k, m), m.kind = "gup",
         pins' = pins + 1, UNCHANGED <<ref, owner, busy, vmas, lost>>
  PROVE  MemoryInv'
<1>1. \A c : Sharing(c)' = Sharing(c)
  BY FillCounts
<1>2. Pinning' = Pinning \cup {<<t, k>>} /\ <<t, k>> \notin Pinning
  BY FillCounts
<1>3. \A c : Vmas(c)' = Vmas(c) /\ Listing(c)' = Listing(c)
  BY VmasSame, ListingSame
<1>4. MemoryTypes' /\ BusyExclusive'
  BY FillFacts DEF MemoryInv, MemoryTypes, BusyExclusive
<1>5. Counted'
  <2>1. \A c \in Block : BlockCounted(c)'
    BY <1>1, <1>3 DEF MemoryInv, Counted, BlockCounted
  <2>2. /\ IsFiniteSet(Pinning) /\ pins = Cardinality(Pinning) + lost.pins
        /\ lost.pins \in Nat
    BY DEF MemoryInv, MemoryTypes, Counted, PinsCounted
  <2>3. Cardinality(Pinning) \in Nat
    BY <2>2, FS_CardinalityType
  <2>4. \A x : x \notin Pinning =>
          /\ IsFiniteSet(Pinning \cup {x})
          /\ Cardinality(Pinning \cup {x}) = Cardinality(Pinning) + 1
    BY <2>2, FS_AddElement
  <2>5. IsFiniteSet(Pinning') /\ Cardinality(Pinning') = Cardinality(Pinning) + 1
    BY <1>2, <2>4
  <2>6. PinsCounted'
    BY <2>2, <2>3, <2>5 DEF PinsCounted
  <2> QED
    BY <2>1, <2>6 DEF Counted
<1>6. Owned'
  <2>1. \A u \in Thread : \A j \in DOMAIN rq'[u] :
          rq'[u][j].kind = "copy" => rq'[u][j].block \in Block /\ owner'[rq'[u][j].block] = Nil
    BY FillOwned
  <2> QED
    BY <2>1 DEF MemoryInv, Owned
<1> QED
  BY <1>4, <1>5, <1>6 DEF MemoryInv

\* A block of the driver: the request takes a reference.
LEMMA MemoryNative ==
  ASSUME MemoryInv, NEW t \in Thread, NEW k, NEW g \in File, NEW b \in Block,
         vmas[g][b] > 0, Fills(t, k, OfBlock("native", b)),
         ref' = [ref EXCEPT ![b] = @ + 1], UNCHANGED <<owner, pins, busy, vmas, lost>>
  PROVE  MemoryInv'
<1>1. PICK m : m = OfBlock("native", b) /\ m.kind = "native" /\ m.block = b
  BY DEF OfBlock
<1>2. Fills(t, k, m)
  BY <1>1
<1>3. /\ \A c \in Block \ {b} : Sharing(c)' = Sharing(c)
      /\ Sharing(b)' = Sharing(b) \cup {<<t, k>>} /\ <<t, k>> \notin Sharing(b)
      /\ Pinning' = Pinning
  BY <1>1, <1>2, FillCounts
<1>4. \A c : Vmas(c)' = Vmas(c) /\ Listing(c)' = Listing(c)
  BY VmasSame, ListingSame
<1>5. ref' \in [Block -> Nat] /\ ref'[b] = ref[b] + 1 /\ \A c \in Block \ {b} : ref'[c] = ref[c]
  BY DEF MemoryInv, MemoryTypes
<1>6. MemoryTypes'
  BY <1>2, <1>5, FillFacts DEF MemoryInv, MemoryTypes
<1>7. Counted'
  <2>1. ASSUME NEW c \in Block, c # b PROVE BlockCounted(c)'
    <3>1. BlockCounted(c)
      BY Used
    <3> QED
      BY <1>3, <1>4, <1>5, <2>1, <3>1, SameBlock
  <2>2. BlockCounted(b)'
    <3>1. BlockCounted(b) /\ lost.ref[b] \in Nat
      BY Used
    <3>2. IsFiniteSet(Sharing(b)) /\ Cardinality(Vmas(b)) \in Nat
          /\ Cardinality(Listing(b)) \in Nat /\ Cardinality(Sharing(b)) \in Nat
      BY <3>1, Cards DEF BlockCounted
    <3>3. IsFiniteSet(Sharing(b)') /\ Cardinality(Sharing(b)') = Cardinality(Sharing(b)) + 1
      <4>1. \A x : x \notin Sharing(b) =>
              /\ IsFiniteSet(Sharing(b) \cup {x})
              /\ Cardinality(Sharing(b) \cup {x}) = Cardinality(Sharing(b)) + 1
        BY <3>2, FS_AddElement
      <4> QED
        BY <1>3, <4>1
    <3> QED
      BY <1>4, <1>5, <3>1, <3>2, <3>3 DEF BlockCounted
  <2>3. PinsCounted'
    BY <1>3 DEF MemoryInv, Counted, PinsCounted
  <2> QED
    BY <2>1, <2>2, <2>3 DEF Counted
<1>8. BusyExclusive'
  <2>1. \A f \in File : b \notin ToSet(busy[f])
    BY MappedBlock
  <2>2. \A f \in File : \A c \in ToSet(busy[f]) : c \in Block /\ c # b
    BY <2>1, ListedBlock
  <2> QED
    BY <1>5, <2>2 DEF MemoryInv, BusyExclusive
<1>9. Owned'
  <2>1. \A u \in Thread : \A j \in DOMAIN rq'[u] :
          rq'[u][j].kind = "copy" => rq'[u][j].block \in Block /\ owner'[rq'[u][j].block] = Nil
    BY <1>1, <1>2, FillOwned
  <2> QED
    BY <2>1 DEF MemoryInv, Owned
<1> QED
  BY <1>6, <1>7, <1>8, <1>9 DEF MemoryInv

\* A shadow copy: a free block is taken for the request.
LEMMA MemoryCopy ==
  ASSUME MemoryInv, NEW t \in Thread, NEW k, NEW d, NEW b \in Free(d),
         Fills(t, k, OfBlock("copy", b)),
         ref' = [ref EXCEPT ![b] = 1], owner' = [owner EXCEPT ![b] = Nil],
         UNCHANGED <<pins, busy, vmas, lost>>
  PROVE  MemoryInv'
<1>1. PICK m : m = OfBlock("copy", b) /\ m.kind = "copy" /\ m.block = b
  BY DEF OfBlock
<1>2. Fills(t, k, m) /\ b \in Block /\ ref[b] = 0
  BY <1>1 DEF Free
<1>3. /\ Vmas(b) = {} /\ Listing(b) = {} /\ Sharing(b) = {} /\ lost.ref[b] = 0
      /\ \A f \in File : vmas[f][b] = 0 /\ b \notin ToSet(busy[f])
  BY <1>2, FreeBlock
<1>4. /\ \A c \in Block \ {b} : Sharing(c)' = Sharing(c)
      /\ Sharing(b)' = {<<t, k>>} /\ Pinning' = Pinning
  <2>1. /\ \A c : /\ <<t, k>> \notin Sharing(c)
                 /\ Sharing(c)' = IF m.block = c /\ m.kind \in {"native", "copy"}
                                  THEN Sharing(c) \cup {<<t, k>>} ELSE Sharing(c)
        /\ <<t, k>> \notin Pinning
        /\ Pinning' = IF m.kind = "gup" THEN Pinning \cup {<<t, k>>} ELSE Pinning
    BY <1>2, FillCounts
  <2>2. \A c \in Block \ {b} : Sharing(c)' = Sharing(c)
    BY <1>1, <2>1
  <2>3. Sharing(b)' = {<<t, k>>}
    BY <1>1, <1>3, <2>1
  <2>4. Pinning' = Pinning
    BY <1>1, <2>1
  <2> QED
    BY <2>2, <2>3, <2>4
<1>5. \A c : Vmas(c)' = Vmas(c) /\ Listing(c)' = Listing(c)
  BY VmasSame, ListingSame
<1>6. /\ ref' \in [Block -> Nat] /\ ref'[b] = 1 /\ \A c \in Block \ {b} : ref'[c] = ref[c]
      /\ owner' \in [Block -> File \cup {Nil}] /\ owner'[b] = Nil
      /\ \A c \in Block \ {b} : owner'[c] = owner[c]
  BY <1>2 DEF MemoryInv, MemoryTypes
<1>7. MemoryTypes'
  BY <1>2, <1>6, FillFacts DEF MemoryInv, MemoryTypes
<1>8. Counted'
  <2>1. ASSUME NEW c \in Block, c # b PROVE BlockCounted(c)'
    <3>1. BlockCounted(c)
      BY Used
    <3> QED
      BY <1>4, <1>5, <1>6, <2>1, <3>1, SameBlock
  <2>2. BlockCounted(b)'
    <3>1. Vmas(b)' = {} /\ Listing(b)' = {} /\ Sharing(b)' = {<<t, k>>}
      BY <1>3, <1>4, <1>5
    <3>2. /\ IsFiniteSet({}) /\ Cardinality({}) = 0
          /\ IsFiniteSet({<<t, k>>}) /\ Cardinality({<<t, k>>}) = 1
      BY FS_EmptySet, FS_Singleton
    <3> QED
      BY <1>3, <1>6, <3>1, <3>2 DEF BlockCounted
  <2>3. PinsCounted'
    BY <1>4 DEF MemoryInv, Counted, PinsCounted
  <2> QED
    BY <2>1, <2>2, <2>3 DEF Counted
<1>9. BusyExclusive'
  <2>1. \A f \in File : \A c \in ToSet(busy[f]) : c \in Block /\ c # b
    BY <1>3, ListedBlock
  <2> QED
    BY <1>6, <2>1 DEF MemoryInv, BusyExclusive
<1>10. Owned'
  <2>1. ASSUME NEW u \in Thread, NEW j \in DOMAIN rq[u], rq[u][j].kind = "copy"
        PROVE  owner'[rq[u][j].block] = owner[rq[u][j].block]
    <3>1. rq[u][j].block \in Block
      BY <2>1 DEF MemoryInv, Owned
    <3>2. j \in Holds(rq[u], rq[u][j].block)
      BY <2>1 DEF Holds
    <3>3. <<u, j>> \in Sharing(rq[u][j].block)
      BY <3>2 DEF Sharing
    <3>4. rq[u][j].block # b
      BY <1>3, <3>3
    <3> QED
      BY <1>6, <3>1, <3>4
  <2>2. m.kind = "copy" => m.block \in Block /\ owner'[m.block] = Nil
    BY <1>1, <1>2, <1>6
  <2>3. \A u \in Thread : \A j \in DOMAIN rq'[u] :
          rq'[u][j].kind = "copy" => rq'[u][j].block \in Block /\ owner'[rq'[u][j].block] = Nil
    BY <1>2, <2>1, <2>2, FillOwned
  <2>4. \A f \in File, c \in Block : vmas'[f][c] > 0 => owner'[c] = f
    <3> TAKE f \in File, c \in Block
    <3>1. CASE c = b
      BY <1>3, <3>1
    <3>2. CASE c # b
      BY <1>6, <3>2 DEF MemoryInv, Owned
    <3> QED
      BY <3>1, <3>2
  <2>5. \A c \in Block : owner'[c] # Nil => PoolOf[c] \in {DeviceOf[owner'[c]], Nil}
    BY <1>6 DEF MemoryInv, Owned
  <2> QED
    BY <2>3, <2>4, <2>5 DEF Owned
<1> QED
  BY <1>7, <1>8, <1>9, <1>10 DEF MemoryInv

\* A request begins.
LEMMA MemoryBegin ==
  ASSUME MemoryInv, NEW t \in Thread, rq[t] = << >>, NEW r, rq' = [rq EXCEPT ![t] = r],
         \A k \in DOMAIN r : r[k].kind \in {"none", "unset"},
         UNCHANGED <<ref, owner, pins, busy, vmas, lost>>
  PROVE  MemoryInv'
<1>1. DOMAIN rq = Thread
  BY DEF MemoryInv, MemoryTypes
<1>2. (\A c \in Block : Sharing(c)' = Sharing(c)) /\ Pinning' = Pinning
  BY <1>1, SharingBegins
<1>3. DOMAIN rq' = Thread /\ rq'[t] = r /\ \A u \in Thread \ {t} : rq'[u] = rq[u]
  BY <1>1
<1>4. \A c : Vmas(c)' = Vmas(c) /\ Listing(c)' = Listing(c)
  BY VmasSame, ListingSame
<1>5. MemoryTypes' /\ BusyExclusive'
  BY <1>3 DEF MemoryInv, MemoryTypes, BusyExclusive
<1>6. Counted'
  BY <1>2, <1>4 DEF MemoryInv, Counted, PinsCounted, BlockCounted
<1>7. Owned'
  <2>1. ASSUME NEW u \in Thread, NEW j \in DOMAIN rq'[u], rq'[u][j].kind = "copy"
        PROVE  rq'[u][j].block \in Block /\ owner[rq'[u][j].block] = Nil
    <3>1. u # t
      BY <1>3, <2>1
    <3>2. rq'[u] = rq[u]
      BY <1>3, <3>1
    <3> QED
      BY <2>1, <3>2 DEF MemoryInv, Owned
  <2> QED
    BY <2>1 DEF MemoryInv, Owned
<1> QED
  BY <1>5, <1>6, <1>7 DEF MemoryInv

\* A request ends and drops its references and pins ...
LEMMA MemoryUnshare ==
  ASSUME MemoryInv, NEW t \in Thread, UnshareAll(t), rq' = [rq EXCEPT ![t] = << >>],
         UNCHANGED <<busy, vmas, lost>>
  PROVE  MemoryInv'
<1>1. DOMAIN rq = Thread /\ ref \in [Block -> Nat] /\ pins \in Nat
  BY DEF MemoryInv, MemoryTypes
<1>2. /\ DOMAIN rq' = Thread /\ rq'[t] = << >>
      /\ \A u \in Thread \ {t} : rq'[u] = rq[u]
  BY <1>1
<1>3. ASSUME NEW c \in Block
      PROVE  /\ IsFiniteSet(Sharing(c)') /\ Held(rq[t], c) \in Nat
             /\ Cardinality(Sharing(c)) \in Nat /\ Cardinality(Sharing(c)') \in Nat
             /\ Cardinality(Sharing(c)') = Cardinality(Sharing(c)) - Held(rq[t], c)
  <2>1. IsFiniteSet(Sharing(c))
    BY Used DEF BlockCounted
  <2> QED
    BY <1>1, <2>1, SharingNone
<1>4. /\ IsFiniteSet(Pinning') /\ Pinned(rq[t]) \in Nat
      /\ Cardinality(Pinning) \in Nat /\ Cardinality(Pinning') \in Nat
      /\ Cardinality(Pinning') = Cardinality(Pinning) - Pinned(rq[t])
  <2>1. IsFiniteSet(Pinning)
    BY DEF MemoryInv, Counted, PinsCounted
  <2> QED
    BY <1>1, <2>1, PinningNone
<1>5. PICK r \in [Block -> Int] :
        r = [b \in Block |-> ref[b] - Held(rq[t], b)] /\ SetRef(r)
  <2>1. [b \in Block |-> ref[b] - Held(rq[t], b)] \in [Block -> Int]
    BY <1>1, <1>3
  <2> QED
    BY <2>1 DEF UnshareAll
<1>6. /\ ref' = r /\ owner' \in [Block -> File \cup {Nil}]
      /\ \A c \in Block : owner'[c] = IF ref'[c] = 0 THEN Nil ELSE owner[c]
  BY <1>5, OwnersAfter
<1>7. \A c \in Block : ref'[c] = ref[c] - Held(rq[t], c)
  BY <1>5, <1>6
<1>8. \A c : Vmas(c)' = Vmas(c) /\ Listing(c)' = Listing(c)
  BY VmasSame, ListingSame
<1>9. ASSUME NEW c \in Block PROVE BlockCounted(c)' /\ ref'[c] \in Nat
  <2>1. BlockCounted(c) /\ lost.ref[c] \in Nat /\ ref[c] \in Nat
    BY Used
  <2>2. /\ IsFiniteSet(Vmas(c)) /\ IsFiniteSet(Listing(c))
        /\ ref[c] = Cardinality(Vmas(c)) + Cardinality(Listing(c))
                    + Cardinality(Sharing(c)) + lost.ref[c]
    BY <2>1 DEF BlockCounted
  <2>3. Cardinality(Vmas(c)) \in Nat /\ Cardinality(Listing(c)) \in Nat
    BY <2>1, Cards
  <2>4. ref'[c] = Cardinality(Vmas(c)) + Cardinality(Listing(c))
                  + Cardinality(Sharing(c)') + lost.ref[c]
    <3>1. PICK v \in Nat, l \in Nat, s \in Nat, h \in Nat, o \in Nat :
            /\ v = Cardinality(Vmas(c)) /\ l = Cardinality(Listing(c))
            /\ s = Cardinality(Sharing(c)') /\ h = Held(rq[t], c) /\ o = lost.ref[c]
      BY <1>3, <2>1, <2>3
    <3>2. Cardinality(Sharing(c)) = s + h
      BY <1>3, <3>1
    <3>3. ref[c] = v + l + (s + h) + o
      BY <2>2, <3>1, <3>2
    <3>4. (v + l + (s + h) + o) - h = v + l + s + o
      OBVIOUS
    <3>5. ref'[c] = v + l + s + o
      BY <1>7, <3>1, <3>3, <3>4
    <3> QED
      BY <3>1, <3>5
  <2>5. ref'[c] \in Nat
    BY <1>3, <2>1, <2>3, <2>4
  <2>6. BlockCounted(c)'
    BY <1>3, <1>8, <2>2, <2>4 DEF BlockCounted
  <2> QED
    BY <2>5, <2>6
<1>10. PinsCounted' /\ pins' \in Nat
  <2>1. pins = Cardinality(Pinning) + lost.pins /\ lost.pins \in Nat
    BY DEF MemoryInv, MemoryTypes, Counted, PinsCounted
  <2>2. pins' = pins - Pinned(rq[t])
    BY DEF UnshareAll
  <2>3. pins' = Cardinality(Pinning') + lost.pins
    BY <1>1, <1>4, <2>1, <2>2
  <2>4. pins' \in Nat
    BY <1>4, <2>1, <2>3
  <2> QED
    BY <1>4, <2>3, <2>4 DEF PinsCounted
<1>11. Counted'
  BY <1>9, <1>10 DEF Counted
<1>12. MemoryTypes'
  <2>1. ref' \in [Block -> Nat]
    BY <1>5, <1>6, <1>9
  <2> QED
    BY <1>2, <1>6, <1>10, <2>1 DEF MemoryInv, MemoryTypes
<1>13. BusyExclusive'
  <2>1. ASSUME NEW f \in File, NEW c \in ToSet(busy[f])
        PROVE  ref'[c] = 1 /\ owner'[c] = f
    <3>1. c \in Block /\ ref[c] = 1 /\ owner[c] = f /\ Sharing(c) = {}
      BY ListedBlock
    <3>2. Cardinality(Sharing(c)) = 0
      BY <3>1, FS_EmptySet
    <3>3. Held(rq[t], c) = 0
      <4>1. PICK h, n \in Nat : h = Held(rq[t], c) /\ n = Cardinality(Sharing(c)')
                                /\ n = Cardinality(Sharing(c)) - h
        BY <1>3, <3>1
      <4>2. n = 0 - h
        BY <3>2, <4>1
      <4>3. h = 0
        BY <4>2
      <4> QED
        BY <4>1, <4>3
    <3>4. ref'[c] = 1
      BY <1>7, <3>1, <3>3
    <3> QED
      BY <1>6, <3>1, <3>4
  <2> QED
    BY <2>1 DEF MemoryInv, BusyExclusive
<1>14. Owned'
  <2>1. \A u \in Thread : rq'[u] = rq[u] \/ rq'[u] = << >>
    BY <1>2
  <2>2. \A g \in File, c \in Block : vmas'[g][c] > 0 => vmas[g][c] > 0
    OBVIOUS
  <2> QED
    BY <1>5, <1>11, <1>12, <2>1, <2>2, OwnedAfter
<1> QED
  BY <1>11, <1>12, <1>13, <1>14 DEF MemoryInv

\* ... or they are lost with the device.
LEMMA MemoryAbandon ==
  ASSUME MemoryInv, NEW t \in Thread, rq' = [rq EXCEPT ![t] = << >>],
         lost' = [ref  |-> [b \in Block |-> lost.ref[b] + Held(rq[t], b)],
                  pins |-> lost.pins + Pinned(rq[t])],
         UNCHANGED <<ref, owner, pins, busy, vmas>>
  PROVE  MemoryInv'
<1>1. DOMAIN rq = Thread /\ lost \in [ref : [Block -> Nat], pins : Nat]
  BY DEF MemoryInv, MemoryTypes
<1>2. /\ DOMAIN rq' = Thread /\ rq'[t] = << >>
      /\ \A u \in Thread \ {t} : rq'[u] = rq[u]
  BY <1>1
<1>3. ASSUME NEW c \in Block
      PROVE  /\ IsFiniteSet(Sharing(c)') /\ Held(rq[t], c) \in Nat
             /\ Cardinality(Sharing(c)) \in Nat /\ Cardinality(Sharing(c)') \in Nat
             /\ Cardinality(Sharing(c)') = Cardinality(Sharing(c)) - Held(rq[t], c)
  <2>1. IsFiniteSet(Sharing(c))
    BY Used DEF BlockCounted
  <2> QED
    BY <1>1, <2>1, SharingNone
<1>4. /\ IsFiniteSet(Pinning') /\ Pinned(rq[t]) \in Nat
      /\ Cardinality(Pinning) \in Nat /\ Cardinality(Pinning') \in Nat
      /\ Cardinality(Pinning') = Cardinality(Pinning) - Pinned(rq[t])
  <2>1. IsFiniteSet(Pinning)
    BY DEF MemoryInv, Counted, PinsCounted
  <2> QED
    BY <1>1, <2>1, PinningNone
<1>5. \A c : Vmas(c)' = Vmas(c) /\ Listing(c)' = Listing(c)
  BY VmasSame, ListingSame
<1>6. /\ lost' \in [ref : [Block -> Nat], pins : Nat]
      /\ lost'.pins = lost.pins + Pinned(rq[t])
      /\ \A c \in Block : lost'.ref[c] = lost.ref[c] + Held(rq[t], c)
  <2>1. PICK r \in [Block -> Nat] : r = [b \in Block |-> lost.ref[b] + Held(rq[t], b)]
    <3>1. [b \in Block |-> lost.ref[b] + Held(rq[t], b)] \in [Block -> Nat]
      BY <1>1, <1>3
    <3> QED
      BY <3>1
  <2>2. PICK p \in Nat : p = lost.pins + Pinned(rq[t])
    BY <1>1, <1>4
  <2>3. lost' = [ref |-> r, pins |-> p]
    BY <2>1, <2>2
  <2> QED
    BY <2>1, <2>2, <2>3
<1>7. ASSUME NEW c \in Block PROVE BlockCounted(c)'
  <2>1. BlockCounted(c) /\ lost.ref[c] \in Nat /\ ref[c] \in Nat
    BY Used
  <2>2. /\ IsFiniteSet(Vmas(c)) /\ IsFiniteSet(Listing(c))
        /\ ref[c] = Cardinality(Vmas(c)) + Cardinality(Listing(c))
                    + Cardinality(Sharing(c)) + lost.ref[c]
    BY <2>1 DEF BlockCounted
  <2>3. Cardinality(Vmas(c)) \in Nat /\ Cardinality(Listing(c)) \in Nat
    BY <2>1, Cards
  <2>4. ref[c] = Cardinality(Vmas(c)) + Cardinality(Listing(c))
                 + Cardinality(Sharing(c)') + lost'.ref[c]
    <3>1. PICK v \in Nat, l \in Nat, s \in Nat, h \in Nat, o \in Nat :
            /\ v = Cardinality(Vmas(c)) /\ l = Cardinality(Listing(c))
            /\ s = Cardinality(Sharing(c)') /\ h = Held(rq[t], c) /\ o = lost.ref[c]
      BY <1>3, <2>1, <2>3
    <3>2. Cardinality(Sharing(c)) = s + h /\ lost'.ref[c] = o + h
      BY <1>3, <1>6, <3>1
    <3>3. ref[c] = v + l + (s + h) + o
      BY <2>2, <3>1, <3>2
    <3>4. v + l + (s + h) + o = v + l + s + (o + h)
      OBVIOUS
    <3> QED
      BY <3>1, <3>2, <3>3, <3>4
  <2> QED
    BY <1>3, <1>5, <2>2, <2>4 DEF BlockCounted
<1>8. PinsCounted'
  <2>1. pins = Cardinality(Pinning) + lost.pins /\ lost.pins \in Nat
    BY DEF MemoryInv, MemoryTypes, Counted, PinsCounted
  <2>2. pins = Cardinality(Pinning') + lost'.pins
    BY <1>4, <1>6, <2>1
  <2> QED
    BY <1>4, <2>2 DEF PinsCounted
<1>9. MemoryTypes' /\ BusyExclusive'
  BY <1>2, <1>6 DEF MemoryInv, MemoryTypes, BusyExclusive
<1>10. Owned'
  <2>1. ASSUME NEW u \in Thread, NEW j \in DOMAIN rq'[u], rq'[u][j].kind = "copy"
        PROVE  rq'[u][j].block \in Block /\ owner[rq'[u][j].block] = Nil
    <3>1. u # t
      BY <1>2
    <3>2. rq'[u] = rq[u]
      BY <1>2, <3>1
    <3> QED
      BY <2>1, <3>2 DEF MemoryInv, Owned
  <2> QED
    BY <2>1 DEF MemoryInv, Owned
<1> QED
  BY <1>7, <1>8, <1>9, <1>10 DEF MemoryInv, Counted

(***************************************************************************)
(* What the steps do to threads.                                           *)
(***************************************************************************)

\* Where a thread may be with a call and a request.
Fits(to, c, r) ==
  /\ to = "idle" => c = NoCall
  /\ to # "idle" => c.file \in File
  /\ to \notin {"idle", "map", "dsp"} => c.block \in Block
  /\ to \notin {"map", "dsp"} => r = << >>
  /\ to \in {"map", "dsp"} =>
       c.shape \in Shape /\ DOMAIN r = ToSet(Slots(c.shape))
  /\ to = "map" =>
       /\ c.i \in DOMAIN Slots(c.shape)
       /\ \A j \in DOMAIN Slots(c.shape) : j >= c.i =>
            r[Slots(c.shape)[j]].kind \in {"none", "unset"}

\* What a request may hold there.
InReach(to, c, r) ==
  to \in {"map", "dsp"} =>
    \A k \in DOMAIN r : r[k].kind \notin {"none", "unset", "half"} =>
      Vetted(DeviceOf[c.file], r[k])

Kinds(r) == \A k \in DOMAIN r : r[k].kind \in Kind

ThreadFits(t) ==
  Fits(pc[t], call[t], rq[t]) /\ InReach(pc[t], call[t], rq[t]) /\ Kinds(rq[t])

\* The part of the invariant about threads, for each thread.
LEMMA ThreadByThread ==
  ThreadInv <=> /\ pc \in [Thread -> Place] /\ call \in [Thread -> Call]
                /\ DOMAIN rq = Thread
                /\ \A t \in Thread : ThreadFits(t)
<1>1. Calling <=> \A t \in Thread : Fits(pc[t], call[t], rq[t])
  BY DEF Calling, Fits
<1>2. AllVetted <=> \A t \in Thread : InReach(pc[t], call[t], rq[t])
  BY DEF AllVetted, InReach
<1> QED
  BY <1>1, <1>2 DEF ThreadInv, ThreadTypes, ThreadFits, Kinds

\* The thread t goes to another place, with another call and another request.
Goes(t, to, c, r) ==
  /\ pc' = [pc EXCEPT ![t] = to]
  /\ call' = [call EXCEPT ![t] = c]
  /\ DOMAIN rq' = Thread /\ rq'[t] = r /\ \A u \in Thread \ {t} : rq'[u] = rq[u]

\* A thread goes to a place that fits its call and its request.
LEMMA ThreadGoes ==
  ASSUME ThreadInv, NEW t \in Thread, NEW to \in Place, NEW c \in Call, NEW r,
         Goes(t, to, c, r), Fits(to, c, r), InReach(to, c, r), Kinds(r)
  PROVE  ThreadInv'
<1>1. /\ pc \in [Thread -> Place] /\ call \in [Thread -> Call]
      /\ DOMAIN rq = Thread /\ \A u \in Thread : ThreadFits(u)
  BY ThreadByThread
<1>2. /\ pc' \in [Thread -> Place] /\ call' \in [Thread -> Call] /\ DOMAIN rq' = Thread
      /\ pc'[t] = to /\ call'[t] = c /\ rq'[t] = r
      /\ \A u \in Thread \ {t} : pc'[u] = pc[u] /\ call'[u] = call[u] /\ rq'[u] = rq[u]
  BY <1>1 DEF Goes
<1>3. ASSUME NEW u \in Thread
      PROVE  Fits(pc'[u], call'[u], rq'[u]) /\ InReach(pc'[u], call'[u], rq'[u])
             /\ Kinds(rq'[u])
  <2>1. CASE u = t
    BY <1>2, <2>1
  <2>2. CASE u # t
    BY <1>1, <1>2, <2>2 DEF ThreadFits
  <2> QED
    BY <2>1, <2>2
<1>4. Calling'
  BY <1>3 DEF Calling, Fits
<1>5. AllVetted'
  BY <1>3 DEF AllVetted, InReach, Vetted, Exempt, PagesOf
<1> QED
  BY <1>2, <1>3, <1>4, <1>5 DEF ThreadInv, ThreadTypes, Kinds

\* Steps that leave the threads alone.
LEMMA ThreadSame ==
  ASSUME ThreadInv, UNCHANGED <<pc, call, rq>>
  PROVE  ThreadInv'
  BY DEF ThreadInv, ThreadTypes, Calling, AllVetted, Vetted, Exempt, PagesOf

\* What the invariant says about one thread.
LEMMA ThreadParts ==
  ASSUME ThreadInv, NEW t \in Thread
  PROVE  /\ pc[t] \in Place /\ call[t] \in Call /\ DOMAIN rq = Thread
         /\ Fits(pc[t], call[t], rq[t]) /\ InReach(pc[t], call[t], rq[t]) /\ Kinds(rq[t])
  BY ThreadByThread DEF ThreadFits

\* The forms of the steps.
LEMMA GoesFacts ==
  ASSUME ThreadInv, NEW t \in Thread, NEW to \in Place,
         pc' = [pc EXCEPT ![t] = to], NEW c \in Call,
         call' = [call EXCEPT ![t] = c] \/ (c = call[t] /\ UNCHANGED call),
         NEW r, rq' = [rq EXCEPT ![t] = r] \/ (r = rq[t] /\ UNCHANGED rq)
  PROVE  Goes(t, to, c, r)
<1>1. call \in [Thread -> Call] /\ DOMAIN rq = Thread
  BY DEF ThreadInv, ThreadTypes
<1>2. call' = [call EXCEPT ![t] = c]
  BY <1>1
<1>3. DOMAIN rq' = Thread /\ rq'[t] = r /\ \A u \in Thread \ {t} : rq'[u] = rq[u]
  BY <1>1
<1> QED
  BY <1>2, <1>3 DEF Goes

\* The fields of a call.
LEMMA CallTypes ==
  ASSUME NEW c \in Call
  PROVE  /\ c.file \in File \cup {Nil} /\ c.block \in Block \cup {Nil}
         /\ c.shape \in Shape \cup {Nil} /\ c.i \in Nat
  BY DEF Call

\* A thread without a call is typed, too.
LEMMA NoCallIsCall == NoCall \in Call
  BY DEF NoCall, Call

\* A thread ends its call.
LEMMA ThreadEnds ==
  ASSUME ThreadInv, NEW t \in Thread, pc' = [pc EXCEPT ![t] = "idle"],
         call' = [call EXCEPT ![t] = NoCall],
         rq' = [rq EXCEPT ![t] = << >>] \/ (rq[t] = << >> /\ UNCHANGED rq)
  PROVE  ThreadInv'
<1>1. Goes(t, "idle", NoCall, << >>)
  BY GoesFacts, NoCallIsCall DEF Place
<1>2. Fits("idle", NoCall, << >>) /\ InReach("idle", NoCall, << >>) /\ Kinds(<< >>)
  BY DEF Fits, InReach, Kinds
<1> QED
  BY <1>1, <1>2, ThreadGoes, NoCallIsCall DEF Place

\* A thread begins a call.
LEMMA ThreadBegins ==
  ASSUME ThreadInv, NEW t \in Thread, NEW to \in Place, NEW f \in File,
         NEW b \in Block \cup {Nil}, NEW s \in Shape \cup {Nil}, Begin(t, to, f, b, s),
         opened \subseteq File
  PROVE  /\ pc[t] = "idle" /\ rq[t] = << >>
         /\ \E c \in Call : /\ c = [file |-> f, block |-> b, shape |-> s, i |-> 1]
                            /\ pc' = [pc EXCEPT ![t] = to] /\ call' = [call EXCEPT ![t] = c]
<1>1. pc[t] = "idle" /\ pc' = [pc EXCEPT ![t] = to]
  BY DEF Begin, Step
<1>2. rq[t] = << >>
  BY <1>1, ThreadParts DEF Fits
<1>3. PICK c \in Call : c = [file |-> f, block |-> b, shape |-> s, i |-> 1]
  BY DEF Call
<1>4. call' = [call EXCEPT ![t] = c]
  BY <1>3 DEF Begin
<1> QED
  BY <1>1, <1>2, <1>3, <1>4

(***************************************************************************)
(* The steps.                                                              *)
(***************************************************************************)

\* The invariant holds when the driver is loaded.
LEMMA InitInv ==
  ASSUME Init
  PROVE  IInv
<1>1. /\ \A t \in Thread : pc[t] = "idle" /\ call[t] = NoCall /\ rq[t] = << >>
      /\ \A b \in Block : ref[b] = 0 /\ owner[b] = Nil /\ lost.ref[b] = 0
      /\ \A f \in File : busy[f] = <<>> /\ \A b \in Block : vmas[f][b] = 0
      /\ pins = 0 /\ lost.pins = 0
  BY DEF Init
<1>2. MemoryTypes
  <2>1. 0 \in 0 .. MaxVma
    BY FileAssumption
  <2> QED
    BY <2>1 DEF Init, MemoryTypes
<1>3. ThreadInv
  <2>1. ASSUME NEW t \in Thread PROVE ThreadFits(t)
    BY <1>1 DEF ThreadFits, Fits, InReach, Kinds
  <2>2. pc \in [Thread -> Place] /\ call \in [Thread -> Call] /\ DOMAIN rq = Thread
    BY NoCallIsCall DEF Init, Place
  <2> QED
    BY <2>1, <2>2, ThreadByThread
<1>4. ToSet(<<>>) = {} /\ Distinct(<<>>)
  BY DEF ToSet, Distinct
<1>5. Counted
  <2>1. IsFiniteSet({}) /\ Cardinality({}) = 0
    BY FS_EmptySet
  <2>2. ASSUME NEW b \in Block PROVE BlockCounted(b)
    <3>1. Vmas(b) = {}
      <4>1. \A f \in File : 1 .. vmas[f][b] = {}
        BY <1>1
      <4> QED
        BY <4>1 DEF Vmas
    <3>2. Listing(b) = {}
      BY <1>1, <1>4 DEF Listing
    <3>3. Sharing(b) = {}
      <4>1. \A t \in Thread : Holds(rq[t], b) = {}
        BY <1>1 DEF Holds
      <4> QED
        BY <4>1 DEF Sharing
    <3> QED
      BY <1>1, <2>1, <3>1, <3>2, <3>3 DEF BlockCounted
  <2>3. PinsCounted
    <3>1. \A t \in Thread : Pins(rq[t]) = {}
      BY <1>1 DEF Pins
    <3>2. Pinning = {}
      BY <3>1 DEF Pinning
    <3> QED
      BY <1>1, <2>1, <3>2 DEF PinsCounted
  <2> QED
    BY <2>2, <2>3 DEF Counted
<1>6. BusyExclusive
  BY <1>1, <1>4 DEF BusyExclusive
<1>7. Owned
  BY <1>1 DEF Owned
<1>8. FileTypes
  BY DEF Init, FileTypes
<1> QED
  BY <1>2, <1>3, <1>5, <1>6, <1>7, <1>8 DEF IInv, MemoryInv

\* Opening and closing files.
LEMMA OpenStep ==
  ASSUME IInv, NEW f \in File, Open(f)
  PROVE  IInv'
<1>1. MemoryInv'
  BY MemorySame DEF IInv, Open, memory
<1>2. ThreadInv'
  BY ThreadSame DEF IInv, Open
<1>3. FileTypes'
  BY DEF IInv, FileTypes, Open, AddKnownFile
<1> QED
  BY <1>1, <1>2, <1>3 DEF IInv

\* Closing a file forgets its busy list with the references in it.
LEMMA CloseStep ==
  ASSUME IInv, NEW f \in File, Close(f)
  PROVE  IInv'
<1>1. MemoryInv'
  BY MemoryForget DEF IInv, Close, memory
<1>2. ThreadInv'
  BY ThreadSame DEF IInv, Close
<1>3. FileTypes'
  BY DEF IInv, FileTypes, Close, RemoveKnownFile
<1> QED
  BY <1>1, <1>2, <1>3 DEF IInv

\* Steps that leave the files and the devices alone.
LEMMA FilesSame ==
  ASSUME IInv, UNCHANGED <<opened, known, off>>
  PROVE  FileTypes'
  BY DEF IInv, FileTypes

\* Allocation: a free block goes on the list of its file.
LEMMA IoctlAllocStep ==
  ASSUME IInv, NEW t \in Thread, NEW f \in File, IoctlAlloc(t, f)
  PROVE  IInv'
<1>1. PICK b \in Free(DeviceOf[f]) :
        /\ Begin(t, "mmap", f, b, Nil)
        /\ ref' = [ref EXCEPT ![b] = 1] /\ owner' = [owner EXCEPT ![b] = f]
        /\ AllocationQueue(f, b)
        /\ UNCHANGED <<opened, known, vmas, pins, rq, off, lost, wild>>
  BY DEF IoctlAlloc
<1>2. MemoryInv'
  BY <1>1, MemoryAlloc DEF IInv
<1>3. ThreadInv'
  <2>1. b \in Block /\ ThreadInv /\ opened \subseteq File
    BY DEF Free, IInv, FileTypes
  <2>2. /\ rq[t] = << >>
        /\ \E c \in Call : /\ c = [file |-> f, block |-> b, shape |-> Nil, i |-> 1]
                           /\ pc' = [pc EXCEPT ![t] = "mmap"]
                           /\ call' = [call EXCEPT ![t] = c]
    BY <1>1, <2>1, ThreadBegins DEF Place
  <2>3. PICK c \in Call : /\ c = [file |-> f, block |-> b, shape |-> Nil, i |-> 1]
                          /\ pc' = [pc EXCEPT ![t] = "mmap"]
                          /\ call' = [call EXCEPT ![t] = c]
    BY <2>2
  <2>4. Fits("mmap", c, << >>) /\ InReach("mmap", c, << >>) /\ Kinds(<< >>)
    BY <2>1, <2>3 DEF Fits, InReach, Kinds
  <2>5. Goes(t, "mmap", c, << >>)
    BY <1>1, <2>1, <2>2, <2>3, GoesFacts DEF Place
  <2> QED
    BY <2>1, <2>4, <2>5, ThreadGoes DEF Place
<1> QED
  BY <1>1, <1>2, <1>3, FilesSame DEF IInv

\* A thread goes on with the same call.
LEMMA ThreadGoesOn ==
  ASSUME ThreadInv, NEW t \in Thread, NEW to \in {"unmapped", "copyout"},
         pc[t] = "mmap", pc' = [pc EXCEPT ![t] = to], UNCHANGED <<call, rq>>
  PROVE  ThreadInv'
<1>1. PICK r : r = rq[t]
  OBVIOUS
<1>2. PICK c \in Call : c = call[t] /\ r = rq[t]
  BY <1>1, ThreadParts
<1>3. Fits("mmap", c, r)
  BY <1>2, ThreadParts
<1>4. Fits(to, c, r) /\ InReach(to, c, r) /\ Kinds(r)
  <2>1. r = << >>
    BY <1>3 DEF Fits
  <2> QED
    BY <1>3, <2>1 DEF Fits, InReach, Kinds
<1>5. Goes(t, to, c, r)
  BY <1>2, GoesFacts DEF Place
<1> QED
  BY <1>4, <1>5, ThreadGoes DEF Place

\* Its mapping takes the block off the list, or fails.
LEMMA AllocMmapStep ==
  ASSUME IInv, NEW t \in Thread, AllocMmap(t)
  PROVE  IInv'
<1>1. pc[t] = "mmap" /\ ThreadInv /\ MemoryInv
  BY DEF AllocMmap, IInv
<1>2. PICK f \in File, b \in Block : f = call[t].file /\ b = call[t].block
  BY <1>1, ThreadParts DEF Fits
<1>3. /\ XvpMmap(f, b) \/ UNCHANGED <<busy, vmas, lost>>
      /\ pc' = [pc EXCEPT ![t] = IF vmas' = vmas THEN "unmapped" ELSE "copyout"]
      /\ UNCHANGED <<call, opened, known, ref, owner, pins, rq, off, wild>>
  BY <1>2 DEF AllocMmap, Step, memory
<1>4. MemoryInv'
  <2>1. CASE UNCHANGED <<busy, vmas, lost>>
    BY <1>1, <1>3, <2>1, MemorySame
  <2>2. CASE XvpMmap(f, b)
    <3>1. CASE AddVma(f, b) /\ UNCHANGED lost
      BY <1>1, <1>3, <2>2, <3>1, MemoryMap DEF XvpMmap
    <3>2. CASE UNCHANGED vmas /\ lost' = [lost EXCEPT !.ref[b] = @ + 1]
      BY <1>1, <1>3, <2>2, <3>2, MemoryMapFails DEF XvpMmap
    <3> QED
      BY <2>2, <3>1, <3>2 DEF XvpMmap
  <2> QED
    BY <1>3, <2>1, <2>2
<1>5. ThreadInv'
  <2>1. PICK to \in {"unmapped", "copyout"} : pc' = [pc EXCEPT ![t] = to]
    BY <1>3
  <2> QED
    BY <1>1, <1>3, <2>1, ThreadGoesOn
<1> QED
  BY <1>3, <1>4, <1>5, FilesSame DEF IInv

\* Its end, with the mapping undone when the result cannot be copied.
LEMMA AllocReturnStep ==
  ASSUME IInv, NEW t \in Thread, AllocReturn(t)
  PROVE  IInv'
<1>1. pc[t] \in {"unmapped", "copyout"} /\ ThreadInv /\ MemoryInv
  BY DEF AllocReturn, Step, IInv
<1>2. PICK f \in File, b \in Block : f = call[t].file /\ b = call[t].block
  BY <1>1, ThreadParts DEF Fits
<1>3. rq[t] = << >>
  BY <1>1, ThreadParts DEF Fits
<1>4. /\ \/ UNCHANGED <<ref, owner, vmas>>
         \/ vmas[f][b] > 0 /\ DelVma(f, b) /\ Put(b)
      /\ pc' = [pc EXCEPT ![t] = "idle"] /\ call' = [call EXCEPT ![t] = NoCall]
      /\ UNCHANGED <<opened, known, busy, pins, rq, off, lost, wild>>
  BY <1>2 DEF AllocReturn, Step
<1>5. MemoryInv'
  BY <1>1, <1>4, MemorySame, MemoryClose
<1>6. ThreadInv'
  BY <1>1, <1>3, <1>4, ThreadEnds
<1> QED
  BY <1>4, <1>5, <1>6, FilesSame DEF IInv

\* Mappings made, inherited and removed by the program.
LEMMA UserMmapStep ==
  ASSUME IInv, NEW f \in File, NEW b \in Block, UserMmap(f, b)
  PROVE  IInv'
<1>1. UNCHANGED <<pc, call, opened, known, ref, owner, pins, rq, off, wild>>
  BY DEF UserMmap, memory
<1>2. MemoryInv'
  BY <1>1, MemoryMap, MemoryMapFails DEF IInv, UserMmap, XvpMmap
<1>3. ThreadInv'
  BY <1>1, ThreadSame DEF IInv
<1> QED
  BY <1>1, <1>2, <1>3, FilesSame DEF IInv

\* A mapping is split or inherited, with a reference more.
LEMMA VmOpenStep ==
  ASSUME IInv, NEW f \in File, NEW b \in Block, VmOpen(f, b)
  PROVE  IInv'
<1>1. MemoryInv'
  BY MemoryOpen DEF IInv, VmOpen
<1>2. ThreadInv'
  BY ThreadSame DEF IInv, VmOpen
<1> QED
  BY <1>1, <1>2, FilesSame DEF IInv, VmOpen

\* A mapping goes, and its reference with it.
LEMMA VmCloseStep ==
  ASSUME IInv, NEW f \in File, NEW b \in Block, VmClose(f, b)
  PROVE  IInv'
<1>1. MemoryInv'
  BY MemoryClose DEF IInv, VmClose
<1>2. ThreadInv'
  BY ThreadSame DEF IInv, VmClose
<1> QED
  BY <1>1, <1>2, FilesSame DEF IInv, VmClose

\* Freeing a block: the mapping is found ...
LEMMA IoctlFreeStep ==
  ASSUME IInv, NEW t \in Thread, NEW f \in File, NEW b \in Block, IoctlFree(t, f, b)
  PROVE  IInv'
<1>1. /\ Begin(t, "munmap", f, b, Nil) /\ ThreadInv /\ opened \subseteq File
      /\ UNCHANGED <<opened, known, ref, owner, pins, busy, vmas, rq, off, lost, wild>>
  BY DEF IoctlFree, IInv, FileTypes, memory
<1>2. MemoryInv'
  BY <1>1, MemorySame DEF IInv
<1>3. ThreadInv'
  <2>1. /\ rq[t] = << >>
        /\ \E c \in Call : /\ c = [file |-> f, block |-> b, shape |-> Nil, i |-> 1]
                           /\ pc' = [pc EXCEPT ![t] = "munmap"]
                           /\ call' = [call EXCEPT ![t] = c]
    BY <1>1, ThreadBegins DEF Place
  <2>2. PICK c \in Call : /\ c = [file |-> f, block |-> b, shape |-> Nil, i |-> 1]
                          /\ pc' = [pc EXCEPT ![t] = "munmap"]
                          /\ call' = [call EXCEPT ![t] = c]
    BY <2>1
  <2>3. Fits("munmap", c, << >>) /\ InReach("munmap", c, << >>) /\ Kinds(<< >>)
    BY <2>2 DEF Fits, InReach, Kinds
  <2>4. Goes(t, "munmap", c, << >>)
    BY <1>1, <2>1, <2>2, GoesFacts DEF Place
  <2> QED
    BY <1>1, <2>3, <2>4, ThreadGoes DEF Place
<1> QED
  BY <1>1, <1>2, <1>3, FilesSame DEF IInv

\* ... and removed, if it is still there.
LEMMA FreeMunmapStep ==
  ASSUME IInv, NEW t \in Thread, FreeMunmap(t)
  PROVE  IInv'
<1>1. pc[t] = "munmap" /\ ThreadInv /\ MemoryInv
  BY DEF FreeMunmap, Step, IInv
<1>2. PICK f \in File, b \in Block : f = call[t].file /\ b = call[t].block
  BY <1>1, ThreadParts DEF Fits
<1>3. rq[t] = << >>
  BY <1>1, ThreadParts DEF Fits
<1>4. /\ \/ UNCHANGED <<ref, owner, vmas>>
         \/ vmas[f][b] > 0 /\ DelVma(f, b) /\ Put(b)
      /\ pc' = [pc EXCEPT ![t] = "idle"] /\ call' = [call EXCEPT ![t] = NoCall]
      /\ UNCHANGED <<opened, known, busy, pins, rq, off, lost, wild>>
  BY <1>2 DEF FreeMunmap, Step
<1>5. MemoryInv'
  BY <1>1, <1>4, MemorySame, MemoryClose
<1>6. ThreadInv'
  BY <1>1, <1>3, <1>4, ThreadEnds
<1> QED
  BY <1>4, <1>5, <1>6, FilesSame DEF IInv

\* A request begins: its mappings hold nothing yet.
LEMMA MapRequestStep ==
  ASSUME IInv, NEW t \in Thread, NEW f \in File, NEW s \in Shape, MapRequest(t, f, s)
  PROVE  IInv'
<1>1. PICK to \in {"map", "dsp"} : to = IF Slots(s) = <<>> THEN "dsp" ELSE "map"
  OBVIOUS
<1>2. PICK r : r = [k \in ToSet(Slots(s)) |->
                      IF k \in {"b1", "b2"} THEN NoMapping ELSE UnsetMapping]
  OBVIOUS
<1>3. /\ Begin(t, to, f, Nil, s) /\ rq' = [rq EXCEPT ![t] = r]
      /\ UNCHANGED <<opened, known, ref, owner, pins, busy, vmas, off, lost, wild>>
  BY <1>1, <1>2 DEF MapRequest, memory
<1>4. MemoryInv /\ ThreadInv /\ opened \subseteq File
  BY DEF IInv, FileTypes
<1>5. /\ rq[t] = << >>
      /\ \E c \in Call : /\ c = [file |-> f, block |-> Nil, shape |-> s, i |-> 1]
                         /\ pc' = [pc EXCEPT ![t] = to]
                         /\ call' = [call EXCEPT ![t] = c]
  BY <1>3, <1>4, ThreadBegins DEF Place
<1>6. PICK c \in Call : /\ c = [file |-> f, block |-> Nil, shape |-> s, i |-> 1]
                        /\ pc' = [pc EXCEPT ![t] = to]
                        /\ call' = [call EXCEPT ![t] = c]
  BY <1>5
<1>7. /\ DOMAIN r = ToSet(Slots(s))
      /\ \A k \in DOMAIN r : r[k].kind \in {"none", "unset"}
  BY <1>2 DEF NoMapping, UnsetMapping
<1>8. MemoryInv'
  BY <1>3, <1>4, <1>5, <1>7, MemoryBegin
<1>9. ThreadInv'
  <2>1. Kinds(r)
    BY <1>7 DEF Kinds, Kind
  <2>2. InReach(to, c, r)
    BY <1>7 DEF InReach
  <2>3. PICK L \in Seq(SlotName) : L = Slots(s)
    BY SlotsFacts
  <2>4. to = "map" => 1 \in DOMAIN L
    BY <1>1, <2>3
  <2>5. \A j \in DOMAIN L : L[j] \in DOMAIN r
    BY <1>7, <2>3, ToSetFacts
  <2>6. Fits(to, c, r)
    BY <1>1, <1>6, <1>7, <2>3, <2>4, <2>5 DEF Fits
  <2>7. Goes(t, to, c, r)
    BY <1>3, <1>4, <1>6, GoesFacts DEF Place
  <2> QED
    BY <1>4, <2>1, <2>2, <2>6, <2>7, ThreadGoes DEF Place
<1> QED
  BY <1>3, <1>8, <1>9, FilesSame DEF IInv

\* The slot a thread has come to.
LEMMA SlotFacts ==
  ASSUME ThreadInv, NEW t \in Thread, pc[t] = "map"
  PROVE  /\ call[t].file \in File /\ call[t].shape \in Shape
         /\ DOMAIN rq[t] = ToSet(Slots(call[t].shape))
         /\ call[t].i \in DOMAIN Slots(call[t].shape)
         /\ Slot(t) \in DOMAIN rq[t] /\ rq[t][Slot(t)].kind \in {"none", "unset"}
<1>1. Fits("map", call[t], rq[t])
  BY ThreadParts
<1>2. PICK s \in Shape, L \in Seq(SlotName) :
        s = call[t].shape /\ L = Slots(s) /\ DOMAIN rq[t] = ToSet(L)
  BY <1>1, SlotsFacts DEF Fits
<1>3. PICK i \in DOMAIN L :
        /\ i = call[t].i
        /\ \A j \in DOMAIN L : j >= i => rq[t][L[j]].kind \in {"none", "unset"}
  BY <1>1, <1>2 DEF Fits
<1>4. L[i] \in ToSet(L) /\ i >= i
  BY ToSetFacts
<1>5. Slot(t) = L[i]
  BY <1>2, <1>3 DEF Slot
<1> QED
  BY <1>1, <1>2, <1>3, <1>4, <1>5 DEF Fits

\* A slot is shared: what the thread does.
LEMMA SharedThread ==
  ASSUME ThreadInv, NEW t \in Thread, NEW m, Shared(t, m), m.kind \in Kind,
         m.kind \notin {"none", "unset", "half"} => Vetted(DeviceOf[call[t].file], m)
  PROVE  ThreadInv' /\ Fills(t, Slot(t), m)
<1>1. pc[t] = "map"
  BY DEF Shared, Step
<1>2. PICK c \in Call : c = call[t]
  BY ThreadParts
<1>3. Fits("map", c, rq[t]) /\ InReach("map", c, rq[t]) /\ Kinds(rq[t]) /\ DOMAIN rq = Thread
  BY <1>1, <1>2, ThreadParts
<1>5. PICK s \in Shape, L \in Seq(SlotName) :
         s = c.shape /\ L = Slots(s) /\ DOMAIN rq[t] = ToSet(L)
  BY <1>3, SlotsFacts DEF Fits
<1>4. PICK i \in DOMAIN L :
        /\ i = c.i
        /\ \A j \in DOMAIN L : j >= i => rq[t][L[j]].kind \in {"none", "unset"}
  BY <1>3, <1>5 DEF Fits
<1>6. Distinct(L) /\ DOMAIN L = 1 .. Len(L) /\ Len(L) \in Nat
  BY <1>4, <1>5, SlotsFacts
<1>7. PICK k \in DOMAIN rq[t] : k = L[i] /\ k = Slot(t)
  <2>1. Slot(t) = L[i]
    BY <1>2, <1>4, <1>5 DEF Slot
  <2> QED
    BY <1>4, <1>5, <2>1, ToSetFacts
<1>8. rq[t][k].kind \in {"none", "unset"}
  BY <1>1, <1>7, SlotFacts
<1>9. rq' = [rq EXCEPT ![t][k] = m]
  BY <1>7 DEF Shared
<1>10. PICK r : r = [rq[t] EXCEPT ![k] = m]
  OBVIOUS
<1>11. /\ DOMAIN r = DOMAIN rq[t] /\ r[k] = m
       /\ \A j \in DOMAIN rq[t] \ {k} : r[j] = rq[t][j]
  BY <1>10
<1>12. rq' = [rq EXCEPT ![t] = r]
  BY <1>9, <1>10
<1>13. PICK d \in Call : /\ d = [c EXCEPT !.i = @ + 1] /\ d.file = c.file
                         /\ d.shape = s /\ d.i = i + 1
  <2>1. PICK n \in Nat : n = c.i
    BY DEF Call
  <2>2. PICK d \in Call :
          d = [file |-> c.file, block |-> c.block, shape |-> c.shape, i |-> n + 1]
    <3>1. /\ c.file \in File \cup {Nil} /\ c.block \in Block \cup {Nil}
          /\ c.shape \in Shape \cup {Nil}
      BY CallTypes
    <3>2. PICK f \in File \cup {Nil} : f = c.file
      BY <3>1
    <3>3. PICK b \in Block \cup {Nil} : b = c.block
      BY <3>1
    <3>4. PICK z \in Shape \cup {Nil} : z = c.shape
      BY <3>1
    <3>5. PICK j \in Nat : j = n + 1
      BY <2>1
    <3>6. [file |-> f, block |-> b, shape |-> z, i |-> j] \in Call
      BY DEF Call
    <3> QED
      BY <3>2, <3>3, <3>4, <3>5, <3>6, Zenon
  <2>3. d.file = c.file /\ d.shape = c.shape /\ d.i = n + 1
    BY <2>2
  <2>4. d = [c EXCEPT !.i = n + 1]
    BY <2>2 DEF Call
  <2> QED
    BY <1>4, <1>5, <2>1, <2>3, <2>4
<1>14. call' = [call EXCEPT ![t] = d]
  <2>1. call' = [call EXCEPT ![t].i = @ + 1]
    BY DEF Shared
  <2>2. call' = [call EXCEPT ![t] = [call[t] EXCEPT !.i = @ + 1]]
    BY <2>1
  <2> QED
    BY <1>2, <1>13, <2>2
<1>15. PICK to \in {"map", "dsp"} : /\ to = IF i = Len(L) THEN "dsp" ELSE "map"
                                    /\ pc' = [pc EXCEPT ![t] = to]
  BY <1>2, <1>4, <1>5 DEF Shared, Step
<1>16. Kinds(r)
  BY <1>3, <1>11 DEF Kinds
<1>17. InReach(to, d, r)
  <2>1. ASSUME NEW j \in DOMAIN r, r[j].kind \notin {"none", "unset", "half"}
        PROVE  Vetted(DeviceOf[c.file], r[j])
    <3>1. CASE j = k
      BY <1>2, <1>11, <2>1, <3>1
    <3>2. CASE j # k
      BY <1>3, <1>11, <2>1, <3>2 DEF InReach
    <3> QED
      BY <3>1, <3>2
  <2> QED
    BY <1>13, <2>1 DEF InReach
<1>18. Fits(to, d, r)
  <2>1. d.file \in File
    BY <1>3, <1>13 DEF Fits
  <2>2. DOMAIN r = ToSet(L)
    BY <1>4, <1>5, <1>11
  <2>3. to = "map" => i + 1 \in DOMAIN L
    BY <1>6, <1>15
  <2>4. ASSUME NEW j \in DOMAIN L, j >= i + 1
        PROVE  r[L[j]].kind \in {"none", "unset"}
    <3>1. j # i /\ j >= i
      BY <1>6, <2>4
    <3>2. L[j] # k
      BY <1>6, <1>7, <3>1 DEF Distinct
    <3>3. L[j] \in DOMAIN rq[t]
      BY <1>4, <1>5, <1>6, ToSetFacts
    <3> QED
      BY <1>4, <1>5, <1>11, <3>1, <3>2, <3>3
  <2> QED
    BY <1>4, <1>5, <1>13, <1>15, <2>1, <2>2, <2>3, <2>4 DEF Fits
<1>19. Goes(t, to, d, r)
  BY <1>12, <1>14, <1>15, GoesFacts DEF Place
<1>20. ThreadInv'
  BY <1>16, <1>17, <1>18, <1>19, ThreadGoes DEF Place
<1>21. Fills(t, Slot(t), m)
  BY <1>7, <1>8, <1>9 DEF Fills
<1> QED
  BY <1>20, <1>21

\* A step that shares a slot leaves the files alone.
LEMMA SharedFiles ==
  ASSUME IInv, NEW t \in Thread, NEW m, Shared(t, m)
  PROVE  FileTypes' /\ UNCHANGED <<busy, vmas, lost>>
  BY FilesSame DEF Shared

\* Pages that follow one another are in one range if the first and the last are.
LEMMA PagesBetween ==
  ASSUME NEW map \in Seq(Entry), NEW p \in Seq(Nat) \ {<<>>},
         \A k \in DOMAIN p : p[k] = p[1] + k - 1,
         InOneEntry(map, <<p[1], p[Len(p)]>>)
  PROVE  InOneEntry(map, p)
<1>1. PICK n \in Nat : n = Len(p) /\ n >= 1 /\ DOMAIN p = 1 .. n
  BY EmptySeq
<1>2. PICK a \in Nat : a = p[1]
  BY <1>1
<1>3. \A k \in 1 .. n : p[k] = a + k - 1
  BY <1>1, <1>2
<1>4. PICK i : i = Bsearch(map, a)
  OBVIOUS
<1>5. i # 0 /\ CompareAddress(a, map[i]) = 0 /\ CompareAddress(p[n], map[i]) = 0
  <2>1. PICK q : q = <<p[1], p[Len(p)]>>
    OBVIOUS
  <2>2. q[1] = a /\ q[2] = p[n] /\ DOMAIN q = {1, 2}
    BY <1>1, <1>2, <2>1
  <2>3. InOneEntry(map, q)
    BY <2>1
  <2> QED
    BY <1>4, <2>2, <2>3 DEF InOneEntry
<1>6. i \in DOMAIN map
  BY <1>4, <1>5, BisectionExact
<1>7. PICK s \in Nat, z \in Nat : s = map[i].src_addr /\ z = map[i].size
  <2>1. PICK e \in Entry : e = map[i]
    BY <1>6
  <2>2. e.src_addr \in Nat /\ e.size \in Nat
    BY WordAssumption DEF Entry
  <2> QED
    BY <2>1, <2>2
<1>8. a >= s /\ p[n] - s < z
  BY <1>2, <1>3, <1>1, <1>5, <1>7 DEF CompareAddress
<1>9. ASSUME NEW k \in 1 .. n
      PROVE  CompareAddress(p[k], map[i]) = 0
  <2>1. p[k] = a + k - 1 /\ p[n] = a + n - 1
    BY <1>1, <1>3
  <2>2. p[k] >= s /\ p[k] - s < z
    BY <1>1, <1>8, <2>1
  <2>3. PICK x \in Nat : x = p[k] /\ x >= s /\ x - s < z
    BY <2>1, <2>2
  <2>4. CompareAddress(x, map[i]) = 0
    BY <1>7, <2>3 DEF CompareAddress
  <2> QED
    BY <2>3, <2>4
<1> QED
  BY <1>1, <1>2, <1>4, <1>5, <1>9 DEF InOneEntry

\* A block is the device's own or from the page allocator, or all of it is in
\* reach: the latter if it is mapped through another file.
LEMMA ReachesAll ==
  ASSUME IInv, NEW t \in Thread, call[t].file \in File, NEW g \in File, NEW b \in Block,
         vmas[g][b] > 0, Reaches(t, g, b)
  PROVE  /\ owner[b] = g
         /\ g = call[t].file => PoolOf[b] \in {DeviceOf[g], Nil}
         /\ g # call[t].file => InOneEntry(DeviceMap(t), Pages[b])
<1>1. owner[b] = g /\ g # Nil
  BY MappedBlock DEF IInv
<1>2. PoolOf[b] \in {DeviceOf[g], Nil}
  BY <1>1 DEF IInv, MemoryInv, Owned
<1>3. ASSUME g # call[t].file
      PROVE  InOneEntry(DeviceMap(t), Pages[b])
  <2>1. PICK p \in Seq(Nat) \ {<<>>} : /\ p = Pages[b]
                                       /\ \A k \in DOMAIN p : p[k] = p[1] + k - 1
    BY RunAssumption DEF IsRun
  <2>2. PICK map \in Seq(Entry) : map = DeviceMap(t)
    BY FileAssumption DEF DeviceMap
  <2>3. InOneEntry(map, <<p[1], p[Len(p)]>>)
    BY <1>3, <2>1, <2>2 DEF Reaches
  <2> QED
    BY <2>1, <2>2, <2>3, PagesBetween
<1> QED
  BY <1>1, <1>2, <1>3

\* The mapping of a block is the one with its pages.
LEMMA BlockMapping ==
  ASSUME NEW b \in Block, NEW kind
  PROVE  /\ OfBlock(kind, b).kind = kind /\ OfBlock(kind, b).block = b
         /\ PagesOf(OfBlock(kind, b)) = Pages[b]
<1>1. b # Nil
  BY FileAssumption
<1> QED
  BY <1>1 DEF OfBlock, PagesOf

\* The mapping of other memory has the pages of that.
LEMMA AreaMapping ==
  ASSUME NEW a, NEW kind
  PROVE  /\ OfArea(kind, a).kind = kind /\ OfArea(kind, a).block = Nil
         /\ PagesOf(OfArea(kind, a)) = a.pages
  BY DEF OfArea, PagesOf

\* Memory of the driver is shared with a reference.
LEMMA ShareNativeStep ==
  ASSUME IInv, NEW t \in Thread, NEW g \in File, NEW b \in Block, ShareNative(t, g, b)
  PROVE  IInv'
<1>1. PICK m : m = OfBlock("native", b) /\ m.kind = "native" /\ PagesOf(m) = Pages[b]
  BY BlockMapping
<1>2. /\ vmas[g][b] > 0 /\ Reaches(t, g, b) /\ Shared(t, m)
      /\ ref' = [ref EXCEPT ![b] = @ + 1] /\ UNCHANGED <<owner, pins>>
  BY <1>1 DEF ShareNative
<1>3. call[t].file \in File /\ ThreadInv
  BY <1>2, SlotFacts DEF IInv, Shared, Step
<1>4. Vetted(DeviceOf[call[t].file], m)
  <2>1. m.kind = "native" /\ m.block = b /\ PagesOf(m) = Pages[b]
    BY <1>1, BlockMapping
  <2>2. CASE g = call[t].file
    BY <1>2, <1>3, <2>1, <2>2, ReachesAll DEF Vetted, Exempt
  <2>3. CASE g # call[t].file
    BY <1>2, <1>3, <2>1, <2>3, ReachesAll DEF Vetted, DeviceMap
  <2> QED
    BY <2>2, <2>3
<1>5. ThreadInv' /\ Fills(t, Slot(t), m)
  BY <1>1, <1>2, <1>3, <1>4, SharedThread DEF Kind
<1>6. FileTypes' /\ UNCHANGED <<busy, vmas, lost>>
  BY <1>2, SharedFiles
<1>7. MemoryInv'
  BY <1>1, <1>2, <1>5, <1>6, MemoryNative DEF IInv
<1> QED
  BY <1>5, <1>6, <1>7 DEF IInv

\* Memory of the driver is shared as if it were another driver's.
LEMMA ShareUnknownStep ==
  ASSUME IInv, NEW t \in Thread, NEW g \in File, NEW b \in Block, ShareUnknown(t, g, b)
  PROVE  IInv'
<1>1. PICK m : m = OfBlock("pfn", b) /\ m.kind = "pfn" /\ PagesOf(m) = Pages[b]
  BY BlockMapping
<1>2. Shared(t, m) /\ UNCHANGED <<ref, owner, pins>> /\ InOneEntry(DeviceMap(t), PagesOf(m))
  BY <1>1 DEF ShareUnknown, PfnVirtToPhys, memory
<1>3. ThreadInv' /\ Fills(t, Slot(t), m)
  BY <1>1, <1>2, SharedThread DEF Kind, IInv, Vetted, DeviceMap
<1>4. FileTypes' /\ UNCHANGED <<busy, vmas, lost>>
  BY <1>2, SharedFiles
<1>5. MemoryInv'
  BY <1>1, <1>2, <1>3, <1>4, MemoryPlain DEF IInv
<1> QED
  BY <1>3, <1>4, <1>5 DEF IInv

\* Memory of another driver is shared.
LEMMA SharePfnStep ==
  ASSUME IInv, NEW t \in Thread, NEW a \in Area, SharePfn(t, a)
  PROVE  IInv'
<1>1. PICK m : m = OfArea("pfn", a) /\ m.kind = "pfn" /\ PagesOf(m) = a.pages
  BY AreaMapping
<1>2. Shared(t, m) /\ UNCHANGED <<ref, owner, pins>> /\ InOneEntry(DeviceMap(t), PagesOf(m))
  BY <1>1 DEF SharePfn, PfnVirtToPhys, memory
<1>3. ThreadInv' /\ Fills(t, Slot(t), m)
  BY <1>1, <1>2, SharedThread DEF Kind, IInv, Vetted, DeviceMap
<1>4. FileTypes' /\ UNCHANGED <<busy, vmas, lost>>
  BY <1>2, SharedFiles
<1>5. MemoryInv'
  BY <1>1, <1>2, <1>3, <1>4, MemoryPlain DEF IInv
<1> QED
  BY <1>3, <1>4, <1>5 DEF IInv

\* User memory is pinned and shared.
LEMMA ShareGupStep ==
  ASSUME IInv, NEW t \in Thread, NEW a \in Area, ShareGup(t, a)
  PROVE  IInv'
<1>1. PICK m : m = OfArea("gup", a) /\ m.kind = "gup" /\ PagesOf(m) = a.pages
  BY AreaMapping
<1>2. /\ Shared(t, m) /\ pins' = pins + 1 /\ UNCHANGED <<ref, owner>>
      /\ InOneEntry(DeviceMap(t), PagesOf(m))
  BY <1>1 DEF ShareGup, GupVirtToPhys
<1>3. ThreadInv' /\ Fills(t, Slot(t), m)
  BY <1>1, <1>2, SharedThread DEF Kind, IInv, Vetted, DeviceMap
<1>4. FileTypes' /\ UNCHANGED <<busy, vmas, lost>>
  BY <1>2, SharedFiles
<1>5. MemoryInv'
  BY <1>1, <1>2, <1>3, <1>4, MemoryPin DEF IInv
<1> QED
  BY <1>3, <1>4, <1>5 DEF IInv

\* Both forms of shadow copies.
LEMMA CopyStep ==
  ASSUME IInv, NEW t \in Thread, NEW b \in Block, CopyVirtToPhys(t, b)
  PROVE  IInv'
<1>1. PICK m : m = OfBlock("copy", b) /\ m.kind = "copy" /\ PagesOf(m) = Pages[b]
  BY BlockMapping
<1>2. /\ b \in Free(DeviceOf[call[t].file])
      /\ ref' = [ref EXCEPT ![b] = 1] /\ owner' = [owner EXCEPT ![b] = Nil]
      /\ Shared(t, m) /\ UNCHANGED pins
  BY <1>1 DEF CopyVirtToPhys
<1>3. Vetted(DeviceOf[call[t].file], m)
  <2>1. m.kind = "copy" /\ m.block = b
    BY <1>1, BlockMapping
  <2> QED
    BY <1>2, <2>1 DEF Free, Vetted, Exempt
<1>4. ThreadInv' /\ Fills(t, Slot(t), m)
  BY <1>1, <1>2, <1>3, SharedThread DEF Kind, IInv
<1>5. FileTypes' /\ UNCHANGED <<busy, vmas, lost>>
  BY <1>2, SharedFiles
<1>6. MemoryInv'
  BY <1>1, <1>2, <1>4, <1>5, MemoryCopy DEF IInv
<1> QED
  BY <1>4, <1>5, <1>6 DEF IInv

\* A buffer that is not shared.
LEMMA ShareNothingStep ==
  ASSUME IInv, NEW t \in Thread, ShareNothing(t)
  PROVE  IInv'
<1>1. PICK m : m = NoMapping /\ m.kind = "none"
  <2>1. NoMapping.kind = "none"
    BY DEF NoMapping
  <2> QED
    BY <2>1, Zenon
<1>2. Shared(t, m) /\ UNCHANGED <<ref, owner, pins>>
  BY <1>1 DEF ShareNothing, memory
<1>3. ThreadInv' /\ Fills(t, Slot(t), m)
  BY <1>1, <1>2, SharedThread DEF Kind, IInv, Vetted, DeviceMap
<1>4. FileTypes' /\ UNCHANGED <<busy, vmas, lost>>
  BY <1>2, SharedFiles
<1>5. MemoryInv'
  BY <1>1, <1>2, <1>3, <1>4, MemoryPlain DEF IInv
<1> QED
  BY <1>3, <1>4, <1>5 DEF IInv

\* The buffer descriptors are shared.
LEMMA ShareKernelStep ==
  ASSUME IInv, NEW t \in Thread, NEW p \in KernelArray, ShareKernel(t, p)
  PROVE  IInv'
<1>1. PICK a : a = [pages |-> p] /\ a.pages = p
  <2>1. [pages |-> p].pages = p
    OBVIOUS
  <2> QED
    BY <2>1, Zenon
<1>2. PICK m : m = OfArea("kernel", a) /\ m.kind = "kernel" /\ m.area = a
  <2>1. OfArea("kernel", a).kind = "kernel" /\ OfArea("kernel", a).area = a
    BY DEF OfArea
  <2> QED
    BY <2>1, Zenon
<1>3. /\ pc[t] = "map" /\ TranslateToDsp(DeviceMap(t), p[1]) # NoTranslation
      /\ Shared(t, m) /\ UNCHANGED <<ref, owner, pins>>
  BY <1>1, <1>2 DEF ShareKernel, TranslatesFirst, memory
<1>4. Vetted(DeviceOf[call[t].file], m)
  BY <1>1, <1>2, <1>3 DEF Vetted, Exempt, DeviceMap
<1>5. ThreadInv' /\ Fills(t, Slot(t), m)
  BY <1>2, <1>3, <1>4, SharedThread DEF Kind, IInv
<1>6. FileTypes' /\ UNCHANGED <<busy, vmas, lost>>
  BY <1>3, SharedFiles
<1>7. MemoryInv'
  BY <1>2, <1>3, <1>5, <1>6, MemoryPlain DEF IInv
<1> QED
  BY <1>5, <1>6, <1>7 DEF IInv

\* The ways a request ends.
LEMMA UnshareStep ==
  ASSUME IInv, NEW t \in Thread, pc' = [pc EXCEPT ![t] = "idle"], UnshareAll(t),
         EndRequest(t), UNCHANGED <<off, lost>>
  PROVE  IInv'
<1>1. MemoryInv'
  BY MemoryUnshare DEF IInv, EndRequest
<1>2. ThreadInv'
  BY ThreadEnds DEF IInv, EndRequest
<1>3. FileTypes'
  BY FilesSame DEF EndRequest
<1> QED
  BY <1>1, <1>2, <1>3 DEF IInv

\* The device goes off; what the request held is lost.
LEMMA WentOffStep ==
  ASSUME IInv, NEW t \in Thread, WentOff(t)
  PROVE  IInv'
<1>1. MemoryInv'
  BY MemoryAbandon DEF IInv, WentOff, EndRequest, memory
<1>2. ThreadInv'
  BY ThreadEnds DEF IInv, WentOff, Step, EndRequest
<1>3. FileTypes'
  <2>1. call[t].file \in File
    <3>1. pc[t] = "dsp"
      BY DEF WentOff, Step
    <3> QED
      BY <3>1, ThreadParts DEF IInv, Fits
  <2>2. DeviceOf[call[t].file] \in Device
    BY <2>1, FileAssumption
  <2> QED
    BY <2>2 DEF IInv, FileTypes, WentOff, EndRequest
<1> QED
  BY <1>1, <1>2, <1>3 DEF IInv

\* Every step keeps the invariant.
LEMMA NextInv ==
  ASSUME IInv, [Next]_vars
  PROVE  IInv'
<1>1. CASE AllocNext
  BY <1>1, OpenStep, CloseStep, IoctlAllocStep, AllocMmapStep, AllocReturnStep,
     FreeMunmapStep, UserMmapStep, VmOpenStep, VmCloseStep, IoctlFreeStep DEF AllocNext
<1>2. CASE ShareNext
  <2>1. PICK t \in Thread :
          \/ \E f \in File, s \in Shape : MapRequest(t, f, s)
          \/ \E g \in File, b \in Block : ShareNative(t, g, b) \/ ShareUnknown(t, g, b)
          \/ \E a \in Area : SharePfn(t, a) \/ ShareGup(t, a)
          \/ \E b \in Block : ShareCopy(t, b)
          \/ \E a \in KernelArray : ShareKernel(t, a)
          \/ \E a \in KernelArray, b \in Block : ShareKernelCopy(t, a, b)
          \/ ShareNothing(t) \/ ShareFails(t) \/ Unmap(t) \/ WentOff(t)
    BY <1>2 DEF ShareNext
  <2>2. CASE \E f \in File, s \in Shape : MapRequest(t, f, s)
    BY <2>2, MapRequestStep
  <2>3. CASE \E g \in File, b \in Block : ShareNative(t, g, b) \/ ShareUnknown(t, g, b)
    BY <2>3, ShareNativeStep, ShareUnknownStep
  <2>4. CASE \E a \in Area : SharePfn(t, a) \/ ShareGup(t, a)
    BY <2>4, SharePfnStep, ShareGupStep
  <2>5. CASE \E b \in Block : ShareCopy(t, b)
    BY <2>5, CopyStep DEF ShareCopy
  <2>6. CASE \E a \in KernelArray : ShareKernel(t, a)
    BY <2>6, ShareKernelStep
  <2>7. CASE \E a \in KernelArray, b \in Block : ShareKernelCopy(t, a, b)
    BY <2>7, CopyStep DEF ShareKernelCopy
  <2>8. CASE ShareNothing(t)
    BY <2>8, ShareNothingStep
  <2>9. CASE ShareFails(t)
    BY <2>9, UnshareStep DEF ShareFails, UnmapRequestNowb, Step
  <2>10. CASE Unmap(t)
    BY <2>10, UnshareStep DEF Unmap, Step
  <2>11. CASE WentOff(t)
    BY <2>11, WentOffStep
  <2> QED
    BY <2>1, <2>2, <2>3, <2>4, <2>5, <2>6, <2>7, <2>8, <2>9, <2>10, <2>11
<1>3. CASE UNCHANGED vars
  BY <1>3, MemorySame, ThreadSame, FilesSame DEF vars, IInv
<1> QED
  BY <1>1, <1>2, <1>3 DEF Next

\* The invariant holds in every reachable state.
LEMMA Inductive == Spec => []IInv
  BY InitInv, NextInv, PTL DEF Spec

(***************************************************************************)
(* A block keeps its owner while a request holds it.                       *)
(***************************************************************************)

\* A block of the driver that a request shares is the file's own, or in reach.
Kept ==
  \A t \in Thread : \A k \in DOMAIN rq[t] : rq[t][k].kind = "native" =>
    /\ rq[t][k].block \in Block
    /\ \/ owner[rq[t][k].block] = call[t].file
       \/ InOneEntry(Map[DeviceOf[call[t].file]], Pages[rq[t][k].block])

\* A block that a request shares is not free.
LEMMA HeldBlock ==
  ASSUME MemoryInv, NEW t \in Thread, NEW k \in DOMAIN rq[t], NEW b \in Block,
         rq[t][k].kind = "native", rq[t][k].block = b
  PROVE  ref[b] # 0
<1>1. k \in Holds(rq[t], b)
  BY DEF Holds
<1>2. <<t, k>> \in Sharing(b)
  BY <1>1 DEF Sharing
<1> QED
  BY <1>2, FreeBlock

\* A block changes hands only when it is free.
LEMMA OwnerStays ==
  ASSUME IInv, Next, NEW b \in Block, ref[b] # 0, ref'[b] # 0
  PROVE  owner'[b] = owner[b]
<1>1. owner \in [Block -> File \cup {Nil}] /\ ref \in [Block -> Nat]
  BY DEF IInv, MemoryInv, MemoryTypes
<1>2. ASSUME NEW c, ref[c] = 0, NEW x, owner' = [owner EXCEPT ![c] = x]
      PROVE  owner'[b] = owner[b]
  BY <1>1, <1>2
<1>3. ASSUME NEW r, SetRef(r)
      PROVE  owner'[b] = owner[b]
  BY <1>1, <1>3 DEF SetRef
<1>4. ASSUME NEW t \in Thread, NEW c, CopyVirtToPhys(t, c)
      PROVE  owner'[b] = owner[b]
  BY <1>2, <1>4 DEF CopyVirtToPhys, Free
<1>5. CASE AllocNext
  <2>1. ASSUME NEW f \in File, Open(f) \/ Close(f) PROVE owner'[b] = owner[b]
    BY <2>1 DEF Open, Close, memory
  <2>2. ASSUME NEW t \in Thread, NEW f \in File, IoctlAlloc(t, f)
        PROVE  owner'[b] = owner[b]
    BY <1>2, <2>2 DEF IoctlAlloc, Free
  <2>3. ASSUME NEW t \in Thread, AllocMmap(t) \/ AllocReturn(t) \/ FreeMunmap(t)
        PROVE  owner'[b] = owner[b]
    BY <1>3, <2>3 DEF AllocMmap, AllocReturn, FreeMunmap, Put, memory
  <2>4. ASSUME NEW f \in File, NEW c \in Block, UserMmap(f, c) \/ VmOpen(f, c) \/ VmClose(f, c)
        PROVE  owner'[b] = owner[b]
    BY <1>3, <2>4 DEF UserMmap, VmOpen, VmClose, Put, memory
  <2>5. ASSUME NEW t \in Thread, NEW f \in File, NEW c \in Block, IoctlFree(t, f, c)
        PROVE  owner'[b] = owner[b]
    BY <2>5 DEF IoctlFree, memory
  <2> QED
    BY <1>5, <2>1, <2>2, <2>3, <2>4, <2>5 DEF AllocNext
<1>6. CASE ShareNext
  <2>1. PICK t \in Thread :
          \/ \E f \in File, s \in Shape : MapRequest(t, f, s)
          \/ \E g \in File, c \in Block : ShareNative(t, g, c) \/ ShareUnknown(t, g, c)
          \/ \E a \in Area : SharePfn(t, a) \/ ShareGup(t, a)
          \/ \E c \in Block : ShareCopy(t, c)
          \/ \E a \in KernelArray : ShareKernel(t, a)
          \/ \E a \in KernelArray, c \in Block : ShareKernelCopy(t, a, c)
          \/ ShareNothing(t) \/ ShareFails(t) \/ Unmap(t) \/ WentOff(t)
    BY <1>6 DEF ShareNext
  <2>2. CASE \E f \in File, s \in Shape : MapRequest(t, f, s)
    BY <2>2 DEF MapRequest, memory
  <2>3. CASE \E g \in File, c \in Block : ShareNative(t, g, c) \/ ShareUnknown(t, g, c)
    BY <2>3 DEF ShareNative, ShareUnknown, memory
  <2>4. CASE \E a \in Area : SharePfn(t, a) \/ ShareGup(t, a)
    BY <2>4 DEF SharePfn, ShareGup, memory
  <2>5. CASE \E c \in Block : ShareCopy(t, c)
    BY <1>4, <2>5 DEF ShareCopy
  <2>6. CASE \E a \in KernelArray : ShareKernel(t, a)
    BY <2>6 DEF ShareKernel, memory
  <2>7. CASE \E a \in KernelArray, c \in Block : ShareKernelCopy(t, a, c)
    BY <1>4, <2>7 DEF ShareKernelCopy
  <2>8. CASE ShareNothing(t) \/ WentOff(t)
    BY <2>8 DEF ShareNothing, WentOff, memory
  <2>9. CASE ShareFails(t) \/ Unmap(t)
    BY <1>3, <2>9 DEF ShareFails, UnmapRequestNowb, Unmap, UnshareAll
  <2> QED
    BY <2>1, <2>2, <2>3, <2>4, <2>5, <2>6, <2>7, <2>8, <2>9
<1> QED
  BY <1>5, <1>6 DEF Next

\* The slot k of the request of t is as it was.
SlotStays(t, k) ==
  k \in DOMAIN rq[t] /\ rq'[t][k] = rq[t][k] /\ call'[t].file = call[t].file

\* What another thread does to its call and its request.
LEMMA OthersStay ==
  ASSUME IInv, NEW u \in Thread, NEW t \in Thread, t # u, NEW k \in DOMAIN rq'[t],
         \A v \in Thread \ {u} : call'[v] = call[v] /\ rq'[v] = rq[v]
  PROVE  SlotStays(t, k)
  BY DEF SlotStays

\* A call without a request begins or ends.
LEMMA CallStays ==
  ASSUME IInv, NEW u \in Thread, pc[u] \notin {"map", "dsp"}, NEW c,
         call' = [call EXCEPT ![u] = c], UNCHANGED rq,
         NEW t \in Thread, NEW k \in DOMAIN rq'[t]
  PROVE  SlotStays(t, k)
<1>1. rq[u] = << >> /\ call \in [Thread -> Call]
  BY DEF IInv, ThreadInv, ThreadTypes, Calling
<1>2. t # u
  BY <1>1
<1> QED
  BY <1>1, <1>2 DEF SlotStays

\* A slot is filled with m, the others stay.
LEMMA FilledSlot ==
  ASSUME IInv, NEW u \in Thread, NEW m, Shared(u, m),
         NEW t \in Thread, NEW k \in DOMAIN rq'[t]
  PROVE  \/ SlotStays(t, k)
         \/ t = u /\ rq'[t][k] = m /\ call'[t].file = call[t].file
<1>1. call \in [Thread -> Call] /\ DOMAIN rq = Thread
  BY DEF IInv, ThreadInv, ThreadTypes
<1>2. call' = [call EXCEPT ![u].i = @ + 1] /\ rq' = [rq EXCEPT ![u][Slot(u)] = m]
  BY DEF Shared
<1>3. call'[t].file = call[t].file
  <2>1. PICK c \in Call : c = call[t]
    BY <1>1
  <2>2. [c EXCEPT !.i = @ + 1].file = c.file
    BY DEF Call
  <2> QED
    BY <1>1, <1>2, <2>1, <2>2
<1>4. CASE t # u
  <2>1. rq'[t] = rq[t]
    BY <1>1, <1>2, <1>4
  <2> QED
    BY <1>3, <2>1 DEF SlotStays
<1>5. CASE t = u
  <2>1. rq'[t] = [rq[t] EXCEPT ![Slot(t)] = m]
    BY <1>1, <1>2, <1>5
  <2>2. DOMAIN rq'[t] = DOMAIN rq[t]
    BY <2>1
  <2>3. k = Slot(t) => rq'[t][k] = m
    BY <2>1, <2>2
  <2>4. k # Slot(t) => rq'[t][k] = rq[t][k]
    BY <2>1, <2>2
  <2> QED
    BY <1>3, <1>5, <2>2, <2>3, <2>4 DEF SlotStays
<1> QED
  BY <1>4, <1>5

\* A request ends; the others stay.
LEMMA EndedRequest ==
  ASSUME IInv, NEW u \in Thread, EndRequest(u), NEW t \in Thread, NEW k \in DOMAIN rq'[t]
  PROVE  SlotStays(t, k)
<1>1. call \in [Thread -> Call] /\ DOMAIN rq = Thread
  BY DEF IInv, ThreadInv, ThreadTypes
<1>2. t # u
  BY <1>1 DEF EndRequest
<1> QED
  BY <1>1, <1>2 DEF EndRequest, SlotStays

\* The slots that hold a block of the driver stay, but for a new one.
LEMMA NativeStays ==
  ASSUME IInv, Next, NEW t \in Thread, NEW k \in DOMAIN rq'[t], rq'[t][k].kind = "native"
  PROVE  \/ SlotStays(t, k)
         \/ \E g \in File, b \in Block : /\ ShareNative(t, g, b)
                                         /\ rq'[t][k] = OfBlock("native", b)
                                         /\ call'[t].file = call[t].file
<1>1. CASE AllocNext
  <2>1. ASSUME NEW f \in File, Open(f) \/ Close(f) PROVE SlotStays(t, k)
    BY <2>1 DEF Open, Close, SlotStays
  <2>2. ASSUME NEW u \in Thread, NEW f \in File, IoctlAlloc(u, f) PROVE SlotStays(t, k)
    BY <2>2, CallStays DEF IoctlAlloc, Begin, Step
  <2>3. ASSUME NEW u \in Thread, AllocMmap(u) PROVE SlotStays(t, k)
    BY <2>3 DEF AllocMmap, SlotStays
  <2>4. ASSUME NEW u \in Thread, AllocReturn(u) \/ FreeMunmap(u) PROVE SlotStays(t, k)
    <3>1. /\ call' = [call EXCEPT ![u] = NoCall] /\ UNCHANGED rq
          /\ pc[u] \notin {"map", "dsp"}
      BY <2>4 DEF AllocReturn, FreeMunmap, Step
    <3> QED
      BY <3>1, CallStays
  <2>5. ASSUME NEW f \in File, NEW c \in Block, UserMmap(f, c) \/ VmOpen(f, c) \/ VmClose(f, c)
        PROVE  SlotStays(t, k)
    BY <2>5 DEF UserMmap, VmOpen, VmClose, SlotStays
  <2>6. ASSUME NEW u \in Thread, NEW f \in File, NEW c \in Block, IoctlFree(u, f, c)
        PROVE  SlotStays(t, k)
    BY <2>6, CallStays DEF IoctlFree, Begin, Step
  <2> QED
    BY <1>1, <2>1, <2>2, <2>3, <2>4, <2>5, <2>6 DEF AllocNext
<1>2. CASE ShareNext
  <2>1. PICK u \in Thread :
          \/ \E f \in File, s \in Shape : MapRequest(u, f, s)
          \/ \E g \in File, c \in Block : ShareNative(u, g, c) \/ ShareUnknown(u, g, c)
          \/ \E a \in Area : SharePfn(u, a) \/ ShareGup(u, a)
          \/ \E c \in Block : ShareCopy(u, c)
          \/ \E a \in KernelArray : ShareKernel(u, a)
          \/ \E a \in KernelArray, c \in Block : ShareKernelCopy(u, a, c)
          \/ ShareNothing(u) \/ ShareFails(u) \/ Unmap(u) \/ WentOff(u)
    BY <1>2 DEF ShareNext
  <2>2. ASSUME NEW m, Shared(u, m), m.kind # "native" PROVE SlotStays(t, k)
    BY <2>2, FilledSlot
  <2>3. CASE \E f \in File, s \in Shape : MapRequest(u, f, s)
    <3>1. PICK f \in File, s \in Shape : MapRequest(u, f, s)
      BY <2>3
    <3>2. call \in [Thread -> Call] /\ DOMAIN rq = Thread
      BY DEF IInv, ThreadInv, ThreadTypes
    <3>3. PICK r : /\ r = [j \in ToSet(Slots(s)) |->
                            IF j \in {"b1", "b2"} THEN NoMapping ELSE UnsetMapping]
                   /\ rq' = [rq EXCEPT ![u] = r]
      BY <3>1 DEF MapRequest
    <3>4. \A j \in DOMAIN r : r[j].kind # "native"
      BY <3>3 DEF NoMapping, UnsetMapping
    <3>5. t # u
      BY <3>2, <3>3, <3>4
    <3> QED
      BY <3>1, <3>2, <3>3, <3>5, OthersStay DEF MapRequest, Begin
  <2>4. CASE \E g \in File, c \in Block : ShareNative(u, g, c)
    <3>1. PICK g \in File, c \in Block : ShareNative(u, g, c)
      BY <2>4
    <3>2. PICK m : m = OfBlock("native", c)
      OBVIOUS
    <3>3. Shared(u, m)
      BY <3>1, <3>2 DEF ShareNative
    <3>4. \/ SlotStays(t, k)
          \/ t = u /\ rq'[t][k] = m /\ call'[t].file = call[t].file
      BY <3>3, FilledSlot
    <3> QED
      BY <3>1, <3>2, <3>4
  <2>5. CASE \E g \in File, c \in Block : ShareUnknown(u, g, c)
    BY <2>2, <2>5, BlockMapping DEF ShareUnknown
  <2>6. CASE \E a \in Area : SharePfn(u, a) \/ ShareGup(u, a)
    BY <2>2, <2>6, AreaMapping DEF SharePfn, ShareGup
  <2>7. CASE \E c \in Block : ShareCopy(u, c)
    BY <2>2, <2>7, BlockMapping DEF ShareCopy, CopyVirtToPhys
  <2>8. CASE \E a \in KernelArray : ShareKernel(u, a)
    BY <2>2, <2>8, AreaMapping DEF ShareKernel
  <2>9. CASE \E a \in KernelArray, c \in Block : ShareKernelCopy(u, a, c)
    BY <2>2, <2>9, BlockMapping DEF ShareKernelCopy, CopyVirtToPhys
  <2>10. CASE ShareNothing(u)
    <3>1. NoMapping.kind # "native"
      BY DEF NoMapping
    <3> QED
      BY <2>2, <2>10, <3>1 DEF ShareNothing
  <2>11. CASE ShareFails(u) \/ Unmap(u) \/ WentOff(u)
    BY <2>11, EndedRequest DEF ShareFails, Unmap, WentOff
  <2> QED
    BY <2>1, <2>3, <2>4, <2>5, <2>6, <2>7, <2>8, <2>9, <2>10, <2>11
<1> QED
  BY <1>1, <1>2 DEF Next

\* Every step keeps it.
LEMMA KeptStep ==
  ASSUME IInv, IInv', Kept, [Next]_vars
  PROVE  Kept'
<1>1. CASE UNCHANGED vars
  BY <1>1 DEF vars, Kept
<1>2. CASE Next
  <2> SUFFICES ASSUME NEW t \in Thread, NEW k \in DOMAIN rq'[t], rq'[t][k].kind = "native"
               PROVE  /\ rq'[t][k].block \in Block
                      /\ \/ owner'[rq'[t][k].block] = call'[t].file
                         \/ InOneEntry(Map[DeviceOf[call'[t].file]], Pages[rq'[t][k].block])
    BY DEF Kept
  <2>1. CASE SlotStays(t, k)
    <3>1. /\ k \in DOMAIN rq[t] /\ rq[t][k].kind = "native" /\ call'[t].file = call[t].file
          /\ rq'[t][k] = rq[t][k]
      BY <2>1 DEF SlotStays
    <3>2. PICK b \in Block : b = rq[t][k].block
      BY <3>1 DEF Kept
    <3>3. \/ owner[b] = call[t].file
          \/ InOneEntry(Map[DeviceOf[call[t].file]], Pages[b])
      BY <3>1, <3>2 DEF Kept
    <3>4. ref[b] # 0
      BY <3>1, <3>2, HeldBlock DEF IInv
    <3>5. ref'[b] # 0
      <4>1. MemoryInv'
        BY DEF IInv
      <4>2. k \in Holds(rq'[t], b)
        BY <3>1, <3>2 DEF Holds
      <4>3. <<t, k>> \in Sharing(b)'
        BY <4>2 DEF Sharing
      <4>4. BlockCounted(b)' /\ MemoryTypes'
        BY <4>1 DEF MemoryInv, Counted
      <4>5. /\ IsFiniteSet(Vmas(b)') /\ IsFiniteSet(Listing(b)') /\ IsFiniteSet(Sharing(b)')
            /\ ref'[b] = Cardinality(Vmas(b)') + Cardinality(Listing(b)')
                         + Cardinality(Sharing(b)') + lost'.ref[b]
            /\ lost'.ref[b] \in Nat
        BY <4>4 DEF BlockCounted, MemoryTypes
      <4>6. /\ Cardinality(Vmas(b)') \in Nat /\ Cardinality(Listing(b)') \in Nat
            /\ Cardinality(Sharing(b)') \in Nat
        BY <4>5, FS_CardinalityType
      <4>7. Cardinality(Sharing(b)') # 0
        BY <4>3, <4>5, FS_EmptySet
      <4>8. PICK v, l, s, o \in Nat :
              /\ v = Cardinality(Vmas(b)') /\ l = Cardinality(Listing(b)')
              /\ s = Cardinality(Sharing(b)') /\ o = lost'.ref[b]
        BY <4>5, <4>6
      <4>9. s # 0 /\ ref'[b] = v + l + s + o
        BY <4>5, <4>7, <4>8
      <4> QED
        BY <4>9
    <3>6. owner'[b] = owner[b]
      BY <1>2, <3>4, <3>5, OwnerStays
    <3> QED
      BY <3>1, <3>2, <3>3, <3>6
  <2>2. ASSUME NEW g \in File, NEW b \in Block, ShareNative(t, g, b),
               rq'[t][k] = OfBlock("native", b), call'[t].file = call[t].file
        PROVE  /\ rq'[t][k].block = b
               /\ owner'[b] = call[t].file \/ InOneEntry(Map[DeviceOf[call[t].file]], Pages[b])
    <3>1. rq'[t][k].block = b
      BY <2>2, BlockMapping
    <3>2. vmas[g][b] > 0 /\ Reaches(t, g, b) /\ UNCHANGED owner /\ pc[t] = "map"
      BY <2>2 DEF ShareNative, UserSlot
    <3>3. call[t].file \in File
      BY <3>2, SlotFacts DEF IInv
    <3>4. owner[b] = g /\ (g # call[t].file => InOneEntry(DeviceMap(t), Pages[b]))
      BY <3>2, <3>3, ReachesAll
    <3> QED
      BY <3>1, <3>2, <3>4 DEF DeviceMap
  <2> QED
    BY <1>2, <2>1, <2>2, NativeStays
<1> QED
  BY <1>1, <1>2

\* It holds in every reachable state.
LEMMA AlwaysKept == Spec => []Kept
<1>1. Init => Kept
  <2>1. Init => \A t \in Thread : rq[t] = << >>
    BY DEF Init
  <2> QED
    BY <2>1 DEF Kept
<1> QED
  BY <1>1, KeptStep, Inductive, PTL DEF Spec

\* What a request shares is in reach or unchecked.
LEMMA AlwaysReached ==
  ASSUME IInv, Kept
  PROVE  Reached
<1> SUFFICES ASSUME NEW t \in Thread, pc[t] \in {"map", "dsp"}, NEW k \in DOMAIN rq[t],
                    rq[t][k].kind \notin {"none", "unset", "half"}
             PROVE  InOneEntry(DeviceMap(t), PagesOf(rq[t][k])) \/ Unchecked(t, rq[t][k])
  BY DEF Reached
<1>1. PICK m : m = rq[t][k]
  OBVIOUS
<1>2. PICK dev : dev = DeviceOf[call[t].file] /\ DeviceMap(t) = Map[dev]
  BY DEF DeviceMap
<1>3. Vetted(dev, m)
  BY <1>1, <1>2 DEF IInv, ThreadInv, AllVetted
<1>4. CASE InOneEntry(Map[dev], PagesOf(m))
  BY <1>1, <1>2, <1>4
<1>5. CASE m.kind = "copy" /\ m.block \in Block /\ PoolOf[m.block] \in {dev, Nil}
  BY <1>1, <1>2, <1>5 DEF Unchecked
<1>6. CASE m.kind = "native" /\ m.block \in Block /\ PoolOf[m.block] \in {dev, Nil}
  <2>1. owner[m.block] = call[t].file \/ InOneEntry(Map[dev], Pages[m.block])
    BY <1>1, <1>2, <1>6 DEF Kept
  <2>2. PagesOf(m) = Pages[m.block]
    BY <1>6, FileAssumption DEF PagesOf
  <2> QED
    BY <1>1, <1>2, <1>6, <2>1, <2>2 DEF Unchecked
<1>7. CASE m.kind = "kernel" /\ TranslateToDsp(Map[dev], m.area.pages[1]) # NoTranslation
  BY <1>1, <1>2, <1>7 DEF Unchecked, TranslatesFirst
<1> QED
  BY <1>3, <1>4, <1>5, <1>6, <1>7 DEF Vetted, Exempt

(***************************************************************************)
(* The theorems.                                                           *)
(***************************************************************************)

\* Every variable keeps its type, counts never go below zero, and only open
\* files are known (xvp_open, xvp_close and the system calls in between).
THEOREM FilesTyped == Spec => []TypeOK
<1>1. IInv => TypeOK
  BY TypesTogether DEF IInv, MemoryInv, ThreadInv
<1> QED
  BY <1>1, Inductive, PTL

\* The references of a block and the pinned pages are those of their users, on
\* every path through xrp_ioctl_alloc, xvp_mmap, xrp_map_request and
\* xrp_unmap_request that fails or not.
THEOREM RefsAlwaysAccounted == Spec => []RefsAccounted
<1>1. IInv => RefsAccounted
  BY DEF IInv, MemoryInv, Counted, BlockCounted, PinsCounted, RefsAccounted
<1> QED
  BY <1>1, Inductive, PTL

\* A block waits on one busy list at most, once, and only its file's
\* (xrp_allocation_queue, xrp_allocation_dequeue).
THEOREM ListsExclusive == Spec => []BusyExclusive
<1>1. IInv => BusyExclusive
  BY DEF IInv, MemoryInv
<1> QED
  BY <1>1, Inductive, PTL

\* A program sees the blocks it allocated, and no shadow copy of a request
\* (xvp_mmap, xvp_copy_virt_to_phys).
THEOREM MappingsOwn == Spec => []OwnMappings
<1>1. ASSUME IInv PROVE OwnMappings
  <2>1. ASSUME NEW f \in File, NEW b \in Block, vmas[f][b] > 0
        PROVE  owner[b] = f
    BY <1>1, <2>1 DEF IInv, MemoryInv, Owned
  <2>2. ASSUME NEW f \in File, NEW b \in Block, vmas[f][b] > 0,
               NEW t \in Thread, NEW k \in DOMAIN rq[t], rq[t][k] = OfBlock("copy", b)
        PROVE  FALSE
    <3>1. rq[t][k].kind = "copy" /\ rq[t][k].block = b
      BY <2>2 DEF OfBlock
    <3>2. owner[b] = Nil
      BY <1>1, <3>1 DEF IInv, MemoryInv, Owned
    <3> QED
      BY <2>1, <2>2, <3>2, FileAssumption
  <2> QED
    BY <2>1, <2>2 DEF OwnMappings
<1> QED
  BY <1>1, Inductive, PTL

\* What a request shares with the DSP is all in one range of its map, however it
\* was shared, but for what is never looked up there: the file's own blocks,
\* shadow copies, and the descriptors behind the first page (__xrp_share_block,
\* xvp_copy_virt_to_phys, xrp_share_kernel).
THEOREM DspReachesAll == Spec => []DspReaches
<1>1. IInv /\ Kept => DspReaches
  BY AlwaysReached DEF Reached, DspReaches
<1> QED
  BY <1>1, Inductive, AlwaysKept, PTL

\* The properties together with the invariant that implies them.
THEOREM FilesSafe == Spec => []FileInv
<1>1. IInv /\ Kept => FileInv
  BY TypesTogether, AlwaysReached DEF IInv, MemoryInv, ThreadInv, FileInv, Counted,
     BlockCounted, PinsCounted, RefsAccounted
<1> QED
  BY <1>1, Inductive, AlwaysKept, PTL
=============================================================================
