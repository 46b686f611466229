----------------------------- MODULE XrpPoolProof -----------------------------
(***************************************************************************)
(* Proofs about the allocator of XrpPool, for any pool, any threads and    *)
(* any sizes and alignments: what the walks over the free list do to it,   *)
(* that no memory is ever owned twice or by nobody, and that the pool      *)
(* keeps the promise of XrpPages.                                          *)
(*                                                                         *)
(* Addresses are what the argument is about: Cover(free_list) is the set   *)
(* of free ones, a carve takes a run out of it, a release puts one back.   *)
(***************************************************************************)
EXTENDS XrpPool, SequenceTheorems, WellFoundedInduction, TLAPS

(***************************************************************************)
(* Lists and walks.                                                        *)
(***************************************************************************)

\* Element i of a list replaced by a list: what stands where afterwards.
LEMMA SpliceFacts ==
  ASSUME NEW S, NEW list \in Seq(S), NEW new \in Seq(S), NEW i \in 1 .. Len(list)
  PROVE  /\ Splice(list, i, new) \in Seq(S)
         /\ Len(Splice(list, i, new)) = Len(list) - 1 + Len(new)
         /\ \A j \in 1 .. i - 1 : Splice(list, i, new)[j] = list[j]
         /\ \A j \in 1 .. Len(new) : Splice(list, i, new)[i - 1 + j] = new[j]
         /\ \A j \in i + 1 .. Len(list) :
              Splice(list, i, new)[j - 1 + Len(new)] = list[j]
<1> DEFINE pre  == SubSeq(list, 1, i - 1)
           post == SubSeq(list, i + 1, Len(list))
<1>1. /\ pre \in Seq(S) /\ Len(pre) = i - 1
      /\ \A j \in 1 .. i - 1 : pre[j] = list[j]
  BY SubSeqProperties
<1>2. /\ post \in Seq(S) /\ Len(post) = Len(list) - i
      /\ \A j \in 1 .. Len(list) - i : post[j] = list[i + j]
  BY SubSeqProperties
<1> HIDE DEF pre, post
<1>3. PICK front \in Seq(S) :
        /\ front = pre \o new /\ Len(front) = i - 1 + Len(new)
        /\ \A j \in 1 .. i - 1 : front[j] = list[j]
        /\ \A j \in 1 .. Len(new) : front[i - 1 + j] = new[j]
  <2>1. pre \o new \in Seq(S) /\ Len(pre \o new) = i - 1 + Len(new)
    BY <1>1, ConcatProperties
  <2>2. \A j \in 1 .. i - 1 : (pre \o new)[j] = list[j]
    BY <1>1, ConcatProperties
  <2>3. \A j \in 1 .. Len(new) : (pre \o new)[i - 1 + j] = new[j]
    BY <1>1, ConcatProperties
  <2> QED
    BY <2>1, <2>2, <2>3
<1>4. Splice(list, i, new) = front \o post
  BY <1>3 DEF Splice, pre, post
<1>5. /\ front \o post \in Seq(S)
      /\ Len(front \o post) = Len(list) - 1 + Len(new)
  <2>1. front \o post \in Seq(S) /\ Len(front \o post) = Len(front) + Len(post)
    BY <1>2, ConcatProperties
  <2>2. Len(list) \in Nat /\ Len(new) \in Nat
    OBVIOUS
  <2> QED
    BY <1>2, <1>3, <2>1, <2>2
<1>6. \A j \in 1 .. i - 1 + Len(new) : (front \o post)[j] = front[j]
  BY <1>2, <1>3, ConcatProperties
<1>7. ASSUME NEW j \in i + 1 .. Len(list)
      PROVE  (front \o post)[j - 1 + Len(new)] = list[j]
  <2>1. (front \o post)[j - 1 + Len(new)] = post[j - i]
    BY SMTT(30), <1>2, <1>3, ConcatProperties
  <2> QED
    BY <1>2, <2>1
<1> QED
  BY SMTT(30), <1>3, <1>4, <1>5, <1>6, <1>7

\* The least element of a set of numbers.
LEMMA Least ==
  ASSUME NEW S, S \subseteq Nat, S # {}
  PROVE  Min(S) \in S /\ \A y \in S : Min(S) <= y
<1>1. PICK R : /\ R = {p \in Nat \X Nat : p[1] < p[2]}
               /\ IsWellFoundedOn(R, Nat)
  BY NatLessThanWellFounded DEF OpToRel
<1>2. PICK x \in S : \A y \in S : ~(<<y, x>> \in R)
  BY <1>1, WFMin
<1>3. ASSUME NEW y \in S PROVE x <= y
  <2>1. x \in Nat /\ y \in Nat
    BY <1>2
  <2>2. y < x => <<y, x>> \in R
    BY <1>1, <2>1
  <2> QED
    BY <1>2, <2>1, <2>2
<1> QED
  BY <1>3 DEF Min

\* The first-fit walk stops at a block that fits, or there is none.
LEMMA FirstFit ==
  ASSUME NEW N \in Nat, NEW I, I \subseteq 1 .. N,
         NEW i, i = IF I # {} THEN Min(I) ELSE 0
  PROVE  (i = 0 /\ I = {}) \/ (i \in 1 .. N /\ i \in I)
<1>1. I # {} => Min(I) \in I
  <2>1. I \subseteq Nat
    OBVIOUS
  <2> QED
    BY <2>1, Least
<1>2. CASE I = {}
  BY <1>2
<1>3. CASE I # {}
  <2>1. i \in I
    BY <1>1, <1>3
  <2> QED
    BY <2>1
<1> QED
  BY <1>2, <1>3

\* The walk of xrp_private_free stops at the first block that ends where the
\* freed one starts or that starts above it.
LEMMA FirstAbove ==
  ASSUME NEW list \in Seq(Block), NEW x \in Block
  PROVE  LET P(c) == End(c) = x.start \/ x.start < c.start
             i == SelectInSeq(list, LAMBDA c : End(c) = x.start \/ x.start < c.start)
         IN \/ i = 0 /\ \A j \in 1 .. Len(list) : ~P(list[j])
            \/ /\ i \in 1 .. Len(list) /\ P(list[i])
               /\ \A j \in 1 .. i - 1 : ~P(list[j])
<1> DEFINE P(c) == End(c) = x.start \/ x.start < c.start
<1>1. PICK I : I = {j \in 1 .. Len(list) : P(list[j])}
  OBVIOUS
<1>2. PICK i : i = SelectInSeq(list, LAMBDA c : End(c) = x.start \/ x.start < c.start)
  OBVIOUS
<1>3. i = IF I # {} THEN Min(I) ELSE 0
  BY <1>1, <1>2 DEF SelectInSeq
<1> SUFFICES \/ i = 0 /\ \A j \in 1 .. Len(list) : ~P(list[j])
             \/ /\ i \in 1 .. Len(list) /\ P(list[i])
                /\ \A j \in 1 .. i - 1 : ~P(list[j])
  BY <1>2
<1> HIDE DEF P
<1>4. CASE I = {}
  BY <1>1, <1>3, <1>4
<1>5. CASE I # {}
  <2>1. I \subseteq Nat
    BY <1>1
  <2>2. i \in I /\ \A j \in I : i <= j
    BY <1>3, <1>5, <2>1, Least
  <2>3. \A j \in 1 .. i - 1 : j \in 1 .. Len(list) /\ j \notin I
    BY <1>1, <2>2
  <2> QED
    BY <1>1, <2>2, <2>3
<1> QED
  BY <1>4, <1>5

(***************************************************************************)
(* Lists of blocks.                                                        *)
(***************************************************************************)

\* A block is the addresses from its start to its end.
LEMMA BlockFacts ==
  ASSUME NEW b \in Block
  PROVE  /\ b.start \in Nat /\ b.size \in Nat /\ End(b) \in Nat
         /\ b = [start |-> b.start, size |-> b.size]
         /\ \A a \in Int : a \in Bytes(b) <=> b.start <= a /\ a < End(b)
         /\ Bytes(b) \subseteq Nat
  BY DEF Block, End, Bytes

\* What a list covers is in one of its blocks.
LEMMA CoverFacts ==
  ASSUME NEW list \in Seq(Block)
  PROVE  \A a : a \in Cover(list) <=>
               \E j \in 1 .. Len(list) : a \in Bytes(list[j])
  BY DEF Cover

\* A list put in the place of a block, between the neighbours of that block,
\* leaves an ordered list ordered; its addresses replace those of the block.
LEMMA SpliceOrdered ==
  ASSUME NEW list \in Seq(Block), NEW new \in Seq(Block),
         NEW i \in 1 .. Len(list),
         Ordered(list), Ordered(new),
         \A k \in 1 .. Len(new), j \in 1 .. Len(list) :
           /\ j < i => End(list[j]) < new[k].start
           /\ i < j => End(new[k]) < list[j].start
  PROVE  /\ Splice(list, i, new) \in Seq(Block)
         /\ Ordered(Splice(list, i, new))
         /\ \A a : a \in Cover(Splice(list, i, new)) <=>
              \/ a \in Cover(new)
              \/ \E j \in 1 .. Len(list) : j # i /\ a \in Bytes(list[j])
<1>m. PICK m \in Seq(Block) : m = Splice(list, i, new)
  BY SpliceFacts, Zenon
<1>1. /\ Len(m) = Len(list) - 1 + Len(new)
      /\ \A j \in 1 .. i - 1 : m[j] = list[j]
      /\ \A j \in 1 .. Len(new) : m[i - 1 + j] = new[j]
      /\ \A j \in i + 1 .. Len(list) : m[j - 1 + Len(new)] = list[j]
  <2>1. /\ Splice(list, i, new) \in Seq(Block)
        /\ Len(Splice(list, i, new)) = Len(list) - 1 + Len(new)
        /\ \A j \in 1 .. i - 1 : Splice(list, i, new)[j] = list[j]
        /\ \A j \in 1 .. Len(new) : Splice(list, i, new)[i - 1 + j] = new[j]
        /\ \A j \in i + 1 .. Len(list) :
             Splice(list, i, new)[j - 1 + Len(new)] = list[j]
    BY SpliceFacts, Zenon
  <2> QED
    BY <1>m, <2>1, Zenon
<1>2. ASSUME NEW k \in 1 .. Len(m)
      PROVE  \/ \E j \in 1 .. i - 1 : k = j /\ m[k] = list[j]
             \/ \E j \in 1 .. Len(new) : k = i - 1 + j /\ m[k] = new[j]
             \/ \E j \in i + 1 .. Len(list) :
                  k = j - 1 + Len(new) /\ m[k] = list[j]
  <2>1. CASE k < i
    BY <1>1, <2>1
  <2>2. CASE i <= k /\ k < i + Len(new)
    <3>1. k - i + 1 \in 1 .. Len(new) /\ k = i - 1 + (k - i + 1)
      BY <2>2
    <3> QED
      BY <1>1, <3>1
  <2>3. CASE i + Len(new) <= k
    <3>1. /\ k + 1 - Len(new) \in i + 1 .. Len(list)
          /\ k = (k + 1 - Len(new)) - 1 + Len(new)
      BY <1>1, <2>3
    <3> QED
      BY <1>1, <3>1
  <2> QED
    BY <1>1, <2>1, <2>2, <2>3
<1>3. /\ \A j \in 1 .. Len(list) : list[j].size > 0
      /\ \A j, k \in 1 .. Len(list) : j < k => End(list[j]) < list[k].start
      /\ \A j \in 1 .. Len(new) : new[j].size > 0
      /\ \A j, k \in 1 .. Len(new) : j < k => End(new[j]) < new[k].start
  BY DEF Ordered
<1>4. Ordered(m)
  <2>1. ASSUME NEW k \in 1 .. Len(m) PROVE m[k].size > 0
    <3>1. CASE \E j \in 1 .. i - 1 : m[k] = list[j]
      BY <1>3, <3>1
    <3>2. CASE \E j \in 1 .. Len(new) : m[k] = new[j]
      BY <1>3, <3>2
    <3>3. CASE \E j \in i + 1 .. Len(list) : m[k] = list[j]
      BY <1>3, <3>3
    <3> QED
      BY <1>2, <3>1, <3>2, <3>3
  <2>2. ASSUME NEW j \in 1 .. Len(m), NEW k \in 1 .. Len(m), j < k
        PROVE  End(m[j]) < m[k].start
    <3>a. CASE \E p \in 1 .. i - 1 : j = p /\ m[j] = list[p]
      <4>1. CASE \E q \in 1 .. Len(new) : m[k] = new[q]
        BY <3>a, <4>1
      <4>2. CASE \E q \in 1 .. Len(list) : j < q /\ m[k] = list[q]
        BY <1>3, <3>a, <4>2
      <4> QED
        BY <1>2, <2>2, <3>a, <4>1, <4>2
    <3>b. CASE \E p \in 1 .. Len(new) : j = i - 1 + p /\ m[j] = new[p]
      <4>1. CASE \E q \in 1 .. Len(new) : k = i - 1 + q /\ m[k] = new[q]
        BY <1>3, <2>2, <3>b, <4>1
      <4>2. CASE \E q \in i + 1 .. Len(list) : m[k] = list[q]
        BY <3>b, <4>2
      <4> QED
        BY <1>2, <2>2, <3>b, <4>1, <4>2
    <3>c. CASE \E p \in i + 1 .. Len(list) :
                 j = p - 1 + Len(new) /\ m[j] = list[p]
      <4>1. k > i - 1 + Len(new)
        BY <2>2, <3>c
      <4>2. ~\E q \in 1 .. i - 1 : k = q
        BY <4>1
      <4>3. ~\E q \in 1 .. Len(new) : k = i - 1 + q
        BY <4>1
      <4>4. \E q \in i + 1 .. Len(list) :
              k = q - 1 + Len(new) /\ m[k] = list[q]
        BY <1>2, <4>2, <4>3
      <4> QED
        BY <1>3, <2>2, <3>c, <4>4
    <3> QED
      BY <1>2, <3>a, <3>b, <3>c
  <2>3. DOMAIN m = 1 .. Len(m)
    OBVIOUS
  <2> QED
    BY <2>1, <2>2, <2>3 DEF Ordered
<1>5. ASSUME NEW a
      PROVE  a \in Cover(m) <=>
               \/ a \in Cover(new)
               \/ \E j \in 1 .. Len(list) : j # i /\ a \in Bytes(list[j])
  <2>1. a \in Cover(m) <=> \E k \in 1 .. Len(m) : a \in Bytes(m[k])
    BY CoverFacts
  <2>2. a \in Cover(new) <=> \E k \in 1 .. Len(new) : a \in Bytes(new[k])
    BY CoverFacts
  <2>3. ASSUME NEW k \in 1 .. Len(m), a \in Bytes(m[k])
        PROVE  \/ \E j \in 1 .. Len(new) : a \in Bytes(new[j])
               \/ \E j \in 1 .. Len(list) : j # i /\ a \in Bytes(list[j])
    BY <1>2, <2>3
  <2>4. ASSUME NEW j \in 1 .. Len(new), a \in Bytes(new[j])
        PROVE  \E k \in 1 .. Len(m) : a \in Bytes(m[k])
    <3>1. i - 1 + j \in 1 .. Len(m) /\ m[i - 1 + j] = new[j]
      BY <1>1
    <3> QED
      BY <2>4, <3>1
  <2>5. ASSUME NEW j \in 1 .. Len(list), j # i, a \in Bytes(list[j])
        PROVE  \E k \in 1 .. Len(m) : a \in Bytes(m[k])
    <3>1. CASE j < i
      BY <1>1, <2>5, <3>1
    <3>2. CASE j > i
      <4>1. /\ j - 1 + Len(new) \in 1 .. Len(m)
            /\ m[j - 1 + Len(new)] = list[j]
        BY <1>1, <3>2
      <4> QED
        BY <2>5, <4>1
    <3> QED
      BY <2>5, <3>1, <3>2
  <2> QED
    BY <2>1, <2>2, <2>3, <2>4, <2>5
<1> QED
  BY <1>m, <1>4, <1>5

(***************************************************************************)
(* Arithmetic.                                                             *)
(***************************************************************************)

\* ALIGN rounds up, by less than the alignment, to a multiple of it ...
LEMMA AlignUpFacts ==
  ASSUME NEW v \in Nat, NEW a \in Nat \ {0}
  PROVE  /\ AlignUp(v, a) \in Nat
         /\ v <= AlignUp(v, a) /\ AlignUp(v, a) < v + a
         /\ AlignUp(v, a) % a = 0
<1>1. PICK w \in Nat : w = v + a - 1
  OBVIOUS
<1>2. w % a \in 0 .. a - 1 /\ w \div a \in Nat
  OBVIOUS
<1>3. w - (w % a) = a * (w \div a)
  OBVIOUS
<1>4. (a * (w \div a)) % a = 0
  BY <1>2
<1>5. AlignUp(v, a) = w - (w % a)
  BY <1>1 DEF AlignUp, AlignDown
<1> QED
  BY <1>1, <1>2, <1>3, <1>4, <1>5

\* A number without remainder is a multiple.
LEMMA Multiple ==
  ASSUME NEW v \in Nat, NEW a \in Nat, a > 0, v % a = 0
  PROVE  \E q \in Nat : v = a * q
  OBVIOUS

\* ... and to the least one.
LEMMA AlignUpLeast ==
  ASSUME NEW v \in Nat, NEW a \in Nat \ {0}, NEW s \in Nat, s % a = 0, v <= s
  PROVE  AlignUp(v, a) <= s
<1>0. a \in Nat /\ a > 0
  OBVIOUS
<1>1. PICK k \in Nat : s = a * k
  BY <1>0, Multiple
<1>2. PICK u \in Nat : /\ u = AlignUp(v, a) /\ u < v + a /\ u % a = 0
  BY AlignUpFacts
<1>3. PICK m \in Nat : u = a * m
  BY <1>0, <1>2, Multiple
<1>a. a * m < a * k + a
  BY <1>1, <1>2, <1>3
<1>4. m <= k
  <2> SUFFICES ASSUME m >= k + 1 PROVE FALSE
    OBVIOUS
  <2>1. a * m >= a * (k + 1)
    OBVIOUS
  <2>2. a * (k + 1) = a * k + a
    OBVIOUS
  <2> QED
    BY <1>a, <2>1, <2>2
<1>5. a * m <= a * k
  BY <1>4
<1> QED
  BY <1>1, <1>2, <1>3, <1>5

\* A request that is not empty is rounded up to at least a page.
LEMMA RoundedFacts ==
  ASSUME NEW n \in Size, n # 0
  PROVE  Rounded(n) \in Nat /\ Rounded(n) > 0
<1>1. /\ n \in Nat /\ n > 0 /\ PageSize \in Nat /\ PageSize > 0
      /\ Modulus \in Nat /\ n + PageSize - 1 < Modulus
  BY PoolAssumption, SizeAssumption
<1>2. PICK w \in Nat : w = n + PageSize - 1 /\ w < Modulus /\ w >= PageSize
  BY <1>1
<1>3. w % Modulus = w /\ w % PageSize \in 0 .. PageSize - 1
  BY <1>1, <1>2
<1>4. Rounded(n) = AlignDown(w % Modulus, PageSize)
  BY <1>2 DEF Rounded
<1>5. Rounded(n) = w - (w % PageSize)
  BY <1>3, <1>4 DEF AlignDown
<1> QED
  BY <1>1, <1>2, <1>3, <1>5

\* An allocation is aligned to pages at least.
LEMMA AlignmentFacts ==
  ASSUME NEW a \in Align
  PROVE  Alignment(a) \in Nat \ {0}
<1>1. a \in Nat /\ PageSize \in Nat \ {0}
  BY PoolAssumption, ArgumentAssumption
<1>2. CASE a <= PageSize
  BY <1>1, <1>2 DEF Alignment
<1>3. CASE a > PageSize
  <2>1. AlignUp(a, PageSize) \in Nat /\ a <= AlignUp(a, PageSize)
    BY <1>1, AlignUpFacts
  <2> QED
    BY <1>1, <1>3, <2>1 DEF Alignment
<1> QED
  BY <1>1, <1>2, <1>3

(***************************************************************************)
(* Carving a request out of the list.                                      *)
(***************************************************************************)

\* What is left of a block that an allocation is cut out of: none, one or two
\* blocks.
LEMMA RemainderFacts ==
  ASSUME NEW b \in Block, NEW s \in Nat, NEW n \in Nat, n > 0,
         b.start <= s, s + n <= End(b)
  PROVE  /\ Remainder(b, s, n) \in Seq(Block)
         /\ Ordered(Remainder(b, s, n))
         /\ \A k \in 1 .. Len(Remainder(b, s, n)) :
              /\ b.start <= Remainder(b, s, n)[k].start
              /\ End(Remainder(b, s, n)[k]) <= End(b)
         /\ \A a : a \in Cover(Remainder(b, s, n)) <=>
                     a \in Bytes(b) /\ a \notin s .. s + n - 1
<1> DEFINE head == [start |-> b.start, size |-> s - b.start]
           tail == [start |-> s + n, size |-> End(b) - (s + n)]
<1>1. /\ b.start \in Nat /\ b.size \in Nat /\ End(b) = b.start + b.size
      /\ End(b) \in Nat
  BY DEF Block, End
<1>h. /\ head \in Block /\ head.start = b.start /\ head.size = s - b.start
      /\ End(head) = s
  BY <1>1 DEF Block, End
<1>t. /\ tail \in Block /\ tail.start = s + n /\ tail.size = End(b) - (s + n)
      /\ End(tail) = End(b)
  BY <1>1 DEF Block, End
<1>3. /\ Bytes(head) = b.start .. s - 1 /\ Bytes(tail) = s + n .. End(b) - 1
      /\ Bytes(b) = b.start .. End(b) - 1
  BY <1>h, <1>t DEF Bytes
<1>4. Remainder(b, s, n) = (IF head.size = 0 THEN <<>> ELSE <<head>>)
                             \o (IF tail.size = 0 THEN <<>> ELSE <<tail>>)
  BY DEF Remainder, Nonempty
<1> HIDE DEF head, tail
<1>5. CASE head.size = 0 /\ tail.size = 0
  <2>1. Remainder(b, s, n) = <<>>
    BY <1>4, <1>5
  <2>2. Cover(<<>>) = {} /\ Ordered(<<>>)
    BY DEF Cover, Ordered
  <2>3. b.start = s /\ s + n = End(b)
    BY <1>1, <1>h, <1>t, <1>5
  <2> QED
    BY <1>1, <1>3, <2>1, <2>2, <2>3
<1>6. CASE head.size # 0 /\ tail.size = 0
  <2>1. PICK r \in Seq(Block) : /\ r = Remainder(b, s, n) /\ r = <<head>>
                                /\ Len(r) = 1 /\ r[1] = head
    <3>1. Remainder(b, s, n) = <<head>> \o <<>>
      BY <1>4, <1>6
    <3>2. <<head>> \in Seq(Block) /\ Len(<<head>>) = 1 /\ <<head>>[1] = head
      BY <1>h
    <3>3. <<head>> \o <<>> = <<head>>
      BY <3>2, ConcatEmptySeq
    <3> QED
      BY <3>1, <3>2, <3>3
  <2>2. Cover(r) = Bytes(head) /\ Ordered(r)
    BY <1>h, <1>6, <2>1 DEF Cover, Ordered, Block
  <2>3. s + n = End(b)
    BY <1>1, <1>t, <1>6
  <2>4. \A a : a \in Bytes(head) <=> a \in Bytes(b) /\ a \notin s .. s + n - 1
    BY <1>1, <1>3, <2>3
  <2>5. b.start <= head.start /\ End(head) <= End(b)
    BY <1>1, <1>h
  <2> QED
    BY <2>1, <2>2, <2>4, <2>5
<1>7. CASE head.size = 0 /\ tail.size # 0
  <2>1. PICK r \in Seq(Block) : /\ r = Remainder(b, s, n) /\ r = <<tail>>
                                /\ Len(r) = 1 /\ r[1] = tail
    <3>1. Remainder(b, s, n) = <<>> \o <<tail>>
      BY <1>4, <1>7
    <3>2. <<tail>> \in Seq(Block) /\ Len(<<tail>>) = 1 /\ <<tail>>[1] = tail
      BY <1>t
    <3>3. <<>> \o <<tail>> = <<tail>>
      BY <3>2, ConcatEmptySeq
    <3> QED
      BY <3>1, <3>2, <3>3
  <2>2. Cover(r) = Bytes(tail) /\ Ordered(r)
    BY <1>t, <1>7, <2>1 DEF Cover, Ordered, Block
  <2>3. b.start = s
    BY <1>1, <1>h, <1>7
  <2>4. \A a : a \in Bytes(tail) <=> a \in Bytes(b) /\ a \notin s .. s + n - 1
    BY <1>1, <1>3, <2>3
  <2>5. b.start <= tail.start /\ End(tail) <= End(b)
    BY <1>1, <1>t
  <2> QED
    BY <2>1, <2>2, <2>4, <2>5
<1>8. CASE head.size # 0 /\ tail.size # 0
  <2>1. PICK r \in Seq(Block) : /\ r = Remainder(b, s, n)
                                /\ Len(r) = 2 /\ r[1] = head /\ r[2] = tail
    <3>1. Remainder(b, s, n) = <<head>> \o <<tail>>
      BY <1>4, <1>8
    <3>2. /\ <<head>> \in Seq(Block) /\ Len(<<head>>) = 1 /\ <<head>>[1] = head
          /\ <<tail>> \in Seq(Block) /\ Len(<<tail>>) = 1 /\ <<tail>>[1] = tail
      BY <1>h, <1>t
    <3>3. /\ <<head>> \o <<tail>> \in Seq(Block)
          /\ Len(<<head>> \o <<tail>>) = 2
          /\ (<<head>> \o <<tail>>)[1] = head
          /\ (<<head>> \o <<tail>>)[2] = tail
      BY <3>2, ConcatProperties
    <3> QED
      BY <3>1, <3>3
  <2>2. DOMAIN r = {1, 2} /\ 1 .. Len(r) = {1, 2}
    BY <2>1
  <2>3. Cover(r) = Bytes(head) \cup Bytes(tail)
    BY <2>1, <2>2 DEF Cover
  <2>4. Ordered(r)
    BY <1>h, <1>t, <1>8, <2>1, <2>2 DEF Ordered, Block
  <2>5. \A a : a \in Bytes(head) \cup Bytes(tail) <=>
                a \in Bytes(b) /\ a \notin s .. s + n - 1
    BY <1>1, <1>3
  <2>6. /\ b.start <= head.start /\ End(head) <= End(b)
        /\ b.start <= tail.start /\ End(tail) <= End(b)
    BY <1>1, <1>h, <1>t
  <2> QED
    BY <2>1, <2>2, <2>3, <2>4, <2>5, <2>6
<1> QED
  BY <1>5, <1>6, <1>7, <1>8

\* Bytes of a block of an ordered list are in no other block of it.
LEMMA OneBlock ==
  ASSUME NEW list \in Seq(Block), Ordered(list),
         NEW i \in 1 .. Len(list), NEW j \in 1 .. Len(list), i # j
  PROVE  Bytes(list[i]) \cap Bytes(list[j]) = {}
<1>1. list[i] \in Block /\ list[j] \in Block
  OBVIOUS
<1>2. End(list[i]) < list[j].start \/ End(list[j]) < list[i].start
  BY DEF Ordered
<1>3. ASSUME NEW b \in Block, NEW c \in Block, End(b) < c.start
      PROVE  Bytes(b) \cap Bytes(c) = {}
  BY <1>3 DEF Block, Bytes, End
<1> QED
  BY <1>1, <1>2, <1>3

\* Taking n bytes at s out of block i leaves an ordered list of the others.
LEMMA CarveList ==
  ASSUME NEW list \in Seq(Block), Ordered(list), NEW i \in 1 .. Len(list),
         NEW s \in Nat, NEW n \in Nat, n > 0,
         list[i].start <= s, s + n <= End(list[i])
  PROVE  LET m == Splice(list, i, Remainder(list[i], s, n))
         IN /\ m \in Seq(Block) /\ Ordered(m)
            /\ s .. s + n - 1 \subseteq Cover(list)
            /\ Cover(m) = Cover(list) \ (s .. s + n - 1)
<1>1. PICK b \in Block : b = list[i]
  OBVIOUS
<1>2. PICK r \in Seq(Block) :
        /\ r = Remainder(b, s, n)
        /\ Ordered(r)
        /\ \A k \in 1 .. Len(r) : b.start <= r[k].start /\ End(r[k]) <= End(b)
        /\ \A a : a \in Cover(r) <=> a \in Bytes(b) /\ a \notin s .. s + n - 1
  BY <1>1, RemainderFacts
<1>3. \A j \in 1 .. Len(list) :
        /\ j < i => End(list[j]) < b.start
        /\ i < j => End(b) < list[j].start
  BY <1>1 DEF Ordered
<1>4. ASSUME NEW k \in 1 .. Len(r), NEW j \in 1 .. Len(list)
      PROVE  /\ j < i => End(list[j]) < r[k].start
             /\ i < j => End(r[k]) < list[j].start
  <2>1. r[k] \in Block /\ list[j] \in Block
    OBVIOUS
  <2>2. /\ r[k].start \in Nat /\ End(r[k]) \in Nat /\ End(b) \in Nat
        /\ list[j].start \in Nat /\ End(list[j]) \in Nat /\ b.start \in Nat
    BY <2>1, BlockFacts
  <2>3. b.start <= r[k].start /\ End(r[k]) <= End(b)
    BY <1>2
  <2>4. /\ j < i => End(list[j]) < b.start
        /\ i < j => End(b) < list[j].start
    BY <1>3
  <2> QED
    BY SMTT(30), <2>2, <2>3, <2>4
<1>5. PICK m \in Seq(Block) :
        /\ m = Splice(list, i, r)
        /\ Ordered(m)
        /\ \A a : a \in Cover(m) <=>
             \/ a \in Cover(r)
             \/ \E j \in 1 .. Len(list) : j # i /\ a \in Bytes(list[j])
  BY <1>2, <1>4, SpliceOrdered
<1>6. \A a : a \in Cover(list) <=> \E j \in 1 .. Len(list) : a \in Bytes(list[j])
  BY CoverFacts
<1>7. s .. s + n - 1 \subseteq Bytes(b)
  BY <1>1 DEF Bytes, Block, End
<1>8. ASSUME NEW j \in 1 .. Len(list), j # i
      PROVE  Bytes(list[j]) \cap (s .. s + n - 1) = {}
  BY <1>1, <1>7, <1>8, OneBlock
<1>9. \A a : a \in Cover(m) <=> a \in Cover(list) /\ a \notin s .. s + n - 1
  BY <1>1, <1>2, <1>5, <1>6, <1>8
<1>10. s .. s + n - 1 \subseteq Cover(list)
  BY <1>1, <1>6, <1>7
<1> QED
  BY <1>1, <1>2, <1>5, <1>9, <1>10

(***************************************************************************)
(* Putting a freed block back.                                             *)
(***************************************************************************)

\* A list of one block.
LEMMA Single ==
  ASSUME NEW y \in Block, y.size > 0
  PROVE  /\ <<y>> \in Seq(Block) /\ Len(<<y>>) = 1 /\ <<y>>[1] = y
         /\ Ordered(<<y>>)
         /\ \A a : a \in Cover(<<y>>) <=> a \in Bytes(y)
  BY DEF Ordered, Cover

\* A list of two blocks with a gap between them.
LEMMA Pair ==
  ASSUME NEW y \in Block, NEW z \in Block, y.size > 0, z.size > 0,
         End(y) < z.start
  PROVE  /\ <<y, z>> \in Seq(Block) /\ Len(<<y, z>>) = 2
         /\ <<y, z>>[1] = y /\ <<y, z>>[2] = z
         /\ Ordered(<<y, z>>)
         /\ \A a : a \in Cover(<<y, z>>) <=> a \in Bytes(y) \/ a \in Bytes(z)
<1>1. /\ <<y, z>> \in Seq(Block) /\ Len(<<y, z>>) = 2
      /\ <<y, z>>[1] = y /\ <<y, z>>[2] = z /\ DOMAIN <<y, z>> = {1, 2}
  OBVIOUS
<1>2. Ordered(<<y, z>>)
  BY <1>1 DEF Ordered
<1>3. \A a : a \in Cover(<<y, z>>) <=> a \in Bytes(y) \/ a \in Bytes(z)
  BY <1>1 DEF Cover
<1> QED
  BY <1>1, <1>2, <1>3

\* The empty list covers nothing.
LEMMA EmptyList ==
  /\ <<>> \in Seq(Block) /\ Len(<<>>) = 0 /\ Ordered(<<>>)
  /\ \A a : a \notin Cover(<<>>)
  BY DEF Ordered, Cover

\* Two blocks without a common address follow each other.
LEMMA Apart ==
  ASSUME NEW b \in Block, NEW c \in Block, b.size > 0, c.size > 0,
         Bytes(b) \cap Bytes(c) = {}
  PROVE  End(b) <= c.start \/ End(c) <= b.start
<1> SUFFICES ASSUME c.start < End(b), b.start < End(c) PROVE FALSE
  BY BlockFacts
<1>1. CASE c.start <= b.start
  <2>1. b.start \in Bytes(b) /\ b.start \in Bytes(c)
    BY <1>1 DEF Bytes, End, Block
  <2> QED
    BY <2>1
<1>2. CASE b.start < c.start
  <2>1. c.start \in Bytes(b) /\ c.start \in Bytes(c)
    BY <1>2 DEF Bytes, End, Block
  <2> QED
    BY <2>1
<1> QED
  BY <1>1, <1>2, BlockFacts

\* Two blocks that touch, made one.
LEMMA Joined ==
  ASSUME NEW b \in Block, NEW c \in Block, End(b) = c.start
  PROVE  \E z \in Block :
           /\ z = [start |-> b.start, size |-> b.size + c.size]
           /\ z.start = b.start /\ z.size = b.size + c.size
           /\ End(z) = End(c)
           /\ \A a : a \in Bytes(z) <=> a \in Bytes(b) \/ a \in Bytes(c)
<1>0. PICK z : z = [start |-> b.start, size |-> b.size + c.size]
  OBVIOUS
<1>1. /\ z \in Block /\ z.start = b.start /\ z.size = b.size + c.size
      /\ End(z) = End(c)
  BY <1>0 DEF Block, End
<1>2. \A a : a \in Bytes(z) <=> a \in Bytes(b) \/ a \in Bytes(c)
  BY <1>1 DEF Bytes, Block, End
<1> QED
  BY <1>0, <1>1, <1>2

\* A block replaced by one that keeps the distance to the others.
LEMMA Replace ==
  ASSUME NEW list \in Seq(Block), Ordered(list), NEW i \in 1 .. Len(list),
         NEW y \in Block, y.size > 0,
         \A j \in 1 .. Len(list) : /\ j < i => End(list[j]) < y.start
                                   /\ i < j => End(y) < list[j].start
  PROVE  /\ Splice(list, i, <<y>>) \in Seq(Block)
         /\ Ordered(Splice(list, i, <<y>>))
         /\ \A a : a \in Cover(Splice(list, i, <<y>>)) <=>
              \/ a \in Bytes(y)
              \/ \E j \in 1 .. Len(list) : j # i /\ a \in Bytes(list[j])
<1>1. PICK new \in Seq(Block) :
        /\ new = <<y>> /\ Len(new) = 1 /\ new[1] = y /\ Ordered(new)
        /\ \A a : a \in Cover(new) <=> a \in Bytes(y)
  BY Single
<1>2. \A k \in 1 .. Len(new), j \in 1 .. Len(list) :
        /\ j < i => End(list[j]) < new[k].start
        /\ i < j => End(new[k]) < list[j].start
  BY <1>1
<1>3. /\ Splice(list, i, new) \in Seq(Block)
      /\ Ordered(Splice(list, i, new))
      /\ \A a : a \in Cover(Splice(list, i, new)) <=>
           \/ a \in Cover(new)
           \/ \E j \in 1 .. Len(list) : j # i /\ a \in Bytes(list[j])
  BY <1>1, <1>2, SpliceOrdered
<1> QED
  BY <1>1, <1>3

\* Block i dropped from a list.
LEMMA Drop ==
  ASSUME NEW list \in Seq(Block), Ordered(list), NEW i \in 1 .. Len(list)
  PROVE  \E m \in Seq(Block) :
           /\ m = Splice(list, i, <<>>) /\ Ordered(m) /\ Len(m) = Len(list) - 1
           /\ \A j \in 1 .. i - 1 : m[j] = list[j]
           /\ \A j \in i .. Len(m) : m[j] = list[j + 1]
<1>1. PICK new \in Seq(Block) :
        new = <<>> /\ Len(new) = 0 /\ Ordered(new)
  BY EmptyList
<1>2. /\ Splice(list, i, new) \in Seq(Block)
      /\ Len(Splice(list, i, new)) = Len(list) - 1 + Len(new)
      /\ \A j \in 1 .. i - 1 : Splice(list, i, new)[j] = list[j]
      /\ \A j \in 1 .. Len(new) : Splice(list, i, new)[i - 1 + j] = new[j]
      /\ \A j \in i + 1 .. Len(list) :
           Splice(list, i, new)[j - 1 + Len(new)] = list[j]
  BY SpliceFacts, Zenon
<1>3. PICK m \in Seq(Block) : m = Splice(list, i, new) /\ Ordered(m)
  <2>1. \A k \in 1 .. Len(new), j \in 1 .. Len(list) :
          /\ j < i => End(list[j]) < new[k].start
          /\ i < j => End(new[k]) < list[j].start
    BY <1>1
  <2> QED
    BY <1>1, <2>1, SpliceOrdered
<1>4. Len(m) = Len(list) - 1
  BY <1>1, <1>2, <1>3
<1>5. \A j \in 1 .. i - 1 : m[j] = list[j]
  BY <1>2, <1>3
<1>6. \A j \in i + 1 .. Len(list) : m[j - 1] = list[j]
  BY <1>1, <1>2, <1>3
<1>7. \A j \in i .. Len(m) : m[j] = list[j + 1]
  <2> SUFFICES ASSUME NEW j \in i .. Len(m) PROVE m[j] = list[j + 1]
    OBVIOUS
  <2>1. j + 1 \in i + 1 .. Len(list) /\ (j + 1) - 1 = j
    BY <1>4
  <2> QED
    BY <1>6, <2>1
<1> QED
  BY <1>1, <1>3, <1>4, <1>5, <1>7

\* A block is freed behind all others.
LEMMA AtTheEnd ==
  ASSUME NEW list \in Seq(Block), Ordered(list), NEW x \in Block, x.size > 0,
         \A j \in 1 .. Len(list) : End(list[j]) < x.start
  PROVE  /\ list \o <<x>> \in Seq(Block)
         /\ Ordered(list \o <<x>>)
         /\ \A a : a \in Cover(list \o <<x>>) <=>
                     a \in Bytes(x) \/ a \in Cover(list)
<1>1. PICK m \in Seq(Block) :
        /\ m = list \o <<x>> /\ Len(m) = Len(list) + 1 /\ m[Len(m)] = x
        /\ \A j \in 1 .. Len(list) : m[j] = list[j]
  <2>1. <<x>> \in Seq(Block) /\ Len(<<x>>) = 1 /\ <<x>>[1] = x
    OBVIOUS
  <2>2. list \o <<x>> \in Seq(Block) /\ Len(list \o <<x>>) = Len(list) + 1
    BY <2>1, ConcatProperties
  <2>3. (list \o <<x>>)[Len(list) + 1] = x
    BY <2>1, ConcatProperties
  <2>4. \A j \in 1 .. Len(list) : (list \o <<x>>)[j] = list[j]
    BY <2>1, ConcatProperties
  <2> QED
    BY <2>2, <2>3, <2>4
<1>2. Ordered(m)
  BY <1>1 DEF Ordered
<1>3. ASSUME NEW a
      PROVE  a \in Cover(m) <=> a \in Bytes(x) \/ a \in Cover(list)
  <2>1. /\ a \in Cover(m) <=> \E j \in 1 .. Len(m) : a \in Bytes(m[j])
        /\ a \in Cover(list) <=> \E j \in 1 .. Len(list) : a \in Bytes(list[j])
    BY CoverFacts
  <2>2. Len(m) \in 1 .. Len(m) /\ 1 .. Len(m) = 1 .. Len(list) \cup {Len(m)}
    BY <1>1
  <2> QED
    BY <1>1, <2>1, <2>2
<1> QED
  BY <1>1, <1>2, <1>3

\* The walk of xrp_private_free: the list stays ordered, with gaps, and has
\* the addresses of the freed block besides its own.
LEMMA InsertList ==
  ASSUME NEW list \in Seq(Block), Ordered(list), NEW x \in Block, x.size > 0,
         Bytes(x) \cap Cover(list) = {}
  PROVE  /\ Inserted(list, x) \in Seq(Block)
         /\ Ordered(Inserted(list, x))
         /\ Cover(Inserted(list, x)) = Cover(list) \cup Bytes(x)
<1> DEFINE Above(c) == End(c) = x.start \/ x.start < c.start
<1>0. PICK i : i = SelectInSeq(list, LAMBDA c : End(c) = x.start \/ x.start < c.start)
  OBVIOUS
<1>1. \/ i = 0 /\ \A j \in 1 .. Len(list) : ~Above(list[j])
      \/ /\ i \in 1 .. Len(list) /\ Above(list[i])
         /\ \A j \in 1 .. i - 1 : ~Above(list[j])
  BY <1>0, FirstAbove
<1>a. \A a : a \in Cover(list) <=> \E j \in 1 .. Len(list) : a \in Bytes(list[j])
  BY CoverFacts
<1>b. ASSUME NEW j \in 1 .. Len(list)
      PROVE  /\ list[j] \in Block /\ list[j].size > 0 /\ list[j].size \in Nat
             /\ list[j].start \in Nat /\ End(list[j]) \in Nat
             /\ list[j].start < End(list[j])
  <2>1. list[j] \in Block /\ list[j].size > 0
    BY DEF Ordered
  <2> QED
    BY <2>1 DEF Block, End
<1>c. x.start \in Nat /\ End(x) \in Nat /\ x.start < End(x) /\ x.size \in Nat
  BY BlockFacts DEF End
<1>d. ASSUME NEW j \in 1 .. Len(list)
      PROVE  End(list[j]) <= x.start \/ End(x) <= list[j].start
  <2>1. Bytes(list[j]) \cap Bytes(x) = {}
    BY <1>a
  <2> QED
    BY <1>b, <2>1, Apart
<1>e. \A j, k \in 1 .. Len(list) : j < k => End(list[j]) < list[k].start
  BY DEF Ordered
<1>2. ASSUME NEW j \in 1 .. Len(list), ~Above(list[j])
      PROVE  End(list[j]) < x.start
  BY <1>2, <1>b, <1>c, <1>d
<1>3. CASE i = 0
  <2>1. Inserted(list, x) = list \o <<x>>
    BY <1>0, <1>3 DEF Inserted
  <2>2. \A j \in 1 .. Len(list) : ~Above(list[j])
    BY <1>1, <1>3
  <2>3. \A j \in 1 .. Len(list) : End(list[j]) < x.start
    BY <1>2, <2>2
  <2> HIDE DEF Above
  <2>4. /\ list \o <<x>> \in Seq(Block) /\ Ordered(list \o <<x>>)
        /\ \A a : a \in Cover(list \o <<x>>) <=>
                    a \in Bytes(x) \/ a \in Cover(list)
    BY <2>3, AtTheEnd
  <2> QED
    BY <2>1, <2>4
<1>4. ASSUME i \in 1 .. Len(list)
      PROVE  /\ Inserted(list, x) \in Seq(Block)
             /\ Ordered(Inserted(list, x))
             /\ \A a : a \in Cover(Inserted(list, x)) <=>
                         a \in Cover(list) \/ a \in Bytes(x)
  <2>1. PICK c \in Block : c = list[i]
    BY <1>4
  <2>2. /\ Above(c) /\ c.size > 0 /\ c.start < End(c)
        /\ c.size \in Nat /\ c.start \in Nat /\ End(c) \in Nat
    BY <1>1, <1>4, <1>b, <2>1
  <2>3. \A j \in 1 .. Len(list) : j < i => End(list[j]) < x.start
    BY <1>1, <1>2, <1>4
  <2>4. \A j \in 1 .. Len(list) : /\ j < i => End(list[j]) < c.start
                                  /\ i < j => End(c) < list[j].start
    BY <1>4, <1>e, <2>1
  <2> DEFINE joined == [c EXCEPT !.size = @ + x.size]
  <2>5. CASE End(c) = x.start
    <3>1. joined = [start |-> c.start, size |-> c.size + x.size]
      BY DEF Block
    <3>2. PICK z \in Block :
            /\ z = joined /\ z.start = c.start /\ z.size = c.size + x.size
            /\ End(z) = End(x)
            /\ \A a : a \in Bytes(z) <=> a \in Bytes(c) \/ a \in Bytes(x)
      <4>1. PICK z \in Block :
              /\ z = [start |-> c.start, size |-> c.size + x.size]
              /\ z.start = c.start /\ z.size = c.size + x.size
              /\ End(z) = End(x)
              /\ \A a : a \in Bytes(z) <=> a \in Bytes(c) \/ a \in Bytes(x)
        BY <2>5, Joined, Zenon
      <4> QED
        BY <3>1, <4>1, Zenon
    <3>3. z.size > 0 /\ End(z) \in Nat /\ z.size \in Nat /\ z.start \in Nat
      BY <1>c, <2>2, <3>2
    <3>4. \A j \in 1 .. Len(list) : i < j => End(z) <= list[j].start
      BY <1>b, <1>c, <1>d, <2>2, <2>4, <2>5, <3>2
    <3>5. CASE i < Len(list) /\ End(joined) = list[i + 1].start
      <4>1. PICK d \in Block : d = list[i + 1]
        BY <1>4, <3>5
      <4>2. PICK y \in Block :
              /\ y = [joined EXCEPT !.size = @ + list[i + 1].size]
              /\ y.start = c.start /\ y.size = z.size + d.size
              /\ End(y) = End(d)
              /\ \A a : a \in Bytes(y) <=> a \in Bytes(z) \/ a \in Bytes(d)
        <5>1. [joined EXCEPT !.size = @ + list[i + 1].size]
                = [start |-> z.start, size |-> z.size + d.size]
          <6>1. z = [start |-> z.start, size |-> z.size]
            BY BlockFacts
          <6>2. [z EXCEPT !.size = @ + d.size]
                  = [start |-> z.start, size |-> z.size + d.size]
            BY <6>1
          <6> QED
            BY <3>2, <4>1, <6>2, Zenon
        <5>2. End(z) = d.start
          BY <3>2, <3>5, <4>1
        <5>3. PICK y \in Block :
                /\ y = [start |-> z.start, size |-> z.size + d.size]
                /\ y.start = z.start /\ y.size = z.size + d.size
                /\ End(y) = End(d)
                /\ \A a : a \in Bytes(y) <=> a \in Bytes(z) \/ a \in Bytes(d)
          BY <5>2, Joined, Zenon
        <5> QED
          BY <3>2, <5>1, <5>3, Zenon
      <4>3. Inserted(list, x) = Splice(Splice(list, i + 1, <<>>), i, <<y>>)
        <5>1. End(list[i]) = x.start /\ i # 0
          BY <1>4, <2>1, <2>5
        <5>2. /\ joined = [list[i] EXCEPT !.size = @ + x.size]
              /\ i < Len(list)
              /\ End([list[i] EXCEPT !.size = @ + x.size]) = list[i + 1].start
          BY <2>1, <3>5
        <5>3. Inserted(list, x) =
                Splice(Splice(list, i + 1, <<>>), i,
                       <<[joined EXCEPT !.size = @ + list[i + 1].size]>>)
          BY <1>0, <5>1, <5>2, Zenon DEF Inserted
        <5> QED
          BY <4>2, <5>3, Zenon
      <4>4. i + 1 \in 1 .. Len(list)
        BY <1>4, <3>5
      <4>5. PICK m \in Seq(Block) :
              /\ m = Splice(list, i + 1, <<>>) /\ Ordered(m)
              /\ Len(m) = Len(list) - 1
              /\ \A j \in 1 .. i : m[j] = list[j]
              /\ \A j \in i + 1 .. Len(m) : m[j] = list[j + 1]
        <5>1. (i + 1) - 1 = i
          BY <1>4
        <5> QED
          BY <4>4, <5>1, Drop
      <4>6. i \in 1 .. Len(m)
        BY <1>4, <4>4, <4>5
      <4>7. y.size > 0
        BY <1>b, <3>3, <4>1, <4>2, <4>4
      <4>8. ASSUME NEW j \in 1 .. Len(m)
            PROVE  /\ j < i => End(m[j]) < y.start
                   /\ i < j => End(y) < m[j].start
        <5>1. CASE j < i
          BY <1>4, <2>4, <4>2, <4>5, <4>6, <5>1
        <5>2. CASE i < j
          <6>1. m[j] = list[j + 1] /\ j + 1 \in 1 .. Len(list) /\ i + 1 < j + 1
            BY <1>4, <4>5, <5>2
          <6>2. End(list[i + 1]) < list[j + 1].start
            BY <1>e, <4>4, <6>1
          <6> QED
            BY <1>4, <4>1, <4>2, <5>2, <6>1, <6>2
        <5> QED
          BY <1>4, <5>1, <5>2
      <4>9. /\ Splice(m, i, <<y>>) \in Seq(Block)
            /\ Ordered(Splice(m, i, <<y>>))
            /\ \A a : a \in Cover(Splice(m, i, <<y>>)) <=>
                 \/ a \in Bytes(y)
                 \/ \E j \in 1 .. Len(m) : j # i /\ a \in Bytes(m[j])
        <5>1. \A j \in 1 .. Len(m) : /\ j < i => End(m[j]) < y.start
                                     /\ i < j => End(y) < m[j].start
          BY <4>8
        <5>2. Ordered(m)
          BY <4>5
        <5> QED
          BY <4>6, <4>7, <5>1, <5>2, Replace, Zenon
      <4>10. ASSUME NEW a
             PROVE  (\E j \in 1 .. Len(m) : j # i /\ a \in Bytes(m[j])) <=>
                    \E j \in 1 .. Len(list) :
                      j # i /\ j # i + 1 /\ a \in Bytes(list[j])
        <5>1. ASSUME NEW j \in 1 .. Len(m), j # i, a \in Bytes(m[j])
              PROVE  \E k \in 1 .. Len(list) :
                       k # i /\ k # i + 1 /\ a \in Bytes(list[k])
          <6>1. CASE j < i
            BY <1>4, <4>5, <5>1, <6>1
          <6>2. CASE j > i
            <7>1. m[j] = list[j + 1] /\ j + 1 \in 1 .. Len(list) /\ j + 1 > i + 1
              BY <1>4, <4>5, <6>2
            <7> QED
              BY <1>4, <5>1, <7>1
          <6> QED
            BY <1>4, <5>1, <6>1, <6>2
        <5>2. ASSUME NEW j \in 1 .. Len(list), j # i, j # i + 1,
                     a \in Bytes(list[j])
              PROVE  \E k \in 1 .. Len(m) : k # i /\ a \in Bytes(m[k])
          <6>1. CASE j < i
            BY <1>4, <4>5, <5>2, <6>1
          <6>2. CASE j > i
            <7>1. j - 1 \in i + 1 .. Len(m) /\ (j - 1) + 1 = j
              BY <1>4, <4>5, <5>2, <6>2
            <7>2. m[j - 1] = list[j] /\ j - 1 \in 1 .. Len(m) /\ j - 1 # i
              BY SMTT(30), <1>4, <4>5, <7>1
            <7> QED
              BY <5>2, <7>2
          <6> QED
            BY <1>4, <5>2, <6>1, <6>2
        <5> QED
          BY <5>1, <5>2
      <4>11. ASSUME NEW a
             PROVE  a \in Cover(Splice(m, i, <<y>>)) <=>
                      a \in Cover(list) \/ a \in Bytes(x)
        <5>1. a \in Cover(list) <=>
                \/ a \in Bytes(c) \/ a \in Bytes(d)
                \/ \E j \in 1 .. Len(list) :
                     j # i /\ j # i + 1 /\ a \in Bytes(list[j])
          BY <1>4, <1>a, <2>1, <4>1, <4>4
        <5> QED
          BY <3>2, <4>2, <4>9, <4>10, <5>1
      <4> QED
        BY <4>3, <4>5, <4>9, <4>11
    <3>6. CASE ~(i < Len(list) /\ End(joined) = list[i + 1].start)
      <4>1. Inserted(list, x) = Splice(list, i, <<z>>)
        <5>1. End(list[i]) = x.start /\ i # 0
          BY <1>4, <2>1, <2>5
        <5>2. joined = [list[i] EXCEPT !.size = @ + x.size] /\ z = joined
          BY <2>1, <3>2
        <5>3. ~(/\ i < Len(list)
                /\ End([list[i] EXCEPT !.size = @ + x.size]) = list[i + 1].start)
          BY <2>1, <3>6
        <5> QED
          BY <1>0, <5>1, <5>2, <5>3, Zenon DEF Inserted
      <4>2. ASSUME NEW j \in 1 .. Len(list), i < j
            PROVE  End(z) < list[j].start
        <5>1. i + 1 \in 1 .. Len(list) /\ End(z) < list[i + 1].start
          <6>1. i + 1 \in 1 .. Len(list) /\ i < Len(list)
            BY <1>4, <4>2
          <6>2. End(z) # list[i + 1].start /\ End(z) <= list[i + 1].start
            BY <1>4, <3>2, <3>4, <3>6, <6>1
          <6> QED
            BY <1>b, <3>3, <6>1, <6>2
        <5>2. CASE j = i + 1
          BY <5>1, <5>2
        <5>3. CASE j > i + 1
          BY <1>b, <1>e, <3>3, <5>1, <5>3
        <5> QED
          BY <1>4, <4>2, <5>2, <5>3
      <4>3. \A j \in 1 .. Len(list) : /\ j < i => End(list[j]) < z.start
                                      /\ i < j => End(z) < list[j].start
        BY <2>4, <3>2, <4>2
      <4>4. /\ Splice(list, i, <<z>>) \in Seq(Block)
            /\ Ordered(Splice(list, i, <<z>>))
            /\ \A a : a \in Cover(Splice(list, i, <<z>>)) <=>
                 \/ a \in Bytes(z)
                 \/ \E j \in 1 .. Len(list) : j # i /\ a \in Bytes(list[j])
        BY <1>4, <3>3, <4>3, Replace
      <4>5. \A a : a \in Cover(list) <=>
              \/ a \in Bytes(c)
              \/ \E j \in 1 .. Len(list) : j # i /\ a \in Bytes(list[j])
        BY <1>4, <1>a, <2>1
      <4> QED
        BY <3>2, <4>1, <4>4, <4>5
    <3> QED
      BY <3>5, <3>6
  <2>6. CASE End(c) # x.start
    <3>1. End(x) <= c.start
      BY <1>4, <1>c, <1>d, <2>1, <2>2, <2>6
    <3>2. CASE End(x) = c.start
      <4>1. PICK z \in Block :
              /\ z = [start |-> x.start, size |-> c.size + x.size]
              /\ z.start = x.start /\ z.size = x.size + c.size
              /\ End(z) = End(c)
              /\ \A a : a \in Bytes(z) <=> a \in Bytes(x) \/ a \in Bytes(c)
        <5>1. c.size + x.size = x.size + c.size
          BY <1>c, <2>2
        <5>2. PICK z \in Block :
                /\ z = [start |-> x.start, size |-> x.size + c.size]
                /\ z.start = x.start /\ z.size = x.size + c.size
                /\ End(z) = End(c)
                /\ \A a : a \in Bytes(z) <=> a \in Bytes(x) \/ a \in Bytes(c)
          BY <3>2, Joined, Zenon
        <5> QED
          BY <5>1, <5>2, Zenon
      <4>2. Inserted(list, x) = Splice(list, i, <<z>>)
        BY <1>0, <1>4, <2>1, <2>6, <3>2, <4>1 DEF Inserted
      <4>3. z.size > 0
        BY <1>c, <2>2, <4>1
      <4>4. \A j \in 1 .. Len(list) : /\ j < i => End(list[j]) < z.start
                                      /\ i < j => End(z) < list[j].start
        BY <2>3, <2>4, <4>1
      <4>5. /\ Splice(list, i, <<z>>) \in Seq(Block)
            /\ Ordered(Splice(list, i, <<z>>))
            /\ \A a : a \in Cover(Splice(list, i, <<z>>)) <=>
                 \/ a \in Bytes(z)
                 \/ \E j \in 1 .. Len(list) : j # i /\ a \in Bytes(list[j])
        BY <1>4, <4>3, <4>4, Replace
      <4>6. \A a : a \in Cover(list) <=>
              \/ a \in Bytes(c)
              \/ \E j \in 1 .. Len(list) : j # i /\ a \in Bytes(list[j])
        BY <1>4, <1>a, <2>1
      <4> QED
        BY <4>1, <4>2, <4>5, <4>6
    <3>3. CASE End(x) # c.start
      <4>1. Inserted(list, x) = Splice(list, i, <<x, c>>)
        BY <1>0, <1>4, <2>1, <2>6, <3>3 DEF Inserted
      <4>2. PICK new \in Seq(Block) :
              /\ new = <<x, c>> /\ Len(new) = 2 /\ new[1] = x /\ new[2] = c
              /\ Ordered(new)
              /\ \A a : a \in Cover(new) <=> a \in Bytes(x) \/ a \in Bytes(c)
        <5>1. End(x) < c.start
          BY <1>c, <2>2, <3>1, <3>3
        <5> QED
          BY <2>2, <5>1, Pair
      <4>3. ASSUME NEW k \in 1 .. Len(new), NEW j \in 1 .. Len(list)
            PROVE  /\ j < i => End(list[j]) < new[k].start
                   /\ i < j => End(new[k]) < list[j].start
        <5>1. End(x) < End(c)
          BY <1>c, <2>2, <3>1
        <5>2. CASE k = 1
          BY <1>b, <1>c, <2>2, <2>3, <2>4, <4>2, <5>1, <5>2
        <5>3. CASE k = 2
          BY <2>4, <4>2, <5>3
        <5> QED
          BY <4>2, <5>2, <5>3
      <4>4. /\ Splice(list, i, new) \in Seq(Block)
            /\ Ordered(Splice(list, i, new))
            /\ \A a : a \in Cover(Splice(list, i, new)) <=>
                 \/ a \in Cover(new)
                 \/ \E j \in 1 .. Len(list) : j # i /\ a \in Bytes(list[j])
        BY <1>4, <4>2, <4>3, SpliceOrdered
      <4>5. \A a : a \in Cover(list) <=>
              \/ a \in Bytes(c)
              \/ \E j \in 1 .. Len(list) : j # i /\ a \in Bytes(list[j])
        BY <1>4, <1>a, <2>1
      <4> QED
        BY <4>1, <4>2, <4>4, <4>5
    <3> QED
      BY <3>2, <3>3
  <2> QED
    BY <2>5, <2>6
<1> QED
  BY <1>1, <1>3, <1>4

(***************************************************************************)
(* The steps of the threads.                                               *)
(***************************************************************************)

\* The numbers the pool is made with.
LEMMA PoolFacts == /\ PoolStart \in Nat /\ PoolSize \in Nat /\ PoolSize > 0
                   /\ MaxRef \in Nat /\ MaxRef > 0
  BY PoolAssumption, ArgumentAssumption

\* A walk that finds a block takes an aligned run out of the addresses of the
\* free list.
LEMMA CarveTakes ==
  ASSUME PoolInv, NEW t \in Thread, NEW n \in Size, NEW a \in Align,
         Carve(t, n, a)
  PROVE  \E x \in Block :
           /\ x.size > 0 /\ x.start % Alignment(a) = 0
           /\ answer' = [size |-> x.size, align |-> Alignment(a), start |-> x.start]
           /\ free_list' \in Seq(Block) /\ Ordered(free_list')
           /\ Bytes(x) \subseteq Cover(free_list)
           /\ Cover(free_list') = Cover(free_list) \ Bytes(x)
           /\ \/ doing[t] = "nothing" /\ Hold(x) /\ UNCHANGED <<hand, doing>>
              \/ Goto(t, "nothing", "describe", x) /\ UNCHANGED ref
           /\ UNCHANGED lost
<1>1. free_list \in Seq(Block) /\ Ordered(free_list)
  BY DEF PoolInv, TypeOK, ListInOrder
<1>2. PICK size \in Nat : size = Rounded(n) /\ size > 0
  <2>1. n # 0
    BY DEF Carve
  <2> QED
    BY <2>1, RoundedFacts
<1>3. PICK align \in Nat \ {0} : align = Alignment(a)
  BY AlignmentFacts
<1>4. PICK i : i = SelectInSeq(free_list, LAMBDA c : Fits(c, size, align))
  OBVIOUS
<1>5. i # 0
  BY <1>2, <1>3, <1>4 DEF Carve
<1>6. i \in 1 .. Len(free_list) /\ Fits(free_list[i], size, align)
  <2>1. PICK I : I = {j \in 1 .. Len(free_list) : Fits(free_list[j], size, align)}
    OBVIOUS
  <2>2. i = IF I # {} THEN Min(I) ELSE 0
    BY <1>4, <2>1 DEF SelectInSeq
  <2>3. (i = 0 /\ I = {}) \/ (i \in 1 .. Len(free_list) /\ i \in I)
    <3>1. Len(free_list) \in Nat
      BY <1>1
    <3>2. I \subseteq 1 .. Len(free_list)
      BY <2>1
    <3> QED
      BY <2>2, <3>1, <3>2, FirstFit
  <2> QED
    BY <1>5, <2>1, <2>3
<1>7. PICK b \in Block : b = free_list[i]
  BY <1>1, <1>6
<1>8. b.start \in Nat /\ b.size \in Nat /\ End(b) = b.start + b.size
  BY DEF Block, End
<1>9. PICK s \in Nat : s = AlignUp(b.start, align) /\ b.start <= s /\ s % align = 0
  BY <1>8, AlignUpFacts
<1>10. s + size <= End(b)
  <2>1. s - b.start + size <= b.size
    BY <1>6, <1>7, <1>9 DEF Fits
  <2> QED
    BY <1>8, <2>1
<1>11. PICK x \in Block : x = [start |-> s, size |-> size] /\ x.start = s /\ x.size = size
  <2>1. [start |-> s, size |-> size] \in Block
    BY DEF Block
  <2> QED
    BY <2>1
<1>12. Bytes(x) = s .. s + size - 1
  BY <1>11 DEF Bytes, End
<1>13. /\ free_list' = Splice(free_list, i, Remainder(b, s, size))
       /\ answer' = [size |-> size, align |-> align, start |-> s]
       /\ \/ doing[t] = "nothing" /\ Hold(x) /\ UNCHANGED <<hand, doing>>
          \/ Goto(t, "nothing", "describe", x) /\ UNCHANGED ref
       /\ UNCHANGED lost
  BY <1>2, <1>3, <1>4, <1>7, <1>9, <1>11 DEF Carve
<1>14. LET m == Splice(free_list, i, Remainder(free_list[i], s, size))
       IN /\ m \in Seq(Block) /\ Ordered(m)
          /\ s .. s + size - 1 \subseteq Cover(free_list)
          /\ Cover(m) = Cover(free_list) \ (s .. s + size - 1)
  BY <1>1, <1>2, <1>6, <1>7, <1>9, <1>10, CarveList
<1>15. /\ free_list' \in Seq(Block) /\ Ordered(free_list')
       /\ Bytes(x) \subseteq Cover(free_list)
       /\ Cover(free_list') = Cover(free_list) \ Bytes(x)
  BY <1>7, <1>12, <1>13, <1>14
<1> QED
  BY <1>2, <1>3, <1>9, <1>11, <1>13, <1>15

\* xrp_private_free gives the addresses of the block in hand back.
LEMMA FreeGives ==
  ASSUME PoolInv, NEW t \in Thread, Free(t)
  PROVE  /\ hand[t] \in Busy
         /\ free_list' \in Seq(Block) /\ Ordered(free_list')
         /\ Cover(free_list') = Cover(free_list) \cup Bytes(hand[t])
<1>1. free_list \in Seq(Block) /\ Ordered(free_list) /\ hand[t] \in Block
  BY DEF PoolInv, TypeOK, ListInOrder
<1>2. doing[t] = "free" /\ free_list' = Inserted(free_list, hand[t])
  BY DEF Free, Goto
<1>3. hand[t] \in Busy
  BY <1>2 DEF Busy, InHand
<1>4. hand[t].size > 0 /\ Bytes(hand[t]) \cap Cover(free_list) = {}
  BY <1>3 DEF PoolInv, Disjoint
<1>5. /\ Inserted(free_list, hand[t]) \in Seq(Block)
      /\ Ordered(Inserted(free_list, hand[t]))
      /\ Cover(Inserted(free_list, hand[t])) = Cover(free_list) \cup Bytes(hand[t])
  BY <1>1, <1>4, InsertList
<1> QED
  BY <1>2, <1>3, <1>5

\* A block is busy when it is referenced, lost or in the hands of a thread.
LEMMA BusyFacts ==
  ASSUME TypeOK
  PROVE  /\ Busy \subseteq Block
         /\ \A b : b \in Busy <=>
              \/ b \in DOMAIN ref \/ b \in lost
              \/ \E t \in Thread : doing[t] # "nothing" /\ hand[t] = b
<1>1. \A b : b \in Busy <=>
        \/ b \in DOMAIN ref \/ b \in lost
        \/ \E t \in Thread : doing[t] # "nothing" /\ hand[t] = b
  BY DEF Busy, InHand
<1> QED
  BY <1>1 DEF TypeOK

\* A block carved out of the list is nobody's yet.
LEMMA Carved ==
  ASSUME PoolInv, NEW x \in Block, x.size > 0, Bytes(x) \subseteq Cover(free_list)
  PROVE  x \notin Busy
<1>1. x.start \in Bytes(x)
  BY DEF Block, Bytes, End
<1> QED
  BY <1>1 DEF PoolInv, Disjoint

\* What a step may do to the busy blocks: take a new one from the free list,
\* give one back, or nothing.
Moved ==
  /\ free_list' \in Seq(Block) /\ Ordered(free_list')
  /\ \/ \E x \in Block : /\ x.size > 0 /\ Bytes(x) \subseteq Cover(free_list)
                         /\ Cover(free_list') = Cover(free_list) \ Bytes(x)
                         /\ Busy' = Busy \cup {x}
     \/ \E x \in Busy : /\ Cover(free_list') = Cover(free_list) \cup Bytes(x)
                        /\ Busy' = Busy \ {x}
     \/ Cover(free_list') = Cover(free_list) /\ Busy' = Busy

\* Addresses that move between free and busy keep the pool disjoint and
\* complete.
LEMMA MovedKeeps ==
  ASSUME PoolInv, Moved
  PROVE  Disjoint' /\ Complete'
<1>0. Busy \subseteq Block
  BY BusyFacts DEF PoolInv
<1>1. /\ \A b \in Busy : b.size > 0 /\ Bytes(b) \cap Cover(free_list) = {}
      /\ \A b, c \in Busy : b # c => Bytes(b) \cap Bytes(c) = {}
  BY DEF PoolInv, Disjoint
<1>2. \A a \in Int : a \in PoolStart .. PoolStart + PoolSize - 1 <=>
        a \in Cover(free_list) \/ \E b \in Busy : a \in Bytes(b)
  BY DEF PoolInv, Complete
<1> SUFFICES /\ \A b \in Busy' : b.size > 0 /\ Bytes(b) \cap Cover(free_list') = {}
             /\ \A b, c \in Busy' : b # c => Bytes(b) \cap Bytes(c) = {}
             /\ \A a \in Int :
                  a \in Cover(free_list) \/ (\E b \in Busy : a \in Bytes(b))
                  <=> a \in Cover(free_list') \/ \E b \in Busy' : a \in Bytes(b)
  BY <1>2 DEF Disjoint, Complete
<1>3. CASE \E x \in Block : /\ x.size > 0 /\ Bytes(x) \subseteq Cover(free_list)
                            /\ Cover(free_list') = Cover(free_list) \ Bytes(x)
                            /\ Busy' = Busy \cup {x}
  BY <1>1, <1>3
<1>4. CASE \E x \in Busy : /\ Cover(free_list') = Cover(free_list) \cup Bytes(x)
                           /\ Busy' = Busy \ {x}
  BY <1>1, <1>4
<1>5. CASE Cover(free_list') = Cover(free_list) /\ Busy' = Busy
  BY <1>1, <1>5
<1> QED
  BY <1>3, <1>4, <1>5 DEF Moved

\* The parts of the invariant about the owners of blocks.
Owners == TypeOK /\ OneOwner

\* The descriptor of a new block has one reference.
LEMMA HoldOwns ==
  ASSUME TypeOK, NEW x \in Block, Hold(x)
  PROVE  /\ DOMAIN ref' = DOMAIN ref \cup {x} /\ DOMAIN ref' \subseteq Block
         /\ \A b \in DOMAIN ref' : ref'[b] \in 1 .. MaxRef
<1>1. ref' = [c \in DOMAIN ref \cup {x} |-> IF c = x THEN 1 ELSE ref[c]]
  BY DEF Hold
<1> QED
  BY <1>1, PoolFacts DEF TypeOK

\* The first-fit walk cuts an allocation out of the free list.
LEMMA CarveStep ==
  ASSUME PoolInv, NEW t \in Thread, NEW n \in Size, NEW a \in Align,
         Carve(t, n, a)
  PROVE  Owners' /\ Moved
<1>1. PICK x \in Block :
        /\ x.size > 0
        /\ free_list' \in Seq(Block) /\ Ordered(free_list')
        /\ Bytes(x) \subseteq Cover(free_list)
        /\ Cover(free_list') = Cover(free_list) \ Bytes(x)
        /\ \/ doing[t] = "nothing" /\ Hold(x) /\ UNCHANGED <<hand, doing>>
           \/ Goto(t, "nothing", "describe", x) /\ UNCHANGED ref
        /\ UNCHANGED lost
  BY CarveTakes
<1>2. TypeOK /\ OneOwner
  BY DEF PoolInv
<1>3. x \notin Busy
  BY <1>1, Carved
<1>4. /\ x \notin DOMAIN ref /\ x \notin lost
      /\ \A u \in Thread : doing[u] # "nothing" => hand[u] # x
  BY <1>2, <1>3, BusyFacts
<1>5. CASE Hold(x) /\ UNCHANGED <<hand, doing>>
  <2>1. /\ DOMAIN ref' = DOMAIN ref \cup {x} /\ DOMAIN ref' \subseteq Block
        /\ \A b \in DOMAIN ref' : ref'[b] \in 1 .. MaxRef
    BY <1>2, <1>5, HoldOwns
  <2>2. TypeOK'
    BY <1>1, <1>2, <1>5, <2>1 DEF TypeOK
  <2>3. OneOwner'
    BY <1>1, <1>2, <1>4, <1>5, <2>1 DEF OneOwner
  <2>4. Busy' = Busy \cup {x}
    BY <1>1, <1>5, <2>1 DEF Busy, InHand
  <2> QED
    BY <1>1, <2>2, <2>3, <2>4 DEF Owners, Moved
<1>6. CASE Goto(t, "nothing", "describe", x) /\ UNCHANGED ref
  <2>1. /\ doing[t] = "nothing"
        /\ doing' = [doing EXCEPT ![t] = "describe"]
        /\ hand' = [hand EXCEPT ![t] = x] /\ ref' = ref /\ lost' = lost
    BY <1>1, <1>6 DEF Goto
  <2>2. TypeOK'
    BY <1>1, <1>2, <2>1 DEF TypeOK
  <2>3. OneOwner'
    BY <1>2, <1>4, <2>1 DEF OneOwner, TypeOK
  <2>4. ASSUME NEW b
        PROVE  b \in Busy' <=> b \in Busy \cup {x}
    <3>1. /\ doing'[t] = "describe" /\ hand'[t] = x
          /\ \A u \in Thread \ {t} : doing'[u] = doing[u] /\ hand'[u] = hand[u]
      BY <1>2, <2>1 DEF TypeOK
    <3>2. b \in Busy <=> \/ b \in DOMAIN ref \/ b \in lost
                         \/ \E u \in Thread : doing[u] # "nothing" /\ hand[u] = b
      BY <1>2, BusyFacts
    <3>3. b \in Busy' <=> \/ b \in DOMAIN ref \/ b \in lost
                          \/ \E u \in Thread : doing'[u] # "nothing" /\ hand'[u] = b
      BY <2>1 DEF Busy, InHand
    <3> QED
      BY <2>1, <3>1, <3>2, <3>3
  <2>5. Busy' = Busy \cup {x}
    BY <2>4
  <2> QED
    BY <1>1, <2>2, <2>3, <2>5 DEF Owners, Moved
<1> QED
  BY <1>1, <1>5, <1>6

\* The allocation of the descriptor, which may fail and leak the block.
LEMMA DescribeStep ==
  ASSUME PoolInv, NEW t \in Thread, Describe(t)
  PROVE  Owners' /\ Moved
<1>1. /\ TypeOK /\ OneOwner /\ ListInOrder /\ hand[t] \in Block
      /\ free_list \in Seq(Block)
  BY DEF PoolInv, TypeOK
<1>2. /\ doing[t] = "describe" /\ free_list' = free_list
      /\ doing' = [doing EXCEPT ![t] = "nothing"]
      /\ hand' = [hand EXCEPT ![t] = NoBlock]
  BY DEF Describe, Goto
<1>3. /\ doing'[t] = "nothing" /\ NoBlock \in Block
      /\ \A u \in Thread \ {t} : doing'[u] = doing[u] /\ hand'[u] = hand[u]
  BY <1>1, <1>2 DEF TypeOK, NoBlock, Block
<1>4. /\ hand' \in [Thread -> Block]
      /\ doing' \in [Thread -> {"nothing", "describe", "free"}]
  BY <1>1, <1>2, <1>3 DEF TypeOK
<1>5. /\ DOMAIN ref' \subseteq Block /\ lost' \subseteq Block
      /\ \A b \in DOMAIN ref' : ref'[b] \in 1 .. MaxRef
      /\ \/ DOMAIN ref' = DOMAIN ref \cup {hand[t]} /\ lost' = lost
         \/ DOMAIN ref' = DOMAIN ref /\ lost' = lost \cup {hand[t]}
  <2>1. CASE Hold(hand[t]) /\ UNCHANGED lost
    BY <1>1, <2>1, HoldOwns DEF TypeOK
  <2>2. CASE lost' = lost \cup {hand[t]} /\ UNCHANGED ref
    BY <1>1, <2>2 DEF TypeOK
  <2> QED
    BY <2>1, <2>2 DEF Describe
<1>6. TypeOK'
  BY <1>1, <1>2, <1>4, <1>5 DEF TypeOK
<1>7. OneOwner'
  <2>1. /\ hand[t] \notin DOMAIN ref \cup lost
        /\ \A u \in Thread \ {t} : doing[u] # "nothing" => hand[t] # hand[u]
    BY <1>1, <1>2 DEF OneOwner
  <2>2. DOMAIN ref' \cap lost' = {}
    BY <1>1, <1>5, <2>1 DEF OneOwner
  <2>3. ASSUME NEW u \in Thread, doing'[u] # "nothing"
        PROVE  /\ hand'[u] \notin DOMAIN ref' \cup lost'
               /\ \A v \in Thread \ {u} : doing'[v] # "nothing" => hand'[u] # hand'[v]
    <3>1. u # t /\ hand'[u] = hand[u] /\ doing[u] # "nothing"
      BY <1>3, <2>3
    <3>2. hand[u] \notin DOMAIN ref \cup lost /\ hand[u] # hand[t]
      BY <1>1, <2>1, <3>1 DEF OneOwner
    <3>3. \A v \in Thread \ {u} : doing'[v] # "nothing" => hand'[u] # hand'[v]
      BY <1>1, <1>3, <3>1 DEF OneOwner
    <3> QED
      BY <1>5, <3>1, <3>2, <3>3
  <2> QED
    BY <2>2, <2>3 DEF OneOwner
<1>8. ASSUME NEW b
      PROVE  b \in Busy' <=> b \in Busy
  <2>1. b \in Busy <=> \/ b \in DOMAIN ref \/ b \in lost
                       \/ \E u \in Thread : doing[u] # "nothing" /\ hand[u] = b
    BY <1>1, BusyFacts
  <2>2. b \in Busy' <=> \/ b \in DOMAIN ref' \/ b \in lost'
                        \/ \E u \in Thread : doing'[u] # "nothing" /\ hand'[u] = b
    BY DEF Busy, InHand
  <2>3. (\E u \in Thread : doing'[u] # "nothing" /\ hand'[u] = b) =>
           \E u \in Thread : doing[u] # "nothing" /\ hand[u] = b
    BY <1>3
  <2>4. (\E u \in Thread : doing[u] # "nothing" /\ hand[u] = b) =>
           \/ b = hand[t]
           \/ \E u \in Thread : doing'[u] # "nothing" /\ hand'[u] = b
    BY <1>3
  <2> QED
    BY <1>2, <1>5, <2>1, <2>2, <2>3, <2>4
<1>9. Busy' = Busy
  BY <1>8
<1> QED
  BY <1>1, <1>2, <1>6, <1>7, <1>9 DEF Owners, Moved, ListInOrder

\* xrp_allocation_get changes a count only.
LEMMA GetStep ==
  ASSUME PoolInv, NEW b \in DOMAIN ref, Get(b)
  PROVE  Owners' /\ Moved
<1>1. /\ TypeOK /\ OneOwner /\ ListInOrder /\ free_list \in Seq(Block)
      /\ ref[b] \in 1 .. MaxRef
  BY DEF PoolInv, TypeOK
<1>2. /\ ref[b] < MaxRef /\ ref' = [ref EXCEPT ![b] = @ + 1]
      /\ free_list' = free_list /\ hand' = hand /\ doing' = doing /\ lost' = lost
  BY DEF Get
<1>3. DOMAIN ref' = DOMAIN ref /\ \A c \in DOMAIN ref : ref'[c] \in 1 .. MaxRef
  <2>1. DOMAIN ref' = DOMAIN ref /\ ref'[b] = ref[b] + 1
    BY <1>2
  <2>2. \A c \in DOMAIN ref \ {b} : ref'[c] = ref[c]
    BY <1>2
  <2> QED
    BY <1>1, <1>2, <2>1, <2>2, PoolFacts DEF TypeOK
<1>4. TypeOK' /\ OneOwner'
  BY <1>1, <1>2, <1>3 DEF TypeOK, OneOwner
<1>5. Busy' = Busy
  BY <1>2, <1>3 DEF Busy, InHand
<1> QED
  BY <1>1, <1>2, <1>4, <1>5 DEF Owners, Moved, ListInOrder

\* xrp_allocation_put gives the last reference's block to the thread that frees
\* it.
LEMMA PutStep ==
  ASSUME PoolInv, NEW t \in Thread, NEW b \in DOMAIN ref, Put(t, b)
  PROVE  Owners' /\ Moved
<1>1. /\ TypeOK /\ OneOwner /\ ListInOrder /\ free_list \in Seq(Block)
      /\ ref[b] \in 1 .. MaxRef /\ b \in Block
  BY DEF PoolInv, TypeOK
<1>2. free_list' = free_list /\ lost' = lost
  BY DEF Put
<1>3. CASE ref[b] > 1 /\ ref' = [ref EXCEPT ![b] = @ - 1] /\ UNCHANGED <<hand, doing>>
  <2>1. DOMAIN ref' = DOMAIN ref /\ \A c \in DOMAIN ref : ref'[c] \in 1 .. MaxRef
    <3>1. DOMAIN ref' = DOMAIN ref /\ ref'[b] = ref[b] - 1
      BY <1>3
    <3>2. \A c \in DOMAIN ref \ {b} : ref'[c] = ref[c]
      BY <1>3
    <3> QED
      BY <1>1, <1>3, <3>1, <3>2, PoolFacts DEF TypeOK
  <2>2. TypeOK' /\ OneOwner'
    BY <1>1, <1>2, <1>3, <2>1 DEF TypeOK, OneOwner
  <2>3. Busy' = Busy
    BY <1>2, <1>3, <2>1 DEF Busy, InHand
  <2> QED
    BY <1>1, <1>2, <2>2, <2>3 DEF Owners, Moved, ListInOrder
<1>4. CASE Goto(t, "nothing", "free", b) /\ ref' = [c \in DOMAIN ref \ {b} |-> ref[c]]
  <2>1. /\ doing[t] = "nothing" /\ doing' = [doing EXCEPT ![t] = "free"]
        /\ hand' = [hand EXCEPT ![t] = b]
    BY <1>4 DEF Goto
  <2>2. /\ doing'[t] = "free" /\ hand'[t] = b
        /\ \A u \in Thread \ {t} : doing'[u] = doing[u] /\ hand'[u] = hand[u]
    BY <1>1, <2>1 DEF TypeOK
  <2>3. /\ DOMAIN ref' = DOMAIN ref \ {b}
        /\ \A c \in DOMAIN ref' : ref'[c] \in 1 .. MaxRef
    BY <1>1, <1>4 DEF TypeOK
  <2>4. TypeOK'
    BY <1>1, <1>2, <2>1, <2>3 DEF TypeOK
  <2>5. OneOwner'
    <3>1. /\ b \notin lost /\ DOMAIN ref' \cap lost' = {}
          /\ \A u \in Thread : doing[u] # "nothing" => hand[u] # b
      BY <1>1, <1>2, <2>3 DEF OneOwner
    <3>2. ASSUME NEW u \in Thread, doing'[u] # "nothing"
          PROVE  /\ hand'[u] \notin DOMAIN ref' \cup lost'
                 /\ \A v \in Thread \ {u} : doing'[v] # "nothing" => hand'[u] # hand'[v]
      <4>1. CASE u = t
        BY <1>2, <2>2, <2>3, <3>1, <4>1
      <4>2. CASE u # t
        <5>1. hand'[u] = hand[u] /\ doing[u] # "nothing"
          BY <2>2, <3>2, <4>2
        <5> QED
          BY <1>1, <1>2, <2>2, <2>3, <3>1, <4>2, <5>1 DEF OneOwner
      <4> QED
        BY <4>1, <4>2
    <3> QED
      BY <3>1, <3>2 DEF OneOwner
  <2>6. ASSUME NEW c
        PROVE  c \in Busy' <=> c \in Busy
    <3>1. c \in Busy <=> \/ c \in DOMAIN ref \/ c \in lost
                         \/ \E u \in Thread : doing[u] # "nothing" /\ hand[u] = c
      BY <1>1, BusyFacts
    <3>2. c \in Busy' <=> \/ c \in DOMAIN ref' \/ c \in lost'
                          \/ \E u \in Thread : doing'[u] # "nothing" /\ hand'[u] = c
      BY DEF Busy, InHand
    <3> QED
      BY <1>2, <2>1, <2>2, <2>3, <3>1, <3>2
  <2>7. Busy' = Busy
    BY <2>6
  <2> QED
    BY <1>1, <1>2, <2>4, <2>5, <2>7 DEF Owners, Moved, ListInOrder
<1> QED
  BY <1>3, <1>4 DEF Put

\* xrp_private_free puts a block back and joins it with its neighbours.
LEMMA FreeStep ==
  ASSUME PoolInv, NEW t \in Thread, Free(t)
  PROVE  Owners' /\ Moved
<1>1. TypeOK /\ OneOwner
  BY DEF PoolInv
<1>2. /\ hand[t] \in Busy /\ free_list' \in Seq(Block) /\ Ordered(free_list')
      /\ Cover(free_list') = Cover(free_list) \cup Bytes(hand[t])
  BY FreeGives
<1>3. /\ doing[t] = "free" /\ ref' = ref /\ lost' = lost
      /\ doing' = [doing EXCEPT ![t] = "nothing"]
      /\ hand' = [hand EXCEPT ![t] = NoBlock]
  BY DEF Free, Goto
<1>4. /\ doing'[t] = "nothing" /\ NoBlock \in Block
      /\ \A u \in Thread \ {t} : doing'[u] = doing[u] /\ hand'[u] = hand[u]
  BY <1>1, <1>3 DEF TypeOK, NoBlock, Block
<1>5. TypeOK'
  BY <1>1, <1>2, <1>3, <1>4 DEF TypeOK
<1>6. OneOwner'
  BY <1>1, <1>3, <1>4 DEF OneOwner
<1>7. ASSUME NEW b
      PROVE  b \in Busy' <=> b \in Busy \ {hand[t]}
  <2>1. b \in Busy <=> \/ b \in DOMAIN ref \/ b \in lost
                       \/ \E u \in Thread : doing[u] # "nothing" /\ hand[u] = b
    BY <1>1, BusyFacts
  <2>2. b \in Busy' <=> \/ b \in DOMAIN ref \/ b \in lost
                        \/ \E u \in Thread : doing'[u] # "nothing" /\ hand'[u] = b
    BY <1>3 DEF Busy, InHand
  <2>3. /\ hand[t] \notin DOMAIN ref \cup lost
        /\ \A u \in Thread \ {t} : doing[u] # "nothing" => hand[t] # hand[u]
    BY <1>1, <1>3 DEF OneOwner
  <2>4. (\E u \in Thread : doing'[u] # "nothing" /\ hand'[u] = b) =>
           \E u \in Thread \ {t} : doing[u] # "nothing" /\ hand[u] = b
    BY <1>4
  <2>5. (\E u \in Thread : doing[u] # "nothing" /\ hand[u] = b) =>
           \/ b = hand[t]
           \/ \E u \in Thread : doing'[u] # "nothing" /\ hand'[u] = b
    BY <1>4
  <2> QED
    BY <2>1, <2>2, <2>3, <2>4, <2>5
<1>8. Busy' = Busy \ {hand[t]}
  BY <1>7
<1> QED
  BY <1>2, <1>5, <1>6, <1>8 DEF Owners, Moved

(***************************************************************************)
(* The inductive invariant and its consequences.                           *)
(***************************************************************************)

\* A new pool is one free block.
LEMMA PoolInit == Init => PoolInv
<1> SUFFICES ASSUME Init PROVE PoolInv
  OBVIOUS
<1>1. PICK b \in Block : /\ b = [start |-> PoolStart, size |-> PoolSize]
                         /\ b.start = PoolStart /\ b.size = PoolSize
  <2>1. [start |-> PoolStart, size |-> PoolSize] \in Block
    BY PoolFacts DEF Block
  <2> QED
    BY <2>1
<1>2. /\ free_list \in Seq(Block) /\ Ordered(free_list)
      /\ \A a : a \in Cover(free_list) <=> a \in Bytes(b)
  <2>1. free_list = <<b>> /\ b.size > 0
    BY <1>1, PoolFacts DEF Init
  <2> QED
    BY <2>1, Single
<1>3. /\ ref = [c \in {} |-> 0] /\ lost = {} /\ hand = [t \in Thread |-> NoBlock]
      /\ doing = [t \in Thread |-> "nothing"]
  BY DEF Init
<1>4. DOMAIN ref = {} /\ \A t \in Thread : doing[t] = "nothing"
  BY <1>3
<1>5. TypeOK
  <2>1. NoBlock \in Block
    BY DEF NoBlock, Block
  <2> QED
    BY <1>2, <1>3, <1>4, <2>1 DEF TypeOK
<1>6. Busy = {}
  BY <1>3, <1>4 DEF Busy, InHand
<1>7. OneOwner /\ Disjoint
  BY <1>3, <1>4, <1>6 DEF OneOwner, Disjoint
<1>8. Complete
  <2>0. b.start = PoolStart /\ End(b) = PoolStart + PoolSize
    <3>1. b.start = PoolStart /\ b.size = PoolSize
      BY <1>1
    <3> QED
      BY <3>1, Zenon DEF End
  <2>1. \A a \in Int : a \in Bytes(b) <=> b.start <= a /\ a < End(b)
    BY BlockFacts
  <2>2. \A a \in Int : a \in PoolStart .. PoolStart + PoolSize - 1 <=> a \in Bytes(b)
    BY <2>0, <2>1, PoolFacts
  <2> QED
    BY <1>2, <1>6, <2>2 DEF Complete
<1> QED
  BY <1>2, <1>5, <1>7, <1>8 DEF PoolInv, ListInOrder

\* What a step of a thread does, whichever it is.
LEMMA PoolMoves ==
  ASSUME PoolInv, [Next]_vars
  PROVE  Owners' /\ Moved
<1>0. /\ TypeOK /\ OneOwner /\ free_list \in Seq(Block) /\ Ordered(free_list)
  BY DEF PoolInv, TypeOK, ListInOrder
<1>1. ASSUME NEW t \in Thread, NEW n \in Size, NEW a \in Align, Fallback(t, n, a)
      PROVE  Owners' /\ Moved
  <2>1. /\ free_list' = free_list /\ ref' = ref /\ hand' = hand
        /\ doing' = doing /\ lost' = lost
    BY <1>1 DEF Fallback
  <2> QED
    BY <1>0, <2>1 DEF Owners, Moved, TypeOK, OneOwner, Busy, InHand
<1>2. CASE UNCHANGED vars
  <2>1. /\ free_list' = free_list /\ ref' = ref /\ hand' = hand
        /\ doing' = doing /\ lost' = lost
    BY <1>2 DEF vars
  <2> QED
    BY <1>0, <2>1 DEF Owners, Moved, TypeOK, OneOwner, Busy, InHand
<1> QED
  BY <1>1, <1>2, CarveStep, DescribeStep, GetStep, PutStep, FreeStep DEF Next

\* The invariant under every step of the allocator.
LEMMA PoolStep == PoolInv /\ [Next]_vars => PoolInv'
<1> SUFFICES ASSUME PoolInv, [Next]_vars PROVE PoolInv'
  OBVIOUS
<1>1. Owners' /\ Moved
  BY PoolMoves
<1>2. Disjoint' /\ Complete'
  BY <1>1, MovedKeeps
<1>3. ListInOrder'
  BY <1>1 DEF Moved, ListInOrder
<1> QED
  BY <1>1, <1>2, <1>3 DEF Owners, PoolInv

\* The strengthened invariant of the allocator holds.
THEOREM PoolCorrect == Spec => []PoolInv
  BY PoolInit, PoolStep, PTL DEF Spec

\* Reference counts stay positive and the free list a list of blocks,
\* whatever the threads allocate, share and release.
THEOREM PoolTyped == Spec => []TypeOK
<1>1. PoolInv => TypeOK
  BY DEF PoolInv
<1> QED
  BY <1>1, PoolCorrect, PTL

\* The walks of xrp_private_alloc and xrp_private_free keep the free list
\* sorted by address and never leave two blocks that touch.
THEOREM ListCoalesced == Spec => []ListInOrder
<1>1. PoolInv => ListInOrder
  BY DEF PoolInv
<1> QED
  BY <1>1, PoolCorrect, PTL

\* The invariant says of addresses what Accounted says of blocks.
LEMMA PoolAccounted == PoolInv => Accounted
<1> SUFFICES ASSUME PoolInv PROVE Accounted
  OBVIOUS
<1>1. /\ TypeOK /\ OneOwner /\ Disjoint /\ Complete
      /\ free_list \in Seq(Block) /\ Ordered(free_list)
  BY DEF PoolInv, TypeOK, ListInOrder
<1>2. \A b : b \in Listed <=> \E i \in 1 .. Len(free_list) : b = free_list[i]
  BY <1>1 DEF Listed
<1>3. \A a : a \in Cover(free_list) <=>
               \E i \in 1 .. Len(free_list) : a \in Bytes(free_list[i])
  BY <1>1, CoverFacts
<1>4. /\ Busy \subseteq Block
      /\ \A b : b \in Busy <=>
           \/ b \in DOMAIN ref \/ b \in lost
           \/ \E t \in Thread : doing[t] # "nothing" /\ hand[t] = b
  BY <1>1, BusyFacts
<1>5. \A b \in Listed : Bytes(b) \subseteq Cover(free_list)
  BY <1>2, <1>3
<1>6. \A b \in Busy : b.start \in Bytes(b)
  BY <1>1, <1>4 DEF Disjoint, Block, Bytes, End
<1>7. Listed \cap Busy = {}
  BY <1>1, <1>5, <1>6 DEF Disjoint
<1>8. /\ Listed \cap DOMAIN ref = {} /\ InHand \cap (Listed \cup DOMAIN ref) = {}
  <2>1. InHand \cap DOMAIN ref = {}
    BY <1>1 DEF InHand, OneOwner
  <2> QED
    BY <1>7, <2>1 DEF Busy
<1>9. ASSUME NEW b \in Listed \cup Busy, NEW c \in Listed \cup Busy, b # c
      PROVE  Bytes(b) \cap Bytes(c) = {}
  <2>1. CASE b \in Listed /\ c \in Listed
    <3>1. PICK i \in 1 .. Len(free_list), j \in 1 .. Len(free_list) :
            b = free_list[i] /\ c = free_list[j] /\ i # j
      BY <1>2, <1>9, <2>1
    <3> QED
      BY <1>1, <3>1, OneBlock
  <2>2. CASE b \in Busy /\ c \in Busy
    BY <1>1, <1>9, <2>2 DEF Disjoint
  <2>3. CASE b \in Listed /\ c \in Busy
    BY <1>1, <1>5, <2>3 DEF Disjoint
  <2>4. CASE b \in Busy /\ c \in Listed
    BY <1>1, <1>5, <2>4 DEF Disjoint
  <2> QED
    BY <2>1, <2>2, <2>3, <2>4
<1>10. UNION {Bytes(b) : b \in Listed \cup Busy} = PoolStart .. PoolStart + PoolSize - 1
  <2>1. \A a : a \in UNION {Bytes(b) : b \in Listed \cup Busy} <=>
                 a \in Cover(free_list) \/ \E b \in Busy : a \in Bytes(b)
    BY <1>2, <1>3
  <2>2. \A b \in Listed \cup Busy : Bytes(b) \subseteq Int
    BY DEF Bytes
  <2>3. UNION {Bytes(b) : b \in Listed \cup Busy} \subseteq Int
    BY <2>2
  <2>4. PoolStart .. PoolStart + PoolSize - 1 \subseteq Int
    OBVIOUS
  <2> QED
    BY <1>1, <2>1, <2>3, <2>4 DEF Complete
<1>11. Listed \cup DOMAIN ref \cup InHand \cup lost = Listed \cup Busy
  BY DEF Busy
<1> QED
  BY <1>8, <1>9, <1>10, <1>11, Zenon DEF Accounted

\* No byte of the pool has two owners and none is without one, except those
\* a failed kzalloc forgets: for any number of threads and requests.
THEOREM MemoryAccounted == Spec => []Accounted
  BY PoolAccounted, PoolCorrect, PTL

(***************************************************************************)
(* The pool implements XrpPages.                                           *)
(***************************************************************************)

\* The abstract allocator's free addresses are what the list covers.
LEMMA FreeIsCover ==
  ASSUME NEW list \in Seq(Block)
  PROVE  UNION {Bytes(b) : b \in {list[i] : i \in DOMAIN list}} = Cover(list)
  BY DEF Cover

\* A run of free addresses lies in one block, since blocks never touch.
LEMMA RunInBlock ==
  ASSUME NEW list \in Seq(Block), Ordered(list), NEW s \in Nat, NEW n \in Nat,
         n > 0, s .. s + n - 1 \subseteq Cover(list)
  PROVE  \E j \in 1 .. Len(list) : list[j].start <= s /\ s + n <= End(list[j])
<1>1. \A a : a \in Cover(list) <=> \E j \in 1 .. Len(list) : a \in Bytes(list[j])
  BY CoverFacts
<1>2. ASSUME NEW j \in 1 .. Len(list)
      PROVE  /\ list[j].start \in Nat /\ End(list[j]) \in Nat
             /\ list[j].start < End(list[j])
             /\ \A a \in Int : a \in Bytes(list[j]) <=> list[j].start <= a /\ a < End(list[j])
  <2>1. list[j] \in Block /\ list[j].size > 0
    BY DEF Ordered
  <2> QED
    BY SMTT(30), <2>1, BlockFacts DEF End
<1>3. PICK j \in 1 .. Len(list) : list[j].start <= s /\ s < End(list[j])
  <2>1. s \in s .. s + n - 1
    OBVIOUS
  <2>2. PICK j \in 1 .. Len(list) : s \in Bytes(list[j])
    BY <1>1, <2>1
  <2> QED
    BY <1>2, <2>2
<1>4. s + n <= End(list[j])
  <2> SUFFICES ASSUME End(list[j]) < s + n PROVE FALSE
    BY <1>2
  <2>1. End(list[j]) \in s .. s + n - 1
    BY <1>2, <1>3
  <2>2. PICK k \in 1 .. Len(list) :
          list[k].start <= End(list[j]) /\ End(list[j]) < End(list[k])
    <3>1. PICK k \in 1 .. Len(list) : End(list[j]) \in Bytes(list[k])
      BY <1>1, <2>1
    <3> QED
      BY <1>2, <3>1
  <2>3. CASE j < k
    <3>1. End(list[j]) < list[k].start
      BY <2>3 DEF Ordered
    <3> QED
      BY <1>2, <2>2, <3>1
  <2>4. CASE k < j
    <3>1. End(list[k]) < list[j].start
      BY <2>4 DEF Ordered
    <3> QED
      BY <1>2, <2>2, <3>1
  <2>5. CASE k = j
    BY <1>2, <2>2, <2>5
  <2> QED
    BY <2>3, <2>4, <2>5
<1> QED
  BY <1>3, <1>4

\* A request that the pool turns away has no aligned run of free addresses.
LEMMA FallbackRefuses ==
  ASSUME PoolInv, NEW t \in Thread, NEW n \in Size, NEW a \in Align,
         Fallback(t, n, a),
         NEW s \in Nat, s % Alignment(a) = 0
  PROVE  ~(s .. s + Rounded(n) - 1 \subseteq Cover(free_list))
<1>1. free_list \in Seq(Block) /\ Ordered(free_list)
  BY DEF PoolInv, TypeOK, ListInOrder
<1>2. PICK size \in Nat : size = Rounded(n) /\ size > 0
  <2>1. n # 0
    BY DEF Fallback
  <2> QED
    BY <2>1, RoundedFacts
<1>3. PICK align \in Nat \ {0} : align = Alignment(a)
  BY AlignmentFacts
<1>4. PICK i : i = SelectInSeq(free_list, LAMBDA c : Fits(c, size, align))
  OBVIOUS
<1>5. i = 0
  BY <1>2, <1>3, <1>4 DEF Fallback
<1>6. \A j \in 1 .. Len(free_list) : ~Fits(free_list[j], size, align)
  <2>1. PICK I : I = {j \in 1 .. Len(free_list) : Fits(free_list[j], size, align)}
    OBVIOUS
  <2>2. i = IF I # {} THEN Min(I) ELSE 0
    BY <1>4, <2>1 DEF SelectInSeq
  <2>3. (i = 0 /\ I = {}) \/ (i \in 1 .. Len(free_list) /\ i \in I)
    <3>1. Len(free_list) \in Nat
      BY <1>1
    <3>2. I \subseteq 1 .. Len(free_list)
      BY <2>1
    <3> QED
      BY <2>2, <3>1, <3>2, FirstFit
  <2> QED
    BY <1>5, <2>1, <2>3
<1> SUFFICES ASSUME s .. s + size - 1 \subseteq Cover(free_list) PROVE FALSE
  BY <1>2
<1>7. PICK j \in 1 .. Len(free_list) :
        free_list[j].start <= s /\ s + size <= End(free_list[j])
  BY <1>1, <1>2, RunInBlock
<1>8. PICK b \in Block : b = free_list[j]
  BY <1>1
<1>9. b.start \in Nat /\ b.size \in Nat /\ End(b) = b.start + b.size
  BY DEF Block, End
<1>10. AlignUp(b.start, align) \in Nat /\ AlignUp(b.start, align) <= s
  BY <1>3, <1>7, <1>8, <1>9, AlignUpFacts, AlignUpLeast
<1>11. AlignUp(b.start, align) - b.start + size <= b.size
  BY <1>7, <1>8, <1>9, <1>10
<1>12. Fits(b, size, align)
  BY <1>11 DEF Fits
<1> QED
  BY <1>6, <1>8, <1>12

\* Every step of the walk is a step of the abstract allocator or a stutter.
LEMMA PagesStep == PoolInv /\ [Next]_vars => [Pages!Next]_(Pages!vars)
<1> SUFFICES ASSUME PoolInv, [Next]_vars
             PROVE  [Pages!Next]_(Pages!vars)
  OBVIOUS
<1> DEFINE free == UNION {Bytes(b) : b \in Listed}
<1>1. free_list \in Seq(Block) /\ free_list' \in Seq(Block)
  BY PoolMoves DEF PoolInv, TypeOK, Moved
<1>2. free = Cover(free_list)
  BY <1>1, FreeIsCover DEF Listed
<1>3. free' = Cover(free_list')
  <2>1. UNION {Bytes(b) : b \in {free_list'[i] : i \in DOMAIN free_list'}}
          = Cover(free_list')
    BY <1>1, FreeIsCover
  <2> QED
    BY <2>1 DEF Listed
<1> HIDE DEF free
<1>4. ASSUME NEW t \in Thread, NEW n \in Size, NEW a \in Align, Carve(t, n, a)
      PROVE  Pages!Next
  <2>1. PICK x \in Block :
          /\ x.size > 0 /\ x.start % Alignment(a) = 0
          /\ answer' = [size |-> x.size, align |-> Alignment(a), start |-> x.start]
          /\ Bytes(x) \subseteq Cover(free_list)
          /\ Cover(free_list') = Cover(free_list) \ Bytes(x)
    BY <1>4, CarveTakes
  <2>2. /\ answer'.size = x.size /\ answer'.align = Alignment(a)
        /\ answer'.start = x.start
    BY <2>1
  <2>3. Pages!Run(x.start, x.size) = Bytes(x) /\ x.start \in Bytes(x)
    BY <2>1 DEF Pages!Run, Bytes, End, Block
  <2>4. x.start \in Pages!Places(x.size, Alignment(a))
    BY <1>2, <2>1, <2>3 DEF Pages!Places, free
  <2>5. Pages!Grant(x.size, Alignment(a), x.start)
    BY <1>2, <1>3, <2>1, <2>3, <2>4 DEF Pages!Grant, free
  <2> QED
    BY <2>2, <2>5 DEF Pages!Next
<1>5. ASSUME NEW t \in Thread, NEW n \in Size, NEW a \in Align, Fallback(t, n, a)
      PROVE  Pages!Next
  <2>1. /\ answer' = [size |-> Rounded(n), align |-> Alignment(a), start |-> -1]
        /\ free_list' = free_list
    BY <1>5 DEF Fallback
  <2>2. Pages!Places(Rounded(n), Alignment(a)) = {}
    <3> SUFFICES ASSUME NEW s \in free, s % Alignment(a) = 0,
                        s .. s + Rounded(n) - 1 \subseteq free
                 PROVE  FALSE
      BY DEF Pages!Places, Pages!Run, free
    <3>1. s \in Nat
      <4>1. PICK j \in 1 .. Len(free_list) : s \in Bytes(free_list[j])
        BY <1>1, <1>2, CoverFacts
      <4> QED
        BY <1>1, <4>1, BlockFacts
    <3> QED
      BY <1>2, <1>5, <3>1, FallbackRefuses
  <2>3. answer'.size = Rounded(n) /\ answer'.align = Alignment(a)
    BY <2>1
  <2>4. Pages!Refuse(Rounded(n), Alignment(a))
    BY <1>2, <1>3, <2>1, <2>2 DEF Pages!Refuse, free
  <2> QED
    BY <2>3, <2>4 DEF Pages!Next
<1>6. ASSUME NEW t \in Thread, Free(t)
      PROVE  Pages!Next
  <2>1. free \subseteq free' /\ answer' = answer
    BY <1>2, <1>3, <1>6, FreeGives DEF Free
  <2> QED
    BY <2>1 DEF Pages!Next, Pages!Return, free
<1>7. ASSUME free_list' = free_list, answer' = answer
      PROVE  UNCHANGED Pages!vars
  BY <1>2, <1>3, <1>7 DEF Pages!vars, free
<1>8. ASSUME NEW t \in Thread, Describe(t)
      PROVE  UNCHANGED Pages!vars
  BY <1>7, <1>8 DEF Describe
<1>9. ASSUME NEW t \in Thread, NEW b \in DOMAIN ref, Get(b) \/ Put(t, b)
      PROVE  UNCHANGED Pages!vars
  BY <1>7, <1>9 DEF Get, Put
<1>10. CASE UNCHANGED vars
  BY <1>7, <1>10 DEF vars
<1> QED
  BY <1>4, <1>5, <1>6, <1>8, <1>9, <1>10 DEF Next

\* The sorted list with its splits and joins implements the promise of
\* xrp_allocate: an aligned run of free bytes of the rounded size, and the
\* page allocator only when the pool has no such run.
THEOREM PoolImplementsPages == Spec => ImplementsPages
<1>1. Init => Pages!Init
  BY DEF Init, Pages!Init
<1>2. PoolInv /\ [Next]_vars => [Pages!Next]_(Pages!vars)
  BY PagesStep
<1> QED
  BY <1>1, <1>2, PoolCorrect, PTL DEF Spec, ImplementsPages, Pages!Spec
=============================================================================
