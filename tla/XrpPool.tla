-------------------------------- MODULE XrpPool --------------------------------
(***************************************************************************)
(* The private pool of device memory (driver/xrp-kernel/xrp_alloc.c): a    *)
(* first-fit allocator with a list of free blocks sorted by address, under *)
(* one mutex, and reference-counted allocations.  Addresses and sizes are  *)
(* in bytes.                                                               *)
(*                                                                         *)
(* One walk over the list under free_list_lock is one step.  What a thread *)
(* does with a block outside the lock is a step of its own: the second     *)
(* kzalloc after a split, and the call of xrp_private_free after the last  *)
(* reference was dropped.  Bad arguments and a first kzalloc that fails     *)
(* change nothing and are left out.                                        *)
(***************************************************************************)
EXTENDS Integers, Sequences, FiniteSets, SequencesExt

CONSTANTS
  Thread,       \* threads that allocate and release
  PageSize,
  Modulus,      \* sizes are unsigned numbers below this (2^32 in the code)
  PoolStart, PoolSize,
  Size, Align,  \* arguments callers pass
  MaxRef        \* bound: references to one block

ASSUME PoolAssumption ==
  /\ PageSize \in Nat \ {0}
  /\ PoolStart \in Nat /\ PoolSize \in Nat \ {0}
  /\ PoolStart % PageSize = 0 /\ PoolSize % PageSize = 0

\* Sizes that do not wrap to zero when rounded up to pages.
ASSUME SizeAssumption ==
  /\ Modulus \in Nat /\ PageSize <= Modulus
  /\ Size \subseteq 0 .. Modulus - PageSize

ASSUME ArgumentAssumption == Align \subseteq Nat /\ MaxRef \in Nat \ {0}

VARIABLES
  free_list,  \* the free blocks, in list order
  ref,        \* reference count of each allocated block
  hand,       \* the block a thread holds outside the lock, not counted in ref
  doing,      \* what it is about to do with it
  lost,       \* blocks carved out of the list and then forgotten
  answer      \* history: the last decision of the walk

vars == <<free_list, ref, hand, doing, lost, answer>>

Block   == [start : Nat, size : Nat]
NoBlock == [start |-> 0, size |-> 0]

End(b)   == b.start + b.size
Bytes(b) == b.start .. End(b) - 1

\* xrp_init_private_pool: one free block.
Init ==
  /\ free_list = <<[start |-> PoolStart, size |-> PoolSize]>>
  /\ ref = [b \in {} |-> 0]
  /\ hand  = [t \in Thread |-> NoBlock]
  /\ doing = [t \in Thread |-> "nothing"]
  /\ lost = {}
  /\ answer = [size |-> 0, align |-> 1, start |-> -1]

-----------------------------------------------------------------------------
(* Arithmetic.                                                             *)

AlignDown(v, a) == v - (v % a)

\* ALIGN(v, a) for an address: no overflow.
AlignUp(v, a) == AlignDown(v + a - 1, a)

\* ALIGN(size, PAGE_SIZE) in 32 bits.
Rounded(n) == AlignDown((n + PageSize - 1) % Modulus, PageSize)

\* ALIGN(align, PAGE_SIZE), with zero standing for one.
Alignment(a) == IF a <= PageSize THEN PageSize ELSE AlignUp(a, PageSize)

\* !(align & (align - 1))
PowerOfTwoOrZero(a) == a = 0 \/ \E k \in 0 .. a : a = 2 ^ k

-----------------------------------------------------------------------------
(* The free list.                                                          *)

\* Variant: a block that fits exactly is passed over.
FitsLoosely(b, n, a) ==
  LET s == AlignUp(b.start, a) IN s - b.start + n < b.size

\* The condition of the first-fit walk.
Fits(b, n, a) ==
  LET s == AlignUp(b.start, a) IN s - b.start + n <= b.size

Nonempty(b) == IF b.size = 0 THEN <<>> ELSE <<b>>

\* Variant: the tail keeps its size when the head is cut at an aligned start.
RemainderMisaligned(b, s, n) ==
  Nonempty([start |-> b.start, size |-> s - b.start])
    \o Nonempty([start |-> s + n, size |-> b.size - n])

\* What is left of block b when n bytes at s are taken out: nothing, its
\* head, its tail or both.
Remainder(b, s, n) ==
  Nonempty([start |-> b.start, size |-> s - b.start])
    \o Nonempty([start |-> s + n, size |-> End(b) - (s + n)])

\* Element i of a list replaced by a list.
Splice(list, i, new) ==
  SubSeq(list, 1, i - 1) \o new \o SubSeq(list, i + 1, Len(list))

\* Variant: only the block before the freed one is looked at.
InsertedNoNext(list, x) ==
  LET i == SelectInSeq(list, LAMBDA c : End(c) = x.start \/ x.start < c.start)
  IN IF i = 0 THEN list \o <<x>>
     ELSE IF End(list[i]) = x.start
     THEN Splice(list, i, <<[list[i] EXCEPT !.size = @ + x.size]>>)
     ELSE Splice(list, i, <<x, list[i]>>)

\* The walk of xrp_private_free: the freed block joins the block that ends
\* where it starts, and then perhaps the next one; or the block that starts
\* where it ends; or it is inserted before the first block above it.
Inserted(list, x) ==
  LET i == SelectInSeq(list, LAMBDA c : End(c) = x.start \/ x.start < c.start)
      c == list[i]
      joined == [c EXCEPT !.size = @ + x.size]
  IN IF i = 0 THEN list \o <<x>>
     ELSE IF End(c) = x.start
     THEN IF i < Len(list) /\ End(joined) = list[i + 1].start
          THEN Splice(Splice(list, i + 1, <<>>), i,
                      <<[joined EXCEPT !.size = @ + list[i + 1].size]>>)
          ELSE Splice(list, i, <<joined>>)
     ELSE IF End(x) = c.start
     THEN Splice(list, i, <<[start |-> x.start, size |-> c.size + x.size]>>)
     ELSE Splice(list, i, <<x, c>>)

-----------------------------------------------------------------------------
(* The threads.                                                            *)

Goto(t, from, to, b) ==
  /\ doing[t] = from
  /\ doing' = [doing EXCEPT ![t] = to]
  /\ hand' = [hand EXCEPT ![t] = b]

\* A new allocation starts with one reference.
Hold(b) == ref' = [c \in DOMAIN ref \cup {b} |-> IF c = b THEN 1 ELSE ref[c]]

\* The walk finds a block and carves the request out of it; when both ends of
\* the block remain, the descriptor went to one of them and the thread needs
\* another one.
Carve(t, n, a) ==
  LET size  == Rounded(n)
      align == Alignment(a)
      i == SelectInSeq(free_list, LAMBDA c : Fits(c, size, align))
      b == free_list[i]
      s == AlignUp(b.start, align)
      x == [start |-> s, size |-> size]
      left == Remainder(b, s, size)
  IN /\ n # 0 /\ PowerOfTwoOrZero(a)
     /\ i # 0
     /\ free_list' = Splice(free_list, i, left)
     /\ answer' = [size |-> size, align |-> align, start |-> s]
     /\ \/ /\ Len(left) < 2
           /\ doing[t] = "nothing"
           /\ Hold(x)
           /\ UNCHANGED <<hand, doing>>
        \/ /\ Len(left) = 2
           /\ Goto(t, "nothing", "describe", x)
           /\ UNCHANGED ref
     /\ UNCHANGED lost

\* The walk finds nothing: the page allocator is asked instead.
Fallback(t, n, a) ==
  LET size  == Rounded(n)
      align == Alignment(a)
  IN /\ doing[t] = "nothing"
     /\ n # 0 /\ PowerOfTwoOrZero(a)
     /\ SelectInSeq(free_list, LAMBDA c : Fits(c, size, align)) = 0
     /\ answer' = [size |-> size, align |-> align, start |-> -1]
     /\ UNCHANGED <<free_list, ref, hand, doing, lost>>

\* The second kzalloc: when it fails the carved block is forgotten.
Describe(t) ==
  /\ Goto(t, "describe", "nothing", NoBlock)
  /\ \/ Hold(hand[t]) /\ UNCHANGED lost
     \/ lost' = lost \cup {hand[t]} /\ UNCHANGED ref
  /\ UNCHANGED <<free_list, answer>>

\* xrp_allocation_get by somebody who has a reference.
Get(b) ==
  /\ ref[b] < MaxRef
  /\ ref' = [ref EXCEPT ![b] = @ + 1]
  /\ UNCHANGED <<free_list, hand, doing, lost, answer>>

\* Variant: the count is decremented and never compared with zero.
PutOnly(t, b) ==
  /\ doing[t] = "nothing"
  /\ ref' = [ref EXCEPT ![b] = @ - 1]
  /\ UNCHANGED <<free_list, hand, doing, lost, answer>>

\* xrp_allocation_put: the last reference makes the thread free the block.
Put(t, b) ==
  /\ \/ /\ ref[b] > 1
        /\ doing[t] = "nothing"
        /\ ref' = [ref EXCEPT ![b] = @ - 1]
        /\ UNCHANGED <<hand, doing>>
     \/ /\ ref[b] = 1
        /\ Goto(t, "nothing", "free", b)
        /\ ref' = [c \in DOMAIN ref \ {b} |-> ref[c]]
  /\ UNCHANGED <<free_list, lost, answer>>

\* xrp_private_free.
Free(t) ==
  /\ Goto(t, "free", "nothing", NoBlock)
  /\ free_list' = Inserted(free_list, hand[t])
  /\ UNCHANGED <<ref, lost, answer>>

Next ==
  \E t \in Thread :
    \/ \E n \in Size, a \in Align : Carve(t, n, a) \/ Fallback(t, n, a)
    \/ Describe(t) \/ Free(t)
    \/ \E b \in DOMAIN ref : Get(b) \/ Put(t, b)

Spec == Init /\ [][Next]_vars
-----------------------------------------------------------------------------
(* Properties.                                                             *)

Listed == {free_list[i] : i \in DOMAIN free_list}

\* The blocks in the hands of threads.
InHand == {hand[t] : t \in {u \in Thread : doing[u] # "nothing"}}

\* Every variable has its type; an allocated block has a reference.
TypeOK ==
  /\ free_list \in Seq(Block)
  /\ DOMAIN ref \subseteq Block
  /\ \A b \in DOMAIN ref : ref[b] \in 1 .. MaxRef
  /\ hand \in [Thread -> Block]
  /\ doing \in [Thread -> {"nothing", "describe", "free"}]
  /\ lost \subseteq Block

\* Blocks by address, with a gap between any two.
Ordered(list) ==
  /\ \A i \in DOMAIN list : list[i].size > 0
  /\ \A i, j \in DOMAIN list : i < j => End(list[i]) < list[j].start

\* The address order of the free list, without gaps of size zero between two
\* blocks: blocks that touch are always joined.
ListInOrder == Ordered(free_list)

\* Every byte of the pool belongs to exactly one block: on the list,
\* allocated, on its way between the two, or lost to a failed kzalloc.
Accounted ==
  LET all == Listed \cup DOMAIN ref \cup InHand \cup lost
  IN /\ Listed \cap DOMAIN ref = {} /\ InHand \cap (Listed \cup DOMAIN ref) = {}
     /\ \A b, c \in all : b # c => Bytes(b) \cap Bytes(c) = {}
     /\ UNION {Bytes(b) : b \in all} = PoolStart .. PoolStart + PoolSize - 1

Pages == INSTANCE XrpPages WITH
  free <- UNION {Bytes(b) : b \in Listed}

\* The list implements the promise of XrpPages: the pool grants an aligned
\* run of free bytes of the rounded size, and falls back on the page
\* allocator only when there is no such run.
ImplementsPages == Pages!Spec
-----------------------------------------------------------------------------
(* Strengthenings: what makes the properties inductive.                    *)

\* The addresses of the blocks on a list.
Cover(list) == UNION {Bytes(list[i]) : i \in DOMAIN list}

\* The blocks that are not on the free list.
Busy == DOMAIN ref \cup InHand \cup lost

\* No block has two owners: it is allocated, lost, or held by one thread.
OneOwner ==
  /\ DOMAIN ref \cap lost = {}
  /\ \A t \in Thread : doing[t] # "nothing" =>
       /\ hand[t] \notin DOMAIN ref \cup lost
       /\ \A u \in Thread \ {t} : doing[u] # "nothing" => hand[t] # hand[u]

\* Busy blocks share no address with each other or with the free list, and
\* together with it they are the pool.
Disjoint ==
  /\ \A b \in Busy : b.size > 0 /\ Bytes(b) \cap Cover(free_list) = {}
  /\ \A b, c \in Busy : b # c => Bytes(b) \cap Bytes(c) = {}

Complete ==
  \A a \in Int : a \in PoolStart .. PoolStart + PoolSize - 1 <=>
    a \in Cover(free_list) \/ \E b \in Busy : a \in Bytes(b)

PoolInv == TypeOK /\ ListInOrder /\ OneOwner /\ Disjoint /\ Complete
=============================================================================
