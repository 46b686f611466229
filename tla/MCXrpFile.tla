------------------------------ MODULE MCXrpFile ------------------------------
(***************************************************************************)
(* Two devices with one file each.  Block b1 is from the pool of d1; d2    *)
(* reaches its two pages through two different ranges, so that b1 as a     *)
(* whole is out of its reach.  Block b2 is from the page allocator and     *)
(* only d2 reaches it.  Of the two other areas the first is ordinary user  *)
(* memory, which d2 reaches, and the second belongs to another driver and  *)
(* d1 reaches it.                                                          *)
(* Of the array of descriptors d1 reaches the beginning and d2 nothing.    *)
(***************************************************************************)
EXTENDS XrpFile
CONSTANTS d1, d2, f1, f2, b1, b2

Row(s, d, n) == [src_addr |-> s, dst_addr |-> d, size |-> n]

MCDeviceOf == f1 :> d1 @@ f2 :> d2
MCPoolOf == b1 :> d1 @@ b2 :> Nil
MCPages == b1 :> <<1, 2>> @@ b2 :> <<6>>
MCKernelArray == {<<5, 6>>}
MCMap == d1 :> <<Row(0, 4, 6), Row(10, 1, 1)>>
      @@ d2 :> <<Row(1, 8, 1), Row(2, 1, 2), Row(6, 12, 1), Row(12, 14, 2)>>
MCArea == {[vmas |-> 1, io |-> FALSE, coherent |-> TRUE, pages |-> <<12, 13>>],
           [vmas |-> 1, io |-> TRUE, coherent |-> TRUE, pages |-> <<10>>]}
MCShape == {[in |-> TRUE, out |-> TRUE, n |-> 0], [in |-> FALSE, out |-> FALSE, n |-> 1],
            [in |-> FALSE, out |-> FALSE, n |-> 0]}
Symmetry == Permutations(Thread)

\* Device trees with up to three ranges, in any order, that do not overlap on
\* either side.
Trees ==
  {t \in UNION {[1 .. n -> [src_addr : {0, 2, 3, 5}, size : {1, 2}]] : n \in 1 .. 3} :
     \A i, j \in DOMAIN t :
       i # j => \/ t[i].src_addr + t[i].size <= t[j].src_addr
                \/ t[j].src_addr + t[j].size <= t[i].src_addr}

Ranges(t) == [i \in DOMAIN t |-> Row(t[i].src_addr, 3 * i - 1, t[i].size)]

\* The sorted table of xrp_init_address_map answers for each address what the
\* ranges of the device tree say, and the translation back is its inverse.
ASSUME TranslationExact ==
  \A t \in Trees : LET map == InitAddressMap(Ranges(t)) IN
    \A addr \in 0 .. 7 :
      LET holds == {i \in DOMAIN t : CompareAddress(addr, Ranges(t)[i]) = 0}
          dsp   == TranslateToDsp(map, addr)
      IN IF holds = {} THEN dsp = NoTranslation
         ELSE /\ \A i \in holds : dsp = 3 * i - 1 + addr - t[i].src_addr
              /\ TranslateToHost(map, dsp) = addr
=============================================================================
