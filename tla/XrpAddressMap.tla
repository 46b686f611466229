---------------------------- MODULE XrpAddressMap ----------------------------
(***************************************************************************)
(* Translation between host and DSP physical addresses                     *)
(* (driver/xrp-kernel/xrp_address_map.c): a table of ranges sorted by host *)
(* address, searched by bisection one way and in order the other way.      *)
(* Host addresses are wide; DSP addresses and sizes are words below Word   *)
(* (2^32 in the code) and wrap.                                            *)
(***************************************************************************)
EXTENDS Integers, Sequences, SequencesExt

CONSTANT Word

ASSUME WordAssumption == Word \in Nat \ {0}

Entry == [src_addr : Nat, dst_addr : 0 .. Word - 1, size : 0 .. Word - 1]

NoTranslation == Word - 1   \* XRP_NO_TRANSLATION
BadAddr       == -1         \* OF_BAD_ADDR

\* xrp_compare_address_sort(a, b) < 0; overlapping ranges compare equal.
SortsBefore(a, b) ==
  a.src_addr < b.src_addr /\ b.src_addr - a.src_addr >= a.size

\* xrp_init_address_map: the "ranges" of the device tree, sorted; without
\* them one range that maps the first addresses to themselves.
InitAddressMap(ranges) ==
  IF ranges = <<>>
  THEN <<[src_addr |-> 0, dst_addr |-> 0, size |-> Word - 1]>>
  ELSE SortSeq(ranges, SortsBefore)

\* xrp_compare_address
CompareAddress(addr, entry) ==
  IF addr < entry.src_addr THEN -1
  ELSE IF addr - entry.src_addr < entry.size THEN 0 ELSE 1

\* The parts of a table of n entries: the entry before the first, and how many.
Windows(n) == {w \in (0 .. n) \X (0 .. n) : w[1] + w[2] <= n}

\* One turn of bsearch: the entry in the middle of the window w, or what look
\* says of the upper or the lower half.
Probe(look, map, addr, w) ==
  LET pivot == w[1] + w[2] \div 2 + 1
      cmp   == CompareAddress(addr, map[pivot])
  IN IF w[2] = 0 THEN 0
     ELSE IF cmp = 0 THEN pivot
     ELSE IF cmp > 0 THEN look[<<pivot, (w[2] - 1) \div 2>>]
     ELSE look[<<w[1], w[2] \div 2>>]

\* bsearch: the index in map of the entry that holds addr, or zero.
Bsearch(map, addr) ==
  LET look[w \in Windows(Len(map))] == Probe(look, map, addr, w)
  IN look[<<0, Len(map)>>]

\* xrp_translate_to_dsp
TranslateToDsp(map, addr) ==
  LET i == Bsearch(map, addr)
  IN IF i = 0 THEN NoTranslation
     ELSE (map[i].dst_addr + addr - map[i].src_addr) % Word

\* The condition of the loop in xrp_translate_dsp_to_host: the end of a range
\* is a word, too.
HoldsDspAddress(entry, addr) ==
  entry.dst_addr <= addr /\ (entry.dst_addr + entry.size) % Word > addr

\* xrp_translate_dsp_to_host
TranslateToHost(map, addr) ==
  LET i == SelectInSeq(map, LAMBDA e : HoldsDspAddress(e, addr))
  IN IF i = 0 THEN BadAddr ELSE map[i].src_addr + addr - map[i].dst_addr

\* All of a non-empty sequence of addresses lie in the entry of the first one.
InOneEntry(map, addrs) ==
  LET i == Bsearch(map, addrs[1])
  IN i # 0 /\ \A k \in DOMAIN addrs : CompareAddress(addrs[k], map[i]) = 0
=============================================================================
