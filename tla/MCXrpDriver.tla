----------------------------- MODULE MCXrpDriver -----------------------------
(***************************************************************************)
(* One scope for each question: the power management with two files, with  *)
(* and without runtime power management; the interrupt with one channel    *)
(* and commands, before and after the end of the probe; two processes that *)
(* both create a channel; processes that are killed; reports under two     *)
(* numbers that differ after they are cut and under two that do not; two   *)
(* processes that import the same dma-bufs.                                *)
(***************************************************************************)
EXTENDS XrpDriver
CONSTANTS b1, b2

Base == [files |-> {}, early |-> FALSE, rpm |-> TRUE, odd |-> 0,
         commands |-> FALSE, kills |-> FALSE, creates |-> 0, ids |-> {},
         dma |-> {}]

One(s) == {[s EXCEPT !.files = {f}] : f \in File}
Two(s) == {[s EXCEPT !.files = File]}

MCScopes ==
  UNION {
    Two([Base EXCEPT !.early = TRUE, !.odd = 2, !.commands = TRUE]),
    Two([Base EXCEPT !.early = TRUE, !.odd = 2, !.commands = TRUE, !.rpm = FALSE]),
    One([Base EXCEPT !.early = TRUE, !.commands = TRUE, !.creates = 1, !.ids = {1}]),
    Two([Base EXCEPT !.creates = 2, !.ids = {1}]),
    One([Base EXCEPT !.kills = TRUE, !.creates = 2, !.ids = {1}]),
    One([Base EXCEPT !.creates = 1, !.ids = {1, 2}]),
    One([Base EXCEPT !.creates = 1, !.ids = {1, 5}]),
    Two([Base EXCEPT !.early = TRUE, !.dma = {b1}]),
    Two([Base EXCEPT !.dma = {b1, b2}])}

Symmetry == Permutations(File) \cup Permutations(Reporter)
=============================================================================
