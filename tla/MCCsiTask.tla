----------------------------- MODULE MCCsiTask -----------------------------
(***************************************************************************)
(* Three sizes: two threads with two requests that carry no buffers, two   *)
(* threads with one request and one block of memory, and one thread with   *)
(* one request and enough memory for all the buffers a call can need.      *)
(***************************************************************************)
EXTENDS CsiTask
CONSTANTS t1, t2, r1, r2

MCGroup == Request \cup {TaskGroup, CallGroup}
MCSizes == {[threads |-> {t1, t2}, requests |-> {r1, r2}, memory |-> {}],
            [threads |-> {t1, t2}, requests |-> {r1}, memory |-> {1}],
            [threads |-> {t1}, requests |-> {r1}, memory |-> {1, 2, 3}]}
=============================================================================
