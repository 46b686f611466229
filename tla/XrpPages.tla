------------------------------- MODULE XrpPages -------------------------------
(***************************************************************************)
(* What the allocator of device memory promises: a request is granted an   *)
(* aligned run of free addresses, and is turned away from the pool only    *)
(* when there is none.  How free memory is kept does not appear here.      *)
(***************************************************************************)
EXTENDS Integers

VARIABLES
  free,     \* the addresses of the pool nobody owns
  answer    \* the last decision: [size, align, start], start -1 when refused

vars == <<free, answer>>

Run(s, n) == s .. s + n - 1

\* The places where n free addresses start at a multiple of a.
Places(n, a) == {s \in free : s % a = 0 /\ Run(s, n) \subseteq free}

Init == answer = [size |-> 0, align |-> 1, start |-> -1]

Grant(n, a, s) ==
  /\ s \in Places(n, a)
  /\ free' = free \ Run(s, n)
  /\ answer' = [size |-> n, align |-> a, start |-> s]

Refuse(n, a) ==
  /\ Places(n, a) = {}
  /\ answer' = [size |-> n, align |-> a, start |-> -1]
  /\ UNCHANGED free

\* Memory comes back.
Return == free \subseteq free' /\ UNCHANGED answer

Next ==
  \/ LET r == answer' IN \/ Grant(r.size, r.align, r.start)
                         \/ Refuse(r.size, r.align)
  \/ Return

Spec == Init /\ [][Next]_vars
=============================================================================
