---------------------------- MODULE XrpChannel ----------------------------
(* What a host queue promises its callers: "Queue is an ordered device      *)
(* communication channel" (xrp_api.h).  Commands reach the device one at a  *)
(* time, each once, in the order in which they were accepted; the outcome   *)
(* of a command is settled when it has run and never changes.               *)
EXTENDS Naturals, Sequences, SequencesExt

CONSTANTS Cmd,        \* the commands the callers may enqueue
          Outcome     \* how one may end

VARIABLES accepted,   \* the commands enqueued, in order
          ran,        \* the commands the device has executed, in order
          settled     \* what is known of the outcome of each command

Init == /\ accepted = <<>>
        /\ ran = <<>>
        /\ settled = [c \in Cmd |-> "UNKNOWN"]

Accept(c) == /\ c \notin ToSet(accepted)
             /\ accepted' = Append(accepted, c)
             /\ UNCHANGED <<ran, settled>>

Execute == /\ Len(ran) < Len(accepted)
           /\ ran' = Append(ran, accepted[Len(ran) + 1])
           /\ UNCHANGED <<accepted, settled>>

\* Only a command that has run, and all commands before it, gets an outcome.
Settle(c, s) == /\ c \in ToSet(ran)
                /\ settled[c] = "UNKNOWN"
                /\ settled' = [settled EXCEPT ![c] = s]
                /\ UNCHANGED <<accepted, ran>>

Next == \/ \E c \in Cmd : Accept(c) \/ \E s \in Outcome : Settle(c, s)
        \/ Execute

Spec == Init /\ [][Next]_<<accepted, ran, settled>>
=============================================================================
