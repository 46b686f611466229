------------------------------ MODULE XrpCommand ------------------------------
(***************************************************************************)
(* What a synchronous command promises its caller (xrp_run_command_sync in *)
(* driver/xrp-user/include/xrp_api.h): the DSP runs a submitted command at *)
(* most once, and the call succeeds only with the response of that run.    *)
(* Queues, mutexes and reboots do not appear here.                         *)
(***************************************************************************)
CONSTANT Client

VARIABLES
  phase,   \* where the command of each client stands
  result   \* what the last call of each client returned

vars == <<phase, result>>

Phase  == {"idle", "pending", "executing", "answered", "failed"}
Result == {"none", "ok", "error"}

Init ==
  /\ phase  = [t \in Client |-> "idle"]
  /\ result = [t \in Client |-> "none"]

Move(t, from, to) ==
  /\ phase[t] \in from
  /\ phase' = [phase EXCEPT ![t] = to]

Call(t) ==
  /\ Move(t, {"idle"}, "pending")
  /\ result' = [result EXCEPT ![t] = "none"]

\* The DSP starts to work on the command: only once, and only while the
\* caller waits for it.
Execute(t) == Move(t, {"pending"}, "executing") /\ UNCHANGED result

Answer(t) == Move(t, {"executing"}, "answered") /\ UNCHANGED result

\* The caller stops waiting.
GiveUp(t) == Move(t, {"pending", "executing"}, "failed") /\ UNCHANGED result

Succeed(t) ==
  /\ Move(t, {"answered"}, "idle")
  /\ result' = [result EXCEPT ![t] = "ok"]

\* The call returns an error; an answered one may, when the DSP reports that
\* it could not deliver the command to a handler.
Fail(t) ==
  /\ Move(t, {"pending", "answered", "failed"}, "idle")
  /\ result' = [result EXCEPT ![t] = "error"]

Next ==
  \E t \in Client :
    Call(t) \/ Execute(t) \/ Answer(t) \/ GiveUp(t) \/ Succeed(t) \/ Fail(t)

Spec == Init /\ [][Next]_vars
=============================================================================
