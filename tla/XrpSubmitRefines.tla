--------------------------- MODULE XrpSubmitRefines ---------------------------
(***************************************************************************)
(* The command path of the driver implements the synchronous command of    *)
(* XrpCommand.                                                             *)
(***************************************************************************)
EXTENDS XrpSubmit

\* Where the command of client t stands, read off the driver's state.
PhaseOf(t) ==
  LET q == queue[t]
      Replied  == CmdComplete(q) /\ reply[q] = CmdOf(t)
      Executed == work[q] = CmdOf(t)
      Answered == ret[t] \in {"OK", "ENXIO"}
  IN
  CASE pc[t] = "idle" -> "idle"
    [] pc[t] = "wait" -> IF Replied THEN "answered"
                         ELSE IF Executed THEN "executing" ELSE "pending"
    [] pc[t] = "collect" -> "answered"
    [] pc[t] \in {"unlock", "unmap"} -> IF Answered THEN "answered" ELSE "failed"
    [] pc[t] \in {"count"} \cup Rebooting -> "failed"
    [] OTHER -> "pending"

ResultOf(t) ==
  IF pc[t] # "idle" \/ ret[t] = "none" THEN "none"
  ELSE IF ret[t] = "OK" THEN "ok" ELSE "error"

Command == INSTANCE XrpCommand WITH
  phase  <- [t \in Client |-> PhaseOf(t)],
  result <- [t \in Client |-> ResultOf(t)]

\* A submission succeeds only with the response of the one run of its own
\* command (xrp_ioctl_submit_sync against the promise of
\* xrp_run_command_sync), in spite of timeouts and reboots.
ImplementsCommand == Command!Spec
=============================================================================
