------------------------------ MODULE XrpDevice ------------------------------
(***************************************************************************)
(* The life of a device: probe and remove, power management and the files  *)
(* that hold the device awake (driver/xrp-kernel/xvp_main.c) on the board  *)
(* of driver/xrp-kernel/xrp_hw_simple.c.                                   *)
(*                                                                         *)
(* A device is probed once in a behaviour.  A call of the power            *)
(* management's callbacks is one step: the kernel runs them one at a time, *)
(* and resume holds the mutexes of all queues.  The clock counts are the   *)
(* references this driver has on the two clocks.                           *)
(***************************************************************************)
EXTENDS Integers, FiniteSets

CONSTANTS
  File,       \* files that may be opened on the device
  Nil,
  Scopes      \* bounds: what a behaviour may use of the device

\* A scope: the files a behaviour may open, and whether before the probe has
\* ended; whether the kernel has runtime power management; how often an open
\* may fail or find the device off; whether there are commands; whether processes
\* are killed; how many report channels are created, and the numbers of their
\* reports; the dma-bufs.
ASSUME ScopeAssumption ==
  \A s \in Scopes :
    /\ s.files \subseteq File /\ s.early \in BOOLEAN /\ s.rpm \in BOOLEAN
    /\ s.odd \in Nat /\ s.commands \in BOOLEAN /\ s.kills \in BOOLEAN
    /\ s.creates \in Nat

VARIABLES
  scope,     \* the scope of this behaviour
  stage,     \* how far the probe has come
  rpm,       \* CONFIG_PM
  off,       \* xvp->off
  clk,       \* enable counts of the clocks
  released,  \* the core is not stalled (XRP_REG_RUNSTALL)
  pm,        \* the power management's view of the device
  opened,    \* open files
  odd,       \* history: what the power management has missed
  wild       \* what has corrupted memory; after that anything may happen

deviceVars == <<scope, stage, rpm, off, clk, released, pm, opened, odd, wild>>

power == <<off, clk, released, pm, odd>>

Stage == {"none", "irq", "clocks", "regs", "queues", "awake", "node", "ready",
          "gone", "void"}
Clock == {"cclk", "pclk"}

\* What is left of a probe that failed and of a removed device is not followed;
\* "void" is a device that is bound though its probe has given up.
HasNode == stage \in {"node", "ready"}

DeviceInit ==
  /\ scope \in Scopes
  /\ stage = "none" /\ rpm = scope.rpm
  /\ off = FALSE /\ released = FALSE
  /\ clk = [c \in Clock |-> 0]
  /\ pm = [active |-> FALSE, usage |-> 0, error |-> FALSE]
  /\ opened = {}
  /\ odd = [hollow |-> 0, leaked |-> 0, stuck |-> 0]
  /\ wild = {}

-----------------------------------------------------------------------------
(* The callbacks.  An outcome is what a call may make of the state x.      *)

Power == [off |-> off, clk |-> clk, released |-> released, hollow |-> odd.hollow]

Clocked(x, n) == [x EXCEPT !.clk = [c \in Clock |-> @[c] + n]]

\* Variant: the core clock stays on when the bus clock fails.
EnableKeeps(x) ==
  {[ok |-> TRUE, x |-> Clocked(x, 1)], [ok |-> FALSE, x |-> x],
   [ok |-> FALSE, x |-> [x EXCEPT !.clk["cclk"] = @ + 1]]}

\* enable: cclk, then pclk; when pclk fails cclk is disabled again.
Enable(x) == {[ok |-> TRUE, x |-> Clocked(x, 1)], [ok |-> FALSE, x |-> x]}

\* disable
Disable(x) == Clocked(x, -1)

\* halt, and reset, which leaves the core stalled
Halt(x) == [x EXCEPT !.released = FALSE]

\* release
Release(x) == [x EXCEPT !.released = TRUE]

\* xrp_boot_firmware (see XrpSubmit): the core runs; or there is no firmware
\* and it stays halted; or it does not answer and the device goes off.
BootFirmware(x) ==
  {[ok |-> TRUE,  x |-> Release(x)],
   [ok |-> FALSE, x |-> Halt(x)],
   [ok |-> FALSE, x |-> [Halt(x) EXCEPT !.off = TRUE]]}

\* xrp_runtime_resume.  Of a device that is off it says that it is awake.
RuntimeResume(x) ==
  IF x.off THEN {[ok |-> TRUE, x |-> [x EXCEPT !.hollow = @ + 1]]}
  ELSE {e \in Enable(x) : ~e.ok}
       \cup UNION {{[ok |-> b.ok, x |-> IF b.ok THEN b.x ELSE Disable(b.x)]
                     : b \in BootFirmware(e.x)} : e \in {o \in Enable(x) : o.ok}}

\* xrp_runtime_suspend
RuntimeSuspend(x) == Disable(Halt(x))

SetPower(x) == off' = x.off /\ clk' = x.clk /\ released' = x.released

-----------------------------------------------------------------------------
(* The kernel's power management.                                          *)

\* pm_runtime_get_sync, which counts the caller also when it fails; a resume
\* that has failed once is not tried again.
Gets ==
  LET p == [pm EXCEPT !.usage = @ + 1]
  IN IF ~rpm \/ p.active THEN {[ok |-> TRUE, pm |-> p, x |-> Power]}
     ELSE IF p.error THEN {[ok |-> FALSE, pm |-> p, x |-> Power]}
     ELSE {[ok |-> r.ok, x |-> r.x,
            pm |-> [p EXCEPT !.active = r.ok, !.error = ~r.ok]]
             : r \in RuntimeResume(Power)}

\* pm_runtime_put_sync
Put(p, x) ==
  LET q == [p EXCEPT !.usage = @ - 1]
  IN IF rpm /\ q.active /\ q.usage = 0
     THEN [pm |-> [q EXCEPT !.active = FALSE], x |-> RuntimeSuspend(x)]
     ELSE [pm |-> q, x |-> x]

-----------------------------------------------------------------------------
(* Probe and remove.                                                       *)

\* One part of the probe: it succeeds, or the probe fails.
ProbeStep(from, to) ==
  /\ wild = {} /\ stage = from
  /\ stage' \in {to, "gone"}
  /\ UNCHANGED <<scope, rpm, off, clk, released, pm, opened, odd, wild>>

\* init_hw_irq: the registers and the interrupt
ProbeIrq == ProbeStep("none", "irq")

\* init_hw_device: the core's registers, its clocks and its number
ProbeClocks == ProbeStep("irq", "clocks")

\* xrp_init_regs_v0 or one of its kind: the shared memory and its pool
ProbeRegs == ProbeStep("clocks", "regs")

\* xrp_init_common as far as the directory in /proc.  Some of its errors leave
\* in ret what an earlier call has returned: then the caller takes the device,
\* whose parts are freed, to be there.
ProbeQueues ==
  /\ wild = {} /\ stage = "regs"
  /\ stage' \in {"queues", "gone", "void"}
  /\ UNCHANGED <<scope, rpm, off, clk, released, pm, opened, odd, wild>>

\* The first boot.  With runtime power management the device goes to sleep
\* again.
ProbeBoot ==
  /\ wild = {} /\ stage = "queues"
  /\ \E r \in RuntimeResume(Power) :
       /\ stage' = IF r.ok THEN "awake" ELSE "gone"
       /\ SetPower(IF r.ok /\ rpm THEN RuntimeSuspend(r.x) ELSE r.x)
  /\ UNCHANGED <<scope, rpm, pm, odd, opened, wild>>

\* misc_register: from here on the device can be opened.  A failure leaves the
\* clocks as they are.
ProbeNode ==
  /\ wild = {} /\ stage = "awake"
  /\ stage' \in {"node", "gone"}
  /\ odd' = [odd EXCEPT !.stuck = IF stage' = "gone" /\ ~rpm THEN 1 ELSE 0]
  /\ UNCHANGED <<scope, rpm, off, clk, released, pm, opened, wild>>

\* The end of xrp_init_common and of the probe: the list of dma-bufs is
\* initialised, the interrupt handler is told which device it serves.
ProbeDone ==
  /\ wild = {} /\ stage = "node"
  /\ stage' = "ready"
  /\ UNCHANGED <<scope, rpm, off, clk, released, pm, opened, odd, wild>>

\* xrp_deinit puts a device that is awake to sleep.
Deinit == IF pm.active \/ ~rpm THEN RuntimeSuspend(Power) ELSE Power

\* xrp_hw_simple_remove frees the device, also under files that are open, and
\* what is left of one whose probe has given up for the second time.
RemoveDevice ==
  /\ wild = {} /\ stage \in {"ready", "void"}
  /\ stage' = "gone"
  /\ SetPower(Deinit)
  /\ pm' = [pm EXCEPT !.active = FALSE]
  /\ wild' = IF stage = "ready" /\ opened = {} THEN {} ELSE {"removed"}
  /\ UNCHANGED <<scope, rpm, opened, odd>>

-----------------------------------------------------------------------------
(* Files.                                                                  *)

\* xvp_open; the allocation of the file's record may fail.
Open(f) ==
  /\ wild = {} /\ HasNode /\ f \in scope.files \ opened
  /\ stage = "ready" \/ scope.early
  /\ \E g \in Gets :
       /\ odd.leaked + odd.hollow < scope.odd \/ (g.ok /\ g.x.hollow = odd.hollow)
       /\ \/ /\ g.ok
             /\ opened' = opened \cup {f}
             /\ pm' = g.pm /\ SetPower(g.x)
             /\ odd' = [odd EXCEPT !.hollow = g.x.hollow]
          \/ /\ g.ok
             /\ LET p == Put(g.pm, g.x) IN pm' = p.pm /\ SetPower(p.x)
             /\ odd' = [odd EXCEPT !.hollow = g.x.hollow]
             /\ UNCHANGED opened
          \/ /\ ~g.ok
             /\ pm' = g.pm /\ SetPower(g.x)
             /\ odd' = [odd EXCEPT !.leaked = @ + 1]
             /\ UNCHANGED opened
  /\ UNCHANGED <<scope, stage, rpm, wild>>

\* xvp_close, as far as power is concerned.
ClosePower(f) ==
  /\ wild = {} /\ HasNode /\ f \in opened
  /\ opened' = opened \ {f}
  /\ LET p == Put(pm, Power) IN pm' = p.pm /\ SetPower(p.x)
  /\ UNCHANGED <<scope, stage, rpm, odd>>

\* A command of an open file times out and restarts the firmware.
Reboot ==
  /\ wild = {} /\ HasNode /\ scope.commands /\ opened # {} /\ ~off
  /\ \E b \in BootFirmware(Power) : SetPower(b.x)
  /\ UNCHANGED <<scope, stage, rpm, pm, opened, odd, wild>>

-----------------------------------------------------------------------------

DeviceTypeOK ==
  /\ scope \in Scopes /\ stage \in Stage /\ rpm \in BOOLEAN
  /\ off \in BOOLEAN /\ released \in BOOLEAN
  /\ clk \in [Clock -> Int]
  /\ pm \in [active : BOOLEAN, usage : Nat, error : BOOLEAN]
  /\ opened \subseteq File
  /\ odd \in [hollow : 0 .. scope.odd, leaked : 0 .. scope.odd, stuck : 0 .. 1]

\* The kernel takes the device to be awake.
Awake == IF rpm THEN pm.active ELSE stage \in {"awake", "node", "ready"}

\* Each clock was enabled once more than disabled by a device that is awake,
\* and the users are the open files and the failed opens.
Balanced ==
  /\ \A c \in Clock :
       clk[c] = (IF Awake THEN 1 ELSE 0) + odd.stuck - odd.hollow
  /\ pm.usage = Cardinality(opened) + odd.leaked
  /\ released => off = FALSE /\ \A c \in Clock : clk[c] > 0
  /\ odd.hollow > 0 => off

\* Whatever fails in probe, resume, boot, open or close, each clock has been
\* enabled as often as it was disabled plus once for a device that is awake -
\* but for the resumes that did nothing because the device was off, whose
\* suspends disable the clocks all the same, and for the clocks that a probe
\* without power management leaves on.  Every open file counts as a user, and
\* every failed open does.  The core is never released without its clocks.
PowerAccounted == wild = {} => Balanced

-----------------------------------------------------------------------------
(* Strengthenings: what makes the properties inductive.                    *)

\* Before its first boot the device is untouched, only a probe that failed
\* after it leaves clocks on, and an open file keeps the device awake.
Powered ==
  /\ Balanced
  /\ IsFiniteSet(opened)
  /\ stage \in {"none", "irq", "clocks", "regs", "queues"} =>
       /\ ~off /\ ~pm.active /\ opened = {} /\ odd.hollow = 0
  /\ odd.stuck > 0 => stage = "gone"
  /\ rpm /\ opened # {} => pm.active

PowerInv == DeviceTypeOK /\ (wild = {} => Powered)
=============================================================================
