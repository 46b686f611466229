--------------------------- MODULE XrpDriverProof ---------------------------
(***************************************************************************)
(* Proofs about the driver with its device, its report channel and its     *)
(* dma-bufs, for any files, reporters, report numbers, dma-bufs, scopes    *)
(* and bounds: what each step of XrpDevice does to the clocks, the core    *)
(* and the use counts, what each step of XrpDmaBuf does to the list and    *)
(* the counts, then the report channel and the whole.                      *)
(***************************************************************************)
EXTENDS XrpDriver, SequenceTheorems, FiniteSetTheorems, TLAPS

(***************************************************************************)
(* The device: what each step of XrpDevice does to the clocks, the core    *)
(* and the use counts.                                                     *)
(***************************************************************************)

\* The bounds a behaviour of the device keeps to.
LEMMA ScopeFacts ==
  ASSUME scope \in Scopes
  PROVE  /\ scope.files \subseteq File /\ scope.rpm \in BOOLEAN
         /\ scope.odd \in Nat
  BY ScopeAssumption

(***************************************************************************)
(* The callbacks.                                                          *)
(***************************************************************************)

PowerState == [off : BOOLEAN, clk : [Clock -> Int], released : BOOLEAN,
               hollow : Nat]

\* disable and enable change the counts of both clocks and nothing else.
LEMMA ClockedFacts ==
  ASSUME NEW x \in PowerState, NEW n \in Int
  PROVE  \E y \in PowerState :
           /\ y = Clocked(x, n)
           /\ y.off = x.off /\ y.released = x.released /\ y.hollow = x.hollow
           /\ \A c \in Clock : y.clk[c] = x.clk[c] + n
<1>1. PICK k \in [Clock -> Int] : k = [c \in Clock |-> x.clk[c] + n]
  <2>1. x.clk \in [Clock -> Int]
    BY DEF PowerState
  <2>2. [c \in Clock |-> x.clk[c] + n] \in [Clock -> Int]
    BY <2>1
  <2> QED
    BY <2>2
<1>2. Clocked(x, n) = [x EXCEPT !.clk = k]
  BY <1>1, Zenon DEF Clocked
<1>3. [x EXCEPT !.clk = k] \in PowerState
  BY <1>1 DEF PowerState
<1>4. /\ [x EXCEPT !.clk = k].off = x.off
      /\ [x EXCEPT !.clk = k].released = x.released
      /\ [x EXCEPT !.clk = k].hollow = x.hollow
      /\ [x EXCEPT !.clk = k].clk = k
  BY DEF PowerState
<1> QED
  BY <1>1, <1>2, <1>3, <1>4

\* xrp_runtime_suspend halts the core and disables the clocks once.
LEMMA SuspendFacts ==
  ASSUME NEW x \in PowerState
  PROVE  \E y \in PowerState :
           /\ y = RuntimeSuspend(x)
           /\ y.off = x.off /\ ~y.released /\ y.hollow = x.hollow
           /\ \A c \in Clock : y.clk[c] = x.clk[c] - 1
<1>1. PICK h \in PowerState :
        /\ h = Halt(x) /\ h.off = x.off /\ ~h.released /\ h.hollow = x.hollow
        /\ h.clk = x.clk
  <2>1. /\ Halt(x) \in PowerState /\ Halt(x).off = x.off /\ ~Halt(x).released
        /\ Halt(x).hollow = x.hollow /\ Halt(x).clk = x.clk
    BY DEF Halt, PowerState
  <2> QED
    BY <2>1
<1>2. PICK y \in PowerState :
        /\ y = Clocked(h, -1)
        /\ y.off = h.off /\ y.released = h.released /\ y.hollow = h.hollow
        /\ \A c \in Clock : y.clk[c] = h.clk[c] + (-1)
  <2>1. -1 \in Int
    OBVIOUS
  <2> QED
    BY <2>1, ClockedFacts, Zenon
<1>3. \A c \in Clock : y.clk[c] = x.clk[c] - 1
  <2>1. \A c \in Clock : x.clk[c] \in Int
    BY DEF PowerState
  <2> QED
    BY <1>1, <1>2, <2>1
<1> QED
  BY <1>1, <1>2, <1>3 DEF RuntimeSuspend, Disable

\* A boot releases the core, or leaves it halted, and perhaps the device off.
LEMMA BootFacts ==
  ASSUME NEW x \in PowerState, NEW b \in BootFirmware(x)
  PROVE  /\ b.ok \in BOOLEAN /\ b.x \in PowerState
         /\ b.x.clk = x.clk /\ b.x.hollow = x.hollow
         /\ b.ok => b.x.released /\ b.x.off = x.off
         /\ ~b.ok => ~b.x.released /\ (x.off => b.x.off)
<1>1. CASE b = [ok |-> TRUE, x |-> Release(x)]
  BY <1>1 DEF Release, PowerState
<1>2. CASE b = [ok |-> FALSE, x |-> Halt(x)]
  BY <1>2 DEF Halt, PowerState
<1>3. CASE b = [ok |-> FALSE, x |-> [Halt(x) EXCEPT !.off = TRUE]]
  BY <1>3 DEF Halt, PowerState
<1> QED
  BY <1>1, <1>2, <1>3 DEF BootFirmware

\* What a resume may come to.
Resumed(x, r) ==
  /\ r.ok \in BOOLEAN /\ r.x \in PowerState
  /\ \/ /\ r.ok /\ x.off /\ r.x.off
        /\ r.x.hollow = x.hollow + 1
        /\ r.x.clk = x.clk /\ r.x.released = x.released
     \/ /\ r.ok /\ ~x.off /\ ~r.x.off /\ r.x.hollow = x.hollow
        /\ r.x.released
        /\ \A c \in Clock : r.x.clk[c] = x.clk[c] + 1
     \/ /\ ~r.ok /\ ~x.off /\ r.x.hollow = x.hollow
        /\ r.x.released => x.released /\ ~r.x.off
        /\ \A c \in Clock : r.x.clk[c] = x.clk[c]

\* A resume enables the clocks and boots, or gives back what it took.
LEMMA ResumeFacts ==
  ASSUME NEW x \in PowerState, NEW r \in RuntimeResume(x)
  PROVE  Resumed(x, r)
<1>1. CASE x.off
  <2>1. r = [ok |-> TRUE, x |-> [x EXCEPT !.hollow = @ + 1]]
    BY <1>1 DEF RuntimeResume
  <2>2. PICK y : y = [x EXCEPT !.hollow = @ + 1]
    OBVIOUS
  <2>3. /\ y \in PowerState /\ y.off = x.off /\ y.clk = x.clk
        /\ y.released = x.released /\ y.hollow = x.hollow + 1
    BY <2>2 DEF PowerState
  <2>4. r.ok = TRUE /\ r.x = y
    BY <2>1, <2>2
  <2> QED
    BY <1>1, <2>3, <2>4 DEF Resumed
<1>2. CASE ~x.off
  <2>1. PICK y \in PowerState :
          /\ y = Clocked(x, 1)
          /\ y.off = x.off /\ y.released = x.released /\ y.hollow = x.hollow
          /\ \A c \in Clock : y.clk[c] = x.clk[c] + 1
    <3>1. 1 \in Int
      OBVIOUS
    <3> QED
      BY <3>1, ClockedFacts, Zenon
  <2>2. Enable(x) = {[ok |-> TRUE, x |-> y], [ok |-> FALSE, x |-> x]}
    BY <2>1 DEF Enable
  <2>3. {e \in Enable(x) : ~e.ok} = {[ok |-> FALSE, x |-> x]}
    BY <2>2
  <2>4. {e \in Enable(x) : e.ok} = {[ok |-> TRUE, x |-> y]}
    BY <2>2
  <2>5. \/ r = [ok |-> FALSE, x |-> x]
        \/ \E b \in BootFirmware(y) :
             r = [ok |-> b.ok, x |-> IF b.ok THEN b.x ELSE Disable(b.x)]
    <3>1. RuntimeResume(x) = {[ok |-> FALSE, x |-> x]}
            \cup UNION {{[ok |-> b.ok, x |-> IF b.ok THEN b.x ELSE Disable(b.x)]
                          : b \in BootFirmware(e.x)} : e \in {[ok |-> TRUE, x |-> y]}}
      BY <1>2, <2>3, <2>4, Zenon DEF RuntimeResume
    <3>2. CASE r = [ok |-> FALSE, x |-> x]
      BY <3>2
    <3>3. ASSUME NEW e \in {[ok |-> TRUE, x |-> y]},
                 r \in {[ok |-> b.ok, x |-> IF b.ok THEN b.x ELSE Disable(b.x)]
                          : b \in BootFirmware(e.x)}
          PROVE  \E b \in BootFirmware(y) :
                   r = [ok |-> b.ok, x |-> IF b.ok THEN b.x ELSE Disable(b.x)]
      <4>1. e.x = y
        OBVIOUS
      <4> QED
        BY <3>3, <4>1, Zenon
    <3> QED
      BY <3>1, <3>2, <3>3, Zenon
  <2>6. CASE r = [ok |-> FALSE, x |-> x]
    BY <1>2, <2>6 DEF Resumed
  <2>7. ASSUME NEW b \in BootFirmware(y),
               r = [ok |-> b.ok, x |-> IF b.ok THEN b.x ELSE Disable(b.x)]
        PROVE  Resumed(x, r)
    <3>1. /\ b.ok \in BOOLEAN /\ b.x \in PowerState
          /\ b.x.clk = y.clk /\ b.x.hollow = y.hollow
          /\ b.ok => b.x.released /\ b.x.off = y.off
          /\ ~b.ok => ~b.x.released
      BY BootFacts
    <3>2. CASE b.ok
      <4>1. r.ok = TRUE /\ r.x = b.x
        BY <2>7, <3>2
      <4> QED
        BY <1>2, <2>1, <3>1, <3>2, <4>1 DEF Resumed
    <3>3. CASE ~b.ok
      <4>1. PICK z \in PowerState :
              /\ z = Clocked(b.x, -1)
              /\ z.off = b.x.off /\ z.released = b.x.released
              /\ z.hollow = b.x.hollow
              /\ \A c \in Clock : z.clk[c] = b.x.clk[c] + (-1)
        <5>1. -1 \in Int
          OBVIOUS
        <5> QED
          BY <3>1, <5>1, ClockedFacts, Zenon
      <4>2. r.ok = FALSE /\ r.x = z
        BY <2>7, <3>1, <3>3, <4>1 DEF Disable
      <4>3. \A c \in Clock : z.clk[c] = x.clk[c]
        <5>1. \A c \in Clock : x.clk[c] \in Int
          BY DEF PowerState
        <5> QED
          BY <2>1, <3>1, <4>1, <5>1
      <4> QED
        BY <1>2, <2>1, <3>1, <3>3, <4>1, <4>2, <4>3 DEF Resumed
    <3> QED
      BY <3>1, <3>2, <3>3
  <2> QED
    BY <2>5, <2>6, <2>7
<1> QED
  BY <1>1, <1>2 DEF PowerState

(***************************************************************************)
(* The kernel's power management.                                          *)
(***************************************************************************)

PmState == [active : BOOLEAN, usage : Nat, error : BOOLEAN]

\* The device's part of the state has the type its callbacks work on.
LEMMA PowerIsState ==
  ASSUME DeviceTypeOK
  PROVE  /\ Power \in PowerState /\ pm \in PmState
         /\ Power.off = off /\ Power.clk = clk /\ Power.released = released
         /\ Power.hollow = odd.hollow
  <1>1. scope.odd \in Nat
    BY ScopeFacts DEF DeviceTypeOK
  <1>2. odd.hollow \in Nat
    BY <1>1 DEF DeviceTypeOK
  <1> QED
    BY <1>2 DEF DeviceTypeOK, Power, PowerState, PmState

\* pm_runtime_get_sync counts the caller, and resumes a device that sleeps
\* unless a resume has failed before.
Got(g) ==
  /\ g.ok \in BOOLEAN /\ g.pm \in PmState /\ g.x \in PowerState
  /\ g.pm.usage = pm.usage + 1
  /\ \/ /\ ~rpm \/ pm.active
        /\ g.ok /\ g.x = Power /\ g.pm.active = pm.active
     \/ /\ rpm /\ ~pm.active
        /\ ~g.ok /\ g.x = Power /\ ~g.pm.active
     \/ /\ rpm /\ ~pm.active
        /\ Resumed(Power, g) /\ g.pm.active = g.ok

\* pm_runtime_get_sync counts up whether or not the resume succeeds.
LEMMA GetsFacts ==
  ASSUME DeviceTypeOK, NEW g \in Gets
  PROVE  Got(g)
<1>1. PICK p \in PmState :
        /\ p = [pm EXCEPT !.usage = @ + 1]
        /\ p.usage = pm.usage + 1 /\ p.active = pm.active /\ p.error = pm.error
  <2>1. pm \in PmState
    BY PowerIsState
  <2>2. [pm EXCEPT !.usage = @ + 1] \in PmState
    BY <2>1 DEF PmState
  <2>3. /\ [pm EXCEPT !.usage = @ + 1].usage = pm.usage + 1
        /\ [pm EXCEPT !.usage = @ + 1].active = pm.active
        /\ [pm EXCEPT !.usage = @ + 1].error = pm.error
    BY <2>1 DEF PmState
  <2> QED
    BY <2>2, <2>3
<1>2. Power \in PowerState
  BY PowerIsState
<1>3. Gets = IF ~rpm \/ p.active THEN {[ok |-> TRUE, pm |-> p, x |-> Power]}
             ELSE IF p.error THEN {[ok |-> FALSE, pm |-> p, x |-> Power]}
             ELSE {[ok |-> r.ok, x |-> r.x,
                    pm |-> [p EXCEPT !.active = r.ok, !.error = ~r.ok]]
                     : r \in RuntimeResume(Power)}
  BY <1>1 DEF Gets
<1>4. CASE ~rpm \/ p.active
  <2>1. g = [ok |-> TRUE, pm |-> p, x |-> Power]
    BY <1>3, <1>4
  <2> QED
    BY <1>1, <1>2, <1>4, <2>1 DEF Got
<1>5. CASE rpm /\ ~p.active /\ p.error
  <2>1. g = [ok |-> FALSE, pm |-> p, x |-> Power]
    BY <1>3, <1>5
  <2> QED
    BY <1>1, <1>2, <1>5, <2>1 DEF Got
<1>6. CASE rpm /\ ~p.active /\ ~p.error
  <2>1. PICK r \in RuntimeResume(Power) :
          g = [ok |-> r.ok, x |-> r.x,
               pm |-> [p EXCEPT !.active = r.ok, !.error = ~r.ok]]
    BY <1>3, <1>6
  <2>2. Resumed(Power, r)
    BY <1>2, ResumeFacts
  <2>3. r.ok \in BOOLEAN /\ r.x \in PowerState
    BY <2>2 DEF Resumed
  <2>4. PICK q \in PmState :
          /\ q = [p EXCEPT !.active = r.ok, !.error = ~r.ok]
          /\ q.usage = p.usage /\ q.active = r.ok
    <3>1. [p EXCEPT !.active = r.ok, !.error = ~r.ok] \in PmState
      BY <2>3 DEF PmState
    <3>2. /\ [p EXCEPT !.active = r.ok, !.error = ~r.ok].usage = p.usage
          /\ [p EXCEPT !.active = r.ok, !.error = ~r.ok].active = r.ok
      BY DEF PmState
    <3> QED
      BY <3>1, <3>2
  <2>5. g.ok = r.ok /\ g.x = r.x /\ g.pm = q
    BY <2>1, <2>4
  <2>6. Resumed(Power, g)
    BY <2>2, <2>5 DEF Resumed
  <2> QED
    BY <1>1, <1>6, <2>3, <2>4, <2>5, <2>6 DEF Got
<1> QED
  BY <1>4, <1>5, <1>6

\* pm_runtime_put_sync suspends a device whose last user goes.
LEMMA PutFacts ==
  ASSUME rpm \in BOOLEAN, NEW p \in PmState, NEW x \in PowerState, p.usage > 0
  PROVE  /\ Put(p, x).pm \in PmState /\ Put(p, x).x \in PowerState
         /\ Put(p, x).pm.usage = p.usage - 1
         /\ \/ /\ ~(rpm /\ p.active /\ p.usage = 1)
               /\ Put(p, x).x = x /\ Put(p, x).pm.active = p.active
            \/ /\ rpm /\ p.active /\ p.usage = 1
               /\ ~Put(p, x).pm.active
               /\ Put(p, x).x.off = x.off /\ ~Put(p, x).x.released
               /\ Put(p, x).x.hollow = x.hollow
               /\ \A c \in Clock : Put(p, x).x.clk[c] = x.clk[c] - 1
<1>1. PICK q \in PmState :
        /\ q = [p EXCEPT !.usage = @ - 1]
        /\ q.usage = p.usage - 1 /\ q.active = p.active
  <2>1. [p EXCEPT !.usage = @ - 1] \in PmState
    BY DEF PmState
  <2>2. /\ [p EXCEPT !.usage = @ - 1].usage = p.usage - 1
        /\ [p EXCEPT !.usage = @ - 1].active = p.active
    BY DEF PmState
  <2> QED
    BY <2>1, <2>2
<1>2. Put(p, x) = IF rpm /\ q.active /\ q.usage = 0
                  THEN [pm |-> [q EXCEPT !.active = FALSE], x |-> RuntimeSuspend(x)]
                  ELSE [pm |-> q, x |-> x]
  BY <1>1 DEF Put
<1>3. q.usage = 0 <=> p.usage = 1
  BY <1>1 DEF PmState
<1>4. CASE ~(rpm /\ q.active /\ q.usage = 0)
  <2>1. Put(p, x) = [pm |-> q, x |-> x]
    BY <1>2, <1>4
  <2>2. Put(p, x).pm = q /\ Put(p, x).x = x
    BY <2>1
  <2> QED
    BY <1>1, <1>3, <1>4, <2>2
<1>5. CASE rpm /\ q.active /\ q.usage = 0
  <2>1. PICK y \in PowerState :
          /\ y = RuntimeSuspend(x)
          /\ y.off = x.off /\ ~y.released /\ y.hollow = x.hollow
          /\ \A c \in Clock : y.clk[c] = x.clk[c] - 1
    BY SuspendFacts
  <2>2. PICK z \in PmState :
          /\ z = [q EXCEPT !.active = FALSE]
          /\ z.usage = q.usage /\ ~z.active
    <3>1. [q EXCEPT !.active = FALSE] \in PmState
      BY DEF PmState
    <3>2. /\ [q EXCEPT !.active = FALSE].usage = q.usage
          /\ [q EXCEPT !.active = FALSE].active = FALSE
      BY DEF PmState
    <3> QED
      BY <3>1, <3>2
  <2>3. Put(p, x).pm = z /\ Put(p, x).x = y
    BY <1>2, <1>5, <2>1, <2>2
  <2> QED
    BY <1>1, <1>3, <1>5, <2>1, <2>2, <2>3
<1> QED
  BY <1>4, <1>5

(***************************************************************************)
(* The steps.  Each is taken while nothing has corrupted memory.           *)
(***************************************************************************)

Early == {"none", "irq", "clocks", "regs", "queues"}

\* A part of the probe that touches neither clocks nor files.
LEMMA ProbeKeeps ==
  ASSUME DeviceTypeOK, Powered, stage' \in Stage,
         UNCHANGED <<scope, rpm, off, clk, released, pm, opened, odd>>,
         stage \in Early, stage' \in Early \cup {"gone", "void"}
  PROVE  DeviceTypeOK' /\ Powered'
<1>1. DeviceTypeOK'
  BY DEF DeviceTypeOK
<1>2. Awake' = Awake
  BY DEF Awake, Early
<1>3. Balanced'
  BY <1>2 DEF Powered, Balanced
<1> QED
  BY <1>1, <1>3 DEF Powered, Early

\* The probe's boot: the clocks are balanced when it fails, too.
LEMMA ProbeBootKeeps ==
  ASSUME DeviceTypeOK, Powered, ProbeBoot
  PROVE  DeviceTypeOK' /\ Powered'
<1>1. /\ Power \in PowerState /\ Power.off = off /\ Power.clk = clk
      /\ Power.released = released /\ Power.hollow = odd.hollow
  BY PowerIsState
<1>2. /\ ~off /\ ~pm.active /\ opened = {} /\ odd.hollow = 0 /\ odd.stuck = 0
      /\ odd.leaked \in Int /\ stage = "queues" /\ rpm \in BOOLEAN
      /\ clk \in [Clock -> Int] /\ released \in BOOLEAN
  BY ScopeFacts DEF ProbeBoot, Powered, DeviceTypeOK
<1>3. /\ \A c \in Clock : clk[c] = 0
      /\ ~released /\ pm.usage = Cardinality(opened) + odd.leaked
  <2>1. \A c \in Clock : clk[c] = 0
    BY <1>2 DEF Powered, Balanced, Awake
  <2>2. "cclk" \in Clock
    BY DEF Clock
  <2> QED
    BY <2>1, <2>2 DEF Powered, Balanced
<1>4. PICK r \in RuntimeResume(Power) :
        /\ stage' = IF r.ok THEN "awake" ELSE "gone"
        /\ SetPower(IF r.ok /\ rpm THEN RuntimeSuspend(r.x) ELSE r.x)
  BY DEF ProbeBoot
<1>5. /\ scope' = scope /\ rpm' = rpm /\ pm' = pm /\ odd' = odd /\ opened' = opened
  BY DEF ProbeBoot
<1>6. /\ r.ok \in BOOLEAN /\ r.x \in PowerState
      /\ \/ /\ r.ok /\ ~r.x.off /\ \A c \in Clock : r.x.clk[c] = 1
         \/ /\ ~r.ok /\ ~r.x.released /\ \A c \in Clock : r.x.clk[c] = 0
  <2>1. Resumed(Power, r)
    BY <1>1, ResumeFacts
  <2> QED
    BY <1>1, <1>2, <1>3, <2>1 DEF Resumed
<1>7. CASE r.ok /\ rpm
  <2>1. PICK y \in PowerState :
          /\ y = RuntimeSuspend(r.x) /\ y.off = r.x.off /\ ~y.released
          /\ \A c \in Clock : y.clk[c] = r.x.clk[c] - 1
    BY <1>6, SuspendFacts
  <2>2. off' = y.off /\ clk' = y.clk /\ released' = y.released
    BY <1>4, <1>7, <2>1 DEF SetPower
  <2>3. \A c \in Clock : clk'[c] = 0
    BY <1>6, <1>7, <2>1, <2>2
  <2>4. stage' = "awake"
    BY <1>4, <1>7
  <2>5. DeviceTypeOK'
    BY <1>5, <2>1, <2>2, <2>4 DEF DeviceTypeOK, PowerState, Stage
  <2>6. Balanced'
    <3>1. odd' = odd /\ opened' = opened /\ pm' = pm /\ Awake' = FALSE
      BY <1>2, <1>5, <1>7 DEF Awake
    <3>2. odd.stuck = 0 /\ odd.hollow = 0 /\ ~released'
      BY <1>2, <2>1, <2>2
    <3> QED
      BY <1>3, <2>3, <3>1, <3>2 DEF Balanced
  <2> QED
    BY <1>2, <1>5, <2>4, <2>5, <2>6 DEF Powered
<1>8. CASE r.ok /\ ~rpm
  <2>1. off' = r.x.off /\ clk' = r.x.clk /\ released' = r.x.released
    BY <1>4, <1>8 DEF SetPower
  <2>2. stage' = "awake" /\ ~off' /\ \A c \in Clock : clk'[c] = 1
    BY <1>4, <1>6, <1>8, <2>1
  <2>3. DeviceTypeOK'
    BY <1>5, <1>6, <2>1, <2>2 DEF DeviceTypeOK, PowerState, Stage
  <2>4. off' = FALSE
    BY <2>2, <2>3 DEF DeviceTypeOK
  <2>5. Balanced'
    BY <1>2, <1>3, <1>5, <1>8, <2>2, <2>4 DEF Balanced, Awake
  <2> QED
    BY <1>2, <1>5, <2>2, <2>3, <2>5 DEF Powered
<1>9. CASE ~r.ok
  <2>1. off' = r.x.off /\ clk' = r.x.clk /\ released' = r.x.released
    BY <1>4, <1>9 DEF SetPower
  <2>2. stage' = "gone" /\ ~released' /\ \A c \in Clock : clk'[c] = 0
    BY <1>4, <1>6, <1>9, <2>1
  <2>3. DeviceTypeOK'
    BY <1>5, <1>6, <2>1, <2>2 DEF DeviceTypeOK, PowerState, Stage
  <2>4. ~Awake'
    BY <1>2, <1>5, <2>2 DEF Awake
  <2>5. Balanced'
    <3>1. \A c \in Clock : clk'[c] = (IF Awake' THEN 1 ELSE 0) + odd'.stuck - odd'.hollow
      BY <1>2, <1>5, <2>2, <2>4
    <3>2. odd'.hollow > 0 => off'
      BY <1>2, <1>5
    <3> QED
      BY <1>3, <1>5, <2>2, <3>1, <3>2 DEF Balanced
  <2> QED
    BY <1>2, <1>5, <2>2, <2>3, <2>5 DEF Powered
<1> QED
  BY <1>2, <1>6, <1>7, <1>8, <1>9

\* misc_register fails or makes the device available for open.
LEMMA ProbeNodeKeeps ==
  ASSUME DeviceTypeOK, Powered, ProbeNode
  PROVE  DeviceTypeOK' /\ Powered'
<1>1. /\ stage = "awake" /\ stage' \in {"node", "gone"}
      /\ odd' = [odd EXCEPT !.stuck = IF stage' = "gone" /\ ~rpm THEN 1 ELSE 0]
      /\ UNCHANGED <<scope, rpm, off, clk, released, pm, opened>>
  BY DEF ProbeNode
<1>2. PICK n \in 0 .. 1 : n = IF stage' = "gone" /\ ~rpm THEN 1 ELSE 0
  OBVIOUS
<1>3. /\ odd'.stuck = n /\ odd'.hollow = odd.hollow /\ odd'.leaked = odd.leaked
      /\ odd' \in [hollow : 0 .. scope.odd, leaked : 0 .. scope.odd, stuck : 0 .. 1]
  BY <1>1, <1>2 DEF DeviceTypeOK
<1>4. DeviceTypeOK'
  BY <1>1, <1>3 DEF DeviceTypeOK, Stage
<1>5. odd.stuck = 0 /\ odd.hollow \in Int
  BY <1>1, ScopeFacts DEF Powered, DeviceTypeOK
<1>6. Balanced'
  <2>1. (IF Awake' THEN 1 ELSE 0) + n = IF Awake THEN 1 ELSE 0
    BY <1>1, <1>2 DEF Awake
  <2>2. ASSUME NEW c \in Clock
        PROVE  clk'[c] = (IF Awake' THEN 1 ELSE 0) + odd'.stuck - odd'.hollow
    BY <1>1, <1>3, <1>5, <2>1 DEF Powered, Balanced
  <2>3. pm'.usage = Cardinality(opened') + odd'.leaked
    BY <1>1, <1>3 DEF Powered, Balanced
  <2>4. released' => off' = FALSE /\ \A c \in Clock : clk'[c] > 0
    BY <1>1 DEF Powered, Balanced
  <2>5. odd'.hollow > 0 => off'
    BY <1>1, <1>3 DEF Powered, Balanced
  <2> QED
    BY <2>2, <2>3, <2>4, <2>5 DEF Balanced
<1> QED
  BY <1>1, <1>2, <1>3, <1>4, <1>6 DEF Powered

\* The end of the probe, after which the device may sleep.
LEMMA ProbeDoneKeeps ==
  ASSUME DeviceTypeOK, Powered, ProbeDone
  PROVE  DeviceTypeOK' /\ Powered'
<1>1. /\ stage = "node" /\ stage' = "ready"
      /\ UNCHANGED <<scope, rpm, off, clk, released, pm, opened, odd>>
  BY DEF ProbeDone
<1>2. DeviceTypeOK'
  BY <1>1 DEF DeviceTypeOK, Stage
<1>3. Awake' = Awake
  BY <1>1 DEF Awake
<1>4. Balanced'
  BY <1>1, <1>3 DEF Powered, Balanced
<1> QED
  BY <1>1, <1>2, <1>4 DEF Powered

\* After a removal the counts matter only if no file was open.
LEMMA RemoveKeeps ==
  ASSUME DeviceTypeOK, Powered, RemoveDevice
  PROVE  DeviceTypeOK' /\ (wild' = {} => Powered')
<1>1. /\ Power \in PowerState /\ Power.off = off /\ Power.clk = clk
      /\ Power.released = released /\ Power.hollow = odd.hollow
      /\ pm \in PmState
  BY PowerIsState
<1>2. /\ stage \in {"ready", "void"} /\ stage' = "gone" /\ SetPower(Deinit)
      /\ pm' = [pm EXCEPT !.active = FALSE]
      /\ wild' = {} => stage = "ready" /\ opened = {}
      /\ UNCHANGED <<scope, rpm, opened, odd>>
  BY DEF RemoveDevice
<1>3. pm' \in PmState /\ ~pm'.active /\ pm'.usage = pm.usage
  BY <1>1, <1>2 DEF PmState
<1>4. PICK d \in PowerState :
        /\ d = Deinit /\ d.off = off
        /\ \/ /\ pm.active \/ ~rpm
              /\ ~d.released /\ \A c \in Clock : d.clk[c] = clk[c] - 1
           \/ /\ ~pm.active /\ rpm
              /\ d.released = released /\ d.clk = clk
  <2>1. CASE pm.active \/ ~rpm
    <3>1. Deinit = RuntimeSuspend(Power)
      BY <2>1 DEF Deinit
    <3>2. PICK y \in PowerState :
            /\ y = RuntimeSuspend(Power)
            /\ y.off = off /\ ~y.released
            /\ \A c \in Clock : y.clk[c] = clk[c] - 1
      BY <1>1, SuspendFacts
    <3> QED
      BY <2>1, <3>1, <3>2
  <2>2. CASE ~pm.active /\ rpm
    <3>1. Deinit = Power
      BY <2>2 DEF Deinit
    <3> QED
      BY <1>1, <2>2, <3>1
  <2> QED
    BY <2>1, <2>2
<1>5. off' = d.off /\ clk' = d.clk /\ released' = d.released
  BY <1>2, <1>4 DEF SetPower
<1>6. DeviceTypeOK'
  BY <1>2, <1>3, <1>4, <1>5 DEF DeviceTypeOK, PowerState, PmState, Stage
<1>7. ASSUME stage = "ready", opened = {}
      PROVE  Powered'
  <2>1. odd.stuck = 0 /\ odd.hollow \in Int /\ clk \in [Clock -> Int]
    BY <1>7, ScopeFacts DEF Powered, DeviceTypeOK
  <2>2. \A c \in Clock : clk[c] = (IF Awake THEN 1 ELSE 0) + odd.stuck - odd.hollow
    BY DEF Powered, Balanced
  <2>3. ~Awake' /\ (Awake <=> pm.active \/ ~rpm)
    <3>1. rpm \in BOOLEAN /\ (rpm \/ Awake)
      BY <1>7 DEF Awake, DeviceTypeOK
    <3>2. rpm => (Awake <=> pm.active)
      BY DEF Awake
    <3>3. ~Awake'
      BY <1>2, <1>3, <3>1 DEF Awake
    <3>4. ~rpm => Awake
      BY <3>1
    <3> QED
      BY <3>2, <3>3, <3>4
  <2>4. \A c \in Clock : clk'[c] = odd.stuck - odd.hollow
    BY <1>4, <1>5, <2>1, <2>2, <2>3
  <2>5. released' => off' = FALSE /\ \A c \in Clock : clk'[c] > 0
    BY <1>4, <1>5 DEF Powered, Balanced
  <2>6. Balanced'
    BY <1>2, <1>3, <1>4, <1>5, <2>1, <2>3, <2>4, <2>5 DEF Powered, Balanced
  <2> QED
    BY <1>2, <1>7, <2>6 DEF Powered
<1> QED
  BY <1>2, <1>6, <1>7

\* What the power management keeps while a device can be opened.
LEMMA OpenFacts ==
  ASSUME DeviceTypeOK, Powered, HasNode
  PROVE  /\ odd.stuck = 0 /\ odd.hollow \in Nat /\ odd.leaked \in Nat
         /\ rpm \in BOOLEAN /\ (Awake <=> ~rpm \/ pm.active)
         /\ clk \in [Clock -> Int] /\ released \in BOOLEAN /\ off \in BOOLEAN
         /\ \A c \in Clock : clk[c] = (IF Awake THEN 1 ELSE 0) - odd.hollow
         /\ odd.hollow > 0 => off
         /\ released => ~off /\ Awake
<1>1. /\ odd.stuck = 0 /\ odd.hollow \in Nat /\ odd.leaked \in Nat
      /\ rpm \in BOOLEAN /\ clk \in [Clock -> Int] /\ released \in BOOLEAN
      /\ off \in BOOLEAN
  BY ScopeFacts DEF DeviceTypeOK, Powered, HasNode
<1>2. Awake <=> ~rpm \/ pm.active
  <2>1. CASE rpm
    BY <2>1 DEF Awake
  <2>2. CASE ~rpm
    BY <2>2 DEF Awake, HasNode
  <2> QED
    BY <2>1, <2>2
<1>3. \A c \in Clock : clk[c] = (IF Awake THEN 1 ELSE 0) - odd.hollow
  BY <1>1 DEF Powered, Balanced
<1>4. released => ~off /\ Awake
  <2> SUFFICES ASSUME released PROVE ~off /\ Awake
    OBVIOUS
  <2>1. "cclk" \in Clock
    BY DEF Clock
  <2>2. off = FALSE /\ clk["cclk"] > 0
    BY <2>1 DEF Powered, Balanced
  <2> QED
    BY <1>1, <1>3, <2>1, <2>2
<1>5. odd.hollow > 0 => off
  BY DEF Powered, Balanced
<1> QED
  BY <1>1, <1>2, <1>3, <1>4, <1>5

\* A way to show the balance again while the device has its node.
LEMMA Rebalance ==
  ASSUME DeviceTypeOK', HasNode, stage' = stage, rpm' = rpm,
         odd'.stuck = 0, odd'.hollow \in Nat,
         IsFiniteSet(opened'),
         pm'.usage = Cardinality(opened') + odd'.leaked,
         \A c \in Clock :
           clk'[c] = (IF ~rpm \/ pm'.active THEN 1 ELSE 0) - odd'.hollow,
         released' => ~off' /\ (~rpm \/ pm'.active),
         odd'.hollow > 0 => off',
         rpm /\ opened' # {} => pm'.active
  PROVE  Powered'
<1>1. rpm \in BOOLEAN /\ off' \in BOOLEAN
  BY DEF DeviceTypeOK
<1>2. Awake' <=> ~rpm \/ pm'.active
  <2>1. CASE rpm
    BY <2>1 DEF Awake
  <2>2. CASE ~rpm
    BY <2>2 DEF Awake, HasNode
  <2> QED
    BY <2>1, <2>2
<1>3. \A c \in Clock : clk'[c] = (IF Awake' THEN 1 ELSE 0) + odd'.stuck - odd'.hollow
  BY <1>2
<1>4. released' => off' = FALSE /\ \A c \in Clock : clk'[c] > 0
  <2> SUFFICES ASSUME released' PROVE off' = FALSE /\ \A c \in Clock : clk'[c] > 0
    OBVIOUS
  <2>1. ~off' /\ odd'.hollow = 0 /\ (~rpm \/ pm'.active)
    OBVIOUS
  <2> QED
    BY <1>1, <2>1
<1>5. Balanced'
  BY <1>3, <1>4 DEF Balanced
<1> QED
  BY <1>5 DEF Powered, HasNode

\* The outcomes of an attempt to wake the device, by what they leave behind.
LEMMA GotFacts ==
  ASSUME DeviceTypeOK, Powered, HasNode, NEW g \in Gets
  PROVE  /\ g.ok \in BOOLEAN /\ g.pm \in PmState /\ g.x \in PowerState
         /\ g.pm.usage = pm.usage + 1 /\ g.pm.usage > 0
         /\ g.ok => ~rpm \/ g.pm.active
         /\ ~g.ok => rpm /\ ~pm.active /\ ~g.pm.active
                     /\ g.x.hollow = odd.hollow
         /\ pm.active => g.pm.active
         /\ \A c \in Clock :
              g.x.clk[c] = (IF ~rpm \/ g.pm.active THEN 1 ELSE 0) - g.x.hollow
         /\ g.x.released => ~g.x.off /\ (~rpm \/ g.pm.active)
         /\ g.x.hollow > 0 => g.x.off
         /\ g.x.hollow \in {odd.hollow, odd.hollow + 1}
<1>1. Got(g)
  BY GetsFacts
<1>2. /\ Power \in PowerState /\ pm \in PmState
      /\ Power.off = off /\ Power.clk = clk /\ Power.released = released
      /\ Power.hollow = odd.hollow
  BY PowerIsState
<1>3. /\ odd.hollow \in Nat
      /\ rpm \in BOOLEAN /\ (Awake <=> ~rpm \/ pm.active)
      /\ clk \in [Clock -> Int] /\ released \in BOOLEAN /\ off \in BOOLEAN
      /\ \A c \in Clock : clk[c] = (IF Awake THEN 1 ELSE 0) - odd.hollow
      /\ odd.hollow > 0 => off
      /\ released => ~off /\ Awake
  BY OpenFacts
<1>4. /\ g.ok \in BOOLEAN /\ g.pm \in PmState /\ g.x \in PowerState
      /\ g.pm.usage = pm.usage + 1 /\ g.pm.usage > 0
  BY <1>1, <1>2 DEF Got, PmState
<1>5. CASE (~rpm \/ pm.active) /\ g.ok /\ g.x = Power /\ g.pm.active = pm.active
  <2>1. \A c \in Clock :
          g.x.clk[c] = (IF ~rpm \/ g.pm.active THEN 1 ELSE 0) - g.x.hollow
    BY <1>2, <1>3, <1>5
  <2> QED
    BY <1>2, <1>3, <1>4, <1>5, <2>1
<1>6. CASE rpm /\ ~pm.active /\ ~g.ok /\ g.x = Power /\ ~g.pm.active
  <2>1. \A c \in Clock :
          g.x.clk[c] = (IF ~rpm \/ g.pm.active THEN 1 ELSE 0) - g.x.hollow
    BY <1>2, <1>3, <1>6
  <2> QED
    BY <1>2, <1>3, <1>4, <1>6, <2>1
<1>7. CASE rpm /\ ~pm.active /\ Resumed(Power, g) /\ g.pm.active = g.ok
  <2>1. \A c \in Clock : clk[c] = 0 - odd.hollow
    BY <1>3, <1>7
  <2>2. ~released
    BY <1>3, <1>7
  <2>3. CASE /\ g.ok /\ Power.off /\ g.x.off
             /\ g.x.hollow = Power.hollow + 1
             /\ g.x.clk = Power.clk /\ g.x.released = Power.released
    <3>1. \A c \in Clock :
            g.x.clk[c] = (IF ~rpm \/ g.pm.active THEN 1 ELSE 0) - g.x.hollow
      BY <1>2, <1>3, <1>7, <2>1, <2>3
    <3> QED
      BY <1>2, <1>3, <1>4, <1>7, <2>2, <2>3, <3>1
  <2>4. CASE /\ g.ok /\ ~Power.off /\ ~g.x.off /\ g.x.hollow = Power.hollow
             /\ g.x.released
             /\ \A c \in Clock : g.x.clk[c] = Power.clk[c] + 1
    <3>1. odd.hollow = 0
      BY <1>2, <1>3, <2>4
    <3>2. \A c \in Clock :
            g.x.clk[c] = (IF ~rpm \/ g.pm.active THEN 1 ELSE 0) - g.x.hollow
      BY <1>2, <1>3, <1>7, <2>1, <2>4, <3>1
    <3> QED
      BY <1>2, <1>3, <1>4, <1>7, <2>4, <3>1, <3>2
  <2>5. CASE /\ ~g.ok /\ ~Power.off /\ g.x.hollow = Power.hollow
             /\ g.x.released => Power.released /\ ~g.x.off
             /\ \A c \in Clock : g.x.clk[c] = Power.clk[c]
    <3>1. odd.hollow = 0
      BY <1>2, <1>3, <2>5
    <3>2. \A c \in Clock :
            g.x.clk[c] = (IF ~rpm \/ g.pm.active THEN 1 ELSE 0) - g.x.hollow
      BY <1>2, <1>3, <1>7, <2>1, <2>5, <3>1
    <3> QED
      BY <1>2, <1>3, <1>4, <1>7, <2>2, <2>5, <3>1, <3>2
  <2> QED
    BY <1>7, <2>3, <2>4, <2>5 DEF Resumed
<1> QED
  BY <1>1, <1>5, <1>6, <1>7 DEF Got

\* xvp_open keeps the device awake, or fails and leaves the count as it was.
LEMMA OpenKeeps ==
  ASSUME DeviceTypeOK, Powered, NEW f, Open(f)
  PROVE  DeviceTypeOK' /\ Powered'
<1>1. /\ HasNode /\ f \in scope.files \ opened
      /\ UNCHANGED <<scope, stage, rpm, wild>>
  BY DEF Open
<1>2. PICK g \in Gets :
        /\ odd.leaked + odd.hollow < scope.odd \/ (g.ok /\ g.x.hollow = odd.hollow)
        /\ \/ /\ g.ok
              /\ opened' = opened \cup {f}
              /\ pm' = g.pm /\ SetPower(g.x)
              /\ odd' = [odd EXCEPT !.hollow = g.x.hollow]
           \/ /\ g.ok
              /\ pm' = Put(g.pm, g.x).pm /\ SetPower(Put(g.pm, g.x).x)
              /\ odd' = [odd EXCEPT !.hollow = g.x.hollow]
              /\ opened' = opened
           \/ /\ ~g.ok
              /\ pm' = g.pm /\ SetPower(g.x)
              /\ odd' = [odd EXCEPT !.leaked = @ + 1]
              /\ opened' = opened
  BY DEF Open
<1>3. /\ g.ok \in BOOLEAN /\ g.pm \in PmState /\ g.x \in PowerState
      /\ g.pm.usage = pm.usage + 1 /\ g.pm.usage > 0
      /\ g.ok => ~rpm \/ g.pm.active
      /\ ~g.ok => rpm /\ ~pm.active /\ ~g.pm.active
                  /\ g.x.hollow = odd.hollow
      /\ pm.active => g.pm.active
      /\ \A c \in Clock :
           g.x.clk[c] = (IF ~rpm \/ g.pm.active THEN 1 ELSE 0) - g.x.hollow
      /\ g.x.released => ~g.x.off /\ (~rpm \/ g.pm.active)
      /\ g.x.hollow > 0 => g.x.off
      /\ g.x.hollow \in {odd.hollow, odd.hollow + 1}
  BY <1>1, GotFacts
<1>4. /\ scope.odd \in Nat /\ scope.files \subseteq File /\ rpm \in BOOLEAN
      /\ odd \in [hollow : 0 .. scope.odd, leaked : 0 .. scope.odd, stuck : 0 .. 1]
      /\ odd.stuck = 0 /\ opened \subseteq File
      /\ odd.hollow \in Nat /\ odd.leaked \in Nat /\ pm \in PmState
      /\ scope \in Scopes /\ stage \in Stage
  BY <1>1, ScopeFacts, OpenFacts, PowerIsState DEF DeviceTypeOK
<1>5. /\ IsFiniteSet(opened) /\ Cardinality(opened) \in Nat
      /\ pm.usage = Cardinality(opened) + odd.leaked
      /\ rpm /\ opened # {} => pm.active
  BY FS_CardinalityType DEF Powered, Balanced
<1>6. ASSUME NEW o, o = [odd EXCEPT !.hollow = g.x.hollow], g.ok
      PROVE  /\ o \in [hollow : 0 .. scope.odd, leaked : 0 .. scope.odd, stuck : 0 .. 1]
             /\ o.hollow = g.x.hollow /\ o.leaked = odd.leaked /\ o.stuck = 0
  <2>1. g.x.hollow \in 0 .. scope.odd
    BY <1>2, <1>3, <1>4
  <2> QED
    BY <1>4, <1>6, <2>1
<1>7. CASE /\ g.ok
           /\ opened' = opened \cup {f}
           /\ pm' = g.pm /\ SetPower(g.x)
           /\ odd' = [odd EXCEPT !.hollow = g.x.hollow]
  <2>1. /\ odd' \in [hollow : 0 .. scope.odd, leaked : 0 .. scope.odd, stuck : 0 .. 1]
        /\ odd'.hollow = g.x.hollow /\ odd'.leaked = odd.leaked /\ odd'.stuck = 0
    BY <1>6, <1>7
  <2>2. off' = g.x.off /\ clk' = g.x.clk /\ released' = g.x.released
    BY <1>7 DEF SetPower
  <2>3. DeviceTypeOK'
    BY <1>1, <1>3, <1>4, <1>7, <2>1, <2>2 DEF DeviceTypeOK, PowerState, PmState
  <2>4. IsFiniteSet(opened') /\ Cardinality(opened') = Cardinality(opened) + 1
    BY <1>1, <1>5, <1>7, FS_AddElement
  <2>5. pm'.usage = Cardinality(opened') + odd'.leaked
    BY <1>3, <1>4, <1>5, <1>7, <2>1, <2>4
  <2>6. odd'.hollow \in Nat
    BY <1>4, <1>3, <2>1
  <2> QED
    BY <1>1, <1>3, <1>7, <2>1, <2>2, <2>3, <2>4, <2>5, <2>6, Rebalance
<1>8. CASE /\ g.ok
           /\ pm' = Put(g.pm, g.x).pm /\ SetPower(Put(g.pm, g.x).x)
           /\ odd' = [odd EXCEPT !.hollow = g.x.hollow]
           /\ opened' = opened
  <2>1. /\ odd' \in [hollow : 0 .. scope.odd, leaked : 0 .. scope.odd, stuck : 0 .. 1]
        /\ odd'.hollow = g.x.hollow /\ odd'.leaked = odd.leaked /\ odd'.stuck = 0
    BY <1>6, <1>8
  <2>2. PICK q \in PmState, y \in PowerState :
          /\ q = Put(g.pm, g.x).pm /\ y = Put(g.pm, g.x).x
          /\ q.usage = g.pm.usage - 1
          /\ \/ /\ ~(rpm /\ g.pm.active /\ g.pm.usage = 1)
                /\ y = g.x /\ q.active = g.pm.active
             \/ /\ rpm /\ g.pm.active /\ g.pm.usage = 1
                /\ ~q.active /\ y.off = g.x.off /\ ~y.released
                /\ y.hollow = g.x.hollow
                /\ \A c \in Clock : y.clk[c] = g.x.clk[c] - 1
    BY <1>3, <1>4, PutFacts
  <2>3. pm' = q /\ off' = y.off /\ clk' = y.clk /\ released' = y.released
    BY <1>8, <2>2 DEF SetPower
  <2>4. DeviceTypeOK'
    BY <1>1, <1>4, <1>8, <2>1, <2>2, <2>3 DEF DeviceTypeOK, PowerState, PmState
  <2>5. pm'.usage = Cardinality(opened') + odd'.leaked
    BY <1>3, <1>4, <1>5, <1>8, <2>1, <2>2, <2>3 DEF PmState
  <2>6. odd'.hollow \in Nat
    BY <1>4, <1>3, <2>1
  <2>7. \A c \in Clock :
          clk'[c] = (IF ~rpm \/ pm'.active THEN 1 ELSE 0) - odd'.hollow
    <3>1. CASE y = g.x /\ q.active = g.pm.active
      BY <1>3, <2>1, <2>3, <3>1
    <3>2. CASE /\ rpm /\ g.pm.active /\ ~q.active
               /\ \A c \in Clock : y.clk[c] = g.x.clk[c] - 1
      BY <1>3, <2>1, <2>3, <2>6, <3>2
    <3> QED
      BY <2>2, <3>1, <3>2
  <2>8. rpm /\ opened' # {} => pm'.active
    <3> SUFFICES ASSUME rpm, opened # {} PROVE q.active
      BY <1>8, <2>3
    <3>1. Cardinality(opened) # 0
      BY <1>5, FS_EmptySet
    <3>2. g.pm.usage # 1 /\ g.pm.active
      BY <1>3, <1>4, <1>5, <3>1
    <3> QED
      BY <2>2, <3>2
  <2>9. (released' => ~off' /\ (~rpm \/ pm'.active)) /\ (odd'.hollow > 0 => off')
    BY <1>3, <2>1, <2>2, <2>3
  <2>10. IsFiniteSet(opened')
    BY <1>5, <1>8
  <2> QED
    BY <1>1, <2>1, <2>4, <2>5, <2>6, <2>7, <2>8, <2>9, <2>10, Rebalance
<1>9. CASE /\ ~g.ok
           /\ pm' = g.pm /\ SetPower(g.x)
           /\ odd' = [odd EXCEPT !.leaked = @ + 1]
           /\ opened' = opened
  <2>1. /\ odd' \in [hollow : 0 .. scope.odd, leaked : 0 .. scope.odd, stuck : 0 .. 1]
        /\ odd'.hollow = odd.hollow /\ odd'.leaked = odd.leaked + 1 /\ odd'.stuck = 0
    <3>1. odd.leaked + 1 \in 0 .. scope.odd
      BY <1>2, <1>4, <1>9
    <3> QED
      BY <1>4, <1>9, <3>1
  <2>2. off' = g.x.off /\ clk' = g.x.clk /\ released' = g.x.released
    BY <1>9 DEF SetPower
  <2>3. DeviceTypeOK'
    BY <1>1, <1>3, <1>4, <1>9, <2>1, <2>2 DEF DeviceTypeOK, PowerState, PmState
  <2>4. IsFiniteSet(opened') /\ pm'.usage = Cardinality(opened') + odd'.leaked
    BY <1>3, <1>4, <1>5, <1>9, <2>1
  <2>5. opened' = {} \/ ~rpm
    BY <1>3, <1>5, <1>9
  <2>6. odd'.hollow \in Nat /\ odd'.hollow = g.x.hollow
    BY <1>3, <1>4, <1>9, <2>1
  <2> QED
    BY <1>1, <1>3, <1>9, <2>1, <2>2, <2>3, <2>4, <2>5, <2>6, Rebalance
<1> QED
  BY <1>2, <1>7, <1>8, <1>9

\* xvp_close gives up what its open took.
LEMMA ClosePowerKeeps ==
  ASSUME DeviceTypeOK, Powered, NEW f, ClosePower(f)
  PROVE  DeviceTypeOK' /\ Powered'
<1>1. /\ HasNode /\ f \in opened /\ opened' = opened \ {f}
      /\ pm' = Put(pm, Power).pm /\ SetPower(Put(pm, Power).x)
      /\ UNCHANGED <<scope, stage, rpm, odd>>
  BY DEF ClosePower
<1>2. /\ Power \in PowerState /\ pm \in PmState
      /\ Power.off = off /\ Power.clk = clk /\ Power.released = released
      /\ Power.hollow = odd.hollow
  BY PowerIsState
<1>3. /\ odd.stuck = 0 /\ odd.hollow \in Nat /\ odd.leaked \in Nat
      /\ rpm \in BOOLEAN /\ (Awake <=> ~rpm \/ pm.active)
      /\ clk \in [Clock -> Int] /\ released \in BOOLEAN /\ off \in BOOLEAN
      /\ \A c \in Clock : clk[c] = (IF Awake THEN 1 ELSE 0) - odd.hollow
      /\ odd.hollow > 0 => off
      /\ released => ~off /\ Awake
  BY <1>1, OpenFacts
<1>4. /\ IsFiniteSet(opened) /\ Cardinality(opened) \in Nat
      /\ Cardinality(opened) > 0
      /\ pm.usage = Cardinality(opened) + odd.leaked
      /\ rpm => pm.active
  <2>1. IsFiniteSet(opened) /\ Cardinality(opened) \in Nat
    BY FS_CardinalityType DEF Powered
  <2>2. Cardinality(opened) # 0
    BY <1>1, <2>1, FS_EmptySet
  <2> QED
    BY <1>1, <2>1, <2>2 DEF Powered, Balanced
<1>5. IsFiniteSet(opened') /\ Cardinality(opened') = Cardinality(opened) - 1
  BY <1>1, <1>4, FS_RemoveElement
<1>6. PICK q \in PmState, y \in PowerState :
        /\ q = Put(pm, Power).pm /\ y = Put(pm, Power).x
        /\ q.usage = pm.usage - 1
        /\ \/ /\ ~(rpm /\ pm.active /\ pm.usage = 1)
              /\ y = Power /\ q.active = pm.active
           \/ /\ rpm /\ pm.active /\ pm.usage = 1
              /\ ~q.active /\ y.off = Power.off /\ ~y.released
              /\ y.hollow = Power.hollow
              /\ \A c \in Clock : y.clk[c] = Power.clk[c] - 1
  <2>1. pm.usage > 0
    BY <1>3, <1>4
  <2> QED
    BY <1>2, <1>3, <2>1, PutFacts
<1>7. pm' = q /\ off' = y.off /\ clk' = y.clk /\ released' = y.released
  BY <1>1, <1>6 DEF SetPower
<1>8. DeviceTypeOK'
  BY <1>1, <1>6, <1>7 DEF DeviceTypeOK, PowerState, PmState
<1>9. pm'.usage = Cardinality(opened') + odd'.leaked
  BY <1>1, <1>3, <1>4, <1>5, <1>6, <1>7 DEF PmState
<1>10. \A c \in Clock :
         clk'[c] = (IF ~rpm \/ pm'.active THEN 1 ELSE 0) - odd'.hollow
  <2>1. CASE y = Power /\ q.active = pm.active
    BY <1>1, <1>2, <1>3, <1>7, <2>1
  <2>2. CASE /\ rpm /\ pm.active /\ ~q.active
             /\ \A c \in Clock : y.clk[c] = Power.clk[c] - 1
    BY <1>1, <1>2, <1>3, <1>7, <2>2
  <2> QED
    BY <1>6, <2>1, <2>2
<1>11. rpm /\ opened' # {} => pm'.active
  <2> SUFFICES ASSUME rpm, opened' # {} PROVE q.active
    BY <1>7
  <2>1. Cardinality(opened') # 0 /\ Cardinality(opened') \in Nat
    BY <1>5, FS_EmptySet, FS_CardinalityType
  <2>2. pm.usage # 1 /\ pm.active
    BY <1>3, <1>4, <1>5, <2>1
  <2> QED
    BY <1>6, <2>2
<1>12. (released' => ~off' /\ (~rpm \/ pm'.active)) /\ (odd'.hollow > 0 => off')
  BY <1>1, <1>2, <1>3, <1>6, <1>7
<1>13. odd'.stuck = 0 /\ odd'.hollow \in Nat /\ stage' = stage /\ rpm' = rpm
  BY <1>1, <1>3
<1> QED
  BY <1>1, <1>5, <1>8, <1>9, <1>10, <1>11, <1>12, <1>13, Rebalance

\* A reboot after a timeout runs on a device that is awake.
LEMMA RebootKeeps ==
  ASSUME DeviceTypeOK, Powered, Reboot
  PROVE  DeviceTypeOK' /\ Powered'
<1>1. /\ HasNode /\ opened # {} /\ ~off
      /\ UNCHANGED <<scope, stage, rpm, pm, opened, odd>>
  BY DEF Reboot
<1>2. /\ Power \in PowerState /\ pm \in PmState
      /\ Power.off = off /\ Power.clk = clk /\ Power.released = released
      /\ Power.hollow = odd.hollow
  BY PowerIsState
<1>3. /\ odd.stuck = 0 /\ odd.hollow \in Nat /\ odd.leaked \in Nat
      /\ rpm \in BOOLEAN /\ (Awake <=> ~rpm \/ pm.active)
      /\ clk \in [Clock -> Int]
      /\ \A c \in Clock : clk[c] = (IF Awake THEN 1 ELSE 0) - odd.hollow
      /\ odd.hollow > 0 => off
  BY <1>1, OpenFacts
<1>4. PICK b \in BootFirmware(Power) : SetPower(b.x)
  BY DEF Reboot
<1>5. /\ b.ok \in BOOLEAN /\ b.x \in PowerState
      /\ b.x.clk = clk
      /\ b.ok => b.x.released /\ b.x.off = off
      /\ ~b.ok => ~b.x.released
  BY <1>2, BootFacts
<1>6. off' = b.x.off /\ clk' = b.x.clk /\ released' = b.x.released
  BY <1>4 DEF SetPower
<1>7. DeviceTypeOK'
  BY <1>1, <1>5, <1>6 DEF DeviceTypeOK, PowerState
<1>8. /\ IsFiniteSet(opened) /\ pm.usage = Cardinality(opened) + odd.leaked
      /\ rpm => pm.active
  BY <1>1 DEF Powered, Balanced
<1>9. odd.hollow = 0
  BY <1>1, <1>3
<1> QED
  BY <1>1, <1>3, <1>5, <1>6, <1>7, <1>8, <1>9, Rebalance

(***************************************************************************)
(* Any step of the driver, as far as the device is concerned.              *)
(***************************************************************************)

\* A device that was not probed is off and nobody counts on it.
LEMMA DeviceStart ==
  ASSUME DeviceInit
  PROVE  DeviceTypeOK /\ Powered
<1>1. /\ scope \in Scopes /\ stage = "none" /\ rpm = scope.rpm
      /\ off = FALSE /\ released = FALSE /\ clk = [c \in Clock |-> 0]
      /\ pm = [active |-> FALSE, usage |-> 0, error |-> FALSE]
      /\ opened = {} /\ odd = [hollow |-> 0, leaked |-> 0, stuck |-> 0]
  BY DEF DeviceInit
<1>2. rpm \in BOOLEAN /\ scope.odd \in Nat
  BY <1>1, ScopeFacts
<1>3. odd \in [hollow : 0 .. scope.odd, leaked : 0 .. scope.odd, stuck : 0 .. 1]
  BY <1>1, <1>2
<1>4. DeviceTypeOK
  <2>1. clk \in [Clock -> Int]
    BY <1>1
  <2>2. pm \in [active : BOOLEAN, usage : Nat, error : BOOLEAN]
    BY <1>1
  <2>3. stage \in Stage /\ off \in BOOLEAN /\ released \in BOOLEAN
    BY <1>1 DEF Stage
  <2> QED
    BY <1>1, <1>2, <1>3, <2>1, <2>2, <2>3 DEF DeviceTypeOK
<1>5. ~Awake
  BY <1>1 DEF Awake
<1>6. IsFiniteSet({}) /\ Cardinality({}) = 0
  BY FS_EmptySet
<1>7. Balanced
  BY <1>1, <1>5, <1>6 DEF Balanced
<1> QED
  BY <1>1, <1>4, <1>6, <1>7 DEF Powered

\* A step that leaves the device alone, whatever else goes wrong.
LEMMA DeviceIdle ==
  ASSUME DeviceTypeOK, UNCHANGED <<scope, stage, rpm, power, opened>>
  PROVE  DeviceTypeOK' /\ (Powered => Powered')
<1>1. UNCHANGED <<scope, stage, rpm, off, clk, released, pm, odd, opened>>
  BY DEF power
<1>2. DeviceTypeOK'
  BY <1>1 DEF DeviceTypeOK
<1>3. Awake' = Awake
  BY <1>1 DEF Awake
<1>4. Balanced => Balanced'
  BY <1>1, <1>3 DEF Balanced
<1> QED
  BY <1>1, <1>2, <1>4 DEF Powered

\* The steps of the probe before the boot leave the power as it is.
LEMMA ProbeStepKeeps ==
  ASSUME DeviceTypeOK, Powered,
         ProbeIrq \/ ProbeClocks \/ ProbeRegs \/ ProbeQueues
  PROVE  DeviceTypeOK' /\ Powered'
<1>1. /\ UNCHANGED <<scope, rpm, off, clk, released, pm, opened, odd>>
      /\ stage \in Early /\ stage' \in Early \cup {"gone", "void"}
      /\ stage' \in Stage
  <2>1. ASSUME ProbeIrq \/ ProbeClocks \/ ProbeRegs
        PROVE  /\ UNCHANGED <<scope, rpm, off, clk, released, pm, opened, odd>>
               /\ stage \in Early /\ stage' \in Early \cup {"gone", "void"}
               /\ stage' \in Stage
    BY <2>1 DEF ProbeIrq, ProbeClocks, ProbeRegs, ProbeStep, Early, Stage
  <2>2. ASSUME ProbeQueues
        PROVE  /\ UNCHANGED <<scope, rpm, off, clk, released, pm, opened, odd>>
               /\ stage \in Early /\ stage' \in Early \cup {"gone", "void"}
               /\ stage' \in Stage
    BY <2>2 DEF ProbeQueues, Early, Stage
  <2> QED
    BY <2>1, <2>2
<1> QED
  BY <1>1, ProbeKeeps

(***************************************************************************)
(* The list of dma-bufs.                                                   *)
(***************************************************************************)

Distinct(s) == \A i, j \in DOMAIN s : s[i] = s[j] => i = j

\* The least element of a set of numbers.
LEMMA Smallest ==
  ASSUME NEW T, T \subseteq Nat, T # {}
  PROVE  Min(T) \in T
<1>1. PICK R : /\ R = {p \in Nat \X Nat : p[1] < p[2]}
               /\ IsWellFoundedOn(R, Nat)
  BY NatLessThanWellFounded DEF OpToRel
<1>2. PICK x \in T : \A y \in T : ~(<<y, x>> \in R)
  BY <1>1, WFMin
<1>3. ASSUME NEW y \in T PROVE x <= y
  <2>1. x \in Nat /\ y \in Nat
    BY <1>2
  <2>2. y < x => <<y, x>> \in R
    BY <1>1, <2>1
  <2> QED
    BY <1>2, <2>1, <2>2
<1> QED
  BY <1>3 DEF Min

\* The first place where a list holds x.
LEMMA FirstPlace ==
  ASSUME NEW S, NEW s \in Seq(S), NEW I, I \subseteq 1 .. Len(s), I # {}
  PROVE  Min(I) \in I
<1>1. I \subseteq Nat
  OBVIOUS
<1> QED
  BY <1>1, Smallest

\* What is in a sequence is at some place of it.
LEMMA ToSetFacts ==
  ASSUME NEW S, NEW s \in Seq(S)
  PROVE  /\ ToSet(s) \subseteq S
         /\ \A i \in 1 .. Len(s) : s[i] \in ToSet(s)
         /\ \A x \in ToSet(s) : \E i \in 1 .. Len(s) : x = s[i]
  BY DEF ToSet

\* An item that is new goes to the end of the list.
LEMMA AppendFacts ==
  ASSUME NEW S, NEW s \in Seq(S), NEW x \in S, x \notin ToSet(s), Distinct(s)
  PROVE  /\ Append(s, x) \in Seq(S) /\ Distinct(Append(s, x))
         /\ ToSet(Append(s, x)) = ToSet(s) \cup {x}
<1>1. PICK t \in Seq(S) : t = Append(s, x)
  <2>1. Append(s, x) \in Seq(S)
    OBVIOUS
  <2> QED
    BY <2>1
<1>2. /\ Len(t) = Len(s) + 1 /\ Len(s) \in Nat /\ t[Len(s) + 1] = x
      /\ \A i \in 1 .. Len(s) : t[i] = s[i]
      /\ DOMAIN t = 1 .. Len(s) + 1 /\ DOMAIN s = 1 .. Len(s)
  BY <1>1
<1>3. \A i \in 1 .. Len(s) : s[i] # x
  BY ToSetFacts
<1>4. Distinct(t)
  BY <1>2, <1>3 DEF Distinct
<1>5. ASSUME NEW y
      PROVE  y \in ToSet(t) <=> y \in ToSet(s) \cup {x}
  BY <1>2 DEF ToSet
<1> QED
  BY <1>1, <1>4, <1>5

\* list_del takes one item off a list without repetitions.
LEMMA RemoveFacts ==
  ASSUME NEW S, NEW s \in Seq(S), NEW x, Distinct(s)
  PROVE  /\ RemoveFirst(s, x) \in Seq(S) /\ Distinct(RemoveFirst(s, x))
         /\ ToSet(RemoveFirst(s, x)) = ToSet(s) \ {x}
<1>1. CASE ~\E i \in 1 .. Len(s) : s[i] = x
  <2>1. RemoveFirst(s, x) = s
    BY <1>1 DEF RemoveFirst
  <2>2. x \notin ToSet(s)
    BY <1>1, ToSetFacts
  <2> QED
    BY <2>1, <2>2
<1>2. CASE \E i \in 1 .. Len(s) : s[i] = x
  <2>1. PICK I : I = {i \in 1 .. Len(s) : s[i] = x}
    OBVIOUS
  <2>2. I # {} /\ I \subseteq 1 .. Len(s)
    BY <1>2, <2>1
  <2>3. RemoveFirst(s, x) = RemoveAt(s, Min(I))
    <3>1. SelectInSeq(s, LAMBDA v : v = x) = Min(I)
      BY <2>1, <2>2 DEF SelectInSeq
    <3> QED
      BY <1>2, <3>1 DEF RemoveFirst
  <2>4. PICK k \in 1 .. Len(s) : k = Min(I) /\ s[k] = x
    BY <2>1, <2>2, FirstPlace
  <2>5. PICK t : t = SubSeq(s, 1, k - 1) \o SubSeq(s, k + 1, Len(s))
    OBVIOUS
  <2>6. /\ t \in Seq(S) /\ Len(t) = Len(s) - 1
        /\ \A i \in 1 .. k - 1 : t[i] = s[i]
        /\ \A i \in k .. Len(s) - 1 : t[i] = s[i + 1]
    <3>1. PICK a \in Seq(S) : a = SubSeq(s, 1, k - 1)
      <4>1. SubSeq(s, 1, k - 1) \in Seq(S)
        BY <2>4, SubSeqProperties
      <4> QED
        BY <4>1
    <3>2. Len(a) = k - 1 /\ \A i \in 1 .. k - 1 : a[i] = s[i]
      BY <3>1
    <3>3. PICK b \in Seq(S) : b = SubSeq(s, k + 1, Len(s))
      <4>1. SubSeq(s, k + 1, Len(s)) \in Seq(S)
        BY <2>4, SubSeqProperties
      <4> QED
        BY <4>1
    <3>4. Len(b) = Len(s) - k /\ \A i \in 1 .. Len(s) - k : b[i] = s[k + i]
      BY <3>3
    <3>5. t = a \o b
      BY <2>5, <3>1, <3>3
    <3>6. t \in Seq(S) /\ Len(t) = Len(s) - 1
      BY <3>2, <3>4, <3>5
    <3>7. \A i \in 1 .. k - 1 : t[i] = a[i]
      BY <3>2, <3>4, <3>5
    <3>8. \A i \in k .. Len(s) - 1 : t[i] = b[i - (k - 1)]
      BY <3>2, <3>4, <3>5
    <3> QED
      BY <3>2, <3>4, <3>6, <3>7, <3>8
  <2>7. /\ DOMAIN t = 1 .. Len(s) - 1 /\ DOMAIN s = 1 .. Len(s) /\ Len(s) \in Nat
    BY <2>6
  <2>8. \A i \in 1 .. Len(s) : s[i] = x => i = k
    BY <2>4, <2>7 DEF Distinct
  <2>9. \A i \in 1 .. Len(s) - 1 : \E j \in 1 .. Len(s) :
          t[i] = s[j] /\ j # k /\ j = IF i < k THEN i ELSE i + 1
    BY <2>6, <2>7
  <2>10. Distinct(t)
    <3> SUFFICES ASSUME NEW i \in 1 .. Len(s) - 1, NEW j \in 1 .. Len(s) - 1, t[i] = t[j]
                 PROVE  i = j
      BY <2>7 DEF Distinct
    <3>1. PICK m \in 1 .. Len(s) : t[i] = s[m] /\ m = IF i < k THEN i ELSE i + 1
      BY <2>9
    <3>2. PICK n \in 1 .. Len(s) : t[j] = s[n] /\ n = IF j < k THEN j ELSE j + 1
      BY <2>9
    <3>3. m = n
      BY <3>1, <3>2, <2>7 DEF Distinct
    <3> QED
      BY <3>1, <3>2, <3>3
  <2>11. ASSUME NEW y
         PROVE  y \in ToSet(t) <=> y \in ToSet(s) \ {x}
    <3>1. ASSUME y \in ToSet(t)
          PROVE  y \in ToSet(s) /\ y # x
      <4>1. PICK i \in 1 .. Len(s) - 1 : y = t[i]
        BY <2>7, <3>1 DEF ToSet
      <4>2. PICK j \in 1 .. Len(s) : t[i] = s[j] /\ j # k
        BY <2>9
      <4> QED
        BY <4>1, <4>2, <2>8, ToSetFacts
    <3>2. ASSUME y \in ToSet(s), y # x
          PROVE  y \in ToSet(t)
      <4>1. PICK j \in 1 .. Len(s) : y = s[j]
        BY <3>2, ToSetFacts
      <4>2. j # k
        BY <2>4, <3>2, <4>1
      <4>3. PICK i \in 1 .. Len(s) - 1 : t[i] = s[j]
        <5>1. CASE j < k
          <6>1. j \in 1 .. k - 1 /\ j \in 1 .. Len(s) - 1
            BY <5>1
          <6> QED
            BY <6>1, <2>6
        <5>2. CASE j > k
          <6>1. j - 1 \in k .. Len(s) - 1 /\ j - 1 \in 1 .. Len(s) - 1 /\ (j - 1) + 1 = j
            BY <5>2
          <6> QED
            BY <6>1, <2>6
        <5> QED
          BY <4>2, <5>1, <5>2
      <4> QED
        BY <2>7, <4>1, <4>3 DEF ToSet
    <3> QED
      BY <3>1, <3>2
  <2>12. RemoveFirst(s, x) = t
    BY <2>3, <2>4, <2>5 DEF RemoveAt
  <2> QED
    BY <2>6, <2>10, <2>11, <2>12
<1> QED
  BY <1>1, <1>2

\* The search of the list finds an item of the dma-buf if there is one.
LEMMA SearchFacts ==
  ASSUME DmaTypeOK, NEW b \in DmaBuf
  PROVE  \/ Search(b) = Nil /\ \A x \in ToSet(list) : item[x].buf # b
         \/ Search(b) \in ToSet(list) /\ Search(b) \in Item /\ Search(b) # Nil
            /\ item[Search(b)].buf = b
<1>1. list \in Seq(Item)
  BY DEF DmaTypeOK
<1>2. PICK I : I = {i \in 1 .. Len(list) : item[list[i]].buf = b}
  OBVIOUS
<1>3. PICK i : i = SelectInSeq(list, LAMBDA x : item[x].buf = b)
  OBVIOUS
<1>4. i = IF I # {} THEN Min(I) ELSE 0
  BY <1>2, <1>3 DEF SelectInSeq
<1>5. Search(b) = IF i = 0 THEN Nil ELSE list[i]
  BY <1>3 DEF Search
<1>6. CASE I = {}
  <2>1. Search(b) = Nil
    BY <1>4, <1>5, <1>6
  <2>2. \A x \in ToSet(list) : item[x].buf # b
    BY <1>1, <1>2, <1>6, ToSetFacts
  <2> QED
    BY <2>1, <2>2
<1>7. CASE I # {}
  <2>1. i \in I
    BY <1>1, <1>2, <1>4, <1>7, FirstPlace
  <2>2. i \in 1 .. Len(list) /\ item[list[i]].buf = b
    BY <1>2, <2>1
  <2>3. Search(b) = list[i]
    BY <1>5, <2>2
  <2>4. Nil \notin Item
    BY DmaAssumption
  <2> QED
    BY <1>1, <2>2, <2>3, <2>4, ToSetFacts
<1> QED
  BY <1>6, <1>7

(***************************************************************************)
(* The items, the threads and the imports.                                 *)
(***************************************************************************)

Piece == [buf : DmaBuf \cup {Nil}, ref : Nat, attached : BOOLEAN]
Call  == [buf : DmaBuf \cup {Nil}, item : Item \cup {Nil}]
Place == {"idle", "attach", "known", "check", "detach", "drop"}
Mishap == {"again", "no_memory", "pieces", "fault"}

\* ListSound in terms of the items.
Lone ==
  mess = {} =>
    /\ "dma_item" \notin wild
    /\ \A x, y \in ToSet(list) : item[x].buf = item[y].buf => x = y
    /\ \A x \in Item : InUse(x) => x \in ToSet(list)
    /\ \A x \in ToSet(list) : /\ item[x].ref = 1
                              /\ item[x].attached \/ Dropping(x)

Imports == Listed /\ Threads /\ Counted /\ Single /\ Lone

\* The type invariant, variable by variable.
LEMMA DmaTypes ==
  ASSUME DmaTypeOK
  PROVE  /\ list \in Seq(Item) /\ item \in [Item -> Piece]
         /\ held \in [DmaBuf -> Int]
         /\ dpc \in [File -> Place] /\ at \in [File -> Call]
         /\ got \in [File -> [DmaBuf -> Nat]]
         /\ imports \in Nat /\ imports <= MaxImport
         /\ lapsed \in [DmaBuf -> Nat] /\ overput \in [DmaBuf -> Nat]
         /\ mess \subseteq Mishap
         /\ ToSet(list) \subseteq Item
<1>1. imports \in Nat /\ imports <= MaxImport
  BY DmaAssumption DEF DmaTypeOK
<1>2. list \in Seq(Item)
  BY DEF DmaTypeOK
<1> QED
  BY <1>1, <1>2, ToSetFacts DEF DmaTypeOK, Piece, Call, Place, Mishap

\* The type invariant from the type of each variable.
LEMMA DmaTyped ==
  ASSUME list' \in Seq(Item), item' \in [Item -> Piece],
         held' \in [DmaBuf -> Int],
         dpc' \in [File -> Place], at' \in [File -> Call],
         got' \in [File -> [DmaBuf -> Nat]],
         imports' \in Nat, imports' <= MaxImport,
         lapsed' \in [DmaBuf -> Nat], overput' \in [DmaBuf -> Nat],
         mess' \subseteq Mishap
  PROVE  DmaTypeOK'
<1>1. imports' \in 0 .. MaxImport
  BY DmaAssumption
<1> QED
  BY <1>1 DEF DmaTypeOK, Piece, Call, Place, Mishap

\* A thread goes on; the others stay where they are.
LEMMA EnterFacts ==
  ASSUME DmaTypeOK, NEW f \in File, NEW to \in Place,
         NEW b \in DmaBuf \cup {Nil}, NEW x \in Item \cup {Nil},
         Enter(f, to, b, x)
  PROVE  /\ dpc' \in [File -> Place] /\ at' \in [File -> Call]
         /\ dpc'[f] = to /\ at'[f].buf = b /\ at'[f].item = x
         /\ \A g \in File \ {f} : dpc'[g] = dpc[g] /\ at'[g] = at[g]
<1>1. dpc \in [File -> Place] /\ at \in [File -> Call]
  BY DmaTypes
<1>2. [buf |-> b, item |-> x] \in Call
  BY DEF Call
<1> QED
  BY <1>1, <1>2 DEF Enter

\* Counting the driver's references keeps their type.
LEMMA HoldTyped ==
  ASSUME DmaTypeOK, NEW b \in DmaBuf, NEW n \in Int, Hold(b, n)
  PROVE  held' \in [DmaBuf -> Int]
<1>1. held \in [DmaBuf -> Int]
  BY DmaTypes
<1> QED
  BY <1>1 DEF Hold

\* An item changes; the others stay.
LEMMA ItemFacts ==
  ASSUME DmaTypeOK, NEW x \in Item, NEW p \in Piece,
         item' = [item EXCEPT ![x] = p]
  PROVE  /\ item' \in [Item -> Piece] /\ item'[x] = p
         /\ \A y \in Item \ {x} : item'[y] = item[y]
<1>1. item \in [Item -> Piece]
  BY DmaTypes
<1> QED
  BY <1>1

\* A reference more, and the last one.
LEMMA CountItem ==
  ASSUME DmaTypeOK, NEW x \in Item, item' = [item EXCEPT ![x].ref = @ + 1]
  PROVE  /\ item' \in [Item -> Piece]
         /\ item'[x].ref = item[x].ref + 1 /\ item[x].ref \in Nat
         /\ item'[x].buf = item[x].buf /\ item'[x].attached = item[x].attached
         /\ \A y \in Item \ {x} : item'[y] = item[y]
<1>1. item \in [Item -> Piece]
  BY DmaTypes
<1>2. item[x] \in Piece
  BY <1>1
<1>3. PICK p : p = [item[x] EXCEPT !.ref = @ + 1]
  OBVIOUS
<1>4. /\ p \in Piece /\ p.ref = item[x].ref + 1 /\ p.buf = item[x].buf
      /\ p.attached = item[x].attached /\ item[x].ref \in Nat
  BY <1>2, <1>3 DEF Piece
<1>5. item' = [item EXCEPT ![x] = p]
  BY <1>3
<1> QED
  BY <1>4, <1>5, ItemFacts

\* Dropping an item's reference: the last one frees it and takes it off the
\* list.
LEMMA ReleaseFacts ==
  ASSUME DmaTypeOK, NEW x \in Item, item[x].ref > 0, ReleaseItem(x),
         Distinct(list)
  PROVE  /\ item' \in [Item -> Piece] /\ list' \in Seq(Item) /\ Distinct(list')
         /\ \A y \in Item \ {x} : item'[y] = item[y]
         /\ \/ /\ item[x].ref = 1 /\ item'[x] = NoItem
               /\ item'[x].ref = 0 /\ item'[x].buf = Nil /\ ~item'[x].attached
               /\ ToSet(list') = ToSet(list) \ {x}
            \/ /\ item[x].ref > 1 /\ item[x].ref \in Nat
               /\ item'[x].ref = item[x].ref - 1
               /\ item'[x].buf = item[x].buf
               /\ item'[x].attached = item[x].attached
               /\ list' = list
<1>1. item \in [Item -> Piece] /\ list \in Seq(Item)
  BY DmaTypes
<1>2. item[x] \in Piece
  BY <1>1
<1>3. item[x].ref \in Nat
  BY <1>2 DEF Piece
<1>4. CASE item[x].ref = 1
  <2>1. item' = [item EXCEPT ![x] = NoItem] /\ list' = RemoveFirst(list, x)
    BY <1>4 DEF ReleaseItem
  <2>2. NoItem \in Piece
    BY DEF NoItem, Piece
  <2>3. item'[x] = NoItem /\ item' \in [Item -> Piece] /\ \A y \in Item \ {x} : item'[y] = item[y]
    BY <2>1, <2>2, ItemFacts
  <2>4. NoItem.ref = 0 /\ NoItem.buf = Nil /\ ~NoItem.attached
    BY DEF NoItem
  <2>5. list' \in Seq(Item) /\ Distinct(list') /\ ToSet(list') = ToSet(list) \ {x}
    BY <1>1, <2>1, RemoveFacts
  <2> QED
    BY <1>4, <2>3, <2>4, <2>5
<1>5. CASE item[x].ref # 1
  <2>1. PICK p : p = [item[x] EXCEPT !.ref = @ - 1]
    OBVIOUS
  <2>2. /\ p \in Piece /\ p.ref = item[x].ref - 1 /\ p.buf = item[x].buf
        /\ p.attached = item[x].attached
    BY <1>2, <1>3, <2>1 DEF Piece
  <2>3. item' = [item EXCEPT ![x] = p] /\ list' = list
    BY <1>5, <2>1 DEF ReleaseItem
  <2> QED
    BY <1>1, <1>3, <1>5, <2>2, <2>3, ItemFacts
<1> QED
  BY <1>4, <1>5

\* What the fields say of an item that is in use.
LEMMA InUseFacts ==
  ASSUME NEW x
  PROVE  (item[x].ref # 0 \/ item[x].buf # Nil \/ item[x].attached) => InUse(x)
  BY DEF InUse, NoItem

\* A step that touches no dma-buf and no item.
LEMMA ImportsIdle ==
  ASSUME DmaTypeOK, Imports, UNCHANGED dmaVars, "dma_item" \notin wild'
  PROVE  DmaTypeOK' /\ Imports'
<1>1. UNCHANGED <<list, item, held, dpc, at, got, imports, lapsed, overput, mess>>
  BY DEF dmaVars
<1>2. DmaTypeOK'
  BY <1>1 DEF DmaTypeOK
<1>3. Listed' /\ Threads' /\ Counted' /\ Single'
  BY <1>1 DEF Imports, Listed, Threads, Counted, Single, Dropping
<1>4. Lone'
  BY <1>1 DEF Imports, Lone, Dropping, InUse
<1> QED
  BY <1>2, <1>3, <1>4 DEF Imports

\* An import that fails before it has touched the list.
LEMMA GiveUpKeeps ==
  ASSUME DmaTypeOK, Imports, "dma_item" \notin wild', NEW f \in File,
         Enter(f, "idle", Nil, Nil), mess' = mess \cup {"no_memory"},
         UNCHANGED <<list, item, got>>
  PROVE  Imports'
<1>1. /\ dpc'[f] = "idle"
      /\ \A g \in File \ {f} : dpc'[g] = dpc[g] /\ at'[g] = at[g]
  BY EnterFacts DEF Place
<1>2. dpc' \in [File -> Place]
  BY EnterFacts DEF Place
<1>3. \A x : Dropping(x)' => Dropping(x)
  BY <1>1 DEF Dropping
<1>4. Listed' /\ Threads'
  BY <1>1 DEF Imports, Listed, Threads
<1>5. Counted'
  BY <1>1, <1>3 DEF Imports, Counted
<1>6. Single' /\ Lone'
  BY DEF Single, Lone
<1> QED
  BY <1>4, <1>5, <1>6 DEF Imports

\* xrp_import_dma_buf looks for the dma-buf and takes a reference if it is
\* known.
LEMMA LookupKeeps ==
  ASSUME DmaTypeOK, DeviceTypeOK, Imports, NEW f \in File, NEW b \in DmaBuf,
         ImportLookup(f, b)
  PROVE  DmaTypeOK' /\ Imports'
<1>1. wild = {} /\ dpc[f] = "idle" /\ imports < MaxImport
  BY DEF ImportLookup, Begin
<1>2. /\ list \in Seq(Item) /\ item \in [Item -> Piece]
      /\ held \in [DmaBuf -> Int] /\ dpc \in [File -> Place] /\ at \in [File -> Call]
      /\ got \in [File -> [DmaBuf -> Nat]] /\ imports \in Nat /\ mess \subseteq Mishap
      /\ lapsed \in [DmaBuf -> Nat] /\ overput \in [DmaBuf -> Nat]
      /\ ToSet(list) \subseteq Item
  BY DmaTypes
<1>3. CASE stage = "node"
  <2>1. UNCHANGED dmaVars /\ wild' = {"list"}
    BY <1>3 DEF ImportLookup, DmaFault, dmaVars, history
  <2> QED
    BY <2>1, ImportsIdle
<1>4. CASE stage # "node"
  <2>1. /\ Hold(b, 1) /\ imports' = imports + 1
        /\ UNCHANGED <<list, got, lapsed, overput, wild>>
    BY <1>4 DEF ImportLookup
  <2>2. held' \in [DmaBuf -> Int]
    BY <2>1, HoldTyped
  <2>3. imports' \in Nat /\ imports' <= MaxImport
    BY <1>1, <1>2, <2>1, DmaAssumption
  <2>4. CASE Search(b) = Nil
    <3>1. Enter(f, "attach", b, Nil) /\ UNCHANGED <<item, mess>>
      BY <1>4, <2>4 DEF ImportLookup
    <3>2. /\ dpc' \in [File -> Place] /\ at' \in [File -> Call]
          /\ dpc'[f] = "attach" /\ at'[f].buf = b
          /\ \A g \in File \ {f} : dpc'[g] = dpc[g] /\ at'[g] = at[g]
      BY <3>1, EnterFacts DEF Place
    <3>3. DmaTypeOK'
      BY <1>2, <2>1, <2>2, <2>3, <3>1, <3>2, DmaTyped
    <3>4. \A x : Dropping(x)' <=> Dropping(x)
      BY <1>1, <3>2 DEF Dropping
    <3>5. Listed' /\ Threads'
      BY <2>1, <3>1, <3>2 DEF Imports, Listed, Threads
    <3>6. Counted'
      BY <2>1, <3>1, <3>2, <3>4 DEF Imports, Counted
    <3>7. Single'
      BY <2>1, <3>1, <3>2 DEF Imports, Single
    <3>8. Lone'
      BY <2>1, <3>1, <3>4 DEF Imports, Lone, InUse
    <3> QED
      BY <3>3, <3>5, <3>6, <3>7, <3>8 DEF Imports
  <2>5. CASE Search(b) # Nil
    <3>1. PICK x \in Item : /\ x = Search(b) /\ x \in ToSet(list)
                            /\ item[x].buf = b
      BY <2>5, SearchFacts
    <3>2. /\ Enter(f, "known", b, x)
          /\ item' = [item EXCEPT ![x].ref = @ + 1]
          /\ mess' = mess \cup {"again"}
      BY <1>4, <2>5, <3>1 DEF ImportLookup
    <3>3. /\ dpc' \in [File -> Place] /\ at' \in [File -> Call]
          /\ dpc'[f] = "known" /\ at'[f].buf = b /\ at'[f].item = x
          /\ \A g \in File \ {f} : dpc'[g] = dpc[g] /\ at'[g] = at[g]
      BY <3>2, EnterFacts DEF Place
    <3>4. /\ item' \in [Item -> Piece]
          /\ item'[x].ref = item[x].ref + 1 /\ item[x].ref \in Nat
          /\ item'[x].buf = item[x].buf /\ item'[x].attached = item[x].attached
          /\ \A y \in Item \ {x} : item'[y] = item[y]
      BY <3>2, CountItem
    <3>5. mess' \subseteq Mishap
      BY <1>2, <3>2 DEF Mishap
    <3>6. DmaTypeOK'
      BY <1>2, <2>1, <2>2, <2>3, <3>3, <3>4, <3>5, DmaTyped
    <3>7. \A y \in Item : /\ item'[y].buf = item[y].buf
                          /\ item'[y].attached = item[y].attached
                          /\ \/ item'[y].ref = item[y].ref
                             \/ y = x /\ item'[y].ref = item[y].ref + 1
      <4>1. CASE \A y \in Item \ {x} : item'[y] = item[y]
        <5> SUFFICES ASSUME NEW y \in Item
                     PROVE  /\ item'[y].buf = item[y].buf
                            /\ item'[y].attached = item[y].attached
                            /\ \/ item'[y].ref = item[y].ref
                               \/ y = x /\ item'[y].ref = item[y].ref + 1
          OBVIOUS
        <5>1. CASE y = x
          BY <3>4, <5>1
        <5>2. CASE y # x
          <6>1. item'[y] = item[y]
            BY <4>1, <5>2
          <6> QED
            BY <6>1
        <5> QED
          BY <5>1, <5>2
      <4> QED
        BY <3>4, <4>1
    <3>8. \A y : (\E h \in File : dpc'[h] = "drop" /\ at'[h].item = y) <=> Dropping(y)
      BY <1>1, <3>3 DEF Dropping
    <3>9. Listed'
      <4>1. ASSUME NEW y \in ToSet(list)
            PROVE  item'[y].buf # Nil /\ item'[y].ref > 0
        <5>1. y \in Item /\ item[y].buf # Nil /\ item[y].ref > 0
          BY <1>2 DEF Imports, Listed
        <5>2. item[y].ref \in Nat
          BY <1>2, <5>1 DEF Piece
        <5> QED
          BY <3>7, <5>1, <5>2
      <4>2. \A y \in Item : item'[y].attached => y \in ToSet(list)
        BY <3>7 DEF Imports, Listed
      <4>3. list' = list
        BY <2>1
      <4> QED
        BY <4>1, <4>2, <4>3 DEF Imports, Listed
    <3>10. Threads'
      <4>1. /\ list' = list /\ got' = got
            /\ ToSet(list) \subseteq Item
        BY <1>2, <2>1
      <4>2. \A y \in ToSet(list) : item'[y].attached = item[y].attached
        BY <1>2, <3>7
      <4> QED
        BY <3>3, <4>1, <4>2 DEF Imports, Threads
    <3>11. Counted'
      <4> SUFFICES ASSUME mess' \cap {"pieces", "fault"} = {}, NEW g \in File, dpc'[g] = "known"
                   PROVE  /\ item'[at'[g].item].ref > 0
                          /\ ((item'[at'[g].item].attached
                                \/ \E h \in File : dpc'[h] = "drop" /\ at'[h].item = at'[g].item)
                             => item'[at'[g].item].ref > 1)
        BY DEF Counted, Dropping
      <4>1. item[x].ref > 0
        BY <3>1 DEF Imports, Listed
      <4>2. CASE g = f
        BY <3>3, <3>4, <4>1, <4>2
      <4>3. CASE g # f
        <5>1. dpc[g] = "known" /\ at'[g] = at[g]
          BY <3>3, <4>3
        <5>2. at[g].item \in Item
          BY <5>1 DEF Imports, Threads
        <5>3. PICK y \in Item : y = at[g].item
          BY <5>2
        <5>4. /\ item[y].ref > 0
              /\ item[y].attached \/ Dropping(y) => item[y].ref > 1
          BY <3>2, <5>1, <5>3 DEF Imports, Counted
        <5>5. item[y].ref \in Nat
          BY <1>2 DEF Piece
        <5> QED
          BY <3>7, <3>8, <5>1, <5>3, <5>4, <5>5
      <4> QED
        BY <4>2, <4>3
    <3>12. Single' /\ Lone'
      BY <3>2 DEF Single, Lone
    <3> QED
      BY <3>6, <3>9, <3>10, <3>11, <3>12 DEF Imports
  <2> QED
    BY <2>4, <2>5
<1> QED
  BY <1>3, <1>4

\* The import attaches a new dma-buf and lists it, or fails.
LEMMA AttachKeeps ==
  ASSUME DmaTypeOK, Imports, NEW f \in File, ImportAttach(f)
  PROVE  DmaTypeOK' /\ Imports'
<1>1. wild = {} /\ dpc[f] = "attach"
  BY DEF ImportAttach
<1>2. /\ list \in Seq(Item) /\ item \in [Item -> Piece]
      /\ held \in [DmaBuf -> Int] /\ dpc \in [File -> Place] /\ at \in [File -> Call]
      /\ got \in [File -> [DmaBuf -> Nat]] /\ imports \in Nat /\ imports <= MaxImport
      /\ mess \subseteq Mishap
      /\ lapsed \in [DmaBuf -> Nat] /\ overput \in [DmaBuf -> Nat]
      /\ ToSet(list) \subseteq Item
  BY DmaTypes
<1>3. PICK b \in DmaBuf : b = at[f].buf
  BY <1>1 DEF Imports, Threads
<1>4. CASE DmaFault("err_ptr")
  <2>1. UNCHANGED dmaVars /\ wild' = {"err_ptr"}
    BY <1>4 DEF DmaFault, dmaVars, history
  <2> QED
    BY <2>1, ImportsIdle
<1>5. CASE /\ Leave(f) /\ Hold(b, -1)
           /\ mess' = mess \cup {"no_memory"}
           /\ UNCHANGED <<list, item, got, imports, lapsed, overput, wild>>
  <2>1. Enter(f, "idle", Nil, Nil)
    BY <1>5 DEF Leave
  <2>2. dpc' \in [File -> Place] /\ at' \in [File -> Call]
    BY <2>1, EnterFacts DEF Place
  <2>3. held' \in [DmaBuf -> Int]
    BY <1>5, HoldTyped
  <2>4. mess' \subseteq Mishap
    BY <1>2, <1>5 DEF Mishap
  <2>5. DmaTypeOK'
    BY <1>2, <1>5, <2>2, <2>3, <2>4, DmaTyped
  <2>6. "dma_item" \notin wild'
    BY <1>1, <1>5
  <2>7. Imports'
    BY <1>5, <2>1, <2>6, GiveUpKeeps
  <2> QED
    BY <2>5, <2>7
<1>6. ASSUME NEW x \in Item, ~InUse(x),
             item' = [item EXCEPT ![x] = [buf |-> b, ref |-> 1, attached |-> TRUE]],
             mess' = IF Search(b) = Nil THEN mess ELSE mess \cup {"again"},
             list' = Append(list, x),
             Enter(f, "check", b, x),
             UNCHANGED <<held, got, imports, lapsed, overput, wild>>
      PROVE  DmaTypeOK' /\ Imports'
  <2>1. [buf |-> b, ref |-> 1, attached |-> TRUE] \in Piece
    BY DEF Piece
  <2>2. /\ item' \in [Item -> Piece]
        /\ item'[x].buf = b /\ item'[x].ref = 1 /\ item'[x].attached
        /\ \A y \in Item \ {x} : item'[y] = item[y]
    BY <1>6, <2>1, ItemFacts
  <2>3. /\ item[x].ref = 0 /\ item[x].buf = Nil /\ ~item[x].attached
    BY <1>6 DEF InUse, NoItem
  <2>4. x \notin ToSet(list)
    BY <2>3 DEF Imports, Listed
  <2>5. /\ list' \in Seq(Item) /\ Distinct(list')
        /\ ToSet(list') = ToSet(list) \cup {x}
    <3>1. Distinct(list)
      BY DEF Imports, Listed, Distinct
    <3>2. /\ Append(list, x) \in Seq(Item) /\ Distinct(Append(list, x))
          /\ ToSet(Append(list, x)) = ToSet(list) \cup {x}
      BY <1>2, <2>4, <3>1, AppendFacts
    <3> QED
      BY <1>6, <3>2
  <2>6. /\ dpc' \in [File -> Place] /\ at' \in [File -> Call]
        /\ dpc'[f] = "check" /\ at'[f].buf = b /\ at'[f].item = x
        /\ \A g \in File \ {f} : dpc'[g] = dpc[g] /\ at'[g] = at[g]
    BY <1>6, EnterFacts DEF Place
  <2>7. mess' \subseteq Mishap
    BY <1>2, <1>6 DEF Mishap
  <2>8. DmaTypeOK'
    BY <1>2, <1>6, <2>2, <2>5, <2>6, <2>7, DmaTyped
  <2>9. \A y : (\E h \in File : dpc'[h] = "drop" /\ at'[h].item = y) <=> Dropping(y)
    BY <1>1, <2>6 DEF Dropping
  <2>10. Listed'
    <3>1. ASSUME NEW y \in ToSet(list')
          PROVE  item'[y].buf # Nil /\ item'[y].ref > 0
      <4>1. CASE y = x
        BY <2>2, <4>1, DmaAssumption
      <4>2. CASE y # x
        <5>1. y \in ToSet(list) /\ y \in Item
          BY <1>2, <2>5, <4>2
        <5> QED
          BY <2>2, <4>2, <5>1 DEF Imports, Listed
      <4> QED
        BY <4>1, <4>2
    <3>2. \A y \in Item : item'[y].attached => y \in ToSet(list')
      BY <2>2, <2>5 DEF Imports, Listed
    <3> QED
      BY <2>5, <3>1, <3>2 DEF Listed, Distinct
  <2>11. \A g \in File : dpc[g] = "drop" => at[g].item \in Item /\ at[g].item # x
    BY <2>4 DEF Imports, Threads
  <2>12. Threads'
    <3>1. ASSUME NEW g \in File
          PROVE  /\ dpc'[g] # "idle" => at'[g].buf \in DmaBuf
                 /\ dpc'[g] \in {"known", "check", "detach", "drop"} => at'[g].item \in Item
                 /\ dpc'[g] = "detach" => got'[g][at'[g].buf] > 0
                 /\ dpc'[g] = "drop" =>
                      at'[g].item \in ToSet(list') /\ ~item'[at'[g].item].attached
      <4>1. CASE g = f
        BY <2>6, <4>1
      <4>2. CASE g # f
        <5>1. dpc'[g] = dpc[g] /\ at'[g] = at[g] /\ got' = got
          BY <1>6, <2>6, <4>2
        <5>2. dpc[g] = "drop" => item'[at[g].item] = item[at[g].item]
          BY <2>2, <2>11
        <5> QED
          BY <2>5, <5>1, <5>2 DEF Imports, Threads
      <4> QED
        BY <4>1, <4>2
    <3>2. \A g, h \in File :
            dpc'[g] = "drop" /\ dpc'[h] = "drop" /\ at'[g].item = at'[h].item => g = h
      BY <2>6 DEF Imports, Threads
    <3> QED
      BY <3>1, <3>2 DEF Threads
  <2>13. Counted'
    <3> SUFFICES ASSUME mess' \cap {"pieces", "fault"} = {}, NEW g \in File, dpc'[g] = "known"
                 PROVE  /\ item'[at'[g].item].ref > 0
                        /\ ((item'[at'[g].item].attached
                              \/ \E h \in File : dpc'[h] = "drop" /\ at'[h].item = at'[g].item)
                           => item'[at'[g].item].ref > 1)
      BY DEF Counted, Dropping
    <3>1. g # f /\ dpc[g] = "known" /\ at'[g] = at[g]
      BY <2>6
    <3>2. PICK y \in Item : y = at[g].item
      BY <3>1 DEF Imports, Threads
    <3>3. /\ item[y].ref > 0
          /\ item[y].attached \/ Dropping(y) => item[y].ref > 1
      BY <1>6, <3>1, <3>2 DEF Imports, Counted
    <3>4. y # x
      BY <2>3, <3>3
    <3> QED
      BY <2>2, <2>9, <3>1, <3>2, <3>3, <3>4
  <2>14. ASSUME mess' = {}
         PROVE  /\ mess = {} /\ Search(b) = Nil
                /\ \A y \in ToSet(list) : item[y].buf # b /\ y # x /\ item'[y] = item[y]
                /\ \A g \in File : got[g][b] = 0
                /\ \A g \in File : dpc[g] \in {"check", "detach", "drop"} => at[g].buf # b
    <3>1. mess = {} /\ Search(b) = Nil
      BY <1>6, <2>14
    <3>2. \A y \in ToSet(list) : item[y].buf # b
      BY <3>1, SearchFacts, DmaAssumption
    <3>3. ASSUME NEW g \in File
          PROVE  got[g][b] = 0
      <4>1. got[g][b] \in Nat
        BY <1>2
      <4>2. ~(got[g][b] > 0)
        BY <3>1, <3>2 DEF Imports, Single
      <4> QED
        BY <4>1, <4>2
    <3>4. \A g \in File : dpc[g] \in {"check", "detach", "drop"} => at[g].buf # b
      BY <3>1, <3>2 DEF Imports, Single
    <3>5. \A y \in ToSet(list) : y # x /\ item'[y] = item[y]
      BY <1>2, <2>2, <2>4
    <3> QED
      BY <3>1, <3>2, <3>3, <3>4, <3>5
  <2>15. Single'
    <3> SUFFICES ASSUME mess' = {}
                 PROVE  /\ \A g \in File :
                             /\ dpc'[g] # "known"
                             /\ dpc'[g] \in {"check", "detach", "drop"} =>
                                  at'[g].item \in ToSet(list') /\ item'[at'[g].item].buf = at'[g].buf
                             /\ dpc'[g] = "check" =>
                                  /\ item'[at'[g].item].attached
                                  /\ \A h \in File :
                                       /\ got'[h][at'[g].buf] = 0
                                       /\ dpc'[h] = "check" /\ at'[h].buf = at'[g].buf => g = h
                        /\ \A g \in File, c \in DmaBuf : got'[g][c] > 0 =>
                             /\ got'[g][c] = 1
                             /\ \E y \in ToSet(list') : item'[y].buf = c /\ item'[y].attached
                             /\ \A h \in File : got'[h][c] > 0 => g = h
      BY DEF Single
    <3>1. /\ \A g \in File \ {f} : dpc'[g] = dpc[g] /\ at'[g] = at[g]
          /\ got' = got /\ mess = {}
      BY <1>6, <2>6, <2>14
    <3>2. ASSUME NEW g \in File
          PROVE  /\ dpc'[g] # "known"
                 /\ dpc'[g] \in {"check", "detach", "drop"} =>
                      at'[g].item \in ToSet(list') /\ item'[at'[g].item].buf = at'[g].buf
                 /\ dpc'[g] = "check" => item'[at'[g].item].attached
      <4>1. CASE g = f
        BY <2>2, <2>5, <2>6, <4>1
      <4>2. CASE g # f
        BY <2>5, <2>14, <3>1, <4>2 DEF Imports, Single
      <4> QED
        BY <4>1, <4>2
    <3>3. ASSUME NEW g \in File, dpc'[g] = "check", NEW h \in File
          PROVE  /\ got'[h][at'[g].buf] = 0
                 /\ dpc'[h] = "check" /\ at'[h].buf = at'[g].buf => g = h
      <4>1. CASE g = f
        BY <2>6, <2>14, <3>1, <4>1
      <4>2. CASE g # f
        <5>1. dpc[g] = "check" /\ at'[g] = at[g] /\ at[g].buf # b
          BY <2>14, <3>1, <3>3, <4>2
        <5> QED
          BY <2>6, <3>1, <3>3, <5>1 DEF Imports, Single
      <4> QED
        BY <4>1, <4>2
    <3>4. ASSUME NEW g \in File, NEW c \in DmaBuf, got'[g][c] > 0
          PROVE  /\ got'[g][c] = 1
                 /\ \E y \in ToSet(list') : item'[y].buf = c /\ item'[y].attached
                 /\ \A h \in File : got'[h][c] > 0 => g = h
      <4>1. PICK y \in ToSet(list) : item[y].buf = c /\ item[y].attached
        BY <3>1, <3>4 DEF Imports, Single
      <4>2. y \in ToSet(list') /\ item'[y] = item[y]
        BY <2>5, <2>14
      <4>3. /\ got'[g][c] = 1
            /\ \A h \in File : got'[h][c] > 0 => g = h
        BY <3>1, <3>4 DEF Imports, Single
      <4> QED
        BY <4>1, <4>2, <4>3
    <3> QED
      BY <3>2, <3>3, <3>4
  <2>16. Lone'
    <3> SUFFICES ASSUME mess' = {}
                 PROVE  /\ "dma_item" \notin wild'
                        /\ \A y, z \in ToSet(list') : item'[y].buf = item'[z].buf => y = z
                        /\ \A y \in Item : item'[y] # NoItem => y \in ToSet(list')
                        /\ \A y \in ToSet(list') :
                             /\ item'[y].ref = 1
                             /\ \/ item'[y].attached
                                \/ \E h \in File : dpc'[h] = "drop" /\ at'[h].item = y
      BY DEF Lone, Dropping, InUse
    <3>1. mess = {} /\ "dma_item" \notin wild'
      BY <1>1, <1>6, <2>14
    <3>2. \A y, z \in ToSet(list') : item'[y].buf = item'[z].buf => y = z
      <4> SUFFICES ASSUME NEW y \in ToSet(list'), NEW z \in ToSet(list'),
                          item'[y].buf = item'[z].buf
                   PROVE  y = z
        OBVIOUS
      <4>1. CASE y = x /\ z # x
        BY <2>2, <2>5, <2>14, <4>1
      <4>2. CASE y # x /\ z = x
        BY <2>2, <2>5, <2>14, <4>2
      <4>3. CASE y # x /\ z # x
        <5>1. /\ y \in ToSet(list) /\ z \in ToSet(list)
              /\ item'[y] = item[y] /\ item'[z] = item[z]
          BY <2>5, <2>14, <4>3
        <5> QED
          BY <3>1, <5>1 DEF Imports, Lone
      <4> QED
        BY <4>1, <4>2, <4>3
    <3>3. \A y \in Item : item'[y] # NoItem => y \in ToSet(list')
      <4> SUFFICES ASSUME NEW y \in Item, item'[y] # NoItem, y # x
                   PROVE  y \in ToSet(list')
        BY <2>5
      <4>1. item[y] # NoItem
        BY <2>2
      <4> QED
        BY <2>5, <3>1, <4>1 DEF Imports, Lone, InUse
    <3>4. ASSUME NEW y \in ToSet(list')
          PROVE  /\ item'[y].ref = 1
                 /\ \/ item'[y].attached
                    \/ \E h \in File : dpc'[h] = "drop" /\ at'[h].item = y
      <4>1. CASE y = x
        BY <2>2, <4>1
      <4>2. CASE y # x
        <5>1. y \in ToSet(list) /\ item'[y] = item[y]
          BY <2>5, <2>14, <4>2
        <5> QED
          BY <2>9, <3>1, <5>1 DEF Imports, Lone
      <4> QED
        BY <4>1, <4>2
    <3> QED
      BY <3>1, <3>2, <3>3, <3>4
  <2> QED
    BY <2>8, <2>10, <2>12, <2>13, <2>15, <2>16 DEF Imports
<1>7. \/ DmaFault("err_ptr")
      \/ /\ Leave(f) /\ Hold(b, -1)
         /\ mess' = mess \cup {"no_memory"}
         /\ UNCHANGED <<list, item, got, imports, lapsed, overput, wild>>
      \/ \E x \in Item :
           /\ ~InUse(x)
           /\ item' = [item EXCEPT ![x] = [buf |-> b, ref |-> 1, attached |-> TRUE]]
           /\ mess' = IF Search(b) = Nil THEN mess ELSE mess \cup {"again"}
           /\ list' = Append(list, x)
           /\ Enter(f, "check", b, x)
           /\ UNCHANGED <<held, got, imports, lapsed, overput, wild>>
  BY <1>3, Zenon DEF ImportAttach
<1> QED
  BY <1>4, <1>5, <1>6, <1>7

\* The import of a dma-buf that was attached already.
LEMMA KnownKeeps ==
  ASSUME DmaTypeOK, Imports, NEW f \in File, ImportKnown(f)
  PROVE  DmaTypeOK' /\ Imports'
<1>1. /\ wild = {} /\ dpc[f] = "known"
      /\ item' = [item EXCEPT ![at[f].item].ref = @ + 1]
      /\ Enter(f, "check", at[f].buf, at[f].item)
      /\ UNCHANGED <<list, held, got, imports, lapsed, overput, mess, wild>>
  BY DEF ImportKnown, history, deviceVars
<1>2. /\ list \in Seq(Item) /\ item \in [Item -> Piece]
      /\ held \in [DmaBuf -> Int] /\ dpc \in [File -> Place] /\ at \in [File -> Call]
      /\ got \in [File -> [DmaBuf -> Nat]] /\ imports \in Nat /\ imports <= MaxImport
      /\ mess \subseteq Mishap
      /\ lapsed \in [DmaBuf -> Nat] /\ overput \in [DmaBuf -> Nat]
      /\ ToSet(list) \subseteq Item
  BY DmaTypes
<1>3. PICK b \in DmaBuf : b = at[f].buf
  BY <1>1 DEF Imports, Threads
<1>4. PICK x \in Item : x = at[f].item
  BY <1>1 DEF Imports, Threads
<1>5. /\ dpc' \in [File -> Place] /\ at' \in [File -> Call]
      /\ dpc'[f] = "check" /\ at'[f].buf = b /\ at'[f].item = x
      /\ \A g \in File \ {f} : dpc'[g] = dpc[g] /\ at'[g] = at[g]
  BY <1>1, <1>3, <1>4, EnterFacts DEF Place
<1>6. /\ item' \in [Item -> Piece]
      /\ item'[x].ref = item[x].ref + 1 /\ item[x].ref \in Nat
      /\ item'[x].buf = item[x].buf /\ item'[x].attached = item[x].attached
      /\ \A y \in Item \ {x} : item'[y] = item[y]
  BY <1>1, <1>4, CountItem
<1>7. ASSUME NEW y \in Item
      PROVE  /\ item'[y].buf = item[y].buf /\ item'[y].attached = item[y].attached
             /\ item[y].ref \in Nat /\ item'[y].ref \in Nat
             /\ item'[y].ref >= item[y].ref
  <2>1. item[y] \in Piece
    BY <1>2
  <2>2. item[y].ref \in Nat
    BY <2>1 DEF Piece
  <2>3. CASE y = x
    BY <1>6, <2>2, <2>3
  <2>4. CASE y # x
    <3>1. item'[y] = item[y]
      BY <1>6, <2>4
    <3> QED
      BY <2>2, <3>1
  <2> QED
    BY <2>3, <2>4
<1>8. DmaTypeOK'
  BY <1>1, <1>2, <1>5, <1>6, DmaTyped
<1>9. \A y : (\E h \in File : dpc'[h] = "drop" /\ at'[h].item = y) <=> Dropping(y)
  BY <1>1, <1>5 DEF Dropping
<1>10. Listed'
  <2>1. ASSUME NEW y \in ToSet(list)
        PROVE  item'[y].buf # Nil /\ item'[y].ref > 0
    <3>1. y \in Item /\ item[y].buf # Nil /\ item[y].ref > 0
      BY <1>2 DEF Imports, Listed
    <3> QED
      BY <1>7, <3>1
  <2>2. \A y \in Item : item'[y].attached => y \in ToSet(list)
    BY <1>7 DEF Imports, Listed
  <2>3. list' = list
    BY <1>1
  <2> QED
    BY <2>1, <2>2, <2>3 DEF Imports, Listed
<1>11. Threads'
  <2>1. list' = list /\ got' = got /\ ToSet(list) \subseteq Item
    BY <1>1, <1>2
  <2>2. \A y \in ToSet(list) : item'[y].attached = item[y].attached
    BY <1>7, <2>1
  <2> QED
    BY <1>5, <2>1, <2>2 DEF Imports, Threads
<1>12. Counted'
  <2> SUFFICES ASSUME mess' \cap {"pieces", "fault"} = {}, NEW g \in File, dpc'[g] = "known"
               PROVE  /\ item'[at'[g].item].ref > 0
                      /\ ((item'[at'[g].item].attached
                            \/ \E h \in File : dpc'[h] = "drop" /\ at'[h].item = at'[g].item)
                         => item'[at'[g].item].ref > 1)
    BY DEF Counted, Dropping
  <2>1. g # f /\ dpc[g] = "known" /\ at'[g] = at[g]
    BY <1>5
  <2>2. PICK y \in Item : y = at[g].item
    BY <2>1 DEF Imports, Threads
  <2>3. /\ item[y].ref > 0
        /\ item[y].attached \/ Dropping(y) => item[y].ref > 1
    BY <1>1, <2>1, <2>2 DEF Imports, Counted
  <2>4. /\ item'[y].ref > 0
        /\ item'[y].attached \/ Dropping(y) => item'[y].ref > 1
    BY <1>7, <2>3
  <2> QED
    BY <1>9, <2>1, <2>2, <2>4
<1>13. Single' /\ Lone'
  BY <1>1 DEF Imports, Single, Lone
<1> QED
  BY <1>8, <1>10, <1>11, <1>12, <1>13 DEF Imports

\* The release looks for the dma-buf among those of the device.
LEMMA SearchKeeps ==
  ASSUME DmaTypeOK, Imports, NEW f \in File, NEW b \in DmaBuf, ReleaseSearch(f, b)
  PROVE  DmaTypeOK' /\ Imports'
<1>1. /\ wild = {} /\ dpc[f] = "idle" /\ got[f][b] > 0 /\ Search(b) # Nil
      /\ Enter(f, "detach", b, Search(b))
      /\ UNCHANGED <<list, item, held, got, imports, lapsed, overput, mess, wild>>
  BY DEF ReleaseSearch, Begin, history, deviceVars
<1>2. /\ list \in Seq(Item) /\ item \in [Item -> Piece]
      /\ held \in [DmaBuf -> Int] /\ dpc \in [File -> Place] /\ at \in [File -> Call]
      /\ got \in [File -> [DmaBuf -> Nat]] /\ imports \in Nat /\ imports <= MaxImport
      /\ mess \subseteq Mishap
      /\ lapsed \in [DmaBuf -> Nat] /\ overput \in [DmaBuf -> Nat]
      /\ ToSet(list) \subseteq Item
  BY DmaTypes
<1>3. PICK x \in Item : x = Search(b) /\ x \in ToSet(list) /\ item[x].buf = b
  BY <1>1, SearchFacts
<1>4. /\ dpc' \in [File -> Place] /\ at' \in [File -> Call]
      /\ dpc'[f] = "detach" /\ at'[f].buf = b /\ at'[f].item = x
      /\ \A g \in File \ {f} : dpc'[g] = dpc[g] /\ at'[g] = at[g]
  BY <1>1, <1>3, EnterFacts DEF Place
<1>5. DmaTypeOK'
  BY <1>1, <1>2, <1>4, DmaTyped
<1>6. \A y : (\E h \in File : dpc'[h] = "drop" /\ at'[h].item = y) <=> Dropping(y)
  BY <1>1, <1>4 DEF Dropping
<1>7. Listed' /\ Threads'
  BY <1>1, <1>4 DEF Imports, Listed, Threads
<1>8. Counted'
  <2> SUFFICES ASSUME mess' \cap {"pieces", "fault"} = {}, NEW g \in File, dpc'[g] = "known"
               PROVE  /\ item'[at'[g].item].ref > 0
                      /\ ((item'[at'[g].item].attached
                            \/ \E h \in File : dpc'[h] = "drop" /\ at'[h].item = at'[g].item)
                         => item'[at'[g].item].ref > 1)
    BY DEF Counted, Dropping
  <2>1. g # f /\ dpc[g] = "known" /\ at'[g] = at[g]
    BY <1>4
  <2> QED
    BY <1>1, <1>6, <2>1 DEF Imports, Counted
<1>9. Single'
  BY <1>1, <1>3, <1>4 DEF Imports, Single
<1>10. Lone'
  <2> SUFFICES ASSUME mess' = {}, NEW y \in ToSet(list)
               PROVE  \/ item[y].attached
                      \/ \E h \in File : dpc'[h] = "drop" /\ at'[h].item = y
    BY <1>1 DEF Imports, Lone, InUse, Dropping
  <2>1. item[y].attached \/ Dropping(y)
    BY <1>1 DEF Imports, Lone
  <2> QED
    BY <1>6, <2>1
<1> QED
  BY <1>5, <1>7, <1>8, <1>9, <1>10 DEF Imports

\* The release unmaps and detaches the dma-buf it found.
LEMMA DetachKeeps ==
  ASSUME DmaTypeOK, Imports, NEW f \in File, ReleaseDetach(f)
  PROVE  DmaTypeOK' /\ Imports'
<1>1. wild = {} /\ dpc[f] = "detach"
  BY DEF ReleaseDetach
<1>2. /\ list \in Seq(Item) /\ item \in [Item -> Piece]
      /\ held \in [DmaBuf -> Int] /\ dpc \in [File -> Place] /\ at \in [File -> Call]
      /\ got \in [File -> [DmaBuf -> Nat]] /\ imports \in Nat /\ imports <= MaxImport
      /\ mess \subseteq Mishap
      /\ lapsed \in [DmaBuf -> Nat] /\ overput \in [DmaBuf -> Nat]
      /\ ToSet(list) \subseteq Item
  BY DmaTypes
<1>3. PICK b \in DmaBuf : b = at[f].buf
  BY <1>1 DEF Imports, Threads
<1>4. PICK x \in Item : x = at[f].item
  BY <1>1 DEF Imports, Threads
<1>5. got[f][b] > 0
  BY <1>1, <1>3 DEF Imports, Threads
\* As long as nothing has gone wrong the item is the one that was imported.
<1>6. ASSUME mess = {}
      PROVE  /\ x \in ToSet(list) /\ item[x].buf = b /\ item[x].attached
             /\ got[f][b] = 1 /\ \A g \in File : got[g][b] > 0 => g = f
             /\ \A g \in File \ {f} :
                  dpc[g] \in {"check", "detach", "drop"} => at[g].buf # b
  <2>1. x \in ToSet(list) /\ item[x].buf = b
    BY <1>1, <1>3, <1>4, <1>6 DEF Imports, Single
  <2>2. /\ got[f][b] = 1 /\ \A g \in File : got[g][b] > 0 => g = f
    BY <1>5, <1>6 DEF Imports, Single
  <2>3. item[x].attached
    <3>1. PICK y \in ToSet(list) : item[y].buf = b /\ item[y].attached
      BY <1>5, <1>6 DEF Imports, Single
    <3>2. y = x
      BY <1>6, <2>1, <3>1 DEF Imports, Lone
    <3> QED
      BY <3>1, <3>2
  <2>4. ASSUME NEW g \in File \ {f}, dpc[g] \in {"check", "detach", "drop"},
               at[g].buf = b
        PROVE  FALSE
    <3>1. CASE dpc[g] = "check"
      <4>1. got[f][b] = 0
        BY <1>6, <2>4, <3>1 DEF Imports, Single
      <4> QED
        BY <1>5, <4>1
    <3>2. CASE dpc[g] = "detach"
      <4>1. got[g][b] > 0
        BY <2>4, <3>2 DEF Imports, Threads
      <4> QED
        BY <2>2, <4>1
    <3>3. CASE dpc[g] = "drop"
      <4>1. /\ at[g].item \in ToSet(list) /\ item[at[g].item].buf = b
            /\ ~item[at[g].item].attached
        BY <1>6, <2>4, <3>3 DEF Imports, Single, Threads
      <4>2. at[g].item = x
        BY <1>6, <2>1, <4>1 DEF Imports, Lone
      <4> QED
        BY <2>3, <4>1, <4>2
    <3> QED
      BY <2>4, <3>1, <3>2, <3>3
  <2> QED
    BY <2>1, <2>2, <2>3, <2>4
<1>7. CASE ~InUse(x) \/ ~item[x].attached
  <2>1. DmaFault("dma_item")
    BY <1>4, <1>7 DEF ReleaseDetach
  <2>2. UNCHANGED <<list, item, held, dpc, at, got, imports, lapsed, overput, mess>>
    BY <2>1 DEF DmaFault, history
  <2>3. mess # {}
    BY <1>6, <1>7, InUseFacts
  <2>4. DmaTypeOK'
    BY <2>2 DEF DmaTypeOK
  <2>5. Listed' /\ Threads' /\ Counted' /\ Single'
    BY <2>2 DEF Imports, Listed, Threads, Counted, Single, Dropping
  <2>6. Lone'
    BY <2>2, <2>3 DEF Lone
  <2> QED
    BY <2>4, <2>5, <2>6 DEF Imports
<1>8. CASE InUse(x) /\ item[x].attached
  <2>1. /\ item' = [item EXCEPT ![x].attached = FALSE]
        /\ Hold(b, -1) /\ got' = [got EXCEPT ![f][b] = @ - 1]
        /\ Enter(f, "drop", b, x)
        /\ UNCHANGED <<list, imports, lapsed, overput, mess, wild>>
    BY <1>3, <1>4, <1>8 DEF ReleaseDetach, Released, history
  <2>2. /\ dpc' \in [File -> Place] /\ at' \in [File -> Call]
        /\ dpc'[f] = "drop" /\ at'[f].buf = b /\ at'[f].item = x
        /\ \A g \in File \ {f} : dpc'[g] = dpc[g] /\ at'[g] = at[g]
    BY <2>1, EnterFacts DEF Place
  <2>3. /\ item' \in [Item -> Piece]
        /\ item'[x].ref = item[x].ref /\ item'[x].buf = item[x].buf
        /\ ~item'[x].attached
        /\ \A y \in Item \ {x} : item'[y] = item[y]
    <3>1. item[x] \in Piece
      BY <1>2
    <3>2. PICK p : p = [item[x] EXCEPT !.attached = FALSE]
      OBVIOUS
    <3>3. p \in Piece /\ p.ref = item[x].ref /\ p.buf = item[x].buf /\ ~p.attached
      BY <3>1, <3>2 DEF Piece
    <3>4. item' = [item EXCEPT ![x] = p]
      BY <2>1, <3>2
    <3> QED
      BY <3>3, <3>4, ItemFacts
  <2>4. held' \in [DmaBuf -> Int]
    BY <2>1, HoldTyped
  <2>5. /\ got' \in [File -> [DmaBuf -> Nat]] /\ got'[f][b] = got[f][b] - 1
        /\ \A g \in File, c \in DmaBuf : (g # f \/ c # b) => got'[g][c] = got[g][c]
    <3>1. got[f] \in [DmaBuf -> Nat] /\ got[f][b] \in Nat
      BY <1>2
    <3>2. PICK n \in Nat : n = got[f][b] - 1
      BY <1>5, <3>1
    <3>3. PICK h \in [DmaBuf -> Nat] : h = [got[f] EXCEPT ![b] = n]
      BY <3>1
    <3>4. got' = [got EXCEPT ![f] = h]
      BY <2>1, <3>2, <3>3
    <3> QED
      BY <1>2, <3>1, <3>2, <3>3, <3>4
  <2>6. DmaTypeOK'
    BY <1>2, <2>1, <2>2, <2>3, <2>4, <2>5, DmaTyped
  <2>7. x \in ToSet(list)
    BY <1>8 DEF Imports, Listed
  \* No other release drops the item.
  <2>8. \A g \in File : dpc[g] = "drop" => at[g].item # x /\ at[g].item \in Item
    BY <1>8 DEF Imports, Threads
  <2>9. \A y : (\E h \in File : dpc'[h] = "drop" /\ at'[h].item = y)
               <=> Dropping(y) \/ y = x
    BY <1>1, <2>2 DEF Dropping
  <2>10. Listed'
    <3>1. ASSUME NEW y \in ToSet(list)
          PROVE  item'[y].buf # Nil /\ item'[y].ref > 0
      <4>1. y \in Item /\ item[y].buf # Nil /\ item[y].ref > 0
        BY <1>2 DEF Imports, Listed
      <4> QED
        BY <2>3, <4>1
    <3>2. \A y \in Item : item'[y].attached => y \in ToSet(list)
      BY <2>3 DEF Imports, Listed
    <3>3. list' = list
      BY <2>1
    <3> QED
      BY <3>1, <3>2, <3>3 DEF Imports, Listed
  <2>11. Threads'
    <3>1. ASSUME NEW g \in File
          PROVE  /\ dpc'[g] # "idle" => at'[g].buf \in DmaBuf
                 /\ dpc'[g] \in {"known", "check", "detach", "drop"} => at'[g].item \in Item
                 /\ dpc'[g] = "detach" => got'[g][at'[g].buf] > 0
                 /\ dpc'[g] = "drop" =>
                      at'[g].item \in ToSet(list) /\ ~item'[at'[g].item].attached
      <4>1. CASE g = f
        BY <2>2, <2>3, <2>7, <4>1
      <4>2. CASE g # f
        <5>1. dpc'[g] = dpc[g] /\ at'[g] = at[g]
          BY <2>2, <4>2
        <5>2. dpc[g] # "idle" => at[g].buf \in DmaBuf
          BY DEF Imports, Threads
        <5>3. dpc[g] = "detach" => got'[g][at[g].buf] > 0
          BY <2>5, <4>2, <5>2 DEF Imports, Threads
        <5>4. dpc[g] = "drop" => item'[at[g].item] = item[at[g].item]
          BY <2>3, <2>8
        <5> QED
          BY <5>1, <5>2, <5>3, <5>4 DEF Imports, Threads
      <4> QED
        BY <4>1, <4>2
    <3>2. \A g, h \in File :
            dpc'[g] = "drop" /\ dpc'[h] = "drop" /\ at'[g].item = at'[h].item => g = h
      BY <2>2, <2>8 DEF Imports, Threads
    <3>3. list' = list
      BY <2>1
    <3> QED
      BY <3>1, <3>2, <3>3 DEF Threads
  <2>12. Counted'
    <3> SUFFICES ASSUME mess' \cap {"pieces", "fault"} = {}, NEW g \in File, dpc'[g] = "known"
                 PROVE  /\ item'[at'[g].item].ref > 0
                        /\ ((item'[at'[g].item].attached
                              \/ \E h \in File : dpc'[h] = "drop" /\ at'[h].item = at'[g].item)
                           => item'[at'[g].item].ref > 1)
      BY DEF Counted, Dropping
    <3>1. g # f /\ dpc[g] = "known" /\ at'[g] = at[g]
      BY <2>2
    <3>2. PICK y \in Item : y = at[g].item
      BY <3>1 DEF Imports, Threads
    <3>3. /\ item[y].ref > 0
          /\ item[y].attached \/ Dropping(y) => item[y].ref > 1
      BY <2>1, <3>1, <3>2 DEF Imports, Counted
    <3>4. CASE y = x
      BY <1>8, <2>3, <3>1, <3>2, <3>3, <3>4
    <3>5. CASE y # x
      BY <2>3, <2>9, <3>1, <3>2, <3>3, <3>5
    <3> QED
      BY <3>4, <3>5
  <2>13. Single'
    <3> SUFFICES ASSUME mess' = {}
                 PROVE  /\ \A g \in File :
                             /\ dpc'[g] # "known"
                             /\ dpc'[g] \in {"check", "detach", "drop"} =>
                                  at'[g].item \in ToSet(list') /\ item'[at'[g].item].buf = at'[g].buf
                             /\ dpc'[g] = "check" =>
                                  /\ item'[at'[g].item].attached
                                  /\ \A h \in File :
                                       /\ got'[h][at'[g].buf] = 0
                                       /\ dpc'[h] = "check" /\ at'[h].buf = at'[g].buf => g = h
                        /\ \A g \in File, c \in DmaBuf : got'[g][c] > 0 =>
                             /\ got'[g][c] = 1
                             /\ \E y \in ToSet(list') : item'[y].buf = c /\ item'[y].attached
                             /\ \A h \in File : got'[h][c] > 0 => g = h
      BY DEF Single
    <3>0. mess = {} /\ list' = list
      BY <2>1
    <3>1. /\ x \in ToSet(list) /\ item[x].buf = b /\ item[x].attached
          /\ got[f][b] = 1 /\ \A g \in File : got[g][b] > 0 => g = f
          /\ \A g \in File \ {f} :
               dpc[g] \in {"check", "detach", "drop"} => at[g].buf # b
      BY <1>6, <3>0
    <3>2. ASSUME NEW g \in File
          PROVE  /\ dpc'[g] # "known"
                 /\ dpc'[g] \in {"check", "detach", "drop"} =>
                      at'[g].item \in ToSet(list) /\ item'[at'[g].item].buf = at'[g].buf
                 /\ dpc'[g] = "check" => item'[at'[g].item].attached
      <4>1. CASE g = f
        BY <2>2, <2>3, <3>1, <4>1
      <4>2. CASE g # f
        <5>1. dpc'[g] = dpc[g] /\ at'[g] = at[g] /\ dpc[g] # "known"
          BY <2>2, <3>0, <4>2 DEF Imports, Single
        <5>2. CASE dpc[g] \in {"check", "detach", "drop"}
          <6>1. at[g].buf # b
            BY <3>1, <4>2, <5>2
          <6>2. /\ at[g].item \in ToSet(list) /\ item[at[g].item].buf = at[g].buf
                /\ dpc[g] = "check" => item[at[g].item].attached
            BY <3>0, <5>2 DEF Imports, Single
          <6>3. at[g].item \in Item \ {x}
            BY <1>2, <3>1, <6>1, <6>2
          <6> QED
            BY <2>3, <5>1, <6>2, <6>3
        <5> QED
          BY <5>1, <5>2
      <4> QED
        BY <4>1, <4>2
    <3>3. ASSUME NEW g \in File, dpc'[g] = "check", NEW h \in File
          PROVE  /\ got'[h][at'[g].buf] = 0
                 /\ dpc'[h] = "check" /\ at'[h].buf = at'[g].buf => g = h
      <4>1. g # f /\ dpc[g] = "check" /\ at'[g] = at[g]
        BY <2>2, <3>3
      <4>2. at[g].buf \in DmaBuf /\ at[g].buf # b
        BY <3>1, <4>1 DEF Imports, Threads
      <4>3. got'[h][at[g].buf] = got[h][at[g].buf]
        BY <2>5, <4>2
      <4>4. /\ got[h][at[g].buf] = 0
            /\ dpc[h] = "check" /\ at[h].buf = at[g].buf => g = h
        BY <3>0, <4>1 DEF Imports, Single
      <4> QED
        BY <2>2, <4>1, <4>3, <4>4
    <3>4. ASSUME NEW g \in File, NEW c \in DmaBuf, got'[g][c] > 0
          PROVE  /\ got'[g][c] = 1
                 /\ \E y \in ToSet(list) : item'[y].buf = c /\ item'[y].attached
                 /\ \A h \in File : got'[h][c] > 0 => g = h
      <4>1. c # b
        <5> SUFFICES ASSUME c = b
                     PROVE  FALSE
          OBVIOUS
        <5>1. CASE g = f
          BY <2>5, <3>1, <3>4, <5>1
        <5>2. CASE g # f
          BY <2>5, <3>1, <3>4, <5>2
        <5> QED
          BY <5>1, <5>2
      <4>2. \A h \in File : got'[h][c] = got[h][c]
        BY <2>5, <4>1
      <4>3. /\ got[g][c] = 1
            /\ \A h \in File : got[h][c] > 0 => g = h
        BY <3>0, <3>4, <4>2 DEF Imports, Single
      <4>4. PICK y \in ToSet(list) : item[y].buf = c /\ item[y].attached
        BY <3>0, <3>4, <4>2 DEF Imports, Single
      <4>5. y \in Item /\ y # x
        BY <1>2, <3>1, <4>1, <4>4
      <4>6. item'[y] = item[y]
        BY <2>3, <4>5
      <4> QED
        BY <4>2, <4>3, <4>4, <4>6
    <3> QED
      BY <3>0, <3>2, <3>3, <3>4
  <2>14. Lone'
    <3> SUFFICES ASSUME mess' = {}
                 PROVE  /\ "dma_item" \notin wild'
                        /\ \A y, z \in ToSet(list') : item'[y].buf = item'[z].buf => y = z
                        /\ \A y \in Item : item'[y] # NoItem => y \in ToSet(list')
                        /\ \A y \in ToSet(list') :
                             /\ item'[y].ref = 1
                             /\ \/ item'[y].attached
                                \/ \E h \in File : dpc'[h] = "drop" /\ at'[h].item = y
      BY DEF Lone, Dropping, InUse
    <3>1. mess = {} /\ "dma_item" \notin wild' /\ list' = list
      BY <1>1, <2>1
    <3>2. \A y \in Item : item'[y].buf = item[y].buf /\ item'[y].ref = item[y].ref
      BY <2>3
    <3>3. \A y, z \in ToSet(list) : item'[y].buf = item'[z].buf => y = z
      <4> SUFFICES ASSUME NEW y \in ToSet(list), NEW z \in ToSet(list),
                          item'[y].buf = item'[z].buf
                   PROVE  y = z
        OBVIOUS
      <4>1. item[y].buf = item[z].buf
        BY <1>2, <3>2
      <4> QED
        BY <3>1, <4>1 DEF Imports, Lone
    <3>4. ASSUME NEW y \in Item, item'[y] # NoItem
          PROVE  y \in ToSet(list)
      <4>1. CASE y = x
        BY <2>7, <4>1
      <4>2. CASE y # x
        BY <2>3, <3>1, <3>4, <4>2 DEF Imports, Lone, InUse
      <4> QED
        BY <4>1, <4>2
    <3>5. ASSUME NEW y \in ToSet(list)
          PROVE  /\ item'[y].ref = 1
                 /\ \/ item'[y].attached
                    \/ \E h \in File : dpc'[h] = "drop" /\ at'[h].item = y
      <4>1. y \in Item /\ item[y].ref = 1 /\ (item[y].attached \/ Dropping(y))
        BY <1>2, <3>1 DEF Imports, Lone
      <4>2. item'[y].ref = 1
        BY <3>2, <4>1
      <4>3. CASE y = x
        BY <2>2, <4>2, <4>3
      <4>4. CASE y # x
        <5>1. item'[y] = item[y]
          BY <2>3, <4>1, <4>4
        <5> QED
          BY <2>9, <4>1, <5>1
      <4> QED
        BY <4>3, <4>4
    <3> QED
      BY <3>1, <3>3, <3>4, <3>5
  <2> QED
    BY <2>6, <2>10, <2>11, <2>12, <2>13, <2>14 DEF Imports
<1> QED
  BY <1>7, <1>8

\* Dropping a reference of a listed item leaves the list in order.
LEMMA ReleaseListed ==
  ASSUME DmaTypeOK, Imports, NEW x \in Item, x \in ToSet(list), ReleaseItem(x)
  PROVE  Listed'
<1>1. /\ item \in [Item -> Piece] /\ list \in Seq(Item) /\ ToSet(list) \subseteq Item
  BY DmaTypes
<1>2. Distinct(list) /\ item[x].ref > 0 /\ item[x].buf # Nil
  BY DEF Imports, Listed, Distinct
<1>3. /\ Distinct(list')
      /\ \A y \in Item \ {x} : item'[y] = item[y]
      /\ \/ /\ item'[x].ref = 0 /\ item'[x].buf = Nil /\ ~item'[x].attached
            /\ ToSet(list') = ToSet(list) \ {x}
         \/ /\ item[x].ref > 1 /\ item[x].ref \in Nat
            /\ item'[x].ref = item[x].ref - 1
            /\ item'[x].buf = item[x].buf
            /\ item'[x].attached = item[x].attached
            /\ list' = list
  BY <1>2, ReleaseFacts
<1>4. ASSUME NEW y \in ToSet(list')
      PROVE  item'[y].buf # Nil /\ item'[y].ref > 0
  <2>1. y \in ToSet(list) /\ y \in Item
    BY <1>1, <1>3
  <2>2. item[y].buf # Nil /\ item[y].ref > 0
    BY <2>1 DEF Imports, Listed
  <2>3. CASE y = x
    BY <1>2, <1>3, <1>4, <2>3
  <2>4. CASE y # x
    BY <1>3, <2>1, <2>2, <2>4
  <2> QED
    BY <2>3, <2>4
<1>5. ASSUME NEW y \in Item, item'[y].attached
      PROVE  y \in ToSet(list')
  <2>1. CASE y = x
    BY <1>3, <1>5, <2>1
  <2>2. CASE y # x
    <3>1. item[y].attached
      BY <1>3, <1>5, <2>2
    <3>2. y \in ToSet(list)
      BY <3>1 DEF Imports, Listed
    <3> QED
      BY <1>3, <2>2, <3>2
  <2> QED
    BY <2>1, <2>2
<1> QED
  BY <1>3, <1>4, <1>5 DEF Listed, Distinct

\* The rest of the import: success, or the reference is dropped, once or twice.
LEMMA CheckKeeps ==
  ASSUME DmaTypeOK, Imports, NEW f \in File, ImportCheck(f)
  PROVE  DmaTypeOK' /\ Imports'
<1>1. wild = {} /\ dpc[f] = "check"
  BY DEF ImportCheck
<1>2. /\ list \in Seq(Item) /\ item \in [Item -> Piece]
      /\ held \in [DmaBuf -> Int] /\ dpc \in [File -> Place] /\ at \in [File -> Call]
      /\ got \in [File -> [DmaBuf -> Nat]] /\ imports \in Nat /\ imports <= MaxImport
      /\ mess \subseteq Mishap
      /\ lapsed \in [DmaBuf -> Nat] /\ overput \in [DmaBuf -> Nat]
      /\ ToSet(list) \subseteq Item
  BY DmaTypes
<1>3. PICK b \in DmaBuf : b = at[f].buf
  BY <1>1 DEF Imports, Threads
<1>4. PICK x \in Item : x = at[f].item
  BY <1>1 DEF Imports, Threads
<1>5. CASE ~InUse(x) \/ ~item[x].attached
  <2>1. DmaFault("dma_item")
    BY <1>4, <1>5 DEF ImportCheck
  <2>2. UNCHANGED <<list, item, held, dpc, at, got, imports, lapsed, overput, mess>>
    BY <2>1 DEF DmaFault, history
  <2>3. mess # {}
    <3>1. mess = {} => item[x].attached
      BY <1>1, <1>4 DEF Imports, Single
    <3> QED
      BY <1>5, <3>1, InUseFacts
  <2>4. DmaTypeOK'
    BY <2>2 DEF DmaTypeOK
  <2>5. Listed' /\ Threads' /\ Counted' /\ Single'
    BY <2>2 DEF Imports, Listed, Threads, Counted, Single, Dropping
  <2>6. Lone'
    BY <2>2, <2>3 DEF Lone
  <2> QED
    BY <2>4, <2>5, <2>6 DEF Imports
<1>6. CASE InUse(x) /\ item[x].attached
  <2>1. /\ Leave(f)
        /\ \/ /\ Imported(f)
              /\ UNCHANGED <<list, item, held, overput, mess>>
           \/ /\ ReleaseItem(x) /\ Hold(b, -1)
              /\ mess' = mess \cup {"pieces"}
              /\ UNCHANGED <<got, overput>>
           \/ /\ ReleaseItem(x) /\ Hold(b, -2)
              /\ mess' = mess \cup {"fault"}
              /\ overput' = [overput EXCEPT ![b] = @ + 1]
              /\ UNCHANGED got
        /\ UNCHANGED <<imports, lapsed, wild>>
    BY <1>3, <1>4, <1>6, Zenon DEF ImportCheck
  <2>2. Enter(f, "idle", Nil, Nil)
    BY <2>1 DEF Leave
  <2>3. /\ dpc' \in [File -> Place] /\ at' \in [File -> Call]
        /\ dpc'[f] = "idle"
        /\ \A g \in File \ {f} : dpc'[g] = dpc[g] /\ at'[g] = at[g]
    BY <2>2, EnterFacts DEF Place
  <2>4. \A y : (\E h \in File : dpc'[h] = "drop" /\ at'[h].item = y) <=> Dropping(y)
    BY <1>1, <2>3 DEF Dropping
  <2>5. x \in ToSet(list)
    BY <1>6 DEF Imports, Listed
  <2>6. CASE Imported(f) /\ UNCHANGED <<list, item, held, overput, mess>>
    <3>1. /\ got' \in [File -> [DmaBuf -> Nat]] /\ got'[f][b] = got[f][b] + 1
          /\ \A g \in File, c \in DmaBuf : (g # f \/ c # b) => got'[g][c] = got[g][c]
      <4>1. got[f] \in [DmaBuf -> Nat] /\ got[f][b] \in Nat
        BY <1>2
      <4>2. PICK n \in Nat : n = got[f][b] + 1
        BY <4>1
      <4>3. PICK h \in [DmaBuf -> Nat] : h = [got[f] EXCEPT ![b] = n]
        BY <4>1
      <4>4. got' = [got EXCEPT ![f] = h]
        BY <1>3, <2>6, <4>2, <4>3 DEF Imported
      <4> QED
        BY <1>2, <4>1, <4>2, <4>3, <4>4
    <3>2. DmaTypeOK'
      BY <1>2, <2>1, <2>3, <2>6, <3>1, DmaTyped
    <3>3. Listed'
      BY <2>6 DEF Imports, Listed
    <3>4. \A g \in File : dpc[g] = "detach" => got'[g][at[g].buf] > 0
      <4> SUFFICES ASSUME NEW g \in File, dpc[g] = "detach"
                   PROVE  got'[g][at[g].buf] > 0
        OBVIOUS
      <4>1. g # f /\ at[g].buf \in DmaBuf /\ got[g][at[g].buf] > 0
        BY <1>1 DEF Imports, Threads
      <4> QED
        BY <3>1, <4>1
    <3>5. Threads'
      BY <2>3, <2>6, <3>4 DEF Imports, Threads
    <3>6. Counted'
      <4> SUFFICES ASSUME mess' \cap {"pieces", "fault"} = {}, NEW g \in File, dpc'[g] = "known"
                   PROVE  /\ item'[at'[g].item].ref > 0
                          /\ ((item'[at'[g].item].attached
                                \/ \E h \in File : dpc'[h] = "drop" /\ at'[h].item = at'[g].item)
                             => item'[at'[g].item].ref > 1)
        BY DEF Counted, Dropping
      <4>1. dpc[g] = "known" /\ at'[g] = at[g]
        BY <2>3
      <4> QED
        BY <2>4, <2>6, <4>1 DEF Imports, Counted
    <3>7. ASSUME mess = {}
          PROVE  /\ item[x].buf = b /\ \A g \in File : got[g][b] = 0
                 /\ \A g \in File \ {f} : dpc[g] = "check" => at[g].buf # b
      BY <1>1, <1>3, <1>4, <3>7 DEF Imports, Single
    <3>8. Single'
      <4> SUFFICES ASSUME mess = {}
                   PROVE  /\ \A g \in File :
                               /\ dpc'[g] # "known"
                               /\ dpc'[g] \in {"check", "detach", "drop"} =>
                                    at'[g].item \in ToSet(list) /\ item[at'[g].item].buf = at'[g].buf
                               /\ dpc'[g] = "check" =>
                                    /\ item[at'[g].item].attached
                                    /\ \A h \in File :
                                         /\ got'[h][at'[g].buf] = 0
                                         /\ dpc'[h] = "check" /\ at'[h].buf = at'[g].buf => g = h
                          /\ \A g \in File, c \in DmaBuf : got'[g][c] > 0 =>
                               /\ got'[g][c] = 1
                               /\ \E y \in ToSet(list) : item[y].buf = c /\ item[y].attached
                               /\ \A h \in File : got'[h][c] > 0 => g = h
        BY <2>6 DEF Single
      <4>1. ASSUME NEW g \in File
            PROVE  /\ dpc'[g] # "known"
                   /\ dpc'[g] \in {"check", "detach", "drop"} =>
                        at'[g].item \in ToSet(list) /\ item[at'[g].item].buf = at'[g].buf
                   /\ dpc'[g] = "check" => item[at'[g].item].attached
        <5>1. CASE g = f
          BY <2>3, <5>1
        <5>2. CASE g # f
          BY <2>3, <5>2 DEF Imports, Single
        <5> QED
          BY <5>1, <5>2
      <4>2. ASSUME NEW g \in File, dpc'[g] = "check", NEW h \in File
            PROVE  /\ got'[h][at'[g].buf] = 0
                   /\ dpc'[h] = "check" /\ at'[h].buf = at'[g].buf => g = h
        <5>1. g # f /\ dpc[g] = "check" /\ at'[g] = at[g]
          BY <2>3, <4>2
        <5>2. at[g].buf \in DmaBuf /\ at[g].buf # b
          BY <3>7, <5>1 DEF Imports, Threads
        <5>3. got'[h][at[g].buf] = got[h][at[g].buf]
          BY <3>1, <5>2
        <5>4. /\ got[h][at[g].buf] = 0
              /\ dpc[h] = "check" /\ at[h].buf = at[g].buf => g = h
          BY <5>1 DEF Imports, Single
        <5> QED
          BY <2>3, <5>1, <5>3, <5>4
      <4>3. ASSUME NEW g \in File, NEW c \in DmaBuf, got'[g][c] > 0
            PROVE  /\ got'[g][c] = 1
                   /\ \E y \in ToSet(list) : item[y].buf = c /\ item[y].attached
                   /\ \A h \in File : got'[h][c] > 0 => g = h
        <5>1. CASE c = b
          <6>1. \A h \in File : h # f => got'[h][b] = 0
            BY <3>1, <3>7
          <6>2. g = f /\ got'[f][b] = 1
            BY <3>1, <3>7, <4>3, <5>1, <6>1
          <6> QED
            BY <1>6, <2>5, <3>7, <5>1, <6>1, <6>2
        <5>2. CASE c # b
          <6>1. \A h \in File : got'[h][c] = got[h][c]
            BY <3>1, <5>2
          <6>2. /\ got[g][c] = 1
                /\ \E y \in ToSet(list) : item[y].buf = c /\ item[y].attached
                /\ \A h \in File : got[h][c] > 0 => g = h
            BY <4>3, <6>1 DEF Imports, Single
          <6> QED
            BY <6>1, <6>2
        <5> QED
          BY <5>1, <5>2
      <4> QED
        BY <4>1, <4>2, <4>3
    <3>9. Lone'
      <4> SUFFICES ASSUME mess = {}, NEW y \in ToSet(list)
                   PROVE  \/ item[y].attached
                          \/ \E h \in File : dpc'[h] = "drop" /\ at'[h].item = y
        BY <2>1, <2>6 DEF Imports, Lone, InUse, Dropping
      <4>1. item[y].attached \/ Dropping(y)
        BY DEF Imports, Lone
      <4> QED
        BY <2>4, <4>1
    <3> QED
      BY <3>2, <3>3, <3>5, <3>6, <3>8, <3>9 DEF Imports
  <2>7. CASE /\ ReleaseItem(x) /\ got' = got
             /\ held' \in [DmaBuf -> Int] /\ overput' \in [DmaBuf -> Nat]
             /\ mess' \in {mess \cup {"pieces"}, mess \cup {"fault"}}
    <3>1. Listed'
      BY <2>5, <2>7, ReleaseListed
    <3>2. item[x].ref > 0 /\ Distinct(list)
      BY <2>5 DEF Imports, Listed, Distinct
    <3>3. /\ item' \in [Item -> Piece] /\ list' \in Seq(Item)
          /\ \A y \in Item \ {x} : item'[y] = item[y]
          /\ ToSet(list) \ {x} \subseteq ToSet(list')
      BY <2>7, <3>2, ReleaseFacts
    <3>4. mess' \subseteq Mishap
      BY <1>2, <2>7 DEF Mishap
    <3>5. DmaTypeOK'
      BY <1>2, <2>1, <2>3, <2>7, <3>3, <3>4, DmaTyped
    <3>6. Threads'
      <4>1. \A g \in File : dpc[g] = "drop" =>
              /\ at[g].item \in ToSet(list) \ {x} /\ at[g].item \in Item
        BY <1>6 DEF Imports, Threads
      <4>2. \A g \in File : dpc[g] = "drop" =>
              at[g].item \in ToSet(list') /\ ~item'[at[g].item].attached
        BY <3>3, <4>1 DEF Imports, Threads
      <4> QED
        BY <2>3, <2>7, <4>2 DEF Imports, Threads
    <3>7. Counted' /\ Single' /\ Lone'
      BY <2>7 DEF Counted, Single, Lone
    <3> QED
      BY <3>1, <3>5, <3>6, <3>7 DEF Imports
  <2>8. CASE /\ ReleaseItem(x) /\ Hold(b, -1)
             /\ mess' = mess \cup {"pieces"}
             /\ UNCHANGED <<got, overput>>
    <3>1. held' \in [DmaBuf -> Int]
      BY <2>8, HoldTyped
    <3> QED
      BY <1>2, <2>7, <2>8, <3>1
  <2>9. CASE /\ ReleaseItem(x) /\ Hold(b, -2)
             /\ mess' = mess \cup {"fault"}
             /\ overput' = [overput EXCEPT ![b] = @ + 1]
             /\ UNCHANGED got
    <3>1. held' \in [DmaBuf -> Int]
      BY <2>9, HoldTyped
    <3>2. overput' \in [DmaBuf -> Nat]
      BY <1>2, <2>9
    <3> QED
      BY <1>2, <2>7, <2>9, <3>1, <3>2
  <2> QED
    BY <2>1, <2>6, <2>8, <2>9
<1> QED
  BY <1>5, <1>6

\* The release drops the item it found.
LEMMA DropKeeps ==
  ASSUME DmaTypeOK, Imports, NEW f \in File, ReleaseDrop(f)
  PROVE  DmaTypeOK' /\ Imports'
<1>1. /\ wild = {} /\ dpc[f] = "drop"
      /\ ReleaseItem(at[f].item) /\ Leave(f)
      /\ UNCHANGED <<held, got, imports, lapsed, overput, mess, wild>>
  BY DEF ReleaseDrop, history, deviceVars
<1>2. /\ list \in Seq(Item) /\ item \in [Item -> Piece]
      /\ held \in [DmaBuf -> Int] /\ dpc \in [File -> Place] /\ at \in [File -> Call]
      /\ got \in [File -> [DmaBuf -> Nat]] /\ imports \in Nat /\ imports <= MaxImport
      /\ mess \subseteq Mishap
      /\ lapsed \in [DmaBuf -> Nat] /\ overput \in [DmaBuf -> Nat]
      /\ ToSet(list) \subseteq Item
  BY DmaTypes
<1>3. PICK x \in Item : x = at[f].item
  BY <1>1 DEF Imports, Threads
<1>4. /\ x \in ToSet(list) /\ ~item[x].attached
      /\ \A g \in File \ {f} : dpc[g] = "drop" => at[g].item # x
  BY <1>1, <1>3 DEF Imports, Threads
<1>5. /\ dpc' \in [File -> Place] /\ at' \in [File -> Call]
      /\ dpc'[f] = "idle"
      /\ \A g \in File \ {f} : dpc'[g] = dpc[g] /\ at'[g] = at[g]
  BY <1>1, EnterFacts DEF Place, Leave
<1>6. item[x].ref > 0 /\ Distinct(list)
  BY <1>4 DEF Imports, Listed, Distinct
<1>7. /\ item' \in [Item -> Piece] /\ list' \in Seq(Item)
      /\ \A y \in Item \ {x} : item'[y] = item[y]
      /\ \/ /\ item[x].ref = 1 /\ item'[x] = NoItem
            /\ item'[x].ref = 0 /\ item'[x].buf = Nil /\ ~item'[x].attached
            /\ ToSet(list') = ToSet(list) \ {x}
         \/ /\ item[x].ref > 1 /\ item[x].ref \in Nat
            /\ item'[x].ref = item[x].ref - 1
            /\ item'[x].buf = item[x].buf
            /\ item'[x].attached = item[x].attached
            /\ list' = list
  BY <1>1, <1>3, <1>6, ReleaseFacts
<1>8. DmaTypeOK'
  BY <1>1, <1>2, <1>5, <1>7, DmaTyped
<1>9. Listed'
  BY <1>1, <1>3, <1>4, ReleaseListed
<1>10. \A y : (\E h \in File : dpc'[h] = "drop" /\ at'[h].item = y)
              <=> Dropping(y) /\ y # x
  BY <1>1, <1>3, <1>4, <1>5 DEF Dropping
<1>11. Threads'
  <2>1. \A g \in File \ {f} : dpc[g] = "drop" =>
          at[g].item \in ToSet(list) \ {x} /\ at[g].item \in Item
    BY <1>4 DEF Imports, Threads
  <2>2. ToSet(list) \ {x} \subseteq ToSet(list')
    BY <1>7
  <2>3. \A g \in File \ {f} : dpc[g] = "drop" =>
          at[g].item \in ToSet(list') /\ ~item'[at[g].item].attached
    BY <1>7, <2>1, <2>2 DEF Imports, Threads
  <2> QED
    BY <1>1, <1>5, <2>3 DEF Imports, Threads
<1>12. Counted'
  <2> SUFFICES ASSUME mess' \cap {"pieces", "fault"} = {}, NEW g \in File, dpc'[g] = "known"
               PROVE  /\ item'[at'[g].item].ref > 0
                      /\ ((item'[at'[g].item].attached
                            \/ \E h \in File : dpc'[h] = "drop" /\ at'[h].item = at'[g].item)
                         => item'[at'[g].item].ref > 1)
    BY DEF Counted, Dropping
  <2>1. g # f /\ dpc[g] = "known" /\ at'[g] = at[g]
    BY <1>5
  <2>2. PICK y \in Item : y = at[g].item
    BY <2>1 DEF Imports, Threads
  <2>3. /\ item[y].ref > 0
        /\ item[y].attached \/ Dropping(y) => item[y].ref > 1
    BY <1>1, <2>1, <2>2 DEF Imports, Counted
  <2>4. CASE y = x
    <3>1. Dropping(x)
      BY <1>1, <1>3 DEF Dropping
    <3>2. item[x].ref > 1
      BY <2>3, <2>4, <3>1
    <3>3. item'[x].ref > 0 /\ ~item'[x].attached
      BY <1>4, <1>7, <3>2
    <3> QED
      BY <1>10, <2>1, <2>2, <2>4, <3>3
  <2>5. CASE y # x
    BY <1>7, <1>10, <2>1, <2>2, <2>3, <2>5
  <2> QED
    BY <2>4, <2>5
\* As long as nothing has gone wrong it was the last reference.
<1>13. ASSUME mess = {}
       PROVE  /\ item'[x] = NoItem /\ item[x].buf = at[f].buf
              /\ ToSet(list') = ToSet(list) \ {x}
  <2>1. item[x].ref = 1
    BY <1>4, <1>13 DEF Imports, Lone
  <2> QED
    BY <1>1, <1>3, <1>7, <1>13, <2>1 DEF Imports, Single
<1>14. Single'
  <2> SUFFICES ASSUME mess = {}
               PROVE  /\ \A g \in File :
                           /\ dpc'[g] # "known"
                           /\ dpc'[g] \in {"check", "detach", "drop"} =>
                                at'[g].item \in ToSet(list') /\ item'[at'[g].item].buf = at'[g].buf
                           /\ dpc'[g] = "check" =>
                                /\ item'[at'[g].item].attached
                                /\ \A h \in File :
                                     /\ got[h][at'[g].buf] = 0
                                     /\ dpc'[h] = "check" /\ at'[h].buf = at'[g].buf => g = h
                      /\ \A g \in File, c \in DmaBuf : got[g][c] > 0 =>
                           /\ got[g][c] = 1
                           /\ \E y \in ToSet(list') : item'[y].buf = c /\ item'[y].attached
                           /\ \A h \in File : got[h][c] > 0 => g = h
    BY <1>1 DEF Single
  <2>1. ASSUME NEW g \in File \ {f}, dpc[g] \in {"check", "detach", "drop"}
        PROVE  at[g].item # x
    <3>1. CASE dpc[g] = "check"
      BY <1>4, <2>1, <3>1 DEF Imports, Single
    <3>2. CASE dpc[g] = "detach"
      <4>1. got[g][at[g].buf] > 0 /\ at[g].buf \in DmaBuf
        BY <2>1, <3>2 DEF Imports, Threads
      <4>2. PICK y \in ToSet(list) : item[y].buf = at[g].buf /\ item[y].attached
        BY <4>1 DEF Imports, Single
      <4>3. at[g].item \in ToSet(list) /\ item[at[g].item].buf = at[g].buf
        BY <2>1, <3>2 DEF Imports, Single
      <4>4. y = at[g].item
        BY <4>2, <4>3 DEF Imports, Lone
      <4> QED
        BY <1>4, <4>2, <4>4
    <3>3. CASE dpc[g] = "drop"
      BY <1>4, <3>3
    <3> QED
      BY <2>1, <3>1, <3>2, <3>3
  <2>2. ASSUME NEW g \in File
        PROVE  /\ dpc'[g] # "known"
               /\ dpc'[g] \in {"check", "detach", "drop"} =>
                    at'[g].item \in ToSet(list') /\ item'[at'[g].item].buf = at'[g].buf
               /\ dpc'[g] = "check" => item'[at'[g].item].attached
    <3>1. CASE g = f
      BY <1>5, <3>1
    <3>2. CASE g # f
      <4>1. dpc'[g] = dpc[g] /\ at'[g] = at[g] /\ dpc[g] # "known"
        BY <1>5, <3>2 DEF Imports, Single
      <4>2. CASE dpc[g] \in {"check", "detach", "drop"}
        <5>1. /\ at[g].item \in ToSet(list) /\ item[at[g].item].buf = at[g].buf
              /\ dpc[g] = "check" => item[at[g].item].attached
          BY <4>2 DEF Imports, Single
        <5>2. at[g].item \in Item \ {x}
          BY <1>2, <2>1, <3>2, <4>2, <5>1
        <5> QED
          BY <1>7, <1>13, <4>1, <5>1, <5>2
      <4> QED
        BY <4>1, <4>2
    <3> QED
      BY <3>1, <3>2
  <2>3. ASSUME NEW g \in File, dpc'[g] = "check", NEW h \in File
        PROVE  /\ got[h][at'[g].buf] = 0
               /\ dpc'[h] = "check" /\ at'[h].buf = at'[g].buf => g = h
    <3>1. g # f /\ dpc[g] = "check" /\ at'[g] = at[g]
      BY <1>5, <2>3
    <3> QED
      BY <1>5, <3>1 DEF Imports, Single
  <2>4. ASSUME NEW g \in File, NEW c \in DmaBuf, got[g][c] > 0
        PROVE  \E y \in ToSet(list') : item'[y].buf = c /\ item'[y].attached
    <3>1. PICK y \in ToSet(list) : item[y].buf = c /\ item[y].attached
      BY <2>4 DEF Imports, Single
    <3>2. y \in Item \ {x}
      BY <1>2, <1>4, <3>1
    <3> QED
      BY <1>7, <1>13, <3>1, <3>2
  <2>5. \A g \in File, c \in DmaBuf : got[g][c] > 0 =>
          got[g][c] = 1 /\ \A h \in File : got[h][c] > 0 => g = h
    BY DEF Imports, Single
  <2> QED
    BY <2>2, <2>3, <2>4, <2>5
<1>15. Lone'
  <2> SUFFICES ASSUME mess = {}
               PROVE  /\ \A y, z \in ToSet(list') : item'[y].buf = item'[z].buf => y = z
                      /\ \A y \in Item : item'[y] # NoItem => y \in ToSet(list')
                      /\ \A y \in ToSet(list') :
                           /\ item'[y].ref = 1
                           /\ \/ item'[y].attached
                              \/ \E h \in File : dpc'[h] = "drop" /\ at'[h].item = y
    BY <1>1 DEF Lone, Dropping, InUse
  <2>1. \A y \in ToSet(list') : y \in ToSet(list) /\ y \in Item /\ y # x /\ item'[y] = item[y]
    BY <1>2, <1>7, <1>13
  <2>2. \A y, z \in ToSet(list') : item'[y].buf = item'[z].buf => y = z
    BY <2>1 DEF Imports, Lone
  <2>3. ASSUME NEW y \in Item, item'[y] # NoItem
        PROVE  y \in ToSet(list')
    <3>1. y # x
      BY <1>13, <2>3
    <3>2. item[y] # NoItem
      BY <1>7, <2>3, <3>1
    <3>3. y \in ToSet(list)
      BY <3>2 DEF Imports, Lone, InUse
    <3> QED
      BY <1>13, <3>1, <3>3
  <2>4. ASSUME NEW y \in ToSet(list')
        PROVE  /\ item'[y].ref = 1
               /\ \/ item'[y].attached
                  \/ \E h \in File : dpc'[h] = "drop" /\ at'[h].item = y
    <3>1. item[y].ref = 1 /\ (item[y].attached \/ Dropping(y))
      BY <2>1 DEF Imports, Lone
    <3> QED
      BY <1>10, <2>1, <3>1
  <2> QED
    BY <2>2, <2>3, <2>4
<1> QED
  BY <1>8, <1>9, <1>11, <1>12, <1>14, <1>15 DEF Imports

\* A close forgets the imports of its file that were not released, and drops
\* nothing.
LEMMA CloseDmaKeeps ==
  ASSUME DmaTypeOK, Imports, NEW f \in File, CloseDma(f), "dma_item" \notin wild'
  PROVE  DmaTypeOK' /\ Imports'
<1>1. /\ list \in Seq(Item) /\ item \in [Item -> Piece]
      /\ held \in [DmaBuf -> Int] /\ dpc \in [File -> Place] /\ at \in [File -> Call]
      /\ got \in [File -> [DmaBuf -> Nat]] /\ imports \in Nat /\ imports <= MaxImport
      /\ mess \subseteq Mishap
      /\ lapsed \in [DmaBuf -> Nat] /\ overput \in [DmaBuf -> Nat]
  BY DmaTypes
<1>2. /\ dpc[f] = "idle" /\ got' = [got EXCEPT ![f] = Zero]
      /\ lapsed' = [b \in DmaBuf |-> lapsed[b] + got[f][b]]
      /\ UNCHANGED <<list, item, held, dpc, at, imports, overput, mess>>
  BY DEF CloseDma
<1>3. Zero \in [DmaBuf -> Nat] /\ \A b \in DmaBuf : Zero[b] = 0
  BY DEF Zero
<1>4. /\ got' \in [File -> [DmaBuf -> Nat]]
      /\ \A g \in File, b \in DmaBuf :
           got'[g][b] = IF g = f THEN 0 ELSE got[g][b]
  BY <1>1, <1>2, <1>3
<1>5. lapsed' \in [DmaBuf -> Nat]
  <2>1. \A b \in DmaBuf : lapsed[b] + got[f][b] \in Nat
    BY <1>1
  <2> QED
    BY <1>2, <2>1
<1>6. DmaTypeOK'
  BY <1>1, <1>2, <1>4, <1>5, DmaTyped
<1>7. Listed' /\ Counted'
  BY <1>2 DEF Imports, Listed, Counted, Dropping
<1>8. Threads'
  <2>1. \A g \in File : dpc[g] = "detach" => got'[g][at[g].buf] > 0
    <3> SUFFICES ASSUME NEW g \in File, dpc[g] = "detach"
                 PROVE  got'[g][at[g].buf] > 0
      OBVIOUS
    <3>1. g # f /\ at[g].buf \in DmaBuf /\ got[g][at[g].buf] > 0
      BY <1>2 DEF Imports, Threads
    <3> QED
      BY <1>4, <3>1
  <2> QED
    BY <1>2, <2>1 DEF Imports, Threads
<1>9. Single'
  <2> SUFFICES ASSUME mess = {}
               PROVE  /\ \A g, h \in File : dpc[g] = "check" => got'[h][at[g].buf] = 0
                      /\ \A g \in File, c \in DmaBuf : got'[g][c] > 0 =>
                           /\ got'[g][c] = 1
                           /\ \E y \in ToSet(list) : item[y].buf = c /\ item[y].attached
                           /\ \A h \in File : got'[h][c] > 0 => g = h
    BY <1>2 DEF Imports, Single
  <2>1. \A g, h \in File : dpc[g] = "check" => got'[h][at[g].buf] = 0
    <3> SUFFICES ASSUME NEW g \in File, NEW h \in File, dpc[g] = "check"
                 PROVE  got'[h][at[g].buf] = 0
      OBVIOUS
    <3>1. at[g].buf \in DmaBuf /\ got[h][at[g].buf] = 0
      BY DEF Imports, Threads, Single
    <3> QED
      BY <1>4, <3>1
  <2>2. ASSUME NEW g \in File, NEW c \in DmaBuf, got'[g][c] > 0
        PROVE  /\ got'[g][c] = 1
               /\ \E y \in ToSet(list) : item[y].buf = c /\ item[y].attached
               /\ \A h \in File : got'[h][c] > 0 => g = h
    <3>1. g # f /\ got'[g][c] = got[g][c]
      BY <1>4, <2>2
    <3>2. /\ got[g][c] = 1
          /\ \E y \in ToSet(list) : item[y].buf = c /\ item[y].attached
          /\ \A h \in File : got[h][c] > 0 => g = h
      BY <2>2, <3>1 DEF Imports, Single
    <3> QED
      BY <1>4, <3>1, <3>2
  <2> QED
    BY <2>1, <2>2
<1>10. Lone'
  BY <1>2 DEF Imports, Lone, InUse, Dropping
<1> QED
  BY <1>6, <1>7, <1>8, <1>9, <1>10 DEF Imports

\* Nothing is imported at the beginning.
LEMMA DmaStart ==
  ASSUME DmaInit, wild = {}
  PROVE  DmaTypeOK /\ Imports
<1>1. ToSet(list) = {} /\ list \in Seq(Item) /\ DOMAIN list = {}
  BY DEF DmaInit, ToSet
<1>2. NoItem \in Piece /\ NoItem.attached = FALSE
  BY DEF NoItem, Piece
<1>3. 0 \in 0 .. MaxImport
  BY DmaAssumption
<1>4. DmaTypeOK
  BY <1>1, <1>2, <1>3 DEF DmaInit, DmaTypeOK, Piece, Zero
<1>5. Listed /\ Threads /\ Counted
  BY <1>1, <1>2 DEF DmaInit, Listed, Threads, Counted
<1>6. Single /\ Lone
  BY <1>1 DEF DmaInit, Single, Lone, InUse, Zero
<1> QED
  BY <1>4, <1>5, <1>6 DEF Imports

(***************************************************************************)
(* The driver's references to the dma-bufs.                                *)
(***************************************************************************)

Calling == {"attach", "known", "check"}

\* The references of one dma-buf.
HeldFor(b) ==
  /\ IsFiniteSet(Unreleased(b)) /\ IsFiniteSet(Importing(b))
  /\ held[b] = Cardinality(Unreleased(b)) + Cardinality(Importing(b))
               + lapsed[b] - overput[b]

AllHeld == \A b \in DmaBuf : HeldFor(b)

\* Who is importing a dma-buf depends on the calls alone.
LEMMA ImportingSame ==
  ASSUME UNCHANGED <<dpc, at>>, NEW b
  PROVE  Importing(b)' = Importing(b)
  BY DEF Importing

\* What was not released depends on the imports of the files alone.
LEMMA UnreleasedSame ==
  ASSUME UNCHANGED got, NEW b
  PROVE  Unreleased(b)' = Unreleased(b)
  BY DEF Unreleased

\* A thread begins, ends or goes on with an import.
LEMMA ImportingStep ==
  ASSUME DmaTypeOK, NEW f \in File, NEW to \in Place,
         NEW b \in DmaBuf \cup {Nil}, NEW x \in Item \cup {Nil},
         Enter(f, to, b, x), NEW c \in DmaBuf
  PROVE  Importing(c)' =
           IF to \in Calling /\ b = c THEN Importing(c) \cup {f} ELSE Importing(c) \ {f}
<1>1. /\ dpc'[f] = to /\ at'[f].buf = b
      /\ \A g \in File \ {f} : dpc'[g] = dpc[g] /\ at'[g] = at[g]
  BY EnterFacts
<1>2. \A g \in File : g \in Importing(c)' <=>
        IF g = f THEN to \in Calling /\ b = c ELSE g \in Importing(c)
  BY <1>1 DEF Importing, Calling
<1>3. Importing(c)' \subseteq File /\ Importing(c) \subseteq File
  BY DEF Importing
<1> QED
  BY <1>2, <1>3

\* An import is noted as the next of its file.
LEMMA UnreleasedMore ==
  ASSUME DmaTypeOK, NEW f \in File, NEW b \in DmaBuf,
         got' = [got EXCEPT ![f][b] = @ + 1], NEW c \in DmaBuf
  PROVE  /\ c # b => Unreleased(c)' = Unreleased(c)
         /\ Unreleased(b)' = Unreleased(b) \cup {<<f, got[f][b] + 1>>}
         /\ <<f, got[f][b] + 1>> \notin Unreleased(b)
<1>1. got \in [File -> [DmaBuf -> Nat]]
  BY DmaTypes
<1>2. \A g \in File, d \in DmaBuf :
        got'[g][d] = IF g = f /\ d = b THEN got[g][d] + 1 ELSE got[g][d]
  BY <1>1
<1>3. c # b => Unreleased(c)' = Unreleased(c)
  <2>1. c # b => \A g \in File : got'[g][c] = got[g][c]
    BY <1>2
  <2> QED
    BY <2>1 DEF Unreleased
<1>4. PICK n \in Nat : n = got[f][b]
  BY <1>1
<1>5. 1 .. (n + 1) = (1 .. n) \cup {n + 1} /\ n + 1 \notin 1 .. n
  OBVIOUS
<1>6. Unreleased(b)' = UNION {{g} \X (1 .. got'[g][b]) : g \in File}
  BY DEF Unreleased
<1>7. UNION {{g} \X (1 .. got'[g][b]) : g \in File} = Unreleased(b) \cup {<<f, n + 1>>}
  <2>1. \A z : z \in UNION {{g} \X (1 .. got'[g][b]) : g \in File}
              <=> \E g \in File : \E k \in 1 .. got'[g][b] : z = <<g, k>>
    OBVIOUS
  <2>2. \A z : z \in Unreleased(b)
              <=> \E g \in File : \E k \in 1 .. got[g][b] : z = <<g, k>>
    BY DEF Unreleased
  <2>3. \A g \in File : \A k : k \in 1 .. got'[g][b] <=>
          IF g = f THEN k \in 1 .. got[g][b] \/ k = n + 1 ELSE k \in 1 .. got[g][b]
    <3>1. \A k : k \in 1 .. n + 1 <=> k \in 1 .. n \/ k = n + 1
      BY <1>5
    <3> QED
      BY <1>2, <1>4, <3>1
  <2>4. n + 1 \notin 1 .. got[f][b]
    BY <1>4, <1>5
  <2> QED
    BY <2>1, <2>2, <2>3, <2>4
<1>8. <<f, n + 1>> \notin Unreleased(b)
  BY <1>4, <1>5 DEF Unreleased
<1> QED
  BY <1>3, <1>4, <1>6, <1>7, <1>8

\* The last of its file is released.
LEMMA UnreleasedLess ==
  ASSUME DmaTypeOK, NEW f \in File, NEW b \in DmaBuf, got[f][b] > 0,
         got' = [got EXCEPT ![f][b] = @ - 1], NEW c \in DmaBuf
  PROVE  /\ c # b => Unreleased(c)' = Unreleased(c)
         /\ Unreleased(b)' = Unreleased(b) \ {<<f, got[f][b]>>}
         /\ <<f, got[f][b]>> \in Unreleased(b)
<1>1. got \in [File -> [DmaBuf -> Nat]]
  BY DmaTypes
<1>2. \A g \in File, d \in DmaBuf :
        got'[g][d] = IF g = f /\ d = b THEN got[g][d] - 1 ELSE got[g][d]
  BY <1>1
<1>3. c # b => Unreleased(c)' = Unreleased(c)
  <2>1. c # b => \A g \in File : got'[g][c] = got[g][c]
    BY <1>2
  <2> QED
    BY <2>1 DEF Unreleased
<1>4. PICK n \in Nat : n = got[f][b] /\ n > 0
  BY <1>1
<1>5. 1 .. (n - 1) = (1 .. n) \ {n} /\ n \in 1 .. n
  BY <1>4
<1>6. \A g \in File : 1 .. got'[g][b] =
        IF g = f THEN (1 .. got[g][b]) \ {n} ELSE 1 .. got[g][b]
  BY ZenonT(30), <1>2, <1>4, <1>5
<1>7. Unreleased(b)' = UNION {{g} \X (1 .. got'[g][b]) : g \in File}
  BY DEF Unreleased
<1>8. UNION {{g} \X (1 .. got'[g][b]) : g \in File} = Unreleased(b) \ {<<f, n>>}
  <2>1. \A z : z \in UNION {{g} \X (1 .. got'[g][b]) : g \in File}
              <=> \E g \in File : \E k \in 1 .. got'[g][b] : z = <<g, k>>
    OBVIOUS
  <2>2. \A z : z \in Unreleased(b)
              <=> \E g \in File : \E k \in 1 .. got[g][b] : z = <<g, k>>
    BY DEF Unreleased
  <2>3. \A g \in File : \A k : k \in 1 .. got'[g][b] <=>
          IF g = f THEN k \in 1 .. got[g][b] /\ k # n ELSE k \in 1 .. got[g][b]
    BY <1>6
  <2>4. n \in 1 .. got[f][b]
    BY <1>4, <1>5
  <2> QED
    BY <2>1, <2>2, <2>3, <2>4
<1>9. <<f, n>> \in Unreleased(b)
  BY <1>4, <1>5 DEF Unreleased
<1> QED
  BY <1>3, <1>4, <1>7, <1>8, <1>9

\* All those of a file are forgotten.
LEMMA UnreleasedNone ==
  ASSUME DmaTypeOK, NEW f \in File, got' = [got EXCEPT ![f] = Zero],
         NEW b \in DmaBuf
  PROVE  /\ Unreleased(b)' = Unreleased(b) \ ({f} \X (1 .. got[f][b]))
         /\ Unreleased(b) \cap ({f} \X (1 .. got[f][b])) = {f} \X (1 .. got[f][b])
         /\ Cardinality({f} \X (1 .. got[f][b])) = got[f][b]
<1>1. got \in [File -> [DmaBuf -> Nat]] /\ Zero[b] = 0
  BY DmaTypes DEF Zero
<1>2. \A g \in File : got'[g][b] = IF g = f THEN 0 ELSE got[g][b]
  BY <1>1
<1>3. \A g \in File : 1 .. got'[g][b] = IF g = f THEN {} ELSE 1 .. got[g][b]
  BY <1>2
<1>4. Unreleased(b)' = UNION {{g} \X (1 .. got'[g][b]) : g \in File}
  BY DEF Unreleased
<1>5. UNION {{g} \X (1 .. got'[g][b]) : g \in File}
        = Unreleased(b) \ ({f} \X (1 .. got[f][b]))
  <2>1. \A z : z \in UNION {{g} \X (1 .. got'[g][b]) : g \in File}
              <=> \E g \in File : \E k \in 1 .. got'[g][b] : z = <<g, k>>
    OBVIOUS
  <2>2. \A z : z \in Unreleased(b)
              <=> \E g \in File : \E k \in 1 .. got[g][b] : z = <<g, k>>
    BY DEF Unreleased
  <2>3. \A g \in File : \A k : k \in 1 .. got'[g][b] <=> g # f /\ k \in 1 .. got[g][b]
    BY <1>3
  <2>4. \A z : z \in {f} \X (1 .. got[f][b]) <=> \E k \in 1 .. got[f][b] : z = <<f, k>>
    OBVIOUS
  <2> QED
    BY <2>1, <2>2, <2>3, <2>4
<1>6. Unreleased(b) \cap ({f} \X (1 .. got[f][b])) = {f} \X (1 .. got[f][b])
  BY DEF Unreleased
<1>7. PICK n \in Nat : n = got[f][b]
  BY <1>1
<1>8. IsFiniteSet(1 .. n) /\ Cardinality(1 .. n) = n
  BY FS_Interval
<1>9. IsFiniteSet({f}) /\ Cardinality({f}) = 1
  BY FS_Singleton
<1>10. Cardinality({f} \X (1 .. n)) = 1 * n
  BY <1>8, <1>9, FS_Product
<1> QED
  BY <1>4, <1>5, <1>6, <1>7, <1>10

\* The counts of one dma-buf after a step of a thread.
LEMMA ImportingCount ==
  ASSUME DmaTypeOK, NEW f \in File, NEW to \in Place,
         NEW b \in DmaBuf \cup {Nil}, NEW x \in Item \cup {Nil},
         Enter(f, to, b, x), NEW c \in DmaBuf, IsFiniteSet(Importing(c))
  PROVE  /\ IsFiniteSet(Importing(c)') /\ Cardinality(Importing(c)) \in Nat
         /\ Cardinality(Importing(c)') =
              Cardinality(Importing(c))
              + (IF to \in Calling /\ b = c THEN 1 ELSE 0)
              - (IF dpc[f] \in Calling /\ at[f].buf = c THEN 1 ELSE 0)
<1>1. PICK S : S = Importing(c)
  OBVIOUS
<1>2. f \in S <=> dpc[f] \in Calling /\ at[f].buf = c
  BY <1>1 DEF Importing, Calling
<1>3. Importing(c)' = IF to \in Calling /\ b = c THEN S \cup {f} ELSE S \ {f}
  BY <1>1, ImportingStep
<1>4. IsFiniteSet(S) /\ Cardinality(S) \in Nat
  BY <1>1, FS_CardinalityType
<1>5. /\ IsFiniteSet(S \cup {f})
      /\ Cardinality(S \cup {f}) = IF f \in S THEN Cardinality(S) ELSE Cardinality(S) + 1
  BY <1>4, FS_AddElement
<1>6. /\ IsFiniteSet(S \ {f})
      /\ Cardinality(S \ {f}) = IF f \in S THEN Cardinality(S) - 1 ELSE Cardinality(S)
  BY <1>4, FS_RemoveElement
<1>7. CASE to \in Calling /\ b = c
  BY <1>1, <1>2, <1>3, <1>4, <1>5, <1>7
<1>8. CASE ~(to \in Calling /\ b = c)
  BY <1>1, <1>2, <1>3, <1>4, <1>6, <1>8
<1> QED
  BY <1>7, <1>8

\* An import that succeeds adds one to what its file has not released.
LEMMA UnreleasedMany ==
  ASSUME DmaTypeOK, NEW f \in File, NEW b \in DmaBuf,
         got' = [got EXCEPT ![f][b] = @ + 1],
         NEW c \in DmaBuf, IsFiniteSet(Unreleased(c))
  PROVE  /\ IsFiniteSet(Unreleased(c)') /\ Cardinality(Unreleased(c)) \in Nat
         /\ Cardinality(Unreleased(c)') =
              Cardinality(Unreleased(c)) + (IF c = b THEN 1 ELSE 0)
<1>1. Cardinality(Unreleased(c)) \in Nat
  BY FS_CardinalityType
<1>2. CASE c # b
  <2>1. Unreleased(c)' = Unreleased(c)
    BY <1>2, UnreleasedMore
  <2> QED
    BY <1>1, <1>2, <2>1
<1>3. CASE c = b
  <2>1. PICK z : Unreleased(b)' = Unreleased(b) \cup {z} /\ z \notin Unreleased(b)
    BY UnreleasedMore
  <2>2. /\ IsFiniteSet(Unreleased(b) \cup {z})
        /\ Cardinality(Unreleased(b) \cup {z}) = Cardinality(Unreleased(b)) + 1
    BY <1>3, <2>1, FS_AddElement
  <2> QED
    BY <1>1, <1>3, <2>1, <2>2
<1> QED
  BY <1>2, <1>3

\* A release takes one away.
LEMMA UnreleasedFew ==
  ASSUME DmaTypeOK, NEW f \in File, NEW b \in DmaBuf, got[f][b] > 0,
         got' = [got EXCEPT ![f][b] = @ - 1],
         NEW c \in DmaBuf, IsFiniteSet(Unreleased(c))
  PROVE  /\ IsFiniteSet(Unreleased(c)') /\ Cardinality(Unreleased(c)) \in Nat
         /\ Cardinality(Unreleased(c)') =
              Cardinality(Unreleased(c)) - (IF c = b THEN 1 ELSE 0)
<1>1. Cardinality(Unreleased(c)) \in Nat
  BY FS_CardinalityType
<1>2. CASE c # b
  <2>1. Unreleased(c)' = Unreleased(c)
    BY <1>2, UnreleasedLess
  <2> QED
    BY <1>1, <1>2, <2>1
<1>3. CASE c = b
  <2>1. PICK z : Unreleased(b)' = Unreleased(b) \ {z} /\ z \in Unreleased(b)
    BY UnreleasedLess
  <2>2. /\ IsFiniteSet(Unreleased(b) \ {z})
        /\ Cardinality(Unreleased(b) \ {z}) = Cardinality(Unreleased(b)) - 1
    BY <1>3, <2>1, FS_RemoveElement
  <2> QED
    BY <1>1, <1>3, <2>1, <2>2
<1> QED
  BY <1>2, <1>3

\* The driver's references are balanced as long as no call moves.
LEMMA AllHeldSame ==
  ASSUME AllHeld, UNCHANGED <<held, dpc, at, got, lapsed, overput>>
  PROVE  AllHeld'
<1> SUFFICES ASSUME NEW b \in DmaBuf
             PROVE  HeldFor(b)'
  BY DEF AllHeld
<1>1. Unreleased(b)' = Unreleased(b) /\ Importing(b)' = Importing(b)
  BY ImportingSame, UnreleasedSame
<1> QED
  BY <1>1 DEF AllHeld, HeldFor

\* A step of a thread that leaves closed files alone: the references, the
\* imports under way and those that succeeded change together.
Moves(f, to, b, e, x, n, more, over) ==
  /\ Enter(f, to, e, x)
  /\ to \in Calling => e = b
  /\ dpc[f] \in Calling => at[f].buf = b
  /\ \A c \in DmaBuf : held'[c] = held[c] + (IF c = b THEN n ELSE 0)
  /\ \/ more = 0 /\ got' = got
     \/ more = 1 /\ got' = [got EXCEPT ![f][b] = @ + 1]
     \/ more = -1 /\ got[f][b] > 0 /\ got' = [got EXCEPT ![f][b] = @ - 1]
  /\ lapsed' = lapsed
  /\ \A c \in DmaBuf : overput'[c] = overput[c] + (IF c = b THEN over ELSE 0)
  /\ n = more + (IF to \in Calling THEN 1 ELSE 0)
         - (IF dpc[f] \in Calling THEN 1 ELSE 0) - over

\* A call moves on: its references change by what its place says it holds.
LEMMA AllHeldStep ==
  ASSUME DmaTypeOK, AllHeld, NEW f \in File, NEW to \in Place,
         NEW b \in DmaBuf, NEW e \in {b, Nil}, NEW x \in Item \cup {Nil},
         NEW n \in Int, NEW more \in {-1, 0, 1}, NEW over \in {0, 1},
         Moves(f, to, b, e, x, n, more, over)
  PROVE  AllHeld'
<1>0. /\ Enter(f, to, e, x) /\ (to \in Calling => e = b)
      /\ dpc[f] \in Calling => at[f].buf = b
      /\ \A c \in DmaBuf : held'[c] = held[c] + (IF c = b THEN n ELSE 0)
      /\ \/ more = 0 /\ got' = got
         \/ more = 1 /\ got' = [got EXCEPT ![f][b] = @ + 1]
         \/ more = -1 /\ got[f][b] > 0 /\ got' = [got EXCEPT ![f][b] = @ - 1]
      /\ lapsed' = lapsed
      /\ \A c \in DmaBuf : overput'[c] = overput[c] + (IF c = b THEN over ELSE 0)
      /\ n = more + (IF to \in Calling THEN 1 ELSE 0)
             - (IF dpc[f] \in Calling THEN 1 ELSE 0) - over
  BY DEF Moves
<1> SUFFICES ASSUME NEW c \in DmaBuf
             PROVE  HeldFor(c)'
  BY DEF AllHeld
<1>1. /\ IsFiniteSet(Unreleased(c)) /\ IsFiniteSet(Importing(c))
      /\ held[c] = Cardinality(Unreleased(c)) + Cardinality(Importing(c))
                   + lapsed[c] - overput[c]
      /\ lapsed[c] \in Nat /\ overput[c] \in Nat /\ held[c] \in Int
  BY DmaTypes DEF AllHeld, HeldFor
<1>2. /\ IsFiniteSet(Importing(c)') /\ Cardinality(Importing(c)) \in Nat
      /\ Cardinality(Importing(c)') =
           Cardinality(Importing(c))
           + (IF to \in Calling /\ e = c THEN 1 ELSE 0)
           - (IF dpc[f] \in Calling /\ at[f].buf = c THEN 1 ELSE 0)
  <2>1. e \in DmaBuf \cup {Nil}
    OBVIOUS
  <2> QED
    BY <1>0, <1>1, <2>1, ImportingCount
<1>3. /\ IsFiniteSet(Unreleased(c)') /\ Cardinality(Unreleased(c)) \in Nat
      /\ Cardinality(Unreleased(c)') =
           Cardinality(Unreleased(c)) + (IF c = b THEN more ELSE 0)
  <2>1. CASE more = 0 /\ got' = got
    <3>1. Unreleased(c)' = Unreleased(c)
      BY <2>1, UnreleasedSame
    <3> QED
      BY <1>1, <2>1, <3>1, FS_CardinalityType
  <2>2. CASE more = 1 /\ got' = [got EXCEPT ![f][b] = @ + 1]
    BY <1>1, <2>2, UnreleasedMany, Zenon
  <2>3. CASE more = -1 /\ got[f][b] > 0 /\ got' = [got EXCEPT ![f][b] = @ - 1]
    <3>1. /\ IsFiniteSet(Unreleased(c)') /\ Cardinality(Unreleased(c)) \in Nat
          /\ Cardinality(Unreleased(c)') =
               Cardinality(Unreleased(c)) - (IF c = b THEN 1 ELSE 0)
      BY <1>1, <2>3, UnreleasedFew
    <3> QED
      BY <2>3, <3>1
  <2> QED
    BY <1>0, <2>1, <2>2, <2>3
<1>4. held'[c] = Cardinality(Unreleased(c)') + Cardinality(Importing(c)')
                 + lapsed'[c] - overput'[c]
  <2>1. /\ lapsed'[c] = lapsed[c]
        /\ held'[c] = held[c] + (IF c = b THEN n ELSE 0)
        /\ overput'[c] = overput[c] + (IF c = b THEN over ELSE 0)
    BY <1>0
  <2>2. CASE c = b
    <3>1. (IF to \in Calling /\ e = c THEN 1 ELSE 0) = IF to \in Calling THEN 1 ELSE 0
      BY <1>0, <2>2
    <3>2. (IF dpc[f] \in Calling /\ at[f].buf = c THEN 1 ELSE 0)
            = IF dpc[f] \in Calling THEN 1 ELSE 0
      BY <1>0, <2>2
    <3>3. PICK p \in {0, 1}, q \in {0, 1} :
            /\ p = IF to \in Calling THEN 1 ELSE 0
            /\ q = IF dpc[f] \in Calling THEN 1 ELSE 0
      OBVIOUS
    <3>4. /\ n = more + p - q - over /\ held'[c] = held[c] + n
          /\ overput'[c] = overput[c] + over
          /\ Cardinality(Importing(c)') = Cardinality(Importing(c)) + p - q
          /\ Cardinality(Unreleased(c)') = Cardinality(Unreleased(c)) + more
      BY <1>0, <1>2, <1>3, <2>1, <2>2, <3>1, <3>2, <3>3
    <3>5. PICK u \in Nat, i \in Nat, l \in Nat, o \in Nat :
            /\ u = Cardinality(Unreleased(c)) /\ i = Cardinality(Importing(c))
            /\ l = lapsed[c] /\ o = overput[c]
      BY <1>1, <1>2, <1>3
    <3>6. held[c] = u + i + l - o
      BY <1>1, <3>5
    <3>7. u + i + l - o + (more + p - q - over) = (u + more) + (i + p - q) + l - (o + over)
      OBVIOUS
    <3> QED
      BY <2>1, <3>4, <3>5, <3>6, <3>7
  <2>3. CASE c # b
    <3>1. /\ held'[c] = held[c] /\ overput'[c] = overput[c]
          /\ Cardinality(Unreleased(c)') = Cardinality(Unreleased(c))
      BY <1>1, <1>3, <2>1, <2>3
    <3>2. Cardinality(Importing(c)') = Cardinality(Importing(c))
      BY <1>0, <1>2, <2>3
    <3> QED
      BY <1>1, <2>1, <3>1, <3>2
  <2> QED
    BY <2>2, <2>3
<1> QED
  BY <1>2, <1>3, <1>4 DEF HeldFor

\* A reference to one dma-buf leaves those to the others alone.
LEMMA HoldFacts ==
  ASSUME DmaTypeOK, NEW b \in DmaBuf, NEW n \in Int, Hold(b, n)
  PROVE  \A c \in DmaBuf : held'[c] = held[c] + (IF c = b THEN n ELSE 0)
<1>1. held \in [DmaBuf -> Int]
  BY DmaTypes
<1> QED
  BY <1>1 DEF Hold

\* A thread whose step changes no count but the references themselves.
LEMMA AllHeldThread ==
  ASSUME DmaTypeOK, AllHeld, NEW f \in File, NEW to \in Place,
         NEW b \in DmaBuf, NEW e \in {b, Nil}, NEW x \in Item \cup {Nil},
         Enter(f, to, e, x), to \in Calling => e = b,
         dpc[f] \in Calling => at[f].buf = b,
         UNCHANGED <<got, lapsed, overput>>,
         \/ held' = held /\ (to \in Calling <=> dpc[f] \in Calling)
         \/ Hold(b, 1) /\ to \in Calling /\ dpc[f] \notin Calling
         \/ Hold(b, -1) /\ to \notin Calling /\ dpc[f] \in Calling
  PROVE  AllHeld'
<1>1. PICK n \in {-1, 0, 1} :
        /\ n = (IF to \in Calling THEN 1 ELSE 0) - (IF dpc[f] \in Calling THEN 1 ELSE 0)
        /\ Hold(b, n) \/ (n = 0 /\ held' = held)
  OBVIOUS
<1>2. \A c \in DmaBuf : held'[c] = held[c] + (IF c = b THEN n ELSE 0)
  <2>1. held \in [DmaBuf -> Int]
    BY DmaTypes
  <2>2. CASE Hold(b, n)
    BY <2>2, HoldFacts
  <2>3. CASE n = 0 /\ held' = held
    BY <2>1, <2>3
  <2> QED
    BY <1>1, <2>2, <2>3
<1>3. PICK more \in {-1, 0, 1}, over \in {0, 1} : more = 0 /\ over = 0
  OBVIOUS
<1>4. \A c \in DmaBuf : overput'[c] = overput[c] + (IF c = b THEN over ELSE 0)
  BY <1>3, DmaTypes
<1>5. n = more + (IF to \in Calling THEN 1 ELSE 0)
          - (IF dpc[f] \in Calling THEN 1 ELSE 0) - over
  BY <1>1, <1>3
<1>6. Moves(f, to, b, e, x, n, more, over)
  BY <1>2, <1>3, <1>4, <1>5 DEF Moves
<1>7. n \in Int
  OBVIOUS
<1> QED
  BY <1>6, <1>7, AllHeldStep

\* The search answers with an item or the null pointer.
LEMMA SearchTyped ==
  ASSUME DmaTypeOK, NEW b \in DmaBuf
  PROVE  Search(b) \in Item \cup {Nil}
  BY SearchFacts, DmaTypes

\* The balance of references when an import looks a dma-buf up.
LEMMA LookupHolds ==
  ASSUME DmaTypeOK, AllHeld, NEW f \in File, NEW b \in DmaBuf, ImportLookup(f, b)
  PROVE  AllHeld'
<1>1. CASE DmaFault("list")
  BY <1>1, AllHeldSame DEF DmaFault, history
<1>2. CASE stage # "node"
  <2>1. /\ dpc[f] = "idle" /\ Hold(b, 1) /\ UNCHANGED <<got, lapsed, overput>>
        /\ \/ Enter(f, "attach", b, Nil)
           \/ Enter(f, "known", b, Search(b))
    BY <1>2 DEF ImportLookup, Begin
  <2>2. PICK to \in Place, x \in Item \cup {Nil} :
          Enter(f, to, b, x) /\ to \in Calling
    BY <2>1, SearchTyped DEF Place, Calling
  <2>3. dpc[f] \notin Calling
    BY <2>1 DEF Calling
  <2>4. PICK e \in {b, Nil} : e = b
    OBVIOUS
  <2> QED
    BY <2>1, <2>2, <2>3, <2>4, AllHeldThread
<1> QED
  BY <1>1, <1>2 DEF ImportLookup

\* The balance of references when an import attaches it or fails to.
LEMMA AttachHolds ==
  ASSUME DmaTypeOK, Threads, AllHeld, NEW f \in File, ImportAttach(f)
  PROVE  AllHeld'
<1>1. dpc[f] = "attach" /\ at[f].buf \in DmaBuf
  BY DEF ImportAttach, Threads
<1>2. PICK b \in DmaBuf : b = at[f].buf
  BY <1>1
<1>3. CASE DmaFault("err_ptr")
  BY <1>3, AllHeldSame DEF DmaFault, history
<1>4. CASE Leave(f) /\ Hold(at[f].buf, -1) /\ UNCHANGED <<got, lapsed, overput>>
  <2>1. PICK to \in Place, e \in {b, Nil}, x \in Item \cup {Nil} :
          to = "idle" /\ e = Nil /\ x = Nil
    BY DEF Place
  <2>2. Enter(f, to, e, x) /\ Hold(b, -1)
    BY <1>2, <1>4, <2>1 DEF Leave
  <2>3. to \notin Calling /\ dpc[f] \in Calling
    BY <1>1, <2>1 DEF Calling
  <2> QED
    BY <1>2, <1>4, <2>2, <2>3, AllHeldThread
<1>5. ASSUME NEW y \in Item, Enter(f, "check", at[f].buf, y),
             UNCHANGED <<held, got, lapsed, overput>>
      PROVE  AllHeld'
  <2>1. PICK to \in Place, e \in {b, Nil}, x \in Item \cup {Nil} :
          to = "check" /\ e = b /\ x = y
    BY DEF Place
  <2>2. Enter(f, to, e, x)
    BY <1>2, <1>5, <2>1
  <2>3. to \in Calling /\ dpc[f] \in Calling
    BY <1>1, <2>1 DEF Calling
  <2> QED
    BY <1>2, <1>5, <2>1, <2>2, <2>3, AllHeldThread
<1> QED
  BY <1>3, <1>4, <1>5 DEF ImportAttach

\* The balance of references when an import uses what is attached.
LEMMA KnownHolds ==
  ASSUME DmaTypeOK, Threads, AllHeld, NEW f \in File, ImportKnown(f)
  PROVE  AllHeld'
<1>1. dpc[f] = "known" /\ at[f].buf \in DmaBuf /\ at[f].item \in Item
  BY DEF ImportKnown, Threads
<1>2. PICK b \in DmaBuf, y \in Item : b = at[f].buf /\ y = at[f].item
  BY <1>1
<1>3. PICK to \in Place, e \in {b, Nil}, x \in Item \cup {Nil} :
        to = "check" /\ e = b /\ x = y
  BY DEF Place
<1>4. Enter(f, to, e, x) /\ UNCHANGED <<held, got, lapsed, overput>>
  BY <1>2, <1>3 DEF ImportKnown, history
<1>5. to \in Calling /\ dpc[f] \in Calling
  BY <1>1, <1>3 DEF Calling
<1> QED
  BY <1>2, <1>3, <1>4, <1>5, AllHeldThread

\* The balance of references when an import ends, with or without success.
LEMMA CheckHolds ==
  ASSUME DmaTypeOK, Threads, AllHeld, NEW f \in File, ImportCheck(f)
  PROVE  AllHeld'
<1>1. dpc[f] = "check" /\ at[f].buf \in DmaBuf
  BY DEF ImportCheck, Threads
<1>2. PICK b \in DmaBuf : b = at[f].buf
  BY <1>1
<1>3. PICK to \in Place, e \in {b, Nil}, x \in Item \cup {Nil} :
        to = "idle" /\ e = Nil /\ x = Nil
  BY DEF Place
<1>4. dpc[f] \in Calling /\ to \notin Calling
  BY <1>1, <1>3 DEF Calling
<1>5. held \in [DmaBuf -> Int] /\ overput \in [DmaBuf -> Nat]
  BY DmaTypes
<1>6. CASE DmaFault("dma_item")
  BY <1>6, AllHeldSame DEF DmaFault, history
<1>7. CASE Leave(f) /\ Imported(f) /\ UNCHANGED <<held, lapsed, overput>>
  <2>1. PICK n \in Int, more \in {-1, 0, 1}, over \in {0, 1} :
          n = 0 /\ more = 1 /\ over = 0
    OBVIOUS
  <2>2. Enter(f, to, e, x) /\ got' = [got EXCEPT ![f][b] = @ + 1]
    BY <1>2, <1>3, <1>7 DEF Leave, Imported
  <2>3. /\ \A c \in DmaBuf : held'[c] = held[c] + (IF c = b THEN n ELSE 0)
        /\ \A c \in DmaBuf : overput'[c] = overput[c] + (IF c = b THEN over ELSE 0)
    BY <1>5, <1>7, <2>1
  <2>4. n = more + (IF to \in Calling THEN 1 ELSE 0)
            - (IF dpc[f] \in Calling THEN 1 ELSE 0) - over
    BY <1>4, <2>1
  <2>5. Moves(f, to, b, e, x, n, more, over)
    BY <1>2, <1>4, <1>7, <2>1, <2>2, <2>3, <2>4 DEF Moves
  <2> QED
    BY <2>5, AllHeldStep
<1>8. CASE Leave(f) /\ Hold(at[f].buf, -1) /\ UNCHANGED <<got, lapsed, overput>>
  <2>1. Enter(f, to, e, x) /\ Hold(b, -1)
    BY <1>2, <1>3, <1>8 DEF Leave
  <2> QED
    BY <1>2, <1>4, <1>8, <2>1, AllHeldThread
<1>9. CASE /\ Leave(f) /\ Hold(at[f].buf, -2) /\ UNCHANGED <<got, lapsed>>
           /\ overput' = [overput EXCEPT ![at[f].buf] = @ + 1]
  <2>1. PICK n \in Int, more \in {-1, 0, 1}, over \in {0, 1} :
          n = -2 /\ more = 0 /\ over = 1
    OBVIOUS
  <2>2. Enter(f, to, e, x) /\ Hold(b, n)
    BY <1>2, <1>3, <1>9, <2>1 DEF Leave
  <2>3. \A c \in DmaBuf : held'[c] = held[c] + (IF c = b THEN n ELSE 0)
    BY <2>2, HoldFacts
  <2>4. \A c \in DmaBuf : overput'[c] = overput[c] + (IF c = b THEN over ELSE 0)
    BY <1>2, <1>5, <1>9, <2>1
  <2>5. n = more + (IF to \in Calling THEN 1 ELSE 0)
            - (IF dpc[f] \in Calling THEN 1 ELSE 0) - over
    BY <1>4, <2>1
  <2>6. Moves(f, to, b, e, x, n, more, over)
    BY <1>2, <1>4, <1>9, <2>1, <2>2, <2>3, <2>4, <2>5 DEF Moves
  <2> QED
    BY <2>6, AllHeldStep
<1> QED
  BY <1>6, <1>7, <1>8, <1>9 DEF ImportCheck

\* The balance of references when a release looks a dma-buf up.
LEMMA SearchHolds ==
  ASSUME DmaTypeOK, AllHeld, NEW f \in File, NEW b \in DmaBuf, ReleaseSearch(f, b)
  PROVE  AllHeld'
<1>1. PICK to \in Place, e \in {b, Nil}, x \in Item \cup {Nil} :
        to = "detach" /\ e = b /\ x = Search(b)
  BY SearchTyped DEF Place
<1>2. /\ Enter(f, to, e, x) /\ dpc[f] = "idle"
      /\ UNCHANGED <<held, got, lapsed, overput>>
  BY <1>1 DEF ReleaseSearch, Begin, history
<1>3. to \notin Calling /\ dpc[f] \notin Calling
  BY <1>1, <1>2 DEF Calling
<1> QED
  BY <1>2, <1>3, AllHeldThread

\* The balance of references when a release detaches it.
LEMMA DetachHolds ==
  ASSUME DmaTypeOK, Threads, AllHeld, NEW f \in File, ReleaseDetach(f)
  PROVE  AllHeld'
<1>1. /\ dpc[f] = "detach" /\ at[f].buf \in DmaBuf /\ at[f].item \in Item
      /\ got[f][at[f].buf] > 0
  BY DEF ReleaseDetach, Threads
<1>2. PICK b \in DmaBuf, y \in Item : b = at[f].buf /\ y = at[f].item
  BY <1>1
<1>3. CASE DmaFault("dma_item")
  BY <1>3, AllHeldSame DEF DmaFault, history
<1>4. CASE /\ Hold(at[f].buf, -1) /\ Released(f)
           /\ Enter(f, "drop", at[f].buf, at[f].item)
           /\ UNCHANGED <<lapsed, overput>>
  <2>1. PICK to \in Place, e \in {b, Nil}, x \in Item \cup {Nil} :
          to = "drop" /\ e = b /\ x = y
    BY DEF Place
  <2>2. PICK n \in Int, more \in {-1, 0, 1}, over \in {0, 1} :
          n = -1 /\ more = -1 /\ over = 0
    OBVIOUS
  <2>3. /\ Enter(f, to, e, x) /\ Hold(b, n) /\ got[f][b] > 0
        /\ got' = [got EXCEPT ![f][b] = @ - 1]
    BY <1>1, <1>2, <1>4, <2>1, <2>2 DEF Released
  <2>4. \A c \in DmaBuf : held'[c] = held[c] + (IF c = b THEN n ELSE 0)
    BY <2>3, HoldFacts
  <2>5. \A c \in DmaBuf : overput'[c] = overput[c] + (IF c = b THEN over ELSE 0)
    BY <1>4, <2>2, DmaTypes
  <2>6. to \notin Calling /\ dpc[f] \notin Calling
    BY <1>1, <2>1 DEF Calling
  <2>7. n = more + (IF to \in Calling THEN 1 ELSE 0)
            - (IF dpc[f] \in Calling THEN 1 ELSE 0) - over
    BY <2>2, <2>6
  <2>8. Moves(f, to, b, e, x, n, more, over)
    BY <1>4, <2>2, <2>3, <2>4, <2>5, <2>6, <2>7 DEF Moves
  <2> QED
    BY <2>8, AllHeldStep
<1> QED
  BY <1>3, <1>4 DEF ReleaseDetach, history

\* The balance of references when a release drops the item.
LEMMA DropHolds ==
  ASSUME DmaTypeOK, Threads, AllHeld, NEW f \in File, ReleaseDrop(f)
  PROVE  AllHeld'
<1>1. dpc[f] = "drop" /\ at[f].buf \in DmaBuf
  BY DEF ReleaseDrop, Threads
<1>2. PICK b \in DmaBuf : b = at[f].buf
  BY <1>1
<1>3. PICK to \in Place, e \in {b, Nil}, x \in Item \cup {Nil} :
        to = "idle" /\ e = Nil /\ x = Nil
  BY DEF Place
<1>4. Enter(f, to, e, x) /\ UNCHANGED <<held, got, lapsed, overput>>
  BY <1>3 DEF ReleaseDrop, Leave, history
<1>5. to \notin Calling /\ dpc[f] \notin Calling
  BY <1>1, <1>3 DEF Calling
<1> QED
  BY <1>4, <1>5, AllHeldThread

\* The balance of references when a file is closed.
LEMMA CloseHolds ==
  ASSUME DmaTypeOK, AllHeld, NEW f \in File, CloseDma(f)
  PROVE  AllHeld'
<1> SUFFICES ASSUME NEW b \in DmaBuf
             PROVE  HeldFor(b)'
  BY DEF AllHeld
<1>1. /\ UNCHANGED <<held, dpc, at, overput>> /\ got' = [got EXCEPT ![f] = Zero]
      /\ lapsed'[b] = lapsed[b] + got[f][b]
  BY DEF CloseDma
<1>2. PICK U, V, n : /\ U = Unreleased(b) /\ V = {f} \X (1 .. got[f][b])
                     /\ n = got[f][b] /\ n \in Nat
  BY DmaTypes
<1>3. Unreleased(b)' = U \ V /\ U \cap V = V /\ Cardinality(V) = n
  BY <1>1, <1>2, UnreleasedNone
<1>4. /\ IsFiniteSet(U) /\ IsFiniteSet(Importing(b))
      /\ held[b] = Cardinality(U) + Cardinality(Importing(b)) + lapsed[b] - overput[b]
  BY <1>2 DEF AllHeld, HeldFor
<1>5. IsFiniteSet(U \ V) /\ Cardinality(U \ V) = Cardinality(U) - n
  BY ZenonT(30), <1>3, <1>4, FS_Difference
<1>6. Importing(b)' = Importing(b)
  BY <1>1, ImportingSame
<1>7. /\ Cardinality(U) \in Nat /\ Cardinality(Importing(b)) \in Nat
      /\ lapsed[b] \in Nat /\ overput[b] \in Nat
  BY <1>4, DmaTypes, FS_CardinalityType
<1>8. held'[b] = Cardinality(U \ V) + Cardinality(Importing(b)) + lapsed'[b] - overput'[b]
  BY <1>1, <1>2, <1>4, <1>5, <1>7
<1> QED
  BY <1>3, <1>4, <1>5, <1>6, <1>8 DEF HeldFor

\* The driver holds no reference at the beginning.
LEMMA HeldStart ==
  ASSUME DmaInit
  PROVE  AllHeld
<1> SUFFICES ASSUME NEW b \in DmaBuf
             PROVE  HeldFor(b)
  BY DEF AllHeld
<1>1. Importing(b) = {}
  BY DEF DmaInit, Importing
<1>2. Unreleased(b) = {}
  <2>1. \A f \in File : got[f][b] = 0
    BY DEF DmaInit, Zero
  <2>2. \A f \in File : 1 .. got[f][b] = {}
    BY <2>1
  <2> QED
    BY <2>2 DEF Unreleased
<1>3. held[b] = 0 /\ lapsed[b] = 0 /\ overput[b] = 0
  BY DEF DmaInit, Zero
<1> QED
  BY <1>1, <1>2, <1>3, FS_EmptySet DEF HeldFor

(***************************************************************************)
(* What the steps of the whole driver do to the device.                    *)
(***************************************************************************)

DeviceStep ==
  \/ ProbeIrq \/ ProbeClocks \/ ProbeRegs \/ ProbeQueues
  \/ ProbeBoot \/ ProbeNode \/ ProbeDone \/ RemoveDevice \/ Reboot
  \/ \E f \in File : Open(f) \/ ClosePower(f)

\* The interrupt handler does not touch the power of the device.
LEMMA InterruptIsIdle ==
  ASSUME DspReply \/ IrqEnter \/ IrqReport \/ IrqSchedule \/ IrqCmd \/ IrqAck \/ TakeReply
  PROVE  wild = {} /\ UNCHANGED <<scope, stage, rpm, power, opened>>
<1>1. CASE DspReply
  BY <1>1 DEF DspReply, deviceVars, power
<1>2. CASE IrqEnter
  BY <1>2 DEF IrqEnter, deviceBut
<1>3. CASE IrqReport
  BY <1>3 DEF IrqReport, deviceVars, power
<1>4. CASE IrqCmd
  BY <1>4 DEF IrqCmd, deviceVars, power
<1>5. CASE IrqAck
  BY <1>5 DEF IrqAck, deviceVars, power
<1>6. CASE TakeReply
  BY <1>6 DEF TakeReply, deviceVars, power
<1>7. CASE IrqSchedule
  BY <1>7 DEF IrqSchedule, deviceBut
<1> QED
  BY <1>1, <1>2, <1>3, <1>4, <1>5, <1>6, <1>7

\* Neither do the calls about the report channel.
LEMMA ReportIsIdle ==
  ASSUME NEW f, NEW i, NEW r,
         \/ DspReport(i) \/ Tasklet(r) \/ CreateReport(f)
         \/ AllocateReport(f) \/ ArmReport(f) \/ AskSignals(f)
         \/ ReleaseReport(f) \/ FreeReporter(f) \/ ResetReporter(f)
         \/ ReleaseReturn(f) \/ UnlinkItem(f) \/ SigHandler(f) \/ Exit(f)
         \/ RegisterCb(f, i) \/ UnregisterCb(f, i) \/ DestroyTask(f, i)
  PROVE  wild = {} /\ UNCHANGED <<scope, stage, rpm, power, opened>>
<1>1. CASE DspReport(i)
  BY <1>1 DEF DspReport, deviceBut
<1>2. CASE Tasklet(r)
  BY <1>2 DEF Tasklet, deviceBut
<1>3. CASE CreateReport(f)
  BY <1>3 DEF CreateReport, deviceVars, power
<1>4. CASE AllocateReport(f)
  BY <1>4 DEF AllocateReport, deviceBut
<1>5. CASE ArmReport(f)
  BY <1>5 DEF ArmReport, deviceBut
<1>6. CASE AskSignals(f)
  BY <1>6 DEF AskSignals, deviceBut
<1>7. CASE ReleaseReport(f)
  BY <1>7 DEF ReleaseReport, Idle, deviceBut
<1>8. CASE FreeReporter(f)
  BY <1>8 DEF FreeReporter, deviceBut
<1>9. CASE ResetReporter(f)
  BY <1>9 DEF ResetReporter, deviceVars, power
<1>10. CASE ReleaseReturn(f)
  BY <1>10 DEF ReleaseReturn, deviceVars, power
<1>11. CASE UnlinkItem(f)
  BY <1>11 DEF UnlinkItem, deviceVars, power
<1>12. CASE SigHandler(f)
  BY <1>12 DEF SigHandler, deviceBut
<1>13. CASE Exit(f)
  BY <1>13 DEF Exit, deviceVars, power
<1>14. CASE RegisterCb(f, i)
  BY <1>14 DEF RegisterCb, Idle, deviceVars, power
<1>15. CASE UnregisterCb(f, i)
  BY <1>15 DEF UnregisterCb, Idle, deviceBut
<1>16. CASE DestroyTask(f, i)
  BY <1>16 DEF DestroyTask, Idle, deviceBut
<1> QED
  BY <1>1, <1>2, <1>3, <1>4, <1>5, <1>6, <1>7, <1>8, <1>9, <1>10, <1>11,
     <1>12, <1>13, <1>14, <1>15, <1>16

\* Nor those about dma-bufs.
LEMMA DmaIsIdle ==
  ASSUME NEW f, NEW b,
         \/ ImportLookup(f, b) \/ ReleaseSearch(f, b) \/ ImportAttach(f)
         \/ ImportKnown(f) \/ ImportCheck(f) \/ ReleaseDetach(f)
         \/ ReleaseDrop(f)
  PROVE  wild = {} /\ UNCHANGED <<scope, stage, rpm, power, opened>>
<1>1. CASE ImportLookup(f, b)
  BY <1>1 DEF ImportLookup, Begin
<1>2. CASE ReleaseSearch(f, b)
  BY <1>2 DEF ReleaseSearch, Begin, deviceVars, power
<1>3. CASE ImportAttach(f)
  BY <1>3 DEF ImportAttach
<1>4. CASE ImportKnown(f)
  BY <1>4 DEF ImportKnown, deviceVars, power
<1>5. CASE ImportCheck(f)
  BY <1>5 DEF ImportCheck
<1>6. CASE ReleaseDetach(f)
  BY <1>6 DEF ReleaseDetach
<1>7. CASE ReleaseDrop(f)
  BY <1>7 DEF ReleaseDrop, deviceVars, power
<1> QED
  BY <1>1, <1>2, <1>3, <1>4, <1>5, <1>6, <1>7

\* So a step of the driver is a step of the device or none of its business.
LEMMA NextOnDevice ==
  ASSUME Next
  PROVE  /\ wild = {}
         /\ DeviceStep \/ UNCHANGED <<scope, stage, rpm, power, opened>>
<1>1. CASE ProbeIrq \/ ProbeClocks \/ ProbeRegs \/ ProbeQueues
  <2>1. DeviceStep
    BY <1>1 DEF DeviceStep
  <2>2. wild = {}
    BY <1>1 DEF ProbeIrq, ProbeClocks, ProbeRegs, ProbeQueues, ProbeStep
  <2> QED
    BY <2>1, <2>2
<1>2. CASE ProbeBoot \/ ProbeNode \/ ProbeDone \/ RemoveDevice \/ RebootDsp
  <2>1. DeviceStep
    BY <1>2 DEF DeviceStep, RebootDsp
  <2>2. wild = {}
    BY <1>2 DEF ProbeBoot, ProbeNode, ProbeDone, RemoveDevice, RebootDsp, Reboot
  <2> QED
    BY <2>1, <2>2
<1>3. ASSUME NEW f \in File, Open(f) \/ Close(f)
      PROVE  wild = {} /\ DeviceStep
  <2>1. DeviceStep
    BY <1>3, Zenon DEF DeviceStep, Close
  <2>2. wild = {}
    BY <1>3 DEF Open, Close, ClosePower
  <2> QED
    BY <2>1, <2>2
<1> QED
  BY <1>1, <1>2, <1>3, InterruptIsIdle, ReportIsIdle, DmaIsIdle, Zenon DEF Next


\* The balance of clocks and use counts under every step of the driver.
LEMMA PowerStep ==
  ASSUME PowerInv, Next
  PROVE  PowerInv'
<1>1. DeviceTypeOK /\ Powered
  BY NextOnDevice DEF PowerInv
<1>2. CASE UNCHANGED <<scope, stage, rpm, power, opened>>
  BY <1>1, <1>2, DeviceIdle DEF PowerInv
<1>3. CASE ProbeIrq \/ ProbeClocks \/ ProbeRegs \/ ProbeQueues
  BY <1>1, <1>3, ProbeStepKeeps, Zenon DEF PowerInv
<1>4. CASE ProbeBoot
  BY <1>1, <1>4, ProbeBootKeeps, Zenon DEF PowerInv
<1>5. CASE ProbeNode
  BY <1>1, <1>5, ProbeNodeKeeps, Zenon DEF PowerInv
<1>6. CASE ProbeDone
  BY <1>1, <1>6, ProbeDoneKeeps, Zenon DEF PowerInv
<1>7. CASE RemoveDevice
  BY <1>1, <1>7, RemoveKeeps, Zenon DEF PowerInv
<1>8. CASE Reboot
  BY <1>1, <1>8, RebootKeeps, Zenon DEF PowerInv
<1>9. ASSUME NEW f \in File, Open(f)
      PROVE  PowerInv'
  BY <1>1, <1>9, OpenKeeps, Zenon DEF PowerInv
<1>10. ASSUME NEW f \in File, ClosePower(f)
       PROVE  PowerInv'
  BY <1>1, <1>10, ClosePowerKeeps, Zenon DEF PowerInv
<1> QED
  BY <1>2, <1>3, <1>4, <1>5, <1>6, <1>7, <1>8, <1>9, <1>10, NextOnDevice, Zenon
     DEF DeviceStep

(***************************************************************************)
(* The types of the interrupt handler and the report channel.              *)
(***************************************************************************)

\* What a reporter and a program's library hold.
Rep == [live : BOOLEAN, armed : BOOLEAN, sched : BOOLEAN,
        fasync : SUBSET File, buffer : Buffer \cup {0}]
Comm == [working : BOOLEAN, addr : Buffer \cup {0}, id : ReportId \cup {0},
         flag : BOOLEAN, cmd : BOOLEAN]
Page == [id : 0 .. IdWord - 1, pay : ReportId \cup {0}]
Lib == [report : {"none", "live", "freed"}, buf : Buffer \cup {0},
        maps : SUBSET Buffer, items : SUBSET ReportId, torn : SUBSET ReportId,
        claimed : SUBSET ReportId]

\* Writing one reporter keeps the type of all.
LEMMA RepIdle ==
  ASSUME rep \in [Reporter -> Rep], NEW r \in Reporter, NEW z \in Rep
  PROVE  [rep EXCEPT ![r] = z] \in [Reporter -> Rep]
  OBVIOUS

\* Writing one process's items keeps the type of all.
LEMMA LibIdle ==
  ASSUME lib \in [File -> Lib], NEW f \in File, NEW l \in Lib, SetLib(f, l)
  PROVE  lib' \in [File -> Lib]
  BY DEF SetLib

\* A call that moves on keeps the type of all calls.
LEMMA UpcIdle ==
  ASSUME upc \in [File -> Steps], NEW f \in File, NEW to \in Steps, Goto(f, to)
  PROVE  upc' \in [File -> Steps]
  BY DEF Goto

\* The interrupt handler keeps the types.
LEMMA InterruptTyped ==
  ASSUME ReportTypeOK,
         DspReply \/ IrqEnter \/ IrqReport \/ IrqSchedule \/ IrqCmd \/ IrqAck \/ TakeReply
  PROVE  ReportTypeOK'
<1> USE DEF ReportTypeOK
<1>1. CASE DspReply
  BY <1>1 DEF DspReply, Raise, program
<1>2. CASE IrqEnter
  BY <1>2 DEF IrqEnter, kernel, program
<1>3. CASE IrqReport
  <2>1. cause' \subseteq {"second", "failed", "late", "exit"}
    BY <1>3 DEF IrqReport, Collided
  <2>2. comm' \in Comm
    BY <1>3 DEF IrqReport, Comm
  <2> QED
    BY <1>3, <2>1, <2>2 DEF IrqReport, program, Comm
<1>7. CASE IrqSchedule
  <2>1. cause' \subseteq {"second", "failed", "late", "exit"}
    BY <1>7 DEF IrqSchedule, Collided
  <2>2. rep' \in [Reporter -> Rep]
    <3>1. CASE rep' = rep
      BY <3>1 DEF Rep
    <3>2. CASE Sound(reporter) /\ rep' = [rep EXCEPT ![reporter].sched = TRUE]
      <4>1. reporter \in Reporter
        BY <3>2 DEF Sound
      <4>2. rep \in [Reporter -> Rep]
        BY DEF Rep
      <4>3. rep[reporter] \in Rep
        BY <4>1, <4>2
      <4>4. [rep[reporter] EXCEPT !.sched = TRUE] \in Rep
        BY <4>3 DEF Rep
      <4> QED
        BY <3>2, <4>1, <4>2, <4>4
    <3> QED
      BY <1>7, <3>1, <3>2 DEF IrqSchedule
  <2> QED
    BY <1>7, <2>1, <2>2 DEF IrqSchedule, AfterReport, program, Rep
<1>4. CASE IrqCmd
  BY <1>4 DEF IrqCmd, program
<1>5. CASE IrqAck
  BY <1>5 DEF IrqAck, kernel, program
<1>6. CASE TakeReply
  BY ZenonT(30), <1>6 DEF TakeReply, kernel, program
<1> QED
  BY <1>1, <1>2, <1>3, <1>4, <1>5, <1>6, <1>7

\* The number the tasklet reads from the report is an unsigned integer of its
\* width.
LEMMA NumberTyped ==
  ASSUME ReportTypeOK
  PROVE  Number \in 0 .. IdWord - 1
<1>1. comm.id \in Nat /\ IdWord \in Nat \ {0}
  <2>1. comm.id \in ReportId \cup {0}
    BY DEF ReportTypeOK
  <2>2. ReportId \subseteq Nat /\ IdWord \in Nat \ {0}
    BY ReportAssumption
  <2>3. 0 \in Nat
    OBVIOUS
  <2>4. comm.id \in Nat
    BY <2>1, <2>2, <2>3, Zenon
  <2> QED
    BY <2>2, <2>4
<1>2. PICK n \in Nat, w \in Nat \ {0} : n = comm.id /\ w = IdWord
  BY <1>1
<1>3. n % w \in 0 .. w - 1
  OBVIOUS
<1> QED
  BY <1>2, <1>3 DEF Number

\* A report of the DSP keeps the types.
LEMMA DspReportTyped ==
  ASSUME ReportTypeOK, NEW i \in ReportId, DspReport(i)
  PROVE  ReportTypeOK'
<1>1. page \in [Buffer -> Page] /\ comm \in Comm
  BY DEF ReportTypeOK, Page, Comm
<1>2. page' \in [Buffer -> Page]
  <2>1. CASE page' = page
    BY <1>1, <2>1
  <2>2. CASE Mapped(comm.addr) /\ page' = [page EXCEPT ![comm.addr].pay = i]
    <3>1. comm.addr \in Buffer
      BY <2>2 DEF Mapped, ReportTypeOK
    <3>2. [page[comm.addr] EXCEPT !.pay = i] \in Page
      BY <1>1, <3>1 DEF Page
    <3> QED
      BY <1>1, <2>2, <3>1, <3>2
  <2> QED
    BY <2>1, <2>2 DEF DspReport
<1>3. comm' \in Comm
  BY <1>1 DEF DspReport, Comm
<1> QED
  BY <1>2, <1>3 DEF DspReport, ReportTypeOK, Raise, Page, Comm

\* xrp_report_tasklet keeps the types.
LEMMA TaskletTyped ==
  ASSUME ReportTypeOK, NEW r \in Reporter, Tasklet(r)
  PROVE  ReportTypeOK'
<1>1. /\ page \in [Buffer -> Page] /\ comm \in Comm /\ rep \in [Reporter -> Rep]
      /\ sig \subseteq File
  BY DEF ReportTypeOK, Page, Comm, Rep
<1>2. CASE UNCHANGED <<rep, comm, page, sig>>
  BY <1>2 DEF Tasklet, ReportTypeOK, interrupt
<1>3. CASE ~(~rep[r].live \/ ~Sound(reporter) \/ stage = "gone")
  <2>1. reporter \in Reporter
    BY <1>3 DEF Sound, ReportTypeOK
  <2>2. rep' \in [Reporter -> Rep]
    <3>1. rep' = [rep EXCEPT ![r].sched = FALSE]
      BY <1>3 DEF Tasklet
    <3>2. [rep[r] EXCEPT !.sched = FALSE] \in Rep
      BY <1>1 DEF Rep
    <3> QED
      BY <1>1, <3>1, <3>2
  <2>3. comm' \in Comm /\ sig' \subseteq File
    <3>1. rep[reporter].fasync \subseteq File
      BY <1>1, <2>1 DEF Rep
    <3>2. \/ comm' = comm /\ sig' = sig
          \/ /\ comm' = [comm EXCEPT !.id = 0, !.flag = FALSE]
             /\ sig' = sig \cup rep[reporter].fasync
      BY <1>3 DEF Tasklet
    <3> QED
      BY <1>1, <3>1, <3>2 DEF Comm
  <2>4. page' \in [Buffer -> Page]
    <3>1. \/ page' = page
          \/ /\ Mapped(rep[reporter].buffer)
             /\ page' = [page EXCEPT ![rep[reporter].buffer].id = Number]
      BY <1>3 DEF Tasklet
    <3>2. CASE page' # page
      <4>1. rep[reporter].buffer \in Buffer
        BY <3>1, <3>2 DEF Mapped, ReportTypeOK
      <4>2. [page[rep[reporter].buffer] EXCEPT !.id = Number] \in Page
        BY <1>1, <4>1, NumberTyped DEF Page
      <4> QED
        BY <1>1, <3>1, <3>2, <4>1, <4>2
    <3> QED
      BY <1>1, <3>2
  <2> QED
    BY <2>2, <2>3, <2>4 DEF Tasklet, ReportTypeOK, interrupt, Page, Comm, Rep
<1> QED
  BY <1>2, <1>3 DEF Tasklet

\* The first part of xrp_ioctl_alloc_report keeps the types.
LEMMA CreateTyped ==
  ASSUME ReportTypeOK, DeviceTypeOK, NEW f \in File, CreateReport(f)
  PROVE  ReportTypeOK'
<1>1. rep \in [Reporter -> Rep] /\ upc \in [File -> Steps] /\ creates \in Nat
  BY DEF ReportTypeOK, Rep
<1>2. creates' \in 0 .. MaxCreate
  <2>1. scope \in Scopes /\ creates < scope.creates /\ creates' = creates + 1
    BY DEF CreateReport, DeviceTypeOK
  <2>2. scope.creates \in Nat /\ scope.creates <= MaxCreate /\ MaxCreate \in Nat
    BY <2>1, ReportAssumption, ScopeAssumption
  <2> QED
    BY <1>1, <2>1, <2>2
<1>3. /\ reporter' \in Reporter \cup {Nil} /\ rep' \in [Reporter -> Rep]
      /\ upc' \in [File -> Steps]
  <2>1. CASE reporter' = Nil /\ UNCHANGED <<rep, upc>>
    BY <1>1, <2>1
  <2>2. ASSUME NEW r \in Free, reporter' = r,
               rep' = [rep EXCEPT ![r] = [NoRep EXCEPT !.live = TRUE, !.sched = rep[r].sched]],
               Goto(f, "allocate")
        PROVE  reporter' \in Reporter /\ rep' \in [Reporter -> Rep] /\ upc' \in [File -> Steps]
    <3>1. r \in Reporter
      BY DEF Free
    <3>2. [NoRep EXCEPT !.live = TRUE, !.sched = rep[r].sched] \in Rep
      BY <1>1, <3>1 DEF NoRep, Rep
    <3>3. rep' \in [Reporter -> Rep]
      BY <1>1, <2>2, <3>1, <3>2
    <3>4. "allocate" \in Steps
      BY DEF Steps
    <3> QED
      BY <1>1, <2>2, <3>1, <3>3, <3>4, UpcIdle
  <2>3. \/ reporter' = Nil /\ UNCHANGED <<rep, upc>>
        \/ \E r \in Free :
             /\ reporter' = r
             /\ rep' = [rep EXCEPT ![r] = [NoRep EXCEPT !.live = TRUE, !.sched = rep[r].sched]]
             /\ Goto(f, "allocate")
    BY DEF CreateReport
  <2> QED
    BY <2>1, <2>2, <2>3
<1>4. cause' \subseteq {"second", "failed", "late", "exit"}
  BY DEF CreateReport, ReportTypeOK
<1> QED
  BY ZenonT(30), <1>2, <1>3, <1>4 DEF CreateReport, ReportTypeOK, interrupt, program, Rep

\* What nobody looks at any more is forgotten.
LEMMA ForgetFacts ==
  ASSUME page \in [Buffer -> Page], page' = page \/ Forget
  PROVE  /\ page' \in [Buffer -> Page]
         /\ \A b \in Buffer : page'[b] \in {page[b], NoPage}
         /\ \A g \in File, b \in Buffer : b \in lib'[g].maps => page'[b] = page[b]
<1>1. NoPage \in Page
  <2>1. 0 \in 0 .. IdWord - 1
    BY ReportAssumption
  <2> QED
    BY <2>1 DEF Page, NoPage
<1>2. CASE page' = page
  BY <1>2
<1>3. CASE Forget
  <2>1. page' = [b \in Buffer |->
                   IF \E g \in File : b \in lib'[g].maps THEN page[b] ELSE NoPage]
    BY <1>3 DEF Forget
  <2> QED
    BY <1>1, <2>1
<1> QED
  BY <1>2, <1>3

\* kfree leaves of a reporter whether its tasklet is scheduled.
LEMMA FreedFacts ==
  ASSUME rep \in [Reporter -> Rep], reporter \in Reporter
  PROVE  /\ Freed \in [Reporter -> Rep]
         /\ ~Freed[reporter].live /\ ~Freed[reporter].armed
         /\ Freed[reporter].fasync = {} /\ Freed[reporter].buffer = 0
         /\ Freed[reporter].sched = rep[reporter].sched
         /\ \A r \in Reporter : r # reporter => Freed[r] = rep[r]
<1>1. PICK z \in Rep : z = [NoRep EXCEPT !.sched = rep[reporter].sched]
  <2>1. rep[reporter].sched \in BOOLEAN
    BY DEF Rep
  <2> QED
    BY <2>1 DEF NoRep, Rep
<1>2. /\ ~z.live /\ ~z.armed /\ z.fasync = {} /\ z.buffer = 0
      /\ z.sched = rep[reporter].sched
  BY <1>1 DEF NoRep
<1>3. Freed = [rep EXCEPT ![reporter] = z]
  BY <1>1 DEF Freed
<1>4. Freed \in [Reporter -> Rep]
  BY <1>1, <1>3, RepIdle
<1>5. Freed[reporter] = z /\ \A r \in Reporter : r # reporter => Freed[r] = rep[r]
  BY <1>3
<1> QED
  BY <1>2, <1>4, <1>5

\* A step of a program that leaves the kernel's part of the channel alone.
LEMMA ProgramTyped ==
  ASSUME ReportTypeOK,
         UNCHANGED <<reporter, rep, comm, creates, interrupt, overrun>>,
         page' = page \/ Forget,
         cause' \subseteq {"second", "failed", "late", "exit"},
         setup' \subseteq ReportId, sig' \subseteq File,
         upc' \in [File -> Steps], lib' \in [File -> Lib]
  PROVE  ReportTypeOK'
<1>1. page \in [Buffer -> Page]
  BY DEF ReportTypeOK, Page
<1>2. page' \in [Buffer -> Page]
  BY <1>1, ForgetFacts
<1> QED
  BY <1>2 DEF ReportTypeOK, interrupt, Lib, Page

\* A step of the driver: the channel and the programs' mappings.
LEMMA KernelTyped ==
  ASSUME ReportTypeOK, UNCHANGED <<interrupt, setup, sig, overrun, creates>>,
         page' = page \/ Forget,
         reporter' \in Reporter \cup {Nil},
         rep' \in [Reporter -> Rep], comm' \in Comm,
         cause' \subseteq {"second", "failed", "late", "exit"},
         upc' \in [File -> Steps], lib' \in [File -> Lib]
  PROVE  ReportTypeOK'
<1>1. page \in [Buffer -> Page]
  BY DEF ReportTypeOK, Page
<1>2. page' \in [Buffer -> Page]
  BY <1>1, ForgetFacts
<1> QED
  BY <1>2 DEF ReportTypeOK, interrupt, Lib, Rep, Comm, Page

\* The type invariant, variable by variable.
LEMMA ChannelTypes ==
  ASSUME ReportTypeOK
  PROVE  /\ reporter \in Reporter \cup {Nil}
         /\ rep \in [Reporter -> Rep] /\ comm \in Comm
         /\ page \in [Buffer -> Page]
         /\ upc \in [File -> Steps] /\ lib \in [File -> Lib]
         /\ setup \subseteq ReportId /\ sig \subseteq File
         /\ cause \subseteq {"second", "failed", "late", "exit"}
         /\ creates \in Nat /\ creates <= MaxCreate
  BY ReportAssumption DEF ReportTypeOK, Rep, Comm, Page, Lib

\* The allocation of a report's buffer keeps the types.
LEMMA AllocateTyped ==
  ASSUME ReportTypeOK, Numbered, NEW f \in File, AllocateReport(f)
  PROVE  ReportTypeOK'
<1>1. /\ reporter \in Reporter \cup {Nil}
      /\ rep \in [Reporter -> Rep] /\ comm \in Comm
      /\ upc \in [File -> Steps] /\ lib \in [File -> Lib]
      /\ cause \subseteq {"second", "failed", "late", "exit"}
  BY ChannelTypes
<1>2. creates \in Buffer
  BY DEF AllocateReport, Numbered
<1>3. PICK l \in Lib : l = [lib[f] EXCEPT !.buf = creates, !.maps = @ \cup {creates}]
  <2>1. lib[f] \in Lib
    BY <1>1
  <2> QED
    BY <1>2, <2>1 DEF Lib
<1>4. {"idle", "arm"} \subseteq Steps
  BY DEF Steps
<1>5. UNCHANGED <<reporter, page, interrupt, setup, sig, overrun, creates>>
  BY DEF AllocateReport
<1>6. CASE Goto(f, "idle") /\ cause' = cause \cup {"failed"} /\ UNCHANGED <<rep, comm, lib>>
  <2>1. upc' \in [File -> Steps]
    BY <1>1, <1>4, <1>6, UpcIdle
  <2> QED
    BY <1>1, <1>5, <1>6, <2>1, KernelTyped
<1>7. CASE /\ Sound(reporter) /\ Goto(f, "idle")
           /\ cause' = cause \cup {"failed"}
           /\ rep' = Freed
           /\ SetLib(f, l)
           /\ UNCHANGED comm
  <2>1. upc' \in [File -> Steps] /\ lib' \in [File -> Lib]
    BY <1>1, <1>4, <1>7, UpcIdle, LibIdle
  <2>2. rep' \in [Reporter -> Rep]
    BY <1>1, <1>7, FreedFacts DEF Sound
  <2> QED
    BY <1>1, <1>5, <1>7, <2>1, <2>2, KernelTyped
<1>8. CASE /\ Sound(reporter) /\ Goto(f, "arm")
           /\ rep' = [rep EXCEPT ![reporter].buffer = creates]
           /\ comm' = [comm EXCEPT !.addr = creates, !.working = TRUE]
           /\ SetLib(f, l)
           /\ UNCHANGED cause
  <2>1. upc' \in [File -> Steps] /\ lib' \in [File -> Lib]
    BY <1>1, <1>4, <1>8, UpcIdle, LibIdle
  <2>2. rep' \in [Reporter -> Rep]
    <3>1. reporter \in Reporter /\ rep[reporter] \in Rep
      BY <1>1, <1>8 DEF Sound
    <3>2. [rep[reporter] EXCEPT !.buffer = creates] \in Rep
      BY <1>2, <3>1 DEF Rep
    <3> QED
      BY <1>1, <1>8, <3>1, <3>2
  <2>3. comm' \in Comm
    BY <1>1, <1>2, <1>8 DEF Comm
  <2> QED
    BY <1>1, <1>5, <1>8, <2>1, <2>2, <2>3, KernelTyped
<1>9. CASE UNCHANGED <<upc, rep, comm, lib, cause>>
  BY <1>1, <1>5, <1>9, KernelTyped
<1> QED
  BY <1>3, <1>6, <1>7, <1>8, <1>9 DEF AllocateReport

\* Publishing the reporter to the DSP keeps the types.
LEMMA ArmTyped ==
  ASSUME ReportTypeOK, NEW f \in File, ArmReport(f)
  PROVE  ReportTypeOK'
<1>1. /\ reporter \in Reporter \cup {Nil}
      /\ rep \in [Reporter -> Rep] /\ comm \in Comm
      /\ upc \in [File -> Steps] /\ lib \in [File -> Lib]
      /\ cause \subseteq {"second", "failed", "late", "exit"}
  BY ChannelTypes
<1>2. /\ UNCHANGED <<reporter, interrupt, setup, sig, overrun, creates>>
      /\ comm' \in Comm
      /\ page' = page \/ Forget
  BY <1>1 DEF ArmReport, Comm
<1>3. {"idle", "async"} \subseteq Steps
  BY DEF Steps
<1>4. CASE /\ Sound(reporter) /\ Goto(f, "async")
           /\ rep' = [rep EXCEPT ![reporter].armed = TRUE]
           /\ UNCHANGED <<lib, cause>>
  <2>1. upc' \in [File -> Steps]
    BY <1>1, <1>3, <1>4, UpcIdle
  <2>2. rep' \in [Reporter -> Rep]
    <3>1. reporter \in Reporter /\ rep[reporter] \in Rep
      BY <1>1, <1>4 DEF Sound
    <3>2. [rep[reporter] EXCEPT !.armed = TRUE] \in Rep
      BY <3>1 DEF Rep
    <3> QED
      BY <1>1, <1>4, <3>1, <3>2
  <2> QED
    BY <1>1, <1>2, <1>4, <2>1, <2>2, KernelTyped
<1>5. CASE /\ Sound(reporter) /\ Goto(f, "idle")
           /\ rep' = Freed
           /\ SetLib(f, [lib[f] EXCEPT !.maps = @ \ {lib[f].buf}])
           /\ cause' = cause \cup {"failed"}
  <2>1. [lib[f] EXCEPT !.maps = @ \ {lib[f].buf}] \in Lib
    <3>1. lib[f] \in Lib
      BY <1>1
    <3> QED
      BY <3>1 DEF Lib
  <2>2. upc' \in [File -> Steps] /\ lib' \in [File -> Lib]
    BY <1>1, <1>3, <1>5, <2>1, UpcIdle, LibIdle
  <2>3. rep' \in [Reporter -> Rep]
    BY <1>1, <1>5, FreedFacts DEF Sound
  <2> QED
    BY <1>1, <1>2, <1>5, <2>2, <2>3, KernelTyped
<1>6. CASE UNCHANGED <<upc, rep, lib, cause>>
  BY <1>1, <1>2, <1>6, KernelTyped
<1> QED
  BY <1>4, <1>5, <1>6 DEF ArmReport

\* What Fasync makes of the reporters.
LEMMA FasyncTyped ==
  ASSUME ReportTypeOK, NEW files \in SUBSET File, Fasync(files)
  PROVE  rep' \in [Reporter -> Rep]
<1>1. rep \in [Reporter -> Rep] /\ reporter \in Reporter \cup {Nil}
  BY ChannelTypes
<1>2. CASE rep' = rep
  BY <1>1, <1>2
<1>3. CASE Sound(reporter) /\ rep' = [rep EXCEPT ![reporter].fasync = files]
  <2>1. reporter \in Reporter /\ rep[reporter] \in Rep
    BY <1>1, <1>3 DEF Sound
  <2>2. [rep[reporter] EXCEPT !.fasync = files] \in Rep
    BY <2>1 DEF Rep
  <2> QED
    BY <1>1, <1>3, <2>1, <2>2
<1> QED
  BY <1>2, <1>3 DEF Fasync, Sound

\* Those who asked for signals are files.
LEMMA ListeningTyped ==
  ASSUME ReportTypeOK
  PROVE  Listening \subseteq File
<1>1. rep \in [Reporter -> Rep] /\ reporter \in Reporter \cup {Nil}
  BY ChannelTypes
<1>2. CASE Sound(reporter)
  <2>1. rep[reporter] \in Rep
    BY <1>1, <1>2 DEF Sound
  <2> QED
    BY <1>2, <2>1 DEF Listening, Rep
<1>3. CASE ~Sound(reporter)
  BY <1>3 DEF Listening
<1> QED
  BY <1>2, <1>3

\* xrp_report_fasync keeps the types.
LEMMA AskTyped ==
  ASSUME ReportTypeOK, NEW f \in File, AskSignals(f)
  PROVE  ReportTypeOK'
<1>1. /\ reporter \in Reporter \cup {Nil} /\ comm \in Comm
      /\ upc \in [File -> Steps] /\ lib \in [File -> Lib]
      /\ cause \subseteq {"second", "failed", "late", "exit"}
  BY ChannelTypes
<1>2. /\ UNCHANGED <<reporter, comm, page, interrupt, setup, sig, overrun, creates, cause>>
      /\ Goto(f, "idle") /\ Fasync(Listening \cup {f})
      /\ SetLib(f, [lib[f] EXCEPT !.report = "live", !.items = {}])
  BY DEF AskSignals
<1>3. rep' \in [Reporter -> Rep]
  <2>1. Listening \cup {f} \in SUBSET File
    BY ListeningTyped
  <2> QED
    BY <1>2, <2>1, FasyncTyped, Zenon
<1>4. upc' \in [File -> Steps]
  BY <1>1, <1>2, UpcIdle DEF Steps
<1>5. lib' \in [File -> Lib]
  <2>1. lib[f] \in Lib
    BY <1>1
  <2>2. [lib[f] EXCEPT !.report = "live", !.items = {}] \in Lib
    BY <2>1 DEF Lib
  <2> QED
    BY <1>1, <1>2, <2>2, LibIdle
<1> QED
  BY <1>1, <1>2, <1>3, <1>4, <1>5, KernelTyped

\* Freeing a report item of the library keeps the types.
LEMMA FreeItemTyped ==
  ASSUME ReportTypeOK, NEW f \in File, NEW i \in ReportId, FreeItem(f, i)
  PROVE  upc' \in [File -> Steps] /\ lib' \in [File -> Lib]
<1>1. upc \in [File -> Steps] /\ lib \in [File -> Lib]
  BY ChannelTypes
<1>2. CASE UNCHANGED <<lib, upc>>
  BY <1>1, <1>2
<1>3. CASE SetLib(f, [lib[f] EXCEPT !.torn = {i}]) /\ Goto(f, "unlink")
  <2>1. lib[f] \in Lib
    BY <1>1
  <2>2. [lib[f] EXCEPT !.torn = {i}] \in Lib
    BY <2>1 DEF Lib
  <2>3. "unlink" \in Steps
    BY DEF Steps
  <2> QED
    BY <1>1, <1>3, <2>2, <2>3, UpcIdle, LibIdle
<1> QED
  BY <1>2, <1>3 DEF FreeItem

\* Registering and unregistering callbacks keeps the types.
LEMMA CallbacksTyped ==
  ASSUME ReportTypeOK, DeviceTypeOK, NEW f \in File, NEW i \in ReportId,
         RegisterCb(f, i) \/ UnregisterCb(f, i) \/ DestroyTask(f, i)
  PROVE  ReportTypeOK'
<1>1. /\ reporter \in Reporter \cup {Nil} /\ rep \in [Reporter -> Rep]
      /\ comm \in Comm
      /\ upc \in [File -> Steps] /\ lib \in [File -> Lib]
      /\ setup \subseteq ReportId /\ sig \subseteq File
      /\ cause \subseteq {"second", "failed", "late", "exit"}
  BY ChannelTypes
<1>2. UNCHANGED <<reporter, rep, comm, creates, page, interrupt, overrun, cause, sig>>
  BY DEF RegisterCb, UnregisterCb, DestroyTask, kernel
<1>3. lib[f] \in Lib
  BY <1>1
<1>4. CASE RegisterCb(f, i)
  <2>1. PICK listed \in BOOLEAN :
          SetLib(f, [lib[f] EXCEPT !.claimed = @ \cup {i},
                       !.items = IF listed THEN @ \cup {i} ELSE @])
    BY <1>4 DEF RegisterCb
  <2>2. [lib[f] EXCEPT !.claimed = @ \cup {i},
                       !.items = IF listed THEN @ \cup {i} ELSE @] \in Lib
    BY <1>3 DEF Lib
  <2>3. lib' \in [File -> Lib]
    BY <1>1, <2>1, <2>2, LibIdle, Zenon
  <2>4. setup' \subseteq ReportId /\ upc' = upc
    BY <1>1, <1>4 DEF RegisterCb
  <2> QED
    BY <1>1, <1>2, <2>3, <2>4, ProgramTyped
<1>5. CASE UnregisterCb(f, i) \/ DestroyTask(f, i)
  <2>1. setup' \subseteq ReportId
    BY <1>1, <1>5 DEF UnregisterCb, DestroyTask
  <2>2. FreeItem(f, i)
    BY <1>5 DEF UnregisterCb, DestroyTask
  <2> QED
    BY <1>1, <1>2, <2>1, <2>2, FreeItemTyped, ProgramTyped
<1> QED
  BY <1>4, <1>5

\* The signal handler of the library keeps the types.
LEMMA SignalTyped ==
  ASSUME ReportTypeOK, NEW f \in File, SigHandler(f)
  PROVE  ReportTypeOK'
<1>1. /\ sig' = sig \ {f} /\ overrun' = (overrun /\ sig' # {})
      /\ UNCHANGED <<reporter, rep, comm, creates, cause, page, reply, line,
                     handler, late, setup, lib, upc>>
  BY DEF SigHandler, kernel, interrupt
<1> QED
  BY <1>1 DEF ReportTypeOK

\* The first part of xrp_ioctl_release_report keeps the types.
LEMMA ReleaseTyped ==
  ASSUME ReportTypeOK, NEW f \in File, ReleaseReport(f)
  PROVE  ReportTypeOK'
<1>1. /\ reporter \in Reporter \cup {Nil} /\ rep \in [Reporter -> Rep]
      /\ comm \in Comm
      /\ upc \in [File -> Steps] /\ lib \in [File -> Lib]
      /\ cause \subseteq {"second", "failed", "late", "exit"}
  BY ChannelTypes
<1>2. /\ UNCHANGED <<reporter, rep, page, interrupt, setup, lib, sig, overrun, creates>>
      /\ cause' \subseteq {"second", "failed", "late", "exit"}
  BY <1>1 DEF ReleaseReport, program
<1>3. CASE comm' = [comm EXCEPT !.working = FALSE] /\ Goto(f, "free")
  <2>1. comm' \in Comm
    BY <1>1, <1>3 DEF Comm
  <2>2. upc' \in [File -> Steps]
    BY <1>1, <1>3, UpcIdle DEF Steps
  <2> QED
    BY <1>1, <1>2, <2>1, <2>2, KernelTyped
<1>4. CASE UNCHANGED <<comm, upc>>
  BY <1>1, <1>2, <1>4, KernelTyped
<1> QED
  BY <1>3, <1>4 DEF ReleaseReport

\* Freeing the reporter keeps the types.
LEMMA FreeTyped ==
  ASSUME ReportTypeOK, NEW f \in File, FreeReporter(f)
  PROVE  ReportTypeOK'
<1>1. /\ reporter \in Reporter \cup {Nil} /\ rep \in [Reporter -> Rep]
      /\ comm \in Comm
      /\ upc \in [File -> Steps] /\ lib \in [File -> Lib]
      /\ cause \subseteq {"second", "failed", "late", "exit"}
  BY ChannelTypes
<1>2. /\ UNCHANGED <<reporter, comm, interrupt, setup, sig, overrun, creates, cause>>
      /\ Goto(f, "reset") /\ SetLib(f, [lib[f] EXCEPT !.maps = @ \ {lib[f].buf}])
      /\ Forget
  BY DEF FreeReporter
<1>3. rep' \in [Reporter -> Rep]
  <2>1. CASE rep' = rep
    BY <1>1, <2>1
  <2>2. CASE Sound(reporter) /\ rep' = Freed
    BY <1>1, <2>2, FreedFacts DEF Sound
  <2> QED
    BY <2>1, <2>2 DEF FreeReporter
<1>4. upc' \in [File -> Steps]
  BY <1>1, <1>2, UpcIdle DEF Steps
<1>5. lib' \in [File -> Lib]
  <2>1. lib[f] \in Lib
    BY <1>1
  <2>2. [lib[f] EXCEPT !.maps = @ \ {lib[f].buf}] \in Lib
    BY <2>1 DEF Lib
  <2> QED
    BY <1>1, <1>2, <2>2, LibIdle
<1> QED
  BY <1>1, <1>2, <1>3, <1>4, <1>5, KernelTyped

\* The end of a release, and of a process, keeps the types.
LEMMA ReturnTyped ==
  ASSUME ReportTypeOK, NEW f \in File,
         ResetReporter(f) \/ ReleaseReturn(f) \/ Exit(f)
  PROVE  ReportTypeOK'
<1>1. /\ reporter \in Reporter \cup {Nil} /\ rep \in [Reporter -> Rep]
      /\ comm \in Comm
      /\ upc \in [File -> Steps] /\ lib \in [File -> Lib]
      /\ setup \subseteq ReportId /\ sig \subseteq File
      /\ cause \subseteq {"second", "failed", "late", "exit"}
  BY ChannelTypes
<1>2. {"idle", "return", "exited"} \subseteq Steps
  BY DEF Steps
<1>3. CASE ResetReporter(f)
  <2>1. UNCHANGED <<rep, comm, page, interrupt, setup, lib, sig, overrun, creates, cause>>
    BY <1>3 DEF ResetReporter, program
  <2>2. upc' \in [File -> Steps] /\ reporter' = Nil
    BY <1>1, <1>2, <1>3, UpcIdle DEF ResetReporter
  <2> QED
    BY <1>1, <2>1, <2>2, KernelTyped
<1>4. CASE ReleaseReturn(f)
  <2>1. UNCHANGED <<reporter, rep, comm, page, interrupt, setup, sig, overrun, creates, cause>>
    BY <1>4 DEF ReleaseReturn, kernel
  <2>2. upc' \in [File -> Steps]
    BY <1>1, <1>2, <1>4, UpcIdle DEF ReleaseReturn
  <2>3. [NoLib EXCEPT !.report = "freed", !.maps = lib[f].maps] \in Lib
    <3>1. lib[f].maps \in SUBSET Buffer
      BY <1>1 DEF Lib
    <3> QED
      BY <3>1 DEF Lib, NoLib
  <2>4. lib' \in [File -> Lib]
    BY <1>1, <1>4, <2>3, LibIdle DEF ReleaseReturn
  <2> QED
    BY <1>1, <2>1, <2>2, <2>4, ProgramTyped
<1>5. CASE Exit(f)
  <2>1. UNCHANGED <<reporter, rep, comm, interrupt, setup, overrun, creates>> /\ Forget
    BY <1>5 DEF Exit
  <2>2. upc' \in [File -> Steps] /\ sig' \subseteq File
    BY <1>1, <1>2, <1>5, UpcIdle DEF Exit
  <2>3. NoLib \in Lib
    BY DEF Lib, NoLib
  <2>4. lib' \in [File -> Lib]
    BY <1>1, <1>5, <2>3, LibIdle DEF Exit
  <2>5. cause' \subseteq {"second", "failed", "late", "exit"}
    BY <1>1, <1>5 DEF Exit
  <2> QED
    BY <1>1, <2>1, <2>2, <2>4, <2>5, ProgramTyped
<1> QED
  BY <1>3, <1>4, <1>5

\* xvp_close keeps the types.
LEMMA CloseTyped ==
  ASSUME ReportTypeOK, NEW f \in File, Close(f)
  PROVE  ReportTypeOK'
<1>1. /\ reporter \in Reporter \cup {Nil} /\ comm \in Comm
      /\ upc \in [File -> Steps] /\ lib \in [File -> Lib]
      /\ setup \subseteq ReportId /\ sig \subseteq File
      /\ cause \subseteq {"second", "failed", "late", "exit"}
  BY ChannelTypes
<1>2. /\ UNCHANGED <<reporter, comm, page, interrupt, lib, sig, overrun, creates>>
      /\ Fasync(Listening \ {f}) /\ Goto(f, "idle")
      /\ setup' = IF released' THEN setup ELSE {}
      /\ cause' = IF reporter # Nil /\ \E g \in File : upc[g] = "reset"
                  THEN cause \cup {"late"} ELSE cause
  BY DEF Close
<1>3. rep' \in [Reporter -> Rep]
  <2>1. Listening \ {f} \in SUBSET File
    BY ListeningTyped
  <2> QED
    BY <1>2, <2>1, FasyncTyped, Zenon
<1>4. "idle" \in Steps
  BY DEF Steps
<1>5. upc' \in [File -> Steps]
  BY <1>1, <1>2, <1>4, UpcIdle
<1>6. setup' \subseteq ReportId /\ cause' \subseteq {"second", "failed", "late", "exit"}
  BY <1>1, <1>2
<1>7. /\ reporter' \in Reporter \cup {Nil} /\ comm' \in Comm /\ lib' \in [File -> Lib]
      /\ sig' \subseteq File
  BY <1>1, <1>2
<1>8. UNCHANGED <<page, reply, line, handler, late, overrun, creates>>
  BY <1>2 DEF interrupt
<1> QED
  BY <1>3, <1>5, <1>6, <1>7, <1>8 DEF ReportTypeOK, Rep, Comm, Lib

\* The types hold at the beginning.
LEMMA ReportTypesStart ==
  ASSUME ReportInit
  PROVE  ReportTypeOK
<1>1. NoRep \in Rep
  BY DEF NoRep, Rep
<1>2. NoLib \in Lib
  BY DEF NoLib, Lib
<1>3. comm \in Comm
  BY DEF ReportInit, Comm
<1>4. NoPage \in Page
  <2>1. 0 \in 0 .. IdWord - 1
    BY ReportAssumption
  <2> QED
    BY <2>1 DEF Page, NoPage
<1>5. 0 \in 0 .. MaxCreate
  BY ReportAssumption
<1>6. "idle" \in Steps
  BY DEF Steps
<1> QED
  BY <1>1, <1>2, <1>3, <1>4, <1>5, <1>6
     DEF ReportInit, ReportTypeOK, Rep, Lib, Comm, Page

\* The types hold when nothing changes.
LEMMA ReportTypesStay ==
  ASSUME ReportTypeOK, UNCHANGED reportVars
  PROVE  ReportTypeOK'
  BY DEF ReportTypeOK, reportVars

\* The types of the channel under every step of the driver.
LEMMA ReportTypesStep ==
  ASSUME ReportTypeOK, DeviceTypeOK, Numbered, Next
  PROVE  ReportTypeOK'
<1>1. CASE UNCHANGED reportVars
  BY <1>1, ReportTypesStay
<1>2. CASE RebootDsp
  <2>1. /\ setup' = {}
        /\ UNCHANGED <<reporter, rep, comm, creates, cause, page, reply, line,
                       handler, late, lib, sig, overrun, upc>>
    BY <1>2 DEF RebootDsp, kernel, interrupt
  <2> QED
    BY <2>1 DEF ReportTypeOK
<1>3. CASE DspReply \/ IrqEnter \/ IrqReport \/ IrqSchedule \/ IrqCmd \/ IrqAck \/ TakeReply
  BY <1>3, InterruptTyped
<1>4. ASSUME NEW i \in ReportId, DspReport(i)
      PROVE  ReportTypeOK'
  BY <1>4, DspReportTyped
<1>5. ASSUME NEW r \in Reporter, Tasklet(r)
      PROVE  ReportTypeOK'
  BY <1>5, TaskletTyped
<1>6. ASSUME NEW f \in File,
             \/ CreateReport(f) \/ AllocateReport(f) \/ ArmReport(f)
             \/ AskSignals(f) \/ ReleaseReport(f) \/ FreeReporter(f)
             \/ ResetReporter(f) \/ ReleaseReturn(f) \/ SigHandler(f)
             \/ Exit(f) \/ Close(f)
      PROVE  ReportTypeOK'
  BY <1>6, CreateTyped, AllocateTyped, ArmTyped, AskTyped, ReleaseTyped,
     FreeTyped, ReturnTyped, SignalTyped, CloseTyped, Zenon
<1>7. ASSUME NEW f \in File, NEW i \in ReportId,
             RegisterCb(f, i) \/ UnregisterCb(f, i) \/ DestroyTask(f, i)
      PROVE  ReportTypeOK'
  BY <1>7, CallbacksTyped, Zenon
<1>8. ASSUME NEW f \in File, UnlinkItem(f)
      PROVE  ReportTypeOK'
  <2>1. /\ UNCHANGED <<reporter, rep, comm, creates, page, interrupt, overrun, cause, sig>>
        /\ Goto(f, "idle") /\ setup' \in {setup \ lib[f].torn, setup}
        /\ SetLib(f, [lib[f] EXCEPT !.items = @ \ lib[f].torn, !.torn = {},
                       !.claimed = @ \ lib[f].torn])
    BY <1>8 DEF UnlinkItem, kernel
  <2>2. /\ upc \in [File -> Steps] /\ lib \in [File -> Lib]
        /\ setup \subseteq ReportId /\ sig \subseteq File
        /\ cause \subseteq {"second", "failed", "late", "exit"}
    BY ChannelTypes
  <2>3. lib' \in [File -> Lib]
    <3>1. lib[f] \in Lib
      BY <2>2
    <3>2. [lib[f] EXCEPT !.items = @ \ lib[f].torn, !.torn = {},
                         !.claimed = @ \ lib[f].torn] \in Lib
      BY <3>1 DEF Lib
    <3> QED
      BY <2>1, <2>2, <3>2, LibIdle
  <2>4. upc' \in [File -> Steps] /\ setup' \subseteq ReportId
    BY <2>1, <2>2, UpcIdle DEF Steps
  <2> QED
    BY <2>1, <2>2, <2>3, <2>4, ProgramTyped
<1> QED
  BY <1>1, <1>2, <1>3, <1>4, <1>5, <1>6, <1>7, <1>8, Zenon DEF Next

(***************************************************************************)
(* An interrupt that is no longer signalled leaves nothing unseen.         *)
(***************************************************************************)

\* The tasklet of the channel would be scheduled for a report.
Armed == Sound(reporter) /\ rep[reporter].armed

\* A step that leaves the interrupt alone and raises nothing.
LEMMA NoticeKept ==
  ASSUME NoticeInv, UNCHANGED <<line, handler, late>>,
         comm'.cmd => comm.cmd,
         comm'.flag /\ Armed' => comm.flag /\ Armed
  PROVE  NoticeInv'
  BY DEF NoticeInv, Armed

\* Each step of the handler looks for what is pending or leaves the line high.
LEMMA NoticeInterrupt ==
  ASSUME ReportTypeOK, NoticeInv,
         DspReply \/ IrqEnter \/ IrqReport \/ IrqSchedule \/ IrqCmd \/ IrqAck \/ TakeReply
  PROVE  NoticeInv'
<1>1. comm \in Comm
  BY ChannelTypes
<1>2. CASE DspReply
  <2>1. /\ comm' = [comm EXCEPT !.cmd = TRUE] /\ line' = TRUE
        /\ late' = IF handler \in {"ack"} THEN late \cup {"cmd"} ELSE late
        /\ UNCHANGED <<reporter, rep, handler>>
    BY <1>2 DEF DspReply, Raise
  <2>2. comm'.flag = comm.flag
    BY <1>1, <2>1 DEF Comm
  <2> QED
    BY <2>1, <2>2 DEF NoticeInv, Sound
<1>3. CASE IrqEnter
  BY <1>3 DEF IrqEnter, kernel, NoticeInv, Sound
<1>4. CASE IrqReport
  <2>1. CASE reporter # Nil /\ comm.flag
    <3>1. /\ comm' = [comm EXCEPT !.flag = FALSE] /\ handler' = "schedule"
          /\ line' = line /\ late' = late \ {"report"} /\ handler = "report"
      BY <1>4, <2>1 DEF IrqReport
    <3>2. comm'.flag = FALSE /\ comm'.cmd = comm.cmd
      BY <1>1, <3>1 DEF Comm
    <3> QED
      BY <3>1, <3>2 DEF NoticeInv
  <2>2. CASE ~(reporter # Nil /\ comm.flag)
    BY <1>4, <2>2 DEF IrqReport, NoticeInv, Sound
  <2> QED
    BY <2>1, <2>2
<1>8. CASE IrqSchedule
  <2>1. /\ handler = "schedule" /\ handler' = "cmd"
        /\ UNCHANGED <<reporter, comm, line, late>>
        /\ rep' = rep \/ (reporter # Nil /\ rep' = [rep EXCEPT ![reporter].sched = TRUE])
    BY <1>8 DEF IrqSchedule, AfterReport, Sound
  <2>2. rep \in [Reporter -> Rep] /\ reporter \in Reporter \cup {Nil}
    BY ChannelTypes
  <2>3. Armed' => Armed
    BY <2>1, <2>2 DEF Armed, Sound, Rep
  <2> QED
    BY <2>1, <2>3 DEF NoticeInv, Armed
<1>5. CASE IrqCmd
  <2>1. /\ comm' = [comm EXCEPT !.cmd = FALSE] /\ handler = "cmd"
        /\ late' = late \ {"cmd"} /\ UNCHANGED <<reporter, rep, line>>
    BY <1>5 DEF IrqCmd
  <2>2. comm'.cmd = FALSE /\ comm'.flag = comm.flag
    BY <1>1, <2>1 DEF Comm
  <2> QED
    BY <2>1, <2>2 DEF NoticeInv, Sound
<1>6. CASE IrqAck
  BY <1>6 DEF IrqAck, kernel, NoticeInv, Sound
<1>7. CASE TakeReply
  BY <1>7 DEF TakeReply, kernel, NoticeInv, Sound
<1> QED
  BY <1>2, <1>3, <1>4, <1>5, <1>6, <1>7, <1>8

\* A report raises the line.
LEMMA NoticeDspReport ==
  ASSUME ReportTypeOK, NoticeInv, NEW i \in ReportId, DspReport(i)
  PROVE  NoticeInv'
<1>1. /\ comm' = [comm EXCEPT !.id = i, !.flag = TRUE] /\ line' = TRUE
      /\ late' = IF handler \in {"schedule", "cmd", "ack"}
                  THEN late \cup {"report"} ELSE late
      /\ UNCHANGED <<reporter, rep, handler>>
  BY DEF DspReport, Raise
<1>2. comm'.cmd = comm.cmd
  <2>1. comm \in Comm
    BY ChannelTypes
  <2> QED
    BY <1>1, <2>1 DEF Comm
<1> QED
  BY <1>1, <1>2 DEF NoticeInv

\* A new reporter is not armed, and a step that arms one clears the flag.
LEMMA NoticeDriver ==
  ASSUME ReportTypeOK, NoticeInv, NEW f \in File,
         \/ CreateReport(f) \/ AllocateReport(f) \/ ArmReport(f)
         \/ ReleaseReport(f) \/ FreeReporter(f) \/ ResetReporter(f)
  PROVE  NoticeInv'
<1>1. /\ comm \in Comm /\ rep \in [Reporter -> Rep]
      /\ reporter \in Reporter \cup {Nil}
  BY ChannelTypes
<1>2. UNCHANGED <<line, handler, late>>
  BY DEF CreateReport, AllocateReport, ArmReport, ReleaseReport,
         FreeReporter, ResetReporter, interrupt
<1>3. comm'.cmd = comm.cmd /\ (comm'.flag => comm.flag)
  <2>1. CASE comm' = comm
    BY <2>1
  <2>2. CASE comm' = [comm EXCEPT !.id = 0, !.flag = FALSE]
    BY <1>1, <2>2 DEF Comm
  <2>3. CASE comm' = [comm EXCEPT !.working = FALSE]
    BY <1>1, <2>3 DEF Comm
  <2>4. CASE comm' = [comm EXCEPT !.addr = creates, !.working = TRUE]
    BY <1>1, <2>4 DEF Comm
  <2> QED
    BY <2>1, <2>2, <2>3, <2>4 DEF CreateReport, AllocateReport,
       ArmReport, ReleaseReport, FreeReporter, ResetReporter, kernel
<1>4. CASE UNCHANGED <<reporter, rep>>
  BY <1>2, <1>3, <1>4, NoticeKept DEF Armed, Sound
<1>5. CASE reporter' = Nil
  <2>1. ~Armed'
    BY <1>5 DEF Armed, Sound
  <2> QED
    BY <1>2, <1>3, <2>1, NoticeKept
<1>7. CASE CreateReport(f)
  <2>1. CASE reporter' # Nil
    <3>1. PICK s \in Reporter :
            /\ reporter' = s
            /\ rep' = [rep EXCEPT ![s] = [NoRep EXCEPT !.live = TRUE, !.sched = rep[s].sched]]
      BY <1>7, <2>1 DEF CreateReport, Free
    <3>2. rep'[s] = [NoRep EXCEPT !.live = TRUE, !.sched = rep[s].sched]
      BY <1>1, <3>1
    <3>3. ~rep'[s].armed
      BY <3>2 DEF NoRep
    <3> QED
      BY <1>2, <1>3, <3>1, <3>3, NoticeKept DEF Armed
  <2> QED
    BY <1>5, <2>1
<1>8. CASE AllocateReport(f)
  <2>1. /\ reporter' = reporter
        /\ \/ rep' = rep
           \/ reporter # Nil /\ rep' = Freed
           \/ reporter # Nil /\ rep' = [rep EXCEPT ![reporter].buffer = creates]
    BY <1>8 DEF AllocateReport, Sound
  <2>2. Armed' => Armed
    <3>1. CASE reporter # Nil /\ rep' = Freed
      BY <1>1, <2>1, <3>1, FreedFacts DEF Armed
    <3>2. CASE ~(reporter # Nil /\ rep' = Freed)
      BY <1>1, <2>1, <3>2 DEF Armed, Sound, Rep
    <3> QED
      BY <3>1, <3>2
  <2> QED
    BY <1>2, <1>3, <2>2, NoticeKept
<1>9. CASE ArmReport(f)
  <2>1. comm' = [comm EXCEPT !.id = 0, !.flag = FALSE]
    BY <1>9 DEF ArmReport
  <2>2. ~comm'.flag
    BY <1>1, <2>1 DEF Comm
  <2> QED
    BY <1>2, <1>3, <2>2, NoticeKept
<1>10. CASE FreeReporter(f)
  <2>1. CASE reporter # Nil /\ rep' # rep
    <3>1. reporter' = reporter /\ reporter \in Reporter /\ rep' = Freed
      BY <1>1, <1>10, <2>1 DEF FreeReporter
    <3>2. ~rep'[reporter].live
      BY <1>1, <3>1, FreedFacts
    <3> QED
      BY <1>2, <1>3, <3>1, <3>2, NoticeKept DEF Armed, Sound
  <2>2. CASE rep' = rep
    BY <1>4, <1>10, <2>2 DEF FreeReporter
  <2>3. CASE reporter = Nil
    BY <1>5, <1>10, <2>3 DEF FreeReporter
  <2> QED
    BY <2>1, <2>2, <2>3
<1>11. CASE ReleaseReport(f)
  BY <1>4, <1>11 DEF ReleaseReport
<1>12. CASE ResetReporter(f)
  BY <1>5, <1>12 DEF ResetReporter
<1> QED
  BY <1>7, <1>8, <1>9, <1>10, <1>11, <1>12

\* Asking for signals, and closing, leave what is pending.
LEMMA NoticeFasync ==
  ASSUME ReportTypeOK, NoticeInv, NEW f \in File, AskSignals(f) \/ Close(f)
  PROVE  NoticeInv'
<1>1. /\ rep \in [Reporter -> Rep] /\ reporter \in Reporter \cup {Nil}
  BY ChannelTypes
<1>2. UNCHANGED <<line, handler, late, comm, reporter>>
  BY DEF AskSignals, Close, interrupt
<1>3. PICK files : Fasync(files)
  BY DEF AskSignals, Close
<1>4. rep' = rep \/ (reporter # Nil /\ rep' = [rep EXCEPT ![reporter].fasync = files])
  BY <1>3 DEF Fasync, Sound
<1>5. Armed' => Armed
  BY <1>1, <1>2, <1>4 DEF Armed, Sound, Rep
<1> QED
  BY <1>2, <1>5, NoticeKept

\* The rest leaves the interrupt and the channel alone.
LEMMA NoticeIdle ==
  ASSUME NoticeInv, UNCHANGED <<line, handler, late, comm, reporter, rep>>
  PROVE  NoticeInv'
  BY NoticeKept DEF Armed, Sound

\* The library's own steps are invisible to the interrupt handler.
LEMMA ProgramIdle ==
  ASSUME NEW f, NEW i,
         \/ RegisterCb(f, i) \/ UnregisterCb(f, i) \/ DestroyTask(f, i)
         \/ UnlinkItem(f) \/ SigHandler(f) \/ ReleaseReturn(f) \/ Exit(f)
         \/ RebootDsp \/ UNCHANGED reportVars
  PROVE  UNCHANGED <<line, handler, late, comm, reporter, rep>>
<1>1. CASE RegisterCb(f, i) \/ UnregisterCb(f, i) \/ DestroyTask(f, i)
  BY <1>1 DEF RegisterCb, UnregisterCb, DestroyTask, kernel, interrupt
<1>2. CASE UnlinkItem(f) \/ SigHandler(f) \/ ReleaseReturn(f)
  BY <1>2 DEF UnlinkItem, SigHandler, ReleaseReturn, kernel, interrupt
<1>3. CASE Exit(f)
  BY <1>3 DEF Exit, interrupt
<1>4. CASE RebootDsp
  BY <1>4 DEF RebootDsp, kernel, interrupt
<1>5. CASE UNCHANGED reportVars
  BY <1>5 DEF reportVars
<1> QED
  BY <1>1, <1>2, <1>3, <1>4, <1>5

\* No interrupt goes unseen, whatever the driver does.
LEMMA NoticeStep ==
  ASSUME ReportTypeOK, NoticeInv, Next
  PROVE  NoticeInv'
<1>1. CASE UNCHANGED reportVars
  BY <1>1, NoticeIdle DEF reportVars
<1>2. CASE RebootDsp
  BY <1>2, NoticeIdle DEF RebootDsp, kernel, interrupt
<1>3. CASE DspReply \/ IrqEnter \/ IrqReport \/ IrqSchedule \/ IrqCmd \/ IrqAck \/ TakeReply
  BY <1>3, NoticeInterrupt
<1>4. ASSUME NEW i \in ReportId, DspReport(i)
      PROVE  NoticeInv'
  BY <1>4, NoticeDspReport
<1>5. ASSUME NEW r \in Reporter, Tasklet(r)
      PROVE  NoticeInv'
  <2>1. UNCHANGED <<line, handler, late>>
    BY <1>5 DEF Tasklet, interrupt
  <2>2. /\ comm \in Comm /\ rep \in [Reporter -> Rep]
        /\ reporter \in Reporter \cup {Nil}
    BY ChannelTypes
  <2>3. /\ reporter' = reporter
        /\ rep' = rep \/ rep' = [rep EXCEPT ![r].sched = FALSE]
        /\ comm' = comm \/ comm' = [comm EXCEPT !.id = 0, !.flag = FALSE]
    BY <1>5 DEF Tasklet
  <2>4. comm'.cmd = comm.cmd /\ (comm'.flag => comm.flag)
    BY <2>2, <2>3 DEF Comm
  <2>5. Armed' => Armed
    BY <2>2, <2>3 DEF Armed, Sound, Rep
  <2> QED
    BY <2>1, <2>4, <2>5, NoticeKept
<1>6. ASSUME NEW f \in File,
             \/ CreateReport(f) \/ AllocateReport(f) \/ ArmReport(f)
             \/ ReleaseReport(f) \/ FreeReporter(f) \/ ResetReporter(f)
      PROVE  NoticeInv'
  BY <1>6, NoticeDriver
<1>7. ASSUME NEW f \in File, AskSignals(f) \/ Close(f)
      PROVE  NoticeInv'
  BY <1>7, NoticeFasync
<1>8. ASSUME NEW f \in File, NEW i \in ReportId,
             RegisterCb(f, i) \/ UnregisterCb(f, i) \/ DestroyTask(f, i)
      PROVE  NoticeInv'
  BY <1>8, NoticeIdle, ProgramIdle, Zenon
<1>9. ASSUME NEW f \in File,
             UnlinkItem(f) \/ SigHandler(f) \/ ReleaseReturn(f) \/ Exit(f)
      PROVE  NoticeInv'
  BY <1>9, NoticeIdle, ProgramIdle, Zenon
<1> QED
  BY <1>1, <1>2, <1>3, <1>4, <1>5, <1>6, <1>7, <1>8, <1>9, Zenon DEF Next

(***************************************************************************)
(* Creations are numbered, and there are no files without a node.          *)
(***************************************************************************)

Created == \A f \in File : upc[f] = "allocate" => creates \in Buffer

Noded == wild = {} /\ ~HasNode => opened = {}

\* The number of a creation under steps that create nothing.
LEMMA CreatedKept ==
  ASSUME Created, creates' = creates,
         \A f \in File : upc'[f] = "allocate" => upc[f] = "allocate"
  PROVE  Created'
  BY DEF Created, Buffer

\* A thread that goes to another place than the allocation.
LEMMA GotoKeeps ==
  ASSUME ReportTypeOK, Created, creates' = creates, NEW f, NEW to,
         Goto(f, to), to # "allocate"
  PROVE  Created'
<1>1. upc \in [File -> Steps]
  BY ChannelTypes
<1>2. \A g \in File : upc'[g] = upc[g] \/ upc'[g] = to
  BY <1>1 DEF Goto
<1> QED
  BY <1>2, CreatedKept

\* A creation takes the next number.
LEMMA CreateNumbered ==
  ASSUME ReportTypeOK, DeviceTypeOK, Created, NEW f \in File, CreateReport(f)
  PROVE  Created'
<1>1. creates' \in 1 .. MaxCreate
  <2>1. scope \in Scopes /\ creates < scope.creates /\ creates' = creates + 1
    BY DEF CreateReport, DeviceTypeOK
  <2>2. scope.creates \in Nat /\ scope.creates <= MaxCreate /\ MaxCreate \in Nat
    BY <2>1, ReportAssumption, ScopeAssumption
  <2>3. creates \in Nat
    BY ChannelTypes
  <2> QED
    BY <2>1, <2>2, <2>3
<1> QED
  BY <1>1 DEF Created, Buffer

\* Creations stay within their bound under every step of the driver.
LEMMA CreatedStep ==
  ASSUME ReportTypeOK, DeviceTypeOK, Created, Next
  PROVE  Created'
<1>1. CASE UNCHANGED reportVars
  BY <1>1, CreatedKept DEF reportVars
<1>2. CASE RebootDsp \/ DspReply \/ IrqEnter \/ IrqReport \/ IrqSchedule \/ IrqCmd \/ IrqAck \/ TakeReply
  BY <1>2, CreatedKept DEF RebootDsp, DspReply, IrqEnter, IrqReport, IrqSchedule, IrqCmd,
     IrqAck, TakeReply, kernel
<1>3. ASSUME NEW i \in ReportId, DspReport(i)
      PROVE  Created'
  BY <1>3, CreatedKept DEF DspReport
<1>4. ASSUME NEW r \in Reporter, Tasklet(r)
      PROVE  Created'
  BY <1>4, CreatedKept DEF Tasklet
<1>5. ASSUME NEW f \in File, CreateReport(f)
      PROVE  Created'
  BY <1>5, CreateNumbered
<1>6. ASSUME NEW f \in File,
             AllocateReport(f) \/ ArmReport(f) \/ ReleaseReport(f)
      PROVE  Created'
  BY <1>6, CreatedKept, GotoKeeps
     DEF AllocateReport, ArmReport, ReleaseReport
<1>7. ASSUME NEW f \in File,
             \/ AskSignals(f) \/ FreeReporter(f) \/ ResetReporter(f)
             \/ ReleaseReturn(f) \/ UnlinkItem(f) \/ Exit(f) \/ Close(f)
      PROVE  Created'
  BY <1>7, GotoKeeps
     DEF AskSignals, FreeReporter, ResetReporter, ReleaseReturn, UnlinkItem,
         Exit, Close, kernel
<1>8. ASSUME NEW f \in File, NEW i \in ReportId,
             RegisterCb(f, i)
      PROVE  Created'
  BY <1>8, CreatedKept DEF RegisterCb, kernel
<1>9. ASSUME NEW f \in File, SigHandler(f)
      PROVE  Created'
  BY <1>9, CreatedKept DEF SigHandler, kernel
<1>10. ASSUME NEW f \in File, NEW i \in ReportId,
              UnregisterCb(f, i) \/ DestroyTask(f, i)
       PROVE  Created'
  <2>1. creates' = creates /\ FreeItem(f, i)
    BY <1>10 DEF UnregisterCb, DestroyTask, kernel
  <2>2. upc' = upc \/ Goto(f, "unlink")
    BY <2>1 DEF FreeItem
  <2> QED
    BY <2>1, <2>2, CreatedKept, GotoKeeps
<1> QED
  BY <1>1, <1>2, <1>3, <1>4, <1>5, <1>6, <1>7, <1>8, <1>9, <1>10, Zenon DEF Next

\* There are no open files before the device has a node.
LEMMA NodedStep ==
  ASSUME PowerInv, Noded, Next
  PROVE  Noded'
<1>1. wild = {} /\ Powered
  BY NextOnDevice DEF PowerInv
<1>2. CASE UNCHANGED <<scope, stage, rpm, power, opened>>
  BY <1>1, <1>2 DEF Noded, HasNode
<1>3. CASE ProbeIrq \/ ProbeClocks \/ ProbeRegs \/ ProbeQueues
  BY <1>1, <1>3 DEF Noded, HasNode, ProbeIrq, ProbeClocks, ProbeRegs,
     ProbeQueues, ProbeStep
<1>4. CASE ProbeBoot \/ ProbeNode \/ ProbeDone
  BY <1>1, <1>4 DEF Noded, HasNode, ProbeBoot, ProbeNode, ProbeDone
<1>5. CASE RemoveDevice
  BY <1>5 DEF Noded, RemoveDevice
<1>6. CASE Reboot
  BY <1>1, <1>6 DEF Noded, HasNode, Reboot
<1>7. ASSUME NEW f \in File, Open(f) \/ ClosePower(f)
      PROVE  Noded'
  BY <1>7 DEF Noded, HasNode, Open, ClosePower
<1> QED
  BY <1>2, <1>3, <1>4, <1>5, <1>6, <1>7, NextOnDevice, Zenon DEF DeviceStep

(***************************************************************************)
(* The three parts together.                                               *)
(***************************************************************************)

\* Only calls about dma-bufs can use an item that is gone.
LEMMA NoDmaFault ==
  ASSUME wild = {}, NEW f, NEW i, NEW r,
         \/ ProbeIrq \/ ProbeClocks \/ ProbeRegs \/ ProbeQueues \/ ProbeBoot
         \/ ProbeNode \/ ProbeDone \/ RemoveDevice \/ Open(f) \/ Close(f)
         \/ RebootDsp \/ DspReply \/ IrqEnter \/ IrqReport \/ IrqSchedule \/ IrqCmd
         \/ IrqAck \/ TakeReply
         \/ DspReport(i) \/ Tasklet(r) \/ CreateReport(f)
         \/ AllocateReport(f) \/ ArmReport(f) \/ AskSignals(f)
         \/ ReleaseReport(f) \/ FreeReporter(f) \/ ResetReporter(f)
         \/ ReleaseReturn(f) \/ UnlinkItem(f) \/ SigHandler(f) \/ Exit(f)
         \/ RegisterCb(f, i) \/ UnregisterCb(f, i) \/ DestroyTask(f, i)
  PROVE  "dma_item" \notin wild'
<1>1. CASE \/ ProbeIrq \/ ProbeClocks \/ ProbeRegs \/ ProbeQueues \/ ProbeBoot
           \/ ProbeNode \/ ProbeDone \/ RemoveDevice \/ Open(f) \/ RebootDsp
  BY <1>1 DEF ProbeIrq, ProbeClocks, ProbeRegs, ProbeQueues, ProbeStep,
     ProbeBoot, ProbeNode, ProbeDone, RemoveDevice, Open, RebootDsp, Reboot
<1>2. CASE Close(f) \/ AskSignals(f)
  <2>1. \E files : Fasync(files)
    BY <1>2 DEF Close, AskSignals
  <2> QED
    BY <2>1 DEF Fasync, Fault
<1>3. CASE DspReply \/ IrqEnter \/ IrqReport \/ IrqSchedule \/ IrqCmd \/ IrqAck \/ TakeReply
  BY <1>3 DEF DspReply, IrqEnter, IrqReport, IrqSchedule, IrqCmd, IrqAck, TakeReply,
     deviceVars, Fault
<1>4. CASE DspReport(i)
  BY <1>4 DEF DspReport, Fault
<1>5. CASE Tasklet(r)
  BY <1>5 DEF Tasklet, Fault
<1>6. CASE AllocateReport(f)
  BY <1>6 DEF AllocateReport, Fault
<1>7. CASE ArmReport(f)
  BY <1>7 DEF ArmReport, Fault
<1>8. CASE ReleaseReport(f)
  BY <1>8 DEF ReleaseReport, Fault
<1>9. CASE FreeReporter(f)
  BY <1>9 DEF FreeReporter, Fault
<1>10. CASE \/ CreateReport(f) \/ ResetReporter(f) \/ ReleaseReturn(f)
            \/ UnlinkItem(f) \/ Exit(f) \/ RegisterCb(f, i)
  BY <1>10 DEF CreateReport, ResetReporter, ReleaseReturn, UnlinkItem, Exit,
     RegisterCb, deviceVars
<1>11. CASE SigHandler(f)
  BY <1>11 DEF SigHandler, Fault
<1>12. CASE UnregisterCb(f, i) \/ DestroyTask(f, i)
  BY <1>12 DEF UnregisterCb, DestroyTask, FreeItem, Fault
<1> QED
  BY <1>1, <1>2, <1>3, <1>4, <1>5, <1>6, <1>7, <1>8, <1>9, <1>10, <1>11, <1>12

\* So a step of the driver is a step on the dma-bufs or none of their business.
LEMMA NextOnDma ==
  ASSUME Next
  PROVE  \/ UNCHANGED dmaVars /\ "dma_item" \notin wild'
         \/ \E f \in File : /\ CloseDma(f) /\ "dma_item" \notin wild'
         \/ \E f \in File, b \in DmaBuf : ImportLookup(f, b) \/ ReleaseSearch(f, b)
         \/ \E f \in File : \/ ImportAttach(f) \/ ImportKnown(f) \/ ImportCheck(f)
                          \/ ReleaseDetach(f) \/ ReleaseDrop(f)
<1>1. wild = {}
  BY NextOnDevice
<1>2. CASE /\ \/ ProbeIrq \/ ProbeClocks \/ ProbeRegs \/ ProbeQueues \/ ProbeBoot
              \/ ProbeNode \/ ProbeDone \/ RemoveDevice
              \/ RebootDsp \/ DspReply \/ IrqEnter \/ IrqReport \/ IrqSchedule \/ IrqCmd
              \/ IrqAck \/ TakeReply
           /\ UNCHANGED dmaVars
  BY <1>1, <1>2, NoDmaFault, Zenon
<1>3. ASSUME NEW i \in ReportId, DspReport(i), UNCHANGED dmaVars
      PROVE  UNCHANGED dmaVars /\ "dma_item" \notin wild'
  BY <1>1, <1>3, NoDmaFault, Zenon
<1>4. ASSUME NEW r \in Reporter, Tasklet(r), UNCHANGED dmaVars
      PROVE  UNCHANGED dmaVars /\ "dma_item" \notin wild'
  BY <1>1, <1>4, NoDmaFault, Zenon
<1>5. ASSUME NEW f \in File, UNCHANGED dmaVars,
             \/ Open(f) \/ CreateReport(f) \/ AllocateReport(f) \/ ArmReport(f)
             \/ AskSignals(f) \/ ReleaseReport(f) \/ FreeReporter(f)
             \/ ResetReporter(f) \/ ReleaseReturn(f) \/ UnlinkItem(f)
             \/ SigHandler(f) \/ Exit(f)
      PROVE  UNCHANGED dmaVars /\ "dma_item" \notin wild'
  BY <1>1, <1>5, NoDmaFault, Zenon
<1>6. ASSUME NEW f \in File, NEW i \in ReportId, UNCHANGED dmaVars,
             RegisterCb(f, i) \/ UnregisterCb(f, i) \/ DestroyTask(f, i)
      PROVE  UNCHANGED dmaVars /\ "dma_item" \notin wild'
  BY <1>1, <1>6, NoDmaFault, Zenon
<1>7. ASSUME NEW f \in File, Close(f), CloseDma(f)
      PROVE  CloseDma(f) /\ "dma_item" \notin wild'
  BY <1>1, <1>7, NoDmaFault, Zenon
<1> QED
  BY <1>2, <1>3, <1>4, <1>5, <1>6, <1>7, Zenon DEF Next

\* The list of dma-bufs under every step of the driver.
LEMMA DmaStep ==
  ASSUME DmaTypeOK, DeviceTypeOK, Imports, Next
  PROVE  DmaTypeOK' /\ Imports'
<1>1. CASE UNCHANGED dmaVars /\ "dma_item" \notin wild'
  BY <1>1, ImportsIdle
<1>2. ASSUME NEW f \in File, CloseDma(f), "dma_item" \notin wild'
      PROVE  DmaTypeOK' /\ Imports'
  BY <1>2, CloseDmaKeeps
<1>3. ASSUME NEW f \in File, NEW b \in DmaBuf,
             ImportLookup(f, b) \/ ReleaseSearch(f, b)
      PROVE  DmaTypeOK' /\ Imports'
  BY <1>3, LookupKeeps, SearchKeeps, Zenon
<1>4. ASSUME NEW f \in File,
             \/ ImportAttach(f) \/ ImportKnown(f) \/ ImportCheck(f)
             \/ ReleaseDetach(f) \/ ReleaseDrop(f)
      PROVE  DmaTypeOK' /\ Imports'
  BY <1>4, AttachKeeps, KnownKeeps, CheckKeeps, DetachKeeps, DropKeeps, Zenon
<1> QED
  BY <1>1, <1>2, <1>3, <1>4, NextOnDma, Zenon

\* The driver's references to dma-bufs under every step of the driver.
LEMMA HeldStep ==
  ASSUME DmaTypeOK, Imports, AllHeld, Next
  PROVE  AllHeld'
<1>1. Threads
  BY DEF Imports
<1>2. CASE UNCHANGED dmaVars
  BY <1>2, AllHeldSame DEF dmaVars
<1>3. ASSUME NEW f \in File, CloseDma(f)
      PROVE  AllHeld'
  BY <1>3, CloseHolds
<1>4. ASSUME NEW f \in File, NEW b \in DmaBuf,
             ImportLookup(f, b) \/ ReleaseSearch(f, b)
      PROVE  AllHeld'
  BY <1>4, LookupHolds, SearchHolds, Zenon
<1>5. ASSUME NEW f \in File,
             \/ ImportAttach(f) \/ ImportKnown(f) \/ ImportCheck(f)
             \/ ReleaseDetach(f) \/ ReleaseDrop(f)
      PROVE  AllHeld'
  BY <1>1, <1>5, AttachHolds, KnownHolds, CheckHolds, DetachHolds, DropHolds, Zenon
<1> QED
  BY <1>2, <1>3, <1>4, <1>5, NextOnDma, Zenon

\* The inductive invariant of the driver.
DriverInv ==
  /\ PowerInv /\ ReportTypeOK /\ Created /\ Noded /\ NoticeInv
  /\ DmaTypeOK /\ Imports /\ AllHeld

\* The two halves of Numbered.
LEMMA NumberedParts == Numbered <=> Created /\ Noded
  BY DEF Numbered, Created, Noded

\* The invariant at the beginning.
LEMMA DriverStart ==
  ASSUME Init
  PROVE  DriverInv
<1>1. PowerInv
  BY DeviceStart DEF Init, PowerInv
<1>2. ReportTypeOK
  BY ReportTypesStart DEF Init
<1>3. Created /\ Noded
  BY DEF Init, ReportInit, DeviceInit, Created, Noded
<1>4. NoticeInv
  BY DEF Init, ReportInit, NoticeInv
<1>5. wild = {}
  BY DEF Init, DeviceInit
<1>6. DmaTypeOK /\ Imports
  BY <1>5, DmaStart DEF Init
<1>7. AllHeld
  BY HeldStart DEF Init
<1> QED
  BY <1>1, <1>2, <1>3, <1>4, <1>6, <1>7 DEF DriverInv

\* The invariant when nothing changes.
LEMMA DriverStays ==
  ASSUME DriverInv, UNCHANGED vars
  PROVE  DriverInv'
<1>1. UNCHANGED deviceVars /\ UNCHANGED reportVars /\ UNCHANGED dmaVars
  BY DEF vars
<1>2. UNCHANGED <<scope, stage, rpm, power, opened, wild>>
  BY <1>1 DEF deviceVars, power
<1>3. PowerInv'
  BY <1>2, DeviceIdle DEF PowerInv, DriverInv
<1>4. ReportTypeOK'
  BY <1>1, ReportTypesStay DEF DriverInv
<1>5. Created' /\ Noded'
  BY <1>1, <1>2, CreatedKept DEF DriverInv, reportVars, Noded, HasNode
<1>6. NoticeInv'
  BY <1>1, NoticeIdle DEF DriverInv, reportVars
<1>7. DmaTypeOK'
  BY <1>1 DEF DriverInv, DmaTypeOK, dmaVars
<1>8. Imports'
  BY <1>1, <1>2 DEF DriverInv, Imports, Listed, Threads, Counted, Single, Lone,
     Dropping, InUse, dmaVars
<1>9. AllHeld'
  BY <1>1, AllHeldSame DEF DriverInv, dmaVars
<1> QED
  BY <1>3, <1>4, <1>5, <1>6, <1>7, <1>8, <1>9 DEF DriverInv

\* The invariant under every step of the driver.
LEMMA DriverStep ==
  ASSUME DriverInv, Next
  PROVE  DriverInv'
<1>1. PowerInv /\ DeviceTypeOK /\ ReportTypeOK /\ Created /\ Noded /\ NoticeInv
      /\ DmaTypeOK /\ Imports /\ AllHeld
  BY DEF DriverInv, PowerInv
<1>2. PowerInv'
  BY <1>1, PowerStep
<1>3. ReportTypeOK'
  BY <1>1, ReportTypesStep, NumberedParts
<1>4. Created' /\ Noded'
  BY <1>1, CreatedStep, NodedStep
<1>5. NoticeInv'
  BY <1>1, NoticeStep
<1>6. DmaTypeOK' /\ Imports'
  BY <1>1, DmaStep
<1>7. AllHeld'
  BY <1>1, HeldStep
<1> QED
  BY <1>2, <1>3, <1>4, <1>5, <1>6, <1>7 DEF DriverInv

\* The strengthened properties of the device, the interrupt and the list of
\* dma-bufs hold in every state.
THEOREM DriverSafe == Spec => []DriverInv
<1>1. DriverInv /\ [Next]_vars => DriverInv'
  BY DriverStep, DriverStays
<1> QED
  BY <1>1, DriverStart, PTL DEF Spec

\* The variables of the driver always have their types, reference counts that
\* are natural numbers among them.
THEOREM DriverTyped == Spec => []TypeOK
<1>1. DriverInv => TypeOK
  BY DEF DriverInv, PowerInv, TypeOK
<1> QED
  BY <1>1, DriverSafe, PTL

\* Whatever fails in probe, resume, boot, open or close, the clocks, the core
\* and the use count are in balance.
THEOREM PowerBalanced == Spec => []PowerAccounted
<1>1. DriverInv => PowerAccounted
  BY DEF DriverInv, PowerInv, PowerAccounted, Powered
<1> QED
  BY <1>1, DriverSafe, PTL

\* When the interrupt handler has left and the line is low, nothing waits but
\* what was raised after the handler had looked for it.
THEOREM InterruptsNoticed == Spec => []InterruptNoticed
<1>1. NoticeInv => InterruptNoticed
  BY DEF NoticeInv, InterruptNoticed
<1>2. DriverInv => InterruptNoticed
  BY <1>1 DEF DriverInv
<1> QED
  BY <1>2, DriverSafe, PTL

\* What is on the list is attached, and once.
LEMMA ListIsSound ==
  ASSUME DmaTypeOK, Imports
  PROVE  ListSound
<1>1. list \in Seq(Item)
  BY DmaTypes
<1> SUFFICES ASSUME mess = {}
             PROVE  /\ "dma_item" \notin wild
                    /\ \A i, j \in DOMAIN list :
                         item[list[i]].buf = item[list[j]].buf => i = j
                    /\ \A x \in Item : InUse(x) <=> x \in ToSet(list)
                    /\ \A x \in ToSet(list) :
                         /\ item[x].ref = 1
                         /\ item[x].attached \/ Dropping(x)
  BY DEF ListSound, Dropping
<1>2. /\ "dma_item" \notin wild
      /\ \A x, y \in ToSet(list) : item[x].buf = item[y].buf => x = y
      /\ \A x \in Item : InUse(x) => x \in ToSet(list)
      /\ \A x \in ToSet(list) : /\ item[x].ref = 1
                                /\ item[x].attached \/ Dropping(x)
  BY DEF Imports, Lone
<1>3. \A i, j \in DOMAIN list : item[list[i]].buf = item[list[j]].buf => i = j
  <2> SUFFICES ASSUME NEW i \in DOMAIN list, NEW j \in DOMAIN list,
                      item[list[i]].buf = item[list[j]].buf
               PROVE  i = j
    OBVIOUS
  <2>1. list[i] \in ToSet(list) /\ list[j] \in ToSet(list)
    BY DEF ToSet
  <2>2. list[i] = list[j]
    BY <1>2, <2>1
  <2> QED
    BY <2>2 DEF Imports, Listed
<1>4. \A x \in ToSet(list) : InUse(x)
  BY <1>2, InUseFacts
<1> QED
  BY <1>2, <1>3, <1>4

\* A call that uses an item finds it allocated.
LEMMA ItemsAreInUse ==
  ASSUME DmaTypeOK, Imports
  PROVE  ItemsInUse
<1> SUFFICES ASSUME NEW f \in File
             PROVE  /\ dpc[f] = "drop" => InUse(at[f].item)
                    /\ dpc[f] = "known" /\ mess \cap {"pieces", "fault"} = {} =>
                         InUse(at[f].item)
  BY DEF ItemsInUse
<1>1. dpc[f] = "drop" => item[at[f].item].ref > 0
  BY DEF Imports, Threads, Listed
<1>2. dpc[f] = "known" /\ mess \cap {"pieces", "fault"} = {} =>
        item[at[f].item].ref > 0
  BY DEF Imports, Counted
<1> QED
  BY <1>1, <1>2, InUseFacts

\* The driver has one reference to a dma-buf for each import that was not
\* released and each that is under way, short of those an import has dropped
\* twice.  An item is in use when a release drops it, and when an import counts
\* it again as long as no import has given a reference back.  As long as no
\* dma-buf is imported while it is listed and no import fails, the list, the
\* counts and the attachments agree and nothing that is gone is touched.
THEOREM DmaBufsBalanced == Spec => []DmaBufsAccounted
<1>1. DriverInv => HeldAccounted
  BY DEF DriverInv, AllHeld, HeldFor, HeldAccounted
<1>2. DriverInv => ItemsInUse
  BY ItemsAreInUse DEF DriverInv
<1>3. DriverInv => ListSound
  BY ListIsSound DEF DriverInv
<1>4. DriverInv => DmaBufsAccounted
  BY <1>1, <1>2, <1>3 DEF DmaBufsAccounted
<1> QED
  BY <1>4, DriverSafe, PTL

(***************************************************************************)
(* The report channel has one owner, as long as nothing goes wrong with it. *)
(***************************************************************************)

Harm == {"tasklet", "reporter", "buffer", "dsp_write"}

Channel == Owned /\ Works /\ Scheduled

\* Who owns the channel depends on the process's own call and report only.
LEMMA OwnerSame ==
  ASSUME NEW g, lib'[g].report = lib[g].report,
         upc'[g] = upc[g] \/ {upc[g], upc'[g]} \subseteq {"idle", "unlink"}
  PROVE  Owner(g)' <=> Owner(g)
  BY DEF Owner

\* What an owner has.
LEMMA OwnerFacts ==
  ASSUME Owned, NEW f \in File, Owner(f)
  PROVE  /\ \A g \in File : Owner(g) => g = f
         /\ f \in opened /\ reporter # Nil
         /\ upc[f] # "reset" => Sound(reporter)
         /\ rep[reporter].armed <=> upc[f] \notin {"allocate", "arm", "reset"}
         /\ upc[f] \notin {"allocate", "reset"} =>
              /\ lib[f].buf \in lib[f].maps
              /\ rep[reporter].buffer = lib[f].buf
  BY DEF Owned, Sound

\* While the owner is at work on the channel, its tasklet is not scheduled.
LEMMA BusyOwner ==
  ASSUME Channel, NEW f \in File, Owner(f), upc[f] \in Busy
  PROVE  \A r \in Reporter : ~rep[r].sched
  BY OwnerFacts DEF Channel, Scheduled

\* A step that leaves the channel as it is, but for its tasklet that may run.
LEMMA ChannelKept ==
  ASSUME Channel, opened \subseteq opened', reporter' = reporter,
         \A f \in File :
           /\ upc'[f] = upc[f] \/ {upc[f], upc'[f]} \subseteq {"idle", "unlink"}
           /\ lib'[f].report = lib[f].report
           /\ lib'[f].buf = lib[f].buf /\ lib'[f].maps = lib[f].maps,
         rep'[reporter].live = rep[reporter].live,
         rep'[reporter].armed = rep[reporter].armed,
         rep'[reporter].buffer = rep[reporter].buffer,
         \A r \in Reporter : rep'[r].sched => rep[r].sched,
         comm'.working = comm.working, comm'.addr = comm.addr
  PROVE  Channel'
<1>1. \A f \in File : Owner(f)' <=> Owner(f)
  BY OwnerSame
<1>2. \A f \in File : /\ upc'[f] \in Busy <=> upc[f] \in Busy
                      /\ \A s \in {"allocate", "arm", "free", "reset"} :
                           upc'[f] = s <=> upc[f] = s
  BY DEF Busy
<1>3. Owned'
  BY <1>1, <1>2 DEF Channel, Owned
<1>4. Works'
  BY <1>1, <1>2 DEF Channel, Works
<1>5. Scheduled'
  BY <1>1, <1>2 DEF Channel, Scheduled
<1> QED
  BY <1>3, <1>4, <1>5 DEF Channel

\* The channel is as it was if its variables are.
LEMMA ChannelSame ==
  ASSUME Channel, UNCHANGED <<opened, reporter, upc, lib, rep, comm>>
  PROVE  Channel'
  BY ChannelKept

\* The DSP writes to the buffer of the process that owns the channel.
LEMMA ChannelDsp ==
  ASSUME ReportTypeOK, Channel, NEW i \in ReportId, DspReport(i)
  PROVE  Channel' /\ wild' \cap Harm = {}
<1>1. comm \in Comm
  BY ChannelTypes
<1>2. Channel'
  BY <1>1, ChannelKept DEF DspReport, Comm, deviceBut
<1>3. PICK f \in File : /\ Owner(f) /\ upc[f] \notin {"allocate", "free", "reset"}
                        /\ comm.addr = lib[f].buf
  BY DEF DspReport, Channel, Works
<1>4. Mapped(comm.addr)
  BY <1>3, OwnerFacts DEF Mapped, Channel
<1> QED
  BY <1>2, <1>4 DEF DspReport

\* The handler schedules the tasklet of a reporter that is there.
LEMMA ChannelInterrupt ==
  ASSUME ReportTypeOK, Channel, Scheduling,
         DspReply \/ IrqEnter \/ IrqReport \/ IrqSchedule \/ IrqCmd \/ IrqAck \/ TakeReply
  PROVE  Channel' /\ wild' \cap Harm = {}
<1>1. comm \in Comm /\ rep \in [Reporter -> Rep] /\ reporter \in Reporter \cup {Nil}
  BY ChannelTypes
<1>2. CASE IrqEnter \/ IrqAck \/ TakeReply
  <2>1. wild' \subseteq {"early_irq"}
    BY <1>2 DEF IrqEnter, IrqAck, TakeReply, Fault, deviceVars
  <2>2. UNCHANGED <<opened, reporter, upc, lib, rep, comm>>
    BY <1>2 DEF IrqEnter, IrqAck, TakeReply, kernel, program, deviceVars, deviceBut
  <2> QED
    BY <2>1, <2>2, ChannelSame DEF Harm
<1>3. CASE DspReply \/ IrqReport \/ IrqCmd
  <2>1. wild' = {}
    BY <1>3 DEF DspReply, IrqReport, IrqCmd, deviceVars
  <2>2. UNCHANGED <<opened, reporter, upc, lib, rep>>
    BY <1>3 DEF DspReply, IrqReport, IrqCmd, program, deviceVars
  <2>3. comm'.working = comm.working /\ comm'.addr = comm.addr
    BY <1>1, <1>3 DEF DspReply, IrqReport, IrqCmd, Comm
  <2> QED
    BY <2>1, <2>2, <2>3, ChannelKept
<1>4. CASE IrqSchedule
  <2>1. UNCHANGED <<opened, reporter, upc, lib, comm>> /\ wild = {}
    BY <1>4 DEF IrqSchedule, program, deviceBut
  <2>2. PICK f \in File : Owner(f) /\ upc[f] \notin Busy
    BY <1>4 DEF IrqSchedule, Scheduling
  <2>3. Sound(reporter) /\ rep[reporter].armed
    BY <2>2, OwnerFacts DEF Channel, Busy
  <2>4. rep' = [rep EXCEPT ![reporter].sched = TRUE] /\ wild' = {}
    BY <1>4, <2>1, <2>3 DEF IrqSchedule
  <2>5. \A g \in File : Owner(g)' <=> Owner(g)
    BY <2>1, OwnerSame
  <2>6. /\ rep'[reporter].live = rep[reporter].live
        /\ rep'[reporter].armed = rep[reporter].armed
        /\ rep'[reporter].buffer = rep[reporter].buffer
        /\ \A r \in Reporter : rep'[r].sched => rep[r].sched \/ r = reporter
    BY <1>1, <2>3, <2>4 DEF Sound, Rep
  <2>7. Owned'
    BY <2>1, <2>5, <2>6 DEF Channel, Owned
  <2>8. Works'
    BY <2>1, <2>5 DEF Channel, Works
  <2>9. Scheduled'
    BY <2>1, <2>2, <2>5, <2>6 DEF Channel, Scheduled
  <2> QED
    BY <2>4, <2>7, <2>8, <2>9 DEF Channel
<1> QED
  BY <1>2, <1>3, <1>4

\* The tasklet runs on a reporter that is there.
LEMMA ChannelTasklet ==
  ASSUME ReportTypeOK, Channel, Noded, NEW r \in Reporter, Tasklet(r)
  PROVE  Channel' /\ wild' \cap Harm = {}
<1>1. comm \in Comm /\ rep \in [Reporter -> Rep]
  BY ChannelTypes
<1>2. PICK f \in File : Owner(f) /\ upc[f] \notin Busy
  BY DEF Tasklet, Channel, Scheduled
<1>3. r = reporter
  BY DEF Tasklet, Channel, Scheduled
<1>4. Sound(reporter) /\ f \in opened /\ Mapped(rep[reporter].buffer)
  BY <1>2, OwnerFacts DEF Channel, Busy, Mapped
<1>5. wild = {} /\ stage # "gone"
  BY <1>4 DEF Tasklet, Noded, HasNode
<1>6. wild' = {} /\ rep' = [rep EXCEPT ![r].sched = FALSE]
  BY <1>3, <1>4, <1>5 DEF Tasklet, Sound
<1>7. /\ UNCHANGED <<opened, reporter, upc, lib>>
      /\ comm'.working = comm.working /\ comm'.addr = comm.addr
  BY <1>1, <1>3, <1>4, <1>5 DEF Tasklet, deviceBut, Comm, Sound
<1>8. /\ rep'[reporter].live = rep[reporter].live
      /\ rep'[reporter].armed = rep[reporter].armed
      /\ rep'[reporter].buffer = rep[reporter].buffer
      /\ \A s \in Reporter : rep'[s].sched => rep[s].sched
  BY <1>1, <1>3, <1>6 DEF Rep
<1> QED
  BY <1>6, <1>7, <1>8, ChannelKept

\* The library's steps, and the handler's, are about its items.
LEMMA ItemsStep ==
  ASSUME ReportTypeOK, NEW f \in File, NEW i,
         \/ RegisterCb(f, i) \/ UnregisterCb(f, i) \/ DestroyTask(f, i)
         \/ UnlinkItem(f) \/ SigHandler(f)
  PROVE  \A g \in File :
           /\ upc'[g] = upc[g] \/ {upc[g], upc'[g]} \subseteq {"idle", "unlink"}
           /\ lib'[g].report = lib[g].report
           /\ lib'[g].buf = lib[g].buf /\ lib'[g].maps = lib[g].maps
<1>1. lib \in [File -> Lib] /\ upc \in [File -> Steps]
  BY ChannelTypes
<1>2. CASE SigHandler(f)
  BY <1>2 DEF SigHandler
<1>3. CASE RegisterCb(f, i)
  <2>1. PICK claimed, items :
          lib' = [lib EXCEPT ![f] = [lib[f] EXCEPT !.claimed = claimed, !.items = items]]
    BY <1>3 DEF RegisterCb, SetLib
  <2>2. upc' = upc
    BY <1>3 DEF RegisterCb
  <2> QED
    BY <1>1, <2>1, <2>2 DEF Lib
<1>4. CASE UnlinkItem(f)
  BY <1>1, <1>4 DEF UnlinkItem, SetLib, Goto, Lib
<1>5. CASE UnregisterCb(f, i) \/ DestroyTask(f, i)
  <2>1. FreeItem(f, i) /\ upc[f] = "idle"
    BY <1>5 DEF UnregisterCb, DestroyTask, Idle
  <2> QED
    BY <1>1, <2>1 DEF FreeItem, SetLib, Goto, Lib
<1> QED
  BY <1>2, <1>3, <1>4, <1>5

\* The library's lists do not touch the kernel's side of the channel.
LEMMA ChannelItems ==
  ASSUME ReportTypeOK, Channel, NEW f \in File, NEW i,
         \/ RegisterCb(f, i) \/ UnregisterCb(f, i) \/ DestroyTask(f, i)
         \/ UnlinkItem(f) \/ SigHandler(f)
  PROVE  Channel' /\ wild' \cap Harm = {}
<1>1. wild' \subseteq {"absent", "handler", "item"}
  <2>1. wild = {}
    BY ReportIsIdle
  <2>2. CASE RegisterCb(f, i) \/ UnlinkItem(f)
    BY <2>1, <2>2 DEF RegisterCb, UnlinkItem, deviceVars
  <2>3. CASE UnregisterCb(f, i) \/ DestroyTask(f, i)
    BY <2>1, <2>3 DEF UnregisterCb, DestroyTask, FreeItem, Fault
  <2>4. CASE SigHandler(f)
    BY <2>1, <2>4 DEF SigHandler, Fault
  <2> QED
    BY <2>2, <2>3, <2>4
<1>2. UNCHANGED <<opened, reporter, rep, comm>>
  BY ReportIsIdle, ProgramIdle
<1> QED
  BY <1>1, <1>2, ItemsStep, ChannelKept DEF Harm

\* What a step of f leaves alone of the other processes.
Others(f) ==
  \A g \in File \ {f} : upc'[g] = upc[g] /\ lib'[g] = lib[g]

\* A call of one process changes nothing about another's ownership.
LEMMA OthersOwn ==
  ASSUME NEW f \in File, Others(f), NEW g \in File, g # f
  PROVE  Owner(g)' <=> Owner(g)
  BY OwnerSame DEF Others

\* The calls about a channel change their own process only.
LEMMA StepOthers ==
  ASSUME ReportTypeOK, NEW f \in File,
         \/ CreateReport(f) \/ AllocateReport(f) \/ ArmReport(f) \/ AskSignals(f)
         \/ ReleaseReport(f) \/ FreeReporter(f) \/ ResetReporter(f)
         \/ ReleaseReturn(f) \/ Exit(f) \/ Close(f)
  PROVE  Others(f)
<1>1. lib \in [File -> Lib] /\ upc \in [File -> Steps]
  BY ChannelTypes
<1>2. /\ upc' = upc \/ \E to : Goto(f, to)
      /\ lib' = lib \/ \E l : SetLib(f, l)
  <2>1. CASE CreateReport(f) \/ ReleaseReport(f) \/ ResetReporter(f) \/ Close(f)
    BY <2>1 DEF CreateReport, ReleaseReport, ResetReporter, Close, program
  <2>2. CASE AllocateReport(f)
    BY <2>2 DEF AllocateReport
  <2>3. CASE ArmReport(f)
    BY <2>3 DEF ArmReport
  <2>4. CASE AskSignals(f) \/ FreeReporter(f) \/ ReleaseReturn(f) \/ Exit(f)
    BY <2>4 DEF AskSignals, FreeReporter, ReleaseReturn, Exit
  <2> QED
    BY <2>1, <2>2, <2>3, <2>4
<1> QED
  BY <1>1, <1>2 DEF Others, Goto, SetLib

\* A step of the owner, after which it is the owner still.
LEMMA OwnerStep ==
  ASSUME Channel, NEW f \in File, Others(f), Owner(f), Owner(f)',
         f \in opened', reporter' # Nil,
         upc'[f] # "reset" => rep'[reporter'].live,
         rep'[reporter'].armed <=> upc'[f] \notin {"allocate", "arm", "reset"},
         upc'[f] \notin {"allocate", "reset"} =>
           /\ lib'[f].buf \in lib'[f].maps
           /\ rep'[reporter'].buffer = lib'[f].buf,
         comm'.working => /\ upc'[f] \notin {"allocate", "free", "reset"}
                          /\ comm'.addr = lib'[f].buf,
         \A r \in Reporter : rep'[r].sched => r = reporter' /\ upc'[f] \notin Busy
  PROVE  Channel'
<1>1. \A g \in File : Owner(g)' => g = f
  BY OthersOwn, OwnerFacts DEF Channel
<1>2. Owned'
  BY <1>1 DEF Owned
<1>3. Works'
  BY DEF Works
<1>4. Scheduled'
  BY DEF Scheduled
<1> QED
  BY <1>2, <1>3, <1>4 DEF Channel

\* A step of a process that is not the owner, nor will be.
LEMMA StrangerStep ==
  ASSUME Channel, NEW f \in File, Others(f), ~Owner(f), ~Owner(f)',
         opened \ {f} \subseteq opened', reporter' = reporter,
         rep'[reporter].live = rep[reporter].live,
         rep'[reporter].armed = rep[reporter].armed,
         rep'[reporter].buffer = rep[reporter].buffer,
         \A r \in Reporter : rep'[r].sched => rep[r].sched,
         comm' = comm
  PROVE  Channel'
<1>1. \A g \in File : Owner(g)' <=> Owner(g)
  BY OthersOwn
<1>2. \A g \in File : Owner(g) =>
        g # f /\ upc'[g] = upc[g] /\ lib'[g] = lib[g]
  BY DEF Others
<1>3. Owned'
  BY <1>1, <1>2 DEF Channel, Owned
<1>4. Works'
  BY <1>1, <1>2 DEF Channel, Works
<1>5. Scheduled'
  BY <1>1, <1>2 DEF Channel, Scheduled
<1> QED
  BY <1>3, <1>4, <1>5 DEF Channel

\* A creation takes a channel that nobody owns.
LEMMA ChannelCreate ==
  ASSUME ReportTypeOK, Channel, cause' = {}, NEW f \in File, CreateReport(f)
  PROVE  Channel' /\ wild' \cap Harm = {}
<1>1. /\ rep \in [Reporter -> Rep] /\ upc \in [File -> Steps]
      /\ UNCHANGED <<comm, lib, opened>> /\ wild' = {} /\ f \in opened
      /\ lib[f].report # "live" /\ upc[f] = "idle"
  BY ChannelTypes DEF CreateReport, program, deviceVars
<1>2. reporter = Nil
  BY DEF CreateReport
<1>3. \A g \in File : ~Owner(g)
  BY <1>2, OwnerFacts DEF Channel
<1>4. ~comm.working /\ \A r \in Reporter : ~rep[r].sched
  BY <1>3 DEF Channel, Works, Scheduled
<1>5. CASE reporter' = Nil /\ UNCHANGED <<rep, upc>>
  BY <1>1, <1>2, <1>5, ChannelSame
<1>6. ASSUME NEW r \in Free, reporter' = r, Goto(f, "allocate"),
             rep' = [rep EXCEPT ![r] = [NoRep EXCEPT !.live = TRUE, !.sched = rep[r].sched]]
      PROVE  Channel'
  <2>1. r \in Reporter /\ r # Nil
    BY ReportAssumption DEF Free
  <2>2. upc'[f] = "allocate" /\ \A g \in File \ {f} : upc'[g] = upc[g]
    BY <1>1, <1>6 DEF Goto
  <2>3. rep'[r].live /\ ~rep'[r].armed /\ \A s \in Reporter : ~rep'[s].sched
    BY <1>1, <1>4, <1>6, <2>1 DEF NoRep
  <2>4. Owner(f)' /\ \A g \in File : Owner(g)' => g = f
    <3>1. \A g \in File \ {f} : ~Owner(g)'
      BY <1>1, <1>3, <2>2, OwnerSame
    <3> QED
      BY <2>2, <3>1 DEF Owner
  <2>5. Owned'
    BY <1>1, <1>6, <2>1, <2>2, <2>3, <2>4 DEF Owned
  <2>6. Works' /\ Scheduled'
    BY <1>1, <1>4, <2>3 DEF Works, Scheduled
  <2> QED
    BY <2>5, <2>6 DEF Channel
<1> QED
  BY <1>1, <1>5, <1>6, Zenon DEF CreateReport

\* The creation allocates its buffer, or fails and frees the reporter.
LEMMA ChannelAllocate ==
  ASSUME ReportTypeOK, Channel, cause' = {}, NEW f \in File, AllocateReport(f)
  PROVE  Channel' /\ wild' \cap Harm = {}
<1>1. /\ rep \in [Reporter -> Rep] /\ upc \in [File -> Steps]
      /\ lib \in [File -> Lib] /\ comm \in Comm /\ upc[f] = "allocate"
      /\ reporter' = reporter /\ opened' = opened
  BY ChannelTypes DEF AllocateReport, deviceBut
<1>2. Owner(f)
  BY <1>1 DEF Owner
<1>3. Sound(reporter)
  BY <1>1, <1>2, OwnerFacts DEF Channel
<1>4. reporter \in Reporter /\ reporter # Nil
  BY <1>3, ChannelTypes DEF Sound
<1>5. /\ Goto(f, "arm") /\ wild' = {}
      /\ rep' = [rep EXCEPT ![reporter].buffer = creates]
      /\ comm' = [comm EXCEPT !.addr = creates, !.working = TRUE]
      /\ SetLib(f, [lib[f] EXCEPT !.buf = creates, !.maps = @ \cup {creates}])
  BY <1>3 DEF AllocateReport
<1>6. /\ upc'[f] = "arm" /\ lib'[f].buf = creates /\ creates \in lib'[f].maps
      /\ comm'.addr = creates
  BY <1>1, <1>5 DEF Goto, SetLib, Lib, Comm
<1>7. /\ rep'[reporter].live = rep[reporter].live
      /\ rep'[reporter].armed = rep[reporter].armed
      /\ rep'[reporter].buffer = creates
      /\ \A r \in Reporter : rep'[r].sched = rep[r].sched
  BY <1>1, <1>4, <1>5 DEF Rep
<1>8. Owner(f)'
  BY <1>6 DEF Owner
<1>9. /\ f \in opened' /\ rep'[reporter].live /\ ~rep'[reporter].armed
      /\ \A r \in Reporter : ~rep'[r].sched
  BY <1>1, <1>2, <1>3, <1>7, OwnerFacts, BusyOwner DEF Channel, Busy, Sound
<1>10. Others(f)
  BY StepOthers
<1>11. Channel'
  BY <1>1, <1>2, <1>4, <1>6, <1>7, <1>8, <1>9, <1>10, OwnerStep
<1> QED
  BY <1>5, <1>11

\* The creation publishes the reporter after its tasklet was initialised.
LEMMA ChannelArm ==
  ASSUME ReportTypeOK, Channel, cause' = {}, NEW f \in File, ArmReport(f)
  PROVE  Channel' /\ wild' \cap Harm = {}
<1>1. /\ rep \in [Reporter -> Rep] /\ upc \in [File -> Steps]
      /\ lib \in [File -> Lib] /\ comm \in Comm /\ upc[f] = "arm"
      /\ reporter' = reporter /\ opened' = opened
      /\ comm' = [comm EXCEPT !.id = 0, !.flag = FALSE]
  BY ChannelTypes DEF ArmReport, deviceBut
<1>2. Owner(f)
  BY <1>1 DEF Owner
<1>3. Sound(reporter)
  BY <1>1, <1>2, OwnerFacts DEF Channel
<1>4. reporter \in Reporter /\ reporter # Nil
  BY <1>3, ChannelTypes DEF Sound
<1>5. /\ Goto(f, "async") /\ wild' = {} /\ lib' = lib
      /\ rep' = [rep EXCEPT ![reporter].armed = TRUE]
  BY <1>3 DEF ArmReport
<1>6. upc'[f] = "async" /\ comm'.addr = comm.addr /\ comm'.working = comm.working
  BY <1>1, <1>5 DEF Goto, Comm
<1>7. /\ rep'[reporter].live = rep[reporter].live
      /\ rep'[reporter].armed
      /\ rep'[reporter].buffer = rep[reporter].buffer
      /\ \A r \in Reporter : rep'[r].sched = rep[r].sched
  BY <1>1, <1>4, <1>5 DEF Rep
<1>8. Owner(f)'
  BY <1>6 DEF Owner
<1>9. /\ f \in opened' /\ rep'[reporter].live
      /\ lib'[f].buf \in lib'[f].maps /\ rep'[reporter].buffer = lib'[f].buf
      /\ \A r \in Reporter : ~rep'[r].sched
  BY <1>1, <1>2, <1>3, <1>5, <1>7, OwnerFacts, BusyOwner DEF Channel, Busy, Sound
<1>10. comm'.working => comm'.addr = lib'[f].buf
  BY <1>2, <1>5, <1>6, OwnerFacts DEF Channel, Works
<1>11. Others(f)
  BY StepOthers
<1>12. Channel'
  BY <1>1, <1>2, <1>4, <1>6, <1>7, <1>8, <1>9, <1>10, <1>11, OwnerStep
<1> QED
  BY <1>5, <1>12

\* Changing who listens leaves the rest of a reporter alone.
LEMMA FasyncKeeps ==
  ASSUME ReportTypeOK, NEW files, Fasync(files)
  PROVE  /\ \A r \in Reporter : /\ rep'[r].live = rep[r].live
                                /\ rep'[r].armed = rep[r].armed
                                /\ rep'[r].buffer = rep[r].buffer
                                /\ rep'[r].sched = rep[r].sched
         /\ reporter = Nil => rep' = rep
         /\ reporter = Nil \/ Sound(reporter) => wild' = wild
<1>1. rep \in [Reporter -> Rep] /\ reporter \in Reporter \cup {Nil}
  BY ChannelTypes
<1> QED
  BY <1>1 DEF Fasync, Rep, Sound

\* Signals are asked for on a reporter that is there.
LEMMA ChannelAsk ==
  ASSUME ReportTypeOK, Channel, NEW f \in File, AskSignals(f)
  PROVE  Channel' /\ wild' \cap Harm = {}
<1>1. /\ upc \in [File -> Steps] /\ lib \in [File -> Lib] /\ upc[f] = "async"
      /\ UNCHANGED <<reporter, comm, opened>> /\ wild = {}
  BY ChannelTypes DEF AskSignals, deviceBut
<1>2. Owner(f)
  BY <1>1 DEF Owner
<1>3. /\ f \in opened /\ reporter # Nil /\ Sound(reporter) /\ rep[reporter].armed
      /\ lib[f].buf \in lib[f].maps /\ rep[reporter].buffer = lib[f].buf
  BY <1>1, <1>2, OwnerFacts DEF Channel
<1>4. reporter \in Reporter
  BY <1>3, ChannelTypes DEF Sound
<1>5. /\ \A r \in Reporter : /\ rep'[r].live = rep[r].live
                             /\ rep'[r].armed = rep[r].armed
                             /\ rep'[r].buffer = rep[r].buffer
                             /\ rep'[r].sched = rep[r].sched
      /\ wild' = {}
  BY <1>1, <1>3, FasyncKeeps DEF AskSignals
<1>6. /\ upc'[f] = "idle" /\ lib'[f].report = "live"
      /\ lib'[f].buf = lib[f].buf /\ lib'[f].maps = lib[f].maps
  BY <1>1 DEF AskSignals, Goto, SetLib, Lib
<1>7. Owner(f)'
  BY <1>6 DEF Owner
<1>8. comm'.working => comm'.addr = lib'[f].buf
  BY <1>1, <1>2, <1>6, OwnerFacts DEF Channel, Works
<1>9. Others(f)
  BY StepOthers
<1>10. \A r \in Reporter : rep'[r].sched => r = reporter'
  BY <1>1, <1>5 DEF Channel, Scheduled
<1>11. rep'[reporter'].live /\ rep'[reporter'].armed
       /\ rep'[reporter'].buffer = lib'[f].buf /\ lib'[f].buf \in lib'[f].maps
  BY <1>1, <1>3, <1>4, <1>5, <1>6 DEF Sound
<1>12. upc'[f] \notin {"allocate", "free", "reset", "arm"} /\ upc'[f] \notin Busy
  BY <1>6 DEF Busy
<1>13. Channel'
  BY <1>1, <1>2, <1>3, <1>6, <1>7, <1>8, <1>9, <1>10, <1>11, <1>12, OwnerStep
<1> QED
  BY <1>5, <1>13

\* The release kills the tasklet before anything is freed.
LEMMA ChannelRelease ==
  ASSUME ReportTypeOK, Channel, NEW f \in File, ReleaseReport(f)
  PROVE  Channel' /\ wild' \cap Harm = {}
<1>1. /\ upc \in [File -> Steps] /\ comm \in Comm
      /\ UNCHANGED <<reporter, rep, opened, lib>> /\ wild = {}
      /\ upc[f] = "idle" /\ lib[f].report = "live"
  BY ChannelTypes DEF ReleaseReport, Idle, program, deviceBut
<1>2. Owner(f)
  BY <1>1 DEF Owner
<1>3. /\ f \in opened /\ reporter # Nil /\ Sound(reporter) /\ rep[reporter].armed
      /\ lib[f].buf \in lib[f].maps /\ rep[reporter].buffer = lib[f].buf
  BY <1>1, <1>2, OwnerFacts DEF Channel
<1>4. /\ Goto(f, "free") /\ wild' = {} /\ TaskletKilled
      /\ comm' = [comm EXCEPT !.working = FALSE]
  BY <1>1, <1>3 DEF ReleaseReport
<1>5. upc'[f] = "free" /\ ~comm'.working
  BY <1>1, <1>4 DEF Goto, Comm
<1>6. Owner(f)'
  BY <1>5 DEF Owner
<1>7. \A r \in Reporter : ~rep[r].sched
  BY <1>4 DEF Channel, Scheduled, TaskletKilled
<1>8. Others(f)
  BY StepOthers
<1>9. Channel'
  BY <1>1, <1>2, <1>3, <1>5, <1>6, <1>7, <1>8, OwnerStep DEF Sound
<1> QED
  BY <1>4, <1>9

\* A channel in release does not work.
LEMMA ReleaseOff ==
  ASSUME Channel, NEW f \in File, upc[f] \in {"free", "reset"}
  PROVE  Owner(f) /\ ~comm.working
<1>1. Owner(f)
  BY DEF Owner
<1> QED
  BY <1>1, OwnerFacts DEF Channel, Works

\* The release frees the reporter, which nobody uses any more.
LEMMA ChannelFree ==
  ASSUME ReportTypeOK, Channel, NEW f \in File, FreeReporter(f)
  PROVE  Channel' /\ wild' \cap Harm = {}
<1>1. /\ upc \in [File -> Steps] /\ rep \in [Reporter -> Rep]
      /\ UNCHANGED <<reporter, opened, comm>> /\ wild = {}
      /\ upc[f] = "free" /\ Goto(f, "reset")
  BY ChannelTypes DEF FreeReporter, deviceBut
<1>2. Owner(f) /\ ~comm.working
  BY <1>1, ReleaseOff
<1>3. /\ f \in opened /\ reporter # Nil /\ Sound(reporter) /\ rep[reporter].armed
      /\ \A r \in Reporter : ~rep[r].sched
  BY <1>1, <1>2, OwnerFacts, BusyOwner DEF Channel, Busy
<1>4. reporter \in Reporter
  BY <1>3, ChannelTypes DEF Sound
<1>5. /\ wild' = {}
      /\ rep' = Freed
  BY <1>1, <1>3 DEF FreeReporter
<1>6. ~rep'[reporter].armed /\ \A r \in Reporter : ~rep'[r].sched
  BY <1>1, <1>3, <1>4, <1>5, FreedFacts
<1>7. upc'[f] = "reset"
  BY <1>1 DEF Goto
<1>8. Owner(f)'
  BY <1>7 DEF Owner
<1>9. Others(f)
  BY StepOthers
<1>10. Channel'
  BY <1>1, <1>2, <1>3, <1>6, <1>7, <1>8, <1>9, OwnerStep
<1> QED
  BY <1>5, <1>10

\* The release forgets the reporter.
LEMMA ChannelReset ==
  ASSUME ReportTypeOK, Channel, NEW f \in File, ResetReporter(f)
  PROVE  Channel' /\ wild' \cap Harm = {}
<1>1. /\ upc \in [File -> Steps]
      /\ UNCHANGED <<rep, opened, comm, lib>> /\ wild' = {}
      /\ upc[f] = "reset" /\ Goto(f, "return") /\ reporter' = Nil
  BY ChannelTypes DEF ResetReporter, program, deviceVars
<1>2. Owner(f) /\ ~comm.working
  BY <1>1, ReleaseOff
<1>3. \A r \in Reporter : ~rep[r].sched
  BY <1>1, <1>2, BusyOwner DEF Busy
<1>4. ~Owner(f)'
  BY <1>1 DEF Goto, Owner
<1>5. \A g \in File : ~Owner(g)'
  BY <1>2, <1>4, OwnerFacts, StepOthers, OthersOwn DEF Channel
<1>6. Owned'
  BY <1>1, <1>5 DEF Owned
<1>7. Works' /\ Scheduled'
  BY <1>1, <1>2, <1>3 DEF Works, Scheduled
<1> QED
  BY <1>1, <1>6, <1>7 DEF Channel

\* A release that returns, and a process that ends, has no channel.
LEMMA Leaving ==
  ASSUME ReportTypeOK, Channel, cause' = {}, NEW f \in File,
         ReleaseReturn(f) \/ Exit(f)
  PROVE  ~Owner(f) /\ ~Owner(f)'
<1>1. upc \in [File -> Steps] /\ lib \in [File -> Lib]
  BY ChannelTypes
<1>2. CASE ReleaseReturn(f)
  <2>1. upc[f] = "return" /\ upc'[f] = "idle" /\ lib'[f].report # "live"
    BY <1>1, <1>2 DEF ReleaseReturn, Goto, SetLib, NoLib
  <2> QED
    BY <2>1 DEF Owner
<1>3. CASE Exit(f)
  <2>1. lib[f].report # "live" /\ lib[f].maps = {} /\ upc[f] \in UserMode
    BY <1>3 DEF Exit
  <2>2. upc'[f] = "exited" /\ lib'[f].report # "live"
    BY <1>1, <1>3 DEF Exit, Goto, SetLib, NoLib
  <2>3. ~Owner(f)'
    BY <2>2 DEF Owner
  <2>4. upc[f] # "async"
    <3> SUFFICES ASSUME upc[f] = "async"
                 PROVE  FALSE
      OBVIOUS
    <3>1. Owner(f)
      BY DEF Owner
    <3> QED
      BY <2>1, <3>1, OwnerFacts DEF Channel
  <2>5. ~Owner(f)
    BY <2>1, <2>4 DEF Owner, UserMode
  <2> QED
    BY <2>3, <2>5
<1> QED
  BY <1>2, <1>3

\* So they leave no channel behind.
LEMMA ChannelLeave ==
  ASSUME ReportTypeOK, Channel, cause' = {}, NEW f \in File,
         ReleaseReturn(f) \/ Exit(f)
  PROVE  Channel' /\ wild' \cap Harm = {}
<1>1. UNCHANGED <<reporter, rep, opened, comm>> /\ wild' = {}
  <2>1. UNCHANGED opened /\ wild' = {}
    BY DEF ReleaseReturn, Exit, deviceVars
  <2> QED
    BY <2>1, ProgramIdle
<1>2. Others(f)
  BY StepOthers
<1> QED
  BY <1>1, <1>2, Leaving, StrangerStep

\* A close finds no reporter but its own.
LEMMA ChannelClose ==
  ASSUME ReportTypeOK, Channel, cause' = {}, NEW f \in File, Close(f)
  PROVE  Channel' /\ wild' \cap Harm = {}
<1>1. /\ upc \in [File -> Steps] /\ wild = {} /\ opened' = opened \ {f}
      /\ UNCHANGED <<reporter, comm, lib>>
      /\ upc[f] \in {"idle", "exited"} /\ lib[f].report # "live"
      /\ Goto(f, "idle") /\ Fasync(Listening \ {f})
  BY ChannelTypes DEF Close, ClosePower
<1>2. ~Owner(f) /\ ~Owner(f)'
  BY <1>1 DEF Owner, Goto
<1>3. reporter = Nil \/ Sound(reporter)
  <2> SUFFICES ASSUME reporter # Nil
               PROVE  Sound(reporter)
    OBVIOUS
  <2>1. PICK g \in File : Owner(g)
    BY DEF Channel, Owned
  <2>2. upc[g] # "reset"
    BY DEF Close
  <2> QED
    BY <2>1, <2>2, OwnerFacts DEF Channel
<1>4. wild' = {}
  BY <1>1, <1>3, FasyncKeeps
<1>5. \A r \in Reporter : rep'[r].sched => rep[r].sched
  BY <1>1, FasyncKeeps
<1>6. /\ rep'[reporter].live = rep[reporter].live
      /\ rep'[reporter].armed = rep[reporter].armed
      /\ rep'[reporter].buffer = rep[reporter].buffer
  BY <1>1, <1>3, FasyncKeeps, ChannelTypes
<1>7. Others(f)
  BY StepOthers
<1>8. Channel'
  BY <1>1, <1>2, <1>5, <1>6, <1>7, StrangerStep
<1> QED
  BY <1>4, <1>8

\* Probe, removal and open do not touch the channel.
LEMMA ChannelDevice ==
  ASSUME Channel, NEW f,
         \/ ProbeIrq \/ ProbeClocks \/ ProbeRegs \/ ProbeQueues \/ ProbeBoot
         \/ ProbeNode \/ ProbeDone \/ RemoveDevice \/ Open(f),
         UNCHANGED reportVars
  PROVE  Channel' /\ wild' \cap Harm = {}
<1>1. wild' \subseteq {"removed"} /\ opened \subseteq opened'
  BY DEF ProbeIrq, ProbeClocks, ProbeRegs, ProbeQueues, ProbeStep, ProbeBoot,
     ProbeNode, ProbeDone, RemoveDevice, Open
<1>2. Channel'
  BY <1>1, ChannelKept DEF reportVars
<1> QED
  BY <1>1, <1>2 DEF Harm

\* A reboot does not touch the channel.
LEMMA ChannelReboot ==
  ASSUME Channel, RebootDsp
  PROVE  Channel' /\ wild' \cap Harm = {}
<1>1. wild' = {} /\ UNCHANGED <<opened, reporter, upc, lib, rep, comm>>
  BY DEF RebootDsp, Reboot, kernel
<1> QED
  BY <1>1, ChannelSame

\* Calls about dma-bufs do not touch the channel.
LEMMA ChannelDma ==
  ASSUME Channel, NEW f, NEW b, UNCHANGED reportVars,
         \/ ImportLookup(f, b) \/ ReleaseSearch(f, b) \/ ImportAttach(f)
         \/ ImportKnown(f) \/ ImportCheck(f) \/ ReleaseDetach(f)
         \/ ReleaseDrop(f)
  PROVE  Channel' /\ wild' \cap Harm = {}
<1>1. wild' \subseteq {"dma_item", "list", "err_ptr"}
  <2>1. wild = {}
    BY DmaIsIdle
  <2>2. CASE ImportLookup(f, b)
    BY <2>1, <2>2 DEF ImportLookup, DmaFault
  <2>3. CASE ImportAttach(f)
    BY <2>1, <2>3 DEF ImportAttach, DmaFault
  <2>4. CASE ImportCheck(f)
    BY <2>1, <2>4 DEF ImportCheck, DmaFault
  <2>5. CASE ReleaseDetach(f)
    BY <2>1, <2>5 DEF ReleaseDetach, DmaFault
  <2>6. CASE ReleaseSearch(f, b) \/ ImportKnown(f) \/ ReleaseDrop(f)
    BY <2>1, <2>6 DEF ReleaseSearch, ImportKnown, ReleaseDrop, deviceVars
  <2> QED
    BY <2>2, <2>3, <2>4, <2>5, <2>6
<1>2. Channel'
  BY DmaIsIdle, ChannelSame DEF reportVars
<1> QED
  BY <1>1, <1>2 DEF Harm

\* What has gone wrong is not forgotten.
LEMMA CauseGrows ==
  ASSUME Next
  PROVE  cause \subseteq cause'
<1>1. ASSUME NEW f \in File,
             \/ CreateReport(f) \/ AllocateReport(f) \/ ArmReport(f)
             \/ ReleaseReport(f) \/ Close(f) \/ Exit(f)
      PROVE  cause \subseteq cause'
  BY <1>1 DEF CreateReport, AllocateReport, ArmReport, ReleaseReport, Close, Exit
<1>2. ASSUME NEW f \in File,
             \/ AskSignals(f) \/ FreeReporter(f)
             \/ ResetReporter(f) \/ ReleaseReturn(f) \/ UnlinkItem(f) \/ SigHandler(f)
      PROVE  cause \subseteq cause'
  BY <1>2 DEF AskSignals, FreeReporter, ResetReporter,
     ReleaseReturn, UnlinkItem, SigHandler, kernel
<1>3. CASE DspReply \/ IrqEnter \/ IrqReport \/ IrqSchedule \/ IrqCmd \/ IrqAck \/ TakeReply \/ RebootDsp
  BY <1>3 DEF DspReply, IrqEnter, IrqReport, IrqSchedule, IrqCmd, IrqAck,
     TakeReply, RebootDsp, Collided, kernel
<1>4. ASSUME NEW f \in File, NEW i \in ReportId,
             RegisterCb(f, i) \/ UnregisterCb(f, i) \/ DestroyTask(f, i)
      PROVE  cause \subseteq cause'
  BY <1>4 DEF RegisterCb, UnregisterCb, DestroyTask, kernel
<1>5. ASSUME NEW i \in ReportId, DspReport(i)
      PROVE  cause \subseteq cause'
  BY <1>5 DEF DspReport
<1>6. ASSUME NEW r \in Reporter, Tasklet(r)
      PROVE  cause \subseteq cause'
  BY <1>6 DEF Tasklet
<1>7. CASE UNCHANGED reportVars
  BY <1>7 DEF reportVars
<1> QED
  BY <1>1, <1>2, <1>3, <1>4, <1>5, <1>6, <1>7, Zenon DEF Next

\* A step in which whoever has the channel in order keeps it.
LEMMA SchedulingKept ==
  ASSUME Scheduling, handler' = "schedule" => handler = "schedule",
         \A f \in File : Owner(f) =>
           /\ lib'[f].report = lib[f].report
           /\ upc'[f] = upc[f] \/ {upc[f], upc'[f]} \subseteq {"idle", "unlink"}
  PROVE  Scheduling'
<1> SUFFICES ASSUME handler' = "schedule"
             PROVE  \E f \in File : Owner(f)' /\ upc'[f] \notin Busy
  BY DEF Scheduling
<1>1. PICK f \in File : Owner(f) /\ upc[f] \notin Busy
  BY DEF Scheduling
<1>2. Owner(f)' /\ upc'[f] \notin Busy
  BY <1>1, OwnerSame DEF Busy
<1> QED
  BY <1>2

\* A release that begins behind the handler's back counts as an accident, and
\* nobody else gives the channel up while it is in order.
LEMMA SchedulingCall ==
  ASSUME ReportTypeOK, Channel, Scheduling, cause' = {}, NEW f \in File,
         \/ CreateReport(f) \/ AllocateReport(f) \/ ArmReport(f) \/ AskSignals(f)
         \/ ReleaseReport(f) \/ FreeReporter(f) \/ ResetReporter(f)
         \/ ReleaseReturn(f) \/ Exit(f) \/ Close(f)
  PROVE  Scheduling'
<1>1. upc \in [File -> Steps] /\ lib \in [File -> Lib]
  BY ChannelTypes
<1>2. handler' = handler
  BY DEF CreateReport, AllocateReport, ArmReport, AskSignals, ReleaseReport,
     FreeReporter, ResetReporter, ReleaseReturn, Exit, Close, interrupt
<1> SUFFICES ASSUME handler = "schedule"
             PROVE  \E g \in File : Owner(g)' /\ upc'[g] \notin Busy
  BY <1>2 DEF Scheduling
<1>3. PICK g \in File : Owner(g) /\ upc[g] \notin Busy
  BY DEF Scheduling
<1>4. CASE g # f
  <2>1. Others(f)
    BY StepOthers
  <2>2. Owner(g)' /\ upc'[g] = upc[g]
    BY <1>3, <1>4, <2>1, OthersOwn DEF Others
  <2> QED
    BY <1>3, <2>2
<1>5. CASE g = f
  <2>1. CASE CreateReport(f) \/ Close(f)
    BY <1>3, <1>5, <2>1 DEF CreateReport, Close, Owner
  <2>2. CASE AllocateReport(f) \/ ArmReport(f) \/ FreeReporter(f) \/ ResetReporter(f)
    BY <1>3, <1>5, <2>2 DEF AllocateReport, ArmReport, FreeReporter,
       ResetReporter, Busy
  <2>3. CASE AskSignals(f)
    <3>1. upc'[f] = "idle" /\ lib'[f].report = "live"
      BY <1>1, <2>3 DEF AskSignals, Goto, SetLib, Lib
    <3> QED
      BY <3>1 DEF Owner, Busy
  <2>4. CASE ReleaseReport(f)
    BY <2>4 DEF ReleaseReport
  <2>5. CASE ReleaseReturn(f) \/ Exit(f)
    BY <1>3, <1>5, <2>5, Leaving
  <2> QED
    BY <2>1, <2>2, <2>3, <2>4, <2>5
<1> QED
  BY <1>4, <1>5

\* The handler takes a report back while nobody is between the creation of a
\* reporter and its tasklet, or the end of a tasklet and its reporter.
LEMMA SchedulingInterrupt ==
  ASSUME Channel, Scheduling, cause' = {},
         DspReply \/ IrqEnter \/ IrqReport \/ IrqSchedule \/ IrqCmd \/ IrqAck \/ TakeReply
  PROVE  Scheduling'
<1>1. UNCHANGED <<upc, lib>>
  BY DEF DspReply, IrqEnter, IrqReport, IrqSchedule, IrqCmd, IrqAck, TakeReply, program
<1>2. CASE IrqReport /\ reporter # Nil /\ comm.flag
  <2>1. \A f \in File : upc[f] \notin Busy
    BY <1>2 DEF IrqReport, Collided
  <2>2. PICK f \in File : Owner(f)
    BY <1>2 DEF Channel, Owned
  <2>3. Owner(f)' /\ upc'[f] \notin Busy
    BY <1>1, <2>1, <2>2, OwnerSame
  <2> QED
    BY <2>3 DEF Scheduling
<1>3. CASE ~(IrqReport /\ reporter # Nil /\ comm.flag)
  <2>1. handler' = "schedule" => handler = "schedule"
    BY <1>3 DEF DspReply, IrqEnter, IrqReport, IrqSchedule, AfterReport, IrqCmd,
       IrqAck, TakeReply
  <2> QED
    BY <1>1, <2>1, SchedulingKept
<1> QED
  BY <1>2, <1>3

\* One owner, and a live reporter, under every step without an accident.
LEMMA ChannelNext ==
  ASSUME ReportTypeOK, Noded, Channel, Scheduling, cause' = {}, Next
  PROVE  Channel' /\ wild' \cap Harm = {}
<1>1. CASE DspReply \/ IrqEnter \/ IrqReport \/ IrqSchedule \/ IrqCmd \/ IrqAck \/ TakeReply
  BY <1>1, ChannelInterrupt
<1>2. CASE RebootDsp
  BY <1>2, ChannelReboot
<1>3. CASE /\ \/ ProbeIrq \/ ProbeClocks \/ ProbeRegs \/ ProbeQueues \/ ProbeBoot
              \/ ProbeNode \/ ProbeDone \/ RemoveDevice \/ \E f \in File : Open(f)
           /\ UNCHANGED reportVars
  BY <1>3, ChannelDevice, Zenon
<1>4. ASSUME NEW f \in File,
             \/ CreateReport(f) \/ AllocateReport(f) \/ ArmReport(f) \/ AskSignals(f)
             \/ ReleaseReport(f) \/ FreeReporter(f) \/ ResetReporter(f)
             \/ ReleaseReturn(f) \/ Exit(f) \/ Close(f)
      PROVE  Channel' /\ wild' \cap Harm = {}
  BY <1>4, ChannelCreate, ChannelAllocate, ChannelArm, ChannelAsk, ChannelRelease,
     ChannelFree, ChannelReset, ChannelLeave, ChannelClose, Zenon
<1>5. ASSUME NEW i \in ReportId, DspReport(i)
      PROVE  Channel' /\ wild' \cap Harm = {}
  BY <1>5, ChannelDsp
<1>6. ASSUME NEW r \in Reporter, Tasklet(r)
      PROVE  Channel' /\ wild' \cap Harm = {}
  BY <1>6, ChannelTasklet
<1>7. ASSUME NEW f \in File, NEW i \in ReportId,
             RegisterCb(f, i) \/ UnregisterCb(f, i) \/ DestroyTask(f, i)
      PROVE  Channel' /\ wild' \cap Harm = {}
  BY <1>7, ChannelItems, Zenon
<1>8. ASSUME NEW f \in File, UnlinkItem(f) \/ SigHandler(f)
      PROVE  Channel' /\ wild' \cap Harm = {}
  BY <1>8, ChannelItems, Zenon
<1>9. ASSUME NEW f \in File, NEW b \in DmaBuf, UNCHANGED reportVars,
             \/ ImportLookup(f, b) \/ ReleaseSearch(f, b)
      PROVE  Channel' /\ wild' \cap Harm = {}
  BY <1>9, ChannelDma, Zenon
<1>10. ASSUME NEW f \in File, UNCHANGED reportVars,
              \/ ImportAttach(f) \/ ImportKnown(f) \/ ImportCheck(f)
              \/ ReleaseDetach(f) \/ ReleaseDrop(f)
      PROVE  Channel' /\ wild' \cap Harm = {}
  BY <1>10, ChannelDma, Zenon
<1> QED
  BY <1>1, <1>2, <1>3, <1>4, <1>5, <1>6, <1>7, <1>8, <1>9, <1>10, Zenon DEF Next

\* The handler's window under every step without an accident.
LEMMA SchedulingNext ==
  ASSUME ReportTypeOK, Channel, Scheduling, cause' = {}, Next
  PROVE  Scheduling'
<1>1. CASE DspReply \/ IrqEnter \/ IrqReport \/ IrqSchedule \/ IrqCmd \/ IrqAck \/ TakeReply
  BY <1>1, SchedulingInterrupt
<1>2. CASE RebootDsp
  BY <1>2, SchedulingKept DEF RebootDsp, interrupt
<1>3. CASE UNCHANGED reportVars
  BY <1>3, SchedulingKept DEF reportVars
<1>4. ASSUME NEW f \in File,
             \/ CreateReport(f) \/ AllocateReport(f) \/ ArmReport(f) \/ AskSignals(f)
             \/ ReleaseReport(f) \/ FreeReporter(f) \/ ResetReporter(f)
             \/ ReleaseReturn(f) \/ Exit(f) \/ Close(f)
      PROVE  Scheduling'
  BY <1>4, SchedulingCall
<1>5. ASSUME NEW i \in ReportId, DspReport(i)
      PROVE  Scheduling'
  BY <1>5, SchedulingKept DEF DspReport
<1>6. ASSUME NEW r \in Reporter, Tasklet(r)
      PROVE  Scheduling'
  BY <1>6, SchedulingKept DEF Tasklet, interrupt
<1>7. ASSUME NEW f \in File, NEW i,
             \/ RegisterCb(f, i) \/ UnregisterCb(f, i) \/ DestroyTask(f, i)
             \/ UnlinkItem(f) \/ SigHandler(f)
      PROVE  Scheduling'
  <2>1. handler' = handler
    BY <1>7, ProgramIdle
  <2> QED
    BY <1>7, <2>1, ItemsStep, SchedulingKept
<1> QED
  BY <1>1, <1>2, <1>3, <1>4, <1>5, <1>6, <1>7, Zenon DEF Next

\* The invariant of the channel as one implication.
LEMMA ChannelParts ==
  ChannelInv <=> (cause = {} => wild \cap Harm = {} /\ Channel /\ Scheduling)
  BY DEF ChannelInv, Channel, Harm

\* The invariant of the channel at the beginning.
LEMMA ChannelStart ==
  ASSUME Init
  PROVE  ChannelInv
<1>1. wild = {} /\ ReportInit
  BY DEF Init, DeviceInit
<1>2. /\ reporter = Nil /\ ~comm.working
      /\ \A r \in Reporter : ~rep[r].sched
      /\ \A f \in File : upc[f] = "idle" /\ lib[f].report = "none"
  BY <1>1 DEF ReportInit, NoRep, NoLib
<1>3. \A f \in File : ~Owner(f)
  BY <1>2 DEF Owner
<1>4. Channel
  BY <1>2, <1>3 DEF Channel, Owned, Works, Scheduled
<1>5. Scheduling
  BY <1>1 DEF ReportInit, Scheduling
<1> QED
  BY <1>1, <1>4, <1>5, ChannelParts

\* The invariant of the channel when nothing changes.
LEMMA ChannelStays ==
  ASSUME ChannelInv, UNCHANGED vars
  PROVE  ChannelInv'
<1>1. UNCHANGED <<cause, wild, opened, reporter, upc, lib, rep, comm, handler>>
  BY DEF vars, reportVars, deviceVars
<1>2. Channel => Channel'
  BY <1>1, ChannelSame
<1>3. Scheduling => Scheduling'
  BY <1>1, SchedulingKept
<1> QED
  BY <1>1, <1>2, <1>3 DEF ChannelInv, Channel

\* The invariant of the channel under every step: accidents are not undone.
LEMMA ChannelStep ==
  ASSUME DriverInv, ChannelInv, Next
  PROVE  ChannelInv'
<1> SUFFICES ASSUME cause' = {}
             PROVE  wild' \cap Harm = {} /\ Channel' /\ Scheduling'
  BY DEF ChannelInv, Channel, Harm
<1>1. cause = {}
  BY CauseGrows
<1>2. Channel /\ Scheduling
  BY <1>1, ChannelParts
<1> QED
  BY <1>2, ChannelNext, SchedulingNext DEF DriverInv

\* As long as one process at a time has a channel and nothing goes wrong with
\* it, it has one owner, works only for that owner's buffer, and its tasklet
\* runs only between creation and release.
THEOREM ChannelOwned == Spec => []ChannelInv
<1>1. DriverInv /\ ChannelInv /\ [Next]_vars => ChannelInv'
  BY ChannelStep, ChannelStays
<1> QED
  BY <1>1, ChannelStart, DriverSafe, PTL DEF Spec

\* As long as one process at a time has a channel and nothing goes wrong with
\* it, the kernel and the DSP touch no reporter and no report buffer that is
\* gone.
THEOREM ReporterIsSound == Spec => []ReporterSound
<1>1. ChannelInv => ReporterSound
  <2> SUFFICES ASSUME ChannelInv, cause = {}
               PROVE  /\ wild \cap Harm = {}
                      /\ comm.working => Sound(reporter) /\ Mapped(comm.addr)
                      /\ \A r \in Reporter : rep[r].sched => r = reporter /\ rep[r].armed
                      /\ reporter # Nil => Sound(reporter) \/ \E f \in File : upc[f] = "reset"
    BY DEF ReporterSound, Harm
  <2>1. wild \cap Harm = {} /\ Channel
    BY ChannelParts
  <2>2. comm.working => Sound(reporter) /\ Mapped(comm.addr)
    BY <2>1, OwnerFacts DEF Channel, Works, Mapped
  <2>3. \A r \in Reporter : rep[r].sched => r = reporter /\ rep[r].armed
    BY <2>1, OwnerFacts DEF Channel, Scheduled, Busy
  <2>4. reporter # Nil => Sound(reporter) \/ \E f \in File : upc[f] = "reset"
    <3>1. reporter # Nil => \E f \in File : Owner(f)
      BY <2>1 DEF Channel, Owned
    <3> QED
      BY <2>1, <3>1, OwnerFacts DEF Channel
  <2> QED
    BY <2>1, <2>2, <2>3, <2>4
<1> QED
  BY <1>1, ChannelOwned, PTL

(***************************************************************************)
(* What a callback is given.                                               *)
(***************************************************************************)

Calls == Sole /\ Delivered /\ Clean

\* What an owner has, whatever has gone wrong but for a second channel.
LEMMA SoleFacts ==
  ASSUME Sole, NEW f \in File, Owner(f)
  PROVE  /\ \A g \in File : Owner(g) => g = f
         /\ reporter # Nil
         /\ upc[f] \in {"allocate", "arm", "async"} => rep[reporter].fasync = {}
         /\ upc[f] \notin {"allocate", "reset"} =>
              /\ lib[f].buf \in lib[f].maps
              /\ rep[reporter].buffer = lib[f].buf
              /\ comm.addr = lib[f].buf
  BY DEF Sole

\* A process inside a creation or a release owns the channel.
LEMMA NewChannel ==
  ASSUME NEW f, upc[f] \in {"allocate", "arm", "async", "free", "reset"}
  PROVE  Owner(f)
  BY DEF Owner

\* A step that leaves the channel and its buffers as they are.
LEMMA CallsKept ==
  ASSUME ReportTypeOK, Calls, UNCHANGED <<reporter, page, creates>>,
         \A f \in File :
           /\ upc'[f] = upc[f] \/ {upc[f], upc'[f]} \subseteq {"idle", "unlink"}
           /\ lib'[f].report = lib[f].report
           /\ lib'[f].buf = lib[f].buf /\ lib'[f].maps = lib[f].maps,
         \A r \in Reporter : /\ rep'[r].buffer = rep[r].buffer
                             /\ rep[r].fasync = {} => rep'[r].fasync = {},
         comm'.addr = comm.addr, comm'.id \in {comm.id, 0},
         sig' # {} /\ ~overrun' => sig # {} /\ ~overrun
  PROVE  Calls'
<1>1. \A f \in File : Owner(f)' <=> Owner(f)
  BY OwnerSame
<1>2. \A f \in File :
        \A s \in {"allocate", "arm", "async", "free", "reset", "return"} :
          upc'[f] = s <=> upc[f] = s
  OBVIOUS
<1>3. reporter # Nil => reporter \in Reporter
  BY ChannelTypes
<1>4. Sole'
  BY <1>1, <1>2, <1>3 DEF Calls, Sole
<1>5. Delivered'
  BY <1>1, <1>2 DEF Calls, Delivered
<1>6. Clean'
  BY <1>2 DEF Calls, Clean
<1> QED
  BY <1>4, <1>5, <1>6 DEF Calls

\* A step of the owner, after which it is the owner still.
LEMMA CallsOwner ==
  ASSUME ReportTypeOK, Calls, NEW f \in File, Others(f), Owner(f), Owner(f)',
         UNCHANGED <<sig, overrun, creates>>,
         page' = page \/ (Forget /\ upc'[f] = "reset"),
         upc'[f] # "allocate", reporter' # Nil,
         upc'[f] \in {"arm", "async"} =>
           rep'[reporter'].fasync = {} /\ lib'[f].report # "live",
         upc'[f] # "reset" =>
           /\ lib'[f].buf \in lib'[f].maps
           /\ rep'[reporter'].buffer = lib'[f].buf /\ comm'.addr = lib'[f].buf
           /\ comm'.id # 0 /\ upc'[f] # "arm" => page[lib'[f].buf].pay = comm'.id
           /\ sig # {} /\ ~overrun =>
                page[lib'[f].buf].id \in {0, page[lib'[f].buf].pay % IdWord},
         upc'[f] = "reset" => lib'[f].buf \notin lib'[f].maps,
         comm'.addr <= creates, \A r \in Reporter : rep'[r].buffer <= creates
  PROVE  Calls'
<1>1. \A g \in File : Owner(g)' => g = f
  BY OthersOwn, SoleFacts DEF Calls
<1>2. Sole'
  BY <1>1 DEF Sole
<1>3. Delivered'
  BY <1>1 DEF Delivered
<1>4. \A g \in File \ {f} :
        /\ upc[g] \notin {"allocate", "arm", "async", "free", "reset"}
        /\ upc'[g] = upc[g] /\ lib'[g] = lib[g]
  BY SoleFacts, NewChannel DEF Calls, Others
<1>5. Clean'
  <2>1. upc'[f] # "return"
    BY DEF Owner
  <2>2. \A g \in File : /\ upc'[g] # "allocate"
                        /\ upc'[g] \in {"arm", "async"} => lib'[g].report # "live"
                        /\ upc'[g] \in {"reset", "return"} => lib'[g].buf \notin lib'[g].maps
    BY <1>4, <2>1 DEF Calls, Clean
  <2>3. \A b \in Buffer : page'[b] \in {page[b], NoPage}
    BY ForgetFacts, ChannelTypes
  <2> QED
    BY <2>2, <2>3 DEF Calls, Clean
<1> QED
  BY <1>2, <1>3, <1>5 DEF Calls

\* A step of a process that is not the owner afterwards.
LEMMA CallsStranger ==
  ASSUME ReportTypeOK, Created, Calls, NEW f \in File, Others(f), ~Owner(f)',
         UNCHANGED <<overrun, creates, comm>>, sig' \subseteq sig,
         page' = page \/ Forget,
         reporter' = reporter \/ Owner(f),
         \A r \in Reporter :
           /\ rep'[r].buffer = rep[r].buffer \/ (Owner(f) /\ rep'[r].buffer = 0)
           /\ rep[r].fasync = {} => rep'[r].fasync = {},
         upc'[f] = "return" => lib'[f].buf \notin lib'[f].maps
  PROVE  Calls'
<1>1. \A g \in File : Owner(g)' => g # f /\ Owner(g)
  BY OthersOwn
<1>2. \A g \in File : Owner(g)' => upc'[g] = upc[g] /\ lib'[g] = lib[g]
  BY <1>1 DEF Others
<1>3. Sole'
  <2> SUFFICES ASSUME NEW g \in File, Owner(g)'
               PROVE  /\ \A h \in File : Owner(h)' => g = h
                      /\ reporter' # Nil
                      /\ upc'[g] \in {"allocate", "arm", "async"} => rep'[reporter'].fasync = {}
                      /\ upc'[g] \notin {"allocate", "reset"} =>
                           /\ lib'[g].buf \in lib'[g].maps
                           /\ rep'[reporter'].buffer = lib'[g].buf
                           /\ comm'.addr = lib'[g].buf
    BY DEF Sole
  <2>1. g # f /\ Owner(g) /\ \A h \in File : Owner(h) => h = g
    BY <1>1, SoleFacts DEF Calls
  <2>2. reporter' = reporter /\ reporter # Nil /\ reporter \in Reporter
    BY <2>1, SoleFacts, ChannelTypes DEF Calls
  <2>3. rep'[reporter].buffer = rep[reporter].buffer
    BY <2>1, <2>2
  <2> QED
    BY <1>1, <1>2, <2>1, <2>2, <2>3, SoleFacts DEF Calls
<1>4. Delivered'
  <2>1. \A g \in File : Owner(g)' /\ upc'[g] \notin {"allocate", "reset"} =>
          page'[lib'[g].buf] = page[lib[g].buf]
    <3> SUFFICES ASSUME NEW g \in File, Owner(g)', upc'[g] \notin {"allocate", "reset"}
                 PROVE  page'[lib'[g].buf] = page[lib[g].buf]
      OBVIOUS
    <3>1. lib'[g] = lib[g] /\ lib[g].buf \in lib[g].maps
      BY <1>1, <1>2, SoleFacts DEF Calls
    <3>2. lib[g].buf \in Buffer
      BY <3>1, ChannelTypes DEF Lib
    <3> QED
      BY <3>1, <3>2, ForgetFacts, ChannelTypes
  <2> QED
    BY <1>1, <1>2, <2>1 DEF Calls, Delivered
<1>5. Clean'
  <2>1. \A g \in File \ {f} : upc'[g] = upc[g] /\ lib'[g] = lib[g]
    BY DEF Others
  <2>2. upc'[f] \notin {"allocate", "arm", "async", "reset"}
    BY DEF Owner
  <2>3. \A b \in Buffer : page[b] = NoPage => page'[b] = NoPage
    BY ForgetFacts, ChannelTypes
  <2>4. \A r \in Reporter : rep'[r].buffer <= creates
    <3>1. creates \in Nat
      BY ChannelTypes
    <3> QED
      BY <3>1 DEF Calls, Clean
  <2> QED
    BY <2>1, <2>2, <2>3, <2>4 DEF Calls, Clean, Created
<1> QED
  BY <1>3, <1>4, <1>5 DEF Calls

\* The DSP's report is the one the callback will be given.
LEMMA CallsDsp ==
  ASSUME ReportTypeOK, Calls, Created, NEW i \in ReportId, DspReport(i)
  PROVE  Calls'
<1>1. /\ comm \in Comm /\ page \in [Buffer -> Page] /\ lib \in [File -> Lib]
      /\ UNCHANGED <<reporter, rep, upc, lib, sig, creates>>
      /\ comm' = [comm EXCEPT !.id = i, !.flag = TRUE]
      /\ overrun' = (overrun \/ sig # {})
  BY ChannelTypes DEF DspReport
<1>2. comm'.addr = comm.addr /\ comm'.id = i
  BY <1>1 DEF Comm
<1>3. /\ page' = page \/ (comm.addr \in Buffer /\ page' = [page EXCEPT ![comm.addr].pay = i])
      /\ Mapped(comm.addr) => page' = [page EXCEPT ![comm.addr].pay = i]
      /\ Mapped(comm.addr) => comm.addr \in Buffer
  BY <1>1 DEF DspReport, Mapped, Lib
<1>4. \A b \in Buffer : b # comm.addr => page'[b] = page[b]
  BY <1>1, <1>3
<1>5. \A f \in File : Owner(f)' <=> Owner(f)
  BY <1>1, OwnerSame
<1>6. Sole'
  BY <1>1, <1>2, <1>5 DEF Calls, Sole
<1>7. Delivered'
  <2> SUFFICES ASSUME NEW f \in File, Owner(f), upc[f] \notin {"allocate", "reset"}
               PROVE  /\ page'[lib[f].buf].pay = i
                      /\ ~(sig # {} /\ ~overrun')
    BY <1>1, <1>2, <1>5 DEF Delivered
  <2>1. Mapped(comm.addr) /\ comm.addr = lib[f].buf
    BY SoleFacts DEF Calls, Mapped
  <2>2. page'[comm.addr].pay = i
    BY <1>1, <1>3, <2>1 DEF Page
  <2> QED
    BY <1>1, <2>1, <2>2
<1>8. Clean'
  <2>1. \A b \in Buffer : b > creates => b # comm.addr
    <3>1. comm.addr \in Nat /\ creates \in Nat /\ comm.addr <= creates /\ Buffer \subseteq Nat
      BY <1>1, ChannelTypes DEF Calls, Clean, Comm, Buffer
    <3> QED
      BY <3>1
  <2>2. \A f \in File : upc[f] = "allocate" => page'[creates] = page[creates]
    <3> SUFFICES ASSUME NEW f \in File, upc[f] = "allocate"
                 PROVE  page'[creates] = page[creates]
      OBVIOUS
    <3>1. comm.addr < creates
      BY DEF Calls, Clean
    <3>2. comm.addr \in Nat /\ creates \in Nat /\ creates \in Buffer
      BY <1>1, ChannelTypes DEF Comm, Created, Buffer
    <3>3. creates # comm.addr
      BY <3>1, <3>2
    <3> QED
      BY <1>4, <3>2, <3>3
  <2> QED
    BY <1>1, <1>2, <1>4, <2>1, <2>2 DEF Calls, Clean
<1> QED
  BY <1>6, <1>7, <1>8 DEF Calls

\* The tasklet tells the process whose buffer the report is in.
LEMMA CallsTasklet ==
  ASSUME ReportTypeOK, Calls, NEW r \in Reporter, Tasklet(r)
  PROVE  Calls'
<1>1. /\ comm \in Comm /\ page \in [Buffer -> Page] /\ lib \in [File -> Lib]
      /\ rep \in [Reporter -> Rep]
      /\ UNCHANGED <<reporter, upc, lib, overrun, creates>>
  BY ChannelTypes DEF Tasklet
<1>2. rep' = rep \/ rep' = [rep EXCEPT ![r].sched = FALSE]
  BY DEF Tasklet
<1>3. \A s \in Reporter : rep'[s].buffer = rep[s].buffer /\ rep'[s].fasync = rep[s].fasync
  BY <1>1, <1>2 DEF Rep
<1>4. CASE UNCHANGED <<comm, page, sig>>
  BY <1>1, <1>3, <1>4, CallsKept
<1>5. CASE ~UNCHANGED <<comm, page, sig>>
  <2>1. /\ Sound(reporter) /\ rep[reporter].fasync # {}
        /\ comm' = [comm EXCEPT !.id = 0, !.flag = FALSE]
        /\ Mapped(rep[reporter].buffer) =>
             page' = [page EXCEPT ![rep[reporter].buffer].id = Number]
        /\ ~Mapped(rep[reporter].buffer) => page' = page
    BY <1>5 DEF Tasklet
  <2>2. reporter \in Reporter
    BY <2>1, ChannelTypes DEF Sound
  <2>3. PICK b \in Buffer \cup {0} : b = rep[reporter].buffer
    BY <1>1, <2>2 DEF Rep
  <2>4. b <= creates /\ b \in Nat /\ creates \in Nat /\ Buffer \subseteq Nat
    BY <2>2, <2>3, ChannelTypes DEF Calls, Clean, Buffer
  <2>5. comm'.addr = comm.addr /\ comm'.id = 0
    BY <1>1, <2>1 DEF Comm
  <2>6. \A c \in Buffer : c # b => page'[c] = page[c]
    BY <1>1, <2>1, <2>3
  <2>7. Mapped(b) => /\ b \in Buffer
                     /\ page'[b].id = Number /\ page'[b].pay = page[b].pay
    <3>1. Mapped(b) => b \in Buffer
      BY <1>1 DEF Mapped, Lib
    <3> QED
      BY <1>1, <2>1, <2>3, <3>1 DEF Page
  <2>8. \A f \in File : Owner(f)' <=> Owner(f)
    BY <1>1, OwnerSame
  <2>9. Sole'
    BY <1>1, <1>3, <2>2, <2>5, <2>8 DEF Calls, Sole
  <2>10. Delivered'
    <3> SUFFICES ASSUME NEW f \in File, Owner(f), upc[f] \notin {"allocate", "reset"}
                 PROVE  page'[lib[f].buf].id \in {0, page'[lib[f].buf].pay % IdWord}
      BY <1>1, <2>5, <2>8 DEF Delivered
    <3>1. Mapped(b) /\ b = lib[f].buf /\ upc[f] # "arm"
      BY <2>1, <2>3, SoleFacts DEF Calls, Mapped
    <3>2. comm.id # 0 => page[b].pay = comm.id
      BY <3>1 DEF Calls, Delivered
    <3>3. comm.id = 0 => Number = 0
      BY ReportAssumption DEF Number
    <3> QED
      BY <2>7, <3>1, <3>2, <3>3 DEF Number
  <2>11. Clean'
    <3>1. \A c \in Buffer : c > creates => c # b
      BY <2>4
    <3>2. \A f \in File : upc[f] # "allocate"
      BY <2>1, SoleFacts, NewChannel DEF Calls
    <3> QED
      BY <1>1, <1>3, <2>5, <2>6, <3>1, <3>2 DEF Calls, Clean
  <2> QED
    BY <2>9, <2>10, <2>11 DEF Calls
<1> QED
  BY <1>4, <1>5

\* A creation that is the only one takes no buffer from another.
LEMMA CallsCreate ==
  ASSUME ReportTypeOK, Calls, "second" \notin cause', NEW f \in File,
         CreateReport(f), creates < MaxCreate
  PROVE  Calls'
<1>1. /\ rep \in [Reporter -> Rep] /\ upc \in [File -> Steps] /\ comm \in Comm
      /\ UNCHANGED <<comm, lib, page, sig, overrun>>
      /\ lib[f].report # "live" /\ upc[f] = "idle" /\ creates' = creates + 1
  BY ChannelTypes DEF CreateReport, program
<1>2. reporter = Nil
  BY DEF CreateReport
<1>3. \A g \in File : ~Owner(g)
  BY <1>2, SoleFacts DEF Calls
<1>4. \A g \in File : upc[g] \notin {"allocate", "arm", "async", "free", "reset"}
  BY <1>3, NewChannel
<1>5. /\ creates \in Nat /\ creates' \in Buffer /\ creates' > creates
      /\ \A b \in Buffer : b > creates' => b > creates
      /\ \A n \in Nat : n <= creates => n < creates' /\ n <= creates'
  BY <1>1, ChannelTypes, ReportAssumption DEF Buffer
<1>6. comm.addr \in Nat /\ \A s \in Reporter : rep[s].buffer \in Nat
  BY <1>1 DEF Comm, Rep, Buffer
<1>7. /\ comm.addr < creates' /\ comm.addr <= creates'
      /\ \A s \in Reporter : rep[s].buffer <= creates'
      /\ \A b \in Buffer : b >= creates' => page[b] = NoPage
  BY <1>1, <1>5, <1>6 DEF Calls, Clean, Buffer
<1>8. CASE reporter' = Nil /\ UNCHANGED <<rep, upc>>
  <2>1. \A g \in File : ~Owner(g)'
    BY <1>1, <1>3, <1>8, OwnerSame
  <2>2. Sole' /\ Delivered'
    BY <2>1 DEF Sole, Delivered
  <2>3. Clean'
    BY <1>1, <1>4, <1>5, <1>7, <1>8 DEF Calls, Clean, Buffer
  <2> QED
    BY <2>2, <2>3 DEF Calls
<1>9. ASSUME NEW r \in Free, reporter' = r, Goto(f, "allocate"),
             rep' = [rep EXCEPT ![r] = [NoRep EXCEPT !.live = TRUE, !.sched = rep[r].sched]]
      PROVE  Calls'
  <2>1. r \in Reporter /\ r # Nil
    BY ReportAssumption DEF Free
  <2>2. upc'[f] = "allocate" /\ \A g \in File \ {f} : upc'[g] = upc[g]
    BY <1>1, <1>9 DEF Goto
  <2>3. /\ rep'[r].fasync = {} /\ rep'[r].buffer = 0
        /\ \A s \in Reporter : s # r => rep'[s] = rep[s]
    BY <1>1, <1>9, <2>1 DEF NoRep
  <2>4. \A g \in File : Owner(g)' => g = f
    BY <1>1, <1>3, <2>2, OwnerSame
  <2>5. Sole'
    BY <1>9, <2>1, <2>2, <2>3, <2>4 DEF Sole
  <2>6. Delivered'
    BY <2>2, <2>4 DEF Delivered
  <2>7. Clean'
    <3>1. \A s \in Reporter : rep'[s].buffer <= creates'
      BY <1>5, <1>7, <2>3
    <3>2. \A g \in File :
            /\ upc'[g] \in {"allocate", "arm", "async"} => g = f
            /\ upc'[g] \notin {"reset", "return"} \/ (g # f /\ upc[g] = "return")
      BY <1>4, <2>2
    <3>3. \A b \in Buffer : b > creates' => page[b] = NoPage
      BY <1>5, <1>7 DEF Buffer
    <3> QED
      BY <1>1, <1>5, <1>7, <3>1, <3>2, <3>3 DEF Calls, Clean, Buffer
  <2> QED
    BY <2>5, <2>6, <2>7 DEF Calls
<1> QED
  BY <1>8, <1>9, Zenon DEF CreateReport

\* A new buffer is clean.
LEMMA CallsAllocate ==
  ASSUME ReportTypeOK, Created, Calls, NEW f \in File, AllocateReport(f)
  PROVE  Calls'
<1>1. /\ rep \in [Reporter -> Rep] /\ upc \in [File -> Steps]
      /\ lib \in [File -> Lib] /\ comm \in Comm /\ upc[f] = "allocate"
      /\ UNCHANGED <<reporter, page, sig, overrun, creates>>
      /\ creates \in Buffer /\ creates \in Nat
  BY ChannelTypes DEF AllocateReport, Created
<1>2. Owner(f) /\ lib[f].report # "live"
  BY <1>1, NewChannel DEF Calls, Clean
<1>3. reporter # Nil /\ reporter \in Reporter /\ rep[reporter].fasync = {}
  BY <1>1, <1>2, SoleFacts, ChannelTypes DEF Calls
<1>4. Others(f)
  BY StepOthers
<1>5. ASSUME Goto(f, "idle"), UNCHANGED comm,
             lib'[f].report = lib[f].report,
             rep' = rep \/ rep' = Freed
      PROVE  Calls'
  <2>1. upc'[f] = "idle"
    BY <1>1, <1>5 DEF Goto
  <2>2. ~Owner(f)'
    BY <1>2, <1>5, <2>1 DEF Owner
  <2>3. \A r \in Reporter : /\ rep'[r].buffer \in {rep[r].buffer, 0}
                            /\ rep[r].fasync = {} => rep'[r].fasync = {}
    BY <1>1, <1>3, <1>5, FreedFacts
  <2> QED
    BY <1>1, <1>2, <1>4, <1>5, <2>1, <2>2, <2>3, CallsStranger
<1>6. CASE Goto(f, "idle") /\ UNCHANGED <<rep, comm, lib>>
  BY <1>5, <1>6
<1>7. CASE /\ Goto(f, "idle")
           /\ rep' = Freed
           /\ SetLib(f, [lib[f] EXCEPT !.buf = creates, !.maps = @ \cup {creates}])
           /\ UNCHANGED comm
  <2>1. lib'[f].report = lib[f].report
    BY <1>1, <1>7 DEF SetLib, Lib
  <2> QED
    BY <1>5, <1>7, <2>1
<1>8. CASE /\ Goto(f, "arm")
           /\ rep' = [rep EXCEPT ![reporter].buffer = creates]
           /\ comm' = [comm EXCEPT !.addr = creates, !.working = TRUE]
           /\ SetLib(f, [lib[f] EXCEPT !.buf = creates, !.maps = @ \cup {creates}])
  <2>1. /\ upc'[f] = "arm" /\ lib'[f].buf = creates /\ creates \in lib'[f].maps
        /\ lib'[f].report # "live" /\ comm'.addr = creates
    BY <1>1, <1>2, <1>8 DEF Goto, SetLib, Lib, Comm
  <2>2. /\ rep'[reporter].buffer = creates /\ rep'[reporter].fasync = {}
        /\ \A r \in Reporter : r # reporter => rep'[r] = rep[r]
    BY <1>1, <1>3, <1>8 DEF Rep
  <2>3. creates <= creates /\ \A r \in Reporter : rep'[r].buffer <= creates
    BY <1>1, <2>2 DEF Calls, Clean
  <2>4. Owner(f)'
    BY <2>1 DEF Owner
  <2>5. page[creates].id = 0
    BY <1>1 DEF Calls, Clean, NoPage
  <2> QED
    BY <1>1, <1>2, <1>3, <1>4, <2>1, <2>2, <2>3, <2>4, <2>5, CallsOwner
<1>9. CASE UNCHANGED <<upc, rep, comm, lib>>
  BY <1>1, <1>9, CallsKept
<1> QED
  BY <1>6, <1>7, <1>8, <1>9 DEF AllocateReport

\* Publishing the reporter writes to no buffer.
LEMMA CallsArm ==
  ASSUME ReportTypeOK, Calls, NEW f \in File, ArmReport(f)
  PROVE  Calls'
<1>1. /\ rep \in [Reporter -> Rep] /\ upc \in [File -> Steps]
      /\ lib \in [File -> Lib] /\ comm \in Comm /\ upc[f] = "arm"
      /\ UNCHANGED <<reporter, sig, overrun, creates>>
      /\ comm' = [comm EXCEPT !.id = 0, !.flag = FALSE]
  BY ChannelTypes DEF ArmReport
<1>2. Owner(f) /\ lib[f].report # "live"
  BY <1>1, NewChannel DEF Calls, Clean
<1>3. /\ reporter # Nil /\ reporter \in Reporter /\ rep[reporter].fasync = {}
      /\ lib[f].buf \in lib[f].maps
      /\ rep[reporter].buffer = lib[f].buf /\ comm.addr = lib[f].buf
  BY <1>1, <1>2, SoleFacts, ChannelTypes DEF Calls
<1>4. Others(f) /\ comm'.addr = comm.addr /\ comm'.id = 0
  BY <1>1, StepOthers DEF Comm
<1>5. CASE /\ Goto(f, "async") /\ UNCHANGED <<lib, page>>
           /\ rep' = [rep EXCEPT ![reporter].armed = TRUE]
  <2>1. upc'[f] = "async"
    BY <1>1, <1>5 DEF Goto
  <2>2. \A r \in Reporter : rep'[r].buffer = rep[r].buffer /\ rep'[r].fasync = rep[r].fasync
    BY <1>1, <1>3, <1>5 DEF Rep
  <2>3. Owner(f)'
    BY <2>1 DEF Owner
  <2>4. sig # {} /\ ~overrun => page[lib[f].buf].id \in {0, page[lib[f].buf].pay % IdWord}
    BY <1>1, <1>2 DEF Calls, Delivered
  <2>5. comm'.addr <= creates /\ \A r \in Reporter : rep'[r].buffer <= creates
    BY <1>4, <2>2 DEF Calls, Clean
  <2> QED
    BY <1>1, <1>2, <1>3, <1>4, <1>5, <2>1, <2>2, <2>3, <2>4, <2>5, CallsOwner
<1>6. CASE /\ Goto(f, "idle")
           /\ rep' = Freed
           /\ SetLib(f, [lib[f] EXCEPT !.maps = @ \ {lib[f].buf}])
           /\ Forget
  <2>1. upc'[f] = "idle" /\ lib'[f].report # "live"
    BY <1>1, <1>2, <1>6 DEF Goto, SetLib, Lib
  <2>2. \A r \in Reporter : rep'[r].buffer <= creates
    <3>1. \A r \in Reporter : rep'[r].buffer \in {rep[r].buffer, 0}
      BY <1>1, <1>3, <1>6, FreedFacts
    <3>2. creates \in Nat
      BY ChannelTypes
    <3> QED
      BY <3>1, <3>2 DEF Calls, Clean
  <2>3. \A g \in File : Owner(g)' => g # f /\ Owner(g)
    BY <1>4, <2>1, OthersOwn DEF Owner
  <2>4. \A g \in File : ~Owner(g)'
    BY <1>2, <2>3, SoleFacts DEF Calls
  <2>5. Sole' /\ Delivered'
    BY <2>4 DEF Sole, Delivered
  <2>6. Clean'
    <3>1. \A b \in Buffer : page'[b] \in {page[b], NoPage}
      BY <1>6, ForgetFacts, ChannelTypes
    <3>2. \A g \in File : upc'[g] # "allocate"
      BY <2>4 DEF Owner
    <3> QED
      BY <1>1, <1>4, <2>1, <2>2, <3>1, <3>2 DEF Calls, Clean, Others
  <2> QED
    BY <2>5, <2>6 DEF Calls
<1>7. CASE UNCHANGED <<upc, rep, lib, page>>
  BY <1>1, <1>4, <1>7, CallsKept
<1> QED
  BY <1>5, <1>6, <1>7 DEF ArmReport

\* Who listens to a reporter is changed as a whole or not at all.
LEMMA FasyncListens ==
  ASSUME ReportTypeOK, NEW files, Fasync(files)
  PROVE  \A r \in Reporter : rep'[r].fasync \in {rep[r].fasync, files}
<1>1. rep \in [Reporter -> Rep] /\ reporter \in Reporter \cup {Nil}
  BY ChannelTypes
<1> QED
  BY <1>1 DEF Fasync, Rep, Sound

\* Asking for signals writes to no buffer.
LEMMA CallsAsk ==
  ASSUME ReportTypeOK, Calls, NEW f \in File, AskSignals(f)
  PROVE  Calls'
<1>1. /\ upc \in [File -> Steps] /\ lib \in [File -> Lib] /\ upc[f] = "async"
      /\ UNCHANGED <<reporter, comm, page, sig, overrun, creates>>
  BY ChannelTypes DEF AskSignals
<1>2. Owner(f)
  BY <1>1, NewChannel
<1>3. /\ reporter # Nil /\ reporter \in Reporter
      /\ lib[f].buf \in lib[f].maps
      /\ rep[reporter].buffer = lib[f].buf /\ comm.addr = lib[f].buf
  BY <1>1, <1>2, SoleFacts, ChannelTypes DEF Calls
<1>4. \A r \in Reporter : rep'[r].buffer = rep[r].buffer
  BY FasyncKeeps DEF AskSignals
<1>5. /\ upc'[f] = "idle" /\ lib'[f].report = "live"
      /\ lib'[f].buf = lib[f].buf /\ lib'[f].maps = lib[f].maps
  BY <1>1 DEF AskSignals, Goto, SetLib, Lib
<1>6. Owner(f)' /\ Others(f)
  BY <1>5, StepOthers DEF Owner
<1>7. /\ comm.id # 0 => page[lib[f].buf].pay = comm.id
      /\ sig # {} /\ ~overrun => page[lib[f].buf].id \in {0, page[lib[f].buf].pay % IdWord}
  BY <1>1, <1>2 DEF Calls, Delivered
<1>8. comm'.addr <= creates /\ \A r \in Reporter : rep'[r].buffer <= creates
  BY <1>1, <1>4 DEF Calls, Clean
<1>9. rep'[reporter'].buffer = lib'[f].buf /\ comm'.addr = lib'[f].buf
  BY <1>1, <1>3, <1>4, <1>5
<1> QED
  BY <1>1, <1>2, <1>3, <1>5, <1>6, <1>7, <1>8, <1>9, CallsOwner

\* The release stops the tasklet and writes to no buffer.
LEMMA CallsRelease ==
  ASSUME ReportTypeOK, Calls, NEW f \in File, ReleaseReport(f)
  PROVE  Calls'
<1>1. /\ upc \in [File -> Steps] /\ comm \in Comm
      /\ UNCHANGED <<reporter, rep, lib, page, sig, overrun, creates>>
      /\ upc[f] = "idle" /\ lib[f].report = "live"
  BY ChannelTypes DEF ReleaseReport, Idle, program
<1>2. CASE UNCHANGED <<comm, upc>>
  BY <1>1, <1>2, CallsKept
<1>3. CASE comm' = [comm EXCEPT !.working = FALSE] /\ Goto(f, "free")
  <2>1. Owner(f)
    BY <1>1 DEF Owner
  <2>2. upc'[f] = "free" /\ comm'.addr = comm.addr /\ comm'.id = comm.id
    BY <1>1, <1>3 DEF Goto, Comm
  <2>3. Owner(f)' /\ Others(f)
    BY <2>2, StepOthers DEF Owner
  <2>4. /\ reporter # Nil /\ lib[f].buf \in lib[f].maps
        /\ rep[reporter].buffer = lib[f].buf /\ comm.addr = lib[f].buf
    BY <1>1, <2>1, SoleFacts DEF Calls
  <2>5. /\ comm.id # 0 => page[lib[f].buf].pay = comm.id
        /\ sig # {} /\ ~overrun => page[lib[f].buf].id \in {0, page[lib[f].buf].pay % IdWord}
    BY <1>1, <2>1 DEF Calls, Delivered
  <2>6. comm'.addr <= creates /\ \A r \in Reporter : rep'[r].buffer <= creates
    BY <1>1, <2>2 DEF Calls, Clean
  <2> QED
    BY <1>1, <2>1, <2>2, <2>3, <2>4, <2>5, <2>6, CallsOwner
<1> QED
  BY <1>2, <1>3 DEF ReleaseReport

\* Freeing the reporter writes to no buffer.
LEMMA CallsFree ==
  ASSUME ReportTypeOK, Calls, NEW f \in File, FreeReporter(f)
  PROVE  Calls'
<1>1. /\ upc \in [File -> Steps] /\ rep \in [Reporter -> Rep] /\ lib \in [File -> Lib]
      /\ UNCHANGED <<reporter, comm, sig, overrun, creates>> /\ Forget
      /\ upc[f] = "free" /\ Goto(f, "reset")
      /\ SetLib(f, [lib[f] EXCEPT !.maps = @ \ {lib[f].buf}])
  BY ChannelTypes DEF FreeReporter
<1>2. Owner(f)
  BY <1>1, NewChannel
<1>3. reporter # Nil /\ reporter \in Reporter
  BY <1>2, SoleFacts, ChannelTypes DEF Calls
<1>4. upc'[f] = "reset" /\ lib'[f].buf \notin lib'[f].maps
  BY <1>1 DEF Goto, SetLib, Lib
<1>5. Owner(f)' /\ Others(f)
  BY <1>4, StepOthers DEF Owner
<1>6. rep' = rep \/ rep' = Freed
  BY DEF FreeReporter
<1>7. (\A r \in Reporter : rep'[r].buffer \in {rep[r].buffer, 0}) /\ creates \in Nat
  BY <1>1, <1>3, <1>6, FreedFacts, ChannelTypes
<1>8. comm'.addr <= creates /\ \A r \in Reporter : rep'[r].buffer <= creates
  BY <1>1, <1>7 DEF Calls, Clean
<1> QED
  BY <1>1, <1>2, <1>3, <1>4, <1>5, <1>8, CallsOwner

\* The end of a release, and of a process, write to no buffer.
LEMMA CallsLeave ==
  ASSUME ReportTypeOK, Created, Calls, NEW f \in File,
         ResetReporter(f) \/ ReleaseReturn(f) \/ Exit(f)
  PROVE  Calls'
<1>1. /\ upc \in [File -> Steps] /\ lib \in [File -> Lib]
      /\ UNCHANGED <<rep, comm, overrun, creates>> /\ sig' \subseteq sig
      /\ page' = page \/ Forget
  BY ChannelTypes DEF ResetReporter, ReleaseReturn, Exit, kernel, program
<1>2. /\ ~Owner(f)'
      /\ reporter' = reporter \/ Owner(f)
      /\ upc'[f] = "return" => lib'[f].buf \notin lib'[f].maps
  <2>1. CASE ResetReporter(f)
    <3>1. upc[f] = "reset" /\ upc'[f] = "return" /\ lib' = lib
      BY <1>1, <2>1 DEF ResetReporter, Goto, program
    <3> QED
      BY <3>1, NewChannel DEF Owner, Calls, Clean
  <2>2. CASE ReleaseReturn(f)
    <3>1. upc'[f] = "idle" /\ lib'[f].report # "live" /\ reporter' = reporter
      BY <1>1, <2>2 DEF ReleaseReturn, Goto, SetLib, NoLib, kernel
    <3> QED
      BY <3>1 DEF Owner
  <2>3. CASE Exit(f)
    <3>1. upc'[f] = "exited" /\ lib'[f].report # "live" /\ reporter' = reporter
      BY <1>1, <2>3 DEF Exit, Goto, SetLib, NoLib
    <3> QED
      BY <3>1 DEF Owner
  <2> QED
    BY <2>1, <2>2, <2>3
<1>3. Others(f)
  BY StepOthers
<1> QED
  BY <1>1, <1>2, <1>3, CallsStranger

\* A close writes to no buffer.
LEMMA CallsClose ==
  ASSUME ReportTypeOK, Created, Calls, NEW f \in File, Close(f)
  PROVE  Calls'
<1>1. /\ upc \in [File -> Steps]
      /\ UNCHANGED <<reporter, comm, lib, page, sig, overrun, creates>>
      /\ upc[f] \in {"idle", "exited"} /\ lib[f].report # "live"
      /\ Goto(f, "idle") /\ Fasync(Listening \ {f})
  BY ChannelTypes DEF Close
<1>2. ~Owner(f)' /\ upc'[f] = "idle"
  BY <1>1 DEF Owner, Goto
<1>3. \A r \in Reporter : rep'[r].buffer = rep[r].buffer
  BY <1>1, FasyncKeeps
<1>4. \A r \in Reporter : rep[r].fasync = {} => rep'[r].fasync = {}
  <2>1. rep \in [Reporter -> Rep] /\ reporter \in Reporter \cup {Nil}
    BY ChannelTypes
  <2> QED
    BY <1>1, <2>1 DEF Fasync, Listening, Sound, Rep
<1>5. Others(f)
  BY StepOthers
<1> QED
  BY <1>1, <1>2, <1>3, <1>4, <1>5, CallsStranger

\* The interrupt handler writes to no buffer.
LEMMA CallsInterrupt ==
  ASSUME ReportTypeOK, Calls,
         DspReply \/ IrqEnter \/ IrqReport \/ IrqSchedule \/ IrqCmd \/ IrqAck \/ TakeReply
  PROVE  Calls'
<1>1. comm \in Comm /\ rep \in [Reporter -> Rep] /\ reporter \in Reporter \cup {Nil}
  BY ChannelTypes
<1>2. UNCHANGED <<reporter, page, creates, upc, lib, sig, overrun>>
  BY DEF DspReply, IrqEnter, IrqReport, IrqSchedule, IrqCmd, IrqAck, TakeReply, kernel, program
<1>3. /\ rep' = rep \/ (Sound(reporter) /\ rep' = [rep EXCEPT ![reporter].sched = TRUE])
      /\ \/ comm' = comm
         \/ \E b \in BOOLEAN : \/ comm' = [comm EXCEPT !.cmd = b]
                               \/ comm' = [comm EXCEPT !.flag = b]
  BY DEF DspReply, IrqEnter, IrqReport, IrqSchedule, IrqCmd, IrqAck, TakeReply, kernel
<1>4. comm'.addr = comm.addr /\ comm'.id = comm.id
  BY <1>1, <1>3 DEF Comm
<1>5. \A r \in Reporter : rep'[r].buffer = rep[r].buffer /\ rep'[r].fasync = rep[r].fasync
  BY <1>1, <1>3 DEF Rep, Sound
<1> QED
  BY <1>2, <1>4, <1>5, CallsKept

\* The buffers are as they were if the channel is, and after a reboot.
LEMMA CallsSame ==
  ASSUME ReportTypeOK, Calls, UNCHANGED reportVars \/ RebootDsp
  PROVE  Calls'
<1>1. UNCHANGED <<reporter, page, creates, upc, lib, rep, comm, sig, overrun>>
  BY DEF reportVars, RebootDsp, kernel
<1> QED
  BY <1>1, CallsKept

\* The signal handler gives a callback what the buffer says.
LEMMA CallsItems ==
  ASSUME ReportTypeOK, Calls, NEW f \in File, NEW i,
         \/ RegisterCb(f, i) \/ UnregisterCb(f, i) \/ DestroyTask(f, i)
         \/ UnlinkItem(f) \/ SigHandler(f)
  PROVE  Calls'
<1>1. UNCHANGED <<reporter, rep, comm, page, creates>>
  BY DEF RegisterCb, UnregisterCb, DestroyTask, UnlinkItem, SigHandler, kernel
<1>2. \A g \in File :
        /\ upc'[g] = upc[g] \/ {upc[g], upc'[g]} \subseteq {"idle", "unlink"}
        /\ lib'[g].report = lib[g].report
        /\ lib'[g].buf = lib[g].buf /\ lib'[g].maps = lib[g].maps
  BY ItemsStep
<1>3. sig' # {} /\ ~overrun' => sig # {} /\ ~overrun
  BY DEF RegisterCb, UnregisterCb, DestroyTask, UnlinkItem, SigHandler
<1> QED
  BY <1>1, <1>2, <1>3, CallsKept

\* What callbacks are given under every step with one channel.
LEMMA CallsNext ==
  ASSUME DriverInv, Calls, "second" \notin cause', Next
  PROVE  Calls'
<1>1. ReportTypeOK /\ Created /\ DeviceTypeOK
  BY DEF DriverInv, PowerInv
<1>2. ASSUME NEW f \in File, CreateReport(f)
      PROVE  Calls'
  <2>1. creates < MaxCreate
    <3>1. scope \in Scopes /\ creates < scope.creates
      BY <1>1, <1>2 DEF CreateReport, DeviceTypeOK
    <3>2. scope.creates \in Nat /\ scope.creates <= MaxCreate /\ MaxCreate \in Nat
      BY <3>1, ReportAssumption, ScopeAssumption
    <3>3. creates \in Nat
      BY <1>1, ChannelTypes
    <3> QED
      BY <3>1, <3>2, <3>3
  <2> QED
    BY <1>1, <1>2, <2>1, CallsCreate
<1>3. ASSUME NEW f \in File,
             \/ AllocateReport(f) \/ ArmReport(f) \/ AskSignals(f)
             \/ ReleaseReport(f) \/ FreeReporter(f) \/ ResetReporter(f)
             \/ ReleaseReturn(f) \/ Exit(f) \/ Close(f)
      PROVE  Calls'
  BY <1>1, <1>3, CallsAllocate, CallsArm, CallsAsk, CallsRelease, CallsFree,
     CallsLeave, CallsClose, Zenon
<1>4. CASE DspReply \/ IrqEnter \/ IrqReport \/ IrqSchedule \/ IrqCmd \/ IrqAck \/ TakeReply
  BY <1>1, <1>4, CallsInterrupt
<1>5. ASSUME NEW i \in ReportId, DspReport(i)
      PROVE  Calls'
  BY <1>1, <1>5, CallsDsp
<1>6. ASSUME NEW r \in Reporter, Tasklet(r)
      PROVE  Calls'
  BY <1>1, <1>6, CallsTasklet
<1>7. ASSUME NEW f \in File, NEW i \in ReportId,
             RegisterCb(f, i) \/ UnregisterCb(f, i) \/ DestroyTask(f, i)
      PROVE  Calls'
  BY <1>1, <1>7, CallsItems, Zenon
<1>8. ASSUME NEW f \in File, UnlinkItem(f) \/ SigHandler(f)
      PROVE  Calls'
  BY <1>1, <1>8, CallsItems, Zenon
<1>9. CASE UNCHANGED reportVars \/ RebootDsp
  BY <1>1, <1>9, CallsSame
<1> QED
  BY <1>2, <1>3, <1>4, <1>5, <1>6, <1>7, <1>8, <1>9, Zenon DEF Next

\* The invariant of the callbacks as one implication.
LEMMA CallbackParts == CallbackInv <=> ("second" \notin cause => Calls)
  BY DEF CallbackInv, Calls

\* The invariant of the callbacks at the beginning.
LEMMA CallbackStart ==
  ASSUME Init
  PROVE  CallbackInv
<1>1. /\ reporter = Nil /\ comm.addr = 0 /\ creates = 0
      /\ \A r \in Reporter : rep[r].buffer = 0
      /\ \A b \in Buffer : page[b] = NoPage
      /\ \A f \in File : upc[f] = "idle" /\ lib[f].report = "none"
  BY DEF Init, ReportInit, NoRep, NoLib
<1>2. \A f \in File : ~Owner(f)
  BY <1>1 DEF Owner
<1>3. Sole /\ Delivered
  BY <1>2 DEF Sole, Delivered
<1>4. Clean
  BY <1>1 DEF Clean
<1> QED
  BY <1>3, <1>4 DEF CallbackInv

\* The invariant of the callbacks when nothing changes.
LEMMA CallbackStays ==
  ASSUME DriverInv, CallbackInv, UNCHANGED vars
  PROVE  CallbackInv'
<1>1. UNCHANGED reportVars /\ cause' = cause /\ ReportTypeOK
  BY DEF vars, reportVars, DriverInv
<1>2. Calls => Calls'
  BY <1>1, CallsSame
<1> QED
  BY <1>1, <1>2 DEF CallbackInv, Calls

\* The invariant of the callbacks under every step of the driver.
LEMMA CallbackStep ==
  ASSUME DriverInv, CallbackInv, Next
  PROVE  CallbackInv'
<1> SUFFICES ASSUME "second" \notin cause'
             PROVE  Calls'
  BY DEF CallbackInv, Calls
<1>1. Calls
  BY CauseGrows, CallbackParts
<1> QED
  BY <1>1, CallsNext

\* Unless a second channel is created, what the buffer of the one there is says
\* is what was sent last, from the creation to the release.
THEOREM CallbackSafe == Spec => []CallbackInv
<1>1. DriverInv /\ CallbackInv /\ [Next]_vars => CallbackInv'
  BY CallbackStep, CallbackStays
<1> QED
  BY <1>1, CallbackStart, DriverSafe, PTL DEF Spec

\* A callback is given its own report.
LEMMA CallbackSound ==
  ASSUME ReportTypeOK, CallbackInv
  PROVE  CallbackOwn
<1> SUFFICES ASSUME "second" \notin cause, NEW f \in sig,
                    lib[f].report = "live", lib[f].buf \in lib[f].maps,
                    NEW i \in Told(f), ~overrun
             PROVE  i = page[lib[f].buf].pay % IdWord
  BY DEF CallbackOwn
<1>1. Calls /\ f \in File /\ lib \in [File -> Lib]
  BY CallbackParts, ChannelTypes
<1>2. upc[f] \notin {"allocate", "reset", "return"}
  BY <1>1 DEF Calls, Clean
<1>3. Owner(f)
  BY <1>2 DEF Owner
<1>4. page[lib[f].buf].id \in {0, page[lib[f].buf].pay % IdWord}
  BY <1>1, <1>2, <1>3 DEF Calls, Delivered
<1>5. i = page[lib[f].buf].id /\ i \in ReportId
  BY <1>1 DEF Told, Lib
<1>6. i # 0
  BY <1>5, ReportAssumption
<1> QED
  BY <1>4, <1>5, <1>6

\* A callback is given a report that was sent under its number, cut to its
\* range, unless the DSP wrote the next report while a signal was pending, or a
\* second channel was created.
THEOREM CallbacksOwn == Spec => []CallbackOwn
<1>1. DriverInv /\ CallbackInv => CallbackOwn
  BY CallbackSound DEF DriverInv
<1> QED
  BY <1>1, DriverSafe, CallbackSafe, PTL
=============================================================================
