------------------------------ MODULE XrpReport ------------------------------
(***************************************************************************)
(* Interrupts and reports: the interrupt handler, the report tasklet and   *)
(* the two ioctls of the report channel (driver/xrp-kernel/xvp_main.c,     *)
(* xrp_hw_simple.c), and in a program the report library with its SIGIO    *)
(* handler (driver/xrp-user/xrp-host/xrp_report.c, hosted/xrp_linux.c,     *)
(* xrp_host_common.c and the callbacks of dsp-ps/csi_dsp_core.c).          *)
(*                                                                         *)
(* A file stands for the process that opened it; a process has one thread, *)
(* which the SIGIO handler interrupts wherever it is in user mode.  The    *)
(* payload of a report is the number it was sent under.  The DSP sends a   *)
(* report when the channel is empty and working, for a number a program    *)
(* has set up (the firmware is not part of the repository).  The interrupt *)
(* is level-triggered, the only kind the driver acknowledges.  That        *)
(* vm_mmap fails is looked at in XrpFile.                                  *)
(*                                                                         *)
(* A number is the identifier of a task, which the DSP chooses and gives   *)
(* to one task at a time, whatever process has created it; so no two       *)
(* processes claim the same number.  The error exits of the release after  *)
(* the channel was stopped, an argument that cannot be read and an address *)
(* that is not in a mapping of the file (xvp_main.c 949 and 976), are left *)
(* out: the library passes the address the allocation returned, from its   *)
(* own memory, and unmaps it nowhere else, so neither is taken.            *)
(***************************************************************************)
EXTENDS XrpDevice

CONSTANTS
  Reporter,    \* what kmalloc may return for xvp->reporter
  ReportId,    \* numbers of reports
  IdWord,      \* a number is cut to this range on its way (2^16)
  MaxCreate    \* at least the channels any scope creates

\* Numbers start at one; a scope uses numbers and channels there are.
ASSUME ReportAssumption ==
  /\ Nil \notin Reporter /\ MaxCreate \in Nat
  /\ ReportId \subseteq Nat \ {0} /\ IdWord \in Nat \ {0}
  /\ \A s \in Scopes : s.ids \subseteq ReportId /\ s.creates <= MaxCreate

VARIABLES
  reporter,    \* xvp->reporter
  rep,         \* the memory a reporter points to
  comm,        \* the words of the report channel and cmd_flag
  page,        \* the report buffers: the number written by the tasklet and
               \* the payload written by the DSP
  reply,       \* a command's response is there and its client not woken
  line,        \* the interrupt line
  handler,     \* how far the interrupt handler has come
  setup,       \* numbers the DSP may report under
  upc,         \* where a process is
  lib,         \* its report library
  sig,         \* processes with a pending SIGIO
  creates,     \* history: channels created
  late,        \* history: raised after the handler had looked for it
  overrun,     \* history: the DSP wrote while a report was not yet read
  cause        \* history: what has gone wrong with the channel

reportVars == <<reporter, rep, comm, page, reply, line, handler, setup, upc,
                lib, sig, creates, late, overrun, cause>>

\* Groups of variables that many actions leave alone.
interrupt == <<reply, line, handler, late>>
kernel    == <<reporter, rep, comm, creates, cause>>
program   == <<setup, lib, sig, overrun>>
deviceBut == <<scope, stage, rpm, power, opened>>

Buffer == 1 .. MaxCreate

NoRep == [live |-> FALSE, armed |-> FALSE, sched |-> FALSE, fasync |-> {},
          buffer |-> 0]
NoPage == [id |-> 0, pay |-> 0]
NoLib == [report |-> "none", buf |-> 0, maps |-> {}, items |-> {}, torn |-> {},
          claimed |-> {}]

ReportInit ==
  /\ reporter = Nil /\ rep = [r \in Reporter |-> NoRep]
  /\ comm = [working |-> FALSE, addr |-> 0, id |-> 0, flag |-> FALSE,
             cmd |-> FALSE]
  /\ page = [b \in Buffer |-> NoPage]
  /\ reply = FALSE /\ line = FALSE /\ handler = "idle"
  /\ setup = {} /\ upc = [f \in File |-> "idle"]
  /\ lib = [f \in File |-> NoLib]
  /\ sig = {} /\ creates = 0
  /\ late = {} /\ overrun = FALSE /\ cause = {}

\* A buffer is memory of the pool as long as somebody maps it.
Mapped(b) == \E f \in File : b \in lib[f].maps

\* xvp->reporter points to memory that is a reporter.
Sound(r) == r # Nil /\ rep[r].live

Fault(what) == wild' = wild \cup {what}

SetLib(f, l) == lib' = [lib EXCEPT ![f] = l]

\* What is in a buffer that nobody maps any more is not looked at.
Forget ==
  page' = [b \in Buffer |->
             IF \E g \in File : b \in lib'[g].maps THEN page[b] ELSE NoPage]

\* kfree(xvp->reporter): what is left is whether the tasklet is scheduled.
Freed == [rep EXCEPT ![reporter] = [NoRep EXCEPT !.sched = rep[reporter].sched]]

Goto(f, to)  == upc' = [upc EXCEPT ![f] = to]

UserMode == {"idle", "async", "unlink", "return"}

-----------------------------------------------------------------------------
(* The DSP.                                                                *)

Raise(what, looked) ==
  /\ line' = TRUE
  /\ late' = IF handler \in looked THEN late \cup {what} ELSE late

\* It sends a report: the payload, the number with the flag, an interrupt.
DspReport(i) ==
  /\ wild = {} /\ released /\ i \in setup
  /\ comm.working /\ comm.id = 0 /\ ~comm.flag
  /\ IF Mapped(comm.addr)
     THEN page' = [page EXCEPT ![comm.addr].pay = i] /\ UNCHANGED wild
     ELSE Fault("dsp_write") /\ UNCHANGED page
  /\ comm' = [comm EXCEPT !.id = i, !.flag = TRUE]
  /\ overrun' = (overrun \/ sig # {})
  /\ Raise("report", {"schedule", "cmd", "ack"})
  /\ UNCHANGED <<reporter, rep, reply, handler, setup, upc, lib, sig,
                 creates, cause, deviceBut>>

\* It answers a command of an open file.
DspReply ==
  /\ wild = {} /\ scope.commands /\ released /\ opened # {} /\ ~comm.cmd /\ ~reply
  /\ reply' = TRUE
  /\ comm' = [comm EXCEPT !.cmd = TRUE]
  /\ Raise("cmd", {"ack"})
  /\ UNCHANGED <<reporter, rep, page, handler, upc, program, creates, cause,
                 deviceVars>>

-----------------------------------------------------------------------------
(* The interrupt handler.                                                  *)

\* irq_handler is entered; until the probe has ended it knows no device.
IrqEnter ==
  /\ wild = {} /\ line /\ handler = "idle" /\ HasNode
  /\ IF stage = "ready" THEN handler' = "report" /\ UNCHANGED wild
     ELSE UNCHANGED handler /\ Fault("early_irq")
  /\ UNCHANGED <<kernel, page, reply, line, late, program, upc, deviceBut>>

\* A process is between the creation of the reporter and the initialisation of
\* its tasklet, or between the last wait for the tasklet and the reset.
Busy == {"allocate", "arm", "free", "reset"}

\* What the handler does for a report goes wrong when a process is there.
Collided == IF \E f \in File : upc[f] \in Busy THEN cause \cup {"late"} ELSE cause

\* Variant: a report ends the handler.
AfterReportOnly == "ack"

\* Where xrp_irq_handler goes on after the report.
AfterReport == "cmd"

\* The first half of xrp_report_comlete: if there is a reporter and the flag is
\* up, the flag is taken back.
IrqReport ==
  /\ wild = {} /\ handler = "report"
  /\ IF reporter # Nil /\ comm.flag
     THEN /\ handler' = "schedule"
          /\ comm' = [comm EXCEPT !.flag = FALSE]
          /\ late' = late \ {"report"}
          /\ cause' = Collided
     ELSE handler' = "cmd" /\ UNCHANGED <<comm, late, cause>>
  /\ UNCHANGED <<reporter, rep, page, reply, line, program, upc, creates,
                 deviceVars>>

\* The second half reads the pointer again and schedules the tasklet of what it
\* points to now.
IrqSchedule ==
  /\ wild = {} /\ handler = "schedule"
  /\ handler' = AfterReport
  /\ cause' = Collided
  /\ IF Sound(reporter) /\ rep[reporter].armed
     THEN rep' = [rep EXCEPT ![reporter].sched = TRUE] /\ UNCHANGED wild
     ELSE Fault("tasklet") /\ UNCHANGED rep
  /\ UNCHANGED <<reporter, comm, page, reply, line, late, program, upc, creates,
                 deviceBut>>

\* xrp_device_cmd_comlete and the scan of the queues.  Without a command the
\* interrupt counts as handled; with one it does if a client was woken.
IrqCmd ==
  /\ wild = {} /\ handler = "cmd"
  /\ handler' = IF comm.cmd /\ ~reply THEN "idle" ELSE "ack"
  /\ comm' = [comm EXCEPT !.cmd = FALSE]
  /\ reply' = (reply /\ ~comm.cmd)
  /\ late' = late \ {"cmd"}
  /\ UNCHANGED <<reporter, rep, page, line, program, upc, creates, cause,
                 deviceVars>>

\* ack_irq
IrqAck ==
  /\ wild = {} /\ handler = "ack"
  /\ handler' = "idle" /\ line' = FALSE
  /\ UNCHANGED <<kernel, page, reply, late, program, upc, deviceVars>>

\* xvp_complete_cmd_irq: a client looks at its slot before it waits and when
\* its wait ends.
TakeReply ==
  /\ wild = {} /\ reply
  /\ reply' = FALSE
  /\ UNCHANGED <<kernel, page, line, handler, late, program, upc, deviceVars>>

-----------------------------------------------------------------------------
(* The tasklet.                                                            *)

\* Variant: the number is passed on as it is.
NumberWhole == comm.id

\* The number as the program will see it.
Number == comm.id % IdWord

\* xrp_report_tasklet.  When nobody listens it leaves the channel occupied.
Tasklet(r) ==
  /\ wild = {} /\ rep[r].sched
  /\ IF ~rep[r].live \/ ~Sound(reporter) \/ stage = "gone"
     THEN Fault("tasklet") /\ UNCHANGED <<rep, comm, page, sig>>
     ELSE /\ rep' = [rep EXCEPT ![r].sched = FALSE]
          /\ IF rep[reporter].fasync = {}
             THEN UNCHANGED <<comm, page, sig, wild>>
             ELSE /\ comm' = [comm EXCEPT !.id = 0, !.flag = FALSE]
                  /\ sig' = sig \cup rep[reporter].fasync
                  /\ IF Mapped(rep[reporter].buffer)
                     THEN /\ page' = [page EXCEPT ![rep[reporter].buffer].id = Number]
                          /\ UNCHANGED wild
                     ELSE Fault("buffer") /\ UNCHANGED page
  /\ UNCHANGED <<reporter, interrupt, setup, lib, overrun, upc, creates,
                 cause, deviceBut>>

-----------------------------------------------------------------------------
(* xrp_ioctl_alloc_report, under xrp_create_reporter.  The driver works on *)
(* xvp->reporter throughout, whatever that points to meanwhile.            *)

Free == {r \in Reporter : ~rep[r].live}

\* kmalloc; a channel that exists is forgotten.
CreateReport(f) ==
  /\ wild = {} /\ f \in opened /\ upc[f] = "idle"
  /\ lib[f].report # "live" /\ creates < scope.creates
  /\ creates' = creates + 1
  /\ cause' = IF reporter # Nil THEN cause \cup {"second"} ELSE cause
  /\ \/ reporter' = Nil /\ UNCHANGED <<rep, upc>>
     \/ \E r \in Free :
          /\ reporter' = r
          /\ rep' = [rep EXCEPT ![r] = [NoRep EXCEPT !.live = TRUE, !.sched = rep[r].sched]]
          /\ Goto(f, "allocate")
  /\ UNCHANGED <<comm, page, interrupt, program, deviceVars>>

\* The buffer is allocated, mapped for the program and for the kernel, and the
\* DSP is told of it; each may fail, and then the pointer stays.  A buffer is
\* named by the creation it is allocated for; of two creations at once, which
\* "second" records, both have the number of the later.
AllocateReport(f) ==
  /\ wild = {} /\ upc[f] = "allocate"
  /\ LET b == creates
         l == [lib[f] EXCEPT !.buf = b, !.maps = @ \cup {b}]
     IN \/ /\ Goto(f, "idle")                                 \* xrp_allocate
           /\ cause' = cause \cup {"failed"}
           /\ UNCHANGED <<rep, comm, lib, wild>>
        \/ /\ Sound(reporter) /\ Goto(f, "idle")              \* ioremap
           /\ cause' = cause \cup {"failed"}
           /\ rep' = Freed
           /\ SetLib(f, l)
           /\ UNCHANGED <<comm, wild>>
        \/ /\ Sound(reporter) /\ Goto(f, "arm")
           /\ rep' = [rep EXCEPT ![reporter].buffer = b]
           /\ comm' = [comm EXCEPT !.addr = b, !.working = TRUE]
           /\ SetLib(f, l)
           /\ UNCHANGED <<cause, wild>>
        \/ /\ ~Sound(reporter) /\ Fault("reporter")
           /\ UNCHANGED <<upc, rep, comm, lib, cause>>
  /\ UNCHANGED <<reporter, page, interrupt, setup, sig, overrun, creates,
                 deviceBut>>

\* The channel is emptied and the tasklet initialised; then the address goes
\* to the program, or not, and the reporter is freed again.
ArmReport(f) ==
  /\ wild = {} /\ upc[f] = "arm"
  /\ comm' = [comm EXCEPT !.id = 0, !.flag = FALSE]
  /\ \/ /\ Sound(reporter) /\ Goto(f, "async")
        /\ rep' = [rep EXCEPT ![reporter].armed = TRUE]
        /\ UNCHANGED <<lib, page, cause, wild>>
     \/ /\ Sound(reporter) /\ Goto(f, "idle")
        /\ rep' = Freed
        /\ SetLib(f, [lib[f] EXCEPT !.maps = @ \ {lib[f].buf}])
        /\ Forget
        /\ cause' = cause \cup {"failed"}
        /\ UNCHANGED wild
     \/ /\ ~Sound(reporter) /\ Fault("reporter")
        /\ UNCHANGED <<upc, rep, lib, page, cause>>
  /\ UNCHANGED <<reporter, interrupt, setup, sig, overrun, creates,
                 deviceBut>>

\* xrp_report_fasync
Fasync(files) ==
  CASE reporter = Nil -> UNCHANGED <<rep, wild>>
    [] Sound(reporter) -> rep' = [rep EXCEPT ![reporter].fasync = files] /\ UNCHANGED wild
    [] OTHER -> Fault("reporter") /\ UNCHANGED rep

Listening == IF Sound(reporter) THEN rep[reporter].fasync ELSE {}

\* The rest of xrp_impl_create_report: the list is empty, the handler is
\* installed and the file asks for signals.
AskSignals(f) ==
  /\ wild = {} /\ upc[f] = "async"
  /\ Goto(f, "idle")
  /\ SetLib(f, [lib[f] EXCEPT !.report = "live", !.items = {}])
  /\ Fasync(Listening \cup {f})
  /\ UNCHANGED <<reporter, comm, page, interrupt, setup, sig, overrun,
                 creates, cause, deviceBut>>

-----------------------------------------------------------------------------
(* Callbacks: csi_dsp_task_register_cb and its counterparts.               *)

Idle(f) == wild = {} /\ upc[f] = "idle" /\ lib[f].report = "live"

\* The number is noted first.  Then the item is listed, or not (no memory, too
\* large, listed already), and the DSP told, or not.
RegisterCb(f, i) ==
  /\ Idle(f) /\ i \in scope.ids /\ \A g \in File : i \notin lib[g].claimed
  /\ \E listed \in BOOLEAN, known \in BOOLEAN :
       /\ known => listed /\ released
       /\ SetLib(f, [lib[f] EXCEPT !.claimed = @ \cup {i},
                       !.items = IF listed THEN @ \cup {i} ELSE @])
       /\ setup' = IF known THEN setup \cup {i} ELSE setup
  /\ UNCHANGED <<kernel, page, interrupt, sig, overrun, upc, deviceVars>>

\* xrp_remove_report_item frees the buffer of an item it has not looked at,
\* and then takes the item off the list.
FreeItem(f, i) ==
  IF i \in lib[f].items
  THEN SetLib(f, [lib[f] EXCEPT !.torn = {i}]) /\ Goto(f, "unlink") /\ UNCHANGED wild
  ELSE Fault("absent") /\ UNCHANGED <<lib, upc>>

\* csi_dsp_ps_task_unregister_cb, when the DSP has agreed.
UnregisterCb(f, i) ==
  /\ Idle(f) /\ i \in lib[f].claimed /\ released
  /\ setup' = setup \ {i}
  /\ FreeItem(f, i)
  /\ UNCHANGED <<kernel, page, interrupt, sig, overrun, deviceBut>>

\* csi_dsp_destroy_task asks the DSP afterwards.
DestroyTask(f, i) ==
  /\ Idle(f) /\ i \in lib[f].claimed
  /\ FreeItem(f, i)
  /\ UNCHANGED <<kernel, page, interrupt, setup, sig, overrun, deviceBut>>

UnlinkItem(f) ==
  /\ wild = {} /\ upc[f] = "unlink"
  /\ Goto(f, "idle")
  /\ setup' \in {setup \ lib[f].torn, setup}
  /\ SetLib(f, [lib[f] EXCEPT !.items = @ \ lib[f].torn, !.torn = {},
                              !.claimed = @ \ lib[f].torn])
  /\ UNCHANGED <<kernel, page, interrupt, sig, overrun, deviceVars>>

\* Variant: the first item of the list is taken, whatever its number.
ToldFirst(f) == lib[f].items

\* xrp_process_report finds the item of the number in the buffer.
Told(f) == lib[f].items \cap {page[lib[f].buf].id}

\* xrp_reporter_sig_handler looks at the report it was given last, and copies
\* the payload for the callback.
SigHandler(f) ==
  /\ wild = {} /\ f \in sig /\ upc[f] \in UserMode
  /\ sig' = sig \ {f}
  /\ overrun' = (overrun /\ sig' # {})
  /\ CASE lib[f].report = "freed" \/ lib[f].buf \notin lib[f].maps -> Fault("handler")
       [] /\ lib[f].report # "freed" /\ lib[f].buf \in lib[f].maps
          /\ Told(f) \cap lib[f].torn # {} -> Fault("item")
       [] OTHER -> UNCHANGED wild
  /\ UNCHANGED <<kernel, page, interrupt, setup, lib, upc, deviceBut>>

-----------------------------------------------------------------------------
(* xrp_ioctl_release_report, under xrp_release_reporter; the end of a      *)
(* process, and of a file.                                                 *)

\* Variant: tasklet_disable instead, which leaves it scheduled.
TaskletDisabled == TRUE

\* tasklet_kill waits until the tasklet has run.
TaskletKilled == ~rep[reporter].sched

\* The tasklet is waited for and the DSP told to stop.
ReleaseReport(f) ==
  /\ Idle(f) /\ lib[f].claimed = {}
  /\ IF Sound(reporter) /\ rep[reporter].armed
     THEN /\ TaskletKilled
          /\ comm' = [comm EXCEPT !.working = FALSE]
          /\ Goto(f, "free")
          /\ UNCHANGED wild
     ELSE Fault("reporter") /\ UNCHANGED <<comm, upc>>
  /\ cause' = IF handler = "schedule" THEN cause \cup {"late"} ELSE cause
  /\ UNCHANGED <<reporter, rep, page, interrupt, program, creates, deviceBut>>

\* The buffer is unmapped, the signals stop, the reporter is freed.
FreeReporter(f) ==
  /\ wild = {} /\ upc[f] = "free"
  /\ Goto(f, "reset")
  /\ SetLib(f, [lib[f] EXCEPT !.maps = @ \ {lib[f].buf}])
  /\ Forget
  /\ CASE reporter = Nil -> UNCHANGED <<rep, wild>>
       [] Sound(reporter) -> rep' = Freed /\ UNCHANGED wild
       [] OTHER -> Fault("reporter") /\ UNCHANGED rep
  /\ UNCHANGED <<reporter, comm, interrupt, setup, sig, overrun,
                 creates, cause, deviceBut>>

ResetReporter(f) ==
  /\ wild = {} /\ upc[f] = "reset"
  /\ Goto(f, "return")
  /\ reporter' = Nil
  /\ UNCHANGED <<rep, comm, page, interrupt, program, creates, cause, deviceVars>>

\* Back in the program the report is freed; the handler keeps its pointer.
ReleaseReturn(f) ==
  /\ wild = {} /\ upc[f] = "return"
  /\ Goto(f, "idle")
  /\ SetLib(f, [NoLib EXCEPT !.report = "freed", !.maps = lib[f].maps])
  /\ UNCHANGED <<kernel, page, interrupt, setup, sig, overrun, deviceVars>>

\* A process is killed: its memory goes, its file is closed later.
Exit(f) ==
  /\ wild = {} /\ scope.kills /\ f \in opened /\ upc[f] \in UserMode
  /\ Goto(f, "exited")
  /\ SetLib(f, NoLib) /\ Forget /\ sig' = sig \ {f}
  /\ cause' = IF lib[f].report = "live" \/ lib[f].maps # {}
              THEN cause \cup {"exit"} ELSE cause
  /\ UNCHANGED <<reporter, rep, comm, interrupt, setup, overrun,
                 creates, deviceVars>>

\* xvp_close; the library and the mappings keep a file open.
Close(f) ==
  /\ upc[f] \in {"idle", "exited"} /\ lib[f].report # "live" /\ lib[f].maps = {}
  /\ ClosePower(f)
  /\ Fasync(Listening \ {f})
  /\ Goto(f, "idle")
  /\ setup' = IF released' THEN setup ELSE {}
  /\ cause' = IF reporter # Nil /\ \E g \in File : upc[g] = "reset"
              THEN cause \cup {"late"} ELSE cause
  /\ UNCHANGED <<reporter, comm, page, interrupt, lib, sig, overrun,
                 creates>>

\* A restarted firmware knows of no reports.
RebootDsp ==
  /\ Reboot
  /\ setup' = {}
  /\ UNCHANGED <<kernel, page, interrupt, lib, sig, overrun, upc>>

-----------------------------------------------------------------------------

Steps == {"idle", "allocate", "arm", "async", "unlink", "free", "reset",
          "return", "exited"}

ReportTypeOK ==
  /\ reporter \in Reporter \cup {Nil}
  /\ rep \in [Reporter -> [live : BOOLEAN, armed : BOOLEAN, sched : BOOLEAN,
                           fasync : SUBSET File, buffer : Buffer \cup {0}]]
  /\ comm \in [working : BOOLEAN, addr : Buffer \cup {0},
               id : ReportId \cup {0}, flag : BOOLEAN, cmd : BOOLEAN]
  /\ page \in [Buffer -> [id : 0 .. IdWord - 1, pay : ReportId \cup {0}]]
  /\ handler \in {"idle", "report", "schedule", "cmd", "ack"}
  /\ reply \in BOOLEAN /\ line \in BOOLEAN /\ overrun \in BOOLEAN
  /\ setup \subseteq ReportId /\ sig \subseteq File
  /\ upc \in [File -> Steps]
  /\ lib \in [File -> [report : {"none", "live", "freed"},
                       buf : Buffer \cup {0}, maps : SUBSET Buffer,
                       items : SUBSET ReportId, torn : SUBSET ReportId,
                       claimed : SUBSET ReportId]]
  /\ creates \in 0 .. MaxCreate
  /\ late \subseteq {"report", "cmd"}
  /\ cause \subseteq {"second", "failed", "late", "exit"}

\* An interrupt that is no longer signalled leaves nothing unseen: when the
\* handler has left and the line is low, no answer to a command and no report
\* waits - except one raised after the handler had looked for it and before it
\* acknowledged the interrupt.
InterruptNoticed ==
  handler = "idle" /\ ~line /\ wild = {} =>
    /\ comm.cmd => "cmd" \in late
    /\ comm.flag /\ Sound(reporter) /\ rep[reporter].armed => "report" \in late

\* As long as one process at a time has a channel, no creation fails, no process
\* dies with its channel, no interrupt for a report falls into a creation or a
\* release and no close of another file into a release, the kernel and the DSP
\* touch no reporter and no report buffer that is gone: a channel that works
\* has a reporter and a buffer, and only its tasklet is scheduled.
ReporterSound ==
  cause = {} =>
    /\ wild \cap {"tasklet", "reporter", "buffer", "dsp_write"} = {}
    /\ comm.working => Sound(reporter) /\ Mapped(comm.addr)
    /\ \A r \in Reporter : rep[r].sched => r = reporter /\ rep[r].armed
    /\ reporter # Nil => Sound(reporter) \/ \E f \in File : upc[f] = "reset"

\* A callback is given a report that was sent under its number, cut to its
\* range, unless the DSP wrote the next report while a signal was pending.  A
\* second channel takes the signals of the first away, and then its callbacks
\* may be given what was sent after the last report they were told of.
CallbackOwn ==
  "second" \notin cause => \A f \in sig : lib[f].report = "live" /\ lib[f].buf \in lib[f].maps =>
    \A i \in Told(f) : i = page[lib[f].buf].pay % IdWord \/ overrun

-----------------------------------------------------------------------------
(* Strengthenings: what makes the properties inductive.                    *)

\* What nobody has looked at keeps the line high, and the handler has yet to
\* look for it.
NoticeInv ==
  /\ comm.cmd /\ "cmd" \notin late => line /\ handler # "ack"
  /\ comm.flag /\ Sound(reporter) /\ rep[reporter].armed /\ "report" \notin late =>
       line /\ handler \notin {"schedule", "cmd", "ack"}

\* The process that has the channel, from its creation to its release.
Owner(f) ==
  \/ upc[f] \in {"allocate", "arm", "async", "free", "reset"}
  \/ lib[f].report = "live" /\ upc[f] # "return"

\* As long as nothing has gone wrong with it, a channel has one owner, whose
\* buffer is the reporter's and the DSP's.
Owned ==
  /\ \A f, g \in File : Owner(f) /\ Owner(g) => f = g
  /\ reporter # Nil => \E f \in File : Owner(f)
  /\ \A f \in File : Owner(f) =>
       /\ f \in opened /\ reporter # Nil
       /\ upc[f] # "reset" => rep[reporter].live
       /\ rep[reporter].armed <=> upc[f] \notin {"allocate", "arm", "reset"}
       /\ upc[f] \notin {"allocate", "reset"} =>
            /\ lib[f].buf \in lib[f].maps
            /\ rep[reporter].buffer = lib[f].buf

\* It works from the allocation of its buffer to the release.
Works ==
  comm.working =>
    \E f \in File : /\ Owner(f) /\ upc[f] \notin {"allocate", "free", "reset"}
                    /\ comm.addr = lib[f].buf

\* Its tasklet is scheduled only while the channel is in order.
Scheduled ==
  \A r \in Reporter : rep[r].sched =>
    r = reporter /\ \E f \in File : Owner(f) /\ upc[f] \notin Busy

\* Neither is the handler about to schedule it at another time.
Scheduling ==
  handler = "schedule" => \E f \in File : Owner(f) /\ upc[f] \notin Busy

ChannelInv ==
  cause = {} =>
    /\ wild \cap {"tasklet", "reporter", "buffer", "dsp_write"} = {}
    /\ Owned /\ Works /\ Scheduled /\ Scheduling

\* As long as nobody creates a second channel there is one owner, whose buffer
\* is the reporter's and the DSP's, and who listens last of all.
Sole ==
  /\ \A f, g \in File : Owner(f) /\ Owner(g) => f = g
  /\ \A f \in File : Owner(f) =>
       /\ reporter # Nil
       /\ upc[f] \in {"allocate", "arm", "async"} => rep[reporter].fasync = {}
       /\ upc[f] \notin {"allocate", "reset"} =>
            /\ lib[f].buf \in lib[f].maps
            /\ rep[reporter].buffer = lib[f].buf /\ comm.addr = lib[f].buf

\* What a report on its way says of the buffer: its payload is there, and the
\* number too once signals are pending, or none.
Delivered ==
  \A f \in File : Owner(f) /\ upc[f] \notin {"allocate", "reset"} =>
    /\ comm.id # 0 /\ upc[f] # "arm" => page[lib[f].buf].pay = comm.id
    /\ sig # {} /\ ~overrun =>
         page[lib[f].buf].id \in {0, page[lib[f].buf].pay % IdWord}

\* A buffer is clean until it is given to a process, and a process has one
\* exactly from the allocation to the release.
Clean ==
  /\ comm.addr <= creates /\ \A r \in Reporter : rep[r].buffer <= creates
  /\ \A b \in Buffer : b > creates => page[b] = NoPage
  /\ \A f \in File :
       /\ upc[f] = "allocate" =>
            page[creates] = NoPage /\ comm.addr < creates
       /\ upc[f] \in {"allocate", "arm", "async"} => lib[f].report # "live"
       /\ upc[f] \in {"reset", "return"} => lib[f].buf \notin lib[f].maps

CallbackInv == "second" \notin cause => Sole /\ Delivered /\ Clean

\* A buffer is numbered before it is allocated, and no file is open before
\* there is a node or after it.
Numbered ==
  /\ \A f \in File : upc[f] = "allocate" => creates \in Buffer
  /\ wild = {} /\ ~HasNode => opened = {}

ReportInv == ReportTypeOK /\ Numbered /\ NoticeInv /\ ChannelInv /\ CallbackInv
=============================================================================
