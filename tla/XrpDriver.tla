------------------------------ MODULE XrpDriver ------------------------------
(***************************************************************************)
(* A device with its files, the report channel and the imported dma-bufs:  *)
(* the composition of XrpDevice, XrpReport and XrpDmaBuf.  They meet in    *)
(* the probe, which lets programs in before it has ended, in the files,    *)
(* whose close goes through all three, and in the removal of the device.   *)
(***************************************************************************)
EXTENDS XrpReport, XrpDmaBuf

vars == <<deviceVars, reportVars, dmaVars>>

Init == DeviceInit /\ ReportInit /\ DmaInit

Next ==
  \/ ProbeIrq /\ UNCHANGED <<reportVars, dmaVars>>
  \/ ProbeClocks /\ UNCHANGED <<reportVars, dmaVars>>
  \/ ProbeRegs /\ UNCHANGED <<reportVars, dmaVars>>
  \/ ProbeQueues /\ UNCHANGED <<reportVars, dmaVars>>
  \/ ProbeBoot /\ UNCHANGED <<reportVars, dmaVars>>
  \/ ProbeNode /\ UNCHANGED <<reportVars, dmaVars>>
  \/ ProbeDone /\ UNCHANGED <<reportVars, dmaVars>>
  \/ RemoveDevice /\ UNCHANGED <<reportVars, dmaVars>>
  \/ \E f \in File : Open(f) /\ UNCHANGED <<reportVars, dmaVars>>
  \/ \E f \in File : Close(f) /\ CloseDma(f)
  \/ RebootDsp /\ UNCHANGED dmaVars
  \/ DspReply /\ UNCHANGED dmaVars
  \/ IrqEnter /\ UNCHANGED dmaVars
  \/ IrqReport /\ UNCHANGED dmaVars
  \/ IrqSchedule /\ UNCHANGED dmaVars
  \/ IrqCmd /\ UNCHANGED dmaVars
  \/ IrqAck /\ UNCHANGED dmaVars
  \/ TakeReply /\ UNCHANGED dmaVars
  \/ \E i \in ReportId : DspReport(i) /\ UNCHANGED dmaVars
  \/ \E r \in Reporter : Tasklet(r) /\ UNCHANGED dmaVars
  \/ \E f \in File : CreateReport(f) /\ UNCHANGED dmaVars
  \/ \E f \in File : AllocateReport(f) /\ UNCHANGED dmaVars
  \/ \E f \in File : ArmReport(f) /\ UNCHANGED dmaVars
  \/ \E f \in File : AskSignals(f) /\ UNCHANGED dmaVars
  \/ \E f \in File : ReleaseReport(f) /\ UNCHANGED dmaVars
  \/ \E f \in File : FreeReporter(f) /\ UNCHANGED dmaVars
  \/ \E f \in File : ResetReporter(f) /\ UNCHANGED dmaVars
  \/ \E f \in File : ReleaseReturn(f) /\ UNCHANGED dmaVars
  \/ \E f \in File : UnlinkItem(f) /\ UNCHANGED dmaVars
  \/ \E f \in File : SigHandler(f) /\ UNCHANGED dmaVars
  \/ \E f \in File : Exit(f) /\ UNCHANGED dmaVars
  \/ \E f \in File, i \in ReportId : RegisterCb(f, i) /\ UNCHANGED dmaVars
  \/ \E f \in File, i \in ReportId : UnregisterCb(f, i) /\ UNCHANGED dmaVars
  \/ \E f \in File, i \in ReportId : DestroyTask(f, i) /\ UNCHANGED dmaVars
  \/ \E f \in File, b \in DmaBuf : ImportLookup(f, b) /\ UNCHANGED reportVars
  \/ \E f \in File, b \in DmaBuf : ReleaseSearch(f, b) /\ UNCHANGED reportVars
  \/ \E f \in File : ImportAttach(f) /\ UNCHANGED reportVars
  \/ \E f \in File : ImportKnown(f) /\ UNCHANGED reportVars
  \/ \E f \in File : ImportCheck(f) /\ UNCHANGED reportVars
  \/ \E f \in File : ReleaseDetach(f) /\ UNCHANGED reportVars
  \/ \E f \in File : ReleaseDrop(f) /\ UNCHANGED reportVars

Spec == Init /\ [][Next]_vars

-----------------------------------------------------------------------------

\* The variables of all three parts have their types.
TypeOK == DeviceTypeOK /\ ReportTypeOK /\ DmaTypeOK
=============================================================================
