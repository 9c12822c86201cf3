------------------------------ MODULE QemuEdu ------------------------------
(***************************************************************************)
(* The PCI driver qemu_edu.c and the EDU device it drives.                 *)
(*                                                                         *)
(* Processes: user tasks that write the driver's sysfs files, the bus      *)
(* process Binder that probes and removes the driver, the interrupt        *)
(* handler, and, in EduDevice, the factorial thread and the DMA timer.     *)
(* They interleave at every access to a device register, to a completion   *)
(* and to struct qemu_edu that another of them can observe.                *)
(***************************************************************************)
EXTENDS EduDevice

CONSTANTS
    Tasks,        \* User-space writers of sysfs files.
    Binder,       \* The process that binds and unbinds the driver.
    NoOwner,      \* Owner of a free mutex.
    Files,        \* The sysfs files the tasks write.
    LiveInputs,   \* Words written to liveness.
    FactInputs,   \* Numbers written to factorial.
    Masks,        \* Words written to trigger_irq.
    AddrMask,     \* DMA_BIT_MASK(EDU_DMA_MASK_BITS).
    Parameters,   \* Choices of module parameters a load of the module makes.
    CountModulus, \* irq_count wraps here (2^32 in the code).
    OneCpu,       \* TRUE if the guest has one CPU, FALSE if several.
    Signals,      \* TRUE if a signal may end an interruptible wait.
    Timely        \* TRUE if 2 s are more than an outstanding operation takes.

Procs == Tasks \cup {Binder}

FileNames == {"liveness", "factorial", "trigger_irq", "dma_roundtrip"}

ParameterSpace ==
    [force_factorial_timeout : BOOLEAN, force_dma_timeout : BOOLEAN,
     interrupt_mode : {"auto", "msi", "intx", "invalid"}]

ASSUME DriverAssumption ==
    /\ Binder \notin Tasks
    /\ NoOwner \notin Procs
    /\ Files \subseteq FileNames
    /\ LiveInputs \subseteq Word
    /\ FactInputs \subseteq Nat
    /\ Masks \subseteq SUBSET IrqBits
    /\ AddrMask \in Nat
    /\ Parameters \subseteq ParameterSpace
    /\ CountModulus \in Nat \ {0}
    /\ OneCpu \in BOOLEAN
    /\ Signals \in BOOLEAN
    /\ Timely \in BOOLEAN

VARIABLES
    edu,             \* struct qemu_edu, without its lock.
    operation_lock,  \* Owner of edu->operation_lock.
    irq_pc,          \* Control state of the interrupt handler.
    irq_val,         \* Its local variable status.
    pc,              \* Control state of every process.
    loc,             \* Local variables of every process.
    parameter,       \* Module parameters.
    irq_registered,  \* A handler is registered for the vector.
    buffer_live,     \* The coherent buffer is allocated.
    count_at_lock    \* History: irq_count when operation_lock was taken.

bindVars   == <<parameter, irq_registered, buffer_live>>
irqHandler == <<irq_pc, irq_val>>
lockVars   == <<operation_lock, count_at_lock>>

driverVars == <<edu, lockVars, irqHandler, pc, loc, bindVars>>

vars == <<deviceVars, driverVars>>

Errors == {"ERANGE", "EINVAL", "EIO", "ETIMEDOUT", "EINTR"}

DmaResults == {"not-run", "passed", "timeout", "verify-failed", "faulted"}

\* What devm_kzalloc and the init_ calls of probe leave in the structure.
FreshEdu ==
    [irq_count        |-> 0,
     last_irq_status  |-> {},
     factorial_done   |-> FALSE,
     any_irq_done     |-> FALSE,
     dma_done         |-> FALSE,
     liveness_valid   |-> FALSE,
     liveness_input   |-> 0,
     liveness_result  |-> 0,
     factorial_valid  |-> FALSE,
     factorial_input  |-> 0,
     factorial_result |-> 0,
     dma_handle       |-> 0,
     dma_last_length  |-> 0,
     dma_result       |-> "not-run",
     dma_faulted      |-> FALSE,
     selected_interrupt_mode |-> "msi"]

\* Local variables of a call; those it does not use keep these values.
FreshLocals ==
    [file     |-> "none",    \* the sysfs file
     value    |-> 0,         \* the parsed number
     mask     |-> {},        \* the parsed number as an interrupt mask
     status   |-> {},        \* status in qemu_edu_ack_pending_irqs
     resume   |-> "none",    \* where that function returns to
     waited   |-> "none",    \* outcome of a wait
     running  |-> FALSE,     \* command & EDU_DMA_RUN
     to_ram   |-> FALSE,     \* direction of the transfer
     ret      |-> "none"]    \* the return value

-----------------------------------------------------------------------------
(* Helpers.                                                                *)

\* A process moves on.  On one CPU it cannot while the handler, which
\* interrupted it, runs.
Goto(p, from, to) ==
    /\ OneCpu => irq_pc = "idle"
    /\ pc[p] = from
    /\ pc' = [pc EXCEPT ![p] = to]

\* A step of process p that touches neither the mutex nor the handler nor
\* what is registered and allocated.
Step(p, from, to) ==
    Goto(p, from, to) /\ UNCHANGED <<lockVars, irqHandler, bindVars>>

\* Such a step to the end of a store function, which will return ret.
Finish(t, from, ret) ==
    Step(t, from, "unlock") /\ loc' = [loc EXCEPT ![t].ret = ret]

\* Everything that can still make an awaited interrupt arrive.
Outstanding ==
    \/ computing
    \/ fact_pc # "wait"
    \/ DmaRunning
    \/ irq_pc # "idle"
    \/ irq_registered /\ InterruptAsserted

\* Mutant: the waits have no timeout.
MutBudgetSpent == FALSE

\* The 2000 ms budget of a wait runs out.
BudgetSpent == Timely => ~Outstanding

\* qemu_edu_ack_pending_irqs, called at label "ack_read": the caller continues
\* at loc[p].resume.
CallAck(p, from, resume) ==
    Step(p, from, "ack_read") /\ loc' = [loc EXCEPT ![p].resume = resume]

AckRead(p) ==
    /\ Step(p, "ack_read", IF irq_status = {} THEN loc[p].resume ELSE "ack_write")
    /\ loc' = [loc EXCEPT ![p].status = irq_status]
    /\ UNCHANGED <<deviceVars, edu>>

AckWrite(p) ==
    /\ Step(p, "ack_write", loc[p].resume)
    /\ WriteIrqAck(loc[p].status)
    /\ loc' = [loc EXCEPT ![p].status = {}]
    /\ UNCHANGED edu

\* A wait for the completion named done that ends in loc[p].waited.  A wait
\* that finds the completion done reports neither a timeout nor a signal.
Wait(p, from, to, done, interruptible) ==
    /\ Step(p, from, to)
    /\ \/ /\ edu[done]
          /\ edu' = [edu EXCEPT ![done] = FALSE]
          /\ loc' = [loc EXCEPT ![p].waited = "done"]
       \/ /\ ~edu[done]
          /\ BudgetSpent
          /\ loc' = [loc EXCEPT ![p].waited = "timeout"]
          /\ UNCHANGED edu
       \/ /\ ~edu[done]
          /\ interruptible /\ Signals
          /\ loc' = [loc EXCEPT ![p].waited = "signal"]
          /\ UNCHANGED edu
    /\ UNCHANGED deviceVars

\* The value of ret after an interruptible wait that did not complete.
WaitError(waited) == IF waited = "timeout" THEN "ETIMEDOUT" ELSE "EINTR"

-----------------------------------------------------------------------------
(* The interrupt handler qemu_edu_irq.                                     *)

IrqGoto(from, to) ==
    /\ irq_pc = from
    /\ irq_pc' = to
    /\ UNCHANGED <<lockVars, pc, loc, bindVars>>

\* The handler completes done if the status has the bit that asks for it.
IrqComplete(from, to, done, asked) ==
    /\ IrqGoto(from, to)
    /\ edu' = [edu EXCEPT ![done] = @ \/ asked]
    /\ UNCHANGED <<deviceVars, irq_val>>

IrqEnter ==
    /\ irq_registered /\ InterruptAsserted
    /\ IrqGoto("idle", "read")
    /\ msi_pending' = (msi_pending /\ ~msi_on)
    /\ UNCHANGED <<irq_status, intx_line, pciVars, liveness, factVars, memVars>>
    /\ UNCHANGED <<edu, irq_val>>

\* IRQ_NONE when another reader acknowledged the status first.
IrqRead ==
    /\ IrqGoto("read", IF irq_status = {} THEN "idle" ELSE "ack")
    /\ irq_val' = irq_status
    /\ UNCHANGED <<deviceVars, edu>>

\* Mutant: MSI, which needs no end of interrupt, is not acknowledged.
MutIrqAck ==
    /\ IrqGoto("ack", "record")
    /\ UNCHANGED <<deviceVars, edu, irq_val>>

IrqAck ==
    /\ IrqGoto("ack", "record")
    /\ WriteIrqAck(irq_val)
    /\ UNCHANGED <<edu, irq_val>>

IrqRecord ==
    /\ IrqGoto("record", "complete_factorial")
    /\ edu' = [edu EXCEPT !.last_irq_status = irq_val,
                          !.irq_count = (@ + 1) % CountModulus]
    /\ UNCHANGED <<deviceVars, irq_val>>

IrqCompleteFactorial ==
    IrqComplete("complete_factorial", "complete_dma",
                "factorial_done", "factorial" \in irq_val)

IrqCompleteDma ==
    IrqComplete("complete_dma", "complete_any", "dma_done", "dma" \in irq_val)

\* IRQ_HANDLED.  The status is not used again; the next entry reads it anew.
IrqCompleteAny ==
    /\ IrqGoto("complete_any", "idle")
    /\ irq_val' = {}
    /\ edu' = [edu EXCEPT !.any_irq_done = TRUE]
    /\ UNCHANGED deviceVars

IrqHandler ==
    \/ IrqEnter \/ IrqRead \/ IrqAck \/ IrqRecord
    \/ IrqCompleteFactorial \/ IrqCompleteDma \/ IrqCompleteAny

-----------------------------------------------------------------------------
(* Entry and exit of the store functions.  A sysfs file can be written     *)
(* while the attribute group exists, that is while the driver is bound.    *)

\* A write whose text is accepted: number n, or mask m for trigger_irq.
Store(t, f, n, m) ==
    /\ pc[Binder] = "bound"
    /\ f \in Files
    /\ Step(t, "idle", "lock")
    /\ loc' = [loc EXCEPT ![t] =
                 [FreshLocals EXCEPT !.file = f, !.value = n, !.mask = m]]
    /\ UNCHANGED <<deviceVars, edu>>

\* Text that kstrtou32 refuses and values out of range return before the lock.
Reject(t, error) ==
    /\ pc[Binder] = "bound"
    /\ Step(t, "idle", "return")
    /\ loc' = [loc EXCEPT ![t].ret = error]
    /\ UNCHANGED <<deviceVars, edu>>

\* Mutant: the range check with its upper bound off by one.
MutFactorialAccepts(n) == n <= 13

FactorialAccepts(n) == n \in Operands
DmaAccepts(n) == n # 0 /\ n <= BufSize

Call(t) ==
    \/ \E n \in LiveInputs : Store(t, "liveness", n, {})
    \/ \E n \in FactInputs : FactorialAccepts(n) /\ Store(t, "factorial", n, {})
    \/ \E m \in Masks \ {{}} : Store(t, "trigger_irq", 0, m)
    \/ \E n \in Lengths : DmaAccepts(n) /\ Store(t, "dma_roundtrip", n, {})
    \/ \E error \in {"EINVAL", "ERANGE"} : Reject(t, error)

\* Mutant: the store functions are not serialised.
MutLock(p) ==
    /\ Goto(p, "lock", "locked")
    /\ operation_lock' = p
    /\ count_at_lock' = edu.irq_count
    /\ UNCHANGED <<deviceVars, edu, irqHandler, loc, bindVars>>

\* mutex_lock.
Lock(p) ==
    /\ operation_lock = NoOwner
    /\ Goto(p, "lock", "locked")
    /\ operation_lock' = p
    /\ count_at_lock' = edu.irq_count
    /\ UNCHANGED <<deviceVars, edu, irqHandler, loc, bindVars>>

\* mutex_unlock at the end of a store function.
Unlock(t) ==
    /\ Goto(t, "unlock", "return")
    /\ operation_lock' = NoOwner
    /\ count_at_lock' = 0
    /\ UNCHANGED <<deviceVars, edu, irqHandler, loc, bindVars>>

Return(t) ==
    /\ Step(t, "return", "idle")
    /\ loc' = [loc EXCEPT ![t] = FreshLocals]
    /\ UNCHANGED <<deviceVars, edu>>

-----------------------------------------------------------------------------
(* liveness_store.                                                         *)

LivenessWrite(t) ==
    /\ loc[t].file = "liveness"
    /\ Step(t, "locked", "live_read")
    /\ WriteLiveness(loc[t].value)
    /\ edu' = [edu EXCEPT !.liveness_input = loc[t].value]
    /\ UNCHANGED loc

LivenessRead(t) ==
    /\ Finish(t, "live_read", "ok")
    /\ edu' = [edu EXCEPT !.liveness_result = liveness, !.liveness_valid = TRUE]
    /\ UNCHANGED deviceVars

LivenessStore(t) == LivenessWrite(t) \/ LivenessRead(t)

-----------------------------------------------------------------------------
(* factorial_store.                                                        *)

FactorialBegin(t) ==
    /\ loc[t].file = "factorial"
    /\ CallAck(t, "locked", "fact_request")
    /\ WriteStatus(FALSE)
    /\ edu' = [edu EXCEPT !.factorial_valid = FALSE]

FactorialRequest(t) ==
    /\ Step(t, "fact_request", "fact_start")
    /\ WriteStatus(~parameter.force_factorial_timeout)
    /\ edu' = [edu EXCEPT !.factorial_done = FALSE]
    /\ UNCHANGED loc

FactorialStart(t) ==
    /\ Step(t, "fact_start", "fact_wait")
    /\ WriteFactorial(loc[t].value)
    /\ UNCHANGED <<edu, loc>>

\* Mutant: any interrupt ends the wait.
MutFactorialWait(t) == Wait(t, "fact_wait", "fact_stop", "any_irq_done", TRUE)

FactorialWait(t) == Wait(t, "fact_wait", "fact_stop", "factorial_done", TRUE)

\* Mutant: only the error paths switch the request off.
MutFactorialStop(t) ==
    /\ \/ /\ loc[t].waited = "done"
          /\ Step(t, "fact_stop", "fact_read")
          /\ UNCHANGED <<deviceVars, loc>>
       \/ /\ loc[t].waited # "done"
          /\ Finish(t, "fact_stop", WaitError(loc[t].waited))
          /\ WriteStatus(FALSE)
    /\ UNCHANGED edu

FactorialStop(t) ==
    /\ \/ /\ loc[t].waited = "done"
          /\ Step(t, "fact_stop", "fact_read")
          /\ UNCHANGED loc
       \/ /\ loc[t].waited # "done"
          /\ Finish(t, "fact_stop", WaitError(loc[t].waited))
    /\ WriteStatus(FALSE)
    /\ UNCHANGED edu

FactorialRead(t) ==
    /\ Finish(t, "fact_read", "ok")
    /\ edu' = [edu EXCEPT !.factorial_input = loc[t].value,
                          !.factorial_result = fact,
                          !.factorial_valid = TRUE]
    /\ UNCHANGED deviceVars

FactorialStore(t) ==
    \/ FactorialBegin(t) \/ FactorialRequest(t) \/ FactorialStart(t)
    \/ FactorialWait(t) \/ FactorialStop(t) \/ FactorialRead(t)

-----------------------------------------------------------------------------
(* trigger_irq_store.                                                      *)

TriggerBegin(t) ==
    /\ loc[t].file = "trigger_irq"
    /\ CallAck(t, "locked", "trig_raise")
    /\ UNCHANGED <<deviceVars, edu>>

\* Mutant: the completion is not reinitialised.
MutTriggerRaise(t) ==
    /\ Step(t, "trig_raise", "trig_wait")
    /\ WriteIrqRaise(loc[t].mask)
    /\ UNCHANGED <<edu, loc>>

TriggerRaise(t) ==
    /\ Step(t, "trig_raise", "trig_wait")
    /\ WriteIrqRaise(loc[t].mask)
    /\ edu' = [edu EXCEPT !.any_irq_done = FALSE]
    /\ UNCHANGED loc

TriggerWait(t) == Wait(t, "trig_wait", "trig_end", "any_irq_done", TRUE)

TriggerEnd(t) ==
    LET waited == loc[t].waited
    IN  /\ Finish(t, "trig_end", IF waited = "done" THEN "ok" ELSE WaitError(waited))
        /\ UNCHANGED <<deviceVars, edu>>

TriggerIrqStore(t) ==
    TriggerBegin(t) \/ TriggerRaise(t) \/ TriggerWait(t) \/ TriggerEnd(t)

-----------------------------------------------------------------------------
(* dma_roundtrip_store, with qemu_edu_dma_transfer and                     *)
(* qemu_edu_wait_for_dma.                                                  *)

\* The first n bytes of the coherent buffer become byte, a function of the
\* offset and n; two lengths are taken to give two different patterns.
Fill(byte, n) ==
    /\ ram' = [ram EXCEPT ![edu.dma_handle] =
                 [i \in Offsets |-> IF i < n THEN [byte |-> byte, length |-> n]
                                             ELSE @[i]]]
    /\ UNCHANGED <<irqVars, pciVars, liveness, factVars, dma, dev_buf>>

\* Mutant: a faulted path is not refused.
MutDmaBegin(t) ==
    /\ loc[t].file = "dma_roundtrip"
    /\ CallAck(t, "locked", "dma_src")
    /\ Fill("pattern", loc[t].value)
    /\ UNCHANGED edu

DmaBegin(t) ==
    /\ loc[t].file = "dma_roundtrip"
    /\ ~edu.dma_faulted
    /\ CallAck(t, "locked", "dma_src")
    /\ Fill("pattern", loc[t].value)
    /\ UNCHANGED edu

DmaRefuse(t) ==
    /\ loc[t].file = "dma_roundtrip"
    /\ edu.dma_faulted
    /\ Finish(t, "locked", "EIO")
    /\ UNCHANGED <<deviceVars, edu>>

DmaSource(t) ==
    /\ Step(t, "dma_src", "dma_dst")
    /\ WriteDma("src", IF loc[t].to_ram THEN DevStart ELSE edu.dma_handle)
    /\ edu' = [edu EXCEPT !.dma_done = FALSE]
    /\ UNCHANGED loc

DmaDestination(t) ==
    /\ Step(t, "dma_dst", "dma_cnt")
    /\ WriteDma("dst", IF loc[t].to_ram THEN edu.dma_handle ELSE DevStart)
    /\ UNCHANGED <<edu, loc>>

DmaCount(t) ==
    /\ Step(t, "dma_cnt", "dma_cmd")
    /\ WriteDma("cnt", loc[t].value)
    /\ UNCHANGED <<edu, loc>>

DmaCommand(t) ==
    /\ Step(t, "dma_cmd", "dma_wait")
    /\ WriteDma("cmd", {"run"} \cup (IF loc[t].to_ram THEN {"to_ram"} ELSE {})
                 \cup (IF parameter.force_dma_timeout THEN {} ELSE {"irq"}))
    /\ UNCHANGED <<edu, loc>>

\* Mutant: any interrupt ends the wait.
MutDmaWait(t) == Wait(t, "dma_wait", "dma_command", "any_irq_done", FALSE)

DmaWait(t) == Wait(t, "dma_wait", "dma_command", "dma_done", FALSE)

\* The command register is read, then last_irq_status.
DmaReadCommand(t) ==
    /\ Step(t, "dma_command",
            IF loc[t].waited = "done" /\ ~DmaRunning THEN "dma_status" ELSE "dma_fault")
    /\ loc' = [loc EXCEPT ![t].running = DmaRunning]
    /\ UNCHANGED <<deviceVars, edu>>

\* Mutant: the path is marked faulted, the device is left alone.
MutDmaFault(t) ==
    /\ CallAck(t, "dma_fault", "dma_sync")
    /\ edu' = [edu EXCEPT !.dma_faulted = TRUE]
    /\ UNCHANGED deviceVars

DmaFault(t) ==
    /\ CallAck(t, "dma_fault", "dma_sync")
    /\ SetMaster(FALSE)
    /\ edu' = [edu EXCEPT !.dma_faulted = TRUE]

DmaReadStatus(t) ==
    /\ edu.last_irq_status # {"dma"}
    /\ Step(t, "dma_status", "dma_fault")
    /\ UNCHANGED <<deviceVars, edu, loc>>

\* synchronize_irq waits for a handler that has started; then the caller of
\* qemu_edu_dma_transfer records the failure.
DmaSync(t) ==
    LET late == loc[t].waited = "timeout" /\ ~loc[t].running
    IN  /\ irq_pc = "idle"
        /\ Finish(t, "dma_sync", IF late THEN "ETIMEDOUT" ELSE "EIO")
        /\ edu' = [edu EXCEPT !.dma_last_length = loc[t].value,
                              !.dma_result = IF late THEN "timeout" ELSE "faulted"]
        /\ UNCHANGED deviceVars

\* The first transfer is done.
DmaSentinel(t) ==
    /\ edu.last_irq_status = {"dma"} /\ ~loc[t].to_ram
    /\ Step(t, "dma_status", "ack_read")
    /\ loc' = [loc EXCEPT ![t].resume = "dma_src", ![t].to_ram = TRUE,
                          ![t].waited = "none"]
    /\ Fill("sentinel", loc[t].value)
    /\ UNCHANGED edu

\* The second transfer is done.
DmaVerify(t) ==
    LET n == loc[t].value
        passed == \A i \in 0 .. n - 1 :
                    ram[edu.dma_handle][i] = [byte |-> "pattern", length |-> n]
    IN  /\ edu.last_irq_status = {"dma"} /\ loc[t].to_ram
        /\ Finish(t, "dma_status", IF passed THEN "ok" ELSE "EIO")
        /\ edu' = [edu EXCEPT !.dma_last_length = n,
                     !.dma_result = IF passed THEN "passed" ELSE "verify-failed"]
        /\ UNCHANGED deviceVars

DmaRoundtripStore(t) ==
    \/ DmaBegin(t) \/ DmaRefuse(t)
    \/ DmaSource(t) \/ DmaDestination(t) \/ DmaCount(t) \/ DmaCommand(t)
    \/ DmaWait(t) \/ DmaReadCommand(t) \/ DmaReadStatus(t)
    \/ DmaFault(t) \/ DmaSync(t) \/ DmaSentinel(t) \/ DmaVerify(t)

\* A step of a call that has begun.
StoreStep(t) ==
    \/ LivenessStore(t) \/ FactorialStore(t) \/ TriggerIrqStore(t)
    \/ DmaRoundtripStore(t) \/ Unlock(t) \/ Return(t)

-----------------------------------------------------------------------------
(* qemu_edu_probe.  Steps that fail before bus mastering is enabled leave  *)
(* nothing behind and are no steps of this model.                          *)

\* pcim_enable_device to dma_handle's range check.  The parameters are those
\* of the module as it is loaded; dmam_alloc_coherent returns zeroed memory.
Probe(h) ==
    /\ h <= AddrMask - (BufSize - 1)
    /\ Goto(Binder, "unbound", "probe_master")
    /\ edu' = [FreshEdu EXCEPT !.dma_handle = h]
    /\ buffer_live' = TRUE
    /\ parameter' \in Parameters
    /\ ram' = [ram EXCEPT ![h] = [i \in Offsets |-> Zero]]
    /\ UNCHANGED <<irqVars, pciVars, liveness, factVars, dma, dev_buf>>
    /\ UNCHANGED <<lockVars, irqHandler, loc, irq_registered>>

ProbeMaster ==
    /\ Step(Binder, "probe_master", "probe_status")
    /\ SetMaster(TRUE)
    /\ UNCHANGED <<edu, loc>>

ProbeQuiesce ==
    /\ CallAck(Binder, "probe_status", "probe_vectors")
    /\ WriteStatus(FALSE)
    /\ UNCHANGED edu

\* qemu_edu_interrupt_flags.
InterruptFlags ==
    CASE parameter.interrupt_mode = "auto"    -> {"msi", "intx"}
      [] parameter.interrupt_mode = "msi"     -> {"msi"}
      [] parameter.interrupt_mode = "intx"    -> {"intx"}
      [] parameter.interrupt_mode = "invalid" -> {}

\* pci_alloc_irq_vectors prefers MSI, if the bus allows it.
ProbeVectors(msi_allowed) ==
    LET modes == IF msi_allowed THEN InterruptFlags ELSE InterruptFlags \ {"msi"}
        mode  == IF "msi" \in modes THEN "msi" ELSE "intx"
    IN  /\ modes # {}
        /\ Step(Binder, "probe_vectors", "probe_irq")
        /\ msi_on' = (mode = "msi")
        /\ edu' = [edu EXCEPT !.selected_interrupt_mode = mode]
        /\ UNCHANGED <<irqVars, bus_master, liveness, factVars, memVars, loc>>

\* devm_request_irq.  A message sent before it finds no handler and is lost.
ProbeRequestIrq ==
    /\ Goto(Binder, "probe_irq", "probe_sysfs")
    /\ irq_registered' = TRUE
    /\ msi_pending' = FALSE
    /\ UNCHANGED <<irq_status, intx_line, pciVars, liveness, factVars, memVars>>
    /\ UNCHANGED <<edu, lockVars, irqHandler, loc, parameter, buffer_live>>

ProbeSysfs ==
    /\ Step(Binder, "probe_sysfs", "bound")
    /\ loc' = [loc EXCEPT ![Binder] = FreshLocals]
    /\ UNCHANGED <<deviceVars, edu>>

\* A failing step of probe unwinds what the steps before it acquired.
ProbeFail ==
    /\ \/ Step(Binder, "probe_status", "rel_master")
       \/ Step(Binder, "probe_vectors", "rel_master")
       \/ Step(Binder, "probe_irq", "rel_vectors")
       \/ Step(Binder, "probe_sysfs", "rel_irq")
    /\ UNCHANGED <<deviceVars, edu, loc>>

-----------------------------------------------------------------------------
(* qemu_edu_remove.                                                        *)

\* sysfs_remove_group refuses new writes, then waits for those in progress.
Remove ==
    /\ Step(Binder, "bound", "rm_drain")
    /\ UNCHANGED <<deviceVars, edu, loc>>

\* sysfs_remove_group waits for the writes in progress.
RemoveDrained ==
    /\ \A t \in Tasks : pc[t] = "idle"
    /\ Step(Binder, "rm_drain", "lock")
    /\ UNCHANGED <<deviceVars, edu, loc>>

RemoveQuiesce ==
    /\ CallAck(Binder, "locked", "rm_master")
    /\ WriteStatus(FALSE)
    /\ UNCHANGED edu

RemoveMaster ==
    /\ Step(Binder, "rm_master", "rm_poll")
    /\ SetMaster(FALSE)
    /\ UNCHANGED <<edu, loc>>

\* readl_poll_timeout: removal goes on when the budget is spent, too.
RemovePoll ==
    /\ ~DmaRunning \/ BudgetSpent
    /\ CallAck(Binder, "rm_poll", "rm_sync")
    /\ UNCHANGED <<deviceVars, edu>>

RemoveSync ==
    /\ irq_pc = "idle"
    /\ Goto(Binder, "rm_sync", "rel_irq")
    /\ operation_lock' = NoOwner
    /\ count_at_lock' = 0
    /\ UNCHANGED <<deviceVars, edu, irqHandler, loc, bindVars>>

-----------------------------------------------------------------------------
(* Release of the managed resources, newest first.                         *)

\* Mutant: the handler may still run.
MutReleaseIrq ==
    /\ Goto(Binder, "rel_irq", "rel_vectors")
    /\ irq_registered' = FALSE
    /\ UNCHANGED <<deviceVars, edu, lockVars, irqHandler, loc>>
    /\ UNCHANGED <<parameter, buffer_live>>

\* free_irq, which waits for a running handler.
ReleaseIrq ==
    /\ irq_pc = "idle"
    /\ Goto(Binder, "rel_irq", "rel_vectors")
    /\ irq_registered' = FALSE
    /\ UNCHANGED <<deviceVars, edu, lockVars, irqHandler, loc>>
    /\ UNCHANGED <<parameter, buffer_live>>

ReleaseVectors ==
    /\ Step(Binder, "rel_vectors", "rel_master")
    /\ msi_on' = FALSE
    /\ msi_pending' = FALSE
    /\ UNCHANGED <<irq_status, intx_line, bus_master, liveness, factVars, memVars>>
    /\ UNCHANGED <<edu, loc>>

\* Mutant: probe registers no action that clears bus mastering.
MutReleaseMaster ==
    /\ Step(Binder, "rel_master", "rel_buffer")
    /\ UNCHANGED <<deviceVars, edu, loc>>

\* qemu_edu_clear_bus_master.
ReleaseMaster ==
    /\ Step(Binder, "rel_master", "rel_buffer")
    /\ SetMaster(FALSE)
    /\ UNCHANGED <<edu, loc>>

\* The coherent buffer and struct qemu_edu.
ReleaseBuffer ==
    /\ Goto(Binder, "rel_buffer", "unbound")
    /\ buffer_live' = FALSE
    /\ edu' = FreshEdu
    /\ loc' = [loc EXCEPT ![Binder] = FreshLocals]
    /\ UNCHANGED <<deviceVars, lockVars, irqHandler, parameter, irq_registered>>

\* A step of a probe or a removal that has begun.
BinderStep ==
    \/ ProbeMaster \/ ProbeQuiesce \/ ProbeRequestIrq \/ ProbeSysfs
    \/ \E msi_allowed \in BOOLEAN : ProbeVectors(msi_allowed)
    \/ ProbeFail
    \/ RemoveDrained \/ RemoveQuiesce \/ RemoveMaster \/ RemovePoll \/ RemoveSync
    \/ ReleaseIrq \/ ReleaseVectors \/ ReleaseMaster \/ ReleaseBuffer

-----------------------------------------------------------------------------
(* The system.                                                             *)

DriverInit ==
    /\ edu = FreshEdu
    /\ operation_lock = NoOwner
    /\ irq_pc = "idle"
    /\ irq_val = {}
    /\ pc = [p \in Procs |-> IF p = Binder THEN "unbound" ELSE "idle"]
    /\ loc = [p \in Procs |-> FreshLocals]
    /\ parameter \in Parameters
    /\ irq_registered = FALSE
    /\ buffer_live = FALSE
    /\ count_at_lock = 0

Init == DeviceInit /\ DriverInit

\* The device's steps, which the driver's variables do not see.
FactStep  == FactThread /\ UNCHANGED driverVars
TimerStep == DmaTimer /\ UNCHANGED driverVars

Next ==
    \/ \E t \in Tasks : Call(t) \/ StoreStep(t)
    \/ \E p \in Procs : Lock(p) \/ AckRead(p) \/ AckWrite(p)
    \/ \E h \in Handles : Probe(h)
    \/ Remove
    \/ BinderStep
    \/ IrqHandler
    \/ FactStep
    \/ TimerStep

\* Whoever has begun goes on: the device, a deliverable interrupt, a process
\* in the kernel.  A process is held up by interrupts (on one CPU) and by other
\* owners of the mutex, again and again but not for ever: a mutex is handed to
\* a waiter that has waited long enough.  Nothing makes a task write, a signal
\* arrive, or the module load or unload.
Fairness ==
    /\ WF_vars(IrqHandler)
    /\ WF_vars(FactStep)
    /\ WF_vars(TimerStep)
    /\ \A t \in Tasks : SF_vars(StoreStep(t))
    /\ \A p \in Procs : SF_vars(Lock(p) \/ AckRead(p) \/ AckWrite(p))
    /\ SF_vars(BinderStep)

Spec == Init /\ [][Next]_vars

FairSpec == Spec /\ Fairness

-----------------------------------------------------------------------------
(* Type correctness.                                                       *)

FactLabels == {"fact_request", "fact_start", "fact_wait", "fact_stop", "fact_read"}
TrigLabels == {"trig_raise", "trig_wait", "trig_end"}
DmaLabels  == {"dma_src", "dma_dst", "dma_cnt", "dma_cmd", "dma_wait",
               "dma_command", "dma_status", "dma_fault", "dma_sync"}
ProbeLabels   == {"probe_master", "probe_status", "probe_vectors", "probe_irq",
                  "probe_sysfs"}
RemoveLabels  == {"rm_master", "rm_poll", "rm_sync"}
ReleaseLabels == {"rel_irq", "rel_vectors", "rel_master", "rel_buffer"}

TaskLabels ==
    {"idle", "lock", "locked", "ack_read", "ack_write", "live_read", "unlock",
     "return"} \cup FactLabels \cup TrigLabels \cup DmaLabels

BinderLabels ==
    {"unbound", "bound", "rm_drain", "lock", "locked", "ack_read", "ack_write"}
      \cup ProbeLabels \cup RemoveLabels \cup ReleaseLabels

EduType ==
    [irq_count : 0 .. CountModulus - 1, last_irq_status : SUBSET IrqBits,
     factorial_done : BOOLEAN, any_irq_done : BOOLEAN, dma_done : BOOLEAN,
     liveness_valid : BOOLEAN, liveness_input : Word, liveness_result : Word,
     factorial_valid : BOOLEAN, factorial_input : Operands,
     factorial_result : Operands \cup {Factorial[n] : n \in Operands},
     dma_handle : Handles \cup {0}, dma_last_length : Lengths \cup {0},
     dma_result : DmaResults, dma_faulted : BOOLEAN,
     selected_interrupt_mode : {"msi", "intx"}]

LocalsType ==
    [file : FileNames \cup {"none"}, value : Nat, mask : SUBSET IrqBits,
     status : SUBSET IrqBits, resume : TaskLabels \cup BinderLabels \cup {"none"},
     waited : {"none", "done", "timeout", "signal"}, running : BOOLEAN,
     to_ram : BOOLEAN, ret : Errors \cup {"none", "ok"}]

\* Type invariant: every variable of the driver and of the device stays in the
\* set of values its declaration in struct qemu_edu, in the function it is a
\* local of, or in the device's register layout stands for; in particular the
\* factorial register only ever holds a number of 0 .. 12 or its factorial.
TypeOK ==
    /\ DeviceTypeOK
    /\ edu \in EduType
    /\ operation_lock \in Procs \cup {NoOwner}
    /\ irq_pc \in {"idle", "read", "ack", "record", "complete_factorial",
                   "complete_dma", "complete_any"}
    /\ irq_val \subseteq IrqBits
    /\ pc \in [Procs -> TaskLabels \cup BinderLabels]
    /\ loc \in [Procs -> LocalsType]
    /\ parameter \in Parameters
    /\ irq_registered \in BOOLEAN
    /\ buffer_live \in BOOLEAN
    /\ count_at_lock \in 0 .. CountModulus - 1

-----------------------------------------------------------------------------
(* Safety, with no assumption about time or signals.                       *)

\* Labels of a process that is inside operation_lock's critical section.
Critical ==
    {"locked", "live_read", "unlock"}
      \cup FactLabels \cup TrigLabels \cup DmaLabels \cup RemoveLabels

\* Where a process is in its own function.
Place(p) == IF pc[p] \in {"ack_read", "ack_write"} THEN loc[p].resume ELSE pc[p]

InCritical(p) == Place(p) \in Critical

\* operation_lock serialises the store functions and removal: two processes
\* are never between mutex_lock and mutex_unlock at once.
MutualExclusion ==
    \A p, q \in Procs : InCritical(p) /\ InCritical(q) => p = q

\* "All factorial operation paths disable factorial interrupt requests before
\* returning" (guest-interface.md): while the device may interrupt for a
\* factorial, some factorial_store is between its request and its stop.
FactorialIrqOnlyDuringOperation ==
    status_irq => \E t \in Tasks : pc[t] \in {"fact_start", "fact_wait", "fact_stop"}

\* A binding whose DMA path is faulted has no bus mastering: no transfer of
\* the device reaches memory until the driver is bound anew.
FaultStopsBusMaster == edu.dma_faulted => ~bus_master

\* The handler runs only for a live binding: neither struct qemu_edu nor the
\* mapping it uses is released under it.
HandlerOnlyWhileRegistered ==
    irq_pc # "idle" => irq_registered /\ buffer_live

\* What removal and a failed probe leave behind is quiet: no bus mastering, no
\* request for factorial interrupts, no handler, no vector.
QuietWhenUnbound ==
    pc[Binder] = "unbound" =>
      ~bus_master /\ ~status_irq /\ ~irq_registered /\ ~msi_on /\ ~buffer_live

\* "another DMA request is rejected until the module is reloaded": once the
\* DMA path is faulted no step of this binding starts a transfer, and only a
\* release of the binding clears the fault.
FaultedStaysFaulted ==
    [][ edu.dma_faulted =>
          /\ DmaRunning' => DmaRunning
          /\ edu'.dma_faulted \/ pc[Binder] = "rel_buffer" ]_vars

-----------------------------------------------------------------------------
(* Safety, if no signal ends a wait and the budget of a wait is enough.    *)

\* "Inputs 0..12 return N! = R": the value shown is the factorial.
FactorialCorrect ==
    edu.factorial_valid => edu.factorial_result = Factorial[edu.factorial_input]

\* A trigger_irq write that succeeds was counted exactly once and its mask is
\* the last status acknowledged.
TriggerDelivered ==
    \A t \in Tasks :
      pc[t] = "unlock" /\ loc[t].file = "trigger_irq" /\ loc[t].ret = "ok" =>
        /\ edu.irq_count = (count_at_lock + 1) % CountModulus
        /\ edu.last_irq_status = loc[t].mask

\* DMA does what its requests ask and nothing else.  "Each successful round
\* trip handles exactly two DMA completion interrupts with EDU status
\* 0x00000100", whatever factorial and trigger_irq writes went before, and
\* leaves the pattern in both buffers.  Only the forced missing completion
\* faults a binding.  A transfer that can reach memory is between the coherent
\* buffer, still allocated, and the start of the device's buffer, inside both
\* and below the DMA mask, so that neither edu_check_range nor edu_clamp_addr
\* ever bites.  (Without Timely a removal may give up on a running transfer.)
DmaSound ==
    /\ \A t \in Tasks :
         pc[t] = "unlock" /\ loc[t].file = "dma_roundtrip" /\ loc[t].ret = "ok" =>
           /\ edu.irq_count = (count_at_lock + 2) % CountModulus
           /\ edu.last_irq_status = {"dma"}
           /\ \A i \in 0 .. loc[t].value - 1 : dev_buf[i] = ram[edu.dma_handle][i]
    /\ edu.dma_faulted => parameter.force_dma_timeout
    /\ edu.dma_result \in {"not-run", "passed", "timeout"}
    /\ DmaRunning /\ bus_master =>
         /\ buffer_live
         /\ \E t \in Tasks : InCritical(t) /\ loc[t].file = "dma_roundtrip"
         /\ dma.src = IF "to_ram" \in dma.cmd THEN DevStart ELSE edu.dma_handle
         /\ dma.dst = IF "to_ram" \in dma.cmd THEN edu.dma_handle ELSE DevStart
         /\ dma.cnt \in 1 .. BufSize
         /\ edu.dma_handle + dma.cnt - 1 <= AddrMask

-----------------------------------------------------------------------------
(* The inductive invariant behind the theorems of QemuEduProofs: where a   *)
(* process can be, and what is true while it is there.                     *)

\* Tasks run store functions, the Binder runs probe and remove; a call of
\* qemu_edu_ack_pending_irqs returns into the function that made it.
PlacesInv ==
    /\ \A t \in Tasks : /\ pc[t] \in TaskLabels
                        /\ Place(t) \in TaskLabels \ {"ack_read", "ack_write"}
                        /\ pc[t] \in {"ack_read", "ack_write"} => InCritical(t)
    /\ pc[Binder] \in BinderLabels
    /\ Place(Binder) \in BinderLabels \ {"ack_read", "ack_write"}

\* What a call has parsed stays in the range its store function accepted, and
\* a place of a store function is reached only by a call of its file.
CallOK(t) ==
    /\ loc[t].file = "liveness" => loc[t].value \in Word
    /\ loc[t].file = "factorial" => loc[t].value \in Operands
    /\ loc[t].file = "dma_roundtrip" => loc[t].value \in Lengths
    /\ Place(t) \in FactLabels => loc[t].file = "factorial"
    /\ Place(t) \in DmaLabels => loc[t].file = "dma_roundtrip"

CallInv == \A t \in Tasks : CallOK(t)

\* The factorial thread takes an operand, never an earlier result.
ThreadInv ==
    /\ fact_pc \in {"compute", "clear"} => computing
    /\ computing /\ fact_pc # "clear" => fact \in Operands

TypeInv == TypeOK /\ PlacesInv /\ CallInv /\ ThreadInv

\* Whoever is in the critical section owns the mutex.
LockInv == \A p \in Procs : InCritical(p) => operation_lock = p

\* sysfs_remove_group drains: tasks are in the driver only while it is bound.
DrainInv ==
    (\E t \in Tasks : pc[t] # "idle") => Place(Binder) \in {"bound", "rm_drain"}

\* Places of the Binder between the acquisition and the release of a resource.
RegisteredPlaces ==
    {"probe_sysfs", "bound", "rm_drain", "lock", "locked", "rel_irq"} \cup RemoveLabels
VectorPlaces == RegisteredPlaces \cup {"probe_irq", "rel_vectors"}
MasterPlaces ==
    {"probe_status", "probe_vectors", "probe_irq", "probe_sysfs", "bound",
     "rm_drain", "lock", "locked", "rm_master", "rel_irq", "rel_vectors", "rel_master"}

ResourceInv ==
    /\ irq_pc # "idle" => irq_registered
    /\ irq_registered => Place(Binder) \in RegisteredPlaces
    /\ msi_on => Place(Binder) \in VectorPlaces
    /\ bus_master => Place(Binder) \in MasterPlaces
    /\ buffer_live <=> Place(Binder) # "unbound"

\* No transfer is set up on a faulted path, and a new binding is not faulted.
FaultInv ==
    edu.dma_faulted =>
      /\ ~bus_master
      /\ Place(Binder) \notin ({"unbound"} \cup ProbeLabels)
      /\ \A t \in Tasks : Place(t) \notin DmaLabels \ {"dma_sync"}

\* What the safety properties rest on: a writer in the driver means that the
\* driver is bound and its resources are there, whoever holds the mutex is the
\* one in the critical section, and a fault ends the use of the DMA path.
SafetyInv ==
    /\ PlacesInv
    /\ LockInv
    /\ DrainInv
    /\ ResourceInv
    /\ FactorialIrqOnlyDuringOperation
    /\ FaultInv

-----------------------------------------------------------------------------
(* Liveness.                                                               *)

\* Every write of a sysfs file returns, and a removal or a probe that has
\* begun ends, whatever the other processes do.
CallsReturn ==
    /\ \A t \in Tasks : pc[t] # "idle" ~> pc[t] = "idle"
    /\ pc[Binder] \notin {"bound", "unbound"} ~> pc[Binder] \in {"bound", "unbound"}

\* A status the device raises is acknowledged in the end, unless the path of
\* its interrupt is cut: the DMA path faulted, or nothing bound.
StatusAcknowledged ==
    irq_status # {} ~> \/ irq_status = {}
                       \/ edu.dma_faulted
                       \/ pc[Binder] = "unbound"
=============================================================================
