-------------------------- MODULE QemuEduPlatform --------------------------
(***************************************************************************)
(* The ARM64 lab: the platform device, its driver qemu_edu_platform.c and  *)
(* the guest tool qemu-edu-platform-test, whose raise command waits for    *)
(* the interrupt it asks for by polling the driver's files.                *)
(*                                                                         *)
(* Nothing in the driver is locked.  The tools of several users, the       *)
(* handler and the process that binds and unbinds the driver interleave at *)
(* every register access and at every access to a shared field.            *)
(***************************************************************************)
EXTENDS Integers

CONSTANTS
    Users,    \* Who runs the guest tool.
    Bits,     \* The bits of the interrupt status.
    Masks,    \* Masks the users ask for.
    Words,    \* Values of the scratch register.
    MaxCount  \* Bound on irq_count: no raise is begun at it.

ASSUME PlatformAssumption ==
    /\ Masks \subseteq SUBSET Bits
    /\ 0 \in Words
    /\ MaxCount \in Nat

VARIABLES
    irq_status,      \* The device: pending interrupts.  Its line is level.
    scratch,         \* The device: the scratch register.
    irq_count,       \* struct qemu_edu_platform.
    last_irq_status, \* struct qemu_edu_platform.
    irq_pc,          \* Control state of the interrupt handler.
    status,          \* Its local variable.
    registered,      \* The handler is registered.
    binder,          \* Control state of probe and remove.
    pc,              \* Control state of every user.
    tool,            \* Shell variables of every user's tool, and its result.
    recorded,        \* History: interrupts whose status has been recorded.
    owed             \* History: bits raised and not recorded since.

device  == <<irq_status, scratch>>
driver  == <<irq_count, last_irq_status, recorded>>
handler == <<irq_pc, status>>
bus     == <<registered, binder>>
users   == <<pc, tool>>
vars    == <<device, driver, handler, bus, users, owed>>

\* The line the device drives.
Asserted == irq_status # {}

FreshTool ==
    [mask    |-> {},     \* the mask raised
     value   |-> 0,      \* the word written to scratch
     before  |-> 0,      \* interrupt_count before the raise
     shown   |-> {},     \* the status printed
     result  |-> "none",
     rebound |-> FALSE,  \* History: the driver was removed since then.
     alone   |-> FALSE]  \* History: nothing else was or went on since then.

-----------------------------------------------------------------------------
(* Register writes of the device.                                          *)

WriteRaise(mask) == irq_status' = irq_status \cup mask /\ UNCHANGED scratch
WriteAck(mask)   == irq_status' = irq_status \ mask /\ UNCHANGED scratch

-----------------------------------------------------------------------------
(* The handler qemu_edu_platform_irq.  The interrupt controller does not   *)
(* enter it again before it has returned.                                  *)

IrqGoto(from, to) == irq_pc = from /\ irq_pc' = to /\ UNCHANGED <<bus, users>>

IrqEnter ==
    /\ registered /\ Asserted
    /\ IrqGoto("idle", "read")
    /\ UNCHANGED <<device, driver, status, owed>>

IrqRead ==
    /\ IrqGoto("read", IF Asserted THEN "ack" ELSE "idle")
    /\ status' = irq_status
    /\ UNCHANGED <<device, driver, owed>>

\* Mutant: everything is acknowledged.
MutIrqAck ==
    /\ IrqGoto("ack", "record")
    /\ WriteAck(Bits)
    /\ UNCHANGED <<driver, status, owed>>

\* Mutant: the interrupt is counted before its status is recorded, too.
MutIrqCounted ==
    /\ IrqGoto("ack", "record")
    /\ WriteAck(status)
    /\ irq_count' = irq_count + 1
    /\ UNCHANGED <<last_irq_status, recorded, status, owed>>

IrqAck ==
    /\ IrqGoto("ack", "record")
    /\ WriteAck(status)
    /\ UNCHANGED <<driver, status, owed>>

\* Mutant: the register is read again for the record.
MutIrqRecord ==
    /\ IrqGoto("record", "count")
    /\ last_irq_status' = irq_status
    /\ recorded' = recorded + 1
    /\ owed' = owed \ status
    /\ UNCHANGED <<device, irq_count, status>>

IrqRecord ==
    /\ IrqGoto("record", "count")
    /\ last_irq_status' = status
    /\ recorded' = recorded + 1
    /\ owed' = owed \ status
    /\ UNCHANGED <<device, irq_count, status>>

\* Mutant: the count goes down.
MutIrqCount ==
    /\ IrqGoto("count", "idle")
    /\ irq_count' = irq_count - 1
    /\ status' = {}
    /\ UNCHANGED <<device, last_irq_status, recorded, owed>>

IrqCount ==
    /\ IrqGoto("count", "idle")
    /\ irq_count' = irq_count + 1
    /\ status' = {}
    /\ UNCHANGED <<device, last_irq_status, recorded, owed>>

IrqHandler == IrqEnter \/ IrqRead \/ IrqAck \/ IrqRecord \/ IrqCount

-----------------------------------------------------------------------------
(* The files, which exist while the driver is bound, and the tool.         *)

Bound == binder = "bound"

UserGoto(u, from, to) ==
    /\ pc[u] = from
    /\ pc' = [pc EXCEPT ![u] = to]
    /\ UNCHANGED <<driver, handler, bus>>

\* The tool ends, with what its user can see of it.
Exit(u, from, result, shown) ==
    /\ UserGoto(u, from, "done")
    /\ tool' = [tool EXCEPT ![u].result = result, ![u].shown = shown]
    /\ UNCHANGED <<device, owed>>

\* The raise command, up to its reading of interrupt_count.
ToolBefore(u, mask) ==
    /\ Bound
    /\ irq_count < MaxCount
    /\ UserGoto(u, "idle", "open")
    /\ tool' = [v \in Users |->
                  IF v = u
                  THEN [FreshTool EXCEPT !.mask = mask, !.before = irq_count,
                          !.alone = /\ \A w \in Users \ {u} : pc[w] \in {"idle", "done"}
                                    /\ ~Asserted
                                    /\ irq_pc = "idle"]
                  ELSE [tool[v] EXCEPT !.alone = FALSE]]
    /\ UNCHANGED <<device, owed>>

\* The write reaches raise_irq_store.
RaiseEnter(u) ==
    /\ Bound
    /\ tool[u].mask # {}
    /\ UserGoto(u, "open", "raise")
    /\ UNCHANGED <<device, tool, owed>>

\* A mask of zero is EINVAL; the tool ends with the failed write.
RaiseReject(u) == Bound /\ tool[u].mask = {} /\ Exit(u, "open", "rejected", {})

RaiseWrite(u) ==
    /\ UserGoto(u, "raise", "poll")
    /\ WriteRaise(tool[u].mask)
    /\ owed' = owed \cup tool[u].mask
    /\ UNCHANGED tool

\* The loop ends when the count has risen, but also when the file is gone: the
\* comparison with an empty string is an error, which is not true either.
ToolPoll(u) ==
    /\ Bound => irq_count > tool[u].before
    /\ UserGoto(u, "poll", "print")
    /\ UNCHANGED <<device, tool, owed>>

ToolPrint(u) == Bound /\ Exit(u, "print", "ok", last_irq_status)

\* The fifty attempts take five seconds, which is more than an interrupt takes.
ToolGivesUp(u) ==
    /\ Bound /\ irq_count <= tool[u].before
    /\ ~Asserted /\ irq_pc = "idle"
    /\ Exit(u, "poll", "timeout", {})

\* The user has seen the result.
ToolDone(u) ==
    /\ UserGoto(u, "done", "idle")
    /\ tool' = [tool EXCEPT ![u] = FreshTool]
    /\ UNCHANGED <<device, owed>>

\* A file is gone when the tool opens it.
ToolFails(u) ==
    /\ ~Bound
    /\ Exit(u, "open", "gone", {}) \/ Exit(u, "print", "gone", {})

\* scratch_store, written by the tool's scratch command.  Text that kstrtou32
\* refuses changes nothing and is no step.
ScratchEnter(u, word) ==
    /\ Bound
    /\ UserGoto(u, "idle", "scratch")
    /\ tool' = [tool EXCEPT ![u] = [FreshTool EXCEPT !.value = word]]
    /\ UNCHANGED <<device, owed>>

ScratchWrite(u) ==
    /\ UserGoto(u, "scratch", "idle")
    /\ scratch' = tool[u].value
    /\ tool' = [tool EXCEPT ![u] = FreshTool]
    /\ UNCHANGED <<irq_status, owed>>

\* Steps of a tool that has begun.
ToolStep(u) ==
    \/ RaiseEnter(u) \/ RaiseReject(u) \/ RaiseWrite(u) \/ ToolPoll(u) \/ ToolPrint(u)
    \/ ToolGivesUp(u) \/ ToolFails(u) \/ ToolDone(u) \/ ScratchWrite(u)

User(u) ==
    \/ \E mask \in Masks : ToolBefore(u, mask)
    \/ \E word \in Words : ScratchEnter(u, word)
    \/ ToolStep(u)

-----------------------------------------------------------------------------
(* qemu_edu_platform_probe and qemu_edu_platform_remove.                   *)

BinderGoto(from, to) == binder = from /\ binder' = to /\ UNCHANGED <<handler, pc>>

\* The steps up to the check of the identification change nothing; the
\* structure starts with no interrupts counted.
Probe ==
    /\ BinderGoto("unbound", "probe_ack")
    /\ irq_count' = 0 /\ last_irq_status' = {} /\ recorded' = 0
    /\ UNCHANGED <<device, registered, tool, owed>>

ProbeAck ==
    /\ BinderGoto("probe_ack", "probe_irq")
    /\ WriteAck(Bits)
    /\ owed' = {}
    /\ UNCHANGED <<driver, registered, tool>>

ProbeRequestIrq ==
    /\ BinderGoto("probe_irq", "probe_sysfs")
    /\ registered' = TRUE
    /\ UNCHANGED <<device, driver, tool, owed>>

ProbeSysfs ==
    /\ BinderGoto("probe_sysfs", "bound")
    /\ UNCHANGED <<device, driver, registered, tool, owed>>

\* devm_request_irq or device_add_group fails.
ProbeFail ==
    /\ BinderGoto("probe_irq", "unbound") \/ BinderGoto("probe_sysfs", "rel_irq")
    /\ UNCHANGED <<device, driver, registered, tool, owed>>

\* device_remove_group: the files are gone ...
Remove ==
    /\ BinderGoto("bound", "rm_drain")
    /\ tool' = [u \in Users |-> [tool[u] EXCEPT !.rebound = TRUE]]
    /\ UNCHANGED <<device, driver, registered, owed>>

\* Mutant: pending interrupts are acknowledged before writers are gone.
MutRemoveDrained ==
    /\ BinderGoto("rm_drain", "rm_ack")
    /\ UNCHANGED <<device, driver, registered, tool, owed>>

\* ... and their writers have left.
RemoveDrained ==
    /\ \A u \in Users : pc[u] \notin {"raise", "scratch"}
    /\ BinderGoto("rm_drain", "rm_ack")
    /\ UNCHANGED <<device, driver, registered, tool, owed>>

\* Mutant: removal does not acknowledge.
MutRemoveAck ==
    /\ BinderGoto("rm_ack", "rm_sync")
    /\ UNCHANGED <<device, driver, registered, tool, owed>>

RemoveAck ==
    /\ BinderGoto("rm_ack", "rm_sync")
    /\ WriteAck(Bits)
    /\ owed' = {}
    /\ UNCHANGED <<driver, registered, tool>>

\* synchronize_irq.
RemoveSync ==
    /\ irq_pc = "idle"
    /\ BinderGoto("rm_sync", "rel_irq")
    /\ UNCHANGED <<device, driver, registered, tool, owed>>

\* free_irq by devres; it waits for a running handler, too.
ReleaseIrq ==
    /\ irq_pc = "idle"
    /\ BinderGoto("rel_irq", "unbound")
    /\ registered' = FALSE
    /\ UNCHANGED <<device, driver, tool, owed>>

BinderStep ==
    \/ ProbeAck \/ ProbeRequestIrq \/ ProbeSysfs \/ ProbeFail
    \/ RemoveDrained \/ RemoveAck \/ RemoveSync \/ ReleaseIrq

-----------------------------------------------------------------------------
(* The system.                                                             *)

\* qemu_edu_platform_reset, before the guest boots.
Init ==
    /\ irq_status = {} /\ scratch = 0
    /\ irq_count = 0 /\ last_irq_status = {} /\ recorded = 0
    /\ irq_pc = "idle" /\ status = {}
    /\ registered = FALSE /\ binder = "unbound"
    /\ pc = [u \in Users |-> "idle"]
    /\ tool = [u \in Users |-> FreshTool]
    /\ owed = {}

Next ==
    \/ \E u \in Users : User(u)
    \/ IrqHandler
    \/ Probe \/ Remove \/ BinderStep

Spec == Init /\ [][Next]_vars

\* Whoever is inside the kernel goes on, and an asserted line is delivered.
FairSpec ==
    /\ Spec
    /\ WF_vars(IrqHandler)
    /\ WF_vars(BinderStep)
    /\ \A u \in Users : WF_vars(RaiseWrite(u) \/ ScratchWrite(u))

-----------------------------------------------------------------------------
(* Properties.                                                             *)

ToolType ==
    [mask : SUBSET Bits, value : Words, before : Nat, shown : SUBSET Bits,
     result : {"none", "ok", "timeout", "gone", "rejected"},
     rebound : BOOLEAN, alone : BOOLEAN]

\* Type invariant: the registers, the fields of struct qemu_edu_platform, the
\* control states and the tool's variables keep their types.
TypeOK ==
    /\ irq_status \subseteq Bits
    /\ scratch \in Words
    /\ irq_count \in Nat /\ recorded \in Nat
    /\ last_irq_status \subseteq Bits
    /\ irq_pc \in {"idle", "read", "ack", "record", "count"}
    /\ status \subseteq Bits
    /\ registered \in BOOLEAN
    /\ binder \in {"unbound", "probe_ack", "probe_irq", "probe_sysfs", "bound",
                   "rm_drain", "rm_ack", "rm_sync", "rel_irq"}
    /\ pc \in [Users -> {"idle", "open", "raise", "poll", "print", "done",
                      "scratch"}]
    /\ tool \in [Users -> ToolType]
    /\ owed \subseteq Bits

\* "Removal acknowledges pending state and synchronizes the IRQ before managed
\* resources are released": once the handler is gone no interrupt is pending,
\* so that the line is low and stays low until the next binding; and no
\* handler runs without its structure.
QuietAfterRemoval ==
    /\ ~registered => ~Asserted
    /\ irq_pc # "idle" => registered

\* Whoever sees the count of an interrupt sees its status or a later one: the
\* number of recorded statuses is never behind irq_count.
StatusNotOlderThanCount == recorded >= irq_count

\* "... acknowledges the exact nonzero mask, records it": no raise is swallowed.
\* A bit that was raised is pending, or being handled, or recorded, however
\* many raises merge into one interrupt; and no tool waits in vain, unless the
\* driver is removed meanwhile.
NoRaiseSwallowed ==
    /\ owed \subseteq irq_status \cup (IF irq_pc = "record" THEN status ELSE {})
    /\ \A u \in Users : tool[u].result = "timeout" => tool[u].rebound

\* "The runtime contract proves two distinct masks": a raise that no other tool
\* overlaps and during which the driver stays bound shows its own mask, and the
\* device has interrupted exactly once more, however the tool's reads interleave
\* with the handler.  (With other users at work the tool may show a mask of
\* theirs, after a removal the status of the next binding.)
RaiseShowsItsMask ==
    \A u \in Users :
      tool[u].result = "ok" /\ tool[u].alone /\ ~tool[u].rebound =>
        /\ tool[u].shown = tool[u].mask
        /\ irq_count = tool[u].before + 1

\* "... acknowledges the exact nonzero mask": every pending bit is acknowledged
\* in the end, by the handler or by removal.
EveryBitAcknowledged ==
    \A b \in Bits : b \in irq_status ~> b \notin irq_status
=============================================================================
