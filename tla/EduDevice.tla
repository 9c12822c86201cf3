----------------------------- MODULE EduDevice -----------------------------
(***************************************************************************)
(* The EDU PCI device as the driver qemu_edu.c sees it: QEMU's model       *)
(* hw/misc/edu.c (outside this repository), with the repository's backport *)
(* 0001-hw-misc-edu-restrict-dma-access-to-dma-buffer.patch, and the path  *)
(* of an interrupt from the device to the CPU.                             *)
(*                                                                         *)
(* QEMU runs every register access of a virtual CPU and every timer under  *)
(* one lock, so each is one step.  The factorial is computed by a thread   *)
(* that takes that lock only to raise its interrupt: its five accesses to  *)
(* the registers are five steps.                                           *)
(***************************************************************************)
EXTENDS Integers

CONSTANTS
    WordMax,    \* Largest value of a 32-bit register: 2^32 - 1.
    Handles,    \* Bus addresses the kernel may give to the coherent buffer.
    BufSize,    \* EDU_DMA_BUFFER_SIZE: bytes of the coherent buffer.
    DevStart,   \* EDU_DMA_DEVICE_BUFFER: where the device's own buffer starts.
    DevSize,    \* Bytes of the device's own buffer.
    Lengths     \* Transfer lengths user space may write.

ASSUME BufferAssumption ==
    /\ WordMax \in Nat
    /\ BufSize \in Nat \ {0}
    /\ DevSize = BufSize
    /\ DevStart \in Nat
    /\ Handles \subseteq Nat
    /\ Lengths \subseteq Nat

Word == 0 .. WordMax

\* ~n on a 32-bit word.
Complement(n) == WordMax - n

\* A 32-bit status word is the set of its bits that are one; "other" stands
\* for the 30 bits to which the driver gives no meaning.
IrqBits == {"factorial", "dma", "other"}

\* The bits of the DMA command register: EDU_DMA_RUN, TO_RAM, IRQ_ENABLE.
CommandBits == {"run", "to_ram", "irq"}

\* A byte is known by what was written last: the pattern of a length, its
\* complement, zero, or what a transfer the bus refuses leaves behind.
Cells == [byte : {"pattern", "sentinel"}, length : Lengths]
           \cup {[byte |-> "zero"], [byte |-> "unmapped"]}

Zero     == [byte |-> "zero"]
Unmapped == [byte |-> "unmapped"]
Offsets  == 0 .. BufSize - 1

\* n!, the loop of the factorial thread.
Factorial[n \in Nat] == IF n = 0 THEN 1 ELSE n * Factorial[n - 1]

\* 12! is the largest factorial a 32-bit register holds; a larger operand is
\* not accepted by the driver.
Operands == 0 .. 12

VARIABLES
    irq_status,   \* Register 0x24: interrupt bits not yet acknowledged.
    intx_line,    \* Level of the shared legacy interrupt line.
    msi_on,       \* MSI enabled in the function's configuration space.
    msi_pending,  \* An MSI message latched by the interrupt controller.
    bus_master,   \* Bus Master Enable in the function's command register.
    liveness,     \* Register 0x04: complement of what was written last.
    status_irq,   \* EDU_STATUS_IRQ_FACTORIAL of register 0x20.
    computing,    \* EDU_STATUS_COMPUTING of register 0x20.
    fact,         \* Register 0x08: operand, later result.
    fact_pc,      \* Control state of the factorial thread.
    fact_val,     \* Operand the factorial thread works on.
    dma,          \* Registers 0x80, 0x88, 0x90 and 0x98.
    dev_buf,      \* The device's DMA buffer.
    ram           \* Main memory behind every bus address of Handles.

irqVars  == <<irq_status, intx_line, msi_pending>>
pciVars  == <<msi_on, bus_master>>
factVars == <<status_irq, computing, fact, fact_pc, fact_val>>
memVars  == <<dma, dev_buf, ram>>

deviceVars == <<irqVars, pciVars, liveness, factVars, memVars>>

DeviceTypeOK ==
    /\ irq_status \subseteq IrqBits
    /\ intx_line \in BOOLEAN
    /\ msi_on \in BOOLEAN
    /\ msi_pending \in BOOLEAN
    /\ bus_master \in BOOLEAN
    /\ status_irq \in BOOLEAN
    /\ computing \in BOOLEAN
    /\ liveness \in Word
    /\ fact \in Operands \cup {Factorial[n] : n \in Operands}
    /\ fact_pc \in {"wait", "compute", "clear", "check", "raise"}
    /\ fact_val \in Operands
    /\ dma \in [src : Nat, dst : Nat, cnt : Nat, cmd : SUBSET CommandBits]
    /\ dev_buf \in [Offsets -> Cells]
    /\ ram \in [Handles -> [Offsets -> Cells]]

DeviceInit ==
    /\ irq_status = {}
    /\ intx_line = FALSE
    /\ msi_on = FALSE
    /\ msi_pending = FALSE
    /\ bus_master = FALSE
    /\ liveness = 0
    /\ status_irq = FALSE
    /\ computing = FALSE
    /\ fact = 0
    /\ fact_pc = "wait"
    /\ fact_val = 0
    /\ dma = [src |-> 0, dst |-> 0, cnt |-> 0, cmd |-> {}]
    /\ dev_buf = [i \in Offsets |-> Zero]
    /\ ram = [h \in Handles |-> [i \in Offsets |-> Zero]]

-----------------------------------------------------------------------------
(* Interrupts.                                                             *)

\* edu_raise_irq: the bits are set; the device then sends an MSI, a write on
\* the bus that is lost while bus mastering is off, or asserts its line.
RaiseIrq(bits) ==
    /\ irq_status' = irq_status \cup bits
    /\ msi_pending' = (msi_pending \/ (msi_on /\ bus_master))
    /\ intx_line' = (intx_line \/ ~msi_on)

\* edu_lower_irq.
LowerIrq(bits) ==
    /\ irq_status' = irq_status \ bits
    /\ intx_line' = (intx_line /\ (irq_status \subseteq bits => msi_on))
    /\ UNCHANGED msi_pending

\* The interrupt controller has something to deliver to a handler.
InterruptAsserted == IF msi_on THEN msi_pending ELSE intx_line

-----------------------------------------------------------------------------
(* Register writes, and the configuration bits the PCI core writes.        *)

WriteIrqRaise(bits) ==
    RaiseIrq(bits) /\ UNCHANGED <<pciVars, liveness, factVars, memVars>>

WriteIrqAck(bits) ==
    LowerIrq(bits) /\ UNCHANGED <<pciVars, liveness, factVars, memVars>>

WriteLiveness(n) ==
    /\ liveness' = Complement(n)
    /\ UNCHANGED <<irqVars, pciVars, factVars, memVars>>

\* A write to the status register reaches only the interrupt-request bit.
WriteStatus(irq) ==
    /\ status_irq' = irq
    /\ UNCHANGED <<computing, fact, fact_pc, fact_val>>
    /\ UNCHANGED <<irqVars, pciVars, liveness, memVars>>

\* A write to the factorial register is ignored while it computes.
WriteFactorial(n) ==
    /\ fact' = IF computing THEN fact ELSE n
    /\ computing' = TRUE
    /\ UNCHANGED <<status_irq, fact_pc, fact_val>>
    /\ UNCHANGED <<irqVars, pciVars, liveness, memVars>>

DmaRunning == "run" \in dma.cmd

\* Every DMA register ignores writes while a transfer is running.
WriteDma(register, value) ==
    /\ dma' = IF DmaRunning THEN dma ELSE [dma EXCEPT ![register] = value]
    /\ UNCHANGED <<irqVars, pciVars, liveness, factVars, dev_buf, ram>>

\* The kernel's pci_set_master and pci_clear_master.
SetMaster(on) ==
    /\ bus_master' = on
    /\ UNCHANGED <<irqVars, msi_on, liveness, factVars, memVars>>

-----------------------------------------------------------------------------
(* The factorial thread.                                                   *)

\* The thread wakes up and reads the operand.
FactTake ==
    /\ fact_pc = "wait"
    /\ computing
    /\ fact_val' = fact
    /\ fact_pc' = "compute"
    /\ UNCHANGED <<status_irq, computing, fact, irqVars>>

\* It stores the product in the register the operand came from.
FactStore ==
    /\ fact_pc = "compute"
    /\ fact' = Factorial[fact_val]
    /\ fact_pc' = "clear"
    /\ UNCHANGED <<status_irq, computing, fact_val, irqVars>>

FactClear ==
    /\ fact_pc = "clear"
    /\ computing' = FALSE
    /\ fact_pc' = "check"
    /\ UNCHANGED <<status_irq, fact, fact_val, irqVars>>

\* Whether to interrupt is decided here and acted upon in the next step: a
\* write of zero to EDU_REG_STATUS in between comes too late.  fact_val, which
\* the thread is done with, is reset.
FactCheck ==
    /\ fact_pc = "check"
    /\ fact_pc' = IF status_irq THEN "raise" ELSE "wait"
    /\ fact_val' = 0
    /\ UNCHANGED <<status_irq, computing, fact, irqVars>>

FactRaise ==
    /\ fact_pc = "raise"
    /\ fact_pc' = "wait"
    /\ RaiseIrq({"factorial"})
    /\ UNCHANGED <<status_irq, computing, fact, fact_val>>

FactThread ==
    /\ FactTake \/ FactStore \/ FactClear \/ FactCheck \/ FactRaise
    /\ UNCHANGED <<pciVars, liveness, memVars>>

-----------------------------------------------------------------------------
(* The DMA timer.                                                          *)

\* edu_check_range, as patched: is a transfer inside the device's buffer?
InDeviceBuffer(start, size) ==
    /\ DevStart <= start
    /\ start + size <= DevStart + DevSize

\* The first dma.cnt bytes of to, overwritten with those of from.
Transfer(from, to) ==
    [i \in Offsets |-> IF i < dma.cnt THEN from[i] ELSE to[i]]

\* What pci_dma_read returns for a bus address.
BusRead(address) ==
    IF bus_master /\ address \in Handles
    THEN ram[address] ELSE [i \in Offsets |-> Unmapped]

\* edu_dma_timer, 100 ms after the command was written.  Copy, clearing of
\* the run bit and interrupt are one timer callback.  The only address in the
\* device's buffer the driver ever programs is its first byte (QemuEdu,
\* DmaSound), so a copy has no offset.
DmaTimer ==
    /\ DmaRunning
    /\ IF "to_ram" \notin dma.cmd
       THEN /\ dev_buf' = IF InDeviceBuffer(dma.dst, dma.cnt)
                          THEN Transfer(BusRead(dma.src), dev_buf)
                          ELSE dev_buf
            /\ UNCHANGED ram
       ELSE /\ ram' = IF /\ InDeviceBuffer(dma.src, dma.cnt)
                         /\ bus_master
                         /\ dma.dst \in Handles
                      THEN [ram EXCEPT ![dma.dst] = Transfer(dev_buf, @)]
                      ELSE ram
            /\ UNCHANGED dev_buf
    /\ dma' = [dma EXCEPT !.cmd = @ \ {"run"}]
    /\ IF "irq" \in dma.cmd THEN RaiseIrq({"dma"}) ELSE UNCHANGED irqVars
    /\ UNCHANGED <<pciVars, liveness, factVars>>
=============================================================================
