---------------------------- MODULE QemuEduProofs ----------------------------
(***************************************************************************)
(* Theorems about QemuEdu, for every value of its constants.               *)
(***************************************************************************)
EXTENDS QemuEdu, TLAPS

USE DEF Procs

-----------------------------------------------------------------------------
(* The device: every operation of EduDevice keeps its registers typed.     *)

DeviceInv == DeviceTypeOK /\ ThreadInv

\* A step that leaves the device alone.
LEMMA DeviceUnchanged ==
  ASSUME DeviceInv, UNCHANGED deviceVars
  PROVE  DeviceInv'
BY DEF DeviceInv, DeviceTypeOK, ThreadInv, deviceVars, irqVars, pciVars, factVars, memVars

\* Register writes keep the device's types: the interrupt registers,
LEMMA IrqWritesTyped ==
  ASSUME DeviceInv, NEW bits \in SUBSET IrqBits,
         WriteIrqRaise(bits) \/ WriteIrqAck(bits)
  PROVE  DeviceInv'
<1>1. CASE WriteIrqRaise(bits)
  BY <1>1 DEF WriteIrqRaise, RaiseIrq, DeviceInv, DeviceTypeOK, ThreadInv, pciVars, factVars, memVars
<1>2. CASE WriteIrqAck(bits)
  BY <1>2 DEF WriteIrqAck, LowerIrq, DeviceInv, DeviceTypeOK, ThreadInv, pciVars, factVars, memVars
<1>3. QED BY <1>1, <1>2

\* the liveness check,
LEMMA LivenessWriteTyped ==
  ASSUME DeviceInv, NEW n \in Word, WriteLiveness(n)
  PROVE  DeviceInv'
<1>1. liveness' \in Word
  BY BufferAssumption DEF BufferAssumption, WriteLiveness, Word, Complement
<1>2. QED
  BY <1>1 DEF DeviceInv, DeviceTypeOK, ThreadInv, WriteLiveness, irqVars, pciVars, factVars, memVars

\* the completion interrupt,
LEMMA StatusWriteTyped ==
  ASSUME DeviceInv, NEW on \in BOOLEAN, WriteStatus(on)
  PROVE  DeviceInv'
BY DEF DeviceInv, DeviceTypeOK, ThreadInv, WriteStatus, irqVars, pciVars, memVars

\* the factorial operand,
LEMMA FactorialWriteTyped ==
  ASSUME DeviceInv, NEW n \in Operands, WriteFactorial(n)
  PROVE  DeviceInv'
BY DEF DeviceInv, DeviceTypeOK, ThreadInv, WriteFactorial, irqVars, pciVars, memVars

\* the DMA registers,
LEMMA DmaWriteTyped ==
  ASSUME DeviceInv, NEW register, NEW value, WriteDma(register, value),
         \/ register \in {"src", "dst", "cnt"} /\ value \in Nat
         \/ register = "cmd" /\ value \in SUBSET CommandBits
  PROVE  DeviceInv'
<1>1. dma' \in [src : Nat, dst : Nat, cnt : Nat, cmd : SUBSET CommandBits]
  <2>1. CASE register = "src" BY <2>1 DEF DeviceInv, DeviceTypeOK, WriteDma
  <2>2. CASE register = "dst" BY <2>2 DEF DeviceInv, DeviceTypeOK, WriteDma
  <2>3. CASE register = "cnt" BY <2>3 DEF DeviceInv, DeviceTypeOK, WriteDma
  <2>4. CASE register = "cmd" BY <2>4 DEF DeviceInv, DeviceTypeOK, WriteDma
  <2>5. QED BY <2>1, <2>2, <2>3, <2>4
<1>2. QED
  BY <1>1 DEF DeviceInv, DeviceTypeOK, ThreadInv, WriteDma, irqVars, pciVars, factVars

\* bus mastering,
LEMMA MasterTyped ==
  ASSUME DeviceInv, NEW on \in BOOLEAN, SetMaster(on)
  PROVE  DeviceInv'
BY DEF DeviceInv, DeviceTypeOK, ThreadInv, SetMaster, irqVars, factVars, memVars

\* and the pattern written to the coherent buffer.
LEMMA FillTyped ==
  ASSUME DeviceInv, NEW byte \in {"pattern", "sentinel"}, NEW n \in Lengths, Fill(byte, n)
  PROVE  DeviceInv'
<1>1. ram' \in [Handles -> [Offsets -> Cells]]
  BY DEF DeviceInv, DeviceTypeOK, Fill, Cells
<1>2. QED
  BY <1>1 DEF DeviceInv, DeviceTypeOK, ThreadInv, Fill, irqVars, pciVars, factVars

\* The factorial thread and the DMA timer keep them too.
LEMMA FactThreadTyped ==
  ASSUME DeviceInv, FactThread
  PROVE  DeviceInv'
<1>1. CASE FactTake
  BY <1>1 DEF FactThread, FactTake, DeviceInv, DeviceTypeOK, ThreadInv, irqVars, pciVars, memVars
<1>2. CASE FactStore
  BY <1>2 DEF FactThread, FactStore, DeviceInv, DeviceTypeOK, ThreadInv, irqVars, pciVars, memVars
<1>3. CASE FactClear
  BY <1>3 DEF FactThread, FactClear, DeviceInv, DeviceTypeOK, ThreadInv, irqVars, pciVars, memVars
<1>4. CASE FactCheck
  BY <1>4 DEF FactThread, FactCheck, DeviceInv, DeviceTypeOK, ThreadInv, Operands, irqVars, pciVars, memVars
<1>5. CASE FactRaise
  BY <1>5 DEF FactThread, FactRaise, RaiseIrq, IrqBits, DeviceInv, DeviceTypeOK, ThreadInv, pciVars, memVars
<1>6. QED BY <1>1, <1>2, <1>3, <1>4, <1>5 DEF FactThread

\* The timer copies within the buffers it was given, or nothing.
LEMMA DmaTimerTyped ==
  ASSUME DeviceInv, DmaTimer
  PROVE  DeviceInv'
<1>1. \A a : BusRead(a) \in [Offsets -> Cells]
  BY DEF BusRead, Unmapped, Cells, DeviceInv, DeviceTypeOK
<1>2. \A from, to \in [Offsets -> Cells] : Transfer(from, to) \in [Offsets -> Cells]
  BY DEF Transfer
<1>3. dev_buf' \in [Offsets -> Cells]
  BY <1>1, <1>2 DEF DmaTimer, DeviceInv, DeviceTypeOK
<1>4. ram' \in [Handles -> [Offsets -> Cells]]
  BY <1>2 DEF DmaTimer, DeviceInv, DeviceTypeOK
<1>5. dma' \in [src : Nat, dst : Nat, cnt : Nat, cmd : SUBSET CommandBits]
  BY DEF DmaTimer, DeviceInv, DeviceTypeOK
<1>6. /\ irq_status' \subseteq IrqBits
      /\ intx_line' \in BOOLEAN
      /\ msi_pending' \in BOOLEAN
  BY DEF DmaTimer, RaiseIrq, IrqBits, irqVars, DeviceInv, DeviceTypeOK
<1>7. QED
  BY <1>3, <1>4, <1>5, <1>6 DEF DmaTimer, DeviceInv, DeviceTypeOK, ThreadInv, pciVars, factVars

-----------------------------------------------------------------------------
(* Control.                                                                *)

Labels == TaskLabels \cup BinderLabels

\* A step that process p makes inside the critical section as everyone else
\* sees it: p stays inside, in the call it is in, and nobody else moves.
Inside(p) ==
    /\ pc' \in [Procs -> Labels]
    /\ loc' \in [Procs -> LocalsType]
    /\ \A q \in Procs \ {p} : pc'[q] = pc[q] /\ loc'[q] = loc[q]
    /\ InCritical(p)
    /\ pc'[p] \in TaskLabels \ {"idle"}
    /\ Place(p)' \in Critical \cap TaskLabels
    /\ loc'[p].file = loc[p].file
    /\ loc'[p].value = loc[p].value
    /\ Place(p)' \in FactLabels => loc[p].file = "factorial"
    /\ Place(p)' \in DmaLabels => loc[p].file = "dma_roundtrip"
    /\ UNCHANGED <<lockVars, irqHandler, bindVars>>

\* reinit_completion and complete.
LEMMA CompletionTyped ==
  ASSUME edu \in EduType, NEW done \in {"factorial_done", "any_irq_done", "dma_done"},
         NEW value \in BOOLEAN
  PROVE  [edu EXCEPT ![done] = value] \in EduType /\ edu[done] \in BOOLEAN
<1>1. CASE done = "factorial_done" BY <1>1 DEF EduType
<1>2. CASE done = "any_irq_done" BY <1>2 DEF EduType
<1>3. CASE done = "dma_done" BY <1>3 DEF EduType
<1>4. QED BY <1>1, <1>2, <1>3

\* A wait that was satisfied, timed out or was interrupted.
LEMMA WaitTyped ==
  ASSUME TypeOK, NEW t \in Tasks, NEW from \in TaskLabels, NEW to \in TaskLabels,
         NEW done \in {"factorial_done", "any_irq_done", "dma_done"},
         NEW interruptible \in BOOLEAN, Wait(t, from, to, done, interruptible)
  PROVE  /\ edu' \in EduType
         /\ pc[t] = from /\ pc'[t] = to /\ pc' \in [Procs -> Labels]
         /\ loc' \in [Procs -> LocalsType]
         /\ \A q \in Procs \ {t} : pc'[q] = pc[q] /\ loc'[q] = loc[q]
         /\ loc'[t].file = loc[t].file /\ loc'[t].value = loc[t].value
<1>1. edu' \in EduType
  BY CompletionTyped DEF Wait, TypeOK
<1>2. PICK w \in {"done", "timeout", "signal"} : loc' = [loc EXCEPT ![t].waited = w]
  BY DEF Wait
<1>3. /\ loc' \in [Procs -> LocalsType]
      /\ \A q \in Procs \ {t} : loc'[q] = loc[q]
      /\ loc'[t].file = loc[t].file /\ loc'[t].value = loc[t].value
  BY <1>2 DEF TypeOK, LocalsType
<1>4. QED
  BY <1>1, <1>3 DEF Wait, Step, Goto, TypeOK, Labels

\* Each store goes from a label of its critical section to another, and its mutex stays its own.
LEMMA FactorialInside ==
  ASSUME TypeInv, NEW t \in Tasks, FactorialStore(t)
  PROVE  Inside(t)
<1> USE DEF TypeInv, TypeOK, Inside, InCritical, Critical, Place, Labels, FactLabels, DmaLabels, TrigLabels, TaskLabels, Step, Goto
<1>1. CASE FactorialBegin(t) BY <1>1 DEF FactorialBegin, CallAck, LocalsType
<1>2. CASE FactorialRequest(t) BY <1>2 DEF FactorialRequest, CallInv, CallOK
<1>3. CASE FactorialStart(t) BY <1>3 DEF FactorialStart, CallInv, CallOK
<1>4. CASE FactorialWait(t) BY <1>4, WaitTyped DEF FactorialWait, Wait, CallInv, CallOK
<1>5. CASE FactorialStop(t) BY <1>5 DEF FactorialStop, Finish, CallInv, CallOK, WaitError, LocalsType, Errors
<1>6. CASE FactorialRead(t) BY <1>6 DEF FactorialRead, Finish, CallInv, CallOK, LocalsType
<1>7. QED BY <1>1, <1>2, <1>3, <1>4, <1>5, <1>6 DEF FactorialStore

\* The same for liveness_store,
LEMMA LivenessInside ==
  ASSUME TypeInv, NEW t \in Tasks, LivenessStore(t)
  PROVE  Inside(t)
<1> USE DEF TypeInv, TypeOK, Inside, InCritical, Critical, Place, Labels, FactLabels, DmaLabels, TrigLabels, TaskLabels, Step, Goto
<1>1. CASE LivenessWrite(t) BY <1>1 DEF LivenessWrite, CallInv, CallOK
<1>2. CASE LivenessRead(t) BY <1>2 DEF LivenessRead, Finish, CallInv, CallOK, LocalsType
<1>3. QED BY <1>1, <1>2 DEF LivenessStore

\* trigger_irq_store,
LEMMA TriggerInside ==
  ASSUME TypeInv, NEW t \in Tasks, TriggerIrqStore(t)
  PROVE  Inside(t)
<1> USE DEF TypeInv, TypeOK, Inside, InCritical, Critical, Place, Labels, FactLabels, DmaLabels, TrigLabels, TaskLabels, Step, Goto
<1>1. CASE TriggerBegin(t) BY <1>1 DEF TriggerBegin, CallAck, LocalsType
<1>2. CASE TriggerRaise(t) BY <1>2 DEF TriggerRaise, CallInv, CallOK
<1>3. CASE TriggerWait(t) BY <1>3, WaitTyped DEF TriggerWait, Wait, CallInv, CallOK
<1>4. CASE TriggerEnd(t) BY <1>4 DEF TriggerEnd, Finish, CallInv, CallOK, WaitError, LocalsType, Errors
<1>5. QED BY <1>1, <1>2, <1>3, <1>4 DEF TriggerIrqStore

\* dma_test_store,
LEMMA DmaInside ==
  ASSUME TypeInv, NEW t \in Tasks, DmaRoundtripStore(t)
  PROVE  Inside(t)
<1> USE DEF TypeInv, TypeOK, Inside, InCritical, Critical, Place, Labels, FactLabels, DmaLabels, TrigLabels, TaskLabels, Step, Goto
<1>1. CASE DmaBegin(t) BY <1>1 DEF DmaBegin, CallAck, LocalsType
<1>2. CASE DmaRefuse(t) BY <1>2 DEF DmaRefuse, Finish, LocalsType, Errors
<1>3. CASE DmaSource(t) BY <1>3 DEF DmaSource, CallInv, CallOK
<1>4. CASE DmaDestination(t) BY <1>4 DEF DmaDestination, CallInv, CallOK
<1>5. CASE DmaCount(t) BY <1>5 DEF DmaCount, CallInv, CallOK
<1>6. CASE DmaCommand(t) BY <1>6 DEF DmaCommand, CallInv, CallOK
<1>7. CASE DmaWait(t) BY <1>7, WaitTyped DEF DmaWait, Wait, CallInv, CallOK
<1>8. CASE DmaReadCommand(t)
  <2>1. DmaRunning \in BOOLEAN BY DEF DmaRunning
  <2>2. PICK b \in BOOLEAN : loc' = [loc EXCEPT ![t].running = b]
    BY <1>8, <2>1 DEF DmaReadCommand
  <2>3. QED BY <1>8, <2>2 DEF DmaReadCommand, CallInv, CallOK, LocalsType
<1>9. CASE DmaReadStatus(t) BY <1>9 DEF DmaReadStatus, CallInv, CallOK
<1>10. CASE DmaFault(t) BY <1>10 DEF DmaFault, CallAck, CallInv, CallOK, LocalsType
<1>11. CASE DmaSync(t) BY <1>11 DEF DmaSync, Finish, CallInv, CallOK, LocalsType, Errors
<1>12. CASE DmaSentinel(t) BY <1>12 DEF DmaSentinel, CallInv, CallOK, LocalsType
<1>13. CASE DmaVerify(t) BY <1>13 DEF DmaVerify, Finish, CallInv, CallOK, LocalsType, Errors
<1>14. QED BY <1>1, <1>2, <1>3, <1>4, <1>5, <1>6, <1>7, <1>8, <1>9, <1>10,
              <1>11, <1>12, <1>13 DEF DmaRoundtripStore

\* and qemu_edu_ack_pending_irqs within any of them.
LEMMA AckInside ==
  ASSUME TypeInv, NEW t \in Tasks, AckRead(t) \/ AckWrite(t), InCritical(t)
  PROVE  Inside(t) /\ Place(t)' = Place(t)
<1>1. PICK status \in SUBSET IrqBits, to \in TaskLabels :
        /\ loc' = [loc EXCEPT ![t].status = status]
        /\ pc' = [pc EXCEPT ![t] = to]
        /\ to \in {"ack_write", loc[t].resume}
  <2>1. CASE AckRead(t)
    BY <2>1 DEF AckRead, Step, Goto, TypeInv, TypeOK, DeviceTypeOK, PlacesInv, Place, TaskLabels
  <2>2. CASE AckWrite(t)
    BY <2>2 DEF AckWrite, Step, Goto, TypeInv, PlacesInv, Place
  <2>3. QED BY <2>1, <2>2
<1>2. /\ pc[t] \in {"ack_read", "ack_write"}
      /\ UNCHANGED <<lockVars, irqHandler, bindVars>>
  BY DEF AckRead, AckWrite, Step, Goto
<1>3. /\ pc \in [Procs -> Labels]
      /\ loc \in [Procs -> LocalsType]
      /\ loc[t].resume \in TaskLabels \ {"ack_read", "ack_write"}
      /\ loc[t].resume \in Critical
      /\ "idle" \notin Critical
  BY <1>2 DEF TypeInv, TypeOK, PlacesInv, InCritical, Place, Labels, Critical, FactLabels,
              TrigLabels, DmaLabels, RemoveLabels
<1>4. /\ loc' \in [Procs -> LocalsType]
      /\ \A q \in Procs \ {t} : loc'[q] = loc[q]
      /\ loc'[t].file = loc[t].file
      /\ loc'[t].value = loc[t].value
      /\ loc'[t].resume = loc[t].resume
  BY <1>1, <1>3 DEF LocalsType
<1>5. /\ pc' \in [Procs -> Labels]
      /\ \A q \in Procs \ {t} : pc'[q] = pc[q]
      /\ pc'[t] \in {"ack_write", loc[t].resume}
  BY <1>1, <1>3 DEF Labels
<1>6. Place(t) = loc[t].resume /\ Place(t)' = loc[t].resume
  BY <1>2, <1>3, <1>4, <1>5 DEF Place
<1>7. QED
  BY <1>1, <1>2, <1>3, <1>4, <1>5, <1>6 DEF Inside, InCritical, TypeInv, CallInv, CallOK, TaskLabels

-----------------------------------------------------------------------------
(* Types: the device and struct qemu_edu after a step of a store function. *)

\* The same steps keep the types: liveness_store,
LEMMA LivenessTyped ==
  ASSUME TypeInv, NEW t \in Tasks, LivenessStore(t)
  PROVE  DeviceInv' /\ edu' \in EduType
<1>0. DeviceInv /\ edu \in EduType BY DEF TypeInv, TypeOK, DeviceInv
<1>1. CASE LivenessWrite(t)
  <2>1. loc[t].value \in Word BY <1>1 DEF LivenessWrite, TypeInv, CallInv, CallOK
  <2>2. QED BY <1>0, <1>1, <2>1, LivenessWriteTyped DEF LivenessWrite, EduType
<1>2. CASE LivenessRead(t)
  BY <1>0, <1>2, DeviceUnchanged DEF LivenessRead, EduType, DeviceInv, DeviceTypeOK
<1>3. QED BY <1>1, <1>2 DEF LivenessStore

\* factorial_store,
LEMMA FactorialTyped ==
  ASSUME TypeInv, NEW t \in Tasks, FactorialStore(t)
  PROVE  DeviceInv' /\ edu' \in EduType
<1>0. DeviceInv /\ edu \in EduType BY DEF TypeInv, TypeOK, DeviceInv
<1>1. Place(t) \in FactLabels => loc[t].value \in Operands BY DEF TypeInv, CallInv, CallOK
<1>2. CASE FactorialBegin(t)
  BY <1>0, <1>2, StatusWriteTyped DEF FactorialBegin, EduType
<1>3. CASE FactorialRequest(t)
  <2>1. (~parameter.force_factorial_timeout) \in BOOLEAN OBVIOUS
  <2>2. QED BY <1>0, <1>3, <2>1, StatusWriteTyped DEF FactorialRequest, EduType
<1>4. CASE FactorialStart(t)
  <2>1. loc[t].value \in Operands
    BY <1>1, <1>4 DEF FactorialStart, Step, Goto, Place, FactLabels
  <2>2. QED BY <1>0, <1>4, <2>1, FactorialWriteTyped DEF FactorialStart
<1>5. CASE FactorialWait(t)
  BY <1>0, <1>5, WaitTyped, DeviceUnchanged
     DEF FactorialWait, Wait, TypeInv, TaskLabels, FactLabels
<1>6. CASE FactorialStop(t)
  BY <1>0, <1>6, StatusWriteTyped DEF FactorialStop
<1>7. CASE FactorialRead(t)
  <2>1. loc[t].value \in Operands
    BY <1>1, <1>7 DEF FactorialRead, Finish, Step, Goto, Place, FactLabels
  <2>2. QED
    BY <1>0, <1>7, <2>1, DeviceUnchanged DEF FactorialRead, EduType, DeviceInv, DeviceTypeOK
<1>8. QED BY <1>2, <1>3, <1>4, <1>5, <1>6, <1>7 DEF FactorialStore

\* trigger_irq_store,
LEMMA TriggerTyped ==
  ASSUME TypeInv, NEW t \in Tasks, TriggerIrqStore(t)
  PROVE  DeviceInv' /\ edu' \in EduType
<1>0. DeviceInv /\ edu \in EduType BY DEF TypeInv, TypeOK, DeviceInv
<1>1. CASE TriggerBegin(t) BY <1>0, <1>1, DeviceUnchanged DEF TriggerBegin
<1>2. CASE TriggerRaise(t)
  <2>1. loc[t].mask \in SUBSET IrqBits BY DEF TypeInv, TypeOK, LocalsType
  <2>2. QED BY <1>0, <1>2, <2>1, IrqWritesTyped DEF TriggerRaise, EduType
<1>3. CASE TriggerWait(t)
  BY <1>0, <1>3, WaitTyped, DeviceUnchanged
     DEF TriggerWait, Wait, TypeInv, TaskLabels, TrigLabels
<1>4. CASE TriggerEnd(t) BY <1>0, <1>4, DeviceUnchanged DEF TriggerEnd
<1>5. QED BY <1>1, <1>2, <1>3, <1>4 DEF TriggerIrqStore

\* dma_test_store.
LEMMA DmaTyped ==
  ASSUME TypeInv, NEW t \in Tasks, DmaRoundtripStore(t)
  PROVE  DeviceInv' /\ edu' \in EduType
<1>0. DeviceInv /\ edu \in EduType BY DEF TypeInv, TypeOK, DeviceInv
<1>1. Place(t) \in DmaLabels \/ loc[t].file = "dma_roundtrip" => loc[t].value \in Lengths
  BY DEF TypeInv, CallInv, CallOK
<1>2. edu.dma_handle \in Nat /\ DevStart \in Nat
  <2>1. edu.dma_handle \in Handles \cup {0} BY <1>0 DEF EduType
  <2>2. \A h \in Handles : h \in Nat BY BufferAssumption DEF BufferAssumption
  <2>3. DevStart \in Nat BY BufferAssumption DEF BufferAssumption
  <2>4. QED BY <2>1, <2>2, <2>3
<1>3. Place(t) \in DmaLabels => loc[t].value \in Nat
  BY <1>1, BufferAssumption DEF BufferAssumption
<1>4. CASE DmaBegin(t) BY <1>0, <1>1, <1>4, FillTyped DEF DmaBegin
<1>5. CASE DmaRefuse(t) BY <1>0, <1>5, DeviceUnchanged DEF DmaRefuse
<1>6. CASE DmaSource(t) BY <1>0, <1>2, <1>6, DmaWriteTyped DEF DmaSource, EduType
<1>7. CASE DmaDestination(t) BY <1>0, <1>2, <1>7, DmaWriteTyped DEF DmaDestination
<1>8. CASE DmaCount(t)
  <2>1. loc[t].value \in Nat
    BY <1>3, <1>8 DEF DmaCount, Step, Goto, Place, DmaLabels
  <2>2. QED BY <1>0, <1>8, <2>1, DmaWriteTyped DEF DmaCount
<1>9. CASE DmaCommand(t)
  BY <1>0, <1>9, DmaWriteTyped DEF DmaCommand, CommandBits
<1>10. CASE DmaWait(t)
  BY <1>0, <1>10, WaitTyped, DeviceUnchanged
     DEF DmaWait, Wait, TypeInv, TaskLabels, DmaLabels
<1>11. CASE DmaReadCommand(t)
  <2>1. UNCHANGED <<deviceVars, edu>> BY <1>11, Zenon DEF DmaReadCommand
  <2>2. QED BY <1>0, <2>1, DeviceUnchanged
<1>12. CASE DmaReadStatus(t) BY <1>0, <1>12, DeviceUnchanged DEF DmaReadStatus
<1>13. CASE DmaFault(t) BY <1>0, <1>13, MasterTyped DEF DmaFault, EduType
<1>14. CASE DmaSync(t)
  <2>1. loc[t].value \in Lengths
    BY <1>1, <1>14 DEF DmaSync, Finish, Step, Goto, Place, DmaLabels
  <2>2. QED BY <1>0, <1>14, <2>1, DeviceUnchanged DEF DmaSync, EduType, DmaResults
<1>15. CASE DmaSentinel(t)
  <2>1. loc[t].value \in Lengths
    BY <1>1, <1>15 DEF DmaSentinel, Step, Goto, Place, DmaLabels
  <2>2. QED BY <1>0, <1>15, <2>1, FillTyped DEF DmaSentinel
<1>16. CASE DmaVerify(t)
  <2>1. loc[t].value \in Lengths
    BY <1>1, <1>16 DEF DmaVerify, Finish, Step, Goto, Place, DmaLabels
  <2>2. QED BY <1>0, <1>16, <2>1, DeviceUnchanged DEF DmaVerify, EduType, DmaResults
<1>17. QED
  BY <1>4, <1>5, <1>6, <1>7, <1>8, <1>9, <1>10, <1>11, <1>12, <1>13, <1>14,
     <1>15, <1>16 DEF DmaRoundtripStore

-----------------------------------------------------------------------------
(* Types: the invariant is kept.                                           *)

\* Process p moves, perhaps with new local variables; no other process does.
Alone(p) ==
    /\ pc' \in [Procs -> Labels]
    /\ loc' \in [Procs -> LocalsType]
    /\ \A q \in Procs \ {p} : pc'[q] = pc[q] /\ loc'[q] = loc[q]

\* A task that moves alone and stays typed keeps the invariant.
LEMMA TaskKeepsTypes ==
  ASSUME TypeInv, NEW t \in Tasks, Alone(t), pc'[t] \in TaskLabels,
         Place(t)' \in TaskLabels \ {"ack_read", "ack_write"},
         pc'[t] \in {"ack_read", "ack_write"} => InCritical(t)', CallOK(t)',
         DeviceInv', edu' \in EduType,
         operation_lock' \in Procs \cup {NoOwner},
         count_at_lock' \in 0 .. CountModulus - 1,
         UNCHANGED <<irqHandler, bindVars>>
  PROVE  TypeInv'
<1>1. TypeOK'
  BY DEF TypeInv, TypeOK, DeviceInv, Alone, Labels, irqHandler, bindVars
<1>2. \A p \in Procs \ {t} : loc'[p] = loc[p] /\ pc'[p] = pc[p] /\ Place(p)' = Place(p)
  BY DEF Alone, Place
<1>3. Binder # t
  BY DriverAssumption DEF DriverAssumption
<1>4. PlacesInv'
  BY <1>2, <1>3 DEF TypeInv, PlacesInv, InCritical
<1>5. CallInv'
  BY <1>2 DEF TypeInv, CallInv, CallOK, Word
<1>6. QED BY <1>1, <1>4, <1>5 DEF TypeInv, DeviceInv

\* A step within a critical section is such a move.
LEMMA InsideKeepsTypes ==
  ASSUME TypeInv, NEW t \in Tasks, Inside(t), DeviceInv', edu' \in EduType
  PROVE  TypeInv'
<1>1. Place(t)' \in TaskLabels \ {"ack_read", "ack_write"}
  BY DEF Inside, Critical, FactLabels, TrigLabels, DmaLabels, RemoveLabels
<1>2. CallOK(t)'
  BY DEF TypeInv, CallInv, CallOK, Inside, Word
<1>3. /\ operation_lock' \in Procs \cup {NoOwner}
      /\ count_at_lock' \in 0 .. CountModulus - 1
  BY DEF TypeInv, TypeOK, Inside, lockVars
<1>4. Alone(t) /\ pc'[t] \in TaskLabels /\ UNCHANGED <<irqHandler, bindVars>>
  BY DEF Inside, Alone
<1>5. InCritical(t)'
  BY DEF Inside, InCritical
<1>6. QED BY <1>1, <1>2, <1>3, <1>4, <1>5, TaskKeepsTypes

\* Every step of a store is one.
LEMMA StoreInside ==
  ASSUME TypeInv, NEW t \in Tasks, StoreStep(t), ~Unlock(t), ~Return(t)
  PROVE  Inside(t) /\ DeviceInv' /\ edu' \in EduType
BY LivenessInside, FactorialInside, TriggerInside, DmaInside,
   LivenessTyped, FactorialTyped, TriggerTyped, DmaTyped DEF StoreStep

\* So is the acknowledgement.
LEMMA AckTyped ==
  ASSUME TypeInv, NEW p \in Procs, AckRead(p) \/ AckWrite(p)
  PROVE  DeviceInv' /\ edu' \in EduType
<1>0. DeviceInv /\ edu \in EduType /\ loc[p].status \in SUBSET IrqBits
  BY DEF TypeInv, TypeOK, DeviceInv, LocalsType
<1>1. CASE AckRead(p) BY <1>0, <1>1, DeviceUnchanged DEF AckRead
<1>2. CASE AckWrite(p) BY <1>0, <1>2, IrqWritesTyped DEF AckWrite
<1>3. QED BY <1>1, <1>2

\* A task that enters or leaves a store function.
Boundary(t) ==
    /\ Alone(t)
    /\ CallOK(t)'
    /\ UNCHANGED <<irqHandler, bindVars, deviceVars, edu>>
    /\ \/ /\ pc[t] = "idle" /\ pc'[t] \in {"lock", "return"}
          /\ pc[Binder] = "bound"
          /\ UNCHANGED lockVars
       \/ /\ pc[t] = "lock" /\ pc'[t] = "locked"
          /\ operation_lock = NoOwner /\ operation_lock' = t
          /\ count_at_lock' = edu.irq_count
       \/ /\ pc[t] = "unlock" /\ pc'[t] = "return"
          /\ operation_lock' = NoOwner
          /\ count_at_lock' = 0
       \/ /\ pc[t] = "return" /\ pc'[t] = "idle"
          /\ UNCHANGED lockVars

\* Calls, returns and the mutex are the other steps of a task.
LEMMA CallBoundary ==
  ASSUME TypeInv, NEW t \in Tasks, Call(t) \/ Lock(t) \/ Unlock(t) \/ Return(t)
  PROVE  Boundary(t)
<1> USE DEF TypeInv, TypeOK, Step, Goto, Place, Labels, TaskLabels, FactLabels, DmaLabels, Alone, CallOK
<1>1. CASE Call(t)
  <2>1. CASE \E f \in FileNames, n \in Nat, m \in SUBSET IrqBits :
               /\ Store(t, f, n, m)
               /\ f = "liveness" => n \in Word
               /\ f = "factorial" => n \in Operands
               /\ f = "dma_roundtrip" => n \in Lengths
    <3>1. PICK f \in FileNames, n \in Nat, m \in SUBSET IrqBits :
            /\ Store(t, f, n, m)
            /\ f = "liveness" => n \in Word
            /\ f = "factorial" => n \in Operands
            /\ f = "dma_roundtrip" => n \in Lengths
      BY <2>1
    <3>2. loc' \in [Procs -> LocalsType] /\ loc'[t].file = f /\ loc'[t].value = n
      BY <3>1 DEF Store, FreshLocals, LocalsType
    <3>3. QED BY <3>1, <3>2 DEF Store, Boundary
  <2>2. CASE \E error \in Errors : Reject(t, error)
    BY <2>2 DEF Reject, LocalsType, Boundary, CallInv
  <2>3. CASE \E n \in LiveInputs : Store(t, "liveness", n, {})
    <3>1. \A n \in LiveInputs : n \in Word
      BY DriverAssumption DEF DriverAssumption
    <3>2. \A n \in Word : n \in Nat
      BY BufferAssumption DEF BufferAssumption, Word
    <3>3. QED BY <2>1, <2>3, <3>1, <3>2 DEF FileNames
  <2>4. CASE \E n \in FactInputs : FactorialAccepts(n) /\ Store(t, "factorial", n, {})
    <3>1. \A n \in Operands : n \in Nat BY DEF Operands
    <3>2. QED BY <2>1, <2>4, <3>1 DEF FileNames, FactorialAccepts
  <2>5. CASE \E m \in Masks \ {{}} : Store(t, "trigger_irq", 0, m)
    <3>1. \A m \in Masks : m \in SUBSET IrqBits
      BY DriverAssumption DEF DriverAssumption
    <3>2. QED BY <2>1, <2>5, <3>1 DEF FileNames
  <2>6. CASE \E n \in Lengths : DmaAccepts(n) /\ Store(t, "dma_roundtrip", n, {})
    <3>1. \A n \in Lengths : n \in Nat
      BY BufferAssumption DEF BufferAssumption
    <3>2. QED BY <2>1, <2>6, <3>1 DEF FileNames
  <2>7. QED
    BY <1>1, <2>2, <2>3, <2>4, <2>5, <2>6 DEF Call, Errors
<1>2. CASE Lock(t) BY <1>2 DEF Lock, CallInv, Boundary
<1>3. CASE Unlock(t) BY <1>3 DEF Unlock, CallInv, Boundary
<1>4. CASE Return(t) BY <1>4 DEF Return, FreshLocals, LocalsType, Boundary
<1>5. QED BY <1>1, <1>2, <1>3, <1>4

\* They keep the invariant.
LEMMA BoundaryKeepsTypes ==
  ASSUME TypeInv, NEW t \in Tasks, Boundary(t)
  PROVE  TypeInv'
<1>1. DeviceInv' /\ edu' \in EduType
  BY DeviceUnchanged DEF Boundary, TypeInv, TypeOK, DeviceInv
<1>2. /\ pc'[t] \in TaskLabels \ {"ack_read", "ack_write"}
      /\ Place(t)' \in TaskLabels \ {"ack_read", "ack_write"}
  BY DEF Boundary, Place, TaskLabels
<1>3. operation_lock' \in Procs \cup {NoOwner}
  BY DEF Boundary, TypeInv, TypeOK, lockVars
<1>4. count_at_lock' \in 0 .. CountModulus - 1
  BY DriverAssumption DEF DriverAssumption, Boundary, TypeInv, TypeOK, EduType, lockVars
<1>5. QED BY <1>1, <1>2, <1>3, <1>4, TaskKeepsTypes DEF Boundary

\* The interrupt handler.
LEMMA HandlerKeepsTypes ==
  ASSUME TypeInv, IrqHandler
  PROVE  TypeInv'
<1>0. DeviceInv /\ edu \in EduType /\ irq_val \in SUBSET IrqBits
  BY DEF TypeInv, TypeOK, DeviceInv
<1>1. DeviceInv'
  <2>1. CASE IrqEnter
    BY <1>0, <2>1 DEF IrqEnter, DeviceInv, DeviceTypeOK, ThreadInv, pciVars, factVars, memVars
  <2>2. CASE IrqRead BY <1>0, <2>2, DeviceUnchanged DEF IrqRead
  <2>3. CASE IrqAck BY <1>0, <2>3, IrqWritesTyped DEF IrqAck
  <2>4. CASE IrqRecord BY <1>0, <2>4, DeviceUnchanged DEF IrqRecord
  <2>5. CASE IrqCompleteFactorial
    BY <1>0, <2>5, DeviceUnchanged DEF IrqCompleteFactorial, IrqComplete
  <2>6. CASE IrqCompleteDma
    BY <1>0, <2>6, DeviceUnchanged DEF IrqCompleteDma, IrqComplete
  <2>7. CASE IrqCompleteAny BY <1>0, <2>7, DeviceUnchanged DEF IrqCompleteAny
  <2>8. QED BY <2>1, <2>2, <2>3, <2>4, <2>5, <2>6, <2>7 DEF IrqHandler
<1>2. edu' \in EduType
  <2>1. CASE IrqRecord
    <3>1. (edu.irq_count + 1) % CountModulus \in 0 .. CountModulus - 1
      BY <1>0, DriverAssumption DEF DriverAssumption, EduType
    <3>2. QED BY <1>0, <2>1, <3>1 DEF IrqRecord, EduType
  <2>2. CASE IrqCompleteFactorial
    <3>1. (edu.factorial_done \/ "factorial" \in irq_val) \in BOOLEAN OBVIOUS
    <3>2. QED BY <1>0, <2>2, <3>1 DEF IrqCompleteFactorial, IrqComplete, EduType
  <2>3. CASE IrqCompleteDma
    <3>1. (edu.dma_done \/ "dma" \in irq_val) \in BOOLEAN OBVIOUS
    <3>2. QED BY <1>0, <2>3, <3>1 DEF IrqCompleteDma, IrqComplete, EduType
  <2>4. CASE IrqCompleteAny BY <1>0, <2>4 DEF IrqCompleteAny, EduType
  <2>5. CASE IrqEnter \/ IrqRead \/ IrqAck
    BY <1>0, <2>5 DEF IrqEnter, IrqRead, IrqAck
  <2>6. QED BY <2>1, <2>2, <2>3, <2>4, <2>5 DEF IrqHandler
<1>3. /\ irq_pc' \in {"idle", "read", "ack", "record", "complete_factorial",
                     "complete_dma", "complete_any"}
      /\ irq_val' \subseteq IrqBits
      /\ UNCHANGED <<lockVars, pc, loc, bindVars>>
  BY <1>0 DEF IrqHandler, IrqEnter, IrqRead, IrqAck, IrqRecord, IrqCompleteFactorial,
              IrqCompleteDma, IrqComplete, IrqCompleteAny, IrqGoto, DeviceInv, DeviceTypeOK
<1>4. TypeOK'
  BY <1>1, <1>2, <1>3 DEF TypeInv, TypeOK, DeviceInv, lockVars, bindVars
<1>5. PlacesInv' /\ CallInv'
  BY <1>3 DEF TypeInv, PlacesInv, InCritical, CallInv, CallOK, Place, Word
<1>6. QED BY <1>1, <1>4, <1>5 DEF TypeInv, DeviceInv

\* The device.
LEMMA DeviceStepKeepsTypes ==
  ASSUME TypeInv, FactStep \/ TimerStep
  PROVE  TypeInv'
<1>1. DeviceInv' /\ UNCHANGED driverVars
  BY FactThreadTyped, DmaTimerTyped DEF FactStep, TimerStep, TypeInv, TypeOK, DeviceInv
<1>2. TypeOK'
  BY <1>1 DEF TypeInv, TypeOK, DeviceInv, driverVars, lockVars, irqHandler, bindVars
<1>3. PlacesInv' /\ CallInv'
  BY <1>1 DEF TypeInv, PlacesInv, InCritical, CallInv, CallOK, Place, Word, driverVars
<1>4. QED BY <1>1, <1>2, <1>3 DEF TypeInv, DeviceInv

\* The Binder goes from one place of probe or remove to another.
BinderMove(from, to) ==
    /\ Alone(Binder)
    /\ Place(Binder) = from /\ pc[Binder] \in {from, "ack_read", "ack_write"}
    /\ Place(Binder)' = to /\ pc'[Binder] \in {to, "ack_read", "ack_write"}
    /\ UNCHANGED irqHandler

\* A step of the binder that moves alone and stays typed.
LEMMA BinderKeepsTypes ==
  ASSUME TypeInv, NEW from, NEW to \in BinderLabels \ {"ack_read", "ack_write"},
         BinderMove(from, to), DeviceInv', edu' \in EduType,
         operation_lock' \in Procs \cup {NoOwner},
         count_at_lock' \in 0 .. CountModulus - 1,
         parameter' \in Parameters, irq_registered' \in BOOLEAN, buffer_live' \in BOOLEAN
  PROVE  TypeInv'
<1>1. TypeOK'
  BY DEF TypeInv, TypeOK, DeviceInv, BinderMove, Alone, Labels, irqHandler
<1>2. \A t \in Tasks : loc'[t] = loc[t] /\ pc'[t] = pc[t] /\ Place(t)' = Place(t)
  BY DriverAssumption DEF DriverAssumption, BinderMove, Alone, Place
<1>3. PlacesInv'
  BY <1>2 DEF TypeInv, PlacesInv, InCritical, BinderMove, BinderLabels
<1>4. CallInv'
  BY <1>2 DEF TypeInv, CallInv, CallOK, Word
<1>5. QED BY <1>1, <1>3, <1>4 DEF TypeInv, DeviceInv

\* Each step of the binder moves between its own labels: the acknowledgement,
LEMMA BinderAckMoves ==
  ASSUME TypeInv, AckRead(Binder) \/ AckWrite(Binder)
  PROVE  BinderMove(Place(Binder), Place(Binder))
<1>1. PICK status \in SUBSET IrqBits, to \in Labels :
        /\ loc' = [loc EXCEPT ![Binder].status = status]
        /\ pc' = [pc EXCEPT ![Binder] = to]
        /\ to \in {"ack_write", loc[Binder].resume}
  <2>1. CASE AckRead(Binder)
    BY <2>1 DEF AckRead, Step, Goto, TypeInv, TypeOK, DeviceTypeOK, PlacesInv, Place, BinderLabels, Labels
  <2>2. CASE AckWrite(Binder)
    BY <2>2 DEF AckWrite, Step, Goto, TypeInv, PlacesInv, Place, Labels
  <2>3. QED BY <2>1, <2>2
<1>2. pc[Binder] \in {"ack_read", "ack_write"} /\ UNCHANGED irqHandler
  BY DEF AckRead, AckWrite, Step, Goto
<1>3. /\ pc \in [Procs -> Labels]
      /\ loc \in [Procs -> LocalsType]
      /\ loc[Binder].resume \in Labels \ {"ack_read", "ack_write"}
  BY <1>2 DEF TypeInv, TypeOK, PlacesInv, Place, Labels
<1>4. /\ loc' \in [Procs -> LocalsType]
      /\ \A q \in Procs \ {Binder} : loc'[q] = loc[q]
      /\ loc'[Binder].resume = loc[Binder].resume
  BY <1>1, <1>3 DEF LocalsType
<1>5. /\ pc' \in [Procs -> Labels]
      /\ \A q \in Procs \ {Binder} : pc'[q] = pc[q]
      /\ pc'[Binder] \in {"ack_write", loc[Binder].resume}
  BY <1>1, <1>3
<1>6. QED
  BY <1>2, <1>3, <1>4, <1>5 DEF BinderMove, Alone, Place

\* remove,
LEMMA RemoveMoves ==
  ASSUME TypeInv
  PROVE  /\ Remove => BinderMove("bound", "rm_drain")
         /\ RemoveDrained => BinderMove("rm_drain", "lock")
         /\ Lock(Binder) => BinderMove("lock", "locked")
         /\ RemoveQuiesce => BinderMove("locked", "rm_master")
         /\ RemoveMaster => BinderMove("rm_master", "rm_poll")
         /\ RemovePoll => BinderMove("rm_poll", "rm_sync")
         /\ RemoveSync => BinderMove("rm_sync", "rel_irq")
<1> USE DEF BinderMove, Alone, Labels, Place, Step, Goto, TypeInv, TypeOK, TaskLabels, BinderLabels, ProbeLabels, RemoveLabels, ReleaseLabels
<1>1. Remove => BinderMove("bound", "rm_drain") BY DEF Remove
<1>2. RemoveDrained => BinderMove("rm_drain", "lock") BY DEF RemoveDrained
<1>3. Lock(Binder) => BinderMove("lock", "locked") BY DEF Lock
<1>4. RemoveQuiesce => BinderMove("locked", "rm_master")
  BY DEF RemoveQuiesce, CallAck, LocalsType
<1>5. RemoveMaster => BinderMove("rm_master", "rm_poll") BY DEF RemoveMaster
<1>6. RemovePoll => BinderMove("rm_poll", "rm_sync") BY DEF RemovePoll, CallAck, LocalsType
<1>7. RemoveSync => BinderMove("rm_sync", "rel_irq") BY DEF RemoveSync
<1>8. QED BY <1>1, <1>2, <1>3, <1>4, <1>5, <1>6, <1>7

\* the devres releases,
LEMMA ReleaseMoves ==
  ASSUME TypeInv
  PROVE  /\ ReleaseIrq => BinderMove("rel_irq", "rel_vectors")
         /\ ReleaseVectors => BinderMove("rel_vectors", "rel_master")
         /\ ReleaseMaster => BinderMove("rel_master", "rel_buffer")
         /\ ReleaseBuffer => BinderMove("rel_buffer", "unbound")
<1> USE DEF BinderMove, Alone, Labels, Place, Step, Goto, TypeInv, TypeOK, TaskLabels, BinderLabels, ReleaseLabels
<1>1. ReleaseIrq => BinderMove("rel_irq", "rel_vectors") BY DEF ReleaseIrq
<1>2. ReleaseVectors => BinderMove("rel_vectors", "rel_master") BY DEF ReleaseVectors
<1>3. ReleaseMaster => BinderMove("rel_master", "rel_buffer") BY DEF ReleaseMaster
<1>4. ReleaseBuffer => BinderMove("rel_buffer", "unbound")
  BY DEF ReleaseBuffer, FreshLocals, LocalsType
<1>5. QED BY <1>1, <1>2, <1>3, <1>4

\* and probe.
LEMMA ProbeMoves ==
  ASSUME TypeInv
  PROVE  /\ \A h \in Handles : Probe(h) => BinderMove("unbound", "probe_master")
         /\ ProbeMaster => BinderMove("probe_master", "probe_status")
         /\ ProbeQuiesce => BinderMove("probe_status", "probe_vectors")
         /\ \A b \in BOOLEAN : ProbeVectors(b) => BinderMove("probe_vectors", "probe_irq")
         /\ ProbeRequestIrq => BinderMove("probe_irq", "probe_sysfs")
         /\ ProbeSysfs => BinderMove("probe_sysfs", "bound")
         /\ ProbeFail => \/ BinderMove("probe_status", "rel_master")
                         \/ BinderMove("probe_vectors", "rel_master")
                         \/ BinderMove("probe_irq", "rel_vectors")
                         \/ BinderMove("probe_sysfs", "rel_irq")
<1> USE DEF BinderMove, Alone, Labels, Place, Step, Goto, TypeInv, TypeOK, TaskLabels, BinderLabels, ProbeLabels, ReleaseLabels
<1>1. \A h \in Handles : Probe(h) => BinderMove("unbound", "probe_master") BY DEF Probe
<1>2. ProbeMaster => BinderMove("probe_master", "probe_status") BY DEF ProbeMaster
<1>3. ProbeQuiesce => BinderMove("probe_status", "probe_vectors")
  BY DEF ProbeQuiesce, CallAck, LocalsType
<1>4. \A b \in BOOLEAN : ProbeVectors(b) => BinderMove("probe_vectors", "probe_irq")
  BY DEF ProbeVectors
<1>5. ProbeRequestIrq => BinderMove("probe_irq", "probe_sysfs") BY DEF ProbeRequestIrq
<1>6. ProbeSysfs => BinderMove("probe_sysfs", "bound")
  BY DEF ProbeSysfs, FreshLocals, LocalsType
<1>7. ProbeFail => \/ BinderMove("probe_status", "rel_master")
                   \/ BinderMove("probe_vectors", "rel_master")
                   \/ BinderMove("probe_irq", "rel_vectors")
                   \/ BinderMove("probe_sysfs", "rel_irq")
  BY DEF ProbeFail
<1>8. QED BY <1>1, <1>2, <1>3, <1>4, <1>5, <1>6, <1>7

\* What a step of the Binder does to everything but control.
BinderTyped ==
    /\ DeviceInv' /\ edu' \in EduType
    /\ operation_lock' \in Procs \cup {NoOwner}
    /\ count_at_lock' \in 0 .. CountModulus - 1
    /\ parameter' \in Parameters
    /\ irq_registered' \in BOOLEAN
    /\ buffer_live' \in BOOLEAN

\* devm_kzalloc.
LEMMA FreshEduTyped == FreshEdu \in EduType
BY BufferAssumption, DriverAssumption
   DEF BufferAssumption, DriverAssumption, FreshEdu, EduType, DmaResults, Operands, Word

\* The same steps keep the types: remove,
LEMMA RemoveTyped ==
  ASSUME TypeInv,
         \/ Remove \/ RemoveDrained \/ RemoveQuiesce \/ RemoveMaster \/ RemovePoll
         \/ RemoveSync \/ Lock(Binder) \/ AckRead(Binder) \/ AckWrite(Binder)
  PROVE  BinderTyped
<1>0. DeviceInv BY DEF TypeInv, TypeOK, DeviceInv
<1> USE DEF BinderTyped, TypeInv, TypeOK, Step, lockVars, bindVars
<1>1. CASE Remove BY <1>0, <1>1, DeviceUnchanged DEF Remove
<1>2. CASE RemoveDrained BY <1>0, <1>2, DeviceUnchanged DEF RemoveDrained
<1>3. CASE RemoveQuiesce BY <1>0, <1>3, StatusWriteTyped DEF RemoveQuiesce, CallAck
<1>4. CASE RemoveMaster BY <1>0, <1>4, MasterTyped DEF RemoveMaster
<1>5. CASE RemovePoll BY <1>0, <1>5, DeviceUnchanged DEF RemovePoll, CallAck
<1>6. CASE RemoveSync
  BY <1>0, <1>6, DeviceUnchanged, DriverAssumption DEF RemoveSync, DriverAssumption
<1>7. CASE Lock(Binder) BY <1>0, <1>7, DeviceUnchanged DEF Lock, EduType
<1>8. CASE AckRead(Binder) \/ AckWrite(Binder)
  BY <1>8, AckTyped DEF AckRead, AckWrite
<1>9. QED BY <1>1, <1>2, <1>3, <1>4, <1>5, <1>6, <1>7, <1>8

\* the releases,
LEMMA ReleaseTyped ==
  ASSUME TypeInv, ReleaseIrq \/ ReleaseVectors \/ ReleaseMaster \/ ReleaseBuffer
  PROVE  BinderTyped
<1>0. DeviceInv BY DEF TypeInv, TypeOK, DeviceInv
<1> USE DEF BinderTyped, TypeInv, TypeOK, Step, lockVars, bindVars
<1>1. CASE ReleaseIrq BY <1>0, <1>1, DeviceUnchanged DEF ReleaseIrq
<1>2. CASE ReleaseVectors
  BY ZenonT(40), <1>0, <1>2 DEF ReleaseVectors, DeviceInv, DeviceTypeOK, ThreadInv, factVars, memVars
<1>3. CASE ReleaseMaster BY <1>0, <1>3, MasterTyped DEF ReleaseMaster
<1>4. CASE ReleaseBuffer BY <1>0, <1>4, DeviceUnchanged, FreshEduTyped DEF ReleaseBuffer
<1>5. QED BY <1>1, <1>2, <1>3, <1>4

\* and probe.
LEMMA ProbeTyped ==
  ASSUME TypeInv,
         \/ ProbeMaster \/ ProbeQuiesce \/ ProbeRequestIrq \/ ProbeSysfs \/ ProbeFail
         \/ \E h \in Handles : Probe(h)
         \/ \E msi_allowed \in BOOLEAN : ProbeVectors(msi_allowed)
  PROVE  BinderTyped
<1>0. DeviceInv BY DEF TypeInv, TypeOK, DeviceInv
<1> USE DEF BinderTyped, TypeInv, TypeOK, Step, lockVars, bindVars
<1>1. CASE ProbeMaster BY <1>0, <1>1, MasterTyped DEF ProbeMaster
<1>2. CASE ProbeQuiesce BY <1>0, <1>2, StatusWriteTyped DEF ProbeQuiesce, CallAck
<1>3. CASE ProbeRequestIrq
  BY ZenonT(40), <1>0, <1>3 DEF ProbeRequestIrq, DeviceInv, DeviceTypeOK, ThreadInv, pciVars, factVars, memVars
<1>4. CASE ProbeSysfs BY <1>0, <1>4, DeviceUnchanged DEF ProbeSysfs
<1>5. CASE ProbeFail BY <1>0, <1>5, DeviceUnchanged DEF ProbeFail
<1>6. CASE \E h \in Handles : Probe(h)
  <2>1. PICK h \in Handles : Probe(h) BY <1>6
  <2>2. edu' \in EduType BY <2>1, FreshEduTyped DEF Probe, EduType
  <2>3. ram' \in [Handles -> [Offsets -> Cells]]
    BY <2>1 DEF Probe, DeviceTypeOK, Zero, Cells
  <2>4. DeviceInv'
    BY <1>0, <2>1, <2>3 DEF Probe, DeviceInv, DeviceTypeOK, ThreadInv, irqVars, pciVars, factVars
  <2>5. QED BY <2>1, <2>2, <2>4 DEF Probe
<1>7. CASE \E msi_allowed \in BOOLEAN : ProbeVectors(msi_allowed)
  <2>1. PICK b \in BOOLEAN : ProbeVectors(b) BY <1>7
  <2>2. PICK mode \in {"msi", "intx"} :
          /\ msi_on' = (mode = "msi")
          /\ edu' = [edu EXCEPT !.selected_interrupt_mode = mode]
    BY <2>1 DEF ProbeVectors
  <2>3. edu' \in EduType BY <2>2 DEF EduType
  <2>4. DeviceInv'
    BY <1>0, <2>1, <2>2 DEF ProbeVectors, DeviceInv, DeviceTypeOK, ThreadInv, irqVars, factVars, memVars
  <2>5. QED BY <2>1, <2>3, <2>4 DEF ProbeVectors
<1>8. QED BY <1>1, <1>2, <1>3, <1>4, <1>5, <1>6, <1>7

\* Every step of the binder.
LEMMA BinderStepKeepsTypes ==
  ASSUME TypeInv,
         \/ Remove \/ BinderStep \/ \E h \in Handles : Probe(h)
         \/ Lock(Binder) \/ AckRead(Binder) \/ AckWrite(Binder)
  PROVE  TypeInv'
<1>1. BinderTyped
  BY RemoveTyped, ReleaseTyped, ProbeTyped DEF BinderStep
<1>2. \E from, to \in BinderLabels \ {"ack_read", "ack_write"} : BinderMove(from, to)
  <2>1. Place(Binder) \in BinderLabels \ {"ack_read", "ack_write"}
    BY DEF TypeInv, PlacesInv
  <2>2. QED
    BY <2>1, RemoveMoves, ReleaseMoves, ProbeMoves, BinderAckMoves
       DEF BinderStep, BinderLabels, ProbeLabels, RemoveLabels, ReleaseLabels
<1>3. QED BY <1>1, <1>2, BinderKeepsTypes DEF BinderTyped

\* The initial state is typed.
LEMMA TypeInit == ASSUME Init PROVE TypeInv
<1>1. DeviceInv
  <2>1. Zero \in Cells BY DEF Zero, Cells
  <2>2. /\ dev_buf \in [Offsets -> Cells]
        /\ ram \in [Handles -> [Offsets -> Cells]]
    BY <2>1 DEF Init, DeviceInit
  <2>3. dma \in [src : Nat, dst : Nat, cnt : Nat, cmd : SUBSET CommandBits]
    BY DEF Init, DeviceInit
  <2>4. liveness \in Word
    BY BufferAssumption DEF BufferAssumption, Init, DeviceInit, Word
  <2>5. fact \in Operands /\ fact_val \in Operands
    BY DEF Init, DeviceInit, Operands
  <2>6. /\ irq_status = {} /\ intx_line = FALSE /\ msi_on = FALSE /\ msi_pending = FALSE
        /\ bus_master = FALSE /\ status_irq = FALSE /\ computing = FALSE /\ fact_pc = "wait"
    BY DEF Init, DeviceInit
  <2>7. QED
    BY <2>2, <2>3, <2>4, <2>5, <2>6 DEF DeviceInv, DeviceTypeOK, ThreadInv
<1>2. TypeOK
  <2>1. FreshLocals \in LocalsType BY DEF FreshLocals, LocalsType
  <2>2. pc \in [Procs -> Labels] /\ loc \in [Procs -> LocalsType]
    BY <2>1 DEF Init, DriverInit, Labels, TaskLabels, BinderLabels
  <2>3. count_at_lock \in 0 .. CountModulus - 1
    BY DriverAssumption DEF DriverAssumption, Init, DriverInit
  <2>4. QED
    BY <1>1, <2>2, <2>3, FreshEduTyped DEF Init, DriverInit, TypeOK, DeviceInv, Labels
<1>3. PlacesInv /\ CallInv
  <2>1. \A t \in Tasks : pc[t] = "idle" /\ Place(t) = "idle" /\ loc[t].file = "none"
    BY DriverAssumption DEF DriverAssumption, Init, DriverInit, Place, FreshLocals
  <2>2. pc[Binder] = "unbound" /\ Place(Binder) = "unbound"
    BY DEF Init, DriverInit, Place
  <2>3. QED
    BY <2>1, <2>2 DEF PlacesInv, CallInv, CallOK, TaskLabels, BinderLabels, FactLabels, DmaLabels
<1>4. QED BY <1>1, <1>2, <1>3 DEF TypeInv, DeviceInv

\* Every step of a task.
LEMMA TaskStepKeepsTypes ==
  ASSUME TypeInv, NEW t \in Tasks,
         Call(t) \/ StoreStep(t) \/ Lock(t) \/ AckRead(t) \/ AckWrite(t)
  PROVE  TypeInv'
<1>1. CASE Call(t) \/ Lock(t) \/ Unlock(t) \/ Return(t)
  BY <1>1, CallBoundary, BoundaryKeepsTypes
<1>2. CASE StoreStep(t) /\ ~Unlock(t) /\ ~Return(t)
  BY <1>2, StoreInside, InsideKeepsTypes
<1>3. CASE AckRead(t) \/ AckWrite(t)
  <2>1. InCritical(t)
    BY <1>3 DEF AckRead, AckWrite, Step, Goto, TypeInv, PlacesInv
  <2>2. QED BY <1>3, <2>1, AckInside, AckTyped, InsideKeepsTypes
<1>4. QED BY <1>1, <1>2, <1>3 DEF StoreStep

\* A step of nobody.
LEMMA StutterKeepsTypes ==
  ASSUME TypeInv, UNCHANGED vars PROVE TypeInv'
<1>1. DeviceInv'
  BY DeviceUnchanged DEF vars, TypeInv, TypeOK, DeviceInv
<1>2. TypeOK' /\ PlacesInv' /\ CallInv'
  BY <1>1 DEF vars, driverVars, lockVars, irqHandler, bindVars, TypeInv, TypeOK, DeviceInv,
              PlacesInv, InCritical, CallInv, CallOK, Place, Word
<1>3. QED BY <1>1, <1>2 DEF TypeInv, DeviceInv

\* Every step.
LEMMA NextKeepsTypes ==
  ASSUME TypeInv, [Next]_vars PROVE TypeInv'
BY TaskStepKeepsTypes, BinderStepKeepsTypes, HandlerKeepsTypes, DeviceStepKeepsTypes,
   StutterKeepsTypes DEF Next

\* Every variable keeps its type, for every value of the constants: in
\* particular the factorial register is never read as an operand while it holds
\* a result, and no label is reached that the code does not have.
THEOREM TypeCorrect == Spec => []TypeOK
<1>1. Init => TypeInv BY TypeInit
<1>2. TypeInv /\ [Next]_vars => TypeInv' BY NextKeepsTypes
<1>3. TypeInv => TypeOK BY DEF TypeInv
<1>4. QED BY <1>1, <1>2, <1>3, PTL DEF Spec

-----------------------------------------------------------------------------
(* Safety: what a step of a task leaves alone.                             *)

\* No store changes MSI or turns bus mastering on.
LEMMA StorePci ==
  ASSUME TypeInv, NEW t \in Tasks,
         StoreStep(t) \/ Call(t) \/ Lock(t) \/ AckRead(t) \/ AckWrite(t)
  PROVE  msi_on' = msi_on /\ (bus_master' => bus_master)
<1> USE DEF deviceVars, pciVars, WriteStatus, WriteIrqAck
<1>1. CASE LivenessStore(t)
  BY <1>1 DEF LivenessStore, LivenessWrite, LivenessRead, WriteLiveness
<1>2. CASE FactorialStore(t)
  BY <1>2 DEF FactorialStore, FactorialBegin, FactorialRequest, FactorialStart, FactorialWait,
              FactorialStop, FactorialRead, Wait, WriteFactorial
<1>3. CASE TriggerIrqStore(t)
  BY <1>3 DEF TriggerIrqStore, TriggerBegin, TriggerRaise, TriggerWait, TriggerEnd, Wait,
              WriteIrqRaise
<1>4. CASE DmaRoundtripStore(t)
  BY <1>4 DEF DmaRoundtripStore, DmaBegin, DmaRefuse, DmaSource, DmaDestination, DmaCount,
              DmaCommand, DmaWait, DmaReadCommand, DmaReadStatus, DmaFault, DmaSync,
              DmaSentinel, DmaVerify, Wait, WriteDma, SetMaster, Fill
<1>5. CASE Unlock(t) \/ Return(t) \/ Lock(t) \/ AckRead(t)
  BY <1>5 DEF Unlock, Return, Lock, AckRead
<1>6. CASE Call(t) BY <1>6, CallBoundary DEF Boundary
<1>7. CASE AckWrite(t) BY <1>7 DEF AckWrite
<1>8. QED BY <1>1, <1>2, <1>3, <1>4, <1>5, <1>6, <1>7 DEF StoreStep

\* Only factorial_store turns the completion interrupt on, and turns it off before it leaves.
LEMMA StoreStatus ==
  ASSUME NEW t \in Tasks,
         StoreStep(t) \/ Call(t) \/ Lock(t) \/ AckRead(t) \/ AckWrite(t),
         TypeInv
  PROVE  \/ ~status_irq'
         \/ FactorialRequest(t)
         \/ /\ status_irq' = status_irq
            /\ \/ pc[t] \notin {"fact_start", "fact_wait", "fact_stop"}
               \/ pc'[t] \in {"fact_start", "fact_wait", "fact_stop"}
<1> USE DEF deviceVars, factVars, WriteIrqAck, Step, Goto, Finish, TypeInv, TypeOK
<1>1. CASE LivenessStore(t)
  BY <1>1 DEF LivenessStore, LivenessWrite, LivenessRead, WriteLiveness
<1>2. CASE FactorialStore(t)
  <2>1. CASE FactorialBegin(t) \/ FactorialStop(t)
    BY <2>1 DEF FactorialBegin, FactorialStop, WriteStatus
  <2>2. CASE FactorialStart(t) BY <2>2 DEF FactorialStart, WriteFactorial
  <2>3. CASE FactorialWait(t) BY <2>3 DEF FactorialWait, Wait
  <2>4. CASE FactorialRead(t) BY <2>4 DEF FactorialRead
  <2>5. QED BY <1>2, <2>1, <2>2, <2>3, <2>4 DEF FactorialStore
<1>3. CASE TriggerIrqStore(t)
  BY <1>3 DEF TriggerIrqStore, TriggerBegin, TriggerRaise, TriggerWait, TriggerEnd, Wait,
              WriteIrqRaise, CallAck
<1>4. CASE DmaRoundtripStore(t)
  BY <1>4 DEF DmaRoundtripStore, DmaBegin, DmaRefuse, DmaSource, DmaDestination, DmaCount,
              DmaCommand, DmaWait, DmaReadCommand, DmaReadStatus, DmaFault, DmaSync,
              DmaSentinel, DmaVerify, Wait, WriteDma, SetMaster, Fill, CallAck
<1>5. CASE Unlock(t) \/ Return(t) \/ Call(t) \/ Lock(t)
  BY <1>5 DEF Unlock, Return, Call, Store, Reject, Lock
<1>6. CASE AckRead(t) \/ AckWrite(t)
  BY <1>6 DEF AckRead, AckWrite
<1>7. QED BY <1>1, <1>2, <1>3, <1>4, <1>5, <1>6 DEF StoreStep

\* Only DmaFault faults a path, and on a faulted one no transfer is begun.
LEMMA StoreFault ==
  ASSUME TypeInv, NEW t \in Tasks,
         StoreStep(t) \/ Call(t) \/ Lock(t) \/ AckRead(t) \/ AckWrite(t),
         ~DmaFault(t)
  PROVE  /\ edu'.dma_faulted = edu.dma_faulted
         /\ edu.dma_faulted /\ Place(t) \notin DmaLabels \ {"dma_sync"}
              => Place(t)' \notin DmaLabels \ {"dma_sync"}
<1> USE DEF Step, Goto, Finish, TypeInv, TypeOK, Place, DmaLabels, CallAck
<1>1. CASE LivenessStore(t)
  BY <1>1 DEF LivenessStore, LivenessWrite, LivenessRead, EduType
<1>2. CASE FactorialStore(t)
  <2>1. CASE FactorialWait(t)
    BY <2>1, WaitTyped DEF FactorialWait, Wait, EduType, TaskLabels, FactLabels
  <2>2. CASE FactorialBegin(t) BY <2>2 DEF FactorialBegin, EduType, LocalsType
  <2>3. CASE FactorialRequest(t) BY <2>3 DEF FactorialRequest, EduType
  <2>4. CASE FactorialStart(t) \/ FactorialStop(t)
    BY <2>4 DEF FactorialStart, FactorialStop
  <2>5. CASE FactorialRead(t) BY <2>5 DEF FactorialRead, EduType
  <2>6. QED BY <1>2, <2>1, <2>2, <2>3, <2>4, <2>5 DEF FactorialStore
<1>3. CASE TriggerIrqStore(t)
  <2>1. CASE TriggerWait(t)
    BY <2>1, WaitTyped DEF TriggerWait, Wait, EduType, TaskLabels, TrigLabels
  <2>2. QED
    BY <1>3, <2>1 DEF TriggerIrqStore, TriggerBegin, TriggerRaise, TriggerEnd, EduType, LocalsType
<1>4. CASE DmaRoundtripStore(t)
  <2>1. CASE DmaWait(t)
    BY <2>1, WaitTyped DEF DmaWait, Wait, EduType, TaskLabels
  <2>2. CASE DmaBegin(t) BY <2>2 DEF DmaBegin
  <2>3. CASE DmaRefuse(t) BY <2>3 DEF DmaRefuse
  <2>4. CASE DmaSource(t) BY <2>4 DEF DmaSource, EduType
  <2>5. CASE DmaDestination(t) \/ DmaCount(t) \/ DmaCommand(t)
    BY <2>5 DEF DmaDestination, DmaCount, DmaCommand
  <2>6. CASE DmaReadCommand(t) \/ DmaReadStatus(t) \/ DmaSentinel(t)
    BY <2>6 DEF DmaReadCommand, DmaReadStatus, DmaSentinel
  <2>7. CASE DmaSync(t) BY <2>7 DEF DmaSync, EduType
  <2>8. CASE DmaVerify(t) BY <2>8 DEF DmaVerify, EduType
  <2>9. QED
    BY <1>4, <2>1, <2>2, <2>3, <2>4, <2>5, <2>6, <2>7, <2>8 DEF DmaRoundtripStore
<1>5. CASE Unlock(t) \/ Return(t) \/ Call(t) \/ Lock(t)
  BY <1>5 DEF Unlock, Return, Call, Store, Reject, Lock
<1>6. CASE AckRead(t) \/ AckWrite(t)
  <2>1. InCritical(t)
    BY <1>6 DEF AckRead, AckWrite, PlacesInv
  <2>2. QED BY <1>6, <2>1, AckInside DEF AckRead, AckWrite
<1>7. QED BY <1>1, <1>2, <1>3, <1>4, <1>5, <1>6 DEF StoreStep

-----------------------------------------------------------------------------
(* Safety: the invariant is kept, step by step.                            *)

\* Every process but p is where it was.
OthersStay(p) ==
    \A q \in Procs \ {p} : pc'[q] = pc[q] /\ loc'[q] = loc[q] /\ Place(q)' = Place(q)

\* A step within a critical section leaves the other processes where they are.
LEMMA InsideKeepsSafety ==
  ASSUME TypeInv, SafetyInv, NEW t \in Tasks, Inside(t)
  PROVE  OthersStay(t) /\ LockInv' /\ DrainInv'
<1>1. OthersStay(t)
  BY DEF Inside, OthersStay, Place
<1>2. Binder # t
  BY DriverAssumption DEF DriverAssumption
<1>3. LockInv'
  BY <1>1 DEF SafetyInv, LockInv, InCritical, Inside, OthersStay, lockVars
<1>4. pc[t] # "idle"
  BY DEF Inside, InCritical, Place, Critical, FactLabels, TrigLabels, DmaLabels, RemoveLabels
<1>5. DrainInv'
  BY <1>1, <1>2, <1>4 DEF SafetyInv, DrainInv, OthersStay
<1>6. QED BY <1>1, <1>3, <1>5

\* Calls, returns and the mutex touch nothing but the locals and the owner.
LEMMA BoundaryKeepsSafety ==
  ASSUME TypeInv, SafetyInv, NEW t \in Tasks, Boundary(t)
  PROVE  OthersStay(t) /\ LockInv' /\ DrainInv'
<1>1. OthersStay(t)
  BY DEF Boundary, Alone, OthersStay, Place
<1>2. Binder # t /\ NoOwner \notin Procs
  BY DriverAssumption DEF DriverAssumption
<1>3. "lock" \notin Critical /\ "return" \notin Critical /\ "idle" \notin Critical
  BY DEF Critical, FactLabels, TrigLabels, DmaLabels, RemoveLabels
<1>4. "unlock" \in Critical
  BY DEF Critical
<1>5. Place(t) = pc[t] /\ Place(t)' = pc'[t]
  BY DEF Boundary, Place
<1>6. LockInv'
  <2>1. CASE pc[t] = "lock"
    BY <1>1, <1>2, <2>1 DEF SafetyInv, LockInv, InCritical, Boundary, OthersStay
  <2>2. CASE pc[t] = "unlock"
    BY <1>1, <1>2, <1>3, <1>4, <1>5, <2>2 DEF SafetyInv, LockInv, InCritical, Boundary, OthersStay
  <2>3. CASE pc[t] \in {"idle", "return"}
    BY <1>1, <1>3, <1>5, <2>3 DEF SafetyInv, LockInv, InCritical, Boundary, OthersStay, lockVars
  <2>4. QED BY <2>1, <2>2, <2>3 DEF Boundary
<1>7. DrainInv'
  <2>1. Place(Binder) \in {"bound", "rm_drain"}
    BY DEF Boundary, SafetyInv, DrainInv, Place
  <2>2. QED BY <1>1, <1>2, <2>1 DEF DrainInv, OthersStay
<1>8. QED BY <1>1, <1>6, <1>7

\* A task leaves what probe acquired alone.
LEMMA TaskKeepsResources ==
  ASSUME SafetyInv, NEW t \in Tasks, OthersStay(t), UNCHANGED <<irqHandler, bindVars>>,
         msi_on' = msi_on, bus_master' => bus_master
  PROVE  ResourceInv'
<1>1. Place(Binder)' = Place(Binder)
  BY DriverAssumption DEF DriverAssumption, OthersStay
<1>2. QED BY <1>1 DEF SafetyInv, ResourceInv, irqHandler, bindVars

TaskStep(t) == StoreStep(t) \/ Call(t) \/ Lock(t) \/ AckRead(t) \/ AckWrite(t)

\* A task keeps the completion interrupt within the factorial operation.
LEMMA TaskKeepsFactorialIrq ==
  ASSUME TypeInv, SafetyInv, NEW t \in Tasks, TaskStep(t), OthersStay(t)
  PROVE  FactorialIrqOnlyDuringOperation'
<1>1. CASE ~status_irq'
  BY <1>1 DEF FactorialIrqOnlyDuringOperation
<1>2. CASE FactorialRequest(t)
  <2>1. pc'[t] = "fact_start"
    BY <1>2 DEF FactorialRequest, Step, Goto, TypeInv, TypeOK
  <2>2. QED BY <2>1 DEF FactorialIrqOnlyDuringOperation
<1>3. CASE /\ status_irq' = status_irq
           /\ status_irq
           /\ \/ pc[t] \notin {"fact_start", "fact_wait", "fact_stop"}
              \/ pc'[t] \in {"fact_start", "fact_wait", "fact_stop"}
  <2>1. PICK u \in Tasks : pc[u] \in {"fact_start", "fact_wait", "fact_stop"}
    BY <1>3 DEF SafetyInv, FactorialIrqOnlyDuringOperation
  <2>2. pc'[u] \in {"fact_start", "fact_wait", "fact_stop"}
    BY <1>3, <2>1 DEF OthersStay
  <2>3. QED BY <2>2 DEF FactorialIrqOnlyDuringOperation
<1>4. QED BY <1>1, <1>2, <1>3, StoreStatus DEF TaskStep, FactorialIrqOnlyDuringOperation

\* A task that reports a fault cuts the bus mastering before it unlocks.
LEMMA TaskKeepsFault ==
  ASSUME TypeInv, SafetyInv, NEW t \in Tasks, TaskStep(t), OthersStay(t), LockInv',
         bus_master' => bus_master
  PROVE  FaultInv'
<1>1. Place(Binder)' = Place(Binder)
  BY DriverAssumption DEF DriverAssumption, OthersStay
<1>2. CASE DmaFault(t)
  <2>1. ~bus_master' /\ pc[t] = "dma_fault" /\ Place(t)' = "dma_sync"
    BY <1>2 DEF DmaFault, SetMaster, CallAck, Step, Goto, Place, TypeInv, TypeOK, LocalsType
  <2>2. Place(t) = "dma_fault" /\ InCritical(t) /\ InCritical(t)'
    BY <2>1 DEF Place, InCritical, Critical, DmaLabels
  <2>3. \A u \in Tasks \ {t} : Place(u)' \notin DmaLabels
    BY <2>2 DEF LockInv, InCritical, Critical
  <2>4. Place(Binder) \in {"bound", "rm_drain"}
    BY <2>1 DEF SafetyInv, DrainInv
  <2>5. QED BY <1>1, <2>1, <2>3, <2>4 DEF FaultInv, ProbeLabels
<1>3. CASE ~DmaFault(t)
  BY <1>1, <1>3, StoreFault DEF TaskStep, SafetyInv, FaultInv, OthersStay
<1>4. QED BY <1>2, <1>3

\* Every step of a task.
LEMMA TaskKeepsSafety ==
  ASSUME TypeInv, SafetyInv, NEW t \in Tasks, TaskStep(t)
  PROVE  SafetyInv'
<1>1. PlacesInv'
  BY TaskStepKeepsTypes DEF TaskStep, TypeInv
<1>2. /\ OthersStay(t) /\ LockInv' /\ DrainInv'
      /\ UNCHANGED <<irqHandler, bindVars>>
  <2>1. CASE Call(t) \/ Lock(t) \/ Unlock(t) \/ Return(t)
    BY <2>1, CallBoundary, BoundaryKeepsSafety DEF Boundary
  <2>2. CASE StoreStep(t) /\ ~Unlock(t) /\ ~Return(t)
    BY <2>2, StoreInside, InsideKeepsSafety DEF Inside
  <2>3. CASE AckRead(t) \/ AckWrite(t)
    <3>1. InCritical(t)
      BY <2>3 DEF AckRead, AckWrite, Step, Goto, TypeInv, PlacesInv
    <3>2. QED BY <2>3, <3>1, AckInside, InsideKeepsSafety DEF Inside
  <2>4. QED BY <2>1, <2>2, <2>3 DEF TaskStep, StoreStep
<1>3. msi_on' = msi_on /\ (bus_master' => bus_master)
  BY StorePci DEF TaskStep
<1>4. QED
  BY <1>1, <1>2, <1>3, TaskKeepsResources, TaskKeepsFactorialIrq, TaskKeepsFault DEF SafetyInv

\* The handler and the device.
LEMMA HandlerAndDeviceKeepSafety ==
  ASSUME TypeInv, SafetyInv, IrqHandler \/ FactStep \/ TimerStep \/ UNCHANGED vars
  PROVE  SafetyInv'
<1>1. /\ UNCHANGED <<pc, loc, operation_lock, irq_registered, buffer_live, msi_on, bus_master, status_irq>>
      /\ irq_pc' # "idle" => irq_registered
      /\ edu'.dma_faulted = edu.dma_faulted
  <2>1. CASE IrqHandler
    <3> USE DEF IrqGoto, lockVars, bindVars, deviceVars, pciVars, factVars
    <3>1. CASE IrqEnter BY <3>1 DEF IrqEnter
    <3>2. CASE IrqRead BY <3>2 DEF IrqRead, SafetyInv, ResourceInv
    <3>3. CASE IrqAck BY <3>3 DEF IrqAck, WriteIrqAck, SafetyInv, ResourceInv
    <3>4. CASE IrqRecord
      BY <3>4 DEF IrqRecord, SafetyInv, ResourceInv, TypeInv, TypeOK, EduType
    <3>5. CASE IrqCompleteFactorial
      BY <3>5 DEF IrqCompleteFactorial, IrqComplete, SafetyInv, ResourceInv, TypeInv, TypeOK, EduType
    <3>6. CASE IrqCompleteDma
      BY <3>6 DEF IrqCompleteDma, IrqComplete, SafetyInv, ResourceInv, TypeInv, TypeOK, EduType
    <3>7. CASE IrqCompleteAny
      BY <3>7 DEF IrqCompleteAny, SafetyInv, ResourceInv, TypeInv, TypeOK, EduType
    <3>8. QED BY <2>1, <3>1, <3>2, <3>3, <3>4, <3>5, <3>6, <3>7 DEF IrqHandler
  <2>2. CASE FactStep
    BY <2>2 DEF FactStep, FactThread, FactTake, FactStore, FactClear, FactCheck, FactRaise,
                pciVars, driverVars, lockVars, irqHandler, bindVars, SafetyInv, ResourceInv
  <2>3. CASE TimerStep
    BY <2>3 DEF TimerStep, DmaTimer, pciVars, factVars, driverVars, lockVars, irqHandler, bindVars,
                SafetyInv, ResourceInv
  <2>4. CASE UNCHANGED vars
    BY <2>4 DEF vars, deviceVars, pciVars, factVars, driverVars, lockVars, irqHandler, bindVars,
                SafetyInv, ResourceInv
  <2>5. QED BY <2>1, <2>2, <2>3, <2>4
<1>2. \A p \in Procs : Place(p)' = Place(p)
  BY <1>1 DEF Place
<1>3. PlacesInv' /\ LockInv' /\ DrainInv'
  BY <1>1, <1>2 DEF SafetyInv, PlacesInv, LockInv, DrainInv, InCritical
<1>4. ResourceInv' /\ FactorialIrqOnlyDuringOperation' /\ FaultInv'
  BY <1>1, <1>2 DEF SafetyInv, ResourceInv, FactorialIrqOnlyDuringOperation, FaultInv
<1>5. QED BY <1>3, <1>4 DEF SafetyInv

\* What is common to the steps of the Binder: those that change the lock's
\* owner or a place's being critical, and the rest.
LEMMA BinderFrame ==
  ASSUME TypeInv, SafetyInv, TypeInv', NEW from, NEW to, BinderMove(from, to),
         \/ operation_lock' = operation_lock /\ (to \in Critical => from \in Critical)
         \/ operation_lock = NoOwner /\ operation_lock' = Binder
         \/ from \in Critical /\ to \notin Critical,
         \/ from \notin {"bound", "rm_drain"}
         \/ to \in {"bound", "rm_drain"}
         \/ \A t \in Tasks : pc[t] = "idle",
         status_irq' => status_irq
  PROVE  /\ PlacesInv' /\ LockInv' /\ DrainInv' /\ FactorialIrqOnlyDuringOperation'
         /\ \A t \in Tasks : Place(t)' = Place(t)
<1>1. \A t \in Tasks : pc'[t] = pc[t] /\ Place(t)' = Place(t)
  BY DriverAssumption DEF DriverAssumption, BinderMove, Alone, Place
<1>2. LockInv'
  BY <1>1, DriverAssumption
     DEF DriverAssumption, SafetyInv, LockInv, InCritical, BinderMove
<1>3. DrainInv'
  BY <1>1 DEF SafetyInv, DrainInv, BinderMove
<1>4. FactorialIrqOnlyDuringOperation'
  BY <1>1 DEF SafetyInv, FactorialIrqOnlyDuringOperation
<1>5. QED BY <1>1, <1>2, <1>3, <1>4 DEF TypeInv

\* remove waits for the mutex and the handler.
LEMMA RemoveKeepsSafety ==
  ASSUME TypeInv, SafetyInv, TypeInv',
         \/ Remove \/ RemoveDrained \/ RemoveQuiesce \/ RemoveMaster \/ RemovePoll
         \/ RemoveSync \/ Lock(Binder)
  PROVE  SafetyInv'
<1> USE DEF SafetyInv, ResourceInv, FaultInv, BinderMove, Critical, RegisteredPlaces, VectorPlaces,
        MasterPlaces, ProbeLabels, RemoveLabels, FactLabels, TrigLabels, DmaLabels, Step, lockVars, bindVars,
        irqHandler, deviceVars, pciVars, factVars
<1>1. CASE Remove
  BY <1>1, RemoveMoves, BinderFrame DEF Remove
<1>2. CASE RemoveDrained
  BY <1>2, RemoveMoves, BinderFrame DEF RemoveDrained
<1>3. CASE Lock(Binder)
  BY <1>3, RemoveMoves, BinderFrame DEF Lock
<1>4. CASE RemoveQuiesce
  BY <1>4, RemoveMoves, BinderFrame DEF RemoveQuiesce, CallAck, WriteStatus
<1>5. CASE RemoveMaster
  BY <1>5, RemoveMoves, BinderFrame DEF RemoveMaster, SetMaster
<1>6. CASE RemovePoll
  BY <1>6, RemoveMoves, BinderFrame DEF RemovePoll, CallAck
<1>7. CASE RemoveSync
  BY <1>7, RemoveMoves, BinderFrame DEF RemoveSync
<1>8. QED BY <1>1, <1>2, <1>3, <1>4, <1>5, <1>6, <1>7

\* The devres releases.
LEMMA ReleaseKeepsSafety ==
  ASSUME TypeInv, SafetyInv, TypeInv',
         ReleaseIrq \/ ReleaseVectors \/ ReleaseMaster \/ ReleaseBuffer
  PROVE  SafetyInv'
<1> USE DEF SafetyInv, ResourceInv, FaultInv, BinderMove, Critical, RegisteredPlaces, VectorPlaces,
        MasterPlaces, ProbeLabels, RemoveLabels, FactLabels, TrigLabels, DmaLabels, Step, lockVars, bindVars,
        irqHandler, deviceVars, pciVars, factVars
<1>1. CASE ReleaseIrq
  BY <1>1, ReleaseMoves, BinderFrame DEF ReleaseIrq
<1>2. CASE ReleaseVectors
  BY <1>2, ReleaseMoves, BinderFrame DEF ReleaseVectors
<1>3. CASE ReleaseMaster
  BY <1>3, ReleaseMoves, BinderFrame DEF ReleaseMaster, SetMaster
<1>4. CASE ReleaseBuffer
  BY <1>4, ReleaseMoves, BinderFrame DEF ReleaseBuffer, FreshEdu
<1>5. QED BY <1>1, <1>2, <1>3, <1>4

\* probe acquires what it later releases.
LEMMA ProbeKeepsSafety ==
  ASSUME TypeInv, SafetyInv, TypeInv',
         \/ ProbeMaster \/ ProbeQuiesce \/ ProbeRequestIrq \/ ProbeSysfs \/ ProbeFail
         \/ \E h \in Handles : Probe(h)
         \/ \E msi_allowed \in BOOLEAN : ProbeVectors(msi_allowed)
  PROVE  SafetyInv'
<1> USE DEF SafetyInv, ResourceInv, FaultInv, BinderMove, Critical, RegisteredPlaces, VectorPlaces,
        MasterPlaces, ProbeLabels, RemoveLabels, FactLabels, TrigLabels, DmaLabels, Step, lockVars, bindVars,
        irqHandler, deviceVars, pciVars, factVars
<1>1. CASE ProbeMaster
  BY <1>1, ProbeMoves, BinderFrame DEF ProbeMaster, SetMaster
<1>2. CASE ProbeQuiesce
  BY <1>2, ProbeMoves, BinderFrame DEF ProbeQuiesce, CallAck, WriteStatus
<1>3. CASE ProbeRequestIrq
  BY <1>3, ProbeMoves, BinderFrame DEF ProbeRequestIrq
<1>4. CASE ProbeSysfs
  BY <1>4, ProbeMoves, BinderFrame DEF ProbeSysfs
<1>5. CASE ProbeFail
  BY <1>5, ProbeMoves, BinderFrame DEF ProbeFail
<1>6. CASE \E h \in Handles : Probe(h)
  <2>1. PICK h \in Handles : Probe(h) BY <1>6
  <2>2. ~edu'.dma_faulted BY <2>1 DEF Probe, FreshEdu
  <2>3. BinderMove("unbound", "probe_master") BY <2>1, ProbeMoves
  <2>4. QED BY <2>1, <2>2, <2>3, BinderFrame DEF Probe
<1>7. CASE \E msi_allowed \in BOOLEAN : ProbeVectors(msi_allowed)
  BY <1>7, ProbeMoves, BinderFrame DEF ProbeVectors, TypeOK, TypeInv, EduType
<1>8. QED BY <1>1, <1>2, <1>3, <1>4, <1>5, <1>6, <1>7

\* The acknowledgement of pending interrupts.
LEMMA BinderAckKeepsSafety ==
  ASSUME TypeInv, SafetyInv, TypeInv', AckRead(Binder) \/ AckWrite(Binder)
  PROVE  SafetyInv'
<1>1. BinderMove(Place(Binder), Place(Binder))
  BY BinderAckMoves
<1>2. /\ UNCHANGED <<operation_lock, irq_pc, irq_registered, buffer_live, msi_on, bus_master,
                     status_irq, edu>>
      /\ pc[Binder] \in {"ack_read", "ack_write"}
  BY DEF AckRead, AckWrite, WriteIrqAck, Step, Goto, lockVars, irqHandler, bindVars,
         deviceVars, pciVars, factVars
<1>3. \/ Place(Binder) \notin {"bound", "rm_drain"}
      \/ Place(Binder)' \in {"bound", "rm_drain"}
  BY <1>1 DEF BinderMove
<1>4. /\ PlacesInv' /\ LockInv' /\ DrainInv' /\ FactorialIrqOnlyDuringOperation'
      /\ \A t \in Tasks : Place(t)' = Place(t)
  BY <1>1, <1>2, <1>3, BinderFrame
<1>5. Place(Binder)' = Place(Binder)
  BY <1>1 DEF BinderMove
<1>6. ResourceInv' /\ FaultInv'
  BY <1>2, <1>4, <1>5 DEF SafetyInv, ResourceInv, FaultInv
<1>7. QED BY <1>4, <1>6 DEF SafetyInv

\* Nothing is bound.
LEMMA SafetyInit == ASSUME Init PROVE SafetyInv
<1>1. PlacesInv BY TypeInit DEF TypeInv
<1>2. /\ \A t \in Tasks : pc[t] = "idle" /\ Place(t) = "idle"
      /\ pc[Binder] = "unbound" /\ Place(Binder) = "unbound"
  BY DriverAssumption DEF DriverAssumption, Init, DriverInit, Place
<1>3. ~status_irq /\ ~edu.dma_faulted
  BY DEF Init, DeviceInit, DriverInit, FreshEdu
<1>4. irq_pc = "idle" /\ ~irq_registered /\ ~buffer_live /\ ~msi_on /\ ~bus_master
  BY DEF Init, DeviceInit, DriverInit
<1>5. LockInv
  BY <1>2 DEF LockInv, InCritical, Critical, FactLabels, TrigLabels, DmaLabels, RemoveLabels
<1>6. DrainInv /\ ResourceInv /\ FactorialIrqOnlyDuringOperation /\ FaultInv
  BY <1>2, <1>3, <1>4 DEF DrainInv, ResourceInv, FactorialIrqOnlyDuringOperation, FaultInv
<1>7. QED BY <1>1, <1>5, <1>6 DEF SafetyInv

\* Every step.
LEMMA NextKeepsSafety ==
  ASSUME TypeInv, SafetyInv, [Next]_vars PROVE SafetyInv'
<1>1. TypeInv' BY NextKeepsTypes
<1>2. CASE \E t \in Tasks : TaskStep(t)
  BY <1>2, TaskKeepsSafety
<1>3. CASE IrqHandler \/ FactStep \/ TimerStep \/ UNCHANGED vars
  BY <1>3, HandlerAndDeviceKeepSafety
<1>4. CASE Remove \/ BinderStep \/ Lock(Binder) \/ \E h \in Handles : Probe(h)
  BY <1>1, <1>4, RemoveKeepsSafety, ReleaseKeepsSafety, ProbeKeepsSafety DEF BinderStep
<1>5. CASE AckRead(Binder) \/ AckWrite(Binder)
  BY <1>1, <1>5, BinderAckKeepsSafety
<1>6. QED BY <1>2, <1>3, <1>4, <1>5 DEF Next, TaskStep

-----------------------------------------------------------------------------
(* The theorems.                                                           *)

\* The inductive invariant: who may be where, and what holds while they are.
THEOREM Safety == Spec => [](TypeInv /\ SafetyInv)
<1>1. Init => TypeInv /\ SafetyInv
  BY TypeInit, SafetyInit
<1>2. TypeInv /\ SafetyInv /\ [Next]_vars => (TypeInv /\ SafetyInv)'
  BY NextKeepsTypes, NextKeepsSafety
<1>3. QED BY <1>1, <1>2, PTL DEF Spec

\* operation_lock serialises the store functions and removal, whatever the
\* handler, the device and the tasks do, however many tasks there are.
THEOREM OperationsAreSerialised == Spec => []MutualExclusion
<1>1. SafetyInv => MutualExclusion
  BY DEF SafetyInv, LockInv, MutualExclusion
<1>2. QED BY <1>1, Safety, PTL

\* The device asks for factorial interrupts only inside factorial_store,
\* although timeouts, signals and faults end its waits at any moment.
THEOREM FactorialIrqIsScoped == Spec => []FactorialIrqOnlyDuringOperation
<1>1. SafetyInv => FactorialIrqOnlyDuringOperation
  BY DEF SafetyInv
<1>2. QED BY <1>1, Safety, PTL

\* From the failure of a transfer to the release of the binding the device
\* reaches no memory.
THEOREM FaultCutsBusMaster == Spec => []FaultStopsBusMaster
<1>1. SafetyInv => FaultStopsBusMaster
  BY DEF SafetyInv, FaultInv, FaultStopsBusMaster
<1>2. QED BY <1>1, Safety, PTL

\* The interrupt handler never runs for a binding that is gone.
THEOREM HandlerHasBinding == Spec => []HandlerOnlyWhileRegistered
<1>1. SafetyInv => HandlerOnlyWhileRegistered
  BY DEF SafetyInv, ResourceInv, HandlerOnlyWhileRegistered, RegisteredPlaces, RemoveLabels
<1>2. QED BY <1>1, Safety, PTL

\* Removal, and every failure of probe, leaves the device quiet.
THEOREM UnboundIsQuiet == Spec => []QuietWhenUnbound
<1>1. SafetyInv => QuietWhenUnbound
  <2>1. SUFFICES ASSUME SafetyInv, pc[Binder] = "unbound"
                 PROVE  ~bus_master /\ ~status_irq /\ ~irq_registered /\ ~msi_on /\ ~buffer_live
    BY DEF QuietWhenUnbound
  <2>2. Place(Binder) = "unbound" BY <2>1 DEF Place
  <2>3. ~bus_master /\ ~irq_registered /\ ~msi_on /\ ~buffer_live
    BY <2>1, <2>2 DEF SafetyInv, ResourceInv, RegisteredPlaces, VectorPlaces, MasterPlaces, RemoveLabels
  <2>4. ~status_irq
    BY <2>1, <2>2 DEF SafetyInv, DrainInv, FactorialIrqOnlyDuringOperation
  <2>5. QED BY <2>3, <2>4
<1>2. QED BY <1>1, Safety, PTL

-----------------------------------------------------------------------------
(* A faulted path stays faulted.                                           *)

\* No store clears the fault.
LEMMA TaskKeepsFaulted ==
  ASSUME TypeInv, SafetyInv, edu.dma_faulted, NEW t \in Tasks, TaskStep(t)
  PROVE  (DmaRunning' => DmaRunning) /\ edu'.dma_faulted
<1>1. edu'.dma_faulted
  BY StoreFault DEF TaskStep, DmaFault, TypeInv, TypeOK, EduType
<1>2. Place(t) \notin DmaLabels \ {"dma_sync"}
  BY DEF SafetyInv, FaultInv
<1>3. DmaRunning' => DmaRunning
  <2> USE DEF deviceVars, memVars, DmaRunning
  <2>1. CASE DmaRoundtripStore(t)
    <3>1. CASE DmaCommand(t)
      BY <1>2, <3>1 DEF DmaCommand, Step, Goto, Place, DmaLabels
    <3>2. CASE DmaSource(t) \/ DmaDestination(t) \/ DmaCount(t)
      BY <1>2, <3>2 DEF DmaSource, DmaDestination, DmaCount, Step, Goto, Place, DmaLabels
    <3>3. CASE DmaBegin(t) BY <3>3 DEF DmaBegin
    <3>4. CASE DmaFault(t) BY <3>4 DEF DmaFault, SetMaster
    <3>5. CASE DmaSentinel(t) BY <3>5 DEF DmaSentinel, Fill
    <3>6. CASE DmaRefuse(t) \/ DmaWait(t) \/ DmaReadCommand(t) \/ DmaReadStatus(t)
               \/ DmaSync(t) \/ DmaVerify(t)
      BY <3>6 DEF DmaRefuse, DmaWait, Wait, DmaReadCommand, DmaReadStatus, DmaSync, DmaVerify
    <3>7. QED BY <2>1, <3>1, <3>2, <3>3, <3>4, <3>5, <3>6 DEF DmaRoundtripStore
  <2>2. CASE LivenessStore(t)
    BY <2>2 DEF LivenessStore, LivenessWrite, LivenessRead, WriteLiveness
  <2>3. CASE FactorialStore(t)
    BY <2>3 DEF FactorialStore, FactorialBegin, FactorialRequest, FactorialStart, FactorialWait,
                FactorialStop, FactorialRead, Wait, WriteStatus, WriteFactorial
  <2>4. CASE TriggerIrqStore(t)
    BY <2>4 DEF TriggerIrqStore, TriggerBegin, TriggerRaise, TriggerWait, TriggerEnd, Wait,
                WriteIrqRaise
  <2>5. CASE Call(t) \/ Lock(t) \/ Unlock(t) \/ Return(t)
    BY <2>5, CallBoundary DEF Boundary
  <2>6. CASE AckRead(t) \/ AckWrite(t)
    BY <2>6 DEF AckRead, AckWrite, WriteIrqAck
  <2>7. QED
    BY <2>1, <2>2, <2>3, <2>4, <2>5, <2>6 DEF TaskStep, StoreStep
<1>4. QED BY <1>1, <1>3

\* Nor does anything else but a new probe.
LEMMA OthersKeepFaulted ==
  ASSUME TypeInv, SafetyInv, edu.dma_faulted,
         \/ Remove \/ BinderStep \/ Lock(Binder) \/ AckRead(Binder) \/ AckWrite(Binder)
         \/ IrqHandler \/ FactStep \/ TimerStep \/ UNCHANGED vars
         \/ \E h \in Handles : Probe(h)
  PROVE  (DmaRunning' => DmaRunning) /\ (edu'.dma_faulted \/ pc[Binder] = "rel_buffer")
<1> USE DEF deviceVars, memVars, DmaRunning, Step, Goto, TypeInv, TypeOK, EduType
<1>1. Place(Binder) \notin {"unbound"} \cup ProbeLabels
  BY DEF SafetyInv, FaultInv
<1>2. CASE Remove \/ RemoveDrained \/ RemovePoll \/ RemoveSync \/ Lock(Binder)
  BY <1>2 DEF Remove, RemoveDrained, RemovePoll, CallAck, RemoveSync, Lock
<1>3. CASE RemoveQuiesce \/ RemoveMaster \/ ReleaseMaster
  BY <1>3 DEF RemoveQuiesce, RemoveMaster, ReleaseMaster, WriteStatus, SetMaster
<1>4. CASE ReleaseIrq \/ ReleaseVectors \/ ReleaseBuffer
  BY <1>4 DEF ReleaseIrq, ReleaseVectors, ReleaseBuffer
<1>5. CASE \/ ProbeMaster \/ ProbeQuiesce \/ ProbeRequestIrq \/ ProbeSysfs \/ ProbeFail
           \/ \E h \in Handles : Probe(h)
           \/ \E msi_allowed \in BOOLEAN : ProbeVectors(msi_allowed)
  BY <1>1, <1>5 DEF ProbeMaster, ProbeQuiesce, CallAck, ProbeRequestIrq, ProbeSysfs, ProbeFail,
                    Probe, ProbeVectors, Place, ProbeLabels
<1>6. CASE AckRead(Binder) \/ AckWrite(Binder)
  BY <1>6 DEF AckRead, AckWrite, WriteIrqAck
<1>7. CASE IrqEnter \/ IrqRead \/ IrqAck \/ IrqRecord \/ IrqCompleteAny
  BY <1>7 DEF IrqEnter, IrqRead, IrqAck, WriteIrqAck, IrqRecord, IrqCompleteAny
<1>8. CASE IrqCompleteFactorial \/ IrqCompleteDma
  BY <1>8 DEF IrqCompleteFactorial, IrqCompleteDma, IrqComplete
<1>9. CASE FactStep BY <1>9 DEF FactStep, FactThread, driverVars
<1>10. CASE TimerStep BY <1>10, Zenon DEF TimerStep, DmaTimer, driverVars
<1>11. CASE UNCHANGED vars BY <1>11 DEF vars, driverVars
<1>12. QED
  BY <1>2, <1>3, <1>4, <1>5, <1>6, <1>7, <1>8, <1>9, <1>10, <1>11 DEF BinderStep, IrqHandler

\* No transfer is begun on a faulted path, and only the release of the binding
\* clears the fault.
THEOREM FaultIsFinal == Spec => FaultedStaysFaulted
<1>1. TypeInv /\ SafetyInv /\ [Next]_vars =>
        (edu.dma_faulted => /\ DmaRunning' => DmaRunning
                            /\ edu'.dma_faulted \/ pc[Binder] = "rel_buffer")
  BY TaskKeepsFaulted, OthersKeepFaulted DEF Next, TaskStep
<1>2. QED BY <1>1, Safety, PTL DEF Spec, FaultedStaysFaulted
=============================================================================
