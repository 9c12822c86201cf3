------------------------ MODULE QemuEduTimelyProofs ------------------------
(***************************************************************************)
(* Theorems about QemuEdu while its waits are long enough: what a write to *)
(* factorial, trigger_irq or dma_roundtrip that succeeds has achieved.     *)
(***************************************************************************)
EXTENDS QemuEduProofs

\* The conditions of the theorems: 2 s are more than an outstanding operation
\* takes, no signal ends a wait, and nobody writes to trigger_irq while a
\* second CPU can run the handler.  Without each of them a run finds a
\* violation (QemuEduFactorialSignal, QemuEduTriggerRace) or the code gives up
\* on an operation that is still under way.
Unraced == Timely /\ ~Signals /\ (OneCpu \/ "trigger_irq" \notin Files)

-----------------------------------------------------------------------------
(* The inductive invariant.                                                *)

WaitLabels == {"fact_wait", "trig_wait", "dma_wait"}

\* The handler has completed, or will not complete, what its status asks for.
HandlerDone ==
    \/ irq_pc \in {"idle", "complete_any"}
    \/ irq_pc = "complete_dma" /\ "dma" \notin irq_val

Unasserted == ~msi_pending /\ ~intx_line

ThreadIdle == ~computing /\ fact_pc = "wait"

\* Nothing the device or the handler still has to do can reach a waiter.
Calm == ThreadIdle /\ ~DmaRunning /\ Unasserted /\ HandlerDone

\* An interrupt with status bits is on its way: raised, and asserted unless
\* the bus swallows its message; being read and acknowledged; or inside the
\* handler at one of the labels through, which lead to the completion.
Underway(bits, through) ==
    /\ ThreadIdle /\ ~DmaRunning
    /\ \/ /\ irq_status = bits
          /\ intx_line = ~msi_on
          /\ \/ HandlerDone /\ msi_pending = (msi_on /\ bus_master)
             \/ irq_pc = "read" /\ ~msi_pending
             \/ irq_pc = "ack" /\ ~msi_pending /\ irq_val = bits
       \/ /\ irq_status = {}
          /\ Unasserted
          /\ irq_pc \in through /\ irq_val = bits

ThroughFactorial == {"record", "complete_factorial"}
ThroughDma       == ThroughFactorial \cup {"complete_dma"}
ThroughAny       == ThroughDma \cup {"complete_any"}

\* irq_count has gone up by n since operation_lock was taken, the last time
\* for an interrupt with status bits.
Counted(n) == edu.irq_count = (count_at_lock + n) % CountModulus
CountedLast(n, bits) == Counted(n) /\ edu.last_irq_status = bits

\* Of an interrupt that is under way: the handler has counted it.
Recorded == irq_status = {} /\ irq_pc # "record"

Result(t) == Factorial[loc[t].value]

\* At "fact_wait": the thread computes; its interrupt is under way; or it has
\* been delivered, or will not be (a forced timeout, a lost message).
FactorialWaiting(t) ==
    \/ /\ ~DmaRunning /\ Unasserted /\ HandlerDone
       /\ irq_status = {}
       /\ ~edu.factorial_done
       /\ \/ computing /\ fact_pc = "wait" /\ fact = loc[t].value
          \/ fact_pc = "compute" /\ fact_val = loc[t].value
          \/ fact_pc = "clear" /\ fact = Result(t)
          \/ fact_pc \in {"check", "raise"} /\ ~computing /\ fact = Result(t)
    \/ /\ Underway({"factorial"}, ThroughFactorial)
       /\ ~edu.factorial_done
       /\ fact = Result(t)
    \/ /\ Calm
       /\ edu.factorial_done => fact = Result(t)

\* At "trig_wait", on one CPU.
TriggerWaiting(t) ==
    /\ OneCpu
    /\ \/ /\ Underway(loc[t].mask, ThroughAny)
          /\ ~edu.any_irq_done
          /\ irq_pc \in {"complete_dma", "complete_any"} => irq_status = {}
          /\ IF Recorded THEN CountedLast(1, loc[t].mask) ELSE Counted(0)
       \/ /\ Calm
          /\ irq_pc = "idle"
          /\ edu.any_irq_done => CountedLast(1, loc[t].mask)

\* The transfers of a round trip that lie behind it.
Behind(t) == IF loc[t].to_ram THEN 1 ELSE 0

Pattern(t) == [byte |-> "pattern", length |-> loc[t].value]

DevHasPattern(t) == \A i \in 0 .. loc[t].value - 1 : dev_buf[i] = Pattern(t)

RamHasPattern(t) ==
    \A i \in 0 .. loc[t].value - 1 : ram[edu.dma_handle][i] = Pattern(t)

\* What is where before and after a transfer.
DataBefore(t) == IF loc[t].to_ram THEN DevHasPattern(t) ELSE RamHasPattern(t)
DataAfter(t)  == DevHasPattern(t) /\ (loc[t].to_ram => RamHasPattern(t))

SourceSet(t) == dma.src = IF loc[t].to_ram THEN DevStart ELSE edu.dma_handle
DestinationSet(t) == dma.dst = IF loc[t].to_ram THEN edu.dma_handle ELSE DevStart

Command(t) ==
    {"run"} \cup (IF loc[t].to_ram THEN {"to_ram"} ELSE {})
      \cup (IF parameter.force_dma_timeout THEN {} ELSE {"irq"})

\* At "dma_wait": the timer runs; its interrupt is under way; or the interrupt
\* has been delivered, unless it was the one that is forced to be missing.
DmaWaiting(t) ==
    \/ /\ dma.cmd = Command(t)
       /\ SourceSet(t) /\ DestinationSet(t) /\ dma.cnt = loc[t].value
       /\ ThreadIdle /\ Unasserted /\ HandlerDone
       /\ irq_status = {}
       /\ ~edu.dma_done
       /\ DataBefore(t) /\ Counted(Behind(t))
    \/ /\ Underway({"dma"}, ThroughDma)
       /\ ~edu.dma_done
       /\ DataAfter(t)
       /\ IF Recorded THEN CountedLast(Behind(t) + 1, {"dma"}) ELSE Counted(Behind(t))
    \/ /\ Calm
       /\ DataAfter(t)
       /\ IF edu.dma_done THEN CountedLast(Behind(t) + 1, {"dma"})
                          ELSE parameter.force_dma_timeout

\* What a call has parsed, and where qemu_edu_ack_pending_irqs returns to.
CallShape(t) ==
    /\ loc[t].file \in Files \cup {"none"}
    /\ loc[t].file = "trigger_irq" => loc[t].mask # {}
    /\ loc[t].file = "dma_roundtrip" => DmaAccepts(loc[t].value)
    /\ pc[t] = "live_read" => loc[t].file = "liveness"
    /\ Place(t) \in TrigLabels => loc[t].file = "trigger_irq"
    /\ pc[t] \in {"lock", "locked"} => ~loc[t].to_ram
    /\ pc[t] \in {"ack_read", "ack_write"} =>
         loc[t].resume \in {"fact_request", "trig_raise", "dma_src", "dma_sync"}

\* A call in the critical section, label by label.
FactorialPhase(t) ==
    /\ pc[t] \in {"fact_request", "fact_start"} => irq_status = {}
    /\ pc[t] = "fact_start" => ~edu.factorial_done
    /\ pc[t] = "fact_wait" => FactorialWaiting(t)
    /\ pc[t] = "fact_stop" => (loc[t].waited = "done" => fact = Result(t))
    /\ pc[t] = "fact_read" => fact = Result(t)

TriggerPhase(t) ==
    /\ Place(t) = "trig_raise" => Counted(0)
    /\ pc[t] = "trig_raise" => irq_status = {}
    /\ pc[t] = "trig_wait" => TriggerWaiting(t)
    /\ pc[t] = "trig_end" => (loc[t].waited = "done" => CountedLast(1, loc[t].mask))
    /\ pc[t] = "unlock" /\ loc[t].file = "trigger_irq" /\ loc[t].ret = "ok" =>
         CountedLast(1, loc[t].mask)

DmaSetLabels == {"dma_dst", "dma_cnt", "dma_cmd"}

DmaPhase(t) ==
    /\ Place(t) \in {"dma_src"} \cup DmaSetLabels => DataBefore(t) /\ Counted(Behind(t))
    /\ pc[t] \in {"dma_src"} \cup DmaSetLabels => irq_status = {}
    /\ pc[t] \in DmaSetLabels => SourceSet(t) /\ ~edu.dma_done
    /\ pc[t] \in {"dma_cnt", "dma_cmd"} => DestinationSet(t)
    /\ pc[t] = "dma_cmd" => dma.cnt = loc[t].value
    /\ pc[t] = "dma_wait" => DmaWaiting(t)
    /\ pc[t] = "dma_command" =>
         \/ loc[t].waited = "done" /\ CountedLast(Behind(t) + 1, {"dma"}) /\ DataAfter(t)
         \/ loc[t].waited = "timeout" /\ parameter.force_dma_timeout
    /\ pc[t] = "dma_status" => CountedLast(Behind(t) + 1, {"dma"}) /\ DataAfter(t)
    /\ Place(t) \in {"dma_fault", "dma_sync"} =>
         parameter.force_dma_timeout /\ loc[t].waited = "timeout" /\ ~loc[t].running
    /\ pc[t] = "unlock" /\ loc[t].file = "dma_roundtrip" /\ loc[t].ret = "ok" =>
         CountedLast(2, {"dma"}) /\ DevHasPattern(t) /\ RamHasPattern(t)

Phase(t) ==
    /\ pc[t] = "ack_write" => loc[t].status = irq_status
    /\ pc[t] = "locked" => Counted(0)
    /\ FactorialPhase(t) /\ TriggerPhase(t) /\ DmaPhase(t)

CallsInv == \A t \in Tasks : CallShape(t) /\ (InCritical(t) => Phase(t))

CalmInv == (\A t \in Tasks : pc[t] \notin WaitLabels) => Calm

\* What a binding has while it can be used.
MasteredPlaces ==
    {"probe_status", "probe_vectors", "probe_irq", "probe_sysfs", "bound", "rm_drain"}

BindingInv ==
    /\ Place(Binder) # "unbound" =>
         edu.dma_handle \in Handles /\ edu.dma_handle + BufSize - 1 <= AddrMask
    /\ Place(Binder) \in MasteredPlaces => bus_master \/ edu.dma_faulted
    /\ Place(Binder) \in {"probe_sysfs", "bound", "rm_drain"} => irq_registered
    /\ pc[Binder] \in {"ack_read", "ack_write"} =>
         loc[Binder].resume \in {"probe_vectors", "rm_master", "rm_sync"}

\* What the structure remembers of calls that are over.
ResultInv ==
    /\ FactorialCorrect
    /\ edu.dma_faulted => parameter.force_dma_timeout
    /\ edu.dma_result \in {"not-run", "passed", "timeout"}

TimelyInv == CallsInv /\ CalmInv /\ BindingInv /\ ResultInv

USE DEF Procs

-----------------------------------------------------------------------------
(* Arithmetic and frames.                                                  *)

\* The remainder is unique.
LEMMA Remainder ==
  ASSUME NEW m \in Nat \ {0}, NEW q \in Nat, NEW r \in 0 .. m - 1
  PROVE  (m * q + r) % m = r
OBVIOUS

\* irq_count, which wraps, plus one.
LEMMA NextCount ==
  ASSUME NEW c \in Nat, NEW m \in Nat \ {0}
  PROVE  /\ ((c % m) + 1) % m = (c + 1) % m
         /\ c < m => c % m = c
<1>1. /\ c = m * (c \div m) + (c % m)
      /\ c \div m \in Nat /\ c % m \in 0 .. m - 1
  BY SMT
<1>2. DEFINE q == c \div m
             r == c % m
<1>3. c < m => c % m = c
  BY SMT
<1>4. CASE r + 1 < m
  <2>1. c + 1 = m * q + (r + 1) BY <1>1
  <2>2. (c + 1) % m = r + 1 BY <1>1, <1>4, <2>1
  <2>3. (r + 1) % m = r + 1 BY <1>1, <1>4
  <2>4. QED BY <1>3, <2>2, <2>3
<1>5. CASE r + 1 = m
  <2>1. c + 1 = m * (q + 1) BY <1>1, <1>5
  <2>2. q + 1 \in Nat /\ 0 \in 0 .. m - 1 BY <1>1
  <2>3. (m * (q + 1) + 0) % m = 0 BY <2>2, Remainder
  <2>4. (c + 1) % m = 0 BY <1>1, <2>1, <2>3
  <2>5. (r + 1) % m = 0 BY <1>5
  <2>6. QED BY <1>3, <2>4, <2>5
<1>6. QED BY <1>1, <1>4, <1>5

\* One process is in the critical section: no other is, the driver is bound
\* and nobody else waits.
LEMMA OneInside ==
  ASSUME TypeInv, SafetyInv, NEW t \in Tasks, InCritical(t)
  PROVE  /\ \A q \in Procs \ {t} : ~InCritical(q)
         /\ \A u \in Tasks \ {t} : pc[u] \notin WaitLabels
         /\ Place(Binder) \in {"bound", "rm_drain"}
         /\ pc[t] # "idle"
<1>1. \A q \in Procs \ {t} : ~InCritical(q)
  BY DEF SafetyInv, LockInv
<1>2. \A u \in Tasks : pc[u] \in WaitLabels => InCritical(u)
  BY DEF WaitLabels, InCritical, Place, Critical, FactLabels, TrigLabels, DmaLabels
<1>3. pc[t] # "idle"
  BY DEF InCritical, Place, Critical, FactLabels, TrigLabels, DmaLabels, RemoveLabels
<1>4. Place(Binder) \in {"bound", "rm_drain"}
  BY <1>3 DEF SafetyInv, DrainInv
<1>5. QED BY <1>1, <1>2, <1>3, <1>4

\* What a call has seen stays true while nothing it depends on changes.
LEMMA PhaseStays ==
  ASSUME NEW t \in Tasks, Phase(t), pc'[t] = pc[t], loc'[t] = loc[t],
         UNCHANGED <<deviceVars, edu, lockVars, irqHandler, parameter>>
  PROVE  Phase(t)'
<1> USE DEF deviceVars, irqVars, pciVars, factVars, memVars, lockVars, irqHandler
<1>1. /\ \A n \in Nat : Counted(n)' <=> Counted(n)
      /\ \A b : \A n \in Nat : CountedLast(n, b)' <=> CountedLast(n, b)
      /\ Result(t)' = Result(t) /\ Place(t)' = Place(t) /\ Behind(t)' = Behind(t)
      /\ HandlerDone' <=> HandlerDone
      /\ Unasserted' <=> Unasserted
      /\ ThreadIdle' <=> ThreadIdle
      /\ DmaRunning' <=> DmaRunning
      /\ \A b, th : Underway(b, th)' <=> Underway(b, th)
      /\ Recorded' <=> Recorded
  BY DEF Counted, CountedLast, Result, Place, Behind, HandlerDone, Unasserted, ThreadIdle,
         DmaRunning, Underway, Recorded
<1>2. /\ DevHasPattern(t)' <=> DevHasPattern(t)
      /\ RamHasPattern(t)' <=> RamHasPattern(t)
      /\ SourceSet(t)' <=> SourceSet(t)
      /\ DestinationSet(t)' <=> DestinationSet(t)
      /\ Command(t)' = Command(t)
  BY DEF DevHasPattern, RamHasPattern, Pattern, SourceSet, DestinationSet, Command
<1>3. /\ DataBefore(t)' <=> DataBefore(t)
      /\ DataAfter(t)' <=> DataAfter(t)
  BY <1>2 DEF DataBefore, DataAfter
<1>4. Behind(t) \in Nat /\ Behind(t) + 1 \in Nat
  BY DEF Behind
<1>5. FactorialPhase(t)'
  BY <1>1 DEF Phase, FactorialPhase, FactorialWaiting, Calm
<1>6. TriggerPhase(t)'
  BY <1>1 DEF Phase, TriggerPhase, TriggerWaiting, Calm
<1>7. DmaWaiting(t) => DmaWaiting(t)'
  BY <1>1, <1>2, <1>3, <1>4 DEF DmaWaiting, Calm
<1>8. DmaPhase(t)'
  BY <1>1, <1>2, <1>3, <1>4, <1>7 DEF Phase, DmaPhase
<1>9. QED BY <1>1, <1>5, <1>6, <1>8 DEF Phase

-----------------------------------------------------------------------------
(* The handler and the device.                                             *)

LateStep == IrqHandler \/ FactStep \/ TimerStep

\* What neither the handler nor the device touches.
LEMMA LateLeavesAlone ==
  ASSUME TypeInv, LateStep
  PROVE  /\ UNCHANGED <<pc, loc, lockVars, bindVars, msi_on, bus_master>>
         /\ edu'.dma_handle = edu.dma_handle
         /\ edu'.dma_faulted = edu.dma_faulted
         /\ edu'.dma_result = edu.dma_result
         /\ edu'.factorial_valid = edu.factorial_valid
         /\ edu'.factorial_input = edu.factorial_input
         /\ edu'.factorial_result = edu.factorial_result
<1> USE DEF TypeInv, TypeOK, EduType, IrqGoto, deviceVars, pciVars
<1>1. CASE IrqEnter \/ IrqRead \/ IrqAck
  BY <1>1 DEF IrqEnter, IrqRead, IrqAck, WriteIrqAck
<1>2. CASE IrqRecord BY <1>2 DEF IrqRecord
<1>3. CASE IrqCompleteFactorial BY <1>3 DEF IrqCompleteFactorial, IrqComplete
<1>4. CASE IrqCompleteDma BY <1>4 DEF IrqCompleteDma, IrqComplete
<1>5. CASE IrqCompleteAny BY <1>5 DEF IrqCompleteAny
<1>6. CASE FactStep BY <1>6 DEF FactStep, FactThread, driverVars
<1>7. CASE TimerStep BY <1>7 DEF TimerStep, DmaTimer, driverVars
<1>8. QED BY <1>1, <1>2, <1>3, <1>4, <1>5, <1>6, <1>7 DEF LateStep, IrqHandler

\* Once everything is calm the handler at most runs to its end, which changes
\* no completion but any_irq_done.
LEMMA CalmStays ==
  ASSUME TypeInv, Calm, LateStep
  PROVE  /\ Calm'
         /\ irq_pc \in {"complete_dma", "complete_any"}
         /\ edu'.factorial_done = edu.factorial_done
         /\ edu'.dma_done = edu.dma_done
         /\ edu'.irq_count = edu.irq_count
         /\ edu'.last_irq_status = edu.last_irq_status
         /\ UNCHANGED deviceVars
<1>1. ~FactStep /\ ~TimerStep
  BY DEF Calm, ThreadIdle, FactStep, FactThread, FactTake, FactStore, FactClear, FactCheck, FactRaise,
         TimerStep, DmaTimer
<1>2. ~IrqEnter
  BY DEF Calm, Unasserted, IrqEnter, InterruptAsserted
<1>3. IrqCompleteDma \/ IrqCompleteAny
  BY <1>1, <1>2 DEF LateStep, IrqHandler, Calm, HandlerDone, IrqRead, IrqAck, IrqRecord,
                    IrqCompleteFactorial, IrqComplete, IrqGoto
<1> USE DEF TypeInv, TypeOK, EduType, IrqGoto, deviceVars, irqVars, pciVars, factVars, memVars,
        Calm, ThreadIdle, DmaRunning, Unasserted, HandlerDone
<1>4. CASE IrqCompleteDma
  BY <1>4 DEF IrqCompleteDma, IrqComplete
<1>5. CASE IrqCompleteAny
  BY <1>5 DEF IrqCompleteAny
<1>6. QED BY <1>3, <1>4, <1>5

\* An interrupt that is under way comes nearer to its completion.
LEMMA UnderwayMoves ==
  ASSUME TypeInv, LateStep, NEW bits \in SUBSET IrqBits, bits # {},
         NEW through \in SUBSET ThroughAny, Underway(bits, through)
  PROVE  /\ UNCHANGED <<factVars, memVars>>
         /\ \/ /\ irq_status = bits
               /\ irq_pc \in {"idle", "complete_dma", "complete_any", "read"}
               /\ irq_status' = bits /\ intx_line' = ~msi_on'
               /\ \/ HandlerDone' /\ msi_pending' = (msi_on' /\ bus_master')
                  \/ irq_pc' = "read" /\ ~msi_pending'
                  \/ irq_pc' = "ack" /\ ~msi_pending' /\ irq_val' = bits
               /\ IrqEnter \/ IrqRead \/ IrqCompleteDma \/ IrqCompleteAny
            \/ /\ irq_status = bits
               /\ IrqAck
               /\ irq_status' = {} /\ Unasserted'
               /\ irq_pc' = "record" /\ irq_val' = bits
            \/ /\ irq_status = {} /\ irq_status' = {}
               /\ Unasserted'
               /\ irq_pc \in through /\ irq_val = bits
               /\ IrqRecord \/ IrqCompleteFactorial \/ IrqCompleteDma \/ IrqCompleteAny
         /\ ThreadIdle' /\ ~DmaRunning'
<1>1. ~FactStep /\ ~TimerStep
  BY DEF Underway, ThreadIdle, FactStep, FactThread, FactTake, FactStore, FactClear, FactCheck,
         FactRaise, TimerStep, DmaTimer
<1> USE DEF TypeInv, TypeOK, DeviceTypeOK, IrqGoto, deviceVars, irqVars, pciVars, factVars, memVars,
        Underway, ThreadIdle, DmaRunning, Unasserted, HandlerDone, ThroughAny, ThroughDma,
        ThroughFactorial
<1>2. CASE IrqEnter BY <1>2 DEF IrqEnter, InterruptAsserted
<1>3. CASE IrqRead BY <1>3 DEF IrqRead
<1>4. CASE IrqAck BY <1>4 DEF IrqAck, WriteIrqAck, LowerIrq
<1>5. CASE IrqRecord BY <1>5 DEF IrqRecord
<1>6. CASE IrqCompleteFactorial BY <1>6 DEF IrqCompleteFactorial, IrqComplete
<1>7. CASE IrqCompleteDma BY <1>7 DEF IrqCompleteDma, IrqComplete
<1>8. CASE IrqCompleteAny BY <1>8 DEF IrqCompleteAny
<1>9. QED BY <1>1, <1>2, <1>3, <1>4, <1>5, <1>6, <1>7, <1>8 DEF LateStep, IrqHandler

\* A handler that has nothing left to complete, and no interrupt to enter for.
LEMMA DoneStays ==
  ASSUME TypeInv, IrqHandler, HandlerDone, Unasserted
  PROVE  /\ IrqCompleteDma \/ IrqCompleteAny
         /\ HandlerDone'
         /\ irq_pc # "idle"
         /\ UNCHANGED deviceVars
         /\ edu'.factorial_done = edu.factorial_done
         /\ edu'.dma_done = edu.dma_done
         /\ edu'.irq_count = edu.irq_count
<1>1. IrqCompleteDma \/ IrqCompleteAny
  BY DEF IrqHandler, HandlerDone, Unasserted, InterruptAsserted, IrqEnter, IrqRead, IrqAck,
         IrqRecord, IrqCompleteFactorial, IrqComplete, IrqGoto
<1> USE DEF TypeInv, TypeOK, EduType, IrqGoto, HandlerDone
<1>2. CASE IrqCompleteDma BY <1>2 DEF IrqCompleteDma, IrqComplete
<1>3. CASE IrqCompleteAny BY <1>3 DEF IrqCompleteAny
<1>4. QED BY <1>1, <1>2, <1>3

\* While the store waits for factorial_done, the result is either still being computed or on its way.
LEMMA FactorialWaitingStays ==
  ASSUME TypeInv, LateStep, NEW t \in Tasks, FactorialWaiting(t), pc[t] = "fact_wait"
  PROVE  FactorialWaiting(t)'
<1>1. Result(t)' = Result(t) /\ loc' = loc /\ edu \in EduType
  BY LateLeavesAlone DEF Result, TypeInv, TypeOK
<1>2. CASE Calm /\ (edu.factorial_done => fact = Result(t))
  <2>1. Calm' /\ edu'.factorial_done = edu.factorial_done /\ fact' = fact
    BY <1>2, CalmStays DEF deviceVars, factVars
  <2>2. QED BY <1>1, <1>2, <2>1 DEF FactorialWaiting
<1>3. CASE Underway({"factorial"}, ThroughFactorial) /\ ~edu.factorial_done /\ fact = Result(t)
  <2>1. fact' = fact BY <1>3, UnderwayMoves DEF factVars, IrqBits, ThroughAny, ThroughDma
  <2>2. CASE irq_status' = {"factorial"}
    <3>1. ~edu'.factorial_done
      BY <1>1, <1>3, <2>2, UnderwayMoves
         DEF IrqBits, ThroughAny, ThroughDma, EduType, IrqEnter, IrqRead, IrqCompleteDma, IrqComplete,
             IrqCompleteAny
    <3>2. Underway({"factorial"}, ThroughFactorial)'
      BY <1>3, <2>2, UnderwayMoves DEF IrqBits, ThroughAny, ThroughDma, Underway
    <3>3. QED BY <1>1, <1>3, <2>1, <3>1, <3>2 DEF FactorialWaiting
  <2>3. CASE irq_status' = {}
    <3>1. /\ ThreadIdle' /\ ~DmaRunning' /\ Unasserted'
          /\ \/ IrqAck /\ irq_pc' = "record" /\ irq_val' = {"factorial"}
             \/ /\ irq_pc \in ThroughFactorial /\ irq_val = {"factorial"}
                /\ IrqRecord \/ IrqCompleteFactorial \/ IrqCompleteDma \/ IrqCompleteAny
      BY <1>3, <2>3, UnderwayMoves DEF IrqBits, ThroughAny, ThroughDma
    <3>2. CASE IrqAck /\ irq_pc' = "record" /\ irq_val' = {"factorial"}
      BY <1>1, <1>3, <2>1, <2>3, <3>1, <3>2
         DEF FactorialWaiting, Underway, ThroughFactorial, IrqAck
    <3>3. CASE IrqRecord /\ irq_val = {"factorial"}
      BY <1>1, <1>3, <2>1, <2>3, <3>1, <3>3
         DEF FactorialWaiting, Underway, ThroughFactorial, IrqRecord, IrqGoto, EduType
    <3>4. CASE IrqCompleteFactorial /\ irq_val = {"factorial"}
      BY <1>1, <1>3, <2>1, <2>3, <3>1, <3>4
         DEF FactorialWaiting, Calm, HandlerDone, IrqCompleteFactorial, IrqComplete, IrqGoto, EduType
    <3>5. QED
      BY <3>1, <3>2, <3>3, <3>4
         DEF ThroughFactorial, IrqCompleteDma, IrqComplete, IrqCompleteAny, IrqGoto
  <2>4. QED BY <1>3, <2>2, <2>3, UnderwayMoves DEF IrqBits, ThroughAny, ThroughDma
<1>4. CASE /\ ~DmaRunning /\ Unasserted /\ HandlerDone /\ irq_status = {}
           /\ ~edu.factorial_done
           /\ \/ computing /\ fact_pc = "wait" /\ fact = loc[t].value
              \/ fact_pc = "compute" /\ fact_val = loc[t].value
              \/ fact_pc = "clear" /\ fact = Result(t)
              \/ fact_pc \in {"check", "raise"} /\ ~computing /\ fact = Result(t)
  <2>1. CASE IrqHandler
    BY <1>1, <1>4, <2>1, DoneStays
       DEF FactorialWaiting, deviceVars, irqVars, factVars, memVars, DmaRunning, Unasserted
  <2>2. CASE TimerStep
    BY <1>4, <2>2 DEF TimerStep, DmaTimer
  <2>3. CASE FactStep
    <3>1. /\ edu' = edu /\ irq_pc' = irq_pc /\ irq_val' = irq_val /\ dma' = dma
          /\ msi_on' = msi_on /\ bus_master' = bus_master
      BY <2>3 DEF FactStep, FactThread, driverVars, irqHandler, memVars, pciVars
    <3> USE DEF FactStep, FactThread, FactorialWaiting, DmaRunning, Unasserted, HandlerDone, irqVars, Result
    <3>2. CASE FactTake BY <1>1, <1>4, <2>3, <3>1, <3>2 DEF FactTake
    <3>3. CASE FactStore BY <1>1, <1>4, <2>3, <3>1, <3>3 DEF FactStore
    <3>4. CASE FactClear BY <1>1, <1>4, <2>3, <3>1, <3>4 DEF FactClear
    <3>5. CASE FactCheck
      BY <1>1, <1>4, <2>3, <3>1, <3>5 DEF FactCheck, Calm, ThreadIdle
    <3>6. CASE FactRaise
      BY <1>1, <1>4, <2>3, <3>1, <3>6
         DEF FactRaise, RaiseIrq, Underway, ThreadIdle, TypeInv, TypeOK, DeviceTypeOK
    <3>7. QED BY <2>3, <3>2, <3>3, <3>4, <3>5, <3>6
  <2>4. QED BY <2>1, <2>2, <2>3 DEF LateStep
<1>5. QED BY <1>2, <1>3, <1>4 DEF FactorialWaiting

\* The handler counts and records the interrupt it acknowledged.
LEMMA RecordCounts ==
  ASSUME TypeInv, IrqRecord, NEW n \in Nat, Counted(n)
  PROVE  CountedLast(n + 1, irq_val)'
<1>1. /\ count_at_lock \in Nat /\ CountModulus \in Nat \ {0}
      /\ count_at_lock' = count_at_lock
  BY DriverAssumption DEF DriverAssumption, TypeInv, TypeOK, IrqRecord, IrqGoto, lockVars
<1>2. (((count_at_lock + n) % CountModulus) + 1) % CountModulus = (count_at_lock + n + 1) % CountModulus
  <2>1. \A c \in Nat, m \in Nat \ {0} : ((c % m) + 1) % m = (c + 1) % m
    BY NextCount
  <2>2. count_at_lock + n \in Nat BY <1>1
  <2>3. QED BY <1>1, <2>1, <2>2, Zenon
<1>3. /\ edu'.irq_count = (edu.irq_count + 1) % CountModulus
      /\ edu'.last_irq_status = irq_val
      /\ irq_val' = irq_val
  BY DEF IrqRecord, TypeInv, TypeOK, EduType
<1>4. count_at_lock + n + 1 = count_at_lock + (n + 1)
  BY <1>1
<1>5. QED BY <1>1, <1>2, <1>3, <1>4 DEF Counted, CountedLast

\* While the store waits for any_irq_done, the mask it raised is on its way.
LEMMA TriggerWaitingStays ==
  ASSUME TypeInv, LateStep, NEW t \in Tasks, TriggerWaiting(t), loc[t].mask # {}
  PROVE  TriggerWaiting(t)'
<1> DEFINE mask == loc[t].mask
<1>1. /\ loc' = loc /\ edu \in EduType /\ mask \in SUBSET IrqBits
      /\ count_at_lock' = count_at_lock /\ mask # {}
  BY LateLeavesAlone DEF TypeInv, TypeOK, LocalsType, lockVars
<1>2. ~(Calm /\ irq_pc = "idle")
  BY CalmStays
<1>3. /\ Underway(mask, ThroughAny) /\ ~edu.any_irq_done /\ OneCpu
      /\ irq_pc \in {"complete_dma", "complete_any"} => irq_status = {}
      /\ IF Recorded THEN CountedLast(1, mask) ELSE Counted(0)
  BY <1>2 DEF TriggerWaiting
<1>4. CASE irq_status = mask /\ irq_status' = mask
  <2>1. /\ IrqEnter \/ IrqRead
        /\ Underway(mask, ThroughAny)'
    BY <1>1, <1>3, <1>4, UnderwayMoves
       DEF ThroughAny, Underway, IrqCompleteDma, IrqComplete, IrqCompleteAny, IrqGoto
  <2>2. edu' = edu /\ irq_pc' \notin {"complete_dma", "complete_any"} /\ Counted(0)
    BY <1>1, <1>3, <1>4, <2>1 DEF IrqEnter, IrqRead, IrqGoto, Recorded
  <2>3. Counted(0)' /\ ~Recorded'
    BY <1>1, <1>4, <2>2 DEF Counted, Recorded
  <2>4. QED BY <1>1, <1>3, <2>1, <2>2, <2>3 DEF TriggerWaiting
<1>5. CASE irq_status' = {}
  <2>1. /\ ThreadIdle' /\ ~DmaRunning' /\ Unasserted'
        /\ \/ irq_status = mask /\ IrqAck /\ irq_pc' = "record" /\ irq_val' = mask
           \/ /\ irq_status = {} /\ irq_pc \in ThroughAny /\ irq_val = mask
              /\ IrqRecord \/ IrqCompleteFactorial \/ IrqCompleteDma \/ IrqCompleteAny
    BY <1>1, <1>3, <1>5, UnderwayMoves
  <2> USE DEF TriggerWaiting, Underway, ThroughAny, ThroughDma, ThroughFactorial, Recorded
  <2>2. CASE irq_status = mask /\ IrqAck /\ irq_pc' = "record" /\ irq_val' = mask
    <3>1. Counted(0)' /\ edu' = edu
      BY <1>1, <1>3, <2>2 DEF IrqAck, Counted
    <3>2. QED BY <1>1, <1>3, <1>5, <2>1, <2>2, <3>1
  <2>3. CASE IrqRecord /\ irq_status = {} /\ irq_val = mask
    <3>1. CountedLast(1, mask)'
      BY <1>1, <1>3, <2>3, RecordCounts, 0 \in Nat DEF IrqRecord, IrqGoto
    <3>2. QED
      BY <1>1, <1>3, <1>5, <2>1, <2>3, <3>1 DEF IrqRecord, IrqGoto, EduType
  <2>4. CASE IrqCompleteFactorial /\ irq_status = {} /\ irq_val = mask
    <3>1. CountedLast(1, mask)' /\ ~edu'.any_irq_done
      BY <1>1, <1>3, <2>4
         DEF IrqCompleteFactorial, IrqComplete, IrqGoto, EduType, CountedLast, Counted
    <3>2. QED BY <1>1, <1>3, <1>5, <2>1, <2>4, <3>1 DEF IrqCompleteFactorial, IrqComplete, IrqGoto
  <2>5. CASE IrqCompleteDma /\ irq_status = {} /\ irq_val = mask
    <3>1. CountedLast(1, mask)' /\ ~edu'.any_irq_done
      BY <1>1, <1>3, <2>5
         DEF IrqCompleteDma, IrqComplete, IrqGoto, EduType, CountedLast, Counted
    <3>2. QED BY <1>1, <1>3, <1>5, <2>1, <2>5, <3>1 DEF IrqCompleteDma, IrqComplete, IrqGoto
  <2>6. CASE IrqCompleteAny /\ irq_status = {} /\ irq_val = mask
    <3>1. CountedLast(1, mask)' /\ irq_pc' = "idle"
      BY <1>1, <1>3, <2>6 DEF IrqCompleteAny, IrqGoto, EduType, CountedLast, Counted
    <3>2. QED BY <1>1, <1>3, <2>1, <3>1 DEF Calm, HandlerDone
  <2>7. QED BY <2>1, <2>2, <2>3, <2>4, <2>5, <2>6
<1>6. QED BY <1>1, <1>3, <1>4, <1>5, UnderwayMoves

\* A round trip while it waits: its device buffer, its handle, its length.
DmaUsable(t) ==
    bus_master /\ edu.dma_handle \in Handles /\ DmaAccepts(loc[t].value) /\ loc[t].value \in Nat

\* The DMA timer copies the bytes in the direction of the command and raises its interrupt.
LEMMA TimerFires ==
  ASSUME TypeInv, TimerStep, NEW t \in Tasks, DmaUsable(t),
         dma.cmd = Command(t), SourceSet(t), DestinationSet(t), dma.cnt = loc[t].value,
         DataBefore(t)
  PROVE  /\ DataAfter(t)' /\ ~DmaRunning'
         /\ IF parameter.force_dma_timeout THEN UNCHANGED irqVars ELSE RaiseIrq({"dma"})
<1> DEFINE n == loc[t].value
           h == edu.dma_handle
<1>1. /\ n \in Nat /\ n <= BufSize /\ BufSize \in Nat /\ h \in Handles /\ bus_master
      /\ \A i \in 0 .. n - 1 : i \in Offsets
      /\ DevStart \in Nat /\ DevSize = BufSize
  BY BufferAssumption DEF BufferAssumption, DmaUsable, DmaAccepts, Offsets
<1>2. /\ UNCHANGED <<loc, edu, parameter, bus_master>>
      /\ Pattern(t)' = Pattern(t)
  BY DEF TimerStep, DmaTimer, driverVars, bindVars, Pattern, pciVars
<1>3. InDeviceBuffer(DevStart, n)
  BY <1>1 DEF InDeviceBuffer
<1>4. ram \in [Handles -> [Offsets -> Cells]] /\ dev_buf \in [Offsets -> Cells]
  BY DEF TypeInv, TypeOK, DeviceTypeOK
<1>5. CASE loc[t].to_ram
  <2>1. "to_ram" \in dma.cmd /\ dma.src = DevStart /\ dma.dst = h /\ dma.cnt = n
    BY <1>5 DEF Command, SourceSet, DestinationSet
  <2>2. dev_buf' = dev_buf /\ ram' = [ram EXCEPT ![h] = Transfer(dev_buf, @)]
    BY <1>1, <1>3, <2>1 DEF TimerStep, DmaTimer
  <2>3. \A i \in 0 .. n - 1 : ram'[h][i] = dev_buf[i]
    BY <1>1, <1>4, <2>1, <2>2 DEF Transfer
  <2>4. DevHasPattern(t) BY <1>5 DEF DataBefore
  <2>5. QED
    BY <1>2, <2>2, <2>3, <2>4
       DEF DataAfter, DevHasPattern, RamHasPattern, TimerStep, DmaTimer, DmaRunning, Command,
           TypeInv, TypeOK, DeviceTypeOK
<1>6. CASE ~loc[t].to_ram
  <2>1. "to_ram" \notin dma.cmd /\ dma.src = h /\ dma.dst = DevStart /\ dma.cnt = n
    BY <1>6 DEF Command, SourceSet, DestinationSet
  <2>2. dev_buf' = Transfer(BusRead(h), dev_buf)
    BY <1>3, <2>1 DEF TimerStep, DmaTimer
  <2>3. BusRead(h) = ram[h]
    BY <1>1 DEF BusRead
  <2>4. \A i \in 0 .. n - 1 : dev_buf'[i] = ram[h][i]
    BY <1>1, <2>1, <2>2, <2>3 DEF Transfer
  <2>5. RamHasPattern(t) BY <1>6 DEF DataBefore
  <2>6. QED
    BY <1>2, <1>6, <2>4, <2>5
       DEF DataAfter, DevHasPattern, RamHasPattern, TimerStep, DmaTimer, DmaRunning, Command,
           TypeInv, TypeOK, DeviceTypeOK
<1>7. QED BY <1>5, <1>6

\* While the store waits for dma_done, the transfer is either armed or its interrupt on its way.
LEMMA DmaWaitingStays ==
  ASSUME TypeInv, LateStep, NEW t \in Tasks, DmaWaiting(t), DmaUsable(t)
  PROVE  DmaWaiting(t)'
<1> DEFINE k == Behind(t)
<1>1. /\ loc' = loc /\ edu \in EduType /\ parameter' = parameter
      /\ count_at_lock' = count_at_lock /\ edu'.dma_handle = edu.dma_handle
      /\ k \in Nat /\ Behind(t)' = k
      /\ Command(t)' = Command(t) /\ Pattern(t)' = Pattern(t)
  BY LateLeavesAlone DEF TypeInv, TypeOK, lockVars, bindVars, Behind, Command, Pattern
<1>2. CASE Calm /\ DataAfter(t)
            /\ IF edu.dma_done THEN CountedLast(k + 1, {"dma"}) ELSE parameter.force_dma_timeout
  <2>1. Calm' /\ edu'.dma_done = edu.dma_done /\ UNCHANGED memVars
    BY <1>2, CalmStays DEF deviceVars
  <2>2. DataAfter(t)'
    BY <1>1, <1>2, <2>1 DEF DataAfter, DevHasPattern, RamHasPattern, memVars
  <2>3. CountedLast(k + 1, {"dma"})' <=> CountedLast(k + 1, {"dma"})
    BY <1>1, <1>2, CalmStays DEF CountedLast, Counted
  <2>4. QED BY <1>1, <1>2, <2>1, <2>2, <2>3 DEF DmaWaiting
<1>3. CASE /\ Underway({"dma"}, ThroughDma) /\ ~edu.dma_done /\ DataAfter(t)
           /\ IF Recorded THEN CountedLast(k + 1, {"dma"}) ELSE Counted(k)
  <2>1. DataAfter(t)'
    <3>1. UNCHANGED memVars
      BY <1>3, UnderwayMoves DEF IrqBits, ThroughAny
    <3>2. QED
      BY <1>1, <1>3, <3>1 DEF DataAfter, DevHasPattern, RamHasPattern, memVars
  <2>2. CASE irq_status' = {"dma"}
    <3>1. /\ IrqEnter \/ IrqRead \/ IrqCompleteDma \/ IrqCompleteAny
          /\ Underway({"dma"}, ThroughDma)'
          /\ irq_status = {"dma"}
      BY <1>3, <2>2, UnderwayMoves DEF IrqBits, ThroughAny, Underway
    <3>2. /\ ~edu'.dma_done /\ edu'.irq_count = edu.irq_count
      <4>1. CASE IrqEnter \/ IrqRead
        BY <1>3, <4>1 DEF IrqEnter, IrqRead
      <4>2. CASE IrqCompleteDma
        BY <1>1, <1>3, <3>1, <4>2
           DEF IrqCompleteDma, IrqComplete, IrqGoto, EduType, Underway, HandlerDone
      <4>3. CASE IrqCompleteAny
        BY <1>1, <1>3, <4>3 DEF IrqCompleteAny, EduType
      <4>4. QED BY <3>1, <4>1, <4>2, <4>3
    <3>3. Counted(k)' /\ ~Recorded'
      BY <1>1, <1>3, <2>2, <3>1, <3>2 DEF Counted, Recorded
    <3>4. QED BY <1>1, <2>1, <3>1, <3>2, <3>3 DEF DmaWaiting
  <2>3. CASE irq_status' = {}
    <3>1. /\ ThreadIdle' /\ ~DmaRunning' /\ Unasserted'
          /\ \/ /\ irq_status = {"dma"} /\ IrqAck
                /\ irq_pc' = "record" /\ irq_val' = {"dma"}
             \/ /\ irq_status = {} /\ irq_pc \in ThroughDma /\ irq_val = {"dma"}
                /\ IrqRecord \/ IrqCompleteFactorial \/ IrqCompleteDma \/ IrqCompleteAny
      BY <1>3, <2>3, UnderwayMoves DEF IrqBits, ThroughAny
    <3> USE DEF Underway, ThroughDma, ThroughFactorial, Recorded
    <3>2. CASE irq_status = {"dma"} /\ IrqAck /\ irq_pc' = "record" /\ irq_val' = {"dma"}
      <4>1. Counted(k)' /\ edu' = edu
        BY <1>1, <1>3, <3>2 DEF IrqAck, Counted
      <4>2. QED BY <1>1, <1>3, <2>1, <2>3, <3>1, <3>2, <4>1 DEF DmaWaiting
    <3>3. CASE IrqRecord /\ irq_status = {} /\ irq_val = {"dma"}
      <4>1. CountedLast(k + 1, {"dma"})'
        BY <1>1, <1>3, <3>3, RecordCounts DEF IrqRecord, IrqGoto
      <4>2. irq_pc' = "complete_factorial" /\ irq_val' = {"dma"} /\ ~edu'.dma_done
        BY <1>1, <1>3, <3>3 DEF IrqRecord, IrqGoto, EduType
      <4>3. QED BY <1>1, <2>1, <2>3, <3>1, <4>1, <4>2 DEF DmaWaiting
    <3>4. CASE IrqCompleteFactorial /\ irq_status = {} /\ irq_val = {"dma"}
      <4>1. CountedLast(k + 1, {"dma"})' /\ ~edu'.dma_done
        BY <1>1, <1>3, <3>4
           DEF IrqCompleteFactorial, IrqComplete, IrqGoto, EduType, CountedLast, Counted
      <4>2. irq_pc' = "complete_dma" /\ irq_val' = {"dma"}
        BY <3>4 DEF IrqCompleteFactorial, IrqComplete, IrqGoto
      <4>3. QED BY <1>1, <2>1, <2>3, <3>1, <4>1, <4>2 DEF DmaWaiting
    <3>5. CASE IrqCompleteDma /\ irq_status = {} /\ irq_val = {"dma"}
      <4>1. CountedLast(k + 1, {"dma"})' /\ edu'.dma_done
        BY <1>1, <1>3, <3>5
           DEF IrqCompleteDma, IrqComplete, IrqGoto, EduType, CountedLast, Counted
      <4>2. Calm'
        BY <3>1, <3>5 DEF IrqCompleteDma, IrqComplete, IrqGoto, Calm, HandlerDone
      <4>3. QED BY <1>1, <2>1, <4>1, <4>2 DEF DmaWaiting
    <3>6. QED
      BY <3>1, <3>2, <3>3, <3>4, <3>5 DEF IrqCompleteAny, IrqGoto
  <2>4. QED BY <1>3, <2>2, <2>3, UnderwayMoves DEF IrqBits, ThroughAny
<1>4. CASE /\ dma.cmd = Command(t)
           /\ SourceSet(t) /\ DestinationSet(t) /\ dma.cnt = loc[t].value
           /\ ThreadIdle /\ Unasserted /\ HandlerDone /\ irq_status = {}
           /\ ~edu.dma_done /\ DataBefore(t) /\ Counted(k)
  <2>1. CASE IrqHandler
    <3>1. UNCHANGED <<irqVars, factVars, memVars>> /\ HandlerDone'
      BY <1>4, <2>1, DoneStays DEF deviceVars
    <3>2. ~edu'.dma_done /\ Counted(k)'
      BY <1>1, <1>4, <2>1, DoneStays DEF Counted
    <3>3. DataBefore(t)' /\ SourceSet(t)' /\ DestinationSet(t)'
      BY <1>1, <1>4, <3>1
         DEF DataBefore, DevHasPattern, RamHasPattern, SourceSet, DestinationSet, memVars
    <3>4. QED
      BY <1>1, <1>4, <3>1, <3>2, <3>3 DEF DmaWaiting, irqVars, factVars, memVars, ThreadIdle, Unasserted
  <2>2. CASE FactStep
    BY <1>4, <2>2 DEF FactStep, FactThread, FactTake, FactStore, FactClear, FactCheck, FactRaise,
                      ThreadIdle
  <2>3. CASE TimerStep
    <3>1. /\ DataAfter(t)' /\ ~DmaRunning'
          /\ IF parameter.force_dma_timeout THEN UNCHANGED irqVars ELSE RaiseIrq({"dma"})
      BY <1>4, <2>3, TimerFires
    <3>2. /\ ThreadIdle' /\ HandlerDone'
          /\ edu' = edu /\ msi_on' = msi_on /\ bus_master' = bus_master
      BY <1>4, <2>3
         DEF TimerStep, DmaTimer, factVars, pciVars, driverVars, irqHandler, ThreadIdle, HandlerDone
    <3>3. Counted(k)' BY <1>1, <1>4, <3>2 DEF Counted
    <3>4. CASE parameter.force_dma_timeout
      BY <1>1, <1>4, <3>1, <3>2, <3>4 DEF DmaWaiting, Calm, Unasserted, irqVars
    <3>5. CASE ~parameter.force_dma_timeout
      BY <1>1, <1>4, <3>1, <3>2, <3>3, <3>5
         DEF DmaWaiting, Underway, RaiseIrq, Unasserted, Recorded, TypeInv, TypeOK, DeviceTypeOK
    <3>6. QED BY <3>4, <3>5
  <2>4. QED BY <2>1, <2>2, <2>3 DEF LateStep
<1>5. QED BY <1>2, <1>3, <1>4 DEF DmaWaiting

\* While a round trip uses its DMA path, the path is there.
LEMMA PathIsUsable ==
  ASSUME TypeInv, SafetyInv, TimelyInv, NEW t \in Tasks, Place(t) \in DmaLabels \ {"dma_sync"}
  PROVE  DmaUsable(t)
<1>1. InCritical(t) BY DEF InCritical, Critical
<1>2. Place(Binder) \in {"bound", "rm_drain"} BY <1>1, OneInside
<1>3. ~edu.dma_faulted BY DEF SafetyInv, FaultInv
<1>4. bus_master /\ edu.dma_handle \in Handles
  BY <1>2, <1>3 DEF TimelyInv, BindingInv, MasteredPlaces
<1>5. loc[t].value \in Lengths /\ DmaAccepts(loc[t].value)
  BY DEF TypeInv, CallInv, CallOK, TimelyInv, CallsInv, CallShape
<1>6. QED BY <1>4, <1>5, BufferAssumption DEF BufferAssumption, DmaUsable

\* What happens while a store waits: the handler, the factorial thread and the timer.
LEMMA LateKeepsTimely ==
  ASSUME TypeInv, SafetyInv, TimelyInv, LateStep
  PROVE  TimelyInv'
<1>1. /\ UNCHANGED <<pc, loc, lockVars, bindVars, msi_on, bus_master>>
      /\ edu'.dma_handle = edu.dma_handle
      /\ edu'.dma_faulted = edu.dma_faulted
      /\ edu'.dma_result = edu.dma_result
      /\ edu'.factorial_valid = edu.factorial_valid
      /\ edu'.factorial_input = edu.factorial_input
      /\ edu'.factorial_result = edu.factorial_result
  BY LateLeavesAlone
<1>2. \A p \in Procs : Place(p)' = Place(p) /\ InCritical(p)' = InCritical(p)
  BY <1>1 DEF Place, InCritical
<1>3. BindingInv' /\ ResultInv'
  BY <1>1, <1>2 DEF TimelyInv, BindingInv, ResultInv, FactorialCorrect, bindVars
<1>4. \A t \in Tasks : CallShape(t)'
  BY <1>1, <1>2 DEF TimelyInv, CallsInv, CallShape
<1>5. CASE \E t \in Tasks : pc[t] \in WaitLabels
  <2>1. PICK t \in Tasks : pc[t] \in WaitLabels BY <1>5
  <2>2. Place(t) = pc[t] /\ Place(t)' = pc[t] /\ InCritical(t) /\ pc'[t] = pc[t]
    BY <1>1, <1>2, <2>1 DEF Place, InCritical, WaitLabels, Critical, FactLabels, TrigLabels, DmaLabels
  <2>3. CallShape(t) /\ Phase(t)
    BY <2>2 DEF TimelyInv, CallsInv
  <2>4. ASSUME pc[t] = "fact_wait" PROVE Phase(t)'
    <3>1. FactorialWaiting(t)'
      BY <2>3, <2>4, FactorialWaitingStays DEF Phase, FactorialPhase
    <3>2. QED
      BY <2>2, <2>4, <3>1 DEF Phase, FactorialPhase, TriggerPhase, DmaPhase, DmaSetLabels
  <2>5. ASSUME pc[t] = "trig_wait" PROVE Phase(t)'
    <3>1. loc[t].mask # {}
      BY <2>2, <2>3, <2>5 DEF CallShape, TrigLabels
    <3>2. TriggerWaiting(t)'
      BY <2>3, <2>5, <3>1, TriggerWaitingStays DEF Phase, TriggerPhase
    <3>3. QED
      BY <2>2, <2>5, <3>2 DEF Phase, FactorialPhase, TriggerPhase, DmaPhase, DmaSetLabels
  <2>6. ASSUME pc[t] = "dma_wait" PROVE Phase(t)'
    <3>1. DmaUsable(t)
      BY <2>2, <2>6, PathIsUsable DEF DmaLabels
    <3>2. DmaWaiting(t)'
      BY <2>3, <2>6, <3>1, DmaWaitingStays DEF Phase, DmaPhase
    <3>3. QED
      BY <2>2, <2>6, <3>2 DEF Phase, FactorialPhase, TriggerPhase, DmaPhase, DmaSetLabels
  <2>7. Phase(t)'
    BY <2>1, <2>4, <2>5, <2>6 DEF WaitLabels
  <2>8. \A u \in Tasks : InCritical(u)' => Phase(u)'
    BY <1>2, <2>2, <2>7, OneInside
  <2>9. CalmInv'
    BY <1>1, <2>1 DEF CalmInv
  <2>10. QED
    BY <1>3, <1>4, <2>8, <2>9 DEF TimelyInv, CallsInv
<1>6. CASE \A t \in Tasks : pc[t] \notin WaitLabels
  <2>1. Calm BY <1>6 DEF TimelyInv, CalmInv
  <2>2. /\ Calm' /\ UNCHANGED deviceVars
        /\ edu'.factorial_done = edu.factorial_done
        /\ edu'.dma_done = edu.dma_done
        /\ edu'.irq_count = edu.irq_count
        /\ edu'.last_irq_status = edu.last_irq_status
    BY <2>1, CalmStays
  <2>3. SUFFICES ASSUME NEW t \in Tasks, InCritical(t) PROVE Phase(t)'
    BY <1>2, <1>3, <1>4, <2>2 DEF TimelyInv, CallsInv, CalmInv
  <2> USE DEF deviceVars, irqVars, factVars, memVars, lockVars, bindVars
  <2>4. Phase(t) /\ pc'[t] = pc[t] /\ Place(t)' = Place(t) /\ pc[t] \notin WaitLabels /\ loc' = loc
    BY <1>1, <1>2, <1>6, <2>3 DEF TimelyInv, CallsInv
  <2>5. /\ \A n \in Nat : Counted(n)' <=> Counted(n)
        /\ \A b : \A n \in Nat : CountedLast(n, b)' <=> CountedLast(n, b)
        /\ Result(t)' = Result(t) /\ Behind(t)' = Behind(t)
        /\ Behind(t) \in Nat /\ Behind(t) + 1 \in Nat
    BY <1>1, <2>2 DEF Counted, CountedLast, Result, Behind
  <2>6. /\ DevHasPattern(t)' <=> DevHasPattern(t)
        /\ RamHasPattern(t)' <=> RamHasPattern(t)
        /\ SourceSet(t)' <=> SourceSet(t)
        /\ DestinationSet(t)' <=> DestinationSet(t)
    BY <1>1, <2>2 DEF DevHasPattern, RamHasPattern, Pattern, SourceSet, DestinationSet
  <2>7. /\ DataBefore(t)' <=> DataBefore(t)
        /\ DataAfter(t)' <=> DataAfter(t)
    BY <1>1, <2>6 DEF DataBefore, DataAfter
  <2>8. FactorialPhase(t)' /\ TriggerPhase(t)'
    BY <1>1, <2>2, <2>4, <2>5 DEF Phase, FactorialPhase, TriggerPhase, WaitLabels
  <2>9. DmaPhase(t)'
    BY <1>1, <2>2, <2>4, <2>5, <2>6, <2>7 DEF Phase, DmaPhase, WaitLabels
  <2>10. QED BY <1>1, <2>2, <2>4, <2>5, <2>8, <2>9 DEF Phase
<1>7. QED BY <1>5, <1>6

-----------------------------------------------------------------------------
(* A task enters or leaves a store function.                               *)

\* Calling a store sets the locals it will use.
LEMMA CallIsShaped ==
  ASSUME TypeInv, TimelyInv, NEW t \in Tasks, Call(t)
  PROVE  CallShape(t)'
<1> USE DEF TypeInv, TypeOK, Step, Goto, Place, TrigLabels
<1>1. CASE \E error \in {"EINVAL", "ERANGE"} : Reject(t, error)
  <2>1. PICK error \in {"EINVAL", "ERANGE"} : Reject(t, error) BY <1>1
  <2>2. pc'[t] = "return" BY <2>1 DEF Reject
  <2>3. /\ loc'[t].file = loc[t].file /\ loc'[t].value = loc[t].value
        /\ loc'[t].mask = loc[t].mask
    BY <2>1 DEF Reject, LocalsType
  <2>4. pc[t] = "idle" BY <2>1 DEF Reject
  <2>5. QED
    BY <2>2, <2>3, <2>4 DEF CallShape, TimelyInv, CallsInv
<1>2. ASSUME NEW f \in FileNames, NEW n \in Nat, NEW m \in SUBSET IrqBits, Store(t, f, n, m),
             f = "trigger_irq" => m # {},
             f = "dma_roundtrip" => DmaAccepts(n)
      PROVE  CallShape(t)'
  <2>1. pc'[t] = "lock" /\ f \in Files BY <1>2 DEF Store
  <2>2. loc'[t].file = f /\ loc'[t].value = n /\ loc'[t].mask = m /\ ~loc'[t].to_ram
    BY <1>2 DEF Store, FreshLocals
  <2>3. QED BY <1>2, <2>1, <2>2 DEF CallShape
<1>3. CASE \E n \in LiveInputs : Store(t, "liveness", n, {})
  <2>1. \A n \in LiveInputs : n \in Nat
    BY DriverAssumption, BufferAssumption DEF DriverAssumption, BufferAssumption, Word
  <2>2. QED BY <1>2, <1>3, <2>1 DEF FileNames
<1>4. CASE \E n \in FactInputs : FactorialAccepts(n) /\ Store(t, "factorial", n, {})
  <2>1. \A n \in FactInputs : n \in Nat BY DriverAssumption DEF DriverAssumption
  <2>2. QED BY <1>2, <1>4, <2>1 DEF FileNames
<1>5. CASE \E m \in Masks \ {{}} : Store(t, "trigger_irq", 0, m)
  <2>1. \A m \in Masks : m \in SUBSET IrqBits BY DriverAssumption DEF DriverAssumption
  <2>2. QED BY <1>2, <1>5, <2>1 DEF FileNames
<1>6. CASE \E n \in Lengths : DmaAccepts(n) /\ Store(t, "dma_roundtrip", n, {})
  <2>1. \A n \in Lengths : n \in Nat BY BufferAssumption DEF BufferAssumption
  <2>2. QED BY <1>2, <1>6, <2>1 DEF FileNames
<1>7. QED BY <1>1, <1>3, <1>4, <1>5, <1>6 DEF Call

\* Calls, returns and the taking of the mutex.
LEMMA BoundaryKeepsTimely ==
  ASSUME TypeInv, SafetyInv, TimelyInv, NEW t \in Tasks,
         Call(t) \/ Lock(t) \/ Unlock(t) \/ Return(t)
  PROVE  TimelyInv'
<1>1. Boundary(t) BY CallBoundary
<1>2. /\ UNCHANGED <<irqHandler, bindVars, deviceVars, edu>>
      /\ Place(t) = pc[t] /\ Place(t)' = pc'[t]
      /\ \A q \in Procs \ {t} : pc'[q] = pc[q] /\ loc'[q] = loc[q] /\ Place(q)' = Place(q)
      /\ pc[t] \in {"idle", "lock", "unlock", "return"}
      /\ pc'[t] \in {"lock", "return", "locked", "idle"}
      /\ t # Binder
  BY <1>1, DriverAssumption DEF DriverAssumption, Boundary, Alone, Place
<1>3. CallShape(t)'
  <2>1. CASE Call(t) BY <2>1, CallIsShaped
  <2>2. CASE Lock(t) \/ Unlock(t)
    BY <1>2, <2>2 DEF Lock, Unlock, Goto, TypeInv, TypeOK, CallShape, TrigLabels, TimelyInv, CallsInv
  <2>3. CASE Return(t)
    BY <1>2, <2>3 DEF Return, Step, Goto, TypeInv, TypeOK, FreshLocals, CallShape, TrigLabels
  <2>4. QED BY <2>1, <2>2, <2>3
<1>4. \A u \in Tasks : CallShape(u)'
  BY <1>2, <1>3 DEF TimelyInv, CallsInv, CallShape
<1>5. ASSUME InCritical(t)' PROVE Phase(t)'
  <2>1. pc'[t] = "locked" /\ Place(t)' = "locked"
    BY <1>2, <1>5 DEF InCritical, Critical, FactLabels, TrigLabels, DmaLabels, RemoveLabels
  <2>2. count_at_lock' = edu.irq_count
    BY <1>1, <2>1 DEF Boundary
  <2>3. count_at_lock' + 0 = edu.irq_count /\ edu.irq_count < CountModulus
        /\ edu.irq_count \in Nat /\ CountModulus \in Nat \ {0}
    BY <2>2, DriverAssumption DEF DriverAssumption, TypeInv, TypeOK, EduType
  <2>4. Counted(0)'
    BY <1>2, <2>3, NextCount DEF Counted
  <2>5. QED
    BY <2>1, <2>4 DEF Phase, FactorialPhase, TriggerPhase, DmaPhase, DmaSetLabels
<1>6. ASSUME NEW u \in Tasks \ {t}, InCritical(u)' PROVE Phase(u)'
  <2>1. InCritical(u) /\ operation_lock = u
    BY <1>2, <1>6 DEF InCritical, SafetyInv, LockInv
  <2>2. ~InCritical(t) BY <2>1 DEF SafetyInv, LockInv
  <2>3. UNCHANGED lockVars
    BY <1>1, <1>2, <2>1, <2>2, DriverAssumption
       DEF DriverAssumption, Boundary, InCritical, Critical
  <2>4. Phase(u) BY <2>1 DEF TimelyInv, CallsInv
  <2>5. QED BY <1>2, <2>3, <2>4, PhaseStays DEF bindVars
<1>7. CalmInv'
  <2>1. \A u \in Tasks : pc'[u] \in WaitLabels <=> pc[u] \in WaitLabels
    BY <1>2 DEF WaitLabels
  <2>2. Calm' <=> Calm
    BY <1>2 DEF Calm, ThreadIdle, DmaRunning, Unasserted, HandlerDone, deviceVars, irqVars, factVars,
                memVars, irqHandler
  <2>3. QED BY <2>1, <2>2 DEF TimelyInv, CalmInv
<1>8. BindingInv' /\ ResultInv'
  BY <1>2 DEF TimelyInv, BindingInv, ResultInv, FactorialCorrect, bindVars, deviceVars, pciVars
<1>9. QED BY <1>4, <1>5, <1>6, <1>7, <1>8 DEF TimelyInv, CallsInv

-----------------------------------------------------------------------------
(* A step of the call in the critical section.                             *)

\* What such a step has to show.
Advance(t) ==
    /\ Phase(t)' /\ CallShape(t)'
    /\ pc'[t] \notin WaitLabels => Calm'
    /\ edu'.dma_handle = edu.dma_handle
    /\ (bus_master \/ edu.dma_faulted) => (bus_master' \/ edu'.dma_faulted)
    /\ ResultInv'

\* A step of the one store in its critical section.
LEMMA AdvanceKeepsTimely ==
  ASSUME TypeInv, SafetyInv, TimelyInv, NEW t \in Tasks, Inside(t), Advance(t)
  PROVE  TimelyInv'
<1>1. /\ \A q \in Procs \ {t} : pc'[q] = pc[q] /\ loc'[q] = loc[q] /\ Place(q)' = Place(q)
      /\ InCritical(t) /\ t # Binder
      /\ UNCHANGED bindVars
  BY DriverAssumption DEF DriverAssumption, Inside, Place
<1>2. \A u \in Tasks \ {t} : ~InCritical(u)' /\ CallShape(u)' /\ pc'[u] \notin WaitLabels
  BY <1>1, OneInside DEF InCritical, TimelyInv, CallsInv, CallShape
<1>3. CallsInv'
  BY <1>2 DEF Advance, CallsInv
<1>4. CalmInv'
  BY DEF Advance, CalmInv
<1>5. BindingInv'
  BY <1>1 DEF Advance, TimelyInv, BindingInv, bindVars
<1>6. QED BY <1>3, <1>4, <1>5 DEF Advance, TimelyInv

\* Outside the waits there is nothing the device or the handler still owes.
LEMMA CallIsCalm ==
  ASSUME TypeInv, SafetyInv, TimelyInv, NEW t \in Tasks, InCritical(t), pc[t] \notin WaitLabels
  PROVE  Calm
BY OneInside DEF TimelyInv, CalmInv

\* Register writes that start nothing.
LEMMA WritesKeepCalm ==
  ASSUME TypeInv, Calm, UNCHANGED irqHandler,
         \/ UNCHANGED deviceVars
         \/ \E b \in BOOLEAN : WriteStatus(b)
         \/ \E n : WriteLiveness(n)
         \/ \E b \in BOOLEAN : SetMaster(b)
         \/ \E byte, n : Fill(byte, n)
         \/ \E bits : WriteIrqAck(bits)
         \/ \E n : \E register \in {"src", "dst", "cnt"} : WriteDma(register, n)
  PROVE  Calm'
<1> USE DEF Calm, ThreadIdle, DmaRunning, Unasserted, HandlerDone, irqHandler, deviceVars, irqVars,
        pciVars, factVars, memVars
<1>1. CASE UNCHANGED deviceVars BY <1>1
<1>2. CASE \E b \in BOOLEAN : WriteStatus(b) BY <1>2 DEF WriteStatus
<1>3. CASE \E n : WriteLiveness(n) BY <1>3 DEF WriteLiveness
<1>4. CASE \E b \in BOOLEAN : SetMaster(b) BY <1>4 DEF SetMaster
<1>5. CASE \E byte, n : Fill(byte, n) BY <1>5 DEF Fill
<1>6. CASE \E bits : WriteIrqAck(bits)
  <2>1. PICK bits : WriteIrqAck(bits) BY <1>6
  <2>2. (intx_line /\ (irq_status \subseteq bits => msi_on)) = FALSE OBVIOUS
  <2>3. intx_line' = FALSE BY <2>1, <2>2 DEF WriteIrqAck, LowerIrq
  <2>4. QED BY <2>1, <2>3 DEF WriteIrqAck, LowerIrq
<1>7. CASE \E n : \E register \in {"src", "dst", "cnt"} : WriteDma(register, n)
  <2>1. PICK n : \E register \in {"src", "dst", "cnt"} : WriteDma(register, n) BY <1>7
  <2>2. PICK register \in {"src", "dst", "cnt"} : WriteDma(register, n) BY <2>1
  <2>3. dma'.cmd = dma.cmd
    BY <2>2 DEF WriteDma, TypeInv, TypeOK, DeviceTypeOK
  <2>4. QED BY <2>2, <2>3 DEF WriteDma
<1>8. QED BY <1>1, <1>2, <1>3, <1>4, <1>5, <1>6, <1>7

\* liveness_store.
LEMMA LivenessAdvances ==
  ASSUME TypeInv, SafetyInv, TimelyInv, NEW t \in Tasks, LivenessStore(t)
  PROVE  Advance(t)
<1>1. Inside(t) /\ pc[t] \in {"locked", "live_read"}
  BY LivenessInside DEF LivenessStore, LivenessWrite, LivenessRead, Finish, Step, Goto
<1>2. Calm
  BY <1>1, CallIsCalm DEF Inside, WaitLabels
<1>3. UNCHANGED irqHandler BY <1>1 DEF Inside
<1>4. CallShape(t) BY DEF TimelyInv, CallsInv
<1>5. CASE LivenessWrite(t)
  <2>1. /\ pc'[t] = "live_read" /\ Place(t)' = "live_read" /\ loc' = loc
        /\ loc[t].file = "liveness"
    BY <1>5 DEF LivenessWrite, Step, Goto, TypeInv, TypeOK, Place
  <2>2. CallShape(t)' BY <1>4, <2>1 DEF CallShape, TrigLabels
  <2>3. Phase(t)'
    BY <2>1 DEF Phase, FactorialPhase, TriggerPhase, DmaPhase, DmaSetLabels
  <2>4. Calm' /\ bus_master' = bus_master
    BY <1>2, <1>3, <1>5, WritesKeepCalm DEF LivenessWrite, WriteLiveness, pciVars
  <2>5. edu'.dma_handle = edu.dma_handle /\ edu'.dma_faulted = edu.dma_faulted
        /\ edu'.dma_result = edu.dma_result
        /\ edu'.factorial_valid = edu.factorial_valid
        /\ edu'.factorial_input = edu.factorial_input
        /\ edu'.factorial_result = edu.factorial_result
    BY <1>5 DEF LivenessWrite, TypeInv, TypeOK, EduType
  <2>6. ResultInv'
    BY <1>1, <2>5 DEF Inside, bindVars, TimelyInv, ResultInv, FactorialCorrect
  <2>7. QED BY <2>2, <2>3, <2>4, <2>5, <2>6 DEF Advance
<1>6. CASE LivenessRead(t)
  <2>1. /\ pc'[t] = "unlock" /\ Place(t)' = "unlock" /\ pc[t] = "live_read"
        /\ loc'[t].file = loc[t].file /\ loc'[t].value = loc[t].value
        /\ loc'[t].mask = loc[t].mask
    BY <1>6 DEF LivenessRead, Finish, Step, Goto, TypeInv, TypeOK, LocalsType, Place
  <2>2. CallShape(t)' BY <1>4, <2>1 DEF CallShape, TrigLabels
  <2>3. loc'[t].file = "liveness" BY <1>4, <2>1 DEF CallShape
  <2>4. Phase(t)'
    BY <2>1, <2>3 DEF Phase, FactorialPhase, TriggerPhase, DmaPhase, DmaSetLabels
  <2>5. Calm' /\ bus_master' = bus_master
    BY <1>2, <1>3, <1>6, WritesKeepCalm DEF LivenessRead, deviceVars, pciVars
  <2>6. edu'.dma_handle = edu.dma_handle /\ edu'.dma_faulted = edu.dma_faulted
        /\ edu'.dma_result = edu.dma_result
        /\ edu'.factorial_valid = edu.factorial_valid
        /\ edu'.factorial_input = edu.factorial_input
        /\ edu'.factorial_result = edu.factorial_result
    BY <1>6 DEF LivenessRead, TypeInv, TypeOK, EduType
  <2>7. ResultInv'
    BY <1>1, <2>6 DEF Inside, bindVars, TimelyInv, ResultInv, FactorialCorrect
  <2>8. QED BY <2>2, <2>4, <2>5, <2>6, <2>7 DEF Advance
<1>7. QED BY <1>5, <1>6 DEF LivenessStore

\* What a step leaves of the results that edu remembers, and of its handle.
ResultsStay ==
    /\ edu'.dma_handle = edu.dma_handle
    /\ edu'.dma_faulted = edu.dma_faulted
    /\ edu'.dma_result = edu.dma_result
    /\ edu'.factorial_valid = edu.factorial_valid
    /\ edu'.factorial_input = edu.factorial_input
    /\ edu'.factorial_result = edu.factorial_result
    /\ UNCHANGED bindVars

\* What was published stays when neither the register nor the driver's copy changes.
LEMMA ResultsKept == ASSUME TimelyInv, ResultsStay PROVE ResultInv'
BY DEF TimelyInv, ResultInv, FactorialCorrect, ResultsStay, bindVars

\* qemu_edu_ack_pending_irqs leaves no status behind.
LEMMA AckAdvances ==
  ASSUME TypeInv, SafetyInv, TimelyInv, NEW t \in Tasks, InCritical(t), AckRead(t) \/ AckWrite(t)
  PROVE  Advance(t)
<1>1. Inside(t) /\ Place(t)' = Place(t) /\ pc[t] \in {"ack_read", "ack_write"}
  BY AckInside DEF AckRead, AckWrite, Step, Goto
<1>2. Calm
  BY <1>1, CallIsCalm DEF WaitLabels
<1>3. /\ Phase(t) /\ CallShape(t)
      /\ loc[t].resume \in {"fact_request", "trig_raise", "dma_src", "dma_sync"}
      /\ Place(t) = loc[t].resume
  BY <1>1 DEF TimelyInv, CallsInv, CallShape, Place
<1>4. /\ UNCHANGED <<edu, lockVars, irqHandler, bindVars>>
      /\ UNCHANGED <<memVars, factVars, pciVars>>
  BY <1>1 DEF Inside, AckRead, AckWrite, WriteIrqAck, deviceVars
<1>5. PICK status : loc' = [loc EXCEPT ![t].status = status]
  BY DEF AckRead, AckWrite
<1>6. /\ loc'[t].file = loc[t].file /\ loc'[t].value = loc[t].value /\ loc'[t].mask = loc[t].mask
      /\ loc'[t].to_ram = loc[t].to_ram /\ loc'[t].waited = loc[t].waited
      /\ loc'[t].running = loc[t].running /\ loc'[t].resume = loc[t].resume
      /\ loc'[t].status = status
  BY <1>5 DEF TypeInv, TypeOK, LocalsType
<1>7. \/ /\ pc'[t] = loc[t].resume /\ irq_status' = {}
      \/ /\ pc'[t] = "ack_write" /\ irq_status' = irq_status /\ loc'[t].status = irq_status
  <2>1. CASE AckRead(t)
    BY <1>5, <1>6, <2>1 DEF AckRead, Step, Goto, TypeInv, TypeOK, LocalsType, deviceVars, irqVars
  <2>2. CASE AckWrite(t)
    BY <1>1, <1>3, <2>2 DEF AckWrite, Step, Goto, TypeInv, TypeOK, WriteIrqAck, LowerIrq, Phase
  <2>3. QED BY <2>1, <2>2
<1>8. /\ Behind(t)' = Behind(t)
      /\ Counted(Behind(t))' <=> Counted(Behind(t))
      /\ Counted(0)' <=> Counted(0)
      /\ DataBefore(t)' <=> DataBefore(t)
  BY <1>4, <1>6
     DEF Behind, Counted, lockVars, memVars, DataBefore, DevHasPattern, RamHasPattern, Pattern
<1>9. Phase(t)'
  <2>1. FactorialPhase(t)' /\ TriggerPhase(t)'
    BY <1>1, <1>3, <1>7, <1>8 DEF Phase, FactorialPhase, TriggerPhase
  <2>2. DmaPhase(t)'
    BY <1>1, <1>3, <1>4, <1>6, <1>7, <1>8 DEF Phase, DmaPhase, DmaSetLabels, bindVars
  <2>3. QED BY <1>3, <1>7, <2>1, <2>2 DEF Phase
<1>10. CallShape(t)'
  BY <1>1, <1>3, <1>6, <1>7 DEF CallShape, TrigLabels
<1>11. Calm'
  BY <1>2, <1>4, WritesKeepCalm DEF AckRead, AckWrite
<1>12. ResultsStay /\ bus_master' = bus_master
  BY <1>4 DEF ResultsStay, pciVars
<1>13. QED
  BY <1>9, <1>10, <1>11, <1>12, ResultsKept DEF Advance, ResultsStay

\* factorial_store, from the write of the operand to the result it keeps.
LEMMA FactorialAdvances ==
  ASSUME TypeInv, SafetyInv, TimelyInv, Unraced, NEW t \in Tasks, FactorialStore(t)
  PROVE  Advance(t)
<1>1. Inside(t) BY FactorialInside
<1>2. /\ Phase(t) /\ CallShape(t) /\ loc[t].value \in Nat /\ UNCHANGED <<irqHandler, bindVars>>
      /\ edu \in EduType
  BY <1>1 DEF Inside, TimelyInv, CallsInv, TypeInv, TypeOK, LocalsType
<1>3. pc[t] # "fact_wait" => Calm
  <2>1. pc[t] \notin {"trig_wait", "dma_wait"}
    BY DEF FactorialStore, FactorialBegin, FactorialRequest, FactorialStart, FactorialWait,
           FactorialStop, FactorialRead, Wait, CallAck, Finish, Step, Goto
  <2>2. QED BY <1>1, <2>1, CallIsCalm DEF Inside, WaitLabels
<1> USE DEF Step, Goto, Finish, TypeInv, TypeOK, LocalsType, Place
<1>4. CASE FactorialBegin(t)
  <2>1. /\ pc'[t] = "ack_read" /\ Place(t)' = "fact_request" /\ pc[t] = "locked"
        /\ loc'[t].file = "factorial" /\ loc[t].file = "factorial"
        /\ loc'[t].value = loc[t].value /\ loc'[t].resume = "fact_request"
    BY <1>4 DEF FactorialBegin, CallAck
  <2>2. CallShape(t)' BY <1>2, <2>1 DEF CallShape, TrigLabels
  <2>3. Phase(t)'
    BY <2>1 DEF Phase, FactorialPhase, TriggerPhase, DmaPhase, DmaSetLabels
  <2>4. Calm' /\ bus_master' = bus_master
    BY <1>2, <1>3, <1>4, <2>1, WritesKeepCalm DEF FactorialBegin, WriteStatus, pciVars
  <2>5. /\ edu'.dma_handle = edu.dma_handle /\ edu'.dma_faulted = edu.dma_faulted
        /\ edu'.dma_result = edu.dma_result /\ edu'.factorial_valid = FALSE
    BY <1>2, <1>4 DEF FactorialBegin, EduType
  <2>6. ResultInv'
    BY <1>2, <2>5 DEF TimelyInv, ResultInv, FactorialCorrect, bindVars
  <2>7. QED BY <2>2, <2>3, <2>4, <2>5, <2>6 DEF Advance
<1>5. CASE FactorialRequest(t)
  <2>1. /\ pc'[t] = "fact_start" /\ Place(t)' = "fact_start" /\ pc[t] = "fact_request" /\ loc' = loc
    BY <1>5 DEF FactorialRequest
  <2>2. CallShape(t)' BY <1>2, <2>1 DEF CallShape, TrigLabels
  <2>3. irq_status' = {} /\ ~edu'.factorial_done
    BY <1>2, <1>5, <2>1 DEF FactorialRequest, WriteStatus, irqVars, EduType, Phase, FactorialPhase
  <2>4. Phase(t)'
    BY <2>1, <2>3 DEF Phase, FactorialPhase, TriggerPhase, DmaPhase, DmaSetLabels
  <2>5. (~parameter.force_factorial_timeout) \in BOOLEAN OBVIOUS
  <2>6. Calm' /\ bus_master' = bus_master
    BY <1>2, <1>3, <1>5, <2>1, <2>5, WritesKeepCalm DEF FactorialRequest, WriteStatus, pciVars
  <2>7. ResultsStay
    BY <1>2, <1>5 DEF FactorialRequest, EduType, ResultsStay
  <2>8. QED BY <2>2, <2>4, <2>6, <2>7, ResultsKept DEF Advance, ResultsStay
<1>6. CASE FactorialStart(t)
  <2>1. /\ pc'[t] = "fact_wait" /\ Place(t)' = "fact_wait" /\ pc[t] = "fact_start" /\ loc' = loc
        /\ edu' = edu
    BY <1>6 DEF FactorialStart
  <2>2. CallShape(t)' BY <1>2, <2>1 DEF CallShape, TrigLabels
  <2>3. FactorialWaiting(t)'
    <3>1. irq_status = {} /\ ~edu.factorial_done /\ Calm
      BY <1>2, <1>3, <2>1 DEF Phase, FactorialPhase
    <3>2. /\ computing' /\ fact' = loc[t].value /\ fact_pc' = "wait"
          /\ UNCHANGED <<irqVars, memVars>>
      BY <1>6, <3>1 DEF FactorialStart, WriteFactorial, Calm, ThreadIdle
    <3>3. QED
      BY <1>2, <2>1, <3>1, <3>2
         DEF FactorialWaiting, Calm, DmaRunning, Unasserted, HandlerDone, irqVars, memVars, irqHandler
  <2>4. Phase(t)'
    BY <2>1, <2>3 DEF Phase, FactorialPhase, TriggerPhase, DmaPhase, DmaSetLabels
  <2>5. ResultsStay /\ bus_master' = bus_master
    BY <1>2, <1>6, <2>1 DEF FactorialStart, WriteFactorial, pciVars, ResultsStay
  <2>6. QED BY <2>1, <2>2, <2>4, <2>5, ResultsKept DEF Advance, ResultsStay, WaitLabels
<1>7. CASE FactorialStop(t)
  <2>1. /\ pc'[t] \in {"fact_read", "unlock"} /\ pc[t] = "fact_stop"
        /\ pc'[t] = "fact_read" => loc[t].waited = "done"
        /\ pc'[t] = "unlock" => loc'[t].ret # "ok"
        /\ Place(t)' = pc'[t]
        /\ loc'[t].file = loc[t].file /\ loc'[t].value = loc[t].value
        /\ loc'[t].mask = loc[t].mask
        /\ edu' = edu
    BY <1>7 DEF FactorialStop, WaitError
  <2>2. CallShape(t)' BY <1>2, <2>1 DEF CallShape, TrigLabels
  <2>3. pc'[t] = "fact_read" => fact' = Result(t)'
    BY <1>2, <1>7, <2>1 DEF FactorialStop, WriteStatus, Phase, FactorialPhase, Result
  <2>4. Phase(t)'
    BY <2>1, <2>3 DEF Phase, FactorialPhase, TriggerPhase, DmaPhase, DmaSetLabels
  <2>5. Calm' /\ bus_master' = bus_master
    BY <1>2, <1>3, <1>7, <2>1, WritesKeepCalm DEF FactorialStop, WriteStatus, pciVars
  <2>6. ResultsStay
    BY <1>2, <2>1 DEF ResultsStay
  <2>7. QED BY <2>2, <2>4, <2>5, <2>6, ResultsKept DEF Advance, ResultsStay
<1>8. CASE FactorialRead(t)
  <2>1. /\ pc'[t] = "unlock" /\ pc[t] = "fact_read" /\ Place(t)' = "unlock"
        /\ loc'[t].file = loc[t].file /\ loc'[t].value = loc[t].value
        /\ loc'[t].mask = loc[t].mask
        /\ loc[t].file = "factorial"
    BY <1>8 DEF FactorialRead, CallInv, CallOK, FactLabels
  <2>2. CallShape(t)' BY <1>2, <2>1 DEF CallShape, TrigLabels
  <2>3. Phase(t)'
    BY <2>1 DEF Phase, FactorialPhase, TriggerPhase, DmaPhase, DmaSetLabels
  <2>4. Calm' /\ bus_master' = bus_master
    BY <1>2, <1>3, <1>8, <2>1, WritesKeepCalm DEF FactorialRead, deviceVars, pciVars
  <2>5. fact = Factorial[loc[t].value]
    BY <1>2, <2>1 DEF Phase, FactorialPhase, Result
  <2>6. /\ edu'.dma_handle = edu.dma_handle /\ edu'.dma_faulted = edu.dma_faulted
        /\ edu'.dma_result = edu.dma_result
        /\ edu'.factorial_input = loc[t].value
        /\ edu'.factorial_result = Factorial[loc[t].value]
    BY <1>2, <1>8, <2>5 DEF FactorialRead, EduType
  <2>7. ResultInv'
    BY <1>2, <2>6 DEF TimelyInv, ResultInv, FactorialCorrect, bindVars
  <2>8. QED BY <2>2, <2>3, <2>4, <2>6, <2>7 DEF Advance
<1>9. CASE FactorialWait(t)
  <2>1. /\ pc'[t] = "fact_stop" /\ pc[t] = "fact_wait" /\ Place(t)' = "fact_stop"
        /\ loc'[t].file = loc[t].file /\ loc'[t].value = loc[t].value
        /\ loc'[t].mask = loc[t].mask
        /\ UNCHANGED deviceVars
        /\ \/ loc'[t].waited = "done" /\ edu.factorial_done
              /\ edu' = [edu EXCEPT !.factorial_done = FALSE]
           \/ loc'[t].waited = "timeout" /\ ~edu.factorial_done /\ BudgetSpent /\ edu' = edu
    BY <1>9 DEF FactorialWait, Wait, Unraced
  <2>2. CallShape(t)' BY <1>2, <2>1 DEF CallShape, TrigLabels
  <2>3. FactorialWaiting(t) BY <1>2, <2>1 DEF Phase, FactorialPhase
  <2>4. Calm /\ (edu.factorial_done => fact = Result(t))
    <3>1. CASE edu.factorial_done BY <2>3, <3>1 DEF FactorialWaiting
    <3>2. CASE ~edu.factorial_done
      <4>1. /\ ThreadIdle /\ ~DmaRunning /\ irq_pc = "idle"
            /\ irq_registered => ~InterruptAsserted
        BY <2>1, <3>2 DEF BudgetSpent, Outstanding, Unraced, ThreadIdle
      <4>2. irq_registered
        BY <1>1, OneInside DEF Inside, TimelyInv, BindingInv
      <4>3. QED
        BY <2>3, <3>2, <4>1, <4>2
           DEF FactorialWaiting, Underway, Calm, ThreadIdle, Unasserted, HandlerDone,
               InterruptAsserted, ThroughFactorial
    <3>3. QED BY <3>1, <3>2
  <2>5. loc'[t].waited = "done" => fact' = Result(t)'
    BY <2>1, <2>4 DEF deviceVars, factVars, Result
  <2>6. Phase(t)'
    BY <2>1, <2>5 DEF Phase, FactorialPhase, TriggerPhase, DmaPhase, DmaSetLabels
  <2>7. Calm' /\ bus_master' = bus_master
    BY <1>2, <2>1, <2>4, WritesKeepCalm DEF deviceVars, pciVars
  <2>8. ResultsStay
    BY <1>2, <2>1 DEF ResultsStay, EduType
  <2>9. QED BY <2>2, <2>6, <2>7, <2>8, ResultsKept DEF Advance, ResultsStay
<1>10. QED BY <1>4, <1>5, <1>6, <1>7, <1>8, <1>9 DEF FactorialStore

\* trigger_irq_store, from the raise to the status it checks.
LEMMA TriggerAdvances ==
  ASSUME TypeInv, SafetyInv, TimelyInv, Unraced, NEW t \in Tasks, TriggerIrqStore(t)
  PROVE  Advance(t)
<1>1. Inside(t) BY TriggerInside
<1>2. /\ Phase(t) /\ CallShape(t) /\ UNCHANGED <<irqHandler, bindVars, lockVars>>
      /\ edu \in EduType /\ loc[t].mask \in SUBSET IrqBits
  BY <1>1 DEF Inside, TimelyInv, CallsInv, TypeInv, TypeOK, LocalsType
<1>3. pc[t] # "trig_wait" => Calm
  <2>1. pc[t] \notin {"fact_wait", "dma_wait"}
    BY DEF TriggerIrqStore, TriggerBegin, TriggerRaise, TriggerWait, TriggerEnd, Wait, CallAck,
           Finish, Step, Goto
  <2>2. QED BY <1>1, <2>1, CallIsCalm DEF Inside, WaitLabels
<1> USE DEF Step, Goto, Finish, TypeInv, TypeOK, LocalsType, Place
<1>4. CASE TriggerBegin(t)
  <2>1. /\ pc'[t] = "ack_read" /\ Place(t)' = "trig_raise" /\ pc[t] = "locked"
        /\ loc'[t].file = "trigger_irq" /\ loc[t].file = "trigger_irq"
        /\ loc'[t].value = loc[t].value /\ loc'[t].mask = loc[t].mask
        /\ loc'[t].resume = "trig_raise"
        /\ UNCHANGED <<deviceVars, edu>>
    BY <1>4 DEF TriggerBegin, CallAck
  <2>2. CallShape(t)' BY <1>2, <2>1 DEF CallShape, TrigLabels
  <2>3. Counted(0)' BY <1>2, <2>1 DEF Phase, Counted, lockVars
  <2>4. Phase(t)'
    BY <2>1, <2>3 DEF Phase, FactorialPhase, TriggerPhase, DmaPhase, DmaSetLabels
  <2>5. Calm' /\ bus_master' = bus_master
    BY <1>2, <1>3, <2>1, WritesKeepCalm DEF deviceVars, pciVars
  <2>6. ResultsStay BY <1>2, <2>1 DEF ResultsStay
  <2>7. QED BY <2>2, <2>4, <2>5, <2>6, ResultsKept DEF Advance, ResultsStay
<1>5. CASE TriggerRaise(t)
  <2>1. /\ pc'[t] = "trig_wait" /\ Place(t)' = "trig_wait" /\ pc[t] = "trig_raise" /\ loc' = loc
        /\ loc[t].file = "trigger_irq" /\ loc[t].mask # {}
    BY <1>2, <1>5 DEF TriggerRaise, CallShape, TrigLabels
  <2>2. CallShape(t)' BY <1>2, <2>1 DEF CallShape, TrigLabels
  <2>3. OneCpu /\ irq_pc = "idle" /\ irq_status = {} /\ Counted(0) /\ Calm
    BY <1>2, <1>3, <1>5, <2>1 DEF TriggerRaise, Unraced, CallShape, Phase, TriggerPhase
  <2>4. TriggerWaiting(t)'
    <3>1. /\ UNCHANGED <<factVars, memVars, pciVars>>
          /\ ~edu'.any_irq_done /\ edu'.irq_count = edu.irq_count
      BY <1>2, <1>5 DEF TriggerRaise, WriteIrqRaise, EduType
    <3>2. /\ irq_status' = loc[t].mask
          /\ intx_line' = ~msi_on
          /\ msi_pending' = (msi_on /\ bus_master)
      BY <1>5, <2>3
         DEF TriggerRaise, WriteIrqRaise, RaiseIrq, Calm, Unasserted, DeviceTypeOK
    <3>3. Counted(0)' BY <1>2, <2>3, <3>1 DEF Counted, lockVars
    <3>4. Underway(loc[t].mask, ThroughAny)' /\ ~Recorded'
      BY <1>2, <2>1, <2>3, <3>1, <3>2
         DEF Underway, Recorded, Calm, ThreadIdle, DmaRunning, HandlerDone, factVars, memVars,
             pciVars, irqHandler
    <3>5. QED BY <1>2, <2>1, <2>3, <3>1, <3>3, <3>4 DEF TriggerWaiting, irqHandler
  <2>5. Phase(t)'
    BY <2>1, <2>4 DEF Phase, FactorialPhase, TriggerPhase, DmaPhase, DmaSetLabels
  <2>6. ResultsStay /\ bus_master' = bus_master
    BY <1>2, <1>5 DEF TriggerRaise, WriteIrqRaise, pciVars, EduType, ResultsStay
  <2>7. QED BY <2>1, <2>2, <2>5, <2>6, ResultsKept DEF Advance, ResultsStay, WaitLabels
<1>6. CASE TriggerWait(t)
  <2>1. /\ pc'[t] = "trig_end" /\ pc[t] = "trig_wait" /\ Place(t)' = "trig_end"
        /\ loc'[t].file = loc[t].file /\ loc'[t].value = loc[t].value
        /\ loc'[t].mask = loc[t].mask
        /\ UNCHANGED deviceVars
        /\ \/ loc'[t].waited = "done" /\ edu.any_irq_done
              /\ edu' = [edu EXCEPT !.any_irq_done = FALSE]
           \/ loc'[t].waited = "timeout" /\ ~edu.any_irq_done /\ BudgetSpent /\ edu' = edu
    BY <1>6 DEF TriggerWait, Wait, Unraced
  <2>2. CallShape(t)' BY <1>2, <2>1 DEF CallShape, TrigLabels
  <2>3. TriggerWaiting(t) BY <1>2, <2>1 DEF Phase, TriggerPhase
  <2>4. Calm /\ (edu.any_irq_done => CountedLast(1, loc[t].mask))
    <3>1. CASE edu.any_irq_done BY <2>3, <3>1 DEF TriggerWaiting
    <3>2. CASE ~edu.any_irq_done
      <4>1. /\ ThreadIdle /\ ~DmaRunning /\ irq_pc = "idle"
            /\ irq_registered => ~InterruptAsserted
        BY <2>1, <3>2 DEF BudgetSpent, Outstanding, Unraced, ThreadIdle
      <4>2. irq_registered
        BY <1>1, OneInside DEF Inside, TimelyInv, BindingInv
      <4>3. QED
        BY <2>3, <3>2, <4>1, <4>2
           DEF TriggerWaiting, Underway, Calm, ThreadIdle, Unasserted, HandlerDone,
               InterruptAsserted, ThroughAny, ThroughDma, ThroughFactorial
    <3>3. QED BY <3>1, <3>2
  <2>5. loc'[t].waited = "done" => CountedLast(1, loc[t].mask)'
    BY <1>2, <2>1, <2>4 DEF CountedLast, Counted, EduType, lockVars
  <2>6. Phase(t)'
    BY <2>1, <2>5 DEF Phase, FactorialPhase, TriggerPhase, DmaPhase, DmaSetLabels, CountedLast, Counted
  <2>7. Calm' /\ bus_master' = bus_master
    BY <1>2, <2>1, <2>4, WritesKeepCalm DEF deviceVars, pciVars
  <2>8. ResultsStay
    BY <1>2, <2>1 DEF ResultsStay, EduType
  <2>9. QED BY <2>2, <2>6, <2>7, <2>8, ResultsKept DEF Advance, ResultsStay
<1>7. CASE TriggerEnd(t)
  <2>1. /\ pc'[t] = "unlock" /\ pc[t] = "trig_end" /\ Place(t)' = "unlock"
        /\ loc'[t].file = loc[t].file /\ loc'[t].value = loc[t].value
        /\ loc'[t].mask = loc[t].mask /\ loc[t].file = "trigger_irq"
        /\ loc'[t].ret = "ok" => loc[t].waited = "done"
        /\ UNCHANGED <<deviceVars, edu>>
    BY <1>2, <1>7 DEF TriggerEnd, WaitError, CallShape, TrigLabels
  <2>2. CallShape(t)' BY <1>2, <2>1 DEF CallShape, TrigLabels
  <2>3. loc'[t].ret = "ok" => CountedLast(1, loc[t].mask)'
    BY <1>2, <2>1 DEF Phase, TriggerPhase, CountedLast, Counted, lockVars
  <2>4. Phase(t)'
    BY <2>1, <2>3 DEF Phase, FactorialPhase, TriggerPhase, DmaPhase, DmaSetLabels, CountedLast, Counted
  <2>5. Calm' /\ bus_master' = bus_master
    BY <1>2, <1>3, <2>1, WritesKeepCalm DEF deviceVars, pciVars
  <2>6. ResultsStay BY <1>2, <2>1 DEF ResultsStay
  <2>7. QED BY <2>2, <2>4, <2>5, <2>6, ResultsKept DEF Advance, ResultsStay
<1>8. QED BY <1>4, <1>5, <1>6, <1>7 DEF TriggerIrqStore

\* A write of the driver to a register of an idle DMA engine takes effect.
LEMMA RegisterWritten ==
  ASSUME TypeInv, Calm, NEW register \in {"src", "dst", "cnt", "cmd"}, NEW value,
         WriteDma(register, value)
  PROVE  /\ dma'[register] = value
         /\ \A other \in {"src", "dst", "cnt", "cmd"} \ {register} : dma'[other] = dma[other]
         /\ UNCHANGED <<irqVars, pciVars, factVars, dev_buf, ram>>
BY DEF Calm, WriteDma, TypeInv, TypeOK, DeviceTypeOK

\* The register writes before the DMA command.
LEMMA DmaSetUpAdvances ==
  ASSUME TypeInv, SafetyInv, TimelyInv, NEW t \in Tasks,
         \/ DmaBegin(t) \/ DmaRefuse(t) \/ DmaSource(t) \/ DmaDestination(t) \/ DmaCount(t)
         \/ DmaCommand(t)
  PROVE  Advance(t)
<1>1. Inside(t) BY DmaInside DEF DmaRoundtripStore
<1>2. /\ Phase(t) /\ CallShape(t) /\ UNCHANGED <<irqHandler, bindVars, lockVars>>
      /\ edu \in EduType
      /\ ram \in [Handles -> [Offsets -> Cells]] /\ dev_buf \in [Offsets -> Cells]
  BY <1>1 DEF Inside, TimelyInv, CallsInv, TypeInv, TypeOK, DeviceTypeOK
<1>3. Calm
  <2>1. pc[t] \notin WaitLabels
    BY DEF DmaBegin, DmaRefuse, DmaSource, DmaDestination, DmaCount, DmaCommand, CallAck, Finish,
           Step, Goto, WaitLabels
  <2>2. QED BY <1>1, <2>1, CallIsCalm DEF Inside
<1>4. edu.dma_handle \in Handles
  BY <1>1, OneInside DEF Inside, TimelyInv, BindingInv
<1> USE DEF Step, Goto, Finish, TypeInv, TypeOK, LocalsType, Place
<1>5. CASE DmaBegin(t)
  <2>1. /\ pc'[t] = "ack_read" /\ Place(t)' = "dma_src" /\ pc[t] = "locked"
        /\ loc'[t].file = "dma_roundtrip" /\ loc[t].file = "dma_roundtrip"
        /\ loc'[t].value = loc[t].value /\ loc'[t].to_ram = loc[t].to_ram
        /\ loc'[t].resume = "dma_src"
        /\ edu' = edu
    BY <1>5 DEF DmaBegin, CallAck
  <2>2. CallShape(t)' BY <1>2, <2>1 DEF CallShape, TrigLabels
  <2>3. ~loc[t].to_ram BY <1>2, <2>1 DEF CallShape
  <2>4. loc[t].value \in Nat /\ BufSize \in Nat /\ loc[t].value <= BufSize
    BY <1>2, <2>1, BufferAssumption DEF BufferAssumption, CallShape, DmaAccepts
  <2>5. RamHasPattern(t)'
    <3>1. ram'[edu.dma_handle]
            = [i \in Offsets |-> IF i < loc[t].value
                                   THEN [byte |-> "pattern", length |-> loc[t].value]
                                   ELSE ram[edu.dma_handle][i]]
      BY <1>2, <1>4, <1>5 DEF DmaBegin, Fill
    <3>2. \A i \in 0 .. loc[t].value - 1 : i \in Offsets /\ i < loc[t].value
      BY <2>4 DEF Offsets
    <3>3. \A i \in 0 .. loc[t].value - 1 :
            ram'[edu.dma_handle][i] = [byte |-> "pattern", length |-> loc[t].value]
      BY <3>1, <3>2, Zenon
    <3>4. edu'.dma_handle = edu.dma_handle /\ loc'[t].value = loc[t].value BY <2>1
    <3>5. QED BY <3>3, <3>4, Zenon DEF RamHasPattern, Pattern
  <2>6. DataBefore(t)' /\ Counted(Behind(t))'
    BY <1>2, <2>1, <2>3, <2>5 DEF DataBefore, Behind, Counted, Phase, lockVars
  <2>7. Phase(t)'
    BY <2>1, <2>6 DEF Phase, FactorialPhase, TriggerPhase, DmaPhase, DmaSetLabels
  <2>8. Calm' /\ bus_master' = bus_master
    <3>1. Fill("pattern", loc[t].value) BY <1>5 DEF DmaBegin
    <3>2. \E byte, n : Fill(byte, n) BY <3>1, Zenon
    <3>3. Calm' BY <1>2, <1>3, <3>2, WritesKeepCalm
    <3>4. QED BY <3>1, <3>3 DEF Fill, pciVars
  <2>9. ResultsStay BY <1>2, <2>1 DEF ResultsStay
  <2>10. QED BY <2>2, <2>7, <2>8, <2>9, ResultsKept DEF Advance, ResultsStay
<1>6. CASE DmaRefuse(t)
  <2>1. /\ pc'[t] = "unlock" /\ Place(t)' = "unlock" /\ loc'[t].ret = "EIO"
        /\ loc'[t].file = loc[t].file /\ loc'[t].value = loc[t].value /\ loc'[t].mask = loc[t].mask
        /\ UNCHANGED <<deviceVars, edu>>
    BY <1>6 DEF DmaRefuse
  <2>2. CallShape(t)' BY <1>2, <2>1 DEF CallShape, TrigLabels
  <2>3. Phase(t)'
    BY <2>1 DEF Phase, FactorialPhase, TriggerPhase, DmaPhase, DmaSetLabels
  <2>4. Calm' /\ bus_master' = bus_master
    BY <1>2, <1>3, <2>1, WritesKeepCalm DEF deviceVars, pciVars
  <2>5. ResultsStay BY <1>2, <2>1 DEF ResultsStay
  <2>6. QED BY <2>2, <2>3, <2>4, <2>5, ResultsKept DEF Advance, ResultsStay
<1>7. CASE DmaSource(t) \/ DmaDestination(t) \/ DmaCount(t)
  <2>1. /\ pc[t] \in {"dma_src", "dma_dst", "dma_cnt"} /\ pc'[t] \in DmaSetLabels
        /\ Place(t)' = pc'[t] /\ Place(t) = pc[t] /\ loc' = loc
        /\ edu'.dma_handle = edu.dma_handle /\ edu'.irq_count = edu.irq_count
    BY <1>2, <1>7 DEF DmaSource, DmaDestination, DmaCount, DmaSetLabels, EduType
  <2>2. CallShape(t)' BY <1>2, <2>1 DEF CallShape, TrigLabels, DmaSetLabels
  <2>3. /\ UNCHANGED <<irqVars, pciVars, factVars, dev_buf, ram>>
        /\ \E n : \E register \in {"src", "dst", "cnt"} : WriteDma(register, n)
    BY <1>3, <1>7, RegisterWritten DEF DmaSource, DmaDestination, DmaCount
  <2>4. DataBefore(t)' /\ Counted(Behind(t))' /\ irq_status' = {}
    BY <1>2, <2>1, <2>3
       DEF Phase, DmaPhase, DataBefore, DevHasPattern, RamHasPattern, Pattern, Behind, Counted,
           DmaSetLabels, irqVars, lockVars
  <2>5. ASSUME DmaSource(t) PROVE Phase(t)'
    <3>1. pc'[t] = "dma_dst" /\ ~edu'.dma_done
      BY <1>2, <2>5 DEF DmaSource, EduType
    <3>2. SourceSet(t)'
      BY <1>3, <2>1, <2>5, RegisterWritten DEF DmaSource, SourceSet
    <3>3. QED
      BY <2>1, <2>4, <3>1, <3>2 DEF Phase, FactorialPhase, TriggerPhase, DmaPhase, DmaSetLabels
  <2>6. ASSUME DmaDestination(t) PROVE Phase(t)'
    <3>1. pc'[t] = "dma_cnt" /\ ~edu'.dma_done /\ SourceSet(t)
      BY <1>2, <2>6 DEF DmaDestination, Phase, DmaPhase, DmaSetLabels
    <3>2. SourceSet(t)' /\ DestinationSet(t)'
      BY <1>3, <2>1, <2>6, <3>1, RegisterWritten DEF DmaDestination, SourceSet, DestinationSet
    <3>3. QED
      BY <2>1, <2>4, <3>1, <3>2 DEF Phase, FactorialPhase, TriggerPhase, DmaPhase, DmaSetLabels
  <2>7. ASSUME DmaCount(t) PROVE Phase(t)'
    <3>1. pc'[t] = "dma_cmd" /\ ~edu'.dma_done /\ SourceSet(t) /\ DestinationSet(t)
      BY <1>2, <2>7 DEF DmaCount, Phase, DmaPhase, DmaSetLabels
    <3>2. SourceSet(t)' /\ DestinationSet(t)' /\ dma'.cnt = loc[t].value
      BY <1>3, <2>1, <2>7, <3>1, RegisterWritten DEF DmaCount, SourceSet, DestinationSet
    <3>3. QED
      BY <2>1, <2>4, <3>1, <3>2 DEF Phase, FactorialPhase, TriggerPhase, DmaPhase, DmaSetLabels
  <2>8. Calm' /\ bus_master' = bus_master
    BY <1>2, <1>3, <2>3, WritesKeepCalm DEF pciVars
  <2>9. ResultsStay
    BY <1>2, <1>7 DEF DmaSource, DmaDestination, DmaCount, ResultsStay, EduType
  <2>10. Phase(t)' BY <1>7, <2>5, <2>6, <2>7
  <2>11. QED BY <2>2, <2>8, <2>9, <2>10, ResultsKept DEF Advance, ResultsStay
<1>8. CASE DmaCommand(t)
  <2>1. /\ pc[t] = "dma_cmd" /\ pc'[t] = "dma_wait" /\ Place(t)' = "dma_wait" /\ Place(t) = "dma_cmd"
        /\ loc' = loc /\ edu' = edu
    BY <1>8 DEF DmaCommand
  <2>2. CallShape(t)' BY <1>2, <2>1 DEF CallShape, TrigLabels
  <2>3. /\ WriteDma("cmd", Command(t))
        /\ UNCHANGED <<irqVars, pciVars, factVars, dev_buf, ram>>
        /\ dma'.cmd = Command(t) /\ dma'.src = dma.src /\ dma'.dst = dma.dst /\ dma'.cnt = dma.cnt
    BY <1>3, <1>8, RegisterWritten DEF DmaCommand, Command
  <2>4. DataBefore(t)' /\ Counted(Behind(t))' /\ irq_status' = {} /\ ~edu'.dma_done
    BY <1>2, <2>1, <2>3
       DEF Phase, DmaPhase, DataBefore, DevHasPattern, RamHasPattern, Pattern, Behind, Counted,
           DmaSetLabels, irqVars, lockVars
  <2>5. SourceSet(t)' /\ DestinationSet(t)' /\ dma'.cnt = loc[t].value
    BY <1>2, <2>1, <2>3 DEF Phase, DmaPhase, SourceSet, DestinationSet, DmaSetLabels
  <2>6. Command(t)' = Command(t) BY <1>2, <2>1 DEF Command, bindVars
  <2>7. ThreadIdle' /\ Unasserted' /\ HandlerDone'
    BY <1>2, <1>3, <2>3 DEF Calm, ThreadIdle, Unasserted, HandlerDone, irqVars, factVars, irqHandler
  <2>8. DmaWaiting(t)'
    BY <2>1, <2>3, <2>4, <2>5, <2>6, <2>7 DEF DmaWaiting
  <2>9. Phase(t)'
    BY <2>1, <2>8 DEF Phase, FactorialPhase, TriggerPhase, DmaPhase, DmaSetLabels
  <2>10. ResultsStay /\ bus_master' = bus_master
    BY <1>2, <2>1, <2>3 DEF ResultsStay, pciVars
  <2>11. QED BY <2>1, <2>2, <2>9, <2>10, ResultsKept DEF Advance, ResultsStay, WaitLabels
<1>9. QED BY <1>5, <1>6, <1>7, <1>8

\* The wait for a transfer ends with its interrupt counted and its data moved,
\* or with the timeout of the interrupt that is forced to be missing.
LEMMA DmaWaitAdvances ==
  ASSUME TypeInv, SafetyInv, TimelyInv, Unraced, NEW t \in Tasks, DmaWait(t)
  PROVE  Advance(t)
<1>1. Inside(t) BY DmaInside DEF DmaRoundtripStore
<1>2. /\ Phase(t) /\ CallShape(t) /\ UNCHANGED <<irqHandler, bindVars, lockVars>>
      /\ edu \in EduType
  BY <1>1 DEF Inside, TimelyInv, CallsInv, TypeInv, TypeOK
<1> USE DEF Step, Goto, TypeInv, TypeOK, LocalsType, Place
<1>3. /\ pc'[t] = "dma_command" /\ pc[t] = "dma_wait" /\ Place(t)' = "dma_command"
      /\ Place(t) = "dma_wait"
      /\ loc'[t].file = loc[t].file /\ loc'[t].value = loc[t].value
      /\ loc'[t].mask = loc[t].mask /\ loc'[t].to_ram = loc[t].to_ram
      /\ UNCHANGED deviceVars
      /\ \/ loc'[t].waited = "done" /\ edu.dma_done /\ edu' = [edu EXCEPT !.dma_done = FALSE]
         \/ loc'[t].waited = "timeout" /\ ~edu.dma_done /\ BudgetSpent /\ edu' = edu
  BY DEF DmaWait, Wait
<1>4. CallShape(t)' BY <1>2, <1>3 DEF CallShape, TrigLabels
<1>5. DmaWaiting(t) BY <1>2, <1>3 DEF Phase, DmaPhase
<1>6. /\ Calm /\ DataAfter(t)
      /\ IF edu.dma_done THEN CountedLast(Behind(t) + 1, {"dma"}) ELSE parameter.force_dma_timeout
  <2>1. CASE edu.dma_done BY <1>5, <2>1 DEF DmaWaiting
  <2>2. CASE ~edu.dma_done
    <3>1. /\ ThreadIdle /\ ~DmaRunning /\ irq_pc = "idle"
          /\ irq_registered => ~InterruptAsserted
      BY <1>3, <2>2 DEF BudgetSpent, Outstanding, Unraced, ThreadIdle
    <3>2. irq_registered /\ bus_master
      BY <1>1, <1>3, OneInside, PathIsUsable
         DEF Inside, TimelyInv, BindingInv, DmaUsable, DmaLabels
    <3>3. ~Underway({"dma"}, ThroughDma)
      BY <3>1, <3>2
         DEF Underway, ThreadIdle, Unasserted, HandlerDone, InterruptAsserted, ThroughDma,
             ThroughFactorial
    <3>4. dma.cmd # Command(t)
      BY <3>1 DEF DmaRunning, Command
    <3>5. QED BY <1>5, <2>2, <3>3, <3>4 DEF DmaWaiting
  <2>3. QED BY <2>1, <2>2
<1>7. DataAfter(t)' /\ (CountedLast(Behind(t) + 1, {"dma"}) => CountedLast(Behind(t) + 1, {"dma"})')
  <2>1. edu'.irq_count = edu.irq_count /\ edu'.last_irq_status = edu.last_irq_status
        /\ edu'.dma_handle = edu.dma_handle
    BY <1>2, <1>3 DEF EduType
  <2>2. DataAfter(t)'
    BY <1>3, <1>6, <2>1
       DEF DataAfter, DevHasPattern, RamHasPattern, Pattern, deviceVars, memVars
  <2>3. Behind(t)' = Behind(t) BY <1>3 DEF Behind
  <2>4. QED BY <1>2, <2>1, <2>2, <2>3 DEF CountedLast, Counted, lockVars
<1>8. \/ loc'[t].waited = "done" /\ CountedLast(Behind(t) + 1, {"dma"})' /\ DataAfter(t)'
      \/ loc'[t].waited = "timeout" /\ parameter'.force_dma_timeout
  BY <1>2, <1>3, <1>6, <1>7 DEF bindVars
<1>9. Phase(t)'
  BY <1>3, <1>8 DEF Phase, FactorialPhase, TriggerPhase, DmaPhase, DmaSetLabels
<1>10. Calm' /\ bus_master' = bus_master
  BY <1>2, <1>3, <1>6, WritesKeepCalm DEF deviceVars, pciVars
<1>11. ResultsStay BY <1>2, <1>3 DEF ResultsStay, EduType
<1>12. QED BY <1>4, <1>9, <1>10, <1>11, ResultsKept DEF Advance, ResultsStay

\* The steps after the wait: an interrupt that was counted is followed by the
\* next transfer or by success, a forced timeout by the fault of the path.
LEMMA DmaEndAdvances ==
  ASSUME TypeInv, SafetyInv, TimelyInv, NEW t \in Tasks,
         \/ DmaReadCommand(t) \/ DmaReadStatus(t) \/ DmaFault(t) \/ DmaSync(t)
         \/ DmaSentinel(t) \/ DmaVerify(t)
  PROVE  Advance(t)
<1>1. Inside(t) BY DmaInside DEF DmaRoundtripStore
<1>2. /\ Phase(t) /\ CallShape(t) /\ UNCHANGED <<irqHandler, bindVars, lockVars>>
      /\ edu \in EduType
      /\ ram \in [Handles -> [Offsets -> Cells]] /\ dev_buf \in [Offsets -> Cells]
  BY <1>1 DEF Inside, TimelyInv, CallsInv, TypeInv, TypeOK, DeviceTypeOK
<1>3. Calm
  <2>1. pc[t] \notin WaitLabels
    BY DEF DmaReadCommand, DmaReadStatus, DmaFault, DmaSync, DmaSentinel, DmaVerify, CallAck,
           Finish, Step, Goto, WaitLabels
  <2>2. QED BY <1>1, <2>1, CallIsCalm DEF Inside
<1> USE DEF Step, Goto, Finish, TypeInv, TypeOK, LocalsType, Place
<1>4. CASE DmaReadCommand(t)
  <2>1. /\ pc[t] = "dma_command"
        /\ pc'[t] = (IF loc[t].waited = "done" THEN "dma_status" ELSE "dma_fault")
        /\ loc'[t].file = loc[t].file /\ loc'[t].value = loc[t].value
        /\ loc'[t].mask = loc[t].mask /\ loc'[t].to_ram = loc[t].to_ram
        /\ loc'[t].waited = loc[t].waited /\ ~loc'[t].running
        /\ UNCHANGED <<deviceVars, edu>>
    BY <1>3, <1>4 DEF DmaReadCommand, Calm
  <2>2. Place(t)' = pc'[t] /\ Place(t) = "dma_command" BY <2>1
  <2>3. CallShape(t)' BY <1>2, <2>1, <2>2 DEF CallShape, TrigLabels
  <2>4. /\ DataAfter(t) => DataAfter(t)'
        /\ Behind(t)' = Behind(t)
        /\ CountedLast(Behind(t) + 1, {"dma"}) => CountedLast(Behind(t) + 1, {"dma"})'
    BY <1>2, <2>1
       DEF DataAfter, DevHasPattern, RamHasPattern, Pattern, deviceVars, memVars, Behind,
           CountedLast, Counted, lockVars
  <2>5. \/ pc'[t] = "dma_status" /\ CountedLast(Behind(t) + 1, {"dma"})' /\ DataAfter(t)'
        \/ pc'[t] = "dma_fault" /\ loc'[t].waited = "timeout" /\ parameter'.force_dma_timeout
    BY <1>2, <2>1, <2>4 DEF Phase, DmaPhase, bindVars
  <2>6. Phase(t)'
    BY <2>1, <2>2, <2>5 DEF Phase, FactorialPhase, TriggerPhase, DmaPhase, DmaSetLabels
  <2>7. Calm' /\ bus_master' = bus_master
    BY <1>2, <1>3, <2>1, WritesKeepCalm DEF deviceVars, pciVars
  <2>8. ResultsStay BY <1>2, <2>1 DEF ResultsStay
  <2>9. QED BY <2>3, <2>6, <2>7, <2>8, ResultsKept DEF Advance, ResultsStay
<1>5. ~DmaReadStatus(t)
  BY <1>2 DEF DmaReadStatus, Phase, DmaPhase, CountedLast
<1>6. CASE DmaFault(t)
  <2>1. /\ pc[t] = "dma_fault" /\ Place(t) = "dma_fault"
        /\ pc'[t] = "ack_read" /\ Place(t)' = "dma_sync"
        /\ loc'[t].file = loc[t].file /\ loc'[t].value = loc[t].value
        /\ loc'[t].mask = loc[t].mask /\ loc'[t].to_ram = loc[t].to_ram
        /\ loc'[t].waited = loc[t].waited /\ loc'[t].running = loc[t].running
        /\ loc'[t].resume = "dma_sync"
        /\ edu' = [edu EXCEPT !.dma_faulted = TRUE]
    BY <1>6 DEF DmaFault, CallAck
  <2>2. CallShape(t)' BY <1>2, <2>1 DEF CallShape, TrigLabels
  <2>3. parameter'.force_dma_timeout /\ loc'[t].waited = "timeout" /\ ~loc'[t].running
    BY <1>2, <2>1 DEF Phase, DmaPhase, bindVars
  <2>4. Phase(t)'
    BY <2>1, <2>3 DEF Phase, FactorialPhase, TriggerPhase, DmaPhase, DmaSetLabels
  <2>5. SetMaster(FALSE) BY <1>6 DEF DmaFault
  <2>6. Calm' BY <1>2, <1>3, <2>5, WritesKeepCalm
  <2>7. /\ edu'.dma_faulted /\ edu'.dma_handle = edu.dma_handle
        /\ edu'.dma_result = edu.dma_result
        /\ edu'.factorial_valid = edu.factorial_valid
        /\ edu'.factorial_input = edu.factorial_input
        /\ edu'.factorial_result = edu.factorial_result
    BY <1>2, <2>1 DEF EduType
  <2>8. ResultInv'
    BY <2>3, <2>7 DEF TimelyInv, ResultInv, FactorialCorrect
  <2>9. QED BY <2>2, <2>4, <2>6, <2>7, <2>8 DEF Advance
<1>7. CASE DmaSync(t)
  <2>1. /\ pc[t] = "dma_sync" /\ Place(t) = "dma_sync"
        /\ loc[t].waited = "timeout" /\ ~loc[t].running
    BY <1>2, <1>7 DEF DmaSync, Phase, DmaPhase
  <2>2. /\ pc'[t] = "unlock" /\ Place(t)' = "unlock" /\ loc'[t].ret = "ETIMEDOUT"
        /\ loc'[t].file = loc[t].file /\ loc'[t].value = loc[t].value
        /\ loc'[t].mask = loc[t].mask
        /\ UNCHANGED deviceVars
    BY <1>7, <2>1 DEF DmaSync
  <2>3. CallShape(t)' BY <1>2, <2>2 DEF CallShape, TrigLabels
  <2>4. Phase(t)'
    BY <2>2 DEF Phase, FactorialPhase, TriggerPhase, DmaPhase, DmaSetLabels
  <2>5. Calm' /\ bus_master' = bus_master
    BY <1>2, <1>3, <2>2, WritesKeepCalm DEF deviceVars, pciVars
  <2>6. /\ edu'.dma_result = "timeout" /\ edu'.dma_handle = edu.dma_handle
        /\ edu'.dma_faulted = edu.dma_faulted
        /\ edu'.factorial_valid = edu.factorial_valid
        /\ edu'.factorial_input = edu.factorial_input
        /\ edu'.factorial_result = edu.factorial_result
    BY <1>2, <1>7, <2>1 DEF DmaSync, EduType
  <2>7. ResultInv'
    BY <1>2, <2>6 DEF TimelyInv, ResultInv, FactorialCorrect, bindVars
  <2>8. QED BY <2>3, <2>4, <2>5, <2>6, <2>7 DEF Advance
<1>8. CASE DmaSentinel(t)
  <2>1. /\ pc[t] = "dma_status" /\ ~loc[t].to_ram
        /\ pc'[t] = "ack_read" /\ Place(t)' = "dma_src"
        /\ loc'[t].file = loc[t].file /\ loc'[t].value = loc[t].value
        /\ loc'[t].mask = loc[t].mask /\ loc'[t].to_ram
        /\ loc'[t].resume = "dma_src"
        /\ edu' = edu /\ dev_buf' = dev_buf
    BY <1>8 DEF DmaSentinel, Fill
  <2>2. CallShape(t)' BY <1>2, <2>1 DEF CallShape, TrigLabels
  <2>3. CountedLast(Behind(t) + 1, {"dma"}) /\ DataAfter(t)
    BY <1>2, <2>1 DEF Phase, DmaPhase
  <2>4. Behind(t) + 1 = 1 /\ Behind(t)' = 1 BY <2>1 DEF Behind
  <2>5. Counted(Behind(t))'
    BY <1>2, <2>1, <2>3, <2>4 DEF CountedLast, Counted, lockVars
  <2>6. DataBefore(t)'
    BY <2>1, <2>3 DEF DataBefore, DataAfter, DevHasPattern, Pattern
  <2>7. Phase(t)'
    BY <2>1, <2>5, <2>6 DEF Phase, FactorialPhase, TriggerPhase, DmaPhase, DmaSetLabels
  <2>8. Calm' /\ bus_master' = bus_master
    <3>1. Fill("sentinel", loc[t].value) BY <1>8 DEF DmaSentinel
    <3>2. \E byte, n : Fill(byte, n) BY <3>1, Zenon
    <3>3. Calm' BY <1>2, <1>3, <3>2, WritesKeepCalm
    <3>4. QED BY <3>1, <3>3 DEF Fill, pciVars
  <2>9. ResultsStay BY <1>2, <2>1 DEF ResultsStay
  <2>10. QED BY <2>2, <2>7, <2>8, <2>9, ResultsKept DEF Advance, ResultsStay
<1>9. CASE DmaVerify(t)
  <2>1. /\ pc[t] = "dma_status" /\ loc[t].to_ram
        /\ CountedLast(Behind(t) + 1, {"dma"}) /\ DataAfter(t)
    BY <1>2, <1>9 DEF DmaVerify, Phase, DmaPhase
  <2>2. CountedLast(2, {"dma"}) /\ DevHasPattern(t) /\ RamHasPattern(t)
    BY <2>1 DEF Behind, DataAfter
  <2>3. /\ pc'[t] = "unlock" /\ Place(t)' = "unlock"
        /\ loc'[t].file = loc[t].file /\ loc'[t].value = loc[t].value
        /\ loc'[t].mask = loc[t].mask
        /\ UNCHANGED deviceVars
    BY <1>9 DEF DmaVerify
  <2>4. edu' = [edu EXCEPT !.dma_last_length = loc[t].value, !.dma_result = "passed"]
    BY <1>9, <2>2 DEF DmaVerify, RamHasPattern, Pattern
  <2>5. /\ edu'.dma_result = "passed" /\ edu'.dma_handle = edu.dma_handle
        /\ edu'.dma_faulted = edu.dma_faulted
        /\ edu'.irq_count = edu.irq_count /\ edu'.last_irq_status = edu.last_irq_status
        /\ edu'.factorial_valid = edu.factorial_valid
        /\ edu'.factorial_input = edu.factorial_input
        /\ edu'.factorial_result = edu.factorial_result
    BY <1>2, <2>4 DEF EduType
  <2>6. CountedLast(2, {"dma"})' /\ DevHasPattern(t)' /\ RamHasPattern(t)'
    BY <1>2, <2>2, <2>3, <2>5
       DEF CountedLast, Counted, lockVars, DevHasPattern, RamHasPattern, Pattern, deviceVars,
           memVars
  <2>7. CallShape(t)' BY <1>2, <2>3 DEF CallShape, TrigLabels
  <2>8. loc'[t].file = "dma_roundtrip" BY <1>2, <2>1, <2>3 DEF TypeInv, CallInv, CallOK, DmaLabels
  <2>9. Phase(t)'
    BY <2>3, <2>6, <2>8 DEF Phase, FactorialPhase, TriggerPhase, DmaPhase, DmaSetLabels
  <2>10. Calm' /\ bus_master' = bus_master
    BY <1>2, <1>3, <2>3, WritesKeepCalm DEF deviceVars, pciVars
  <2>11. ResultInv'
    BY <1>2, <2>5 DEF TimelyInv, ResultInv, FactorialCorrect, bindVars
  <2>12. QED BY <2>5, <2>7, <2>9, <2>10, <2>11 DEF Advance
<1>10. QED BY <1>4, <1>5, <1>6, <1>7, <1>8, <1>9

\* Every step of a call in the critical section.
LEMMA StoreAdvances ==
  ASSUME TypeInv, SafetyInv, TimelyInv, Unraced, NEW t \in Tasks,
         StoreStep(t), ~Unlock(t), ~Return(t)
  PROVE  Advance(t)
BY LivenessAdvances, FactorialAdvances, TriggerAdvances, DmaSetUpAdvances, DmaWaitAdvances,
   DmaEndAdvances DEF StoreStep, DmaRoundtripStore

\* Every step of a task.
LEMMA TaskKeepsTimely ==
  ASSUME TypeInv, SafetyInv, TimelyInv, Unraced, NEW t \in Tasks, TaskStep(t)
  PROVE  TimelyInv'
<1>1. CASE Call(t) \/ Lock(t) \/ Unlock(t) \/ Return(t)
  BY <1>1, BoundaryKeepsTimely
<1>2. CASE StoreStep(t) /\ ~Unlock(t) /\ ~Return(t)
  BY <1>2, StoreInside, StoreAdvances, AdvanceKeepsTimely
<1>3. CASE AckRead(t) \/ AckWrite(t)
  <2>1. InCritical(t)
    BY <1>3 DEF AckRead, AckWrite, Step, Goto, TypeInv, PlacesInv
  <2>2. QED BY <1>3, <2>1, AckInside, AckAdvances, AdvanceKeepsTimely
<1>4. QED BY <1>1, <1>2, <1>3 DEF TaskStep, StoreStep

-----------------------------------------------------------------------------
(* Probe and removal.                                                      *)

\* A step of the Binder either leaves everything the calls depend on alone, or
\* is taken while no call is in the driver.
LEMMA BinderKeepsTimely ==
  ASSUME TypeInv, SafetyInv, TimelyInv, NEW from, NEW to, BinderMove(from, to),
         \/ UNCHANGED <<deviceVars, edu, lockVars, parameter>>
         \/ from \notin {"bound", "rm_drain"} /\ (Calm => Calm'),
         BindingInv', ResultInv'
  PROVE  TimelyInv'
<1>1. \A t \in Tasks : /\ pc'[t] = pc[t] /\ loc'[t] = loc[t] /\ Place(t)' = Place(t)
                       /\ InCritical(t)' <=> InCritical(t)
  BY DriverAssumption DEF DriverAssumption, BinderMove, Alone, Place, InCritical
<1>2. \A t \in Tasks : CallShape(t)'
  BY <1>1 DEF TimelyInv, CallsInv, CallShape
<1>3. UNCHANGED irqHandler BY DEF BinderMove
<1>4. CASE UNCHANGED <<deviceVars, edu, lockVars, parameter>>
  <2>1. \A t \in Tasks : InCritical(t)' => Phase(t)'
    BY <1>1, <1>3, <1>4, PhaseStays DEF TimelyInv, CallsInv
  <2>2. Calm' <=> Calm
    BY <1>3, <1>4 DEF Calm, ThreadIdle, DmaRunning, Unasserted, HandlerDone, deviceVars, irqVars,
                      factVars, memVars, irqHandler
  <2>3. CalmInv' BY <1>1, <2>2 DEF TimelyInv, CalmInv
  <2>4. QED BY <1>2, <2>1, <2>3 DEF TimelyInv, CallsInv
<1>5. CASE from \notin {"bound", "rm_drain"} /\ (Calm => Calm')
  <2>1. \A t \in Tasks : pc[t] = "idle"
    BY <1>5 DEF BinderMove, SafetyInv, DrainInv
  <2>2. \A t \in Tasks : ~InCritical(t)
    BY <2>1 DEF InCritical, Place, Critical, FactLabels, TrigLabels, DmaLabels, RemoveLabels
  <2>3. Calm BY <2>1 DEF TimelyInv, CalmInv, WaitLabels
  <2>4. QED BY <1>1, <1>2, <1>5, <2>2, <2>3 DEF TimelyInv, CallsInv, CalmInv
<1>6. QED BY <1>4, <1>5

\* What a binding has, after a step that keeps what it had.
LEMMA BindingStays ==
  ASSUME TypeInv, TimelyInv, NEW from, NEW to, BinderMove(from, to),
         from # "unbound" \/ to = "unbound",
         edu'.dma_handle = edu.dma_handle, edu'.dma_faulted = edu.dma_faulted,
         to \in MasteredPlaces => bus_master' \/ (from \in MasteredPlaces /\ bus_master' = bus_master),
         to \in {"probe_sysfs", "bound", "rm_drain"} =>
           \/ irq_registered'
           \/ from \in {"probe_sysfs", "bound", "rm_drain"} /\ irq_registered' = irq_registered,
         pc'[Binder] \in {"ack_read", "ack_write"} => to \in {"probe_vectors", "rm_master", "rm_sync"}
  PROVE  BindingInv'
<1>1. Place(Binder) = from /\ Place(Binder)' = to BY DEF BinderMove
<1>2. pc'[Binder] \in {"ack_read", "ack_write"} => loc'[Binder].resume = to
  BY <1>1 DEF Place
<1>3. QED BY <1>1, <1>2 DEF TimelyInv, BindingInv

\* Once more what a write leaves behind, for the steps of the Binder.
LEMMA BinderCalm ==
  ASSUME TypeInv, UNCHANGED irqHandler, UNCHANGED <<factVars, dma>>,
         ~msi_pending => ~msi_pending', ~intx_line => ~intx_line', Calm
  PROVE  Calm'
BY DEF Calm, ThreadIdle, DmaRunning, Unasserted, HandlerDone, irqHandler, factVars

\* remove, which drains the stores before it stops the device.
LEMMA RemoveKeepsTimely ==
  ASSUME TypeInv, SafetyInv, TimelyInv,
         \/ Remove \/ RemoveDrained \/ RemoveQuiesce \/ RemoveMaster \/ RemovePoll
         \/ RemoveSync \/ Lock(Binder)
  PROVE  TimelyInv'
<1> USE DEF MasteredPlaces, Step, Goto, bindVars, lockVars
<1>1. UNCHANGED edu /\ UNCHANGED bindVars /\ pc \in [Procs -> TaskLabels \cup BinderLabels]
  BY DEF Remove, RemoveDrained, RemoveQuiesce, RemoveMaster, RemovePoll, RemoveSync, Lock, CallAck,
         TypeInv, TypeOK
<1>2. ResultInv' BY <1>1 DEF TimelyInv, ResultInv, FactorialCorrect
<1>3. CASE Remove
  <2>1. BinderMove("bound", "rm_drain") BY <1>3, RemoveMoves
  <2>2. BindingInv' BY <1>1, <1>3, <2>1, BindingStays DEF Remove, deviceVars, pciVars
  <2>3. QED BY <1>1, <1>2, <1>3, <2>1, <2>2, BinderKeepsTimely DEF Remove
<1>4. CASE RemoveDrained
  <2>1. BinderMove("rm_drain", "lock") BY <1>4, RemoveMoves
  <2>2. BindingInv' BY <1>1, <1>4, <2>1, BindingStays DEF RemoveDrained
  <2>3. QED BY <1>1, <1>2, <1>4, <2>1, <2>2, BinderKeepsTimely DEF RemoveDrained
<1>5. CASE Lock(Binder)
  <2>1. BinderMove("lock", "locked") BY <1>5, RemoveMoves
  <2>2. BindingInv' BY <1>1, <1>5, <2>1, BindingStays DEF Lock
  <2>3. Calm => Calm'
    BY <1>5, BinderCalm DEF Lock, deviceVars, factVars, memVars, irqVars
  <2>4. QED BY <1>2, <2>1, <2>2, <2>3, BinderKeepsTimely
<1>6. CASE RemoveQuiesce
  <2>1. BinderMove("locked", "rm_master") BY <1>6, RemoveMoves
  <2>2. BindingInv' BY <1>1, <2>1, BindingStays
  <2>3. Calm => Calm'
    BY <1>6, WritesKeepCalm DEF RemoveQuiesce, CallAck
  <2>4. QED BY <1>2, <2>1, <2>2, <2>3, BinderKeepsTimely
<1>7. CASE RemoveMaster
  <2>1. BinderMove("rm_master", "rm_poll") BY <1>7, RemoveMoves
  <2>2. BindingInv' BY <1>1, <1>7, <2>1, BindingStays DEF RemoveMaster
  <2>3. Calm => Calm'
    BY <1>7, WritesKeepCalm DEF RemoveMaster
  <2>4. QED BY <1>2, <2>1, <2>2, <2>3, BinderKeepsTimely
<1>8. CASE RemovePoll
  <2>1. BinderMove("rm_poll", "rm_sync") BY <1>8, RemoveMoves
  <2>2. BindingInv' BY <1>1, <2>1, BindingStays
  <2>3. Calm => Calm'
    BY <1>8, WritesKeepCalm DEF RemovePoll, CallAck
  <2>4. QED BY <1>2, <2>1, <2>2, <2>3, BinderKeepsTimely
<1>9. CASE RemoveSync
  <2>1. BinderMove("rm_sync", "rel_irq") BY <1>9, RemoveMoves
  <2>2. BindingInv' BY <1>1, <1>9, <2>1, BindingStays DEF RemoveSync
  <2>3. Calm => Calm'
    BY <1>9, WritesKeepCalm DEF RemoveSync
  <2>4. QED BY <1>2, <2>1, <2>2, <2>3, BinderKeepsTimely
<1>10. QED BY <1>3, <1>4, <1>5, <1>6, <1>7, <1>8, <1>9

\* The devres releases.
LEMMA ReleaseKeepsTimely ==
  ASSUME TypeInv, SafetyInv, TimelyInv,
         ReleaseIrq \/ ReleaseVectors \/ ReleaseMaster \/ ReleaseBuffer
  PROVE  TimelyInv'
<1> USE DEF MasteredPlaces, Step, Goto, bindVars, lockVars, TypeInv, TypeOK
<1>1. CASE ReleaseIrq
  <2>1. BinderMove("rel_irq", "rel_vectors") BY <1>1, ReleaseMoves
  <2>2. BindingInv' BY <1>1, <2>1, BindingStays DEF ReleaseIrq
  <2>3. ResultInv' BY <1>1 DEF ReleaseIrq, TimelyInv, ResultInv, FactorialCorrect
  <2>4. Calm => Calm' BY <1>1, WritesKeepCalm DEF ReleaseIrq
  <2>5. QED BY <2>1, <2>2, <2>3, <2>4, BinderKeepsTimely
<1>2. CASE ReleaseVectors
  <2>1. BinderMove("rel_vectors", "rel_master") BY <1>2, ReleaseMoves
  <2>2. BindingInv' BY <1>2, <2>1, BindingStays DEF ReleaseVectors
  <2>3. ResultInv' BY <1>2 DEF ReleaseVectors, TimelyInv, ResultInv, FactorialCorrect
  <2>4. Calm => Calm' BY <1>2, BinderCalm DEF ReleaseVectors, memVars
  <2>5. QED BY <2>1, <2>2, <2>3, <2>4, BinderKeepsTimely
<1>3. CASE ReleaseMaster
  <2>1. BinderMove("rel_master", "rel_buffer") BY <1>3, ReleaseMoves
  <2>2. BindingInv' BY <1>3, <2>1, BindingStays DEF ReleaseMaster
  <2>3. ResultInv' BY <1>3 DEF ReleaseMaster, TimelyInv, ResultInv, FactorialCorrect
  <2>4. Calm => Calm' BY <1>3, WritesKeepCalm DEF ReleaseMaster
  <2>5. QED BY <2>1, <2>2, <2>3, <2>4, BinderKeepsTimely
<1>4. CASE ReleaseBuffer
  <2>1. BinderMove("rel_buffer", "unbound") BY <1>4, ReleaseMoves
  <2>2. BindingInv'
    BY <1>4, <2>1 DEF ReleaseBuffer, BindingInv, BinderMove
  <2>3. ResultInv'
    BY <1>4 DEF ReleaseBuffer, ResultInv, FactorialCorrect, FreshEdu
  <2>4. Calm => Calm' BY <1>4, WritesKeepCalm DEF ReleaseBuffer
  <2>5. QED BY <2>1, <2>2, <2>3, <2>4, BinderKeepsTimely
<1>5. QED BY <1>1, <1>2, <1>3, <1>4

\* probe.
LEMMA ProbeKeepsTimely ==
  ASSUME TypeInv, SafetyInv, TimelyInv,
         \/ ProbeMaster \/ ProbeQuiesce \/ ProbeRequestIrq \/ ProbeSysfs \/ ProbeFail
         \/ \E h \in Handles : Probe(h)
         \/ \E msi_allowed \in BOOLEAN : ProbeVectors(msi_allowed)
  PROVE  TimelyInv'
<1> USE DEF MasteredPlaces, Step, Goto, bindVars, lockVars, TypeInv, TypeOK
<1>1. CASE ProbeMaster
  <2>1. BinderMove("probe_master", "probe_status") BY <1>1, ProbeMoves
  <2>2. BindingInv' BY <1>1, <2>1, BindingStays DEF ProbeMaster, SetMaster
  <2>3. ResultInv' BY <1>1 DEF ProbeMaster, TimelyInv, ResultInv, FactorialCorrect
  <2>4. Calm => Calm' BY <1>1, WritesKeepCalm DEF ProbeMaster
  <2>5. QED BY <2>1, <2>2, <2>3, <2>4, BinderKeepsTimely
<1>2. CASE ProbeQuiesce
  <2>1. BinderMove("probe_status", "probe_vectors") BY <1>2, ProbeMoves
  <2>2. BindingInv' BY <1>2, <2>1, BindingStays DEF ProbeQuiesce, CallAck, WriteStatus, pciVars
  <2>3. ResultInv' BY <1>2 DEF ProbeQuiesce, CallAck, TimelyInv, ResultInv, FactorialCorrect
  <2>4. Calm => Calm' BY <1>2, WritesKeepCalm DEF ProbeQuiesce, CallAck
  <2>5. QED BY <2>1, <2>2, <2>3, <2>4, BinderKeepsTimely
<1>3. CASE ProbeRequestIrq
  <2>1. BinderMove("probe_irq", "probe_sysfs") BY <1>3, ProbeMoves
  <2>2. BindingInv' BY <1>3, <2>1, BindingStays DEF ProbeRequestIrq, pciVars
  <2>3. ResultInv' BY <1>3 DEF ProbeRequestIrq, TimelyInv, ResultInv, FactorialCorrect
  <2>4. Calm => Calm' BY <1>3, BinderCalm DEF ProbeRequestIrq, memVars
  <2>5. QED BY <2>1, <2>2, <2>3, <2>4, BinderKeepsTimely
<1>4. CASE ProbeSysfs
  <2>1. BinderMove("probe_sysfs", "bound") BY <1>4, ProbeMoves
  <2>2. BindingInv' BY <1>4, <2>1, BindingStays DEF ProbeSysfs, deviceVars, pciVars
  <2>3. ResultInv' BY <1>4 DEF ProbeSysfs, TimelyInv, ResultInv, FactorialCorrect
  <2>4. Calm => Calm' BY <1>4, WritesKeepCalm DEF ProbeSysfs
  <2>5. QED BY <2>1, <2>2, <2>3, <2>4, BinderKeepsTimely
<1>5. CASE ProbeFail
  <2>1. PICK from \in {"probe_status", "probe_vectors", "probe_irq", "probe_sysfs"},
             to \in {"rel_master", "rel_vectors", "rel_irq"} :
          BinderMove(from, to)
    BY <1>5, ProbeMoves
  <2>2. /\ UNCHANGED <<deviceVars, edu, lockVars, parameter, irqHandler>>
        /\ pc'[Binder] \notin {"ack_read", "ack_write"}
    BY <1>5 DEF ProbeFail
  <2>3. BindingInv' BY <2>1, <2>2, BindingStays
  <2>4. ResultInv' BY <2>2 DEF TimelyInv, ResultInv, FactorialCorrect
  <2>5. QED BY <2>1, <2>2, <2>3, <2>4, BinderKeepsTimely
<1>6. CASE \E h \in Handles : Probe(h)
  <2>1. PICK h \in Handles : Probe(h) BY <1>6
  <2>2. BinderMove("unbound", "probe_master") BY <2>1, ProbeMoves
  <2>3. edu'.dma_handle = h /\ ~edu'.dma_faulted /\ ~edu'.factorial_valid
        /\ edu'.dma_result = "not-run"
    BY <2>1 DEF Probe, FreshEdu
  <2>4. edu'.dma_handle + BufSize - 1 <= AddrMask
    BY <2>1, <2>3, BufferAssumption, DriverAssumption DEF BufferAssumption, DriverAssumption, Probe
  <2>5. pc'[Binder] = "probe_master" BY <2>1 DEF Probe
  <2>6. BindingInv'
    BY <2>2, <2>3, <2>4, <2>5 DEF BindingInv, BinderMove
  <2>7. ResultInv' BY <2>3 DEF ResultInv, FactorialCorrect
  <2>8. Calm => Calm' BY <2>1, BinderCalm DEF Probe, irqVars
  <2>9. QED BY <2>2, <2>6, <2>7, <2>8, BinderKeepsTimely
<1>7. CASE \E msi_allowed \in BOOLEAN : ProbeVectors(msi_allowed)
  <2>1. PICK msi_allowed \in BOOLEAN : ProbeVectors(msi_allowed) BY <1>7
  <2>2. BinderMove("probe_vectors", "probe_irq") BY <2>1, ProbeMoves
  <2>3. /\ edu'.dma_handle = edu.dma_handle /\ edu'.dma_faulted = edu.dma_faulted
        /\ edu'.dma_result = edu.dma_result
        /\ edu'.factorial_valid = edu.factorial_valid
        /\ edu'.factorial_input = edu.factorial_input
        /\ edu'.factorial_result = edu.factorial_result
    BY <2>1 DEF ProbeVectors, EduType
  <2>4. bus_master' = bus_master /\ pc'[Binder] = "probe_irq" /\ parameter' = parameter
    BY <2>1 DEF ProbeVectors
  <2>5. BindingInv' BY <2>2, <2>3, <2>4, BindingStays
  <2>6. ResultInv' BY <2>3, <2>4 DEF TimelyInv, ResultInv, FactorialCorrect
  <2>7. Calm => Calm' BY <2>1, BinderCalm DEF ProbeVectors, irqVars, memVars
  <2>8. QED BY <2>2, <2>5, <2>6, <2>7, BinderKeepsTimely
<1>8. QED BY <1>1, <1>2, <1>3, <1>4, <1>5, <1>6, <1>7

\* The acknowledgement of pending interrupts by probe and remove.
LEMMA BinderAckKeepsTimely ==
  ASSUME TypeInv, SafetyInv, TimelyInv, AckRead(Binder) \/ AckWrite(Binder)
  PROVE  TimelyInv'
<1>1. BinderMove(Place(Binder), Place(Binder))
  BY BinderAckMoves
<1>2. /\ pc[Binder] \in {"ack_read", "ack_write"}
      /\ UNCHANGED <<edu, bindVars, irqHandler, pciVars>>
  BY DEF AckRead, AckWrite, Step, Goto, WriteIrqAck, deviceVars
<1>3. Place(Binder) \in {"probe_vectors", "rm_master", "rm_sync"}
  BY <1>2 DEF TimelyInv, BindingInv, Place
<1>4. BindingInv'
  BY <1>1, <1>2, <1>3, BindingStays DEF bindVars, pciVars
<1>5. ResultInv' BY <1>2 DEF TimelyInv, ResultInv, FactorialCorrect, bindVars
<1>6. Calm => Calm' BY <1>2, WritesKeepCalm DEF AckRead, AckWrite
<1>7. QED BY <1>1, <1>3, <1>4, <1>5, <1>6, BinderKeepsTimely

-----------------------------------------------------------------------------
(* The theorems.                                                           *)

\* The device is calm before anyone opened a file.
LEMMA TimelyInit == ASSUME Init PROVE TimelyInv
<1>1. /\ \A t \in Tasks : pc[t] = "idle" /\ Place(t) = "idle" /\ loc[t] = FreshLocals
      /\ pc[Binder] = "unbound" /\ Place(Binder) = "unbound"
  BY DriverAssumption DEF DriverAssumption, Init, DriverInit, Place
<1>2. CallsInv
  BY <1>1 DEF CallsInv, CallShape, FreshLocals, InCritical, Critical, FactLabels, TrigLabels,
              DmaLabels, RemoveLabels
<1>3. CalmInv
  BY DEF Init, DeviceInit, DriverInit, CalmInv, Calm, ThreadIdle, DmaRunning, Unasserted, HandlerDone
<1>4. BindingInv BY <1>1 DEF BindingInv, MasteredPlaces
<1>5. ResultInv BY DEF Init, DriverInit, FreshEdu, ResultInv, FactorialCorrect
<1>6. QED BY <1>2, <1>3, <1>4, <1>5 DEF TimelyInv

\* A step of nobody.
LEMMA StutterKeepsTimely ==
  ASSUME TypeInv, SafetyInv, TimelyInv, UNCHANGED vars PROVE TimelyInv'
<1> USE DEF vars, driverVars
<1>1. \A p \in Procs : /\ pc'[p] = pc[p] /\ loc'[p] = loc[p] /\ Place(p)' = Place(p)
                       /\ InCritical(p)' <=> InCritical(p)
  BY DEF Place, InCritical
<1>2. CallsInv'
  BY <1>1, PhaseStays DEF TimelyInv, CallsInv, CallShape, bindVars
<1>3. CalmInv'
  BY DEF TimelyInv, CalmInv, Calm, ThreadIdle, DmaRunning, Unasserted, HandlerDone, deviceVars,
         irqVars, factVars, memVars, irqHandler
<1>4. BindingInv' /\ ResultInv'
  BY <1>1 DEF TimelyInv, BindingInv, ResultInv, FactorialCorrect, deviceVars, pciVars, bindVars
<1>5. QED BY <1>2, <1>3, <1>4 DEF TimelyInv

\* Every step.
LEMMA NextKeepsTimely ==
  ASSUME Unraced, TypeInv, SafetyInv, TimelyInv, [Next]_vars PROVE TimelyInv'
<1>1. CASE \E t \in Tasks : TaskStep(t) BY <1>1, TaskKeepsTimely
<1>2. CASE IrqHandler \/ FactStep \/ TimerStep BY <1>2, LateKeepsTimely DEF LateStep
<1>3. CASE Remove \/ BinderStep \/ Lock(Binder) \/ \E h \in Handles : Probe(h)
  BY <1>3, RemoveKeepsTimely, ReleaseKeepsTimely, ProbeKeepsTimely DEF BinderStep
<1>4. CASE AckRead(Binder) \/ AckWrite(Binder) BY <1>4, BinderAckKeepsTimely
<1>5. CASE UNCHANGED vars BY <1>5, StutterKeepsTimely
<1>6. QED BY <1>1, <1>2, <1>3, <1>4, <1>5 DEF Next, TaskStep

\* The inductive invariant, while the waits are long enough: at every label of
\* a call, what the device, the handler and the call itself have done so far.
THEOREM TimelyInvariant == ASSUME Unraced PROVE Spec => []TimelyInv
<1>1. Init => TimelyInv
  BY TimelyInit
<1>2. TypeInv /\ SafetyInv /\ TimelyInv /\ [Next]_vars => TimelyInv'
  BY NextKeepsTimely
<1>3. QED BY <1>1, <1>2, Safety, PTL DEF Spec

\* A result that factorial_show prints is the factorial of the number beside it:
\* the wait is over only when the thread has stored its product, although the
\* register holds the operand before and both are read through one register.
THEOREM FactorialIsCorrect == ASSUME Unraced PROVE Spec => []FactorialCorrect
<1>1. TimelyInv => FactorialCorrect
  BY DEF TimelyInv, ResultInv
<1>2. QED BY <1>1, TimelyInvariant, PTL

\* A write to trigger_irq that returns success has been counted exactly once,
\* with its own mask, for every mask and whatever the calls before it left.
THEOREM TriggersAreDelivered == ASSUME Unraced PROVE Spec => []TriggerDelivered
<1>1. TypeInv /\ TimelyInv => TriggerDelivered
  <2>1. SUFFICES ASSUME TimelyInv, NEW t \in Tasks,
                        pc[t] = "unlock", loc[t].file = "trigger_irq", loc[t].ret = "ok"
                 PROVE  /\ edu.irq_count = (count_at_lock + 1) % CountModulus
                        /\ edu.last_irq_status = loc[t].mask
    BY DEF TriggerDelivered
  <2>2. InCritical(t) BY <2>1 DEF InCritical, Place, Critical
  <2>3. QED
    BY <2>1, <2>2 DEF TimelyInv, CallsInv, Phase, TriggerPhase, CountedLast, Counted
<1>2. QED BY <1>1, TimelyInvariant, Safety, PTL

\* A transfer that can reach memory is one a call waits for.
LEMMA TransferIsAwaited ==
  ASSUME TypeInv, SafetyInv, TimelyInv, DmaRunning
  PROVE  \E t \in Tasks : pc[t] = "dma_wait" /\ DmaUsable(t) /\ SourceSet(t) /\ DestinationSet(t)
                          /\ dma.cmd = Command(t) /\ dma.cnt = loc[t].value
<1>1. PICK t \in Tasks : pc[t] \in WaitLabels
  BY DEF TimelyInv, CalmInv, Calm
<1>2. InCritical(t) /\ Phase(t) /\ Place(t) = pc[t]
  BY <1>1 DEF WaitLabels, InCritical, Place, Critical, FactLabels, TrigLabels, DmaLabels, TimelyInv,
              CallsInv
<1>3. pc[t] # "fact_wait"
  BY <1>2 DEF Phase, FactorialPhase, FactorialWaiting, Underway, Calm
<1>4. pc[t] # "trig_wait"
  BY <1>2 DEF Phase, TriggerPhase, TriggerWaiting, Underway, Calm
<1>5. pc[t] = "dma_wait" /\ DmaWaiting(t)
  BY <1>1, <1>2, <1>3, <1>4 DEF WaitLabels, Phase, DmaPhase
<1>6. DmaUsable(t) BY <1>2, <1>5, PathIsUsable DEF DmaLabels
<1>7. QED BY <1>5, <1>6 DEF DmaWaiting, Underway, Calm

\* A round trip that succeeds has had its two interrupts and moved its data;
\* only the forced missing completion faults a binding; and the addresses a
\* running transfer uses are those of the coherent buffer and of the device's,
\* so that neither bounds check of the device ever decides anything.
THEOREM DmaIsSound == ASSUME Unraced PROVE Spec => []DmaSound
<1>1. TypeInv /\ SafetyInv /\ TimelyInv => DmaSound
  <2>1. SUFFICES ASSUME TypeInv, SafetyInv, TimelyInv PROVE DmaSound
    OBVIOUS
  <2>2. ASSUME NEW t \in Tasks,
               pc[t] = "unlock", loc[t].file = "dma_roundtrip", loc[t].ret = "ok"
        PROVE  /\ edu.irq_count = (count_at_lock + 2) % CountModulus
               /\ edu.last_irq_status = {"dma"}
               /\ \A i \in 0 .. loc[t].value - 1 : dev_buf[i] = ram[edu.dma_handle][i]
    <3>1. InCritical(t) BY <2>2 DEF InCritical, Place, Critical
    <3>2. CountedLast(2, {"dma"}) /\ DevHasPattern(t) /\ RamHasPattern(t)
      BY <2>1, <2>2, <3>1 DEF TimelyInv, CallsInv, Phase, DmaPhase
    <3>3. QED BY <3>2 DEF CountedLast, Counted, DevHasPattern, RamHasPattern
  <2>3. ASSUME DmaRunning, bus_master
        PROVE  /\ buffer_live
               /\ \E t \in Tasks : InCritical(t) /\ loc[t].file = "dma_roundtrip"
               /\ dma.src = IF "to_ram" \in dma.cmd THEN DevStart ELSE edu.dma_handle
               /\ dma.dst = IF "to_ram" \in dma.cmd THEN edu.dma_handle ELSE DevStart
               /\ dma.cnt \in 1 .. BufSize
               /\ edu.dma_handle + dma.cnt - 1 <= AddrMask
    <3>1. PICK t \in Tasks :
            /\ pc[t] = "dma_wait" /\ DmaUsable(t) /\ SourceSet(t) /\ DestinationSet(t)
            /\ dma.cmd = Command(t) /\ dma.cnt = loc[t].value
      BY <2>1, <2>3, TransferIsAwaited
    <3>2. InCritical(t) /\ Place(t) \in DmaLabels
      BY <3>1 DEF InCritical, Place, Critical, DmaLabels
    <3>3. loc[t].file = "dma_roundtrip"
      BY <2>1, <3>2 DEF TypeInv, CallInv, CallOK
    <3>4. Place(Binder) \in {"bound", "rm_drain"} BY <2>1, <3>2, OneInside
    <3>5. buffer_live BY <2>1, <3>4 DEF SafetyInv, ResourceInv
    <3>6. /\ dma.src = IF "to_ram" \in dma.cmd THEN DevStart ELSE edu.dma_handle
          /\ dma.dst = IF "to_ram" \in dma.cmd THEN edu.dma_handle ELSE DevStart
      BY <3>1 DEF SourceSet, DestinationSet, Command
    <3>7. /\ dma.cnt \in Nat /\ dma.cnt # 0 /\ dma.cnt <= BufSize
          /\ BufSize \in Nat /\ AddrMask \in Nat /\ edu.dma_handle \in Nat
      BY <3>1, BufferAssumption, DriverAssumption
         DEF DmaUsable, DmaAccepts, BufferAssumption, DriverAssumption
    <3>8. edu.dma_handle + BufSize - 1 <= AddrMask
      BY <2>1, <3>4 DEF TimelyInv, BindingInv
    <3>9. dma.cnt \in 1 .. BufSize /\ edu.dma_handle + dma.cnt - 1 <= AddrMask
      BY <3>7, <3>8
    <3>10. QED BY <3>2, <3>3, <3>5, <3>6, <3>9
  <2>4. QED
    BY <2>1, <2>2, <2>3 DEF DmaSound, TimelyInv, ResultInv
<1>2. QED BY <1>1, TimelyInvariant, Safety, PTL
=============================================================================
