# A verification of the Yocto + QEMU EDU driver lab

The lab is a small board support package: a PCI driver and a platform driver
for two educational devices of QEMU, the recipes around them, and the Python and
shell programs that fetch the pinned sources, configure a build directory, run
one direct-eSDK application iteration, and publish evidence of what was built
and tested. The TLA+ modules here model the parts that keep state and can go
wrong in ways a test hardly reaches: the drivers, whose sysfs writers, interrupt
handler, device and removal run concurrently, and the host programs that change a
build root step by step and must leave it, after any failure, signal or loss of
power, in a state they can answer for; and the programs that judge afterwards: the
evidence collectors, the diagnostics, the reader of the lab catalog and the trust
verdict, which look at files and a repository that others go on changing.

Every definition is translated from the code; `PROJECT.json` gives the lines
each one stands for. The documentation (`README.md` and `docs/` of the repository)
is only used for what the code is supposed to do, in the properties.

## 1. The system

| Component | Source | State | Operations | Status |
|---|---|---|---|---|
| PCI driver | `qemu_edu.c` | `struct qemu_edu`: the mutex, three completions, counters, results, the DMA buffer and its fault flag; what is registered with the kernel | four sysfs stores, the interrupt handler, probe, remove, devres release | modelled, proved about |
| EDU device | QEMU's `edu.c`, and the DMA bounds backport | registers, interrupt status and line, factorial thread, DMA timer | MMIO reads and writes, the thread, the timer | modelled as the driver uses it |
| Platform device and driver | `qemu_edu_platform.c`, patch 0002, `qemu-edu-platform-test` | interrupt status and line, scratch, counter, last status | two stores, the handler, probe, remove, device reset; the tool's raise and scratch commands | modelled, proved about |
| SDK iteration controller | `sdk_iteration.py`, `sdk-test.sh` | the attributes of `DirectSdkIteration`, the build root, the evidence file, child processes, the emulator, signal handlers | `execute`, its cleanup, `CommandRunner`, `BootSession`, `DeferredCancellation`, publication | modelled, proved about |
| Build configuration | `configure_build.py` | `bblayers.conf`, `local.conf`, `.qemu-edu-config/conf/local.conf` | `configure`, `configure_sdk` | modelled: the first with setup, the second as the controller uses it |
| Source lock | `source_lock.py`, `setup.sh`, `environment.sh` | one Git worktree per locked repository | preflight, fetch, checkout, validation, offline and check modes | modelled, proved about |
| SDK evidence, tooling | `sdk_evidence.py`, `sdk_tooling.py` | the evidence file | write, clear, validate | as steps of the controller |
| Runtime evidence | `runtime_evidence.py`, `platform_runtime_evidence.py`, `runtime-test.sh` | test output, evidence file | build, test, collect, validate | modelled, proved about |
| SBOM evidence | `sbom_evidence.py`, `sbom-evidence.sh` | evidence file | verify, clear, create, analyse the SPDX graph, write, validate, withdraw | modelled, proved about |
| Diagnostics | `diagnostics.py`, `diagnostics_git.py`, `diagnostics_inputs.py`, `qemu-edu-lab` | none between runs | four commands, the document and its validator, safe reading of inputs, bounded calls of tools | modelled, proved about |
| Repository trust | `repository_trust.py` | none between runs | `validate`, `evaluate` | modelled, proved about |
| Lab catalog | `lab_config.py` | none between runs | read, validate, select | modelled, but for the two printing commands; proved about |
| Validators of the repository | `validate_ci.py`, `validate_workflow.py`, `verify_qemu_security.py`, `verify_diagnostics_schema_lock.py` | none | text and schema checks | not modelled (section 10) |
| OEQA suites, recipes, guest tools, schemas | `meta-qemu-edu/`, `schemas/` | none | | not modelled (section 10) |

How they interact: user tasks call the driver through sysfs files, which exist
while the driver is bound; the driver and the device share the registers, the
DMA buffer and one interrupt vector. `sdk-test.sh` starts the controller, which
calls the configuration, runs BitBake and devtool as child processes, talks to
the emulator over ssh, and hands over to `sdk_evidence.py` at the end. The
evidence programs read what the builds and tests have left.

### What is hard, and what makes each part correct

* **PCI driver.** Writers of different files, removal, the handler and the
  device interleave at every register access; the machine has four CPUs. Waits
  end by completion, by timeout or by a signal, and the device goes on working
  after them. Correct means: the files show results of their own requests, one
  request is one counted interrupt (two for a round trip), a fault stops DMA for
  the rest of the binding, and whatever is torn down is torn down after its last
  use.
* **SDK controller.** Signals arrive between any two steps, while several nested
  deferrals restore each other's handlers; commands fail half-way; each step of
  the cleanup can fail and the others must still run; the host may lose power and
  the next run finds what is left. Correct means: passing evidence exists only
  for a restored build root, a failed or cancelled run leaves none, what was not
  restored was reported, and nothing keeps running.
* **Platform driver.** The handler and the stores share `last_irq_status` and the
  counter without a lock; a level interrupt raised between read and acknowledge
  merges with the one being handled.
* **Setup.** Each repository goes through init, remote, fetch and checkout, and a
  crash between two of them leaves a worktree that the next run classifies; two
  invocations or the user may be in the same worktree. Correct means: what is the
  user's is never moved or lost, success means the locked sources, and as few
  failures as possible end in a worktree that is refused for ever.
* **Evidence.** A document is built by one table and judged by another, in three
  schema versions; the tree is asked for its state long after it was built; an
  earlier run's file lies where this one's goes. Correct means: the two tables
  agree, a run that exits 0 leaves its own document of what it tested, and the SBOM
  evidence of an earlier run is gone before anything can fail.
* **Diagnostics.** Every check reads its own input, and inputs change between two
  checks; the finished document is judged by rules written a second time. Correct
  means: the validator refuses no document the checks can lead to, exit 0 means passing
  evidence, what is read is one content of one regular file, and a tool that hangs,
  floods or leaves a helper neither blocks the answer nor survives an error.
* **Catalog, trust.** The catalog is several files read one after the other, and labs
  must not share a build directory or a machine in any order of the index; a verdict
  must not pass on what it has not seen, nor on a contact inside a comment, and must
  be about one observation though its owner refreshes it during the reading.

## 2. The plan

1. `EduDevice`, `QemuEdu`: the PCI driver over its device (done), with
   `QemuEduProofs` and `QemuEduTimelyProofs` (done).
2. `SdkIteration` with the abstract `SdkContract` it implements (done), with
   `SdkIterationProofs` (done).
3. `QemuEduPlatform`: the platform device and driver, with the guest tool as its
   client (done), with `QemuEduPlatformProofs` (done).
4. `Setup`: `setup.sh` over the worktree states and the build directory, with
   concurrent invocations, crashes, a moving upstream and the user (done), with
   `SetupProofs` (done).
5. `ToolInvoke`, `SafeRead`, `Diagnostics`: the diagnostics from the inside out (done),
   with `DiagnosticsProofs` (done).
6. `ProjectTree`, with `RuntimeEvidence` and `SbomEvidence` over it; `LabCatalog`;
   `RepositoryTrust` (done), with `EvidenceProofs` and `LabCatalogProofs` (done).
7. Left: `EduContract`, an abstract driver (requests served one at a time, each with one
   outcome), implemented by `QemuEdu` where the theorems of `QemuEduTimelyProofs` hold.

Every invariant and every action property of a passing run is the subject of a theorem;
what is left to the checker alone is liveness, and what `ContactRead` says of bounded
texts (section 8).

## 3. The PCI driver: `EduDevice`, `QemuEdu`

`EduDevice` holds the device: the interrupt status and the two ways it is
delivered (an MSI message in flight, or the level of the INTx line), the command
bits for bus mastering and MSI, the factorial thread and its register, the DMA
engine, the device's buffer and the guest memory at the coherent buffer's bus
addresses. Register writes are operators that constrain the primed device
variables (`WriteStatus`, `WriteIrqAck`, ...); the factorial thread and the DMA
timer are its own steps. `InDeviceBuffer` and `DmaTimer` are the range check and
the timer of the backported patch; the rest of the device is external code and is
modelled from the registers the driver touches.

`QemuEdu` extends it with the driver. `edu` is `struct qemu_edu`,
`operation_lock` its mutex, `irq_pc` and `irq_val` the handler and its local
status, `pc` and `loc` the control and the locals of every process. The processes
are the tasks, which write sysfs files, and `Binder`, which probes and removes
the driver. A step ends wherever another process could see or change what the
code does next: at each access of a device register, of a completion, and of a
field of `struct qemu_edu` that is shared. So `factorial_store` is seven steps
plus the lock, and the handler is seven steps from its entry to its last
`complete`, in the order of the code (acknowledge first, record, complete
`factorial_done`, `dma_done`, `any_irq_done`). `qemu_edu_ack_pending_irqs` is a
small subroutine with its own two labels and a return label in `loc`. Probe has a
failing alternative at each of its later steps, which enters the chain of devres
releases where that step's predecessors are released. The show functions format
fields under the mutex and change nothing; they have no actions.

Abstractions: an operand is one of a few numbers, an interrupt mask is a set of
bits, a buffer is two cells whose contents name the pattern and the length it
was made for, `irq_count` wraps at `CountModulus`, time is replaced by `Timely`
(see below). A step that fails in probe before bus mastering leaves nothing and
is omitted. Removal takes the mutex with its own local status.

Assumptions are parameters. `OneCpu` stops every process while the handler runs.
`Timely` says that two seconds are more than an operation in progress takes, so
a wait expires only when nothing can complete it any more. `Signals` lets a signal
end an interruptible wait at any moment.

| Run | Instance | Checks and shows |
|---|---|---|
| `edu_commands` | 2 tasks (symmetric) and the Binder, several CPUs, liveness, factorial, DMA, `Timely`, no signals | `TypeOK`, `MutualExclusion`, `FactorialCorrect`, `FactorialIrqOnlyDuringOperation`, `DmaSound`: results belong to the request that shows them; a round trip takes exactly two interrupts, moves only between the coherent buffer and the device's, and leaves the pattern in both |
| `edu_faults` | 1 task and the Binder, trigger and DMA, signals, timeouts at any moment, every interrupt policy, failing probes, handles inside and outside the mask | `FaultStopsBusMaster`, `FaultedStaysFaulted`, `HandlerOnlyWhileRegistered`, `QuietWhenUnbound`: the driver fails closed and tears down in order, whatever happens |
| `edu_one_cpu` | 1 task and the Binder, one CPU, the DMA completion suppressed, weak and strong fairness | `TriggerDelivered`, `CallsReturn`, `StatusAcknowledged`: a successful trigger was answered by its own interrupt, every call and removal ends, and no raised status stays unacknowledged |
| `edu_trigger_race` | 2 tasks, several CPUs | finding: `TriggerDelivered` fails |
| `edu_factorial_signal` | one CPU with signals | finding: `FactorialCorrect` fails |

Bounds. Two tasks are enough to have a holder and a waiter of the mutex, and two
consecutive requests whose late interrupts can meet; the Binder adds removal as a
third contender. Lengths cover zero (refused), the whole buffer and one more than
it (refused); inputs cover an accepted operand and thirteen. `edu_commands`
leaves out `trigger_irq`, because with it and several CPUs the finding
`edu_trigger_race` breaks most of these properties: a stale completion of
`any_irq_done` lets a handler outlive its request. (The same race with a
factorial request behind it shows an intermediate value as the factorial, and with
a DMA request behind it faults the binding.) `edu_faults` runs one task because
its properties concern a binding, not competition for the mutex; the theorems
cover any number. The liveness run has one task because the behaviour graph with
two is too large for the checker's liveness search; competition with removal is
in it. `CountModulus` 4 distinguishes two increments from none; `edu_faults` does
not look at the counter and gives it one value.

Fairness (`FairSpec`): the device's thread and timer and a deliverable interrupt
are weakly fair; a process inside the kernel is strongly fair for its own steps,
for it is disabled whenever the handler interrupts its CPU; the mutex is strongly
fair because the kernel's mutex hands itself over to a waiter that has waited too
long. Nothing makes a task write, a signal come or the module load.

### Proved

`QemuEduProofs` proves for all values of the constants that satisfy
`BufferAssumption` and `DriverAssumption` (any set of tasks, any buffer and
device buffer, any mask, any parameters, one or several CPUs, with and without
signals and timeouts):

* `TypeCorrect`: `Spec => []TypeOK`. The type invariant is not inductive alone:
  that `factorial_input` is an operand needs that a task in `factorial_store` was
  let in by its range check (`CallInv`), that a label of a function is only
  reached by calls of that function, which the return label of
  `qemu_edu_ack_pending_irqs` has to respect (`PlacesInv`), and that the thread
  computes on an operand (`ThreadInv`). `TypeInv` is the conjunction.
* `Safety`: `Spec => [](TypeInv /\ SafetyInv)`. `LockInv` says that who is in the
  critical section owns the mutex; `DrainInv` that tasks are in the driver only
  while it is bound or draining; `ResourceInv` relates the Binder's place to each
  resource between its acquisition and release; `FaultInv` says that on a faulted
  path nobody is at a place from which a transfer can be set up. The last one
  needs the second and the first: a task past the fault check is the only one in
  the critical section.
* `OperationsAreSerialised`, `FactorialIrqIsScoped`, `FaultCutsBusMaster`,
  `HandlerHasBinding`, `UnboundIsQuiet` follow from it, and `FaultIsFinal` is an
  action property proved from the same invariant, by the kind of step.

The proofs first show that a step inside a store function touches one process
only (`Inside`, `Boundary` lemmas), then treat tasks, handler, device and Binder
one lemma each. Liveness is out of the prover's reach and stays with TLC, as are
facts about `Factorial`, a function defined by recursion: the proofs only use its
range, and that the device computes it.

`QemuEduTimelyProofs` proves what a write that succeeds has achieved, again for any
tasks, buffers and parameters, under the hypothesis `Unraced`: the waits are long
enough (`Timely`), no signal ends one, and nobody writes to `trigger_irq` while a
second CPU can run the handler. `edu_commands` and `edu_one_cpu` are instances that
satisfy it, the two findings are what happens without it:

* `FactorialIsCorrect` (`FactorialCorrect`), `TriggersAreDelivered`
  (`TriggerDelivered`) and `DmaIsSound` (`DmaSound`), from `TimelyInvariant`.
* The invariant `TimelyInv` follows an operation from its start to the completion
  that ends its wait. `Calm` says that nothing which could still reach a waiter is on
  its way; it holds whenever no task waits (`CalmInv`), and that is what each of the
  three hypotheses is needed for. `Underway(bits, through)` says where the one
  interrupt of an operation can be: raised, in the handler's hand before or after the
  acknowledgement, or at a step from which the handler still completes. `CallsInv`
  says, for every label of a store, which registers it has written, what the buffers
  hold, and how often `irq_count` has gone up since the mutex was taken. `BindingInv`
  has the coherent buffer within the device's mask, without which the timer would
  refuse the copy. `ResultInv` is what the structure remembers of calls that are over.
* A step of the handler, of the thread or of the timer moves the interrupt along
  (`UnderwayMoves`, `TimerFires`, `LateKeepsTimely`); a step of the one store that is
  inside moves its label along (`Advance`, one lemma per store); the Binder moves only
  when no store is inside.

## 4. The SDK iteration: `SdkIteration`, `SdkContract`

One behaviour is a sequence of runs of the controller on one build root. `Body` is
the text of `execute` as a sequence of step names, `pc` the step about to be done,
`child` the state of the command it waits for (not started, forked, watched,
given up on), `it` the attributes of `DirectSdkIteration`, `cl` the locals of the
cleanup, `exc` the exception in flight. The world outside is `build` (the
workspace layer, the raw configuration as `_configuration_state` classifies it,
devtool.conf, the IDE output in both places, the learner's source), `evidence`,
`qemu`, `target` and `lost`, the processes nobody will stop.

The body's steps are actions of their own where the code decides something
(`Recover`, `Prepare`, `Activate`, `Source`, `BootReady`, `Stopped`, ...) and
instances of `Spawn`, `Watch`, `CommandSucceeds`, `CommandFails` where it runs a
command; `Results` and `Remains` say what each command leaves when it succeeds
and when it fails, which is any mixture a half-finished command may leave. The
cleanup is one action per step of `_cleanup_development_state_uninterrupted`, each
of which may fail and then records its label in `cl.failures`; the finalization
and the publication follow. Signals: before the `finally` clause the handler of
`main` raises; inside a deferral they are recorded; `DeferredCancellation` of the
cleanup, of the finalization and of `_terminate_process_group` raise or pass on as
in the code. Three windows of a few instructions, in which the code is in between
(after fork and before `try`; after the exception and before the deferral in
`_terminate`; after the entry of `finally` and before its deferral), are open only
where `Windows` names them.

Abstractions and what is left out: ports, file contents and digests are reduced to
what the checks decide; a workspace is absent, inert, active, `partial` (an
unfinished change of a devtool command) or `foreign` (something devtool does not
make). The unlink of the evidence and SIGKILL always work. A lost process ends
before the user starts the next run, after having had its effect. Failures and
signals in `main` before `execute` are not modelled, nor the attribute `deployed`,
which is set and never read. Whether the emulator publishes
a port the controller can parse is a choice.

| Run | Instance | Checks and shows |
|---|---|---|
| `sdk_safety` | any build root, two signals and two failures per run, loss of power, any number of runs | `EvidenceMeansRestored`, `RestoredOrReported`, `NothingLeftRunning` |
| `sdk_contract` | a fresh build root, the same bounds, the windows at fork and terminate open, weak fairness of the controller | `ImplementsContract` (the refinement of `SdkContract`), `RunEnds` |
| `sdk_finally_window` | the window at `finally` open | finding: `RestoredOrReported` fails |

`SdkContract` is the documentation's promise in four variables: a run publishes
only at rest and uncancelled, and fails only without evidence; every step of the
controller, a crash included, maps to one of its steps or to none.

Bounds: two signals per run are what the documentation distinguishes (the first
cancels, the repeated one is deferred); two failures let a step of the cleanup fail
after the failure that led to it; they are counted anew in each run, and the number
of runs is unbounded, so that every combination of leftovers is a starting point.
Fairness is weak fairness of the controller's own steps: a command either ends or
reaches its deadline, upon which its process group is killed.

### Proved

`SdkIterationProofs` proves the three safety properties and the refinement under
`SdkAssumption`, for any set of build roots and any number of signals and failures, with
and without loss of power. What it assumes of `Windows` is what the finding says:

* `PublishedIsRestored` (`EvidenceMeansRestored`) and `ContractKept`
  (`Spec => ImplementsContract`): no signal falls between the entry of the `finally`
  clause and its deferral. The windows at fork and terminate may be open.
* `NothingUnreported` (`RestoredOrReported`) and `NothingIsLeftRunning`
  (`NothingLeftRunning`): all three windows are shut, for a signal in one of the other
  two loses a process.

The inductive invariant `SdkInv` says what a reader of `execute` has in mind at each line.
`PlaceInv` is where the controller can be, and from where a cleanup was called. `KnownInv`
is what the text has established: after `create` a workspace exists, after the rename the
IDE output is retained, and a run marked complete has both. `EvidenceInv` says where
evidence can exist at all. `EmulatorInv` says that outside the stretch between fork and
assignment the session knows of a running emulator. `RestoredInv` says, for every place of the
cleanup, that what it has not restored so far it has recorded: it is what makes
`RestoredOrReported` inductive, and it holds only while no process is lost
(`Undisturbed`), for a lost one may still undo the cleanup. `VerdictInv` carries the
cleanup's failures through the `finally` clause to the verdict, and `LateInv` a signal to
the exception it becomes. The text's steps are treated together (`RaisedKeeps`,
`ProceededKeeps`), then the commands, the cleanups by step, the finalization, the signals
and the world. For the refinement each kind of step is shown to be one of `SdkContract`
or none (`ExecuteAllowed`, ..., `WorldAllowed`). `RunEnds` is liveness and stays with TLC.

## 5. The platform driver and its tool: `QemuEduPlatform`

The device is its pending bits and the scratch register; its line is high while a
bit is pending. The handler reads the status, acknowledges it, stores it in
`last_irq_status` and increments `irq_count`: four steps (`irq_pc`, `status`), between
which everybody else may move, for the driver takes no lock. `binder` is the place
of probe (acknowledge, request the interrupt, create the files) or of removal
(remove the files, wait for their writers, acknowledge, synchronize, release). A
user is a run of the guest tool: `raise` reads `interrupt_count`, writes the mask,
polls the count and prints `last_irq_status`; `scratch` writes the other file. `tool`
has the tool's shell variables and how it ended.

Histories: `recorded` counts stored statuses, `owed` the bits raised since they were
last stored, `rebound` says that the driver was removed since the tool began, and
`alone` that no other raise overlaps it.

Abstractions: the handler's stores become visible in their order (`atomic_inc` alone
does not order them on ARM64; under QEMU on an x86-64 host they do); the checks of
the identification in probe change nothing and are part of `Probe`. The tool gives up
only when nothing is pending and no handler is running: fifty attempts take five
seconds. When the driver disappears under a polling tool, the comparison of an empty
string with the count is an error, which ends the loop like a risen count does; if
the driver is back by then the tool prints the new binding's status and reports
success. `RaiseShowsItsMask` therefore speaks of raises during which the driver stays
bound (`~rebound`): there the tool shows its own mask and the count is one more than
the tool read first.

| Run | Instance | Checks and shows |
|---|---|---|
| `platform` | 2 users, 2 bits, a mask of zero and two that overlap, the driver bound and removed at any time | `TypeOK`, `QuietAfterRemoval`, `StatusNotOlderThanCount`, `NoRaiseSwallowed`, `RaiseShowsItsMask`, `EveryBitAcknowledged` |

Bounds: two users are a raise and another that merges with it or follows it within
the handler; two masks that share a bit distinguish a bit that is raised again from
one that is not. `MaxCount` bounds the count at which a raise is begun within one
binding; a new binding starts again at zero. Fairness: the handler, whose level
interrupt stays asserted until it has run; probe and removal once begun; a user
inside a store function. The users' shells are not fair.

### Proved

`QemuEduPlatformProofs` proves the five safety properties for any users, bits and
masks. Its inductive invariant `Inv` adds to the type invariant: `BindingInv` (writers
only while bound or draining, a quiet device at every other place of the binder),
from which `QuietAfterRemoval` follows; `RecordInv` (`recorded` is ahead of
`irq_count` by one exactly at the handler's last step, and what is `owed` is pending
or in the handler's hand); `WaitInv` (a polling tool's interrupt is pending, in the
handler, or counted), without which one cannot say that a tool never gives up in
vain; and `AloneInv`, which follows the mask of a tool that is alone through the
handler (`Underway`) to `last_irq_status` (`Handled`) and the count to one more than
the tool read. The steps of a tool change one
entry of `tool`, whose type is shown first; then each conjunct follows by the kind of
step. `EveryBitAcknowledged` is liveness and stays with TLC.

## 6. Setup: `Setup`

`setup.sh` checks or synchronizes the locked sources one after the other
(`sync_source`), runs `environment.sh`, which checks them again, and reconciles the
build directory with `configure_build.py`. A worktree is a record of what git tells of
it: `repo` (absent, a directory, a repository), `origin`, `head` and `attached`,
`partial` (a checkout that did not finish), `edited` (the user's files), `index_lock`,
and `refs`, what the project's own refs say of the last fetch: valid, a release tag
that was moved, or a branch that no longer contains the commit. `run` holds the locals
of each invocation; `has_head` is read in the preflight and used after the network, as
in the code. Each git command is an action; `git checkout` is two, for it holds the
index lock meanwhile. `Goto`, `Advance`, `Git` and `Configure` are the frames: a step of
the run alone, of its worktree, of the build directory. `Render` reads `local.conf`,
`TruncateLocal` and `WriteLocal` write it in place.

`Kill` ends an invocation anywhere, together with the command it waits for, or stands
for a command that fails half-way; `HalfDone` says what git may leave. `UserChanges`
edits and commits, `MoveAside` is what `docs/source-lock.md` tells the operator to do.
Histories: `touched`, the sources the user has changed since a run's preflight of them;
`hurt`, those in which a run was killed within `git init`, before `git remote add` or in
a checkout, or the user has worked; `torn`, that `local.conf` was half written.

| Run | Instance | Checks and shows |
|---|---|---|
| `setup` | 1 source, 2 invocations (symmetric) in every mode, five worktrees at first, failures and kills anywhere, the user at work | `TypeOK`, `SuccessMeansReady`, `RefusedOnlyWhenHurt`, `LinesKept`, `UserWorkKept`, `ReadyIsStable` |

Bounds: sources share nothing and a run is at one of them at a time, so that two
invocations meet in one source or not at all. One source with two invocations has the
interleavings, and the theorems cover any number of both; the number of starts is not
bounded. Two setups of different labs in one
build directory are not modelled: the rendered block is the same for all.

No fairness and no liveness: a fetch has no deadline, and setup promises none.

What the run shows besides: an invocation killed before `git remote add`, or in a
checkout, leaves a worktree that every later setup refuses until it is moved aside,
which is the documented policy. `local.conf` is truncated before it is written: a kill
in between loses the user's lines, and a second setup at that moment reads an empty file;
`LinesKept` says that nothing else loses them. A commit made between the preflight and
the checkout of a worktree that had no `HEAD` is detached from (`UserWorkKept` excepts it
by `touched`). Objects of a fetch whose proof failed stay, and `--offline` then checks
them out without a proof: the locked commit is still the one that is checked out.

### Proved

`SetupProofs` proves all six properties of the run for any sequence of sources, any
number of invocations, and any worktrees found at first (`SetupAssumption`: a directory
that is not there has no content). The inductive invariant `Inv` adds to the type
invariant: `ReadyInv` (who has passed `environment.sh` has seen every source ready, and
those the user left alone still are), `CheckoutInv` (a run that saw no `HEAD` in the
preflight finds none of the user's at the checkout, unless `touched` says so), `HurtInv`
(a source that is not `hurt` is absent or on its way to the locked worktree, and if
something is half done in it, the run that does it is still there), and `LinesInv` (who
has read `local.conf` holds the user's lines). The proof groups the steps: those that
change nothing but the run's locals satisfy `Harmless`, git's commands satisfy `Proper`,
and one lemma each shows that such a step keeps the invariant; the configuration, the
start, a kill (`HalfDoneTyped`) and the user have a lemma of their own. `ReadyStays` and
`WorkIsKept` are action properties, proved from the same invariant and `TreeSteps`: a
worktree changes only by the user, by a proper git command, or by a kill.

## 7. Diagnostics: `Diagnostics`, `SafeRead`, `ToolInvoke`

The three modules are the same programs at three grains; no state is shared between
them, since what one grain promises the coarser one assumes.

`Diagnostics` is one run of `qemu-edu-lab`. `statuses` is `Context.statuses`, `ctx` the
other fields of `Context`, `SEQUENCES` the fixed order of each command's checks, `Turn`
the check whose turn it is. A check that has its own logic is an action
(`LabCatalog`, `EvidenceInputs`, ...); `Look` is one that only looks. Each reads its input
afresh, so what it finds is any status its code can give, whatever the others found:
this is how inputs that change between two checks come in. What two checks share they
share through `ctx`, like the Git executable that `repository.git` and `tool.git` look
at once (`GitStates`). `Finish` builds the document and judges it by `ValidDocument`,
the translation of `validate_document`, which is code of its own. There are two ways to
the "internal diagnostic failure" of `main`: a document the validator refuses
(`Finish`), and a check that lets an exception out (`CheckRaises`), which every check
that looks at a file or asks a program may do when its turn comes (`Looks`).

`SafeRead` is the end of `_safe_path` and `read_regular` by system calls: `resolve`,
`lstat`, the second `lstat` of `_is_reparse`, `open`, `fstat`, the bytes one after the
other, the second `read`, the second `fstat`. Between any two of them others write in
place, replace the file under its name (with a new inode or one that has become free),
or put a link, a loop of links, a directory or nothing there. A read ends `returned`,
with one of the two errors the callers handle (`unavailable`, `contract`), or `raised`:
the `RuntimeError` of a loop, the `OSError` of the second `lstat`, of `fstat` or of
`read` pass through every handler, and are where `CheckRaises` comes from. `ToolInvoke` is `invoke` of
`diagnostics_git.py` by threads: `main` waits, joins and closes, `drain` reads, counts
and kills; the tool starts a helper, writes, closes its output and exits as it likes,
and owes nothing. `CloseStdout` waits for the lock of the thread that reads.

| Property | What it says |
|---|---|
| `DocumentsValid` | once every check has given its status, the validator accepts the document: the only internal failures are exceptions that a check lets out before all are made |
| `ZeroMeansPassingEvidence` | `doctor` or `evidence` with exit 0 has read evidence of a clean passing suite for what it read of the project; "pass" also binds revision and catalog |
| `ReadIsWhole` | what a read returns is the whole content of one regular file |
| `InvokeContained` | when a call ends, nothing holds the pipe; after an error nothing runs; an output returned is complete |
| `InvokeReturns` | every call ends |

Bounds: both labs of the catalog, every `--lab` argument there is a rule for, and
evidence documents that differ from a current passing one in one field, or for the
ARM64 lab in the revision and one of the catalog's, which is what the two rules on them
can tell apart. One locked source and one build file stand for the eight and the two:
their checks have no logic in common. A read of at most two units, with three changes,
has a change before, within and after the reading. A tool with a limit of two chunks
writes up to four: enough to overflow and go on. Fairness: the two threads are
scheduled and their timeouts expire (weak fairness of `MainStep` and `DrainStep`).

### Proved

`DiagnosticsProofs` has one part for each of the three modules.

* `CallContained` (`InvokeContained`), for any limits. The inductive invariant says that
  only the group's processes hold the pipe; that a drain that is done by the end of the
  file leaves nobody on the pipe; that output and chunks taken agree up to the one in the
  thread's hand; and that the main thread is past a kill at every place from which it
  will report an error, at which no process is left to start another.
* `WholeContentRead` (`ReadIsWhole`), for any limit and any changes: `ClockInv` says that
  every file's time stamp is not later than the clock, so that a change gives it one that
  nobody has seen; `PrefixInv` that, while the opened file still has the time stamp of
  the first `fstat`, what has been read is the beginning of its content.
* `ReportsAreValid` (`DocumentsValid`) and `ZeroIsEarned` (`ZeroMeansPassingEvidence`),
  for any labs, any locked sources and build files, any evidence documents, and whatever
  changes between two checks. `NamesAssumption` says that the sources and the build files
  have different names, none of them one of the fixed checks: the code names them
  `source.<name>` and `build.<name>`. `EvidenceAssumption` says that exactly the ARM64
  lab's documents have the catalog's digests.

  The validator and the checks were written separately, so the argument has two halves.
  Of the order: `Arrangements` says that every command's sequence makes a check once and
  after the checks it depends on, and `Recorded` that the checks made are always the
  first of the sequence (`ChecksInv`). From this follows that a status, once judged by,
  is never written again. Of the contents: `FoundInv` is what each check can find,
  `ProjectInv` and `EvidenceInv` what the statuses say of `ctx` (a digest is known
  exactly when its check passed, a document exactly when there was one), `DependInv` that
  a blocked check is unavailable, and `JudgedInv` that what a derived check says of
  others is still true. `DiagInv` is their conjunction (`DiagInvariant`); each check has a
  lemma (`LabCatalogKeeps`, `EvidenceSubjectKeeps`, ...). `TransitionsValid` and
  `DocumentIsValid` go through the validator's rules one by one for the document of a
  complete run. What a check raises cannot be taken for a refused document: `TurnIsLeft`
  shows that the check whose turn it is has no status yet, so that a run it ends is not
  complete (`OutcomeInv`).

`InvokeReturns` is liveness and stays with TLC.

## 8. Evidence, catalog, trust: `ProjectTree`, `RuntimeEvidence`, `SbomEvidence`, `LabCatalog`, `RepositoryTrust`

`ProjectTree` is the repository the evidence speaks of: a working tree, commits, HEAD,
and the user who edits, commits and checks out. `content.valid` says whether the lab
catalog in it validates; an edit may break it. Every program that selects a lab starts
by validating it, and fails when it does not.

`RuntimeEvidence` is `runtime-test.sh` with the collector of either lab. `run` is the
script: its phase, what the image was built and tested from, the two exit statuses, the
revision and cleanness as they were queried. `Build...` translates `build_evidence`,
`Valid...` and `Passes...` the validators, each with its own table from test cases to
claims (`PciClaims`; `NegativePaths`, `InterruptPaths`, `DmaPaths`). The write truncates
and then fills, as `write_text` does. `ValidateStored` asks either tool about any document,
those of the two older schemas included. `SbomEvidence` is `sbom-evidence.sh`:
`AnalyzeGraph` is `analyze_graph` and what it calls, over a graph reduced to what they
look at; `Project` is the document; `CurrentSbom` the validation with the options the
script gives. `WithdrawSbom` is the `clear` after a refused validation: it selects the
lab first, like everything else, so that it fails and leaves the refused evidence in
place while the catalog does not validate.

`LabCatalog` reads the index, the lock and each manifest in the index's order, while
somebody edits them; a digest is the content it was computed from. `RepositoryTrust` is
the verdict: `VisibleMarkdown` is the state machine that removes comments, as a fold over
the tokens of a text; a fact is unseen, as wanted, different or malformed, and
`ChecksOf` says which facts a check combines. The observation is read by system calls
(`LookForObservation`, `InspectObservation`, `OpenObservation`, `ReadObservation`); its
owner may replace the file or rewrite it in place between any two of them, also by one
that is half written or gone. `owned.files` are the files that have lain at the path, the
last of them `AtPath`: `read_regular` refuses one that was replaced between its `lstat`
and its `open`, though both may be valid. `touched` says that the owner acted after the
program first looked.

| Property | What it says |
|---|---|
| `ValidatorExact` | a document validates exactly when it is what the builder makes of its own cases; one that passes has nothing but passed cases, from a clean tree |
| `PassNamesTestedTree` | exit 0 leaves the run's own document of passed cases; if nobody worked on the tree meanwhile, its revision is what was built and tested |
| `SbomFailClosed` | after the removal, the evidence is absent or the run's own, wherever the run stops; a run that failed leaves its own only when git gave no HEAD to validate against, or while the catalog does not validate, when that evidence is refused by every validation against current inputs |
| `SbomPassMeansImage` | exit 0 means evidence of HEAD, clean, with every required package, no forbidden one, and the deployed files the graph hashes |
| `CatalogSeparate` | an accepted catalog is the one its index names, and no two labs or builds share a directory or a machine |
| `TrustExact` | the exit status is 0 exactly when everything is seen as wanted, 1 exactly when something conflicts, 2 only when an input is at fault or the owner changed the observation while it was read; if the owner did not, the verdict is about the observation at the path; the contact is visible, by a definition that counts markers |

Bounds. `ValidatorExact` looks at every document that differs from a built one, or from
a sound one of an older schema, in one field, one claim or one case, over suites with one
case that did not pass: a wrong entry of a table shows in the document in which just
that case failed. `SbomPassMeansImage` has one graph for each rule, sound but for that
rule. The catalog has a sound second manifest and one for each rule and each way to clash
with the first lab, in both orders of the index, with one edit during the reading. The
trust observations deviate in one fact, or are unseen in one and different in another
(the combination decides between those two), and the owner acts once during a run, with
an observation as wanted or deviating in one fact, half a file, or none; the texts are all those of up to two lines of up to three tokens.
Two steps of the user are an edit and a commit, or an edit and its undoing. No
fairness: these programs make no promise of ending beyond that of BitBake.

### One run: `tools`

`MCReports` puts the machines of section 7 beside each other, `MCRecords` those of this
section, and `MCTools` the two. Each behaviour chooses one machine and the others stay at
a state of rest, so that the run is seven independent checks in one: nothing is shared,
and nothing is lost by it. `evidence_path` (a finding) uses `MCRecords` alone.

### Proved

| Theorem | For every | Establishes |
|---|---|---|
| `ValidatorIsExact` | suite outcomes, lab and documents stored before | `ValidatorExact` |
| `SbomClosed` | graph, required and forbidden packages | `SbomFailClosed` |
| `SbomPassIsImage` | the same | `SbomPassMeansImage` |
| `PassIsTested` | suite outcomes and lab | `PassNamesTestedTree` |
| `LabsSeparate` | catalog and sequence of edits | `CatalogSeparate` |
| `TrustIsExact` | policy and text at the start, observation, number and kind of the owner's changes to it | `TrustExact` |

`EvidenceProofs`, SBOM. `SbomInv` adds to the type invariant three parts. `ClosedInv` says
what may lie under the evidence's name: nothing or this run's own document after the
removal, nothing before the write; after a failure nothing, unless git gave no HEAD (exit
128) or the catalog does not validate. `OwnInv` says that from the
collection on the graph was analysed without a complaint and the evidence is its
projection. `TreeInv` says that as long as nobody works on the tree, the content of the
image is that of the tree, the revision is HEAD and the flag says whether they differ.

`EvidenceProofs`, runtime. `OutputInv` says that what is published was built from this
run's results, and `TestedInv` that the queried revision and cleanness are those of the
tested tree while nobody works on it. That a passing document has passed cases only rests
on `AllCounted`: if as many cases passed as there are, all did, which is a fact about the
cardinality of a subset. The module assumes that outcomes are sequences of statuses.

`ValidatorIsExact` adds `DocumentInv`: what lies at the output path is nothing, half a
file, or something with the fields of a document (`DocumentsAssumption` says so of what
was there before; anything else is refused by `require_exact_keys` before the rules
modelled here). `TablesAgree` shows that the validator's table of claims, joined from its
three parts, is the builder's; `ExactDocument` that the validator's conditions on a
document are then together one equation, the document built from its own cases.

`EvidenceProofs`, trust. `FactsGrouped` says that no fact escapes the checks,
`RequiredMeans` what the three checks on the required contexts make of one observation,
and `VerdictMeans` that the aggregate is therefore a pass exactly when everything was
seen as wanted. `TrustInv` follows the run to its exit: what is read is one of the files
that were at the path, and the last of them as long as the owner has not acted. That the contact check reads what is
visible of a text, `ContactRead`, is the theorem's hypothesis: `VisibleMarkdown` is a fold,
and what it computes for every text is an induction over data, which is beyond the prover.
TLC evaluates it for all the texts of the instance (`EveryTextRead` in `MCRecords`).

`LabCatalogProofs`. `TakenInv` says that the labs taken are a beginning of the index:
they are as many as the manifests read, each was the index's next. `SeparateInv` says that
every two of them are `Apart`, since each new one was compared with all before it. The
module assumes that an index's labs are a sequence.

## 9. Findings

1. `trigger_irq` may succeed early (`qemu_edu.c:284`, run `edu_trigger_race`). The
   handler acknowledges the device before it completes `any_irq_done`. A write that
   finds nothing pending and reinitialises the completion in between is then woken
   by the previous request's handler on another CPU.
2. A factorial request after one that a signal interrupted can show the factorial of
   the previous operand, even on one CPU (`qemu_edu.c:238`, run
   `edu_factorial_signal`): the device ignores operands while it computes and nobody
   looks at its busy bit.
3. A second signal between the entry of `finally` and its deferral skips the
   restoration (`sdk_iteration.py:1444`, run `sdk_finally_window`). If it also
   precedes the clearing of old evidence, that stays, too.
4. `doctor` and `evidence` look for the runtime evidence in another directory than
   `runtime-test.sh` writes it to (`diagnostics.py:629`, run `evidence_path`): after a
   run that passed they find none, or an older document somebody has put there.

## 10. Known limits

What the code does besides, seen while modelling and excluded from or visible in the
properties as said:

* A DMA fault clears bus mastering, with which the device also sends its messages
  (`qemu_edu.c:376`): with MSI, `trigger_irq` times out for the rest of the binding.
* A signal between the fork of a command and the `try` that watches it leaves its
  process group running (`sdk_iteration.py:304`). `sdk_safety` keeps this window shut,
  `sdk_contract` opens it.
* A workspace that is active under the base configuration (a reset that failed, followed
  by a restored configuration) stays: the cleanup reports it each time, and a person has
  to remove it.
* Somebody who commits or restores during `runtime-test.sh` may get a clean document of a
  revision that was not tested; `docs/runtime-testing.md` binds the two. The property
  holds while nobody works on the tree. Nobody compares `observed_at` with the present.
* Two `runtime-test.sh` at once write the same output. A `git rev-parse` that fails, or a
  kill, between the collection and the validation of the SBOM evidence leaves it
  unvalidated. Nothing forces the two evidence file names of a manifest to differ.
* `lab_config.py digest` prints the index digest of one reading with the manifest digest
  of another.
* A check of the diagnostics that raises what nobody expects ends the whole run with
  status 1, "internal diagnostic failure" and no document: a file deleted between the two
  `lstat` of `diagnostics_inputs.py:32` and `:74`, a link that leads to itself (`:57`), an
  `fstat` or `read` that fails. `docs/diagnostics.md` allows such an end without saying
  when it happens.
* `sbom-evidence.sh:121` withdraws refused evidence by `sbom_evidence.py clear`, which
  validates the whole catalog first. If the edit that made the validation fail also broke
  the catalog, `clear` fails, `set -e` ends the script, and the evidence stays. It is the
  run's own, and refused by every validation against current inputs while the catalog is
  broken; it may validate again once the edit is undone.
* An observation that is replaced while it is read gives exit 2 and no document, though
  the old and the new one are valid; `docs/repository-trust.md:175` promises a document
  for a valid observation. Changes of the policy or of `SECURITY.md` during a run are not
  modelled, and neither is an observation rewritten half-way through the `read` of it.
* `local.conf` is written in place: a crash, a full disk, or a second setup that reads in
  between loses the user's lines. `LinesKept` covers everything else.
* `SafeRead` keeps the parent directories: one replaced by a link after `_safe_path` is
  outside the model, as are two changes within one tick of the file's clock.
* Comment markers that overlap (`<!-->`), a failing unlink of the refused SBOM evidence (same effect as above),
  and the order of `atomic_inc` and the sign of the count in the platform driver (which
  wraps after 2^31 interrupts) are not modelled.

Not modelled: the validators of the repository (`validate_ci.py`, `validate_workflow.py`,
`verify_qemu_security.py`, `verify_diagnostics_schema_lock.py`,
`qemu_security_preflight.sh`) are pure functions from a text to a verdict, whose content
is the list of strings they look for: there is no state, no order and no reference
definition other than the list itself. The OEQA suites are sequential tests of what
`QemuEdu` and `QemuEduPlatform` state as properties. Recipes, machine configurations and
JSON schemas are data.

## 11. Reading and running

Each `MC*` module gives values that a configuration file cannot write; the `.cfg`
files carry the rest. `tlc -config QemuEduCommands.cfg MCQemuEdu` checks a run,
`tlapm QemuEduProofs.tla` the proofs of a component. Definitions named `Mut...` are small
deliberate errors, each of which makes one property fail; `PROJECT.json` pairs
them. They are in no specification.
