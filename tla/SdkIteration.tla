---------------------------- MODULE SdkIteration ----------------------------
(***************************************************************************)
(* scripts/sdk_iteration.py: one run of the direct-eSDK lifecycle, its     *)
(* restorative cleanup and the publication of its evidence, with host      *)
(* signals between any two steps, external commands that fail or time out  *)
(* half-way, emulators that die, and a loss of power, over several runs on *)
(* one development build root.                                             *)
(***************************************************************************)
EXTENDS Naturals, Sequences

CONSTANTS
    InitialBuilds, \* Build roots the first run may find.
    MaxSignals,    \* Bound on the host signals of a run.
    MaxFaults,     \* Bound on the failures of a run.
    PowerLoss,     \* TRUE if the host may lose power.
    Windows        \* Where a signal may hit although nothing is prepared for it.

Workspaces == {"absent", "inert", "active", "partial", "foreign"}

\* The development build root: the workspace layer (inert: no modified recipe;
\* active: one; partial: an unfinished change of a devtool command; foreign:
\* files devtool does not make), the raw configuration as _configuration_state
\* classifies it, devtool.conf, the IDE output in the workspace and where it is
\* retained, and the learner's source directory.
BuildType ==
    [workspace : Workspaces, config : {"base", "workspace", "unknown"},
     devtool_conf : {"absent", "ok", "bad"},
     ide_generated : BOOLEAN, ide_kept : BOOLEAN, learner : BOOLEAN]

ASSUME SdkAssumption ==
    /\ InitialBuilds \subseteq BuildType
    /\ MaxSignals \in Nat /\ MaxFaults \in Nat
    /\ PowerLoss \in BOOLEAN
    /\ Windows \subseteq {"fork", "terminate", "finally"}

VARIABLES
    build,    \* The build root.
    evidence, \* The evidence file: none, stale (of an earlier run), or pass.
    qemu,     \* The emulator of this run is alive.
    target,   \* The sample is on that emulator's disk, a snapshot.
    lost,     \* Processes of earlier steps that nobody will stop.
    pc,       \* What the controller is about to do.
    child,    \* The command it runs: not started, started, watched, given up.
    it,       \* Attributes of DirectSdkIteration and locals of execute.
    cl,       \* Locals of _cleanup_development_state.
    exc,      \* The exception in flight: none, error, cancel.
    late,     \* History: a signal arrived before the evidence was published.
    signals, faults

world   == <<build, evidence, qemu, target, lost>>
control == <<pc, child, it, cl, exc>>
bounds  == <<late, signals, faults>>
vars    == <<world, control, bounds>>

-----------------------------------------------------------------------------
(* The program text of execute, in order.                                  *)

Body ==
    <<"preflight", "retained", "tooling", "recover", "compose", "security",
      "image", "prepare", "create", "activate", "status", "source", "modify",
      "modified", "build", "artifact", "ide_sdk", "retain_ide",
      "boot", "boot_spawn", "boot_assign", "boot_ready", "absent", "attempt",
      "deploy", "sha256sum", "execute", "undeploy", "undeployed", "gone", "stop",
      "restore", "source_kept", "cold_boot", "cold_spawn", "cold_assign",
      "cold_ready", "cold_absent", "cold_stop", "evidence", "finally">>

After(step) == Body[(CHOOSE i \in DOMAIN Body : Body[i] = step) + 1]

\* Steps that wait for an external command.
RemoteCommands ==
    {"absent", "deploy", "sha256sum", "execute", "undeploy", "gone", "cold_absent"}
DevtoolCommands ==
    {"create", "status", "modify", "build", "ide_sdk", "deploy", "undeploy"}
Commands ==
    RemoteCommands \cup DevtoolCommands
      \cup {"compose", "security", "image", "artifact"}

CleanupSteps ==
    {"c_ide", "c_config", "c_workspace", "c_devtool_conf", "c_decide", "c_undeploy",
     "c_remove_file", "c_stop", "c_status", "c_reset", "c_resting", "c_layer",
     "c_stop_again", "c_restore", "c_residue", "c_compose", "c_end"}

\* Where signals are recorded instead of raised: DeferredCancellation.
Deferring ==
    CleanupSteps \cup {"final_evidence", "final_exit", "publish", "validate"}

Ended == {"idle", "passed", "failed", "dead"}

FreshIteration ==
    [workspace_added |-> FALSE, recipe_modified |-> FALSE,
     deployment_attempted |-> FALSE, active_boot |-> "none",
     tooling_ready |-> FALSE, completed |-> FALSE, cleanup_error |-> FALSE,
     finalization |-> FALSE, committed |-> FALSE]

FreshCleanup ==
    [ret |-> "none", configuration |-> "unknown", workspace_safe |-> TRUE,
     workspace_active |-> FALSE, can_use_devtool |-> FALSE,
     composition_restored |-> FALSE, failures |-> {}, cancellation |-> FALSE,
     signum |-> FALSE]

-----------------------------------------------------------------------------
(* Failures and exceptions.                                                *)

\* Something outside the controller goes wrong.
Fault == faults < MaxFaults /\ faults' = faults + 1 /\ UNCHANGED <<late, signals>>

\* A host signal arrives.
Interrupt ==
    /\ signals < MaxSignals
    /\ signals' = signals + 1
    /\ late' = (late \/ pc \notin {"publish", "validate"})
    /\ UNCHANGED faults

Raise(kind) == pc' = "finally" /\ exc' = kind

\* A step of execute that starts no command.
At(step) == pc = step /\ UNCHANGED <<child, cl>>
Proceed  == pc' = After(pc) /\ UNCHANGED <<exc, bounds>>

\* Such a step fails; what it has already changed stays changed.
Fails == Fault /\ Raise("error")

-----------------------------------------------------------------------------
(* External commands: what they leave behind.                              *)

\* What a command makes of the build root when it succeeds.
Results(command) ==
    CASE command = "create" ->
           {[build EXCEPT !.workspace = "inert", !.config = c, !.devtool_conf = "ok"] :
              c \in {"workspace", "unknown"}}
      [] command = "modify"       -> {[build EXCEPT !.workspace = "active"]}
      [] command = "ide_sdk"      -> {[build EXCEPT !.ide_generated = TRUE]}
      [] command = "reset"        -> {[build EXCEPT !.workspace = "inert"]}
      [] command = "remove-layer" -> {[build EXCEPT !.config = c] : c \in {"base", "unknown"}}
      [] OTHER -> {build}

\* When it fails, times out or is killed: nothing, all, or half of it.
Remains(command) ==
    {build} \cup Results(command) \cup
      IF command \in {"create", "modify", "reset"}
      THEN {[b EXCEPT !.workspace = "partial"] : b \in Results(command)} ELSE {}

TargetResult(command) ==
    CASE command = "deploy" -> TRUE [] command = "undeploy" -> FALSE [] OTHER -> target

\* What a successful command needs, and what the controller requires of it.
Succeeds(command) ==
    /\ command \in RemoteCommands => qemu
    /\ command = "compose" => build.config = "base"
    /\ command = "status" => build.workspace # "active"
    /\ command \in {"absent", "gone", "cold_absent"} => ~target
    /\ command \in {"sha256sum", "execute"} => target

\* CommandRunner.run.  Between the fork and the try statement, and between an
\* exception and the deferral inside _terminate, nobody watches the command.
Spawn ==
    /\ pc \in Commands /\ child = "none"
    /\ child' = "started"
    /\ UNCHANGED <<world, pc, it, cl, exc, bounds>>

Watch ==
    /\ child = "started"
    /\ child' = "watched"
    /\ UNCHANGED <<world, pc, it, cl, exc, bounds>>

CommandSucceeds ==
    /\ child = "watched" /\ Succeeds(pc)
    /\ child' = "none"
    /\ Proceed
    /\ build' \in Results(pc)
    /\ target' = TargetResult(pc)
    /\ UNCHANGED <<evidence, qemu, lost, it, cl>>

\* Mutant: a command that cannot succeed is waited for without a deadline.
MutCommandFails ==
    /\ child = "watched" /\ Succeeds(pc) /\ Fault
    /\ child' = "none"
    /\ Raise("error")
    /\ build' \in Remains(pc)
    /\ target' \in {target, TargetResult(pc)}
    /\ UNCHANGED <<evidence, qemu, lost, it, cl>>

\* A nonzero status, too much output, or the deadline.
CommandFails ==
    /\ child = "watched"
    /\ IF Succeeds(pc) THEN Fault ELSE UNCHANGED bounds
    /\ child' = "none"
    /\ Raise("error")
    /\ build' \in Remains(pc)
    /\ target' \in {target, TargetResult(pc)}
    /\ UNCHANGED <<evidence, qemu, lost, it, cl>>

\* _terminate kills and reaps the process group of an interrupted command.
Terminate ==
    /\ child = "given_up"
    /\ child' = "none"
    /\ Raise("cancel")
    /\ build' \in Remains(pc)
    /\ target' \in {target, TargetResult(pc)}
    /\ UNCHANGED <<evidence, qemu, lost, it, cl, bounds>>

Command == Spawn \/ Watch \/ CommandSucceeds \/ CommandFails \/ Terminate

-----------------------------------------------------------------------------
(* The steps of execute up to the boot.                                    *)

\* preflight_repository: stale evidence goes first, then the checks.
Preflight ==
    /\ At("preflight")
    /\ evidence' = "none"
    /\ Proceed \/ Fails
    /\ UNCHANGED <<build, qemu, target, lost, it>>

\* _preflight_retained_outputs.
Retained ==
    /\ At("retained")
    /\ IF build.learner \/ build.ide_kept
       THEN Raise("error") /\ UNCHANGED bounds
       ELSE Proceed
    /\ UNCHANGED <<world, it>>

\* verify_tooling and the transport wrappers.
Tooling ==
    /\ At("tooling")
    /\ \/ Proceed /\ it' = [it EXCEPT !.tooling_ready = TRUE]
       \/ Fails /\ UNCHANGED it
    /\ UNCHANGED world

\* configure_sdk replaces local.conf and its copy on BBPATH before bblayers.conf:
\* when it fails, layers that were in order may have become authoritative.
HalfConfigured ==
    {build} \cup
      IF build.config = "unknown"
      THEN {[build EXCEPT !.config = c] : c \in {"base", "workspace"}} ELSE {}

\* An existing workspace is cleaned up, otherwise the configuration is written.
Recover ==
    /\ pc = "recover" /\ child = "none"
    /\ IF build.workspace # "absent"
       THEN /\ pc' = "c_ide"
            /\ cl' = [FreshCleanup EXCEPT !.ret = "recover"]
            /\ UNCHANGED <<build, exc, bounds>>
       ELSE /\ UNCHANGED cl
            /\ \/ Proceed /\ build' = [build EXCEPT !.config = "base"]
               \/ Fails /\ build' \in HalfConfigured
    /\ UNCHANGED <<evidence, qemu, target, lost, child, it>>

\* _prepare_workspace, to the first command.
Prepare ==
    /\ At("prepare")
    /\ IF \/ build.learner \/ build.ide_kept
          \/ build.devtool_conf = "bad"
          \/ build.workspace # "absent" /\
               (build.workspace # "inert" \/ build.ide_generated \/ build.devtool_conf # "ok")
       THEN Raise("error") /\ UNCHANGED <<build, bounds>>
       ELSE \/ Proceed /\ build' = [build EXCEPT !.devtool_conf = "ok"]
            \/ Fails /\ UNCHANGED build
    /\ UNCHANGED <<evidence, qemu, target, lost, it>>

\* The workspace joins the configuration.
Activate ==
    /\ At("activate")
    /\ it' = [it EXCEPT !.workspace_added = TRUE]
    /\ \/ Proceed /\ build.workspace = "inert" /\ build' = [build EXCEPT !.config = "workspace"]
       \/ Fails /\ build' \in HalfConfigured \cup {[build EXCEPT !.config = "workspace"]}
    /\ UNCHANGED <<evidence, qemu, target, lost>>

\* The learner's copy of the sample.
Source ==
    /\ At("source")
    /\ \/ Proceed /\ build' = [build EXCEPT !.learner = TRUE]
       \/ Fails /\ build' \in {build, [build EXCEPT !.learner = TRUE]}
    /\ UNCHANGED <<evidence, qemu, target, lost, it>>

Modified ==
    /\ At("modified")
    /\ it' = [it EXCEPT !.recipe_modified = TRUE]
    /\ Proceed
    /\ UNCHANGED world

\* _retain_ide_output, one rename.
RetainIde ==
    /\ At("retain_ide")
    /\ \/ Proceed /\ build' = [build EXCEPT !.ide_generated = FALSE, !.ide_kept = TRUE]
       \/ Fails /\ UNCHANGED build
    /\ UNCHANGED <<evidence, qemu, target, lost, it>>

-----------------------------------------------------------------------------
(* The emulator.  active_boot is "created" while the session's process is  *)
(* None, "running" once it is known, "ready" once its port is.             *)

BootCreate ==
    /\ pc \in {"boot", "cold_boot"} /\ At(pc)
    /\ it' = [it EXCEPT !.active_boot = "created"]
    /\ Proceed
    /\ UNCHANGED world

\* Popen has forked but not yet returned.
BootSpawn ==
    /\ pc \in {"boot_spawn", "cold_spawn"} /\ At(pc)
    /\ \/ Proceed /\ qemu' = TRUE
       \/ Fails /\ UNCHANGED qemu
    /\ UNCHANGED <<build, evidence, target, lost, it>>

\* Mutant: the session learns of its process only when the start succeeds.
MutBootAssign ==
    /\ pc \in {"boot_assign", "cold_assign"} /\ At(pc)
    /\ Proceed
    /\ UNCHANGED <<world, it>>

BootAssign ==
    /\ pc \in {"boot_assign", "cold_assign"} /\ At(pc)
    /\ it' = [it EXCEPT !.active_boot = "running"]
    /\ Proceed
    /\ UNCHANGED world

\* runqemu publishes its port and ssh answers, or the start fails.
BootReady ==
    /\ pc \in {"boot_ready", "cold_ready"} /\ At(pc)
    /\ \/ qemu /\ Proceed /\ it' = [it EXCEPT !.active_boot = "ready"]
       \/ (IF qemu THEN Fault ELSE UNCHANGED bounds) /\ Raise("error") /\ UNCHANGED it
    /\ UNCHANGED world

\* The emulator exits on its own.
QemuExits ==
    /\ qemu /\ Fault
    /\ qemu' = FALSE
    /\ target' = FALSE
    /\ UNCHANGED <<build, evidence, lost, control>>

\* deployment_attempted is set before the command that deploys.
Attempt ==
    /\ At("attempt")
    /\ it' = [it EXCEPT !.deployment_attempted = TRUE]
    /\ Proceed
    /\ UNCHANGED world

Undeployed ==
    /\ At("undeployed")
    /\ it' = [it EXCEPT !.deployment_attempted = FALSE]
    /\ Proceed
    /\ UNCHANGED world

\* _stop_uninterrupted: the process the session knows is gone.
Stopped ==
    /\ qemu' = FALSE
    /\ target' = FALSE
    /\ lost' = lost \cup (IF qemu /\ it.active_boot = "created" THEN {"runqemu"} ELSE {})
    /\ UNCHANGED <<build, evidence>>

\* BootSession.stop in execute.  A signal recorded during it is raised after it.
Stop ==
    /\ pc \in {"stop", "cold_stop"} /\ At(pc)
    /\ \/ Stopped /\ Proceed /\ it' = [it EXCEPT !.active_boot = "none"]
       \/ Stopped /\ Interrupt /\ Raise("cancel")
          /\ it' = [it EXCEPT !.active_boot = "created"]
       \/ Fails /\ UNCHANGED <<world, it>>

\* The cleanup in execute, and the checks behind it.
Restore ==
    /\ pc = "restore"
    /\ pc' = "c_ide"
    /\ cl' = [FreshCleanup EXCEPT !.ret = "restore"]
    /\ UNCHANGED <<world, child, it, exc, bounds>>

SourceKept ==
    /\ At("source_kept")
    /\ (build.learner /\ Proceed) \/ Fails
    /\ UNCHANGED <<world, it>>

\* build_evidence and its validation.
Evidence ==
    /\ At("evidence")
    /\ \/ Proceed /\ it' = [it EXCEPT !.completed = TRUE]
       \/ Fails /\ UNCHANGED it
    /\ UNCHANGED world

Execute ==
    \/ Preflight \/ Retained \/ Tooling \/ Recover \/ Prepare \/ Activate \/ Source
    \/ Modified \/ RetainIde \/ BootCreate \/ BootSpawn \/ BootAssign \/ BootReady
    \/ Attempt \/ Undeployed \/ Stop \/ Restore \/ SourceKept \/ Evidence

-----------------------------------------------------------------------------
(* _cleanup_development_state_uninterrupted.  Its steps are isolated from   *)
(* each other's failures, which are recorded under a label.                *)

CleanupAt(step) == pc = step /\ UNCHANGED <<child, exc, evidence>>
CleanupTo(step) == pc' = step

Keep   == UNCHANGED <<build, qemu, target, lost, it>>
NoFault == UNCHANGED bounds

Failed(label) == [cl EXCEPT !.failures = @ \cup {label}]
Unsafe(label) == [cl EXCEPT !.failures = @ \cup {label}, !.workspace_safe = FALSE]

\* configure_authoritative_build, and what a failure of it is recorded as.
Configure(onSuccess) ==
    \/ /\ NoFault
       /\ build' = [build EXCEPT !.config = "base"]
       /\ it' = [it EXCEPT !.workspace_added = FALSE]
       /\ cl' = onSuccess
    \/ /\ Fault
       /\ build' \in HalfConfigured
       /\ cl' = Failed("composition")
       /\ UNCHANGED it

\* What _verify_workspace accepts.
ClosedWorkspace(resting, require_active) ==
    /\ ~build.ide_generated
    /\ build.workspace \in {"inert", "active"}
    /\ resting => build.workspace = "inert"
    /\ require_active => build.workspace = "active"

CleanupIde ==
    /\ CleanupAt("c_ide") /\ CleanupTo("c_config")
    /\ \/ ~build.ide_generated /\ NoFault /\ UNCHANGED <<build, cl>>
       \/ /\ build.ide_generated /\ ~build.ide_kept /\ NoFault
          /\ build' = [build EXCEPT !.ide_generated = FALSE, !.ide_kept = TRUE]
          /\ UNCHANGED cl
       \/ /\ build.ide_generated
          /\ IF build.ide_kept THEN NoFault ELSE Fault
          /\ cl' = Unsafe("residue")
          /\ UNCHANGED build
    /\ UNCHANGED <<qemu, target, lost, it>>

CleanupConfig ==
    /\ CleanupAt("c_config") /\ CleanupTo("c_workspace")
    /\ \/ /\ NoFault
          /\ cl' = [cl EXCEPT !.configuration = build.config]
          /\ it' = [it EXCEPT !.workspace_added = @ \/ build.config = "workspace"]
       \/ Fault /\ cl' = Failed("authority") /\ UNCHANGED it
    /\ UNCHANGED <<build, qemu, target, lost>>

CleanupWorkspace ==
    /\ CleanupAt("c_workspace") /\ CleanupTo("c_devtool_conf")
    /\ NoFault /\ Keep
    /\ cl' = CASE ClosedWorkspace(FALSE, it.recipe_modified) ->
                    [cl EXCEPT !.workspace_active = (build.workspace = "active")]
               [] build.workspace = "absent" /\ ~it.workspace_added /\ ~it.recipe_modified -> cl
               [] OTHER -> Unsafe("residue")

CleanupDevtoolConf ==
    /\ CleanupAt("c_devtool_conf") /\ CleanupTo("c_decide")
    /\ NoFault /\ Keep
    /\ cl' = IF /\ cl.configuration = "workspace" /\ cl.workspace_safe
                /\ build.devtool_conf # "ok"
             THEN Unsafe("devtool configuration") ELSE cl

\* Without an authenticated workspace devtool is not run: the base
\* configuration is written first.
CleanupDecide ==
    /\ CleanupAt("c_decide") /\ CleanupTo("c_undeploy")
    /\ IF cl.configuration = "workspace" /\ cl.workspace_safe
       THEN /\ cl' = [cl EXCEPT !.can_use_devtool = TRUE]
            /\ NoFault /\ UNCHANGED <<build, it>>
       ELSE LET unknown == /\ cl.configuration = "unknown"
                           /\ \/ build.workspace # "absent" \/ it.workspace_added
                              \/ it.recipe_modified \/ it.deployment_attempted
            IN  Configure(IF unknown THEN Failed("authority") ELSE cl)
    /\ UNCHANGED <<qemu, target, lost>>

\* A guest file that may have been deployed is removed by devtool, or else by
\* a remote command.
CleanupUndeploy ==
    /\ CleanupAt("c_undeploy")
    /\ IF it.deployment_attempted /\ it.active_boot = "ready"
       THEN \/ /\ cl.can_use_devtool /\ (cl.workspace_active \/ it.recipe_modified)
               /\ qemu /\ NoFault
               /\ target' = FALSE
               /\ it' = [it EXCEPT !.deployment_attempted = FALSE]
               /\ CleanupTo("c_stop")
            \/ /\ IF cl.can_use_devtool /\ (cl.workspace_active \/ it.recipe_modified) /\ qemu
                  THEN Fault ELSE NoFault
               /\ CleanupTo("c_remove_file")
               /\ UNCHANGED <<target, it>>
       ELSE CleanupTo("c_stop") /\ NoFault /\ UNCHANGED <<target, it>>
    /\ UNCHANGED <<build, qemu, lost, cl>>

\* Mutant: a file that cannot be removed ends the cleanup.
MutCleanupRemoveFile ==
    /\ CleanupAt("c_remove_file")
    /\ \/ qemu /\ NoFault /\ target' = FALSE /\ UNCHANGED cl /\ CleanupTo("c_stop")
       \/ /\ IF qemu THEN Fault ELSE NoFault
          /\ cl' = Failed("target undeploy")
          /\ CleanupTo("c_end")
          /\ UNCHANGED target
    /\ it' = [it EXCEPT !.deployment_attempted = FALSE]
    /\ UNCHANGED <<build, qemu, lost>>

CleanupRemoveFile ==
    /\ CleanupAt("c_remove_file") /\ CleanupTo("c_stop")
    /\ \/ qemu /\ NoFault /\ target' = FALSE /\ UNCHANGED cl
       \/ /\ IF qemu THEN Fault ELSE NoFault
          /\ cl' = Failed("target undeploy")
          /\ UNCHANGED target
    /\ it' = [it EXCEPT !.deployment_attempted = FALSE]
    /\ UNCHANGED <<build, qemu, lost>>

\* The emulator is stopped.  A signal during the stop is raised at its end,
\* which the cleanup records as a failure.
CleanupStop(step, next) ==
    /\ CleanupAt(step) /\ CleanupTo(next)
    /\ IF it.active_boot = "none"
       THEN NoFault /\ Keep /\ UNCHANGED cl
       ELSE \/ Stopped /\ NoFault /\ UNCHANGED cl
               /\ it' = [it EXCEPT !.active_boot = "none"]
            \/ Stopped /\ Interrupt
               /\ cl' = [cl EXCEPT !.failures = @ \cup {"runqemu stop"}, !.cancellation = TRUE]
               /\ it' = [it EXCEPT !.active_boot = "created"]
            \/ Fault /\ Keep /\ cl' = Failed("runqemu stop")

\* devtool status, and the second authentication of what it reveals.
CleanupStatus ==
    /\ CleanupAt("c_status") /\ CleanupTo("c_reset")
    /\ IF ~cl.can_use_devtool
       THEN NoFault /\ UNCHANGED <<cl, it>>
       ELSE \/ /\ NoFault
               /\ it' = [it EXCEPT !.recipe_modified = @ \/ build.workspace = "active"]
               /\ cl' = IF it'.recipe_modified /\ ~ClosedWorkspace(FALSE, TRUE)
                        THEN [Failed("residue") EXCEPT !.can_use_devtool = FALSE] ELSE cl
            \/ /\ Fault
               /\ cl' = Failed("devtool state discovery")
               /\ UNCHANGED it
    /\ UNCHANGED <<build, qemu, target, lost>>

CleanupReset ==
    /\ CleanupAt("c_reset") /\ CleanupTo("c_resting")
    /\ IF it.recipe_modified /\ cl.can_use_devtool
       THEN \/ /\ NoFault
               /\ build' \in Results("reset")
               /\ it' = [it EXCEPT !.recipe_modified = FALSE]
               /\ UNCHANGED cl
            \/ /\ Fault
               /\ build' \in Remains("reset")
               /\ cl' = Failed("devtool reset")
               /\ UNCHANGED it
       ELSE NoFault /\ UNCHANGED <<build, it, cl>>
    /\ UNCHANGED <<qemu, target, lost>>

\* devtool status again, and the workspace at rest.
CleanupResting ==
    /\ CleanupAt("c_resting") /\ CleanupTo("c_layer")
    /\ Keep
    /\ \/ /\ NoFault
          /\ cl' = IF cl.can_use_devtool /\ ~ClosedWorkspace(TRUE, FALSE)
                   THEN Failed("residue") ELSE cl
       \/ cl.can_use_devtool /\ Fault /\ cl' = Failed("devtool status")

CleanupLayer ==
    /\ CleanupAt("c_layer") /\ CleanupTo("c_stop_again")
    /\ IF cl.can_use_devtool
       THEN \/ NoFault /\ build' \in Results("remove-layer") /\ UNCHANGED cl
            \/ Fault /\ build' \in Remains("remove-layer") /\ cl' = Failed("layer removal")
       ELSE NoFault /\ UNCHANGED <<build, cl>>
    /\ UNCHANGED <<qemu, target, lost, it>>

\* The base configuration once more, and its verification.
CleanupRestore ==
    /\ CleanupAt("c_restore") /\ CleanupTo("c_residue")
    /\ \/ Configure([cl EXCEPT !.composition_restored = TRUE])
       \/ /\ Fault
          /\ build' = [build EXCEPT !.config = "base"]
          /\ it' = [it EXCEPT !.workspace_added = FALSE]
          /\ cl' = Failed("composition")
    /\ UNCHANGED <<qemu, target, lost>>

CleanupResidue ==
    /\ CleanupAt("c_residue") /\ CleanupTo("c_compose")
    /\ NoFault /\ Keep
    /\ cl' = IF build.workspace # "absent" /\ ~ClosedWorkspace(TRUE, FALSE)
             THEN Failed("residue") ELSE cl

CleanupCompose ==
    /\ CleanupAt("c_compose") /\ CleanupTo("c_end")
    /\ Keep
    /\ \/ NoFault /\ UNCHANGED cl
       \/ cl.composition_restored /\ Fault /\ cl' = Failed("cleanup verification")

\* Mutant: the last cleanup raises no failure, only a cancellation.
MutCleanupEnd ==
    LET raises == cl.cancellation \/ cl.signum
    IN  /\ pc = "c_end"
        /\ CASE cl.ret = "final" ->
                  /\ pc' = "final_evidence"
                  /\ it' = [it EXCEPT !.cleanup_error = raises]
                  /\ UNCHANGED exc
             [] cl.ret # "final" /\ raises -> Raise("cancel") /\ UNCHANGED it
             [] OTHER -> pc' = After(cl.ret) /\ UNCHANGED <<exc, it>>
        /\ UNCHANGED <<world, child, cl, bounds>>

\* The failures are raised, or else the cancellation, at the latest by the
\* deferral around the cleanup; execute keeps the exception of the last one.
CleanupEnd ==
    LET raises == cl.failures # {} \/ cl.cancellation \/ cl.signum
        cancel == cl.cancellation \/ cl.failures = {}
    IN  /\ pc = "c_end"
        /\ CASE cl.ret = "final" ->
                  /\ pc' = "final_evidence"
                  /\ it' = [it EXCEPT !.cleanup_error = raises]
                  /\ UNCHANGED exc
             [] cl.ret # "final" /\ raises ->
                  Raise(IF cancel THEN "cancel" ELSE "error") /\ UNCHANGED it
             [] OTHER -> pc' = After(cl.ret) /\ UNCHANGED <<exc, it>>
        /\ UNCHANGED <<world, child, cl, bounds>>

Cleanup ==
    \/ CleanupIde \/ CleanupConfig \/ CleanupWorkspace \/ CleanupDevtoolConf
    \/ CleanupDecide \/ CleanupUndeploy \/ CleanupRemoveFile
    \/ CleanupStop("c_stop", "c_status")
    \/ CleanupStatus \/ CleanupReset \/ CleanupResting \/ CleanupLayer
    \/ CleanupStop("c_stop_again", "c_restore")
    \/ CleanupRestore \/ CleanupResidue \/ CleanupCompose \/ CleanupEnd

-----------------------------------------------------------------------------
(* The finally clause of execute, and publication.                         *)

FinalStep(step) == pc = step /\ UNCHANGED <<build, qemu, target, lost, child, cl, bounds>>

Finally ==
    /\ pc = "finally"
    /\ IF it.tooling_ready
       THEN pc' = "c_ide" /\ cl' = [FreshCleanup EXCEPT !.ret = "final"]
       ELSE pc' = "final_evidence" /\ UNCHANGED cl
    /\ UNCHANGED <<world, child, it, exc, bounds>>

\* Mutant: only preflight removes evidence.
MutFinalEvidence ==
    /\ FinalStep("final_evidence")
    /\ pc' = "final_exit"
    /\ it' = [it EXCEPT !.completed = @ /\ ~it.cleanup_error]
    /\ UNCHANGED <<evidence, exc>>

\* Unless everything, cleanup included, succeeded there is no evidence.
FinalEvidence ==
    LET completed == it.completed /\ ~it.cleanup_error
    IN  /\ FinalStep("final_evidence")
        /\ pc' = "final_exit"
        /\ it' = [it EXCEPT !.completed = completed]
        /\ evidence' = IF completed THEN evidence ELSE "none"
        /\ UNCHANGED exc

\* The exception in flight, that of the cleanup, or the recorded signal.
FinalExit ==
    /\ FinalStep("final_exit")
    /\ pc' = IF exc # "none" \/ it.cleanup_error \/ it.finalization
             THEN "failed" ELSE "ready"
    /\ UNCHANGED <<evidence, it, exc>>

Ready ==
    /\ FinalStep("ready")
    /\ pc' = IF it.completed THEN "publish" ELSE "failed"
    /\ UNCHANGED <<evidence, it, exc>>

\* write_evidence, an atomic replacement.
Publish ==
    /\ pc = "publish"
    /\ \/ evidence' = "pass" /\ pc' = "validate" /\ UNCHANGED bounds
       \/ evidence' = "none" /\ pc' = "failed" /\ Fault
    /\ UNCHANGED <<build, qemu, target, lost, child, it, cl, exc>>

\* The published file is read back and validated.
Validate ==
    /\ pc = "validate"
    /\ \/ /\ pc' = "passed" /\ it' = [it EXCEPT !.committed = TRUE]
          /\ UNCHANGED <<evidence, bounds>>
       \/ evidence' = "none" /\ pc' = "failed" /\ Fault /\ UNCHANGED it
    /\ UNCHANGED <<build, qemu, target, lost, child, cl, exc>>

Finalize == Finally \/ FinalEvidence \/ FinalExit \/ Ready \/ Publish \/ Validate

-----------------------------------------------------------------------------
(* Signals.                                                                *)

\* The handler of main raises where execute has a handler of its own, or runs
\* no command.
SignalRaised ==
    /\ pc \in {Body[i] : i \in DOMAIN Body} \ {"finally"}
    /\ child = "none"
    /\ pc \in {"boot_assign", "cold_assign"} => "fork" \in Windows
    /\ Interrupt
    /\ Raise("cancel")
    /\ UNCHANGED <<world, child, it, cl>>

\* A command being watched is given up.
SignalGivesUp ==
    /\ child = "watched"
    /\ Interrupt
    /\ child' = "given_up"
    /\ UNCHANGED <<world, pc, it, cl, exc>>

\* Where nobody watches the command it is lost.
SignalLoses ==
    /\ \/ child = "started" /\ "fork" \in Windows
       \/ child = "given_up" /\ "terminate" \in Windows
    /\ Interrupt
    /\ child' = "none"
    /\ lost' = lost \cup {pc}
    /\ Raise("cancel")
    /\ UNCHANGED <<build, evidence, qemu, target, it, cl>>

\* Before the deferral of the finally clause is in force the signal ends
\* execute; after it, before publication, there is nothing left to restore.
SignalEnds ==
    /\ pc \in {"finally", "ready"}
    /\ pc = "finally" => "finally" \in Windows
    /\ Interrupt
    /\ pc' = "failed"
    /\ exc' = "cancel"
    /\ UNCHANGED <<world, child, it, cl>>

\* DeferredCancellation records.  The record of the publication is not read.
SignalRecorded ==
    /\ pc \in Deferring
    /\ Interrupt
    /\ cl' = [cl EXCEPT !.signum = @ \/ pc \in CleanupSteps]
    /\ it' = [it EXCEPT !.finalization = @ \/ pc \in {"final_evidence", "final_exit"}]
    /\ UNCHANGED <<world, pc, child, exc>>

Signal == SignalRaised \/ SignalGivesUp \/ SignalLoses \/ SignalEnds \/ SignalRecorded

-----------------------------------------------------------------------------
(* Runs.                                                                   *)

\* sdk-test.sh starts the controller, which knows nothing of an emulator that
\* an earlier run reported it could not stop.  Bound: a user who sees lost
\* processes waits for their end.
Begin ==
    /\ pc \in Ended /\ lost = {}
    /\ signals' = 0 /\ faults' = 0 /\ late' = FALSE
    /\ pc' = "preflight" /\ child' = "none" /\ exc' = "none"
    /\ it' = FreshIteration /\ cl' = FreshCleanup
    /\ qemu' = FALSE /\ target' = FALSE
    /\ evidence' = IF evidence = "none" THEN "none" ELSE "stale"
    /\ UNCHANGED <<build, lost>>

\* The user moves the retained results away, as the documentation asks.
MoveOutputs ==
    /\ pc \in Ended
    /\ build.learner \/ build.ide_kept
    /\ build' = [build EXCEPT !.learner = FALSE, !.ide_kept = FALSE]
    /\ UNCHANGED <<evidence, qemu, target, lost, control, bounds>>

\* A command nobody watches still has its effect.
LostEnds ==
    \E command \in lost :
      /\ lost' = lost \ {command}
      /\ build' \in Remains(command)
      /\ UNCHANGED <<evidence, qemu, target, control, bounds>>

\* The host loses power: processes go, files stay as they are.
LosePower ==
    /\ PowerLoss /\ pc \notin Ended
    /\ build' \in IF child = "none" THEN {build} ELSE Remains(pc)
    /\ qemu' = FALSE /\ target' = FALSE /\ lost' = {}
    /\ pc' = "dead" /\ child' = "none"
    /\ UNCHANGED <<evidence, it, cl, exc, bounds>>

Init ==
    /\ build \in InitialBuilds
    /\ evidence \in {"none", "stale"}
    /\ qemu = FALSE /\ target = FALSE /\ lost = {}
    /\ pc = "idle" /\ child = "none" /\ exc = "none"
    /\ it = FreshIteration /\ cl = FreshCleanup
    /\ late = FALSE /\ signals = 0 /\ faults = 0

\* The controller itself.
Controller == Execute \/ Command \/ Cleanup \/ Finalize

Next ==
    \/ Controller \/ Signal \/ QemuExits \/ LostEnds
    \/ Begin \/ MoveOutputs \/ LosePower

Spec == Init /\ [][Next]_vars

\* The controller goes on, and its commands end or reach their deadlines.
FairSpec == Spec /\ WF_vars(Controller)
-----------------------------------------------------------------------------
(* Safety.                                                                 *)

\* "Finish target, emulator, recipe, and workspace restoration before
\* publishing a pass-only evidence document atomically": as long as passing
\* evidence exists the build root is at rest, and at its publication the
\* emulators are gone and both retained outputs are there.  "Any earlier error
\* or interruption leaves no selected evidence", of an earlier run neither.
EvidenceMeansRestored ==
    /\ evidence = "pass" =>
         /\ build.config = "base"
         /\ ClosedWorkspace(TRUE, FALSE)
         /\ pc \in {"validate", "passed"} => ~qemu
         /\ pc = "validate" => build.learner /\ build.ide_kept
    /\ pc = "failed" => evidence = "none"

\* Whatever failed, and wherever, a run that has touched the build root has
\* tried everything before it ends: what is not restored was reported.
RestoredOrReported ==
    pc \in {"passed", "failed"} /\ it.tooling_ready =>
      /\ build.config # "base" => "composition" \in cl.failures
      /\ qemu => "runqemu stop" \in cl.failures
      /\ ~(build.workspace = "absent" \/ ClosedWorkspace(TRUE, FALSE)) =>
           "residue" \in cl.failures
      /\ cl.failures # {} => pc = "failed"

\* Cancellation and failure "terminate and reap the complete child process
\* group": a run that has ended leaves no command and no emulator behind that
\* it did not report.
NothingLeftRunning ==
    pc \in {"passed", "failed"} =>
      lost = {} /\ (qemu => "runqemu stop" \in cl.failures)

-----------------------------------------------------------------------------
(* Refinement.                                                             *)

Contract ==
    INSTANCE SdkContract WITH
      outcome <- CASE pc = "idle" -> "none"
                   [] pc \in {"passed", "failed", "dead"} -> pc
                   [] OTHER -> "running",
      at_rest <- build.config = "base" /\ ClosedWorkspace(TRUE, FALSE) /\ ~qemu,
      cancelled <- late

\* Every behaviour of the controller, its crashes included, is one that the
\* documented contract of a run allows.
ImplementsContract == Contract!Spec

-----------------------------------------------------------------------------
(* Liveness.                                                               *)

\* Every run ends, whatever its commands and its emulators do.
RunEnds == pc \notin Ended ~> pc \in Ended
=============================================================================
