------------------------- MODULE SdkIterationProofs -------------------------
(* The controller implements its contract, and whatever it has not restored  *)
(* it has reported: for any build root, any number of signals and failures,  *)
(* and any loss of power.                                                    *)
EXTENDS SdkIteration, TLAPS

BuildFields == {"workspace", "config", "devtool_conf", "ide_generated", "ide_kept", "learner"}
IterationFields ==
    {"workspace_added", "recipe_modified", "deployment_attempted", "active_boot",
     "tooling_ready", "completed", "cleanup_error", "finalization", "committed"}
CleanupFields ==
    {"ret", "configuration", "workspace_safe", "workspace_active", "can_use_devtool",
     "composition_restored", "failures", "cancellation", "signum"}

(* The text of execute before its finally clause, and stretches of it.       *)
ColdBoot == {"cold_spawn", "cold_assign", "cold_ready", "cold_absent", "cold_stop"}
Kept == {"cold_boot", "evidence"} \cup ColdBoot
Retaining ==
    {"boot", "boot_spawn", "boot_assign", "boot_ready", "absent", "attempt", "deploy",
     "sha256sum", "execute", "undeploy", "undeployed", "gone", "stop", "restore",
     "source_kept"} \cup Kept
Created ==
    {"activate", "status", "source", "modify", "modified", "build", "artifact",
     "ide_sdk", "retain_ide"} \cup Retaining
Tooled == {"recover", "compose", "security", "image", "prepare", "create"} \cup Created
Text == {"preflight", "retained", "tooling"} \cup Tooled
Unbooted ==
    (Text \ Retaining) \cup {"boot", "restore", "source_kept", "cold_boot", "evidence"}

InCleanup(kinds) == pc \in CleanupSteps /\ cl.ret \in kinds
Nested == {"recover", "restore"}
Last == pc \in {"finally", "final_evidence"} \/ InCleanup({"final"})
AfterCleanup ==
    {"final_evidence", "final_exit", "ready", "publish", "validate", "passed", "failed"}

(* Where the controller is, and in which of its three cleanups.              *)
PlaceInv ==
    /\ DOMAIN build = BuildFields /\ DOMAIN it = IterationFields /\ DOMAIN cl = CleanupFields
    /\ pc \in Text \cup CleanupSteps \cup {"finally"} \cup AfterCleanup \cup Ended
    /\ child \in {"none", "started", "watched", "given_up"}
    /\ child # "none" => pc \in Commands
    /\ pc \in CleanupSteps => cl.ret \in Nested \cup {"final"}

(* What the text has established where it stands, and a run that completed.  *)
KnownInv ==
    /\ pc \in Text \/ InCleanup(Nested) => exc = "none" /\ ~it.completed
    /\ pc \in Tooled \cup CleanupSteps => it.tooling_ready
    /\ qemu => it.tooling_ready
    /\ pc \in Created \/ InCleanup({"restore"}) => build.workspace # "absent"
    /\ pc \in Retaining \/ InCleanup({"restore"}) => build.ide_kept
    /\ pc \in Kept => build.learner
    /\ it.completed /\ pc \notin Ended =>
          it.tooling_ready /\ build.workspace # "absent" /\ build.ide_kept /\ build.learner

(* Evidence of an earlier run is gone, or will be; there is passing evidence *)
(* only after its publication.                                               *)
EvidenceInv ==
    /\ evidence \in {"none", "stale", "pass"}
    /\ pc \in (Text \ {"preflight"}) \cup {"final_exit", "ready", "publish", "failed"}
          \/ InCleanup(Nested) \/ (Last /\ it.completed) => evidence = "none"
    /\ pc = "validate" => evidence = "pass"
    /\ evidence = "pass" => pc \in {"validate", "passed", "dead"}

(* The session knows of the emulator, and no process is lost, unless a       *)
(* signal came through an open window.                                       *)
ForkOrTerminate == {"fork", "terminate"} \cap Windows # {}
EmulatorInv ==
    /\ it.active_boot = "none" \/ pc \in {"boot_spawn", "cold_spawn", "dead"} => ~qemu
    /\ pc \in Unbooted \/ InCleanup(Nested) => it.active_boot = "none"
    /\ pc \in {"boot_spawn", "boot_assign", "cold_spawn", "cold_assign"} =>
          it.active_boot = "created"
    /\ qemu /\ it.active_boot = "created" =>
          pc \in {"boot_assign", "cold_assign"} \/ (exc = "cancel" /\ ForkOrTerminate)
    /\ lost # {} => exc = "cancel" /\ ForkOrTerminate /\ pc # "dead"

(* What the cleanup has not restored it has recorded.  A lost process may    *)
(* undo what it has done.                                                    *)
Undisturbed == exc # "cancel" \/ ~ForkOrTerminate
Past(steps) == pc \in steps \/ (pc \in AfterCleanup /\ it.tooling_ready)
RestoredInv ==
    Undisturbed =>
      /\ Past({"c_restore", "c_residue", "c_compose", "c_end"}) =>
            (qemu => "runqemu stop" \in cl.failures)
      /\ Past({"c_residue", "c_compose", "c_end"}) =>
            (build.config # "base" => "composition" \in cl.failures)
      /\ Past({"c_compose", "c_end"}) =>
            (~(build.workspace = "absent" \/ ClosedWorkspace(TRUE, FALSE)) =>
               "residue" \in cl.failures)

(* What was recorded ends the run without a pass.                            *)
VerdictInv ==
    /\ pc \in AfterCleanup /\ it.tooling_ready /\ ~it.cleanup_error => cl.failures = {}
    /\ pc = "final_exit" /\ it.completed => ~it.cleanup_error
    /\ pc \in {"ready", "publish", "validate", "passed"} => exc = "none" /\ ~it.cleanup_error
    /\ pc \in {"publish", "validate"} => it.completed
    /\ evidence = "pass" => build.config = "base" /\ ClosedWorkspace(TRUE, FALSE) /\ ~qemu

(* A signal before the publication is remembered until it is raised.         *)
LateInv ==
    late =>
      /\ pc \in Text => child = "given_up"
      /\ pc = "finally" => exc # "none"
      /\ pc \in CleanupSteps => exc # "none" \/ cl.signum \/ cl.cancellation
      /\ pc \in {"final_evidence", "final_exit"} =>
            exc # "none" \/ it.cleanup_error \/ it.finalization
      /\ pc \notin {"ready", "publish", "validate"}

SdkInv ==
    /\ PlaceInv /\ KnownInv /\ EvidenceInv /\ EmulatorInv
    /\ RestoredInv /\ VerdictInv /\ LateInv

(* The text is followed in its order.                                        *)
LEMMA Order ==
    /\ After("preflight") = "retained" /\ After("retained") = "tooling"
    /\ After("tooling") = "recover" /\ After("recover") = "compose"
    /\ After("compose") = "security" /\ After("security") = "image"
    /\ After("image") = "prepare" /\ After("prepare") = "create"
    /\ After("create") = "activate" /\ After("activate") = "status"
    /\ After("status") = "source" /\ After("source") = "modify"
    /\ After("modify") = "modified" /\ After("modified") = "build"
    /\ After("build") = "artifact" /\ After("artifact") = "ide_sdk"
    /\ After("ide_sdk") = "retain_ide" /\ After("retain_ide") = "boot"
    /\ After("boot") = "boot_spawn" /\ After("boot_spawn") = "boot_assign"
    /\ After("boot_assign") = "boot_ready" /\ After("boot_ready") = "absent"
    /\ After("absent") = "attempt" /\ After("attempt") = "deploy"
    /\ After("deploy") = "sha256sum" /\ After("sha256sum") = "execute"
    /\ After("execute") = "undeploy" /\ After("undeploy") = "undeployed"
    /\ After("undeployed") = "gone" /\ After("gone") = "stop"
    /\ After("stop") = "restore" /\ After("restore") = "source_kept"
    /\ After("source_kept") = "cold_boot" /\ After("cold_boot") = "cold_spawn"
    /\ After("cold_spawn") = "cold_assign" /\ After("cold_assign") = "cold_ready"
    /\ After("cold_ready") = "cold_absent" /\ After("cold_absent") = "cold_stop"
    /\ After("cold_stop") = "evidence" /\ After("evidence") = "finally"
<1>1. /\ After("preflight") = "retained" /\ After("retained") = "tooling"
      /\ After("tooling") = "recover" /\ After("recover") = "compose"
  BY DEF After, Body
<1>2. /\ After("compose") = "security" /\ After("security") = "image"
      /\ After("image") = "prepare" /\ After("prepare") = "create"
  BY DEF After, Body
<1>3. /\ After("create") = "activate" /\ After("activate") = "status"
      /\ After("status") = "source" /\ After("source") = "modify"
  BY DEF After, Body
<1>4. /\ After("modify") = "modified" /\ After("modified") = "build"
      /\ After("build") = "artifact" /\ After("artifact") = "ide_sdk"
  BY DEF After, Body
<1>5. /\ After("ide_sdk") = "retain_ide" /\ After("retain_ide") = "boot"
      /\ After("boot") = "boot_spawn" /\ After("boot_spawn") = "boot_assign"
  BY DEF After, Body
<1>6. /\ After("boot_assign") = "boot_ready" /\ After("boot_ready") = "absent"
      /\ After("absent") = "attempt" /\ After("attempt") = "deploy"
  BY DEF After, Body
<1>7. /\ After("deploy") = "sha256sum" /\ After("sha256sum") = "execute"
      /\ After("execute") = "undeploy" /\ After("undeploy") = "undeployed"
  BY DEF After, Body
<1>8. /\ After("undeployed") = "gone" /\ After("gone") = "stop"
      /\ After("stop") = "restore" /\ After("restore") = "source_kept"
  BY DEF After, Body
<1>9. /\ After("source_kept") = "cold_boot" /\ After("cold_boot") = "cold_spawn"
      /\ After("cold_spawn") = "cold_assign" /\ After("cold_assign") = "cold_ready"
  BY DEF After, Body
<1>10. /\ After("cold_ready") = "cold_absent" /\ After("cold_absent") = "cold_stop"
       /\ After("cold_stop") = "evidence" /\ After("evidence") = "finally"
  BY DEF After, Body
<1> QED
  BY <1>1, <1>2, <1>3, <1>4, <1>5, <1>6, <1>7, <1>8, <1>9, <1>10

(* The body of execute is its text, and the finally clause.                  *)
LEMMA TextIsBody == {Body[i] : i \in DOMAIN Body} \ {"finally"} = Text
  BY DEF Body, Text, Tooled, Created, Retaining, Kept, ColdBoot

(* From a step of the text the next one, or the finally clause, follows.     *)
LEMMA TextFollows == \A step \in Text : After(step) \in (Text \ {"preflight"}) \cup {"finally"}
  BY Order DEF Text, Tooled, Created, Retaining, Kept, ColdBoot

(* A step of the text that raises an exception, with nothing passed over.    *)
LEMMA RaisedKeeps ==
  ASSUME SdkInv, pc \in Text, child' = "none", pc' = "finally", UNCHANGED cl,
         exc' \in {"error", "cancel"}, DOMAIN build' = BuildFields, DOMAIN it' = IterationFields,
         ~it'.completed, qemu' => it'.tooling_ready, evidence' \in {evidence, "none"},
         EmulatorInv'
  PROVE  SdkInv'
<1> USE DEF SdkInv
<1>1. pc \notin CleanupSteps /\ pc # "validate" /\ pc \notin AfterCleanup /\ pc \notin Ended
  BY DEF Text, Tooled, Created, Retaining, Kept, ColdBoot, CleanupSteps, AfterCleanup, Ended
<1>2. pc' \notin Text /\ pc' \notin CleanupSteps /\ pc' \notin AfterCleanup /\ pc' \notin Ended
  BY DEF Text, Tooled, Created, Retaining, Kept, ColdBoot, CleanupSteps, AfterCleanup, Ended
<1>3. evidence \in {"none", "stale"} 
  BY <1>1 DEF EvidenceInv, Ended
<1>4. PlaceInv'
  BY <1>2 DEF PlaceInv
<1>5. KnownInv'
  BY <1>2 DEF KnownInv, InCleanup, Tooled, Created, Retaining, Kept, Text
<1>6. EvidenceInv'
  BY <1>2, <1>3 DEF EvidenceInv, InCleanup, Last
<1>7. RestoredInv' /\ VerdictInv' /\ LateInv'
  BY <1>2, <1>3 DEF RestoredInv, VerdictInv, LateInv, Past, AfterCleanup, CleanupSteps
<1> QED
  BY <1>4, <1>5, <1>6, <1>7

(* A step of the text that goes on.                                          *)
LEMMA ProceededKeeps ==
  ASSUME SdkInv, pc \in Text, child' = "none", pc' = After(pc), UNCHANGED <<cl, exc, late>>,
         child # "given_up",
         DOMAIN build' = BuildFields, DOMAIN it' = IterationFields,
         evidence' = IF pc = "preflight" THEN "none" ELSE evidence,
         KnownInv', EmulatorInv'
  PROVE  SdkInv'
<1> USE DEF SdkInv
<1>1. pc \notin CleanupSteps /\ pc # "validate" /\ pc \notin AfterCleanup /\ pc \notin Ended
  BY DEF Text, Tooled, Created, Retaining, Kept, ColdBoot, CleanupSteps, AfterCleanup, Ended
<1>2. pc' \in (Text \ {"preflight"}) \cup {"finally"}
  BY TextFollows
<1>3. pc' \notin CleanupSteps /\ pc' \notin AfterCleanup /\ pc' \notin Ended
  BY <1>2 DEF Text, Tooled, Created, Retaining, Kept, ColdBoot, CleanupSteps, AfterCleanup, Ended
<1>4. evidence' = "none"
  BY <1>1 DEF EvidenceInv, Ended
<1>5. ~late
  BY DEF LateInv
<1>6. PlaceInv'
  BY <1>2, <1>3 DEF PlaceInv
<1>7. EvidenceInv'
  BY <1>2, <1>3, <1>4 DEF EvidenceInv, InCleanup, Last, Ended, AfterCleanup
<1>8. RestoredInv' /\ VerdictInv' /\ LateInv'
  BY <1>3, <1>4, <1>5 DEF RestoredInv, VerdictInv, LateInv, Past, AfterCleanup, CleanupSteps
<1> QED
  BY <1>6, <1>7, <1>8

(* The steps of the text that wait for no command.                           *)
LEMMA TextKeeps ==
  ASSUME SdkInv,
         \/ Preflight \/ Retained \/ Tooling \/ Prepare \/ Activate \/ Source \/ Modified
         \/ RetainIde \/ BootCreate \/ BootSpawn \/ BootAssign \/ BootReady \/ Attempt
         \/ Undeployed \/ Stop \/ SourceKept \/ Evidence
  PROVE  SdkInv'
<1> USE DEF At, Raise, Proceed, Fails, Fault, bounds, world, BuildFields, IterationFields,
            Text, Tooled, Created, Retaining, Kept, ColdBoot, Unbooted, CleanupSteps, Ended,
            SdkInv, PlaceInv, KnownInv, EmulatorInv, InCleanup
<1>1. /\ pc \in Text /\ pc \notin Commands
      /\ child = "none" /\ child' = "none" /\ UNCHANGED cl
  BY DEF Commands, RemoteCommands, DevtoolCommands,
         Preflight, Retained, Tooling, Prepare, Activate, Source, Modified, RetainIde,
         BootCreate, BootSpawn, BootAssign, BootReady, Attempt, Undeployed, Stop,
         SourceKept, Evidence
<1>2. /\ PlaceInv /\ KnownInv /\ EmulatorInv
      /\ exc = "none" /\ ~it.completed /\ pc \notin CleanupSteps /\ lost = {}
  BY <1>1
<1> DEFINE Typed == DOMAIN build' = BuildFields /\ DOMAIN it' = IterationFields
           Cleared == evidence' = IF pc = "preflight" THEN "none" ELSE evidence
           GoesOn == Typed /\ Cleared /\ Proceed /\ KnownInv' /\ EmulatorInv'
           Raises ==
             /\ Typed /\ evidence' \in {evidence, "none"} /\ EmulatorInv' /\ ~it'.completed
             /\ qemu' => it'.tooling_ready
             /\ pc' = "finally" /\ exc' \in {"error", "cancel"}
<1>3. GoesOn => SdkInv'
  BY <1>1, ProceededKeeps
<1>4. Raises => SdkInv'
  BY <1>1, RaisedKeeps
<1> HIDE DEF SdkInv
<1>5. CASE Preflight
  <2>1. CASE Proceed
    BY <1>5, <2>1, <1>1, <1>2, <1>3, Order DEF Preflight
  <2>2. CASE ~Proceed
    BY <1>5, <2>2, <1>1, <1>2, <1>4 DEF Preflight
  <2> QED
    BY <2>1, <2>2
<1>6. CASE Retained
  <2>1. CASE Proceed
    BY <1>6, <2>1, <1>1, <1>2, <1>3, Order DEF Retained
  <2>2. CASE ~Proceed
    BY <1>6, <2>2, <1>1, <1>2, <1>4 DEF Retained
  <2> QED
    BY <2>1, <2>2
<1>7. CASE Tooling
  <2>1. CASE Proceed
    BY <1>7, <2>1, <1>1, <1>2, <1>3, Order DEF Tooling
  <2>2. CASE ~Proceed
    BY <1>7, <2>2, <1>1, <1>2, <1>4 DEF Tooling
  <2> QED
    BY <2>1, <2>2
<1>8. CASE Prepare
  <2>1. CASE Proceed
    BY <1>8, <2>1, <1>1, <1>2, <1>3, Order DEF Prepare
  <2>2. CASE ~Proceed
    BY <1>8, <2>2, <1>1, <1>2, <1>4 DEF Prepare
  <2> QED
    BY <2>1, <2>2
<1>9. CASE Activate
  <2>1. CASE Proceed
    BY <1>9, <2>1, <1>1, <1>2, <1>3, Order DEF Activate, HalfConfigured
  <2>2. CASE ~Proceed
    BY <1>9, <2>2, <1>1, <1>2, <1>4 DEF Activate, HalfConfigured
  <2> QED
    BY <2>1, <2>2
<1>10. CASE Source
  <2>1. CASE Proceed
    BY <1>10, <2>1, <1>1, <1>2, <1>3, Order DEF Source
  <2>2. CASE ~Proceed
    BY <1>10, <2>2, <1>1, <1>2, <1>4 DEF Source
  <2> QED
    BY <2>1, <2>2
<1>11. CASE Modified
  BY <1>11, <1>1, <1>2, <1>3, Order DEF Modified
<1>12. CASE RetainIde
  <2>1. CASE Proceed
    <3>a. pc = "retain_ide" /\ pc' = "boot" /\ exc' = "none"
      BY <1>12, <2>1, <1>2, Order DEF RetainIde
    <3>b. it.tooling_ready /\ build.workspace # "absent" /\ ~it.completed
      BY <3>a, <1>2
    <3>c. build' = [build EXCEPT !.ide_generated = FALSE, !.ide_kept = TRUE] /\ UNCHANGED it
      BY <3>a, <1>12 DEF RetainIde
    <3>1. build'.ide_kept /\ build'.workspace = build.workspace
      BY <3>c, <1>2
    <3>2. KnownInv'
      BY <3>1, <3>a, <3>b, <3>c
    <3>3. EmulatorInv'
      BY <3>a, <3>c, <1>12, <1>2 DEF RetainIde
    <3> QED
      BY <3>a, <3>2, <3>3, <1>12, <2>1, <1>2, <1>3 DEF RetainIde
  <2>2. CASE ~Proceed
    BY <1>12, <2>2, <1>1, <1>2, <1>4 DEF RetainIde
  <2> QED
    BY <2>1, <2>2
<1>13. CASE BootCreate
  BY <1>13, <1>1, <1>2, <1>3, Order DEF BootCreate
<1>14. CASE BootSpawn
  <2>1. CASE Proceed
    BY <1>14, <2>1, <1>1, <1>2, <1>3, Order DEF BootSpawn
  <2>2. CASE ~Proceed
    BY <1>14, <2>2, <1>1, <1>2, <1>4 DEF BootSpawn
  <2> QED
    BY <2>1, <2>2
<1>15. CASE BootAssign
  BY <1>15, <1>1, <1>2, <1>3, Order DEF BootAssign
<1>16. CASE BootReady
  <2>1. CASE Proceed
    BY <1>16, <2>1, <1>1, <1>2, <1>3, Order DEF BootReady
  <2>2. CASE ~Proceed
    BY <1>16, <2>2, <1>1, <1>2, <1>4 DEF BootReady
  <2> QED
    BY <2>1, <2>2
<1>17. CASE Attempt
  BY <1>17, <1>1, <1>2, <1>3, Order DEF Attempt
<1>18. CASE Undeployed
  BY <1>18, <1>1, <1>2, <1>3, Order DEF Undeployed
<1>19. CASE Stop
  <2>1. CASE Proceed
    BY <1>19, <2>1, <1>1, <1>2, <1>3, Order DEF Stop, Stopped
  <2>2. CASE ~Proceed /\ UNCHANGED <<world, it>>
    BY <1>19, <2>2, <1>1, <1>2, <1>4 DEF Stop, Interrupt
  <2>3. CASE Stopped /\ Raise("cancel") /\ it' = [it EXCEPT !.active_boot = "created"]
    <3>1. ~(qemu /\ it.active_boot = "created")
      BY <1>19, <1>2 DEF Stop
    <3>2. lost' = {} /\ ~qemu' /\ it'.active_boot = "created" /\ ~it'.completed
      BY <2>3, <3>1, <1>2 DEF Stopped
    <3> QED
      BY <2>3, <3>2, <1>2, <1>4 DEF Stopped
  <2> QED
    BY <1>19, <2>1, <2>2, <2>3 DEF Stop
<1>20. CASE SourceKept
  <2>1. CASE Proceed
    BY <1>20, <2>1, <1>1, <1>2, <1>3, Order DEF SourceKept
  <2>2. CASE ~Proceed
    BY <1>20, <2>2, <1>1, <1>2, <1>4 DEF SourceKept
  <2> QED
    BY <2>1, <2>2
<1>21. CASE Evidence
  <2>1. CASE Proceed
    BY <1>21, <2>1, <1>1, <1>2, <1>3, Order DEF Evidence
  <2>2. CASE ~Proceed
    BY <1>21, <2>2, <1>1, <1>2, <1>4 DEF Evidence
  <2> QED
    BY <2>1, <2>2
<1> QED
  BY <1>5, <1>6, <1>7, <1>8, <1>9, <1>10, <1>11, <1>12, <1>13,
     <1>14, <1>15, <1>16, <1>17, <1>18, <1>19, <1>20, <1>21

(* What a command leaves of the build root, done or half done.               *)
LEMMA CommandsLeave ==
  ASSUME DOMAIN build = BuildFields, NEW command, NEW b \in Remains(command)
  PROVE  /\ DOMAIN b = BuildFields
         /\ b.ide_kept = build.ide_kept /\ b.learner = build.learner
         /\ build.workspace # "absent" => b.workspace # "absent"
<1> DEFINE Same(x) == /\ DOMAIN x = BuildFields
                      /\ x.ide_kept = build.ide_kept /\ x.learner = build.learner
                      /\ build.workspace # "absent" => x.workspace # "absent"
<1>1. \A x \in Results(command) : Same(x)
  <2>1. CASE command = "create"
    BY <2>1 DEF Results, BuildFields
  <2>2. CASE command = "modify"
    BY <2>2 DEF Results, BuildFields
  <2>3. CASE command = "ide_sdk"
    BY <2>3 DEF Results, BuildFields
  <2>4. CASE command = "reset"
    BY <2>4 DEF Results, BuildFields
  <2>5. CASE command = "remove-layer"
    BY <2>5 DEF Results, BuildFields
  <2>6. CASE command \notin {"create", "modify", "ide_sdk", "reset", "remove-layer"}
    BY <2>6 DEF Results
  <2> QED
    BY <2>1, <2>2, <2>3, <2>4, <2>5, <2>6
<1>2. \A x \in Results(command) : Same([x EXCEPT !.workspace = "partial"])
  BY <1>1 DEF BuildFields
<1> QED
  BY <1>1, <1>2 DEF Remains

(* The commands of the text.                                                 *)
LEMMA CommandKeeps ==
  ASSUME SdkInv, Command
  PROVE  SdkInv'
<1> USE DEF Raise, Proceed, Fault, bounds, world,
            Text, Tooled, Created, Retaining, Kept, ColdBoot, Unbooted, CleanupSteps, Ended,
            Commands, RemoteCommands, DevtoolCommands, InCleanup
<1>1. /\ PlaceInv /\ KnownInv /\ EmulatorInv /\ LateInv
      /\ pc \in Text /\ pc \in Commands /\ pc \notin CleanupSteps
      /\ exc = "none" /\ ~it.completed /\ lost = {} /\ DOMAIN build = BuildFields
      /\ ~(qemu /\ it.active_boot = "created")
  BY DEF SdkInv, PlaceInv, KnownInv, EmulatorInv, Command, Spawn, Watch, CommandSucceeds,
         CommandFails, Terminate
<1>2. CASE Spawn \/ Watch
  <2>1. UNCHANGED <<world, pc, it, cl, exc, bounds>> /\ child # "given_up"
        /\ child' \in {"started", "watched"}
    BY <1>2 DEF Spawn, Watch
  <2>2. ~late
    BY <2>1, <1>1 DEF LateInv
  <2>3. PlaceInv' /\ LateInv'
    BY <2>1, <2>2, <1>1 DEF PlaceInv, LateInv
  <2>4. KnownInv' /\ EmulatorInv'
    BY <2>1, <1>1 DEF KnownInv, EmulatorInv
  <2>5. EvidenceInv'
    BY <2>1 DEF SdkInv, EvidenceInv, Last
  <2>6. RestoredInv' /\ VerdictInv'
    BY <2>1 DEF SdkInv, RestoredInv, VerdictInv, Past, Undisturbed, ClosedWorkspace
  <2> QED
    BY <2>3, <2>4, <2>5, <2>6 DEF SdkInv
<1>3. CASE CommandSucceeds
  <2>1. build' \in Remains(pc)
    BY <1>3 DEF CommandSucceeds, Remains
  <2>2. DOMAIN build' = BuildFields /\ UNCHANGED <<build.ide_kept, build.learner>>
        /\ (build.workspace # "absent" => build'.workspace # "absent")
    BY <2>1, <1>1, CommandsLeave
  <2>3. pc = "create" => build'.workspace # "absent"
    BY ZenonT(40), <1>1, <1>3 DEF CommandSucceeds, Results, BuildFields
  <2>4. UNCHANGED <<qemu, it, lost>> /\ pc' = After(pc) /\ exc' = "none"
    BY <1>1, <1>3 DEF CommandSucceeds
  <2>5. KnownInv'
    BY <1>1, <2>2, <2>3, <2>4, Order DEF KnownInv
  <2>6. EmulatorInv'
    BY <1>1, <2>4, Order DEF EmulatorInv
  <2> QED
    BY <1>1, <1>3, <2>2, <2>5, <2>6, ProceededKeeps DEF CommandSucceeds, PlaceInv
<1>4. CASE CommandFails \/ Terminate
  <2>1. build' \in Remains(pc) /\ child' = "none"
        /\ pc' = "finally" /\ exc' \in {"error", "cancel"}
        /\ UNCHANGED <<evidence, qemu, lost, it, cl>>
    BY <1>4 DEF CommandFails, Terminate
  <2>2. EmulatorInv'
    BY <2>1, <1>1 DEF EmulatorInv
  <2>3. DOMAIN build' = BuildFields
    BY <1>1, <2>1, CommandsLeave
  <2>4. DOMAIN it' = IterationFields /\ ~it'.completed /\ (qemu' => it'.tooling_ready)
    BY <1>1, <2>1 DEF PlaceInv, KnownInv
  <2> QED
    BY <1>1, <2>1, <2>2, <2>3, <2>4, RaisedKeeps
<1> QED
  BY <1>2, <1>3, <1>4 DEF Command

(* The cleanups of execute begin.                                            *)
LEMMA RecoveryKeeps ==
  ASSUME SdkInv, Recover \/ Restore
  PROVE  SdkInv'
<1> USE DEF Raise, Proceed, Fails, Fault, bounds, world, BuildFields,
            Text, Tooled, Created, Retaining, Kept, ColdBoot, Unbooted, CleanupSteps, Ended,
            InCleanup
<1>1. /\ PlaceInv /\ KnownInv /\ EmulatorInv /\ EvidenceInv
      /\ pc \in {"recover", "restore"} /\ child = "none" /\ ~late
      /\ exc = "none" /\ ~it.completed /\ lost = {} /\ evidence = "none"
      /\ it.active_boot = "none" /\ ~qemu /\ it.tooling_ready
  BY DEF SdkInv, PlaceInv, KnownInv, EmulatorInv, EvidenceInv, LateInv, Recover, Restore,
         Commands, RemoteCommands, DevtoolCommands
<1>2. CASE pc' = "c_ide"
  <2>1. /\ cl' = [FreshCleanup EXCEPT !.ret = pc]
        /\ UNCHANGED <<world, child, it, exc, late>>
    BY <1>2, <1>1, Order DEF Recover, Restore
  <2>2. DOMAIN cl' = CleanupFields /\ cl'.ret = pc
    BY <2>1 DEF FreshCleanup, CleanupFields
  <2>3. PlaceInv' /\ KnownInv' /\ EvidenceInv' /\ EmulatorInv'
    BY <1>1, <1>2, <2>1, <2>2 DEF PlaceInv, KnownInv, EvidenceInv, EmulatorInv, Nested, Last
  <2>4. RestoredInv' /\ VerdictInv' /\ LateInv'
    BY <1>1, <1>2, <2>1 DEF RestoredInv, VerdictInv, LateInv, Past, AfterCleanup
  <2> QED
    BY <2>3, <2>4 DEF SdkInv
<1>3. CASE Recover /\ Proceed
  <2>1. /\ build' = [build EXCEPT !.config = "base"]
        /\ UNCHANGED <<evidence, qemu, lost, child, it, cl>>
    BY <1>3, Order DEF Recover
  <2>2. DOMAIN build' = BuildFields /\ pc = "recover" /\ pc' = "compose"
    BY <2>1, <1>1, <1>3, Order DEF PlaceInv, Recover
  <2>3. KnownInv' /\ EmulatorInv'
    BY <1>1, <1>3, <2>1, <2>2 DEF KnownInv, EmulatorInv
  <2> QED
    BY <1>1, <1>3, <2>1, <2>2, <2>3, ProceededKeeps DEF PlaceInv
<1>4. CASE Recover /\ Fails
  <2>1. build' \in HalfConfigured /\ UNCHANGED <<evidence, qemu, lost, child, it, cl>>
    BY <1>4, Order DEF Recover
  <2>2. DOMAIN build' = BuildFields
    BY <2>1, <1>1 DEF PlaceInv, HalfConfigured
  <2>3. EmulatorInv'
    BY <1>1, <1>4, <2>1 DEF EmulatorInv
  <2> QED
    BY <1>1, <1>4, <2>1, <2>2, <2>3, RaisedKeeps DEF PlaceInv
<1> QED
  BY <1>1, <1>2, <1>3, <1>4 DEF Recover, Restore

(* A step within the cleanup, whose verdict so far is not lost.              *)
LEMMA CleanupMoves ==
  ASSUME SdkInv, pc \in CleanupSteps, pc' \in CleanupSteps, UNCHANGED <<child, exc, evidence>>,
         DOMAIN build' = BuildFields, build.ide_kept => build'.ide_kept,
         build'.learner = build.learner,
         build.workspace # "absent" => build'.workspace # "absent",
         DOMAIN it' = IterationFields, it'.tooling_ready = it.tooling_ready,
         it'.completed = it.completed,
         DOMAIN cl' = CleanupFields, cl'.ret = cl.ret,
         cl.signum => cl'.signum, cl.cancellation => cl'.cancellation,
         late' => late \/ cl'.cancellation \/ cl'.signum,
         EmulatorInv', RestoredInv'
  PROVE  SdkInv'
<1> USE DEF InCleanup, Text, Tooled, Created, Retaining, Kept, ColdBoot, CleanupSteps, Ended
<1>1. PlaceInv'
  BY DEF SdkInv, PlaceInv, Commands, RemoteCommands, DevtoolCommands
<1>2. KnownInv'
  BY DEF SdkInv, KnownInv
<1>3. evidence # "pass"
  BY DEF SdkInv, EvidenceInv
<1>4. EvidenceInv'
  BY <1>3 DEF SdkInv, EvidenceInv, Last
<1>5. VerdictInv'
  BY <1>3 DEF VerdictInv, AfterCleanup
<1>6. LateInv'
  BY DEF SdkInv, LateInv
<1> QED
  BY <1>1, <1>2, <1>4, <1>5, <1>6 DEF SdkInv

(* A step that leaves the emulator alone.                                    *)
LEMMA EmulatorAlone ==
  ASSUME EmulatorInv, pc \in CleanupSteps, pc' \in CleanupSteps,
         UNCHANGED <<qemu, lost, exc>>, it'.active_boot = it.active_boot, cl'.ret = cl.ret
  PROVE  EmulatorInv'
  BY DEF EmulatorInv, InCleanup, Unbooted, Text, Tooled, Created, Retaining, Kept, ColdBoot,
         CleanupSteps

(* A configuration half written changes nothing but the configuration.       *)
LEMMA HalfConfiguredLeaves ==
  ASSUME DOMAIN build = BuildFields, NEW b \in HalfConfigured
  PROVE  /\ DOMAIN b = BuildFields /\ b.ide_kept = build.ide_kept /\ b.learner = build.learner
         /\ b.workspace = build.workspace /\ b.ide_generated = build.ide_generated
  BY DEF HalfConfigured, BuildFields

(* The steps of the cleanup in which others than the emulator take part.     *)
LEMMA CleanupKeeps ==
  ASSUME SdkInv,
         \/ CleanupIde \/ CleanupConfig \/ CleanupWorkspace \/ CleanupDevtoolConf
         \/ CleanupDecide \/ CleanupUndeploy \/ CleanupRemoveFile
         \/ CleanupStatus \/ CleanupReset \/ CleanupResting \/ CleanupLayer
         \/ CleanupRestore \/ CleanupResidue \/ CleanupCompose
  PROVE  SdkInv'
<1> USE DEF CleanupAt, CleanupTo, Keep, NoFault, Fault, Failed, Unsafe, bounds,
            BuildFields, IterationFields, CleanupFields
<1> DEFINE Frame ==
             /\ pc \in CleanupSteps /\ pc' \in CleanupSteps
             /\ UNCHANGED <<child, exc, evidence, late, qemu, lost>>
           BuildKept ==
             /\ DOMAIN build' = BuildFields
             /\ build.ide_kept => build'.ide_kept
             /\ build'.learner = build.learner
             /\ build.workspace # "absent" => build'.workspace # "absent"
           ItKept ==
             /\ DOMAIN it' = IterationFields /\ it'.tooling_ready = it.tooling_ready
             /\ it'.completed = it.completed /\ it'.active_boot = it.active_boot
           ClKept ==
             /\ DOMAIN cl' = CleanupFields /\ cl'.ret = cl.ret
             /\ cl'.signum = cl.signum /\ cl'.cancellation = cl.cancellation
             /\ cl.failures \subseteq cl'.failures
<1>1. /\ DOMAIN build = BuildFields /\ DOMAIN it = IterationFields /\ DOMAIN cl = CleanupFields
      /\ RestoredInv
  BY DEF SdkInv, PlaceInv
<1>2. ASSUME Frame, BuildKept, ItKept, ClKept, RestoredInv'
      PROVE  SdkInv'
  <2>1. EmulatorInv'
    BY <1>2, EmulatorAlone DEF SdkInv
  <2> QED
    BY <1>2, <2>1, CleanupMoves
<1>3. ASSUME pc' \in CleanupSteps \ {"c_restore", "c_residue", "c_compose", "c_end"}
      PROVE  RestoredInv'
  BY <1>3 DEF RestoredInv, Past, CleanupSteps, AfterCleanup
<1>4. CASE CleanupIde
  <2>1. Frame /\ pc' = "c_config"
    BY <1>4 DEF CleanupIde, CleanupSteps
  <2>2. BuildKept /\ ItKept /\ ClKept
    BY <1>4, <1>1 DEF CleanupIde
  <2> QED
    BY <2>1, <2>2, <1>2, <1>3 DEF CleanupSteps
<1>5. CASE CleanupConfig
  <2>1. Frame /\ pc' = "c_workspace"
    BY <1>5 DEF CleanupConfig, CleanupSteps
  <2>2. BuildKept /\ ItKept /\ ClKept
    BY <1>5, <1>1 DEF CleanupConfig
  <2> QED
    BY <2>1, <2>2, <1>2, <1>3 DEF CleanupSteps
<1>6. CASE CleanupWorkspace
  <2>1. Frame /\ pc' = "c_devtool_conf"
    BY <1>6 DEF CleanupWorkspace, CleanupSteps
  <2>2. BuildKept /\ ItKept /\ ClKept
    BY <1>6, <1>1 DEF CleanupWorkspace
  <2> QED
    BY <2>1, <2>2, <1>2, <1>3 DEF CleanupSteps
<1>7. CASE CleanupDevtoolConf
  <2>1. Frame /\ pc' = "c_decide"
    BY <1>7 DEF CleanupDevtoolConf, CleanupSteps
  <2>2. BuildKept /\ ItKept /\ ClKept
    BY <1>7, <1>1 DEF CleanupDevtoolConf
  <2> QED
    BY <2>1, <2>2, <1>2, <1>3 DEF CleanupSteps
<1>8. CASE CleanupDecide
  <2>1. Frame /\ pc' = "c_undeploy"
    BY <1>8 DEF CleanupDecide, Configure, CleanupSteps
  <2>2. ItKept /\ ClKept
    BY <1>8, <1>1 DEF CleanupDecide, Configure
  <2>3. build' \in HalfConfigured \cup {build, [build EXCEPT !.config = "base"]}
    BY <1>8 DEF CleanupDecide, Configure
  <2>4. BuildKept
    BY <2>3, <1>1, HalfConfiguredLeaves
  <2> QED
    BY <2>1, <2>2, <2>4, <1>2, <1>3 DEF CleanupSteps
<1>9. CASE CleanupUndeploy
  <2>1. Frame /\ pc' \in {"c_stop", "c_remove_file"}
    BY <1>9 DEF CleanupUndeploy, CleanupSteps
  <2>2. BuildKept /\ ItKept /\ ClKept
    BY <1>9, <1>1 DEF CleanupUndeploy
  <2> QED
    BY <2>1, <2>2, <1>2, <1>3 DEF CleanupSteps
<1>10. CASE CleanupRemoveFile
  <2>1. Frame /\ pc' = "c_stop"
    BY <1>10 DEF CleanupRemoveFile, CleanupSteps
  <2>2. BuildKept /\ ItKept /\ ClKept
    BY <1>10, <1>1 DEF CleanupRemoveFile
  <2> QED
    BY <2>1, <2>2, <1>2, <1>3 DEF CleanupSteps
<1>11. CASE CleanupStatus
  <2>1. Frame /\ pc' = "c_reset"
    BY <1>11 DEF CleanupStatus, CleanupSteps
  <2>2. \/ UNCHANGED <<build, it>>
        \/ build' = build /\ it' = [it EXCEPT !.recipe_modified = @ \/ build.workspace = "active"]
    BY <1>11 DEF CleanupStatus
  <2>3. BuildKept /\ ItKept
    BY <2>2, <1>1
  <2>4. \/ cl' = cl \/ cl' = Failed("devtool state discovery")
        \/ cl' = [Failed("residue") EXCEPT !.can_use_devtool = FALSE]
    BY <1>11 DEF CleanupStatus
  <2>5. ClKept
    BY <2>4, <1>1
  <2> QED
    BY <2>1, <2>3, <2>5, <1>2, <1>3 DEF CleanupSteps
<1>12. CASE CleanupReset
  <2>1. Frame /\ pc' = "c_resting"
    BY <1>12 DEF CleanupReset, CleanupSteps
  <2>2. ItKept /\ ClKept
    BY <1>12, <1>1 DEF CleanupReset
  <2>3. build' \in Remains("reset")
    BY <1>12 DEF CleanupReset, Remains
  <2>4. BuildKept
    BY <2>3, <1>1, CommandsLeave
  <2> QED
    BY <2>1, <2>2, <2>4, <1>2, <1>3 DEF CleanupSteps
<1>13. CASE CleanupResting
  <2>1. Frame /\ pc' = "c_layer"
    BY <1>13 DEF CleanupResting, CleanupSteps
  <2>2. BuildKept /\ ItKept /\ ClKept
    BY <1>13, <1>1 DEF CleanupResting
  <2> QED
    BY <2>1, <2>2, <1>2, <1>3 DEF CleanupSteps
<1>14. CASE CleanupLayer
  <2>1. Frame /\ pc' = "c_stop_again"
    BY <1>14 DEF CleanupLayer, CleanupSteps
  <2>2. ItKept /\ ClKept
    BY <1>14, <1>1 DEF CleanupLayer
  <2>3. build' \in Remains("remove-layer")
    BY <1>14 DEF CleanupLayer, Remains
  <2>4. BuildKept
    BY <2>3, <1>1, CommandsLeave
  <2> QED
    BY <2>1, <2>2, <2>4, <1>2, <1>3 DEF CleanupSteps
<1>15. CASE CleanupRestore
  <2>1. Frame /\ pc = "c_restore" /\ pc' = "c_residue"
    BY <1>15 DEF CleanupRestore, Configure, CleanupSteps
  <2>2. ItKept /\ ClKept
    BY <1>15, <1>1 DEF CleanupRestore, Configure
  <2>3. build' \in HalfConfigured \cup {[build EXCEPT !.config = "base"]}
    BY <1>15 DEF CleanupRestore, Configure
  <2>4. BuildKept
    BY <2>3, <1>1, HalfConfiguredLeaves
  <2>5. build'.config # "base" => "composition" \in cl'.failures
    BY <1>15, <1>1 DEF CleanupRestore, Configure
  <2>6. RestoredInv'
    BY <2>1, <2>2, <2>5, <1>1 DEF RestoredInv, Past, Undisturbed, AfterCleanup
  <2> QED
    BY <2>1, <2>2, <2>4, <2>6, <1>2
<1>16. CASE CleanupResidue
  <2>1. Frame /\ pc = "c_residue" /\ pc' = "c_compose" /\ UNCHANGED build
    BY <1>16 DEF CleanupResidue, CleanupSteps
  <2>2. BuildKept /\ ItKept /\ ClKept
    BY <1>16, <1>1 DEF CleanupResidue
  <2>3. ~(build.workspace = "absent" \/ ClosedWorkspace(TRUE, FALSE)) =>
          "residue" \in cl'.failures
    BY <1>16, <1>1 DEF CleanupResidue
  <2>4. RestoredInv'
    BY <2>1, <2>2, <2>3, <1>1 DEF RestoredInv, Past, Undisturbed, AfterCleanup, ClosedWorkspace
  <2> QED
    BY <2>1, <2>2, <2>4, <1>2
<1>17. CASE CleanupCompose
  <2>1. Frame /\ pc = "c_compose" /\ pc' = "c_end" /\ UNCHANGED build
    BY <1>17 DEF CleanupCompose, CleanupSteps
  <2>2. BuildKept /\ ItKept /\ ClKept
    BY <1>17, <1>1 DEF CleanupCompose
  <2>3. RestoredInv'
    BY <2>1, <2>2, <1>1 DEF RestoredInv, Past, Undisturbed, AfterCleanup, ClosedWorkspace
  <2> QED
    BY <2>1, <2>2, <2>3, <1>2
<1> QED
  BY <1>4, <1>5, <1>6, <1>7, <1>8, <1>9, <1>10, <1>11, <1>12, <1>13,
     <1>14, <1>15, <1>16, <1>17

(* The stops of the emulator in the cleanup.                                 *)
LEMMA CleanupStopKeeps ==
  ASSUME SdkInv, CleanupStop("c_stop", "c_status") \/ CleanupStop("c_stop_again", "c_restore")
  PROVE  SdkInv'
<1> USE DEF CleanupAt, CleanupTo, Keep, NoFault, Fault, Failed, Stopped, Interrupt, bounds,
            IterationFields, CleanupFields
<1>1. /\ PlaceInv /\ KnownInv /\ EmulatorInv /\ RestoredInv
      /\ DOMAIN it = IterationFields /\ DOMAIN cl = CleanupFields
  BY DEF SdkInv, PlaceInv
<1>2. /\ \/ pc = "c_stop" /\ pc' = "c_status"
         \/ pc = "c_stop_again" /\ pc' = "c_restore"
      /\ UNCHANGED <<build, child, exc, evidence>>
  BY DEF CleanupStop
<1>3. /\ DOMAIN it' = IterationFields /\ it'.tooling_ready = it.tooling_ready
      /\ it'.completed = it.completed
  BY <1>1 DEF CleanupStop
<1>4. /\ DOMAIN cl' = CleanupFields /\ cl'.ret = cl.ret
      /\ cl.signum => cl'.signum
      /\ cl.cancellation => cl'.cancellation
      /\ late' => late \/ cl'.cancellation
  BY <1>1 DEF CleanupStop
<1>5. \/ /\ UNCHANGED <<qemu, lost, it>>
         /\ it.active_boot = "none" \/ "runqemu stop" \in cl'.failures
      \/ /\ it.active_boot # "none" /\ it'.active_boot \in {"none", "created"}
         /\ it'.active_boot = "created" \/ ~qemu'
         /\ ~qemu'
         /\ lost' = lost \cup (IF qemu /\ it.active_boot = "created" THEN {"runqemu"} ELSE {})
  BY <1>1 DEF CleanupStop
<1>6. pc \notin {"boot_assign", "cold_assign"} /\ pc \in CleanupSteps
  BY <1>2 DEF CleanupSteps
<1>7. EmulatorInv'
  <2>1. CASE UNCHANGED <<qemu, lost, it>>
    BY <2>1, <1>1, <1>2, <1>4, EmulatorAlone DEF CleanupSteps
  <2>2. CASE it.active_boot # "none" /\ ~qemu'
             /\ lost' = lost \cup (IF qemu /\ it.active_boot = "created" THEN {"runqemu"} ELSE {})
    <3>1. ~InCleanup(Nested) /\ cl.ret \notin Nested
      BY <2>2, <1>1, <1>6 DEF EmulatorInv, InCleanup
    <3>2. lost' # {} => exc = "cancel" /\ ForkOrTerminate
      BY <2>2, <1>1, <1>6 DEF EmulatorInv
    <3>3. ~InCleanup(Nested)' /\ pc' \notin Unbooted
      BY <3>1, <1>2, <1>4 DEF InCleanup, Unbooted, Text, Tooled, Created, Retaining, Kept, ColdBoot
    <3> QED
      BY <2>2, <3>2, <3>3, <1>2 DEF EmulatorInv
  <2> QED
    BY <1>5, <2>1, <2>2
<1>8. qemu' => "runqemu stop" \in cl'.failures
  BY <1>1, <1>5 DEF EmulatorInv
<1>9. RestoredInv'
  BY <1>2, <1>8 DEF RestoredInv, Past, AfterCleanup
<1> QED
  BY <1>1, <1>2, <1>3, <1>4, <1>6, <1>7, <1>9, CleanupMoves DEF PlaceInv, CleanupSteps

(* The end of the cleanup, by what it was called from.                       *)
LEMMA CleanupEndKeeps ==
  ASSUME SdkInv, CleanupEnd
  PROVE  SdkInv'
<1> DEFINE raises == cl.failures # {} \/ cl.cancellation \/ cl.signum
<1> USE DEF Raise, world, bounds, InCleanup, IterationFields,
            Text, Tooled, Created, Retaining, Kept, ColdBoot, Unbooted, CleanupSteps, Ended,
            AfterCleanup, Nested
<1>1. /\ PlaceInv /\ KnownInv /\ EvidenceInv /\ EmulatorInv /\ RestoredInv /\ LateInv
      /\ pc = "c_end" /\ UNCHANGED <<world, child, cl, bounds>>
      /\ cl.ret \in Nested \cup {"final"} /\ child = "none" /\ it.tooling_ready
      /\ DOMAIN it = IterationFields
  BY DEF SdkInv, PlaceInv, KnownInv, CleanupEnd, Commands, RemoteCommands, DevtoolCommands
<1>2. evidence \in {"none", "stale"}
  BY <1>1 DEF EvidenceInv
<1>3. CASE cl.ret = "final"
  <2>1. /\ pc' = "final_evidence" /\ UNCHANGED exc
        /\ it' = [it EXCEPT !.cleanup_error = raises]
    BY <1>1, <1>3 DEF CleanupEnd
  <2>2. /\ DOMAIN it' = IterationFields /\ it'.cleanup_error = raises
        /\ it'.tooling_ready = it.tooling_ready /\ it'.completed = it.completed
        /\ it'.active_boot = it.active_boot
    BY <2>1, <1>1
  <2>3. PlaceInv' /\ KnownInv'
    BY <1>1, <2>1, <2>2 DEF PlaceInv, KnownInv
  <2>4. EvidenceInv'
    BY <1>1, <1>2, <1>3, <2>1, <2>2 DEF EvidenceInv, Last
  <2>5. EmulatorInv'
    BY <1>1, <2>1, <2>2 DEF EmulatorInv
  <2>6. RestoredInv'
    BY <1>1, <2>1, <2>2 DEF RestoredInv, Past, Undisturbed, ClosedWorkspace
  <2>7. VerdictInv' /\ LateInv'
    BY <1>1, <1>2, <2>1, <2>2 DEF VerdictInv, LateInv
  <2> QED
    BY <2>3, <2>4, <2>5, <2>6, <2>7 DEF SdkInv
<1>4. CASE cl.ret # "final"
  <2>1. /\ exc = "none" /\ ~it.completed /\ lost = {} /\ it.active_boot = "none" /\ ~qemu
        /\ evidence = "none"
    BY <1>1, <1>4 DEF KnownInv, EmulatorInv, EvidenceInv
  <2>2. CASE raises
    <3>1. pc' = "finally" /\ exc' \in {"cancel", "error"} /\ UNCHANGED it
      BY <2>2, <1>1, <1>4 DEF CleanupEnd
    <3>2. PlaceInv' /\ KnownInv' /\ EvidenceInv' /\ EmulatorInv'
      BY <1>1, <2>1, <3>1 DEF PlaceInv, KnownInv, EvidenceInv, EmulatorInv, Last
    <3>3. RestoredInv' /\ VerdictInv' /\ LateInv'
      BY <1>1, <2>1, <3>1 DEF RestoredInv, VerdictInv, LateInv, Past
    <3> QED
      BY <3>2, <3>3 DEF SdkInv
  <2>3. CASE ~raises
    <3>1. pc' = After(cl.ret) /\ UNCHANGED <<exc, it>>
      BY <2>3, <1>1, <1>4 DEF CleanupEnd
    <3>2. \/ cl.ret = "recover" /\ pc' = "compose"
          \/ cl.ret = "restore" /\ pc' = "source_kept"
      BY <3>1, <1>1, <1>4, Order
    <3>3. ~late
      BY <1>1, <2>1, <2>3 DEF LateInv
    <3>4. PlaceInv' /\ KnownInv' /\ EvidenceInv' /\ EmulatorInv'
      BY <1>1, <2>1, <3>1, <3>2 DEF PlaceInv, KnownInv, EvidenceInv, EmulatorInv, Last
    <3>5. RestoredInv' /\ VerdictInv' /\ LateInv'
      BY <1>1, <2>1, <3>1, <3>2, <3>3 DEF RestoredInv, VerdictInv, LateInv, Past
    <3> QED
      BY <3>4, <3>5 DEF SdkInv
  <2> QED
    BY <2>2, <2>3
<1> QED
  BY <1>3, <1>4

(* The finally clause and the publication.                                   *)
LEMMA FinalizeKeeps ==
  ASSUME SdkInv, Finalize
  PROVE  SdkInv'
<1> USE DEF FinalStep, Fault, world, bounds, InCleanup, IterationFields,
            Text, Tooled, Created, Retaining, Kept, ColdBoot, Unbooted, CleanupSteps, Ended,
            AfterCleanup, Nested
<1>1. /\ PlaceInv /\ KnownInv /\ EvidenceInv /\ EmulatorInv /\ RestoredInv /\ VerdictInv /\ LateInv
      /\ pc \in {"finally", "final_evidence", "final_exit", "ready", "publish", "validate"}
      /\ UNCHANGED <<build, qemu, target, lost, child, exc>> /\ child = "none"
      /\ DOMAIN it = IterationFields /\ DOMAIN build = BuildFields /\ DOMAIN cl = CleanupFields
  BY DEF SdkInv, PlaceInv, Finalize, Finally, FinalEvidence, FinalExit, Ready, Publish, Validate,
         Commands, RemoteCommands, DevtoolCommands
<1>2. CASE Finally /\ it.tooling_ready
  <2>1. /\ pc = "finally" /\ pc' = "c_ide" /\ cl' = [FreshCleanup EXCEPT !.ret = "final"]
        /\ UNCHANGED <<evidence, it, late>>
    BY <1>2 DEF Finally
  <2>2. DOMAIN cl' = CleanupFields /\ cl'.ret = "final"
    BY <2>1 DEF FreshCleanup, CleanupFields
  <2>3. PlaceInv' /\ KnownInv' /\ EmulatorInv'
    BY <1>1, <1>2, <2>1, <2>2 DEF PlaceInv, KnownInv, EmulatorInv
  <2>4. EvidenceInv' /\ RestoredInv' /\ VerdictInv' /\ LateInv'
    BY <1>1, <2>1, <2>2 DEF EvidenceInv, RestoredInv, VerdictInv, LateInv, Past, Last
  <2> QED
    BY <2>3, <2>4 DEF SdkInv
<1>3. CASE Finally /\ ~it.tooling_ready
  <2>1. /\ pc = "finally" /\ pc' = "final_evidence" /\ UNCHANGED <<evidence, it, cl, late>>
    BY <1>3 DEF Finally
  <2>2. PlaceInv' /\ KnownInv' /\ EmulatorInv'
    BY <1>1, <1>3, <2>1 DEF PlaceInv, KnownInv, EmulatorInv
  <2>3. EvidenceInv' /\ RestoredInv' /\ VerdictInv' /\ LateInv'
    BY <1>1, <1>3, <2>1 DEF EvidenceInv, RestoredInv, VerdictInv, LateInv, Past, Last
  <2> QED
    BY <2>2, <2>3 DEF SdkInv
<1>4. CASE FinalEvidence
  <2>1. /\ pc = "final_evidence" /\ pc' = "final_exit" /\ UNCHANGED <<cl, late>>
        /\ it' = [it EXCEPT !.completed = it.completed /\ ~it.cleanup_error]
        /\ evidence' = IF it.completed /\ ~it.cleanup_error THEN evidence ELSE "none"
    BY <1>4 DEF FinalEvidence
  <2>2. /\ DOMAIN it' = IterationFields /\ it'.completed = (it.completed /\ ~it.cleanup_error)
        /\ it'.tooling_ready = it.tooling_ready /\ it'.cleanup_error = it.cleanup_error
        /\ it'.active_boot = it.active_boot /\ it'.finalization = it.finalization
    BY <2>1, <1>1
  <2>3. PlaceInv' /\ KnownInv' /\ EmulatorInv'
    BY ZenonT(40), <1>1, <2>1, <2>2 DEF PlaceInv, KnownInv, EmulatorInv
  <2>4. evidence' = "none"
    BY <1>1, <2>1 DEF EvidenceInv, Last
  <2>5. EvidenceInv' /\ VerdictInv' /\ LateInv'
    BY <1>1, <2>1, <2>2, <2>4 DEF EvidenceInv, VerdictInv, LateInv, Last
  <2>6. RestoredInv'
    BY <1>1, <2>1, <2>2 DEF RestoredInv, Past, Undisturbed, ClosedWorkspace
  <2> QED
    BY <2>3, <2>5, <2>6 DEF SdkInv
<1>5. CASE FinalExit \/ Ready
  <2>1. /\ \/ pc = "final_exit" /\ pc' \in {"ready", "failed"}
           \/ pc = "ready" /\ pc' \in {"publish", "failed"}
        /\ pc' = "ready" => exc = "none" /\ ~it.cleanup_error /\ ~it.finalization
        /\ pc' = "publish" => it.completed
        /\ UNCHANGED <<evidence, it, cl, late>>
    <3>1. CASE FinalExit
      BY <3>1 DEF FinalExit
    <3>2. CASE Ready
      BY <3>2 DEF Ready
    <3> QED
      BY <1>5, <3>1, <3>2
  <2>2. PlaceInv' /\ KnownInv' /\ EmulatorInv'
    BY <1>1, <2>1 DEF PlaceInv, KnownInv, EmulatorInv
  <2>3. EvidenceInv' /\ VerdictInv' /\ LateInv'
    BY <1>1, <2>1 DEF EvidenceInv, VerdictInv, LateInv, Last
  <2>4. RestoredInv'
    BY <1>1, <2>1 DEF RestoredInv, Past, Undisturbed, ClosedWorkspace
  <2> QED
    BY <2>2, <2>3, <2>4 DEF SdkInv
<1>6. CASE Publish \/ Validate
  <2>1. /\ \/ pc = "publish" /\ pc' = "validate" /\ evidence' = "pass" /\ UNCHANGED it
           \/ pc' = "failed" /\ evidence' = "none" /\ UNCHANGED it
           \/ /\ pc = "validate" /\ pc' = "passed" /\ evidence' = evidence
              /\ it' = [it EXCEPT !.committed = TRUE]
        /\ pc \in {"publish", "validate"}
        /\ UNCHANGED <<cl, late>>
    BY <1>6 DEF Publish, Validate
  <2>2. /\ DOMAIN it' = IterationFields /\ it'.completed = it.completed
        /\ it'.tooling_ready = it.tooling_ready /\ it'.cleanup_error = it.cleanup_error
        /\ it'.active_boot = it.active_boot
    BY <2>1, <1>1
  <2>3. PlaceInv' /\ KnownInv' /\ EmulatorInv'
    BY <1>1, <2>1, <2>2 DEF PlaceInv, KnownInv, EmulatorInv
  <2>4. EvidenceInv' /\ LateInv'
    BY <1>1, <2>1, <2>2 DEF EvidenceInv, LateInv, Last
  <2>5. RestoredInv'
    BY <1>1, <2>1, <2>2 DEF RestoredInv, Past, Undisturbed, ClosedWorkspace
  <2>6. /\ cl.failures = {} /\ it.completed /\ it.tooling_ready /\ Undisturbed
        /\ build.workspace # "absent"
    BY <1>1, <2>1 DEF VerdictInv, KnownInv, Undisturbed
  <2>7. build.config = "base" /\ ClosedWorkspace(TRUE, FALSE) /\ ~qemu
    BY <1>1, <2>1, <2>6 DEF RestoredInv, Past
  <2>8. VerdictInv'
    BY <1>1, <2>1, <2>2, <2>7 DEF VerdictInv, ClosedWorkspace
  <2> QED
    BY <2>3, <2>4, <2>5, <2>8 DEF SdkInv
<1> QED
  BY <1>2, <1>3, <1>4, <1>5, <1>6 DEF Finalize

(* A signal: where nobody is prepared for it only the window at the finally  *)
(* clause does harm.                                                         *)
LEMMA SignalKeeps ==
  ASSUME SdkInv, Signal, "finally" \notin Windows
  PROVE  SdkInv'
<1> USE DEF Interrupt, Raise, world, bounds, InCleanup, IterationFields, CleanupFields,
            Text, Tooled, Created, Retaining, Kept, ColdBoot, Unbooted, CleanupSteps, Ended,
            AfterCleanup, Nested
<1>1. /\ PlaceInv /\ KnownInv /\ EvidenceInv /\ EmulatorInv /\ RestoredInv /\ VerdictInv /\ LateInv
      /\ DOMAIN it = IterationFields /\ DOMAIN build = BuildFields /\ DOMAIN cl = CleanupFields
  BY DEF SdkInv, PlaceInv
<1>2. CASE SignalRaised \/ SignalLoses
  <2>1. pc \in Text /\ exc = "none" /\ ~it.completed
    BY <1>1, <1>2, TextIsBody
       DEF SignalRaised, SignalLoses, PlaceInv, KnownInv, Commands, RemoteCommands, DevtoolCommands
  <2>2. /\ child' = "none" /\ pc' = "finally" /\ exc' = "cancel"
        /\ UNCHANGED <<build, evidence, qemu, it, cl>>
        /\ lost' = lost \/ ForkOrTerminate
        /\ pc \in {"boot_assign", "cold_assign"} => ForkOrTerminate
    BY <1>1, <1>2 DEF SignalRaised, SignalLoses, ForkOrTerminate, PlaceInv, Commands,
                      RemoteCommands, DevtoolCommands
  <2>3. EmulatorInv' /\ (qemu' => it'.tooling_ready)
    BY <1>1, <2>1, <2>2 DEF EmulatorInv, KnownInv
  <2> QED
    BY <1>1, <2>1, <2>2, <2>3, RaisedKeeps
<1>3. CASE SignalGivesUp
  <2>1. /\ child = "watched" /\ child' = "given_up" /\ UNCHANGED <<world, pc, it, cl, exc>>
        /\ pc \in Text /\ pc \in Commands
    BY <1>1, <1>3 DEF SignalGivesUp, PlaceInv, Commands, RemoteCommands, DevtoolCommands
  <2>2. PlaceInv' /\ KnownInv' /\ EmulatorInv'
    BY <1>1, <2>1 DEF PlaceInv, KnownInv, EmulatorInv
  <2>3. EvidenceInv' /\ VerdictInv' /\ LateInv'
    BY <1>1, <2>1 DEF EvidenceInv, VerdictInv, LateInv, Last, ClosedWorkspace
  <2>4. RestoredInv'
    BY <1>1, <2>1 DEF RestoredInv, Past
  <2> QED
    BY <2>2, <2>3, <2>4 DEF SdkInv
<1>4. CASE SignalEnds
  <2>1. /\ pc = "ready" /\ pc' = "failed" /\ exc' = "cancel"
        /\ UNCHANGED <<world, child, it, cl>>
    <3>1. pc = "ready"
      BY <1>4 DEF SignalEnds
    <3> QED
      BY <1>4, <3>1 DEF SignalEnds
  <2>2. PlaceInv' /\ KnownInv'
    BY <1>1, <2>1 DEF PlaceInv, KnownInv, Commands, RemoteCommands, DevtoolCommands
  <2>3. EmulatorInv'
    <3>1. exc = "none" /\ lost = {} /\ ~(qemu /\ it.active_boot = "created")
      BY <1>1, <2>1 DEF EmulatorInv, VerdictInv
    <3> QED
      BY <1>1, <2>1, <3>1 DEF EmulatorInv
  <2>4. EvidenceInv' /\ VerdictInv' /\ LateInv'
    BY <1>1, <2>1 DEF EvidenceInv, VerdictInv, LateInv, Last
  <2>5. RestoredInv'
    BY <1>1, <2>1 DEF RestoredInv, Past, Undisturbed, VerdictInv, ClosedWorkspace
  <2> QED
    BY <2>2, <2>3, <2>4, <2>5 DEF SdkInv
<1>5. CASE SignalRecorded
  <2>1. /\ pc \in Deferring /\ UNCHANGED <<world, pc, child, exc>>
        /\ late' = (late \/ pc \notin {"publish", "validate"})
        /\ cl' = [cl EXCEPT !.signum = @ \/ pc \in CleanupSteps]
        /\ it' = [it EXCEPT !.finalization = @ \/ pc \in {"final_evidence", "final_exit"}]
    BY <1>5 DEF SignalRecorded
  <2>2. /\ DOMAIN it' = IterationFields /\ it'.completed = it.completed
        /\ it'.tooling_ready = it.tooling_ready /\ it'.cleanup_error = it.cleanup_error
        /\ it'.active_boot = it.active_boot
        /\ pc \in {"final_evidence", "final_exit"} => it'.finalization
    BY <2>1, <1>1
  <2>3. /\ DOMAIN cl' = CleanupFields /\ cl'.ret = cl.ret /\ cl'.failures = cl.failures
        /\ cl'.cancellation = cl.cancellation
        /\ pc \in CleanupSteps => cl'.signum
    BY <2>1, <1>1
  <2>4. PlaceInv' /\ KnownInv' /\ EmulatorInv'
    BY <1>1, <2>1, <2>2, <2>3 DEF PlaceInv, KnownInv, EmulatorInv
  <2>5. EvidenceInv' /\ VerdictInv'
    BY <1>1, <2>1, <2>2, <2>3 DEF EvidenceInv, VerdictInv, Last, ClosedWorkspace
  <2>6. LateInv'
    BY <1>1, <2>1, <2>2, <2>3 DEF LateInv, Deferring
  <2>7. RestoredInv'
    BY <1>1, <2>1, <2>2, <2>3 DEF RestoredInv, Past, Undisturbed, ClosedWorkspace
  <2> QED
    BY <2>4, <2>5, <2>6, <2>7 DEF SdkInv
<1> QED
  BY <1>2, <1>3, <1>4, <1>5 DEF Signal

(* What happens around the controller.                                       *)
LEMMA WorldKeeps ==
  ASSUME SdkInv, QemuExits \/ LostEnds \/ Begin \/ MoveOutputs \/ LosePower
  PROVE  SdkInv'
<1> USE DEF Fault, world, control, bounds, InCleanup, BuildFields, IterationFields, CleanupFields,
            Text, Tooled, Created, Retaining, Kept, ColdBoot, Unbooted, CleanupSteps, Ended,
            AfterCleanup, Nested
<1>1. /\ PlaceInv /\ KnownInv /\ EvidenceInv /\ EmulatorInv /\ RestoredInv /\ VerdictInv /\ LateInv
      /\ DOMAIN it = IterationFields /\ DOMAIN build = BuildFields /\ DOMAIN cl = CleanupFields
  BY DEF SdkInv, PlaceInv
<1>2. CASE QemuExits
  <2>1. ~qemu' /\ UNCHANGED <<build, evidence, lost, pc, child, it, cl, exc, late>>
    BY <1>2 DEF QemuExits
  <2>2. PlaceInv' /\ KnownInv' /\ EmulatorInv'
    BY <1>1, <2>1 DEF PlaceInv, KnownInv, EmulatorInv
  <2>3. EvidenceInv' /\ VerdictInv' /\ LateInv'
    BY <1>1, <2>1 DEF EvidenceInv, VerdictInv, LateInv, Last, ClosedWorkspace
  <2>4. RestoredInv'
    BY <1>1, <2>1 DEF RestoredInv, Past, Undisturbed, ClosedWorkspace
  <2> QED
    BY <2>2, <2>3, <2>4 DEF SdkInv
<1>3. CASE LostEnds
  <2>1. PICK command \in lost : build' \in Remains(command) /\ lost' = lost \ {command}
                                /\ UNCHANGED <<evidence, qemu, target, control, bounds>>
    BY <1>3 DEF LostEnds
  <2>2. /\ DOMAIN build' = BuildFields /\ UNCHANGED <<build.ide_kept, build.learner>>
        /\ (build.workspace # "absent" => build'.workspace # "absent")
    BY <1>1, <2>1, CommandsLeave
  <2>3. exc = "cancel" /\ ForkOrTerminate /\ pc # "dead" /\ ~Undisturbed
    BY <1>1, <2>1 DEF EmulatorInv, Undisturbed
  <2>4. evidence # "pass"
    BY <1>1, <2>3 DEF EvidenceInv, VerdictInv
  <2>5. PlaceInv' /\ KnownInv' /\ EmulatorInv'
    BY <1>1, <2>1, <2>2, <2>3 DEF PlaceInv, KnownInv, EmulatorInv
  <2>6. EvidenceInv' /\ VerdictInv' /\ LateInv'
    BY ZenonT(40), <1>1, <2>1, <2>4 DEF EvidenceInv, VerdictInv, LateInv, Last
  <2>7. RestoredInv'
    BY <2>1, <2>3 DEF RestoredInv, Undisturbed
  <2> QED
    BY <2>5, <2>6, <2>7 DEF SdkInv
<1>4. CASE Begin
  <2>1. /\ pc' = "preflight" /\ child' = "none" /\ exc' = "none" /\ ~late' /\ ~qemu' /\ lost' = {}
        /\ it' = FreshIteration /\ cl' = FreshCleanup /\ UNCHANGED build
        /\ evidence' \in {"none", "stale"}
    BY <1>4 DEF Begin
  <2>2. /\ DOMAIN it' = IterationFields /\ DOMAIN cl' = CleanupFields
        /\ ~it'.completed /\ it'.active_boot = "none"
    BY <2>1 DEF FreshIteration, FreshCleanup
  <2>3. PlaceInv' /\ KnownInv' /\ EmulatorInv'
    BY <1>1, <2>1, <2>2 DEF PlaceInv, KnownInv, EmulatorInv
  <2>4. EvidenceInv' /\ RestoredInv' /\ VerdictInv' /\ LateInv'
    BY <1>1, <2>1, <2>2 DEF EvidenceInv, RestoredInv, VerdictInv, LateInv, Last, Past
  <2> QED
    BY <2>3, <2>4 DEF SdkInv
<1>5. CASE MoveOutputs
  <2>1. /\ pc \in Ended /\ UNCHANGED <<evidence, qemu, target, lost, pc, child, it, cl, exc, late>>
        /\ build' = [build EXCEPT !.learner = FALSE, !.ide_kept = FALSE]
    BY <1>5 DEF MoveOutputs
  <2>2. /\ DOMAIN build' = BuildFields /\ build'.config = build.config
        /\ build'.workspace = build.workspace /\ build'.ide_generated = build.ide_generated
    BY <1>1, <2>1
  <2>3. PlaceInv' /\ KnownInv' /\ EmulatorInv'
    BY <1>1, <2>1, <2>2 DEF PlaceInv, KnownInv, EmulatorInv
  <2>4. EvidenceInv' /\ VerdictInv' /\ LateInv'
    BY <1>1, <2>1, <2>2 DEF EvidenceInv, VerdictInv, LateInv, Last, ClosedWorkspace
  <2>5. RestoredInv'
    BY <1>1, <2>1, <2>2 DEF RestoredInv, Past, Undisturbed, ClosedWorkspace
  <2> QED
    BY <2>3, <2>4, <2>5 DEF SdkInv
<1>6. CASE LosePower
  <2>1. /\ pc' = "dead" /\ child' = "none" /\ ~qemu' /\ lost' = {}
        /\ build' \in Remains(pc) /\ (child = "none" => build' = build)
        /\ UNCHANGED <<evidence, it, cl, exc, late>>
    BY <1>6 DEF LosePower, Remains
  <2>2. DOMAIN build' = BuildFields
    BY <1>1, <2>1, CommandsLeave
  <2>3. evidence = "pass" => child = "none"
    BY <1>1 DEF EvidenceInv, PlaceInv, Commands, RemoteCommands, DevtoolCommands
  <2>4. PlaceInv' /\ KnownInv' /\ EmulatorInv'
    BY <1>1, <2>1, <2>2 DEF PlaceInv, KnownInv, EmulatorInv
  <2>5. EvidenceInv' /\ RestoredInv' /\ LateInv'
    BY <1>1, <2>1 DEF EvidenceInv, RestoredInv, LateInv, Last, Past
  <2>6. VerdictInv'
    BY <1>1, <2>1, <2>3 DEF VerdictInv, ClosedWorkspace
  <2> QED
    BY <2>4, <2>5, <2>6 DEF SdkInv
<1> QED
  BY <1>2, <1>3, <1>4, <1>5, <1>6

(* Before the first run there is nothing to answer for.                      *)
LEMMA SdkInitially == Init => SdkInv
<1> SUFFICES ASSUME Init PROVE SdkInv
  OBVIOUS
<1> USE DEF InCleanup, Text, Tooled, Created, Retaining, Kept, ColdBoot, Unbooted,
            CleanupSteps, Ended, AfterCleanup
<1>1. /\ pc = "idle" /\ child = "none" /\ exc = "none" /\ ~late /\ ~qemu /\ lost = {}
      /\ it = FreshIteration /\ cl = FreshCleanup /\ build \in BuildType
      /\ evidence \in {"none", "stale"}
  BY SdkAssumption DEF Init
<1>2. PlaceInv
  BY <1>1 DEF PlaceInv, BuildType, FreshIteration, FreshCleanup, BuildFields, IterationFields,
              CleanupFields
<1>3. ~it.completed
  BY <1>1 DEF FreshIteration
<1>4. KnownInv /\ EvidenceInv /\ EmulatorInv
  BY <1>1, <1>3 DEF KnownInv, EvidenceInv, EmulatorInv, Last
<1>5. RestoredInv /\ VerdictInv /\ LateInv
  BY <1>1 DEF RestoredInv, VerdictInv, LateInv, Past
<1> QED
  BY <1>2, <1>4, <1>5 DEF SdkInv

(* Every step keeps the invariant.                                           *)
LEMMA SdkStepKeeps ==
  ASSUME SdkInv, [Next]_vars, "finally" \notin Windows
  PROVE  SdkInv'
<1>1. CASE Execute
  BY <1>1, TextKeeps, RecoveryKeeps DEF Execute
<1>2. CASE Cleanup
  BY <1>2, CleanupKeeps, CleanupStopKeeps, CleanupEndKeeps DEF Cleanup
<1>3. CASE UNCHANGED vars
  <2>1. UNCHANGED <<build, evidence, qemu, target, lost, pc, child, it, cl, exc, late>>
    BY <1>3 DEF vars, world, control, bounds
  <2>2. PlaceInv' /\ KnownInv' /\ EvidenceInv'
    BY <2>1 DEF SdkInv, PlaceInv, KnownInv, EvidenceInv, InCleanup, Last
  <2>3. EmulatorInv' /\ LateInv'
    BY <2>1 DEF SdkInv, EmulatorInv, LateInv, InCleanup
  <2>4. RestoredInv' /\ VerdictInv'
    BY <2>1 DEF SdkInv, RestoredInv, VerdictInv, Past, Undisturbed, ClosedWorkspace
  <2> QED
    BY <2>2, <2>3, <2>4 DEF SdkInv
<1> QED
  BY <1>1, <1>2, <1>3, CommandKeeps, FinalizeKeeps, SignalKeeps, WorldKeeps DEF Next, Controller

(* While no signal comes through the window at the finally clause.           *)
THEOREM SdkSafety == ASSUME "finally" \notin Windows PROVE Spec => []SdkInv
<1>1. SdkInv /\ [Next]_vars => SdkInv'
  BY SdkStepKeeps
<1> QED
  BY <1>1, SdkInitially, PTL DEF Spec

(* Passing evidence exists only for a build root at rest, and a run that     *)
(* failed leaves none.                                                       *)
THEOREM PublishedIsRestored ==
  ASSUME "finally" \notin Windows PROVE Spec => []EvidenceMeansRestored
<1>1. SdkInv => EvidenceMeansRestored
  <2> SUFFICES ASSUME SdkInv PROVE EvidenceMeansRestored
    OBVIOUS
  <2>1. evidence = "pass" => build.config = "base" /\ ClosedWorkspace(TRUE, FALSE) /\ ~qemu
    BY DEF SdkInv, VerdictInv
  <2>2. pc = "validate" => build.learner /\ build.ide_kept
    BY DEF SdkInv, VerdictInv, KnownInv, Ended
  <2>3. pc = "failed" => evidence = "none"
    BY DEF SdkInv, EvidenceInv
  <2> QED
    BY <2>1, <2>2, <2>3 DEF EvidenceMeansRestored
<1> QED
  BY <1>1, SdkSafety, PTL

(* With no window open no process is lost, and no failure goes unseen.       *)
LEMMA EndedAndAccounted ==
  ASSUME Windows = {}, SdkInv PROVE RestoredOrReported /\ NothingLeftRunning
<1>1. ~ForkOrTerminate /\ Undisturbed /\ lost = {}
  BY DEF ForkOrTerminate, Undisturbed, SdkInv, EmulatorInv
<1>2. RestoredOrReported
  BY <1>1 DEF SdkInv, RestoredInv, VerdictInv, Past, AfterCleanup, RestoredOrReported
<1>3. NothingLeftRunning
  BY <1>1 DEF SdkInv, KnownInv, RestoredInv, Past, AfterCleanup, NothingLeftRunning
<1> QED
  BY <1>2, <1>3

(* What a run that has ended has not restored it has reported, when no       *)
(* window is open.                                                           *)
THEOREM NothingUnreported == ASSUME Windows = {} PROVE Spec => []RestoredOrReported
<1>1. SdkInv => RestoredOrReported
  BY EndedAndAccounted
<1>2. "finally" \notin Windows
  OBVIOUS
<1> QED
  BY <1>1, <1>2, SdkSafety, PTL

(* Nor does one that has ended leave a command or an emulator running that   *)
(* it has not reported.                                                      *)
THEOREM NothingIsLeftRunning == ASSUME Windows = {} PROVE Spec => []NothingLeftRunning
<1>1. SdkInv => NothingLeftRunning
  BY EndedAndAccounted
<1>2. "finally" \notin Windows
  OBVIOUS
<1> QED
  BY <1>1, <1>2, SdkSafety, PTL

(* Whether a signal came is yes or no.                                       *)
LateType == late \in BOOLEAN

(* The controller's steps, signals and the world keep it so.                 *)
LEMMA LateIsBoolean == Spec => []LateType
<1>1. Init => LateType
  BY DEF Init, LateType
<1>2. LateType /\ [Next]_vars => LateType'
  <2> SUFFICES ASSUME LateType, [Next]_vars PROVE LateType'
    OBVIOUS
  <2> USE DEF LateType, bounds, world, control, Interrupt, Fault, Fails, Raise, Proceed, At, NoFault
  <2>1. CASE Execute
    BY <2>1 DEF Execute, Preflight, Retained, Tooling, Recover, Prepare, Activate, Source,
         Modified, RetainIde, BootCreate, BootSpawn, BootAssign, BootReady, Attempt, Undeployed,
         Stop, Restore, SourceKept, Evidence
  <2>2. CASE Command
    BY <2>2 DEF Command, Spawn, Watch, CommandSucceeds, CommandFails, Terminate
  <2>3. CASE Cleanup
    BY <2>3 DEF Cleanup, CleanupIde, CleanupConfig, CleanupWorkspace, CleanupDevtoolConf,
         CleanupDecide, CleanupUndeploy, CleanupRemoveFile, CleanupStop, CleanupStatus,
         CleanupReset, CleanupResting, CleanupLayer, CleanupRestore, CleanupResidue,
         CleanupCompose, CleanupEnd, Configure
  <2>4. CASE Finalize
    BY <2>4 DEF Finalize, Finally, FinalEvidence, FinalExit, Ready, Publish, Validate, FinalStep
  <2>5. CASE Signal
    BY <2>5 DEF Signal, SignalRaised, SignalGivesUp, SignalLoses, SignalEnds, SignalRecorded
  <2>6. CASE QemuExits \/ LostEnds \/ Begin \/ MoveOutputs \/ LosePower
    BY <2>6 DEF QemuExits, LostEnds, Begin, MoveOutputs, LosePower
  <2>7. CASE UNCHANGED vars
    BY <2>7 DEF vars
  <2> QED
    BY <2>1, <2>2, <2>3, <2>4, <2>5, <2>6, <2>7 DEF Next, Controller
<1> QED
  BY <1>1, <1>2, PTL DEF Spec

(* A build root at rest, and a step the contract allows.                     *)
AtRest == build.config = "base" /\ ClosedWorkspace(TRUE, FALSE) /\ ~qemu
Allowed == [Contract!Next]_(Contract!vars)

(* A step within a run that publishes nothing.                               *)
LEMMA WorkAllowed ==
  ASSUME pc \notin Ended, pc' \notin Ended, evidence # "pass", UNCHANGED evidence,
         late' = late \/ late' = TRUE
  PROVE  Allowed
<1>1. CASE late' = late
  BY <1>1 DEF Allowed, Ended, Contract!Next, Contract!Work
<1>2. CASE late' = TRUE
  BY <1>2 DEF Allowed, Ended, Contract!Next, Contract!Cancel
<1> QED
  BY <1>1, <1>2

(* A run that fails has no evidence left.                                    *)
LEMMA FailAllowed ==
  ASSUME pc \notin Ended, pc' = "failed", evidence' = "none", AtRest' = AtRest,
         late' = late \/ late' = TRUE
  PROVE  Allowed
  BY DEF Allowed, Ended, AtRest, Contract!Next, Contract!Fail

(* A step that keeps evidence, signals and rest is no step of the contract.  *)
LEMMA StutterAllowed ==
  ASSUME pc \notin Ended, pc' \notin Ended, UNCHANGED <<evidence, late>>, AtRest' = AtRest
  PROVE  Allowed
  BY DEF Allowed, Ended, AtRest, Contract!vars

(* The text clears the evidence and then works.                              *)
LEMMA ExecuteAllowed ==
  ASSUME SdkInv, Execute
  PROVE  Allowed
<1> USE DEF At, Raise, Proceed, Fails, Fault, Interrupt, bounds, world
<1>1. pc \in Text
  BY DEF Execute, Text, Tooled, Created, Retaining, Kept, ColdBoot, Preflight, Retained, Tooling,
         Recover, Prepare, Activate, Source, Modified, RetainIde, BootCreate, BootSpawn, BootAssign,
         BootReady, Attempt, Undeployed, Stop, Restore, SourceKept, Evidence
<1>2. /\ pc \notin Ended /\ evidence # "pass" /\ "c_ide" \notin Ended
      /\ After(pc) \notin Ended /\ "finally" \notin Ended
  BY <1>1, TextFollows DEF SdkInv, EvidenceInv, Text, Tooled, Created, Retaining, Kept,
     ColdBoot, Ended
<1>3. CASE Preflight
  <2>1. pc' \in {After(pc), "finally"} /\ evidence' = "none" /\ UNCHANGED <<build, qemu, late>>
    BY <1>3 DEF Preflight
  <2> QED
    BY <1>2, <2>1 DEF Allowed, Ended, ClosedWorkspace, Contract!Next, Contract!Clear
<1>4. CASE ~Preflight
  <2>1. pc' \in {After(pc), "finally", "c_ide"}
    BY <1>4, Order DEF Execute, Retained, Tooling,
         Recover, Prepare, Activate, Source, Modified, RetainIde, BootCreate, BootSpawn, BootAssign,
         BootReady, Attempt, Undeployed, Stop, Restore, SourceKept, Evidence
  <2>2. UNCHANGED evidence /\ (late' = late \/ late' = TRUE)
    BY <1>4, <1>1 DEF Execute, Retained, Tooling, Stopped,
         Recover, Prepare, Activate, Source, Modified, RetainIde, BootCreate, BootSpawn, BootAssign,
         BootReady, Attempt, Undeployed, Stop, Restore, SourceKept, Evidence
  <2> QED
    BY <1>2, <2>1, <2>2, WorkAllowed
<1> QED
  BY <1>3, <1>4

(* Its commands work.                                                        *)
LEMMA CommandAllowed ==
  ASSUME SdkInv, Command
  PROVE  Allowed
<1>1. pc \in Text
  BY DEF SdkInv, PlaceInv, Command, Spawn, Watch, CommandSucceeds, CommandFails, Terminate,
         Commands, RemoteCommands, DevtoolCommands, Text, Tooled, Created, Retaining, Kept, ColdBoot
<1>2. /\ pc \notin Ended /\ evidence # "pass"
      /\ After(pc) \notin Ended /\ "finally" \notin Ended
  BY <1>1, TextFollows DEF SdkInv, EvidenceInv, Text, Tooled, Created, Retaining, Kept,
     ColdBoot, Ended
<1>3. pc' \in {pc, After(pc), "finally"} /\ UNCHANGED <<evidence, late>>
  BY DEF Command, Spawn, Watch, CommandSucceeds, CommandFails, Terminate, Raise, Proceed, Fault,
         bounds, world
<1> QED
  BY <1>2, <1>3, WorkAllowed

(* So does the cleanup.                                                      *)
LEMMA CleanupAllowed ==
  ASSUME SdkInv, Cleanup
  PROVE  Allowed
<1> USE DEF CleanupAt, CleanupTo, NoFault, Fault, Interrupt, Raise, bounds, world
<1>1. pc \in CleanupSteps
  BY DEF Cleanup, CleanupSteps, CleanupIde, CleanupConfig, CleanupWorkspace, CleanupDevtoolConf,
         CleanupDecide, CleanupUndeploy, CleanupRemoveFile, CleanupStop, CleanupStatus,
         CleanupReset, CleanupResting, CleanupLayer, CleanupRestore, CleanupResidue,
         CleanupCompose, CleanupEnd
<1>2. pc \notin Ended /\ evidence # "pass"
  BY <1>1 DEF SdkInv, EvidenceInv, CleanupSteps, Ended
<1>3. UNCHANGED evidence /\ (late' = late \/ late' = TRUE)
  BY <1>1 DEF Cleanup, CleanupIde, CleanupConfig, CleanupWorkspace, CleanupDevtoolConf, Configure,
         CleanupDecide, CleanupUndeploy, CleanupRemoveFile, CleanupStop, CleanupStatus,
         CleanupReset, CleanupResting, CleanupLayer, CleanupRestore, CleanupResidue,
         CleanupCompose, CleanupEnd, CleanupSteps
<1>4. pc' \notin Ended
  <2>1. CASE CleanupEnd
    <3>1. cl.ret \in Nested \cup {"final"}
      BY <1>1 DEF SdkInv, PlaceInv
    <3>2. pc' \in {"final_evidence", "finally", After("recover"), After("restore")}
      BY <2>1, <3>1 DEF CleanupEnd, Nested
    <3> QED
      BY <3>2, Order DEF Ended
  <2>2. CASE ~CleanupEnd
    BY <2>2 DEF Cleanup, CleanupIde, CleanupConfig, CleanupWorkspace, CleanupDevtoolConf,
         CleanupDecide, CleanupUndeploy, CleanupRemoveFile, CleanupStop, CleanupStatus,
         CleanupReset, CleanupResting, CleanupLayer, CleanupRestore, CleanupResidue,
         CleanupCompose, Ended
  <2> QED
    BY <2>1, <2>2
<1> QED
  BY <1>2, <1>3, <1>4, WorkAllowed

(* The finally clause works, clears, fails, publishes or passes.             *)
LEMMA FinalizeAllowed ==
  ASSUME SdkInv, SdkInv', Finalize
  PROVE  Allowed
<1> USE DEF FinalStep, Fault, bounds, world
<1>1. /\ pc \in {"finally", "final_evidence", "final_exit", "ready", "publish", "validate"}
      /\ UNCHANGED <<build, qemu>> /\ UNCHANGED late
  BY DEF Finalize, Finally, FinalEvidence, FinalExit, Ready, Publish, Validate
<1>2. pc \notin Ended /\ AtRest' = AtRest
  BY <1>1 DEF Ended, AtRest, ClosedWorkspace
<1>3. CASE pc' = "failed"
  BY <1>1, <1>2, <1>3, FailAllowed DEF SdkInv, EvidenceInv
<1>4. CASE Finally \/ (FinalExit /\ pc' # "failed") \/ (Ready /\ pc' # "failed")
  <2>1. pc' \in {"c_ide", "final_evidence", "ready", "publish"} /\ UNCHANGED evidence
    BY <1>4 DEF Finally, FinalExit, Ready
  <2> QED
    BY <1>1, <1>2, <2>1, StutterAllowed DEF Ended
<1>5. CASE FinalEvidence
  <2>1. pc' = "final_exit" /\ evidence' \in {evidence, "none"}
    BY <1>5 DEF FinalEvidence
  <2>2. CASE evidence' = evidence
    BY <1>1, <1>2, <2>1, <2>2, StutterAllowed DEF Ended
  <2>3. CASE evidence' = "none"
    BY <1>1, <1>2, <2>1, <2>3 DEF Allowed, AtRest, Ended, Contract!Next, Contract!Clear
  <2> QED
    BY <2>1, <2>2, <2>3
<1>6. CASE Publish /\ pc' # "failed"
  <2>1. pc = "publish" /\ pc' = "validate" /\ evidence' = "pass"
    BY <1>6 DEF Publish
  <2>2. AtRest /\ ~late
    BY <1>1, <2>1 DEF SdkInv, VerdictInv, LateInv, AtRest, ClosedWorkspace
  <2> QED
    BY <1>1, <1>2, <2>1, <2>2 DEF Allowed, AtRest, Ended, Contract!Next, Contract!Publish
<1>7. CASE Validate /\ pc' # "failed"
  <2>1. pc = "validate" /\ pc' = "passed" /\ evidence' = evidence
    BY <1>7 DEF Validate
  <2>2. evidence = "pass"
    BY <2>1 DEF SdkInv, EvidenceInv
  <2> QED
    BY <1>1, <1>2, <2>1, <2>2 DEF Allowed, AtRest, Ended, Contract!Next, Contract!Pass
<1> QED
  BY <1>3, <1>4, <1>5, <1>6, <1>7 DEF Finalize

(* A signal cancels, ends the run, or comes too late to do either.           *)
LEMMA SignalAllowed ==
  ASSUME SdkInv, SdkInv', Signal, "finally" \notin Windows, late \in BOOLEAN
  PROVE  Allowed
<1> USE DEF Interrupt, Raise, world, bounds
<1>1. UNCHANGED evidence /\ late' = (late \/ pc \notin {"publish", "validate"})
  BY DEF Signal, SignalRaised, SignalGivesUp, SignalLoses, SignalEnds, SignalRecorded
<1>2. CASE SignalRaised \/ SignalGivesUp \/ SignalLoses
  <2>1. pc \in Text
    BY <1>2, TextIsBody
       DEF SdkInv, PlaceInv, SignalRaised, SignalGivesUp, SignalLoses, Commands, RemoteCommands,
           DevtoolCommands, Text, Tooled, Created, Retaining, Kept, ColdBoot
  <2>2. pc \notin Ended /\ evidence # "pass" /\ pc \notin {"publish", "validate"}
    BY <2>1 DEF SdkInv, EvidenceInv, Text, Tooled, Created, Retaining, Kept,
     ColdBoot, Ended
  <2>3. pc' \in {pc, "finally"}
    BY <1>2 DEF SignalRaised, SignalGivesUp, SignalLoses
  <2> QED
    BY <1>1, <2>2, <2>3, WorkAllowed DEF Ended
<1>3. CASE SignalEnds
  <2>1. pc = "ready" /\ pc' = "failed" /\ UNCHANGED <<build, qemu>>
    BY <1>3 DEF SignalEnds
  <2>2. evidence' = "none"
    BY <2>1 DEF SdkInv, EvidenceInv
  <2> QED
    BY <1>1, <2>1, <2>2, FailAllowed DEF Ended, AtRest, ClosedWorkspace
<1>4. CASE SignalRecorded
  <2>1. pc \in Deferring /\ UNCHANGED <<build, qemu, pc>>
    BY <1>4 DEF SignalRecorded
  <2>2. pc \notin Ended
    BY <2>1 DEF Deferring, CleanupSteps, Ended
  <2>3. CASE pc \in {"publish", "validate"}
    <3>1. ~late /\ ~late'
      BY <1>1, <2>3 DEF SdkInv, LateInv
    <3>2. late' = late
      BY <1>1, <3>1, <2>3
    <3> QED
      BY <1>1, <2>1, <2>2, <3>2, StutterAllowed DEF AtRest, ClosedWorkspace
  <2>4. CASE pc \notin {"publish", "validate"}
    <3>1. evidence # "pass"
      BY <2>2, <2>4 DEF SdkInv, EvidenceInv, Ended
    <3> QED
      BY <1>1, <2>1, <2>2, <2>4, <3>1, WorkAllowed
  <2> QED
    BY <2>3, <2>4
<1> QED
  BY <1>2, <1>3, <1>4 DEF Signal

(* The world starts runs, stops emulators and cuts the power.                *)
LEMMA WorldAllowed ==
  ASSUME SdkInv, SdkInv', QemuExits \/ LostEnds \/ Begin \/ MoveOutputs \/ LosePower
  PROVE  Allowed
<1> USE DEF Fault, world, control, bounds
<1>1. CASE QemuExits \/ LostEnds
  <2>1. UNCHANGED <<pc, evidence, late>>
    BY <1>1 DEF QemuExits, LostEnds
  <2>2. qemu \/ lost # {}
    BY <1>1 DEF QemuExits, LostEnds
  <2>3. evidence # "pass"
    BY <2>2 DEF SdkInv, EvidenceInv, EmulatorInv, VerdictInv
  <2>4. CASE pc \notin Ended
    BY <2>1, <2>3, <2>4, WorkAllowed
  <2>5. CASE pc \in Ended
    BY <2>1, <2>3, <2>5 DEF Allowed, Ended, Contract!Next, Contract!Settle
  <2> QED
    BY <2>4, <2>5
<1>2. CASE Begin
  <2>1. /\ pc \in Ended /\ pc' = "preflight" /\ late' = FALSE /\ qemu' = FALSE /\ UNCHANGED build
        /\ evidence' = IF evidence = "none" THEN "none" ELSE "stale"
    BY <1>2 DEF Begin
  <2> QED
    BY <2>1 DEF Allowed, Ended, ClosedWorkspace, Contract!Next, Contract!Start
<1>3. CASE MoveOutputs
  <2>1. UNCHANGED <<pc, evidence, late, qemu>>
        /\ build' = [build EXCEPT !.learner = FALSE, !.ide_kept = FALSE]
    BY <1>3 DEF MoveOutputs
  <2>2. AtRest' = AtRest
    BY <2>1 DEF SdkInv, PlaceInv, BuildFields, AtRest, ClosedWorkspace
  <2> QED
    BY <2>1, <2>2 DEF Allowed, AtRest, Contract!vars
<1>4. CASE LosePower
  <2>1. pc \notin Ended /\ pc' = "dead" /\ UNCHANGED <<evidence, late>>
    BY <1>4 DEF LosePower
  <2>2. CASE evidence = "pass"
    <3>1. AtRest /\ AtRest'
      BY <2>1, <2>2 DEF SdkInv, VerdictInv, AtRest, ClosedWorkspace
    <3> QED
      BY <2>1, <2>2, <3>1 DEF Allowed, AtRest, Ended, Contract!Next, Contract!Die
  <2>3. CASE evidence # "pass"
    BY <2>1, <2>3 DEF Allowed, Ended, Contract!Next, Contract!Die
  <2> QED
    BY <2>2, <2>3
<1> QED
  BY <1>1, <1>2, <1>3, <1>4

(* The controller implements the contract of the documentation: each of its  *)
(* steps, and each of its world, is one of the contract's or none.           *)
THEOREM ContractKept ==
  ASSUME "finally" \notin Windows PROVE Spec => ImplementsContract
<1>1. Init => Contract!Init
  BY DEF Init, Contract!Init
<1>2. SdkInv /\ SdkInv' /\ LateType /\ [Next]_vars => Allowed
  <2> SUFFICES ASSUME SdkInv, SdkInv', LateType, [Next]_vars PROVE Allowed
    OBVIOUS
  <2>1. CASE UNCHANGED vars
    BY <2>1 DEF vars, world, control, bounds, Allowed, Contract!vars, ClosedWorkspace
  <2> QED
    BY <2>1, ExecuteAllowed, CommandAllowed, CleanupAllowed, FinalizeAllowed, SignalAllowed,
       WorldAllowed DEF Next, Controller, LateType
<1> QED
  BY <1>1, <1>2, SdkSafety, LateIsBoolean, PTL DEF Spec, ImplementsContract, Contract!Spec, Allowed
=============================================================================
