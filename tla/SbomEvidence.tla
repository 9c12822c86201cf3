---------------------------- MODULE SbomEvidence ----------------------------
(* sbom-evidence.sh with scripts/sbom_evidence.py: one run verifies the      *)
(* build configuration, removes the selected evidence, lets BitBake create   *)
(* the image's SPDX document, projects it to an evidence document and        *)
(* validates that.  The user may work on the tree, and the run may be        *)
(* killed, between any two steps.  Every command of sbom_evidence.py selects *)
(* the lab first, clear too, and fails while the catalog is not valid.  The  *)
(* SPDX graph is kept as far as the projection looks at it; JSON,            *)
(* identifiers, sizes and versions are left out, and so are an unlink that   *)
(* fails and an evidence directory replaced during the run.                  *)
EXTENDS ProjectTree, FiniteSets

CONSTANTS
    Image,     \* the image of the selected lab
    Required,  \* required_packages: the declared license by name
    Forbidden, \* forbidden_packages
    Graphs,    \* the SPDX graphs the task may leave
    Deploys    \* the deployed files by name, as the task may leave them

ASSUME SbomAssumption == DOMAIN Required \cap Forbidden = {}

VARIABLES
    evidence,  \* the file at evidence_path
    sbom       \* the run

sbomVars == <<treeVars, evidence, sbom>>

NoEvidence == [kind |-> "absent", run |-> 0]
EarlierRun == 1
ThisRun == 2

-----------------------------------------------------------------------------
(* analyze_graph *)
Resolved(g) == g.missing \subseteq g.imported

SoundHeader(g) ==
    /\ g.documents = 1 /\ g.sboms = 1
    /\ Resolved(g)
    /\ g.roots = {"sbom"}
    /\ g.version = "3.0.1" /\ g.profiles = "locked" /\ g.sbomType = "build"

SoundRoot(g) ==
    /\ \E p \in g.rootPackages : g.rootPackages = {p} /\ p.name = Image /\ p.purpose = "archive"
    /\ g.rootFiles # {}
    /\ ~g.otherRoots

(* One rootfs build of the image, whose output is the rootfs package. *)
SoundBuild(g) ==
    /\ g.rootfsBuilds = 1 /\ g.buildType = "rootfs"
    /\ \E o \in g.outputs : g.outputs = {o} /\ o.to = g.rootPackages /\ o.scope = "build"
    /\ \E i \in g.inputs : g.inputs = {i} /\ i.scope = "build" /\ i.to # {}

Installed(g) == UNION {i.to : i \in g.inputs}

SoundPackages(g) ==
    /\ \A p \in Installed(g) : p.type = "package" /\ p.purpose = "install"
    /\ \A p, q \in Installed(g) : p.name = q.name => p = q

(* A mutant: forbidden packages are not looked for. *)
MutSelectedPackages(g) ==
    \A n \in DOMAIN Required :
       \E p \in Installed(g) : p.name = n /\ p.licenses = <<Required[n]>>

SelectedPackages(g) ==
    /\ \A n \in DOMAIN Required :
          \E p \in Installed(g) : p.name = n /\ p.licenses = <<Required[n]>>
    /\ \A p \in Installed(g) : p.name \notin Forbidden

(* hash_file of every root file against the digest the graph declares. *)
SoundArtifacts(g, deploy) ==
    /\ \A a, b \in g.rootFiles : a.name = b.name => a = b
    /\ \A a \in g.rootFiles :
          /\ a.name \in DOMAIN deploy
          /\ deploy[a.name].kind = "file"
          /\ a.digests = <<deploy[a.name].digest>>

AnalyzeGraph(g, deploy) ==
    /\ SoundHeader(g) /\ SoundRoot(g) /\ SoundBuild(g)
    /\ SoundPackages(g) /\ SelectedPackages(g)
    /\ SoundArtifacts(g, deploy)

-----------------------------------------------------------------------------
(* build_evidence: the projection. *)
Project ==
    [kind |-> "sbom", run |-> ThisRun, revision |-> sbom.revision, dirty |-> sbom.dirty,
     inputs |-> sbom.inputs, packages |-> Required,
     artifacts |-> {a.name : a \in sbom.graph.rootFiles},
     installedCount |-> Cardinality(Installed(sbom.graph)),
     rootCount |-> Cardinality(sbom.graph.rootPackages) + Cardinality(sbom.graph.rootFiles)]

(* validate_evidence without options: shape and correlated counts. *)
ValidSbom(d) ==
    /\ d.kind = "sbom"
    /\ d.artifacts # {}
    /\ d.rootCount = Cardinality(d.artifacts) + 1
    /\ d.packages = Required
    /\ d.installedCount >= Cardinality(DOMAIN d.packages)

(* --require-pass, --require-revision and --require-current-inputs. *)
CurrentSbom(d, revision) ==
    /\ ValidSbom(d)
    /\ ~d.dirty
    /\ d.revision = revision
    /\ content.valid /\ d.inputs = content.inputs

-----------------------------------------------------------------------------
Doing(phase) == sbom.phase = phase /\ UNCHANGED treeVars
Leave(next) == sbom' = next /\ UNCHANGED evidence
EndSbom(status) == Leave([sbom EXCEPT !.phase = "ended", !.exit = status])
Then(phase) == Leave([sbom EXCEPT !.phase = phase])

(* configure_build verify, the SPDX settings and preflight. *)
VerifyBuild ==
    /\ Doing("verify")
    /\ \/ content.valid /\ Then("clear")
       \/ EndSbom(1)

(* A mutant: the evidence of an earlier run stays. *)
MutClearEvidence == Doing("clear") /\ Leave([sbom EXCEPT !.phase = "task", !.cleared = TRUE])

ClearEvidence ==
    /\ Doing("clear")
    /\ \/ /\ content.valid
          /\ evidence' = NoEvidence
          /\ sbom' = [sbom EXCEPT !.phase = "task", !.cleared = TRUE]
       \/ EndSbom(1)

(* A failing task ends the run with its own status, nothing is collected. *)
CreateSbom ==
    /\ Doing("task")
    /\ \/ \E g \in Graphs, d \in Deploys :
             Leave([sbom EXCEPT !.phase = "collect", !.image = content, !.graph = g, !.deploy = d])
       \/ EndSbom(7)

(* Resolution of the deploy directory, contract and source authority, the    *)
(* reading of the document and its analysis.                                 *)
CollectGraph ==
    /\ Doing("collect")
    /\ \/ /\ content.valid
          /\ AnalyzeGraph(sbom.graph, sbom.deploy)
          /\ Leave([sbom EXCEPT !.phase = "revision", !.inputs = content.inputs])
       \/ EndSbom(1)

(* project_state: two queries. *)
StateRevision == Doing("revision") /\ Leave([sbom EXCEPT !.phase = "dirty", !.revision = head])
StateDirty == Doing("dirty") /\ Leave([sbom EXCEPT !.phase = "write", !.dirty = Dirty])

(* A complete temporary file replaces the output. *)
WriteSbom ==
    /\ Doing("write")
    /\ \/ /\ ValidSbom(Project)
          /\ evidence' = Project
          /\ sbom' = [sbom EXCEPT !.phase = "head"]
       \/ EndSbom(1)

(* A git that fails ends the script with git's own status. *)
RequireHead ==
    /\ Doing("head")
    /\ Leave([sbom EXCEPT !.phase = "validate", !.required = head]) \/ EndSbom(128)

(* The sources may also have stopped being ready. *)
ValidateSbom ==
    /\ Doing("validate")
    /\ \/ CurrentSbom(evidence, sbom.required) /\ EndSbom(0)
       \/ Then("withdraw")

(* clear of the refused evidence; when it cannot select the lab, set -e ends *)
(* the script with its status and the evidence stays.                        *)
WithdrawSbom ==
    /\ Doing("withdraw")
    /\ \/ /\ content.valid
          /\ evidence' = NoEvidence
          /\ sbom' = [sbom EXCEPT !.phase = "ended", !.exit = 1]
       \/ /\ ~content.valid
          /\ EndSbom(2)

KillSbom == Doing(sbom.phase) /\ sbom.phase \notin {"ended", "killed"} /\ Then("killed")

WorkOnSources ==
    /\ sbom.phase \notin {"ended", "killed"}
    /\ UserStep
    /\ sbom' = [sbom EXCEPT !.touched = (@ \/ sbom.phase # "verify")]
    /\ UNCHANGED evidence

FreshSbom ==
    [phase |-> "verify", exit |-> 0, cleared |-> FALSE, touched |-> FALSE,
     image |-> Original, graph |-> NoEvidence, deploy |-> NoEvidence, inputs |-> 0,
     revision |-> 0, dirty |-> FALSE, required |-> 0]

SbomInit ==
    /\ TreeInit
    /\ evidence \in {NoEvidence,
                     [kind |-> "sbom", run |-> EarlierRun, revision |-> 1, dirty |-> FALSE, inputs |-> 0,
                      packages |-> Required, artifacts |-> {"rootfs"},
                      installedCount |-> Cardinality(DOMAIN Required), rootCount |-> 2]}
    /\ sbom = FreshSbom

SbomNext ==
    \/ VerifyBuild \/ ClearEvidence \/ CreateSbom \/ CollectGraph \/ StateRevision \/ StateDirty
    \/ WriteSbom \/ RequireHead \/ ValidateSbom \/ WithdrawSbom \/ KillSbom \/ WorkOnSources

SbomSpec == SbomInit /\ [][SbomNext]_sbomVars

-----------------------------------------------------------------------------
(* Fail closed: once the run has removed the selected evidence, the file is  *)
(* absent or the run's own, whatever fails afterwards; and a run that failed *)
(* leaves its own evidence only when git gave no HEAD to validate against,   *)
(* or when the lab catalog was made invalid during the run: the removal of   *)
(* the refused evidence then fails too, and every validation against current *)
(* inputs refuses that evidence as long as the catalog stays so.             *)
SbomFailClosed ==
    /\ sbom.cleared => evidence.run \in {0, ThisRun}
    /\ (sbom.phase = "ended" /\ sbom.exit # 0 /\ sbom.cleared /\ evidence # NoEvidence) =>
          sbom.exit = 128 \/ ~content.valid

(* A run that exits 0 leaves evidence of its own: of HEAD, clean, for an     *)
(* image whose SPDX graph installs every required package and no forbidden   *)
(* one and whose deployed files are those the graph hashes; if nobody worked *)
(* on the tree since it was verified, HEAD is what was built.                *)
SbomPassMeansImage ==
    (sbom.phase = "ended" /\ sbom.exit = 0) =>
        /\ evidence.run = ThisRun
        /\ evidence.revision = sbom.required /\ ~evidence.dirty
        /\ LET names == {p.name : p \in Installed(sbom.graph)} IN
           DOMAIN Required \subseteq names /\ names \cap Forbidden = {}
        /\ \A a \in sbom.graph.rootFiles : sbom.deploy[a.name].digest = a.digests[1]
        /\ ~sbom.touched => sbom.image = commits[evidence.revision]
=============================================================================
