-------------------------- MODULE RuntimeEvidence --------------------------
(* runtime-test.sh with scripts/runtime_evidence.py (the PCI lab) and        *)
(* scripts/platform_runtime_evidence.py (the ARM64 lab): one run builds the  *)
(* image, tests it in the guest, converts the test results to an evidence    *)
(* document and validates what it wrote.  Building a document and validating *)
(* one are separate programs; each derives the claims of a document from the *)
(* test results by a table of its own.  The user may work on the tree, and   *)
(* the run may be killed, between any two steps.  Identifiers, digests,      *)
(* times and durations are left out.                                         *)
EXTENDS ProjectTree, FiniteSets

CONSTANTS
    Profile,    \* the profiles of the labs under test
    Outcomes,   \* for each profile, the case results testimage may record
    Earlier,    \* what an earlier run may have left at the output path
    Stored      \* the documents somebody may ask validate about

OEQA_STATUSES == {"PASSED", "FAILED", "ERROR", "SKIPPED", "EXPECTEDFAIL", "UNKNOWN"}
Missing == "MISSING"  \* an expected case without a result
NoResults == <<>>     \* no testresults.json, or one without this suite

ASSUME RuntimeEvidenceAssumption ==
    /\ Profile \subseteq {"pci-v3", "platform-v1"}
    /\ \A p \in Profile : Outcomes[p] \subseteq Seq(OEQA_STATUSES \cup {Missing})

NoFile == [kind |-> "absent"]
Torn == [kind |-> "torn"]

(* A document with the fields of one, whatever they say: what has not even   *)
(* that shape is refused by any validator (require_exact_keys).              *)
IsFcn(f) == f = [x \in DOMAIN f |-> f[x]]
IsDocument(d) ==
    /\ IsFcn(d) /\ IsFcn(d.claims)
    /\ DOMAIN d = {"kind", "tests", "claims", "counts", "total", "exit", "result", "revision", "dirty"}
    /\ d.tests \in Seq({d.tests[i] : i \in DOMAIN d.tests})
    /\ d.dirty \in BOOLEAN

ASSUME DocumentsAssumption == \A d \in Earlier \cup Stored : d = NoFile \/ IsDocument(d)

VARIABLES
    files,  \* the evidence documents by path
    run     \* the run: where it stands and what its variables hold

runtimeVars == <<treeVars, files, run>>

-----------------------------------------------------------------------------
EXPECTED_TESTS == [pci1 |-> 11, pci2 |-> 14, pci3 |-> 19, platform |-> 9]
KindOf(profile) == IF profile = "pci-v3" THEN "pci3" ELSE "platform"

(* build_evidence: the case that exercises each claim of the contract. *)
PciClaims ==
    [default_msi |-> 8, explicit_intx |-> 9, automatic_fallback |-> 10,
     required_msi_failure |-> 11, device_unbound |-> 11, cleanup_recovery |-> 11,
     factorial_timeout |-> 13, factorial_injected |-> 13, device_absence |-> 14,
     bounded_interface |-> 15, roundtrip_boundaries |-> 16, input_rejection |-> 17,
     timeout_recovery |-> 18, dma_injected |-> 18, teardown_rebind |-> 19]

PlatformClaims ==
    [device_tree |-> 2, scratch_mmio |-> 5, invalid_input_rejected |-> 6, interrupts |-> 7,
     zero_rejected |-> 8, acknowledged |-> 7, lifecycle |-> 9, restored |-> 9]

Counts(tests) == [s \in OEQA_STATUSES |-> Cardinality({i \in DOMAIN tests : tests[i] = s})]

BuildResult(tests, exit) ==
    IF Counts(tests)["PASSED"] = Len(tests) /\ exit = 0 THEN "passed" ELSE "failed"

BuildPci(tests, exit, revision, dirty) ==
    [kind |-> "pci3", tests |-> tests,
     claims |-> [c \in DOMAIN PciClaims |-> tests[PciClaims[c]] = "PASSED"],
     counts |-> Counts(tests), total |-> Len(tests), exit |-> exit,
     result |-> BuildResult(tests, exit), revision |-> revision, dirty |-> dirty]

BuildPlatform(tests, exit, revision, dirty) ==
    [kind |-> "platform", tests |-> tests,
     claims |-> [c \in DOMAIN PlatformClaims |-> tests[PlatformClaims[c]] = "PASSED"],
     counts |-> Counts(tests), total |-> Len(tests), exit |-> exit,
     result |-> BuildResult(tests, exit), revision |-> revision, dirty |-> dirty]

Build(profile, tests, exit, revision, dirty) ==
    IF profile = "pci-v3" THEN BuildPci(tests, exit, revision, dirty)
    ELSE BuildPlatform(tests, exit, revision, dirty)

(* A mutant: the absence case of schema 1 in a newer document. *)
MutNegativePaths(kind) ==
    [factorial_timeout |-> IF kind = "pci1" THEN 10 ELSE 13,
     factorial_injected |-> IF kind = "pci1" THEN 10 ELSE 13,
     device_absence |-> IF kind = "pci1" THEN 11 ELSE 13]

(* validate_evidence: the case it expects behind each claim. *)
NegativePaths(kind) ==
    [factorial_timeout |-> IF kind = "pci1" THEN 10 ELSE 13,
     factorial_injected |-> IF kind = "pci1" THEN 10 ELSE 13,
     device_absence |-> IF kind = "pci1" THEN 11 ELSE 14]

InterruptPaths ==
    [default_msi |-> 8, explicit_intx |-> 9, automatic_fallback |-> 10,
     required_msi_failure |-> 11, device_unbound |-> 11, cleanup_recovery |-> 11]

DmaPaths ==
    [bounded_interface |-> 15, roundtrip_boundaries |-> 16, input_rejection |-> 17,
     timeout_recovery |-> 18, dma_injected |-> 18, teardown_rebind |-> 19]

BoundedPaths ==
    [device_tree |-> 2, scratch_mmio |-> 5, invalid_input_rejected |-> 6, interrupts |-> 7,
     zero_rejected |-> 8, acknowledged |-> 7, lifecycle |-> 9, restored |-> 9]

(* The paths of two parts of a contract. *)
Joined(f, g) == [c \in DOMAIN f \cup DOMAIN g |-> IF c \in DOMAIN f THEN f[c] ELSE g[c]]

Expected(kind) ==
    CASE kind = "platform" -> BoundedPaths
      [] kind = "pci1" -> NegativePaths(kind)
      [] kind = "pci2" -> Joined(NegativePaths(kind), InterruptPaths)
      [] kind = "pci3" -> Joined(Joined(NegativePaths(kind), InterruptPaths), DmaPaths)

ValidTests(d) ==
    /\ Len(d.tests) = EXPECTED_TESTS[d.kind]
    /\ \A i \in DOMAIN d.tests : d.tests[i] \in OEQA_STATUSES
    /\ d.exit \in 0..255

ValidClaims(d) ==
    /\ DOMAIN d.claims = DOMAIN Expected(d.kind)
    /\ \A c \in DOMAIN d.claims : d.claims[c] = (d.tests[Expected(d.kind)[c]] = "PASSED")

ValidSummary(d) ==
    /\ d.counts = Counts(d.tests)
    /\ d.total = Len(d.tests)
    /\ d.result = IF Counts(d.tests)["PASSED"] = Len(d.tests) /\ d.exit = 0 THEN "passed" ELSE "failed"

ValidPci(d) == d.kind \in {"pci1", "pci2", "pci3"} /\ ValidTests(d) /\ ValidClaims(d) /\ ValidSummary(d)

(* The ARM64 lab's validator knows no other document than its own. *)
ValidPlatform(d) == d.kind = "platform" /\ ValidTests(d) /\ ValidClaims(d) /\ ValidSummary(d)

Valid(d) == ValidPci(d) \/ ValidPlatform(d)

(* validate --require-pass *)
PassesPci(d) ==
    /\ ValidPci(d)
    /\ d.result = "passed"
    /\ ~d.dirty
    /\ \A c \in DOMAIN d.claims : d.claims[c]

PassesPlatform(d) ==
    /\ ValidPlatform(d)
    /\ d.result = "passed"
    /\ ~d.dirty
    /\ \A c \in {"device_tree", "scratch_mmio", "invalid_input_rejected",
                  "interrupts", "zero_rejected", "lifecycle"} : d.claims[c]

(* The tool of the run's profile judges its output. *)
Passes(profile, d) == IF profile = "pci-v3" THEN PassesPci(d) ELSE PassesPlatform(d)

-----------------------------------------------------------------------------
(* The paths: where runtime-test.sh writes and where doctor looks. *)
RuntimeOutput == <<"build", "evidence", "runtime.json">>
DoctorInput == <<"build", "runtime.json">>

NotRunning == run.phase \in {"new", "asked", "ended", "killed"}
InRun(phase) == run.phase = phase /\ UNCHANGED treeVars
Go(next) == run' = next /\ UNCHANGED files
Exit(status) == Go([run EXCEPT !.phase = "ended", !.exit = status])
(* A failing collect is remembered; the run goes on to report testimage. *)
CollectFails == Go([run EXCEPT !.phase = "decide", !.evidenceStatus = 1])

FreshRun == [phase |-> "new", profile |-> "none", image |-> {}, testStatus |-> 0, tests |-> NoResults,
             revision |-> 0, dirty |-> FALSE, evidenceStatus |-> 0, exit |-> 0, touched |-> FALSE]

StartRun ==
    /\ InRun("new")
    /\ \E p \in Profile : Go([run EXCEPT !.phase = "image", !.profile = p])

(* bitbake of the image; set -e ends the run when it, or one of the          *)
(* selections of the lab before it, fails.                                   *)
BuildImage ==
    /\ InRun("image")
    /\ \/ content.valid /\ Go([run EXCEPT !.phase = "test", !.image = {content}])
       \/ Exit(1)

(* testimage runs the image with the suite of the tree as it is now. *)
Testimage ==
    /\ InRun("test")
    /\ \E status \in {0, 1}, tests \in Outcomes[run.profile] :
          Go([run EXCEPT !.phase = IF run.profile = "pci-v3" THEN "results" ELSE "lab",
                         !.image = @ \cup {content}, !.testStatus = status, !.tests = tests])

(* The ARM64 tool selects the lab afresh: it must still name this profile,   *)
(* this machine and this image.                                              *)
SelectLabAgain ==
    /\ InRun("lab")
    /\ \/ content.valid /\ Go([run EXCEPT !.phase = "results"])
       \/ CollectFails

(* select_oeqa_result and the loop over the expected cases. *)
ReadResults ==
    /\ InRun("results")
    /\ IF run.tests = NoResults \/ \E i \in DOMAIN run.tests : run.tests[i] = Missing
       THEN CollectFails
       ELSE Go([run EXCEPT !.phase = "revision"])

(* git_state: two queries. *)
ReadRevision == InRun("revision") /\ Go([run EXCEPT !.phase = "dirty", !.revision = head])
ReadDirty == InRun("dirty") /\ Go([run EXCEPT !.phase = "write", !.dirty = Dirty])

BuiltEvidence == Build(run.profile, run.tests, run.testStatus, run.revision, run.dirty)

(* write_text truncates the file and then fills it. *)
TruncateFile ==
    /\ InRun("write")
    /\ \/ /\ Valid(BuiltEvidence)
          /\ files' = [files EXCEPT ![RuntimeOutput] = Torn]
          /\ run' = [run EXCEPT !.phase = "fill"]
       \/ CollectFails

FillFile ==
    /\ InRun("fill")
    /\ \/ /\ files' = [files EXCEPT ![RuntimeOutput] = BuiltEvidence]
          /\ run' = [run EXCEPT !.phase = "decide"]
       \/ CollectFails

(* A mutant: a failing collect does not fail the run. *)
MutDecide ==
    /\ InRun("decide")
    /\ IF run.testStatus # 0 THEN Exit(run.testStatus)
       ELSE Go([run EXCEPT !.phase = "validate"])

Decide ==
    /\ InRun("decide")
    /\ IF run.testStatus # 0 THEN Exit(run.testStatus)
       ELSE IF run.evidenceStatus # 0 THEN Exit(run.evidenceStatus)
       ELSE Go([run EXCEPT !.phase = "validate"])

ValidateOutput ==
    /\ InRun("validate")
    /\ Exit(IF Passes(run.profile, files[RuntimeOutput]) THEN 0 ELSE 1)

KillRun == InRun(run.phase) /\ ~NotRunning /\ Go([run EXCEPT !.phase = "killed"])

(* Somebody works on the tree. *)
WorkOnTree ==
    /\ run.phase \notin {"asked", "ended"}
    /\ UserStep
    /\ run' = [run EXCEPT !.touched = ~NotRunning \/ @]
    /\ UNCHANGED files

(* Either tool asked to validate any document. *)
ValidateStored ==
    /\ InRun("asked")
    /\ \E p \in Profile : Exit(IF Passes(p, files[RuntimeOutput]) THEN 0 ELSE 1)

RuntimeInit ==
    /\ TreeInit
    /\ \E phase \in {"new", "asked"} : \E d \in IF phase = "new" THEN Earlier ELSE Stored :
          /\ files = [p \in {RuntimeOutput, DoctorInput} |-> IF p = RuntimeOutput THEN d ELSE NoFile]
          /\ run = [FreshRun EXCEPT !.phase = phase]

RuntimeNext ==
    \/ StartRun \/ BuildImage \/ Testimage \/ SelectLabAgain \/ ReadResults \/ ReadRevision \/ ReadDirty
    \/ TruncateFile \/ FillFile \/ Decide \/ ValidateOutput \/ KillRun \/ WorkOnTree \/ ValidateStored

RuntimeSpec == RuntimeInit /\ [][RuntimeNext]_runtimeVars

-----------------------------------------------------------------------------
(* The two programs agree: a document validates exactly when it is what      *)
(* build_evidence makes of its own test results, each with a status it       *)
(* knows, and one that passes --require-pass has nothing but passed cases, a *)
(* clean tree and every path of its contract exercised                       *)
(* (docs/runtime-testing.md).                                                *)
ValidatorExact ==
    LET d == files[RuntimeOutput]
        profile == IF d.kind = "pci3" THEN "pci-v3" ELSE "platform-v1"
    IN  /\ d.kind \in {"pci3", "platform"} =>
              Valid(d) = (/\ d.exit \in 0..255
                          /\ d.tests \in Seq(OEQA_STATUSES) /\ Len(d.tests) = EXPECTED_TESTS[d.kind]
                          /\ d = Build(profile, d.tests, d.exit, d.revision, d.dirty))
        /\ PassesPci(d) \/ PassesPlatform(d) =>
                        /\ \A i \in DOMAIN d.tests : d.tests[i] = "PASSED"
                        /\ ~d.dirty /\ d.exit = 0

(* A run that exits 0 leaves its own evidence: the cases it ran all passed,  *)
(* and, when nobody worked on the tree during the run, the revision it names *)
(* holds what was built and tested.                                          *)
PassNamesTestedTree ==
    (run.phase = "ended" /\ run.exit = 0 /\ run.profile # "none") =>
        LET d == files[RuntimeOutput] IN
        /\ run.tests # NoResults
        /\ d = BuiltEvidence
        /\ run.testStatus = 0
        /\ \A i \in DOMAIN run.tests : run.tests[i] = "PASSED"
        /\ ~run.touched => run.image = {commits[d.revision]}

(* docs/diagnostics.md:43: doctor adds the selected runtime evidence, so     *)
(* after a run that exits 0 it finds what the run wrote.                     *)
DoctorSeesFreshPass ==
    (run.phase = "ended" /\ run.exit = 0 /\ run.profile # "none") =>
        files[DoctorInput] = files[RuntimeOutput]
=============================================================================
