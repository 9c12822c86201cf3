----------------------------- MODULE MCRecords -----------------------------
(* Four machines of the records a run leaves or reads, one per behaviour:    *)
(* the runtime evidence, the SBOM evidence, the lab catalog and the          *)
(* repository-trust verdict.  Only the lane's machine moves.                 *)
EXTENDS RuntimeEvidence, SbomEvidence, LabCatalog, RepositoryTrust

VARIABLE lane

All(n, s) == [i \in 1..n |-> s]
With(tests) == {tests} \cup {[tests EXCEPT ![i] = s] : i \in DOMAIN tests, s \in {"FAILED", "SKIPPED"}}

(* The documents that differ from d in one field. *)
Altered(d) ==
    {d, [d EXCEPT !.result = IF d.result = "passed" THEN "failed" ELSE "passed"], [d EXCEPT !.dirty = TRUE],
     [d EXCEPT !.exit = 1], [d EXCEPT !.exit = 256], [d EXCEPT !.total = @ - 1],
     [d EXCEPT !.counts["PASSED"] = @ + 1], [d EXCEPT !.tests = SubSeq(@, 1, Len(@) - 1)],
     [d EXCEPT !.tests = Append(@, "PASSED")], [d EXCEPT !.tests[1] = "BROKEN"]}
    \cup {[d EXCEPT !.claims[c] = ~@] : c \in DOMAIN d.claims}
    \cup {[d EXCEPT !.tests[i] = "UNKNOWN"] : i \in DOMAIN d.tests}

(* A document of an older schema, as the validator expects it. *)
Older(kind, tests) ==
    [kind |-> kind, tests |-> tests,
     claims |-> [c \in DOMAIN Expected(kind) |-> tests[Expected(kind)[c]] = "PASSED"],
     counts |-> Counts(tests), total |-> Len(tests), exit |-> 0,
     result |-> IF Counts(tests)["PASSED"] = Len(tests) THEN "passed" ELSE "failed",
     revision |-> 1, dirty |-> FALSE]

MCStored ==
    UNION {Altered(Build(p, tests, 0, 1, FALSE)) :
              p \in {"pci-v3"}, tests \in With(All(19, "PASSED"))}
    \cup UNION {Altered(Build("platform-v1", tests, 0, 1, FALSE)) : tests \in With(All(9, "PASSED"))}
    \cup UNION {Altered(Older("pci1", tests)) : tests \in With(All(11, "PASSED"))}
    \cup UNION {Altered(Older("pci2", tests)) : tests \in With(All(14, "PASSED"))}

MCEarlier == {NoFile, Build("pci-v3", All(19, "PASSED"), 0, 1, FALSE)}

MCOutcomes ==
    [p \in Profile |->
        LET passed == All(EXPECTED_TESTS[KindOf(p)], "PASSED")
        IN  {NoResults, passed, [passed EXCEPT ![6] = "SKIPPED"], [passed EXCEPT ![9] = Missing]}]

(* The SPDX graphs that differ from a good one in one respect. *)
MCRequired == [kernel |-> "GPL-2.0-only", tool |-> "MIT"]
Pkg(name, license) == [name |-> name, type |-> "package", purpose |-> "install", licenses |-> <<license>>]
GoodInputs == {Pkg("kernel", "GPL-2.0-only"), Pkg("tool", "MIT"), Pkg("base", "MIT")}
Rootfs == [name |-> "image", purpose |-> "archive"]
File(name, digest) == [name |-> name, digests |-> <<digest>>]
Input(s) == {[to |-> s, scope |-> "build"]}
GoodGraph ==
    [documents |-> 1, sboms |-> 1, missing |-> {"x"}, imported |-> {"x"}, roots |-> {"sbom"},
     version |-> "3.0.1", profiles |-> "locked", sbomType |-> "build",
     rootPackages |-> {Rootfs}, rootFiles |-> {File("rootfs", 1), File("manifest", 2)}, otherRoots |-> FALSE,
     rootfsBuilds |-> 1, buildType |-> "rootfs",
     outputs |-> {[to |-> {Rootfs}, scope |-> "build"]}, inputs |-> Input(GoodInputs)]

MCGraphs ==
    LET g == GoodGraph
        installs(s) == [g EXCEPT !.inputs = Input(s)]
    IN  {g, [g EXCEPT !.documents = 2], [g EXCEPT !.sboms = 0], [g EXCEPT !.imported = {}],
         [g EXCEPT !.roots = {"sbom", "other"}], [g EXCEPT !.version = "2.3"], [g EXCEPT !.otherRoots = TRUE],
         [g EXCEPT !.rootPackages = {}], [g EXCEPT !.rootPackages = {[Rootfs EXCEPT !.name = "other"]}],
         [g EXCEPT !.rootFiles = {}], [g EXCEPT !.rootFiles = {File("rootfs", 1), File("rootfs", 2)}],
         [g EXCEPT !.rootFiles = {[name |-> "rootfs", digests |-> <<1, 2>>]}],
         [g EXCEPT !.rootfsBuilds = 2], [g EXCEPT !.outputs = {}],
         [g EXCEPT !.inputs = @ \cup Input({})], [g EXCEPT !.inputs = {[to |-> GoodInputs, scope |-> "none"]}],
         installs({}), installs({Pkg("kernel", "GPL-2.0-only"), Pkg("base", "MIT")}),
         installs(GoodInputs \cup {Pkg("debug", "MIT")}), installs(GoodInputs \cup {Pkg("tool", "GPL-2.0-only")}),
         installs({Pkg("kernel", "MIT"), Pkg("tool", "MIT")}),
         installs(GoodInputs \cup {[Pkg("data", "MIT") EXCEPT !.type = "file"]})}

MCDeploys ==
    LET good == [rootfs |-> [kind |-> "file", digest |-> 1], manifest |-> [kind |-> "file", digest |-> 2]]
    IN  {good, [good EXCEPT !.manifest.digest = 3], [good EXCEPT !.rootfs.kind = "link"],
         [rootfs |-> [kind |-> "file", digest |-> 1]]}

(* The PCI lab and the manifests the second lab may have: one sound, and     *)
(* each other wrong in one rule or in the way of the first lab.              *)
LabA == [id |-> "a", buildDir |-> <<"build">>, machine |-> "x86", targets |-> <<"image-a">>,
         profile |-> "pci", runtime |-> "pci-v3", supplyProfile |-> "spdx3-image-v1",
         required |-> {"tool"}, forbidden |-> {"sample", "debug"},
         developmentDir |-> <<"build-sdk", "a">>, recipe |-> "sample"]
LabB == [LabA EXCEPT !.id = "b", !.buildDir = <<"build", "b">>, !.machine = "arm64", !.targets = <<"image-b">>,
                     !.profile = "platform", !.runtime = "platform-v1", !.developmentDir = <<"build-sdk", "b">>]
MCManifests ==
    LET b == LabB
    IN  {LabA, b, [b EXCEPT !.id = "c"], [b EXCEPT !.buildDir = <<"out">>], [b EXCEPT !.buildDir = <<"build">>],
         [b EXCEPT !.buildDir = <<"build-sdk", "a">>], [b EXCEPT !.buildDir = <<"build-sdk", "b">>],
         [b EXCEPT !.machine = "x86"], [b EXCEPT !.targets = <<"x", "y">>], [b EXCEPT !.profile = "other"],
         [b EXCEPT !.runtime = "pci-v3"], [b EXCEPT !.supplyProfile = "other"], [b EXCEPT !.required = {}],
         [b EXCEPT !.required = {"sample"}], [b EXCEPT !.forbidden = {"debug"}], [b EXCEPT !.recipe = "debug"],
         [b EXCEPT !.developmentDir = <<"build-sdk", "a">>], [b EXCEPT !.developmentDir = <<"build", "b">>]}
Entry(id, path, m) == [id |-> id, manifest |-> path, sha256 |-> m]
MCIndexes ==
    {[default |-> "a", labs |-> <<Entry("a", "a.json", LabA), Entry("b", "b.json", m)>>] : m \in MCManifests}
    \cup {[default |-> d, labs |-> <<Entry("b", "b.json", m), Entry("a", "a.json", LabA)>>] :
             m \in MCManifests, d \in {"a", "b"}}
    \cup {[default |-> "c", labs |-> <<Entry("a", "a.json", LabA)>>], [default |-> "a", labs |-> <<>>],
          [default |-> "a", labs |-> <<Entry("a", "a.json", LabA), Entry("a", "b.json", LabA)>>],
          [default |-> "a", labs |-> <<Entry("a", "a.json", LabA), Entry("b", "a.json", LabA)>>]}
MCLocks == {[dir |-> l.buildDir, machine |-> l.machine, targets |-> l.targets] : l \in {LabA, LabB}}

(* The settings all as the policy wants them, with one unseen, different or  *)
(* malformed, or one unseen and one different, and every way the required    *)
(* checks may be.                                                            *)
AsWanted == [f \in Facts |-> "expected"]
Deviations == {"unseen", "different", "malformed"}
Hide(setting) == [f \in {f \in Facts : setting[f] # "unseen"} |-> setting[f]]
MCChecks ==
    {EXPECTED_CHECKS, [c \in {"static"} |-> "github-actions"], [EXPECTED_CHECKS EXCEPT !["static"] = "app"],
     [c \in DOMAIN EXPECTED_CHECKS \cup {"yocto-metadata"} |-> "github-actions"], [c \in {} |-> "github-actions"]}
Observation(setting, checks) == [kind |-> "observation", setting |-> Hide(setting), checks |-> checks]
MCObservations ==
    {Absent, [Absent EXCEPT !.kind = "link"], [Absent EXCEPT !.kind = "torn"], Observation([f \in Facts |-> "unseen"], {})}
    \cup {Observation([AsWanted EXCEPT ![f] = d], {EXPECTED_CHECKS}) : f \in Facts, d \in Deviations}
    \cup {Observation([AsWanted EXCEPT ![f] = "unseen", ![g] = "different"], {EXPECTED_CHECKS}) :
             f, g \in Facts}
    \cup {Observation([AsWanted EXCEPT ![f] = d], c) :
             f \in {"name", "patterns_allowed"}, d \in {"expected", "unseen", "different"},
             c \in {{}} \cup {{x} : x \in MCChecks}}
MCRefreshed ==
    {Absent, [Absent EXCEPT !.kind = "torn"]}
    \cup {Observation([AsWanted EXCEPT !["name"] = d], {EXPECTED_CHECKS}) : d \in Deviations \cup {"expected"}}

MCTexts ==
    LET tokens == {"open", "close", "contact", "other"}
        lines == UNION {[1..n -> tokens] : n \in 0..3}
    IN  {<<l>> : l \in lines} \cup {<<l, m>> : l, m \in lines}

ASSUME EveryTextRead == ContactRead

RuntimeIdle == TreeInit /\ files = [p \in {RuntimeOutput, DoctorInput} |-> NoFile] /\ run = FreshRun
SbomIdle == evidence = NoEvidence /\ sbom = FreshSbom
CatalogIdle == disk = {} /\ changes = 0 /\ catalog = NoCatalog
TrustIdle == owned = {} /\ refreshes = 0 /\ trust = FreshTrust("idle", "validate")

RecordsInit ==
    \/ lane = "runtime" /\ RuntimeInit /\ SbomIdle /\ CatalogIdle /\ TrustIdle
    \/ lane = "sbom" /\ SbomInit /\ files = [p \in {RuntimeOutput, DoctorInput} |-> NoFile] /\ run = FreshRun
       /\ CatalogIdle /\ TrustIdle
    \/ lane = "catalog" /\ CatalogInit /\ RuntimeIdle /\ SbomIdle /\ TrustIdle
    \/ lane = "trust" /\ TrustInit /\ RuntimeIdle /\ SbomIdle /\ CatalogIdle

recordsVars == <<lane, treeVars, files, run, evidence, sbom, catalogVars, trustVars>>

RecordsNext ==
    /\ UNCHANGED lane
    /\ \/ lane = "runtime" /\ RuntimeNext /\ UNCHANGED <<evidence, sbom, catalogVars, trustVars>>
       \/ lane = "sbom" /\ SbomNext /\ UNCHANGED <<files, run, catalogVars, trustVars>>
       \/ lane = "catalog" /\ CatalogNext /\ UNCHANGED <<treeVars, files, run, evidence, sbom, trustVars>>
       \/ lane = "trust" /\ TrustNext /\ UNCHANGED <<treeVars, files, run, evidence, sbom, catalogVars>>

RecordsSpec == RecordsInit /\ [][RecordsNext]_recordsVars
=============================================================================
