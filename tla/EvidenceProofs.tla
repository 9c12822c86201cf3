--------------------------- MODULE EvidenceProofs ---------------------------
(***************************************************************************)
(* Theorems about the evidence documents.  A runtime-test.sh that          *)
(* passes leaves its own document of passed cases and of the tree it       *)
(* tested, and a document validates exactly when the builder could have    *)
(* made it; the SBOM run fails closed, and one that passes describes the   *)
(* image that was built: for any labs, results, packages and graphs, any   *)
(* earlier documents and any work on the tree.                             *)
(* The verdict on the repository's settings is exact for any observation.  *)
(***************************************************************************)
EXTENDS RuntimeEvidence, SbomEvidence, RepositoryTrust, FiniteSetTheorems, TLAPS

-----------------------------------------------------------------------------
(* Runtime evidence.                                                       *)

RunFields == {"phase", "profile", "image", "testStatus", "tests", "revision",
              "dirty", "evidenceStatus", "exit", "touched"}

RuntimePassed == run.phase = "ended" /\ run.exit = 0 /\ run.profile # "none"

(* The places at which the output is this run's document.                    *)
Published == (run.phase \in {"decide", "validate"} /\ run.evidenceStatus = 0) \/ RuntimePassed

Collecting == {"revision", "dirty", "write", "fill"}

RunInv ==
    /\ DOMAIN run = RunFields
    /\ RuntimeOutput \in DOMAIN files
    /\ run.tests \in Seq(OEQA_STATUSES \cup {Missing})
    /\ run.phase = "asked" => run.profile = "none"
    /\ run.phase \in {"image", "test", "lab", "results"} => run.profile \in Profile

(* What is published is built from the results and statuses of this run.     *)
OutputInv ==
    /\ run.phase \in Collecting => run.tests # NoResults
    /\ Published => files[RuntimeOutput] = BuiltEvidence /\ run.tests # NoResults
    /\ run.phase = "validate" \/ RuntimePassed => run.evidenceStatus = 0 /\ run.testStatus = 0
    /\ RuntimePassed => Passes(run.profile, files[RuntimeOutput])

(* While nobody works on the tree, it is what was built and tested, and what *)
(* the run has asked git for is still true.                                  *)
TestedInv ==
    ~run.touched =>
        /\ run.phase \in {"test", "lab", "results"} \cup Collecting \/ Published => run.image = {content}
        /\ run.phase \in {"dirty", "write", "fill"} \/ Published => run.revision = head
        /\ run.phase \in {"write", "fill"} \/ Published => run.dirty = Dirty

RuntimeInv == RunInv /\ OutputInv /\ TestedInv

-----------------------------------------------------------------------------
(* The fields of a built document that the run's checks look at. *)
LEMMA BuiltFields ==
  /\ BuiltEvidence.result = BuildResult(run.tests, run.testStatus)
  /\ BuiltEvidence.revision = run.revision
  /\ BuiltEvidence.dirty = run.dirty
<1>1. CASE run.profile = "pci-v3"
  BY <1>1 DEF BuiltEvidence, Build, BuildPci
<1>2. CASE run.profile # "pci-v3"
  BY <1>2 DEF BuiltEvidence, Build, BuildPlatform
<1> QED
  BY <1>1, <1>2

(* As many passed cases as there are cases means that every case passed. *)
LEMMA AllCounted ==
  ASSUME NEW S, NEW tests \in Seq(S), Counts(tests)["PASSED"] = Len(tests)
  PROVE  \A i \in DOMAIN tests : tests[i] = "PASSED"
<1> DEFINE passed == {i \in DOMAIN tests : tests[i] = "PASSED"}
<1>1. Len(tests) \in Nat /\ DOMAIN tests = 1..Len(tests)
  OBVIOUS
<1>2. IsFiniteSet(1..Len(tests)) /\ Cardinality(1..Len(tests)) = Len(tests)
  <2> DEFINE n == Len(tests)
  <2>1. n \in Nat /\ n \in Int /\ 1 \in Int
    BY <1>1
  <2> HIDE DEF n
  <2>2. IsFiniteSet(1..n) /\ Cardinality(1..n) = IF 1 > n THEN 0 ELSE n - 1 + 1
    BY <2>1, FS_Interval
  <2>3. IsFiniteSet(1..n) /\ Cardinality(1..n) = n
    BY <2>1, <2>2
  <2> QED
    BY <2>3 DEF n
<1>3. Cardinality(passed) = Len(tests)
  <2>1. Counts(tests)["PASSED"] = Cardinality({i \in DOMAIN tests : tests[i] = "PASSED"})
    BY DEF Counts, OEQA_STATUSES
  <2> QED
    BY <2>1
<1>4. passed \subseteq 1..Len(tests)
  BY <1>1
<1>5. passed = 1..Len(tests)
  BY <1>2, <1>3, <1>4, FS_Subset
<1> QED
  BY <1>1, <1>5

(* The run begins without results. *)
LEMMA RuntimeInitially == RuntimeInit => RuntimeInv
<1> SUFFICES ASSUME RuntimeInit PROVE RuntimeInv
  OBVIOUS
<1>1. PICK phase \in {"new", "asked"} : run = [FreshRun EXCEPT !.phase = phase]
  BY DEF RuntimeInit
<1>2. /\ DOMAIN run = RunFields /\ run.phase \in {"new", "asked"} /\ run.profile = "none"
      /\ run.tests = NoResults
  BY <1>1 DEF FreshRun, RunFields
<1>3. RuntimeOutput \in DOMAIN files
  BY DEF RuntimeInit
<1>4. <<>> \in Seq(OEQA_STATUSES \cup {Missing})
  OBVIOUS
<1> QED
  BY <1>2, <1>3, <1>4 DEF RuntimeInv, RunInv, OutputInv, TestedInv, Published, RuntimePassed, Collecting, NoResults

(* A step that gives up or ends with an error publishes nothing. *)
LEMMA RuntimeGivesUp ==
  ASSUME RuntimeInv, UNCHANGED <<treeVars, files>>,
         \/ CollectFails
         \/ run' = [run EXCEPT !.phase = "killed"]
         \/ run'.exit # 0 /\ run' = [run EXCEPT !.phase = "ended", !.exit = run'.exit]
  PROVE  RuntimeInv'
<1>1. /\ DOMAIN run' = RunFields /\ run'.tests = run.tests
      /\ \/ run'.phase = "decide" /\ run'.evidenceStatus = 1
         \/ run'.phase = "killed"
         \/ run'.phase = "ended" /\ run'.exit # 0
  BY DEF RuntimeInv, RunInv, RunFields, CollectFails, Go
<1>2. ~Published' /\ ~RuntimePassed'
  <2>1. run'.phase = "decide" => run'.evidenceStatus # 0
    BY <1>1
  <2> QED
    BY <1>1, <2>1 DEF Published, RuntimePassed
<1>3. RunInv'
  BY <1>1 DEF RuntimeInv, RunInv
<1> QED
  BY <1>1, <1>2, <1>3 DEF RuntimeInv, OutputInv, TestedInv, Collecting

(* The steps up to the results: the image is built and tested from the tree  *)
(* as it is.                                                                 *)
LEMMA RuntimeTests ==
  ASSUME RuntimeInv, StartRun \/ BuildImage \/ Testimage \/ SelectLabAgain \/ ReadResults
  PROVE  RuntimeInv'
<1> USE DEF InRun, Go, Exit
<1>1. CASE StartRun
  <2>1. PICK p \in Profile : run' = [run EXCEPT !.phase = "image", !.profile = p]
    BY <1>1 DEF StartRun
  <2>2. DOMAIN run' = RunFields /\ run'.tests = run.tests /\ run'.phase = "image" /\ run'.profile = p
    BY <2>1 DEF RuntimeInv, RunInv, RunFields
  <2>3. UNCHANGED files
    BY <1>1 DEF StartRun
  <2> QED
    BY <2>2, <2>3 DEF RuntimeInv, RunInv, OutputInv, TestedInv, Published, RuntimePassed, Collecting
<1>2. CASE BuildImage
  <2>1. CASE run' = [run EXCEPT !.phase = "test", !.image = {content}]
    <3>1. /\ DOMAIN run' = RunFields /\ run'.tests = run.tests /\ run'.phase = "test"
          /\ run'.profile = run.profile /\ run'.image = {content}
      BY <2>1 DEF RuntimeInv, RunInv, RunFields
    <3>2. UNCHANGED <<treeVars, files>> /\ run.phase = "image"
      BY <1>2 DEF BuildImage
    <3> QED
      BY <3>1, <3>2 DEF RuntimeInv, RunInv, OutputInv, TestedInv, Published, RuntimePassed, Collecting, treeVars
  <2>2. CASE run' = [run EXCEPT !.phase = "ended", !.exit = 1] /\ UNCHANGED <<treeVars, files>>
    <3>1. run'.exit = 1
      BY <2>2 DEF RuntimeInv, RunInv, RunFields
    <3> QED
      BY <2>2, <3>1, RuntimeGivesUp
  <2> QED
    BY <1>2, <2>1, <2>2 DEF BuildImage
<1>3. CASE Testimage
  <2>1. PICK status \in {0, 1}, tests \in Outcomes[run.profile] :
          run' = [run EXCEPT !.phase = IF run.profile = "pci-v3" THEN "results" ELSE "lab",
                             !.image = @ \cup {content}, !.testStatus = status, !.tests = tests]
    BY <1>3 DEF Testimage
  <2>2. UNCHANGED <<treeVars, files>> /\ run.phase = "test" /\ run.profile \in Profile
    BY <1>3 DEF Testimage, RuntimeInv, RunInv
  <2>3. /\ DOMAIN run' = RunFields /\ run'.tests = tests /\ run'.phase \in {"results", "lab"}
        /\ run'.profile = run.profile /\ run'.image = run.image \cup {content}
        /\ run'.touched = run.touched
    BY <2>1 DEF RuntimeInv, RunInv, RunFields
  <2>4. tests \in Seq(OEQA_STATUSES \cup {Missing})
    BY <2>1, <2>2, RuntimeEvidenceAssumption
  <2>5. ~run.touched => run.image = {content}
    BY <2>2 DEF RuntimeInv, TestedInv
  <2> QED
    BY <2>2, <2>3, <2>4, <2>5
    DEF RuntimeInv, RunInv, OutputInv, TestedInv, Published, RuntimePassed, Collecting, treeVars
<1>4. CASE SelectLabAgain
  <2>1. CASE run' = [run EXCEPT !.phase = "results"]
    <3>1. /\ DOMAIN run' = RunFields /\ run'.tests = run.tests /\ run'.phase = "results"
          /\ run'.profile = run.profile /\ run'.image = run.image /\ run'.touched = run.touched
      BY <2>1 DEF RuntimeInv, RunInv, RunFields
    <3>2. UNCHANGED <<treeVars, files>> /\ run.phase = "lab"
      BY <1>4 DEF SelectLabAgain, CollectFails
    <3> QED
      BY <3>1, <3>2 DEF RuntimeInv, RunInv, OutputInv, TestedInv, Published, RuntimePassed, Collecting, treeVars
  <2> QED
    BY <1>4, <2>1, RuntimeGivesUp DEF SelectLabAgain, CollectFails
<1>5. CASE ReadResults
  <2>1. CASE run.tests # NoResults /\ run' = [run EXCEPT !.phase = "revision"]
    <3>1. /\ DOMAIN run' = RunFields /\ run'.tests = run.tests /\ run'.phase = "revision"
          /\ run'.image = run.image /\ run'.touched = run.touched
      BY <2>1 DEF RuntimeInv, RunInv, RunFields
    <3>2. UNCHANGED <<treeVars, files>> /\ run.phase = "results"
      BY <1>5 DEF ReadResults, CollectFails
    <3> QED
      BY <2>1, <3>1, <3>2 DEF RuntimeInv, RunInv, OutputInv, TestedInv, Published, RuntimePassed, Collecting, treeVars
  <2> QED
    BY <1>5, <2>1, RuntimeGivesUp DEF ReadResults, CollectFails
<1> QED
  BY <1>1, <1>2, <1>3, <1>4, <1>5

(* The collection: the tree's state is asked for and the document written. *)
LEMMA RuntimeCollects ==
  ASSUME RuntimeInv, ReadRevision \/ ReadDirty \/ TruncateFile \/ FillFile PROVE RuntimeInv'
<1> USE DEF InRun, Go
<1>1. CASE ReadRevision
  <2>1. /\ DOMAIN run' = RunFields /\ run'.tests = run.tests /\ run'.phase = "dirty"
        /\ run'.image = run.image /\ run'.touched = run.touched /\ run'.revision = head
    BY <1>1 DEF ReadRevision, RuntimeInv, RunInv, RunFields
  <2>2. UNCHANGED <<treeVars, files>> /\ run.phase = "revision"
    BY <1>1 DEF ReadRevision
  <2> QED
    BY <2>1, <2>2 DEF RuntimeInv, RunInv, OutputInv, TestedInv, Published, RuntimePassed, Collecting, treeVars
<1>2. CASE ReadDirty
  <2>1. /\ DOMAIN run' = RunFields /\ run'.tests = run.tests /\ run'.phase = "write"
        /\ run'.image = run.image /\ run'.touched = run.touched /\ run'.revision = run.revision
        /\ run'.dirty = Dirty
    BY <1>2 DEF ReadDirty, RuntimeInv, RunInv, RunFields
  <2>2. UNCHANGED <<treeVars, files>> /\ run.phase = "dirty"
    BY <1>2 DEF ReadDirty
  <2>3. Dirty' = Dirty
    BY <2>2 DEF Dirty, treeVars
  <2> QED
    BY <2>1, <2>2, <2>3 DEF RuntimeInv, RunInv, OutputInv, TestedInv, Published, RuntimePassed, Collecting, treeVars
<1>3. CASE TruncateFile
  <2>1. CASE files' = [files EXCEPT ![RuntimeOutput] = Torn] /\ run' = [run EXCEPT !.phase = "fill"]
    <3>1. /\ DOMAIN run' = RunFields /\ run'.tests = run.tests /\ run'.phase = "fill"
          /\ run'.image = run.image /\ run'.touched = run.touched /\ run'.revision = run.revision
          /\ run'.dirty = run.dirty
      BY <2>1 DEF RuntimeInv, RunInv, RunFields
    <3>2. UNCHANGED treeVars /\ run.phase = "write" /\ DOMAIN files' = DOMAIN files
      BY <1>3, <2>1 DEF TruncateFile
    <3>3. Dirty' = Dirty
      BY <3>2 DEF Dirty, treeVars
    <3>4. RunInv' /\ OutputInv'
      BY <3>1, <3>2 DEF RuntimeInv, RunInv, OutputInv, Published, RuntimePassed, Collecting
    <3>5. TestedInv'
      BY <3>1, <3>2, <3>3 DEF RuntimeInv, TestedInv, Published, RuntimePassed, Collecting, treeVars
    <3> QED
      BY <3>4, <3>5 DEF RuntimeInv
  <2> QED
    BY <1>3, <2>1, RuntimeGivesUp DEF TruncateFile, CollectFails
<1>4. CASE FillFile
  <2>1. CASE files' = [files EXCEPT ![RuntimeOutput] = BuiltEvidence] /\ run' = [run EXCEPT !.phase = "decide"]
    <3>1. /\ DOMAIN run' = RunFields /\ run'.tests = run.tests /\ run'.phase = "decide"
          /\ run'.image = run.image /\ run'.touched = run.touched /\ run'.revision = run.revision
          /\ run'.dirty = run.dirty /\ run'.profile = run.profile /\ run'.testStatus = run.testStatus
      BY <2>1 DEF RuntimeInv, RunInv, RunFields
    <3>2. UNCHANGED treeVars /\ run.phase = "fill" /\ DOMAIN files' = DOMAIN files
      BY <1>4, <2>1 DEF FillFile
    <3>3. files'[RuntimeOutput] = BuiltEvidence
      BY <2>1 DEF RuntimeInv, RunInv
    <3>4. BuiltEvidence' = BuiltEvidence
      BY <3>1 DEF BuiltEvidence
    <3>5. Dirty' = Dirty
      BY <3>2 DEF Dirty, treeVars
    <3>6. RunInv' /\ OutputInv'
      BY <3>1, <3>2, <3>3, <3>4 DEF RuntimeInv, RunInv, OutputInv, Published, RuntimePassed, Collecting
    <3>7. TestedInv'
      BY <3>1, <3>2, <3>5 DEF RuntimeInv, TestedInv, Published, RuntimePassed, Collecting, treeVars
    <3> QED
      BY <3>6, <3>7 DEF RuntimeInv
  <2> QED
    BY <1>4, <2>1, RuntimeGivesUp DEF FillFile, CollectFails
<1> QED
  BY <1>1, <1>2, <1>3, <1>4

(* The end: the script reports the tests, then the collection, then what the *)
(* validator says of the output.                                             *)
LEMMA RuntimeDecides ==
  ASSUME RuntimeInv, Decide \/ ValidateOutput \/ ValidateStored PROVE RuntimeInv'
<1> USE DEF InRun, Go, Exit
<1>1. CASE Decide
  <2>1. CASE run.testStatus = 0 /\ run.evidenceStatus = 0 /\ run' = [run EXCEPT !.phase = "validate"]
    <3>1. /\ DOMAIN run' = RunFields /\ run'.tests = run.tests /\ run'.phase = "validate"
          /\ run'.image = run.image /\ run'.touched = run.touched /\ run'.revision = run.revision
          /\ run'.dirty = run.dirty /\ run'.profile = run.profile /\ run'.testStatus = run.testStatus
          /\ run'.evidenceStatus = run.evidenceStatus
      BY <2>1 DEF RuntimeInv, RunInv, RunFields
    <3>2. UNCHANGED <<treeVars, files>> /\ run.phase = "decide"
      BY <1>1 DEF Decide
    <3>3. Published /\ BuiltEvidence' = BuiltEvidence /\ Dirty' = Dirty
      BY <2>1, <3>1, <3>2 DEF Published, BuiltEvidence, Dirty, treeVars
    <3>4. RunInv' /\ OutputInv'
      BY <2>1, <3>1, <3>2, <3>3 DEF RuntimeInv, RunInv, OutputInv, RuntimePassed, Collecting
    <3>5. TestedInv'
      BY <3>1, <3>2, <3>3 DEF RuntimeInv, TestedInv, RuntimePassed, Collecting, treeVars
    <3> QED
      BY <3>4, <3>5 DEF RuntimeInv
  <2>2. CASE ~(run.testStatus = 0 /\ run.evidenceStatus = 0)
    <3>1. PICK status \in {run.testStatus, run.evidenceStatus} :
            status # 0 /\ run' = [run EXCEPT !.phase = "ended", !.exit = status]
      BY <1>1, <2>2 DEF Decide
    <3>2. run'.exit = status
      BY <3>1 DEF RuntimeInv, RunInv, RunFields
    <3>3. UNCHANGED <<treeVars, files>>
      BY <1>1 DEF Decide
    <3> QED
      BY <3>1, <3>2, <3>3, RuntimeGivesUp
  <2> QED
    BY <1>1, <2>1, <2>2 DEF Decide
<1>2. CASE ValidateOutput
  <2>1. CASE Passes(run.profile, files[RuntimeOutput]) /\ run' = [run EXCEPT !.phase = "ended", !.exit = 0]
    <3>1. /\ DOMAIN run' = RunFields /\ run'.tests = run.tests /\ run'.phase = "ended"
          /\ run'.image = run.image /\ run'.touched = run.touched /\ run'.revision = run.revision
          /\ run'.dirty = run.dirty /\ run'.profile = run.profile /\ run'.testStatus = run.testStatus
          /\ run'.evidenceStatus = run.evidenceStatus
      BY <2>1 DEF RuntimeInv, RunInv, RunFields
    <3>2. UNCHANGED <<treeVars, files>> /\ run.phase = "validate"
      BY <1>2 DEF ValidateOutput
    <3>3. run.evidenceStatus = 0 /\ run.testStatus = 0
      BY <3>2 DEF RuntimeInv, OutputInv
    <3>4. Published /\ BuiltEvidence' = BuiltEvidence /\ Dirty' = Dirty
      BY <3>1, <3>2, <3>3 DEF Published, BuiltEvidence, Dirty, treeVars
    <3>5. Passes(run.profile, files[RuntimeOutput])' = Passes(run.profile, files[RuntimeOutput])
      BY <3>1, <3>2
    <3>6. RunInv' /\ OutputInv'
      BY <2>1, <3>1, <3>2, <3>3, <3>4, <3>5 DEF RuntimeInv, RunInv, OutputInv, Collecting
    <3>7. TestedInv'
      BY <3>1, <3>2, <3>4 DEF RuntimeInv, TestedInv, Collecting, treeVars
    <3> QED
      BY <3>6, <3>7 DEF RuntimeInv
  <2>2. CASE run' = [run EXCEPT !.phase = "ended", !.exit = 1] /\ UNCHANGED <<treeVars, files>>
    <3>1. run'.exit = 1
      BY <2>2 DEF RuntimeInv, RunInv, RunFields
    <3> QED
      BY <2>2, <3>1, RuntimeGivesUp
  <2> QED
    BY <1>2, <2>1, <2>2 DEF ValidateOutput
<1>3. CASE ValidateStored
  <2>1. UNCHANGED <<treeVars, files>> /\ run.profile = "none"
    BY <1>3 DEF ValidateStored, RuntimeInv, RunInv
  <2>2. DOMAIN run' = RunFields /\ run'.tests = run.tests /\ run'.phase = "ended" /\ run'.profile = "none"
    BY <1>3, <2>1 DEF ValidateStored, RuntimeInv, RunInv, RunFields
  <2> QED
    BY <2>1, <2>2 DEF RuntimeInv, RunInv, OutputInv, TestedInv, Published, RuntimePassed, Collecting
<1> QED
  BY <1>1, <1>2, <1>3

(* Who works on the tree during the run is remembered. *)
LEMMA RuntimeDisturbed ==
  ASSUME RuntimeInv, KillRun \/ WorkOnTree PROVE RuntimeInv'
<1>1. CASE KillRun
  BY <1>1, RuntimeGivesUp DEF KillRun, InRun, Go
<1>2. CASE WorkOnTree
  <2>1. /\ DOMAIN run' = RunFields /\ run'.tests = run.tests /\ run'.phase = run.phase
        /\ run'.revision = run.revision /\ run'.dirty = run.dirty /\ run'.profile = run.profile
        /\ run'.testStatus = run.testStatus /\ run'.evidenceStatus = run.evidenceStatus
        /\ run'.exit = run.exit /\ run'.touched = (~NotRunning \/ run.touched)
    BY <1>2 DEF WorkOnTree, RuntimeInv, RunInv, RunFields
  <2>2. UNCHANGED files /\ run.phase # "ended"
    BY <1>2 DEF WorkOnTree
  <2>3. BuiltEvidence' = BuiltEvidence /\ (Published' <=> Published) /\ ~RuntimePassed' /\ ~RuntimePassed
    BY <2>1, <2>2 DEF BuiltEvidence, Published, RuntimePassed
  <2>4. RunInv' /\ OutputInv'
    BY <2>1, <2>2, <2>3 DEF RuntimeInv, RunInv, OutputInv
  <2>5. TestedInv'
    BY <2>1, <2>2 DEF TestedInv, Published, RuntimePassed, Collecting, NotRunning
  <2> QED
    BY <2>4, <2>5 DEF RuntimeInv
<1> QED
  BY <1>1, <1>2

(* The invariant behind PassIsTested: what is published is built from this   *)
(* run, and what the run knows of the tree is true while nobody works on it. *)
THEOREM RuntimeSafety == RuntimeSpec => []RuntimeInv
<1>1. RuntimeInv /\ [RuntimeNext]_runtimeVars => RuntimeInv'
  <2> SUFFICES ASSUME RuntimeInv, [RuntimeNext]_runtimeVars PROVE RuntimeInv'
    OBVIOUS
  <2>1. CASE UNCHANGED runtimeVars
    <3>1. UNCHANGED <<content, commits, head, edits, files, run>>
      BY <2>1 DEF runtimeVars, treeVars
    <3>2. BuiltEvidence' = BuiltEvidence /\ (Published' <=> Published) /\ (RuntimePassed' <=> RuntimePassed) /\ Dirty' = Dirty
      BY <3>1 DEF BuiltEvidence, Published, RuntimePassed, Dirty
    <3> QED
      BY <3>1, <3>2 DEF RuntimeInv, RunInv, OutputInv, TestedInv
  <2> QED
    BY <2>1, RuntimeTests, RuntimeCollects, RuntimeDecides, RuntimeDisturbed DEF RuntimeNext
<1> QED
  BY RuntimeInitially, <1>1, PTL DEF RuntimeSpec

(* A runtime-test.sh that exits 0 leaves the document of its own run: every  *)
(* case passed, and the revision it names is what was built and tested when  *)
(* nobody worked on the tree meanwhile.                                      *)
THEOREM PassIsTested == RuntimeSpec => []PassNamesTestedTree
<1>1. RuntimeInv => PassNamesTestedTree
  <2> SUFFICES ASSUME RuntimeInv, RuntimePassed PROVE PassNamesTestedTree
    BY DEF PassNamesTestedTree, RuntimePassed
  <2>1. /\ files[RuntimeOutput] = BuiltEvidence /\ run.tests # NoResults /\ run.testStatus = 0
        /\ Passes(run.profile, files[RuntimeOutput])
    BY DEF RuntimeInv, OutputInv, Published
  <2>2. BuiltEvidence.result = "passed" /\ ~BuiltEvidence.dirty
    BY <2>1 DEF Passes, PassesPci, PassesPlatform
  <2>3. BuildResult(run.tests, run.testStatus) = "passed" /\ ~run.dirty
    BY <2>2, BuiltFields
  <2>4. \A i \in DOMAIN run.tests : run.tests[i] = "PASSED"
    BY <2>3, AllCounted DEF BuildResult, RuntimeInv, RunInv
  <2>5. ASSUME ~run.touched PROVE run.image = {commits[BuiltEvidence.revision]}
    <3>1. run.image = {content} /\ run.revision = head /\ run.dirty = Dirty
      BY <2>5 DEF RuntimeInv, TestedInv, Published
    <3>2. content = commits[head]
      BY <2>3, <3>1 DEF Dirty
    <3> QED
      BY <3>1, <3>2, BuiltFields
  <2> QED
    BY <2>1, <2>4, <2>5 DEF PassNamesTestedTree
<1> QED
  BY RuntimeSafety, <1>1, PTL

-----------------------------------------------------------------------------
(* The builder and the validator of a runtime document.                    *)

(* The validator's table of a document and the builder's are one.          *)
LEMMA TablesAgree ==
  /\ Expected("pci3") = PciClaims
  /\ Expected("platform") = PlatformClaims
<1>1. DOMAIN Joined(Joined(NegativePaths("pci3"), InterruptPaths), DmaPaths) = DOMAIN PciClaims
  BY DEF Joined, NegativePaths, InterruptPaths, DmaPaths, PciClaims
<1>2. \A c \in DOMAIN PciClaims :
          Joined(Joined(NegativePaths("pci3"), InterruptPaths), DmaPaths)[c] = PciClaims[c]
  BY DEF Joined, NegativePaths, InterruptPaths, DmaPaths, PciClaims
<1>3. Joined(Joined(NegativePaths("pci3"), InterruptPaths), DmaPaths) = PciClaims
  <2>1. Joined(Joined(NegativePaths("pci3"), InterruptPaths), DmaPaths) = [c \in DOMAIN PciClaims |-> PciClaims[c]]
    BY <1>1, <1>2 DEF Joined
  <2>2. PciClaims = [c \in DOMAIN PciClaims |-> PciClaims[c]]
    BY DEF PciClaims
  <2> QED BY <2>1, <2>2
<1>4. Expected("pci3") = PciClaims
  BY <1>3 DEF Expected
<1>5. Expected("platform") = PlatformClaims
  BY DEF Expected, BoundedPaths, PlatformClaims
<1> QED BY <1>4, <1>5

(* The claims a table makes of test results: the paths whose case passed.  *)
ClaimsOf(table, tests) == [c \in DOMAIN table |-> tests[table[c]] = "PASSED"]

(* A document validates exactly when it is built from its own test         *)
(* results.                                                                *)
LEMMA ExactDocument ==
  ASSUME NEW d, IsDocument(d), d.kind \in {"pci3", "platform"}
  PROVE  LET profile == IF d.kind = "pci3" THEN "pci-v3" ELSE "platform-v1" IN
         Valid(d) = (/\ d.exit \in 0..255
                     /\ d.tests \in Seq(OEQA_STATUSES) /\ Len(d.tests) = EXPECTED_TESTS[d.kind]
                     /\ d = Build(profile, d.tests, d.exit, d.revision, d.dirty))
<1> DEFINE profile == IF d.kind = "pci3" THEN "pci-v3" ELSE "platform-v1"
           table == IF d.kind = "pci3" THEN PciClaims ELSE PlatformClaims
           built == Build(profile, d.tests, d.exit, d.revision, d.dirty)
<1>1. Expected(d.kind) = table
  BY TablesAgree
<1>2. built = [kind |-> d.kind, tests |-> d.tests, claims |-> ClaimsOf(table, d.tests),
               counts |-> Counts(d.tests), total |-> Len(d.tests), exit |-> d.exit,
               result |-> BuildResult(d.tests, d.exit), revision |-> d.revision, dirty |-> d.dirty]
  <2>1. CASE d.kind = "pci3"
    BY <2>1 DEF Build, BuildPci, ClaimsOf
  <2>2. CASE d.kind = "platform"
    BY <2>2 DEF Build, BuildPlatform, ClaimsOf
  <2> QED BY <2>1, <2>2
<1> HIDE DEF table, built
<1>3. Valid(d) <=> ValidTests(d) /\ ValidClaims(d) /\ ValidSummary(d)
  BY DEF Valid, ValidPci, ValidPlatform
<1>4. ValidTests(d) <=> /\ d.exit \in 0..255
                        /\ d.tests \in Seq(OEQA_STATUSES) /\ Len(d.tests) = EXPECTED_TESTS[d.kind]
  BY DEF ValidTests, IsDocument
<1>5. ValidClaims(d) <=> d.claims = ClaimsOf(table, d.tests)
  <2>1. ASSUME ValidClaims(d) PROVE d.claims = ClaimsOf(table, d.tests)
    BY <1>1, <2>1 DEF ValidClaims, ClaimsOf, IsDocument, IsFcn
  <2>2. ASSUME d.claims = ClaimsOf(table, d.tests) PROVE ValidClaims(d)
    BY <1>1, <2>2 DEF ValidClaims, ClaimsOf
  <2> QED BY <2>1, <2>2
<1>6. ValidSummary(d) <=> /\ d.counts = Counts(d.tests) /\ d.total = Len(d.tests)
                          /\ d.result = BuildResult(d.tests, d.exit)
  BY DEF ValidSummary, BuildResult
<1>7. d = built <=> /\ d.claims = ClaimsOf(table, d.tests)
                    /\ d.counts = Counts(d.tests) /\ d.total = Len(d.tests)
                    /\ d.result = BuildResult(d.tests, d.exit)
  <2>1. ASSUME /\ d.claims = ClaimsOf(table, d.tests)
               /\ d.counts = Counts(d.tests) /\ d.total = Len(d.tests)
               /\ d.result = BuildResult(d.tests, d.exit)
        PROVE  d = built
    BY <1>2, <2>1 DEF IsDocument, IsFcn
  <2> QED BY <1>2, <2>1
<1>8. Valid(d) \in BOOLEAN
  BY DEF Valid, ValidPci, ValidPlatform
<1> QED
  BY <1>3, <1>4, <1>5, <1>6, <1>7, <1>8 DEF built

(* One that passes has nothing but passed cases and a clean tree.          *)
LEMMA PassingDocument ==
  ASSUME NEW d, IsDocument(d), PassesPci(d) \/ PassesPlatform(d)
  PROVE  (\A i \in DOMAIN d.tests : d.tests[i] = "PASSED") /\ ~d.dirty /\ d.exit = 0
<1>1. d.result = "passed" /\ ~d.dirty /\ ValidSummary(d)
  BY DEF PassesPci, PassesPlatform, ValidPci, ValidPlatform
<1>2. Counts(d.tests)["PASSED"] = Len(d.tests) /\ d.exit = 0
  BY <1>1 DEF ValidSummary
<1> QED
  BY <1>1, <1>2, AllCounted DEF IsDocument

(* The output path holds nothing, a part of a document, or a document.     *)
DocumentInv ==
    /\ run.dirty \in BOOLEAN
    /\ files[RuntimeOutput] \in {NoFile, Torn} \/ IsDocument(files[RuntimeOutput])

(* What the run builds has the fields of a document.                       *)
LEMMA BuiltIsDocument ==
  ASSUME RuntimeInv, run.dirty \in BOOLEAN
  PROVE  IsDocument(BuiltEvidence)
<1> DEFINE tests == run.tests
<1>1. tests \in Seq({tests[i] : i \in DOMAIN tests})
  BY DEF RuntimeInv, RunInv
<1>2. CASE run.profile = "pci-v3"
  BY <1>1, <1>2 DEF BuiltEvidence, Build, BuildPci, IsDocument, IsFcn
<1>3. CASE run.profile # "pci-v3"
  BY <1>1, <1>3 DEF BuiltEvidence, Build, BuildPlatform, IsDocument, IsFcn
<1> QED
  BY <1>2, <1>3

(* Every step leaves such a file at the output path.                       *)
LEMMA DocumentStep ==
  ASSUME RuntimeInv, DocumentInv, [RuntimeNext]_runtimeVars
  PROVE  DocumentInv'
<1>1. CASE ReadDirty
  BY <1>1 DEF ReadDirty, InRun, Go, Dirty, RuntimeInv, RunInv, RunFields, DocumentInv
<1>2. CASE TruncateFile
  <2>1. run'.dirty = run.dirty
    BY <1>2 DEF TruncateFile, CollectFails, Go, RuntimeInv, RunInv, RunFields
  <2>2. files' = files \/ files'[RuntimeOutput] = Torn
    BY <1>2 DEF TruncateFile, CollectFails, Go, RuntimeInv, RunInv
  <2> QED BY <2>1, <2>2 DEF DocumentInv
<1>3. CASE FillFile
  <2>1. run'.dirty = run.dirty
    BY <1>3 DEF FillFile, CollectFails, Go, RuntimeInv, RunInv, RunFields
  <2>2. files' = files \/ files'[RuntimeOutput] = BuiltEvidence
    BY <1>3 DEF FillFile, CollectFails, Go, RuntimeInv, RunInv
  <2> QED BY <2>1, <2>2, BuiltIsDocument DEF DocumentInv
<1>4. ASSUME UNCHANGED files, run'.dirty = run.dirty PROVE DocumentInv'
  BY <1>4 DEF DocumentInv
<1>5. CASE StartRun \/ BuildImage \/ Testimage
  BY <1>4, <1>5 DEF StartRun, BuildImage, Testimage, Go, Exit, RuntimeInv, RunInv, RunFields
<1>6. CASE SelectLabAgain \/ ReadResults \/ ReadRevision
  BY <1>4, <1>6 DEF SelectLabAgain, ReadResults, ReadRevision, CollectFails, Go, RuntimeInv, RunInv, RunFields
<1>7. CASE Decide \/ ValidateOutput \/ ValidateStored
  BY <1>4, <1>7 DEF Decide, ValidateOutput, ValidateStored, Exit, Go, RuntimeInv, RunInv, RunFields
<1>8. CASE KillRun \/ WorkOnTree
  BY <1>4, <1>8 DEF KillRun, WorkOnTree, Go, RuntimeInv, RunInv, RunFields
<1>9. CASE UNCHANGED runtimeVars
  BY <1>4, <1>9 DEF runtimeVars
<1> QED
  BY <1>1, <1>2, <1>3, <1>5, <1>6, <1>7, <1>8, <1>9 DEF RuntimeNext

(* build_evidence and validate_evidence of either lab agree, whatever was  *)
(* stored at the output path before and whatever the tests were: a         *)
(* document validates exactly when the builder makes it of its own test    *)
(* results, and --require-pass accepts it only with passed cases and a     *)
(* clean tree.                                                             *)
THEOREM ValidatorIsExact == RuntimeSpec => []ValidatorExact
<1>1. RuntimeInit => DocumentInv
  <2> SUFFICES ASSUME RuntimeInit PROVE DocumentInv
    OBVIOUS
  <2>1. run.dirty = FALSE
    BY DEF RuntimeInit, FreshRun
  <2>2. files[RuntimeOutput] \in Earlier \cup Stored
    BY DEF RuntimeInit
  <2> QED BY <2>1, <2>2, DocumentsAssumption DEF DocumentInv
<1>2. RuntimeInv /\ DocumentInv => ValidatorExact
  <2> SUFFICES ASSUME DocumentInv PROVE ValidatorExact
    OBVIOUS
  <2> DEFINE d == files[RuntimeOutput]
  <2>1. CASE d \in {NoFile, Torn}
    <3>1. d.kind \in {"absent", "torn"}
      BY <2>1 DEF NoFile, Torn
    <3> QED
      BY <3>1 DEF ValidatorExact, PassesPci, PassesPlatform, ValidPci, ValidPlatform
  <2>2. CASE IsDocument(d)
    BY <2>2, ExactDocument, PassingDocument DEF ValidatorExact
  <2> QED
    BY <2>1, <2>2 DEF DocumentInv
<1>3. RuntimeInv /\ RuntimeInv' /\ DocumentInv /\ [RuntimeNext]_runtimeVars => DocumentInv'
  BY DocumentStep
<1> QED
  BY <1>1, <1>2, <1>3, RuntimeSafety, PTL DEF RuntimeSpec

-----------------------------------------------------------------------------
(* SBOM evidence.                                                          *)

SbomFields == {"phase", "exit", "cleared", "touched", "image",
               "graph", "deploy", "inputs", "revision", "dirty", "required"}

Analysed == {"revision", "dirty", "write", "head", "validate"}
Unwritten == {"verify", "clear", "task", "collect", "revision", "dirty", "write"}
SbomPassed == sbom.phase = "ended" /\ sbom.exit = 0

(* No evidence of an earlier run once it was cleared, none before the write, *)
(* and none after a failure but the two that SbomFailClosed names.           *)
ClosedInv ==
    /\ sbom.cleared => evidence.run \in {0, ThisRun}
    /\ sbom.cleared /\ sbom.phase \in Unwritten => evidence = NoEvidence
    /\ (sbom.phase = "ended" /\ sbom.exit # 0 /\ sbom.cleared /\ evidence # NoEvidence) =>
          sbom.exit = 128 \/ ~content.valid

(* From the collection on the graph has been analysed; from the write on the *)
(* evidence is the run's projection; a run that passed has validated it.     *)
OwnInv ==
    /\ sbom.phase \in Analysed \/ SbomPassed => AnalyzeGraph(sbom.graph, sbom.deploy)
    /\ sbom.phase \in {"head", "validate"} \/ SbomPassed =>
          /\ evidence.run = ThisRun
          /\ evidence.revision = sbom.revision
          /\ evidence.dirty = sbom.dirty
    /\ SbomPassed => evidence.revision = sbom.required /\ ~evidence.dirty

(* While nobody works on the tree, what was built is what is there, and what *)
(* the run has asked git for is still true.                                  *)
TreeInv ==
    ~sbom.touched =>
        /\ sbom.phase \in Analysed \cup {"collect"} \/ SbomPassed => sbom.image = content
        /\ sbom.phase \in Analysed \ {"revision"} \/ SbomPassed => sbom.revision = head
        /\ sbom.phase \in {"write", "head", "validate"} \/ SbomPassed => sbom.dirty = Dirty

SbomInv == DOMAIN sbom = SbomFields /\ ClosedInv /\ OwnInv /\ TreeInv

(* The run begins with nothing cleared and nothing known. *)
LEMMA SbomInitially == SbomInit => SbomInv
<1> SUFFICES ASSUME SbomInit PROVE SbomInv
  OBVIOUS
<1>1. sbom = FreshSbom
  BY DEF SbomInit
<1>2. /\ DOMAIN sbom = SbomFields /\ sbom.phase = "verify"
      /\ sbom.cleared = FALSE
  BY <1>1 DEF FreshSbom, SbomFields
<1> QED
  BY <1>2 DEF SbomInv, ClosedInv, OwnInv, TreeInv, SbomPassed, Analysed

(* A step that only moves the run to a phase of which nothing new is known.  *)
LEMMA SbomMoves ==
  ASSUME SbomInv, UNCHANGED treeVars, NEW phase, Then(phase),
         phase \in {"withdraw", "killed"} \/ (phase = "clear" /\ sbom.phase = "verify")
  PROVE  SbomInv'
<1>1. DOMAIN sbom = SbomFields
  BY DEF SbomInv
<1>2. DOMAIN sbom' = SbomFields /\ sbom'.phase = phase /\ sbom'.cleared = sbom.cleared
  BY <1>1 DEF SbomFields, Then, Leave
<1>3. ClosedInv /\ evidence' = evidence
  BY DEF SbomInv, Then, Leave
<1>4. ClosedInv'
  BY <1>2, <1>3 DEF ClosedInv, Unwritten
<1> QED
  BY <1>2, <1>4 DEF SbomInv, OwnInv, TreeInv, SbomPassed, Analysed

(* A step that fails leaves nothing, but for the two cases of ClosedInv.     *)
LEMMA SbomFails ==
  ASSUME SbomInv, UNCHANGED treeVars, NEW status, EndSbom(status), status # 0,
         sbom.phase \in Unwritten \/ status = 128 \/ ~content.valid
  PROVE  SbomInv'
<1>1. DOMAIN sbom = SbomFields
  BY DEF SbomInv
<1>2. /\ DOMAIN sbom' = SbomFields /\ sbom'.phase = "ended" /\ sbom'.exit = status
      /\ sbom'.cleared = sbom.cleared
  BY <1>1 DEF SbomFields, EndSbom, Leave
<1>3. content' = content /\ evidence' = evidence
  BY DEF treeVars, EndSbom, Leave
<1>4. ClosedInv
  BY DEF SbomInv
<1>5. ClosedInv'
  BY <1>2, <1>3, <1>4 DEF ClosedInv, Unwritten
<1> QED
  BY <1>2, <1>5 DEF SbomInv, OwnInv, TreeInv, SbomPassed, Analysed

(* Each step that collects something establishes what is said of its phase.  *)
LEMMA SbomCollects ==
  ASSUME SbomInv, ClearEvidence \/ CreateSbom \/ CollectGraph \/ StateRevision \/ StateDirty
                  \/ WriteSbom \/ RequireHead
  PROVE  SbomInv'
<1>0. DOMAIN sbom = SbomFields
  BY DEF SbomInv
<1>1. CASE ClearEvidence
  <2>1. CASE sbom' = [sbom EXCEPT !.phase = "task", !.cleared = TRUE] /\ evidence' = NoEvidence
    <3>1. /\ DOMAIN sbom' = SbomFields /\ sbom'.phase = "task"
      BY <1>0, <2>1 DEF SbomFields
    <3>2. evidence'.run = 0
      BY <2>1 DEF NoEvidence
    <3> QED
      BY <2>1, <3>1, <3>2 DEF SbomInv, ClosedInv, OwnInv, TreeInv, SbomPassed, Analysed
  <2>2. CASE EndSbom(1) /\ UNCHANGED treeVars /\ sbom.phase = "clear"
    BY <2>2, SbomFails DEF Unwritten
  <2> QED
    BY <1>1, <2>1, <2>2 DEF ClearEvidence, Doing
<1>2. CASE CreateSbom
  <2>1. CASE \E g \in Graphs, d \in Deploys :
               sbom' = [sbom EXCEPT !.phase = "collect", !.image = content, !.graph = g, !.deploy = d]
    <3>1. /\ DOMAIN sbom' = SbomFields /\ sbom'.phase = "collect" /\ sbom'.image = content
          /\ sbom'.cleared = sbom.cleared
      BY <1>0, <2>1 DEF SbomFields
    <3>2. UNCHANGED <<treeVars, evidence>> /\ sbom.phase = "task"
      BY <1>2, <2>1 DEF CreateSbom, Doing, Leave, EndSbom
    <3> QED
      BY <3>1, <3>2 DEF SbomInv, ClosedInv, OwnInv, TreeInv, SbomPassed, Analysed, Unwritten, treeVars
  <2>2. CASE EndSbom(7) /\ UNCHANGED treeVars /\ sbom.phase = "task"
    BY <2>2, SbomFails DEF Unwritten
  <2> QED
    BY <1>2, <2>1, <2>2 DEF CreateSbom, Doing, Leave
<1>3. CASE CollectGraph
  <2>1. CASE /\ AnalyzeGraph(sbom.graph, sbom.deploy)
             /\ sbom' = [sbom EXCEPT !.phase = "revision", !.inputs = content.inputs]
    <3>1. /\ DOMAIN sbom' = SbomFields /\ sbom'.phase = "revision" /\ sbom'.image = sbom.image
          /\ sbom'.graph = sbom.graph /\ sbom'.deploy = sbom.deploy /\ sbom'.touched = sbom.touched
          /\ sbom'.cleared = sbom.cleared
      BY <1>0, <2>1 DEF SbomFields
    <3>2. UNCHANGED <<treeVars, evidence>> /\ sbom.phase = "collect"
      BY <1>3, <2>1 DEF CollectGraph, Doing, Leave, EndSbom
    <3>3. AnalyzeGraph(sbom'.graph, sbom'.deploy)
      BY <2>1, <3>1
    <3> QED
      BY <3>1, <3>2, <3>3 DEF SbomInv, ClosedInv, OwnInv, TreeInv, SbomPassed, Analysed, Unwritten, treeVars
  <2>2. CASE EndSbom(1) /\ UNCHANGED treeVars /\ sbom.phase = "collect"
    BY <2>2, SbomFails DEF Unwritten
  <2> QED
    BY <1>3, <2>1, <2>2 DEF CollectGraph, Doing, Leave
<1>4. CASE StateRevision
  <2>1. /\ DOMAIN sbom' = SbomFields /\ sbom'.phase = "dirty" /\ sbom'.image = sbom.image
        /\ sbom'.graph = sbom.graph /\ sbom'.deploy = sbom.deploy /\ sbom'.touched = sbom.touched
        /\ sbom'.cleared = sbom.cleared
        /\ sbom'.revision = head
    BY <1>0, <1>4 DEF StateRevision, SbomFields, Doing, Leave
  <2>2. UNCHANGED <<treeVars, evidence>> /\ sbom.phase = "revision"
    BY <1>4 DEF StateRevision, Doing, Leave
  <2> QED
    BY <2>1, <2>2 DEF SbomInv, ClosedInv, OwnInv, TreeInv, SbomPassed, Analysed, Unwritten, treeVars
<1>5. CASE StateDirty
  <2>1. /\ DOMAIN sbom' = SbomFields /\ sbom'.phase = "write" /\ sbom'.image = sbom.image
        /\ sbom'.graph = sbom.graph /\ sbom'.deploy = sbom.deploy /\ sbom'.touched = sbom.touched
        /\ sbom'.cleared = sbom.cleared
        /\ sbom'.revision = sbom.revision /\ sbom'.dirty = Dirty
    BY <1>0, <1>5 DEF StateDirty, SbomFields, Doing, Leave
  <2>2. UNCHANGED <<treeVars, evidence>> /\ sbom.phase = "dirty"
    BY <1>5 DEF StateDirty, Doing, Leave
  <2>3. Dirty' = Dirty
    BY <2>2 DEF Dirty, treeVars
  <2> QED
    BY <2>1, <2>2, <2>3 DEF SbomInv, ClosedInv, OwnInv, TreeInv, SbomPassed, Analysed, Unwritten, treeVars
<1>6. CASE WriteSbom
  <2>1. CASE evidence' = Project /\ sbom' = [sbom EXCEPT !.phase = "head"]
    <3>1. /\ DOMAIN sbom' = SbomFields /\ sbom'.phase = "head" /\ sbom'.image = sbom.image
          /\ sbom'.graph = sbom.graph /\ sbom'.deploy = sbom.deploy /\ sbom'.touched = sbom.touched
          /\ sbom'.cleared = sbom.cleared
          /\ sbom'.revision = sbom.revision /\ sbom'.dirty = sbom.dirty
      BY <1>0, <2>1 DEF SbomFields
    <3>2. UNCHANGED treeVars /\ sbom.phase = "write"
      BY <1>6 DEF WriteSbom, Doing
    <3>3. /\ evidence'.run = ThisRun /\ evidence'.revision = sbom.revision
          /\ evidence'.dirty = sbom.dirty
      BY <2>1 DEF Project
    <3>4. Dirty' = Dirty
      BY <3>2 DEF Dirty, treeVars
    <3>5. DOMAIN sbom' = SbomFields /\ ClosedInv'
      BY <3>1, <3>2, <3>3 DEF SbomInv, ClosedInv, Unwritten
    <3>6. OwnInv'
      BY <3>1, <3>2, <3>3 DEF SbomInv, OwnInv, SbomPassed, Analysed
    <3>7. TreeInv'
      BY <3>1, <3>2, <3>4 DEF SbomInv, TreeInv, SbomPassed, Analysed, Unwritten, treeVars
    <3> QED
      BY <3>5, <3>6, <3>7 DEF SbomInv
  <2>2. CASE EndSbom(1) /\ UNCHANGED treeVars /\ sbom.phase = "write"
    BY <2>2, SbomFails DEF Unwritten
  <2> QED
    BY <1>6, <2>1, <2>2 DEF WriteSbom, Doing
<1>7. CASE RequireHead
  <2>1. CASE sbom' = [sbom EXCEPT !.phase = "validate", !.required = head]
    <3>1. /\ DOMAIN sbom' = SbomFields /\ sbom'.phase = "validate" /\ sbom'.image = sbom.image
          /\ sbom'.graph = sbom.graph /\ sbom'.deploy = sbom.deploy /\ sbom'.touched = sbom.touched
          /\ sbom'.cleared = sbom.cleared
          /\ sbom'.revision = sbom.revision /\ sbom'.dirty = sbom.dirty
      BY <1>0, <2>1 DEF SbomFields
    <3>2. UNCHANGED <<treeVars, evidence>> /\ sbom.phase = "head"
      BY <1>7, <2>1 DEF RequireHead, Doing, Leave, EndSbom
    <3>3. Dirty' = Dirty
      BY <3>2 DEF Dirty, treeVars
    <3> QED
      BY <3>1, <3>2, <3>3 DEF SbomInv, ClosedInv, OwnInv, TreeInv, SbomPassed, Analysed, Unwritten, treeVars
  <2>2. CASE EndSbom(128) /\ UNCHANGED treeVars
    BY <2>2, SbomFails
  <2> QED
    BY <1>7, <2>1, <2>2 DEF RequireHead, Doing, Leave
<1> QED
  BY <1>1, <1>2, <1>3, <1>4, <1>5, <1>6, <1>7

(* The steps that end the run, and the user's, who is remembered.            *)
LEMMA SbomEnds ==
  ASSUME SbomInv, ValidateSbom \/ WithdrawSbom \/ KillSbom \/ WorkOnSources \/ VerifyBuild
  PROVE  SbomInv'
<1>0. DOMAIN sbom = SbomFields
  BY DEF SbomInv
<1>1. CASE ValidateSbom
  <2>1. CASE CurrentSbom(evidence, sbom.required) /\ sbom' = [sbom EXCEPT !.phase = "ended", !.exit = 0]
    <3>1. /\ DOMAIN sbom' = SbomFields /\ sbom'.phase = "ended" /\ sbom'.image = sbom.image
          /\ sbom'.graph = sbom.graph /\ sbom'.deploy = sbom.deploy /\ sbom'.touched = sbom.touched
          /\ sbom'.cleared = sbom.cleared
          /\ sbom'.revision = sbom.revision /\ sbom'.dirty = sbom.dirty
          /\ sbom'.required = sbom.required
      BY <1>0, <2>1 DEF SbomFields
    <3>2. UNCHANGED <<treeVars, evidence>> /\ sbom.phase = "validate"
      BY <1>1, <2>1 DEF ValidateSbom, Doing, EndSbom, Then, Leave
    <3>3. evidence.revision = sbom.required /\ ~evidence.dirty
      BY <2>1 DEF CurrentSbom
    <3>4. Dirty' = Dirty
      BY <3>2 DEF Dirty, treeVars
    <3>5. ClosedInv'
      BY <2>1, <3>1, <3>2 DEF SbomInv, ClosedInv, Unwritten
    <3>6. OwnInv'
      BY <2>1, <3>1, <3>2, <3>3 DEF SbomInv, OwnInv, SbomPassed, Analysed
    <3>7. TreeInv'
      BY <3>1, <3>2, <3>4 DEF SbomInv, TreeInv, SbomPassed, Analysed, treeVars
    <3> QED
      BY <3>1, <3>5, <3>6, <3>7 DEF SbomInv
  <2>2. CASE Then("withdraw") /\ UNCHANGED treeVars
    BY <2>2, SbomMoves
  <2> QED
    BY <1>1, <2>1, <2>2 DEF ValidateSbom, Doing, EndSbom, Leave
<1>2. CASE WithdrawSbom
  <2>1. CASE evidence' = NoEvidence /\ sbom' = [sbom EXCEPT !.phase = "ended", !.exit = 1]
    <3>1. /\ DOMAIN sbom' = SbomFields /\ sbom'.phase = "ended" /\ sbom'.exit = 1
          /\ evidence' = NoEvidence /\ evidence'.run = 0
      BY <1>0, <2>1 DEF SbomFields, NoEvidence
    <3> QED
      BY <3>1 DEF SbomInv, ClosedInv, OwnInv, TreeInv, SbomPassed, Analysed, Unwritten
  <2>2. CASE EndSbom(2) /\ UNCHANGED treeVars /\ ~content.valid
    BY <2>2, SbomFails
  <2> QED
    BY <1>2, <2>1, <2>2 DEF WithdrawSbom, Doing
<1>3. CASE KillSbom
  <2>1. UNCHANGED treeVars /\ Then("killed")
    BY <1>3 DEF KillSbom, Doing
  <2> QED
    BY <2>1, SbomMoves
<1>4. CASE WorkOnSources
  <2>1. /\ DOMAIN sbom' = SbomFields /\ sbom'.phase = sbom.phase /\ sbom'.image = sbom.image
        /\ sbom'.graph = sbom.graph /\ sbom'.deploy = sbom.deploy
        /\ sbom'.cleared = sbom.cleared
        /\ sbom'.revision = sbom.revision /\ sbom'.dirty = sbom.dirty
        /\ sbom'.required = sbom.required
        /\ sbom'.touched = (sbom.touched \/ sbom.phase # "verify")
    BY <1>0, <1>4 DEF WorkOnSources, SbomFields
  <2>2. UNCHANGED evidence /\ sbom.phase \notin {"ended", "killed"}
    BY <1>4 DEF WorkOnSources
  <2>3. DOMAIN sbom' = SbomFields /\ ClosedInv' /\ OwnInv'
    BY <2>1, <2>2 DEF SbomInv, ClosedInv, OwnInv, SbomPassed, Unwritten
  <2>4. TreeInv'
    BY <2>1, <2>2 DEF TreeInv, SbomPassed, Analysed
  <2> QED
    BY <2>3, <2>4 DEF SbomInv
<1>5. CASE VerifyBuild
  <2>1. CASE Then("clear") /\ UNCHANGED treeVars /\ sbom.phase = "verify"
    BY <2>1, SbomMoves
  <2>2. CASE EndSbom(1) /\ UNCHANGED treeVars /\ sbom.phase = "verify"
    BY <2>2, SbomFails DEF Unwritten
  <2> QED
    BY <1>5, <2>1, <2>2 DEF VerifyBuild, Doing
<1> QED
  BY <1>1, <1>2, <1>3, <1>4, <1>5

(* The invariant behind both theorems: no evidence of an earlier run after   *)
(* the removal, and what the run and its document say of the tree is true.   *)
THEOREM SbomSafety == SbomSpec => []SbomInv
<1>1. SbomInv /\ [SbomNext]_sbomVars => SbomInv'
  <2> SUFFICES ASSUME SbomInv, [SbomNext]_sbomVars PROVE SbomInv'
    OBVIOUS
  <2>1. CASE UNCHANGED sbomVars
    <3>1. UNCHANGED <<content, commits, head, edits, evidence, sbom>>
      BY <2>1 DEF sbomVars, treeVars
    <3> QED
      BY <3>1 DEF SbomInv, ClosedInv, OwnInv, TreeInv, SbomPassed, Dirty
  <2> QED
    BY <2>1, SbomCollects, SbomEnds DEF SbomNext
<1> QED
  BY SbomInitially, <1>1, PTL DEF SbomSpec

(* sbom-evidence.sh fails closed: after the removal of the selected evidence *)
(* the file is absent or the run's own, and a run that failed leaves its own *)
(* only when git gave no HEAD or the lab catalog is not valid any more.      *)
THEOREM SbomClosed == SbomSpec => []SbomFailClosed
<1>1. SbomInv => SbomFailClosed
  BY DEF SbomInv, ClosedInv, SbomFailClosed
<1> QED
  BY SbomSafety, <1>1, PTL

(* A run of sbom-evidence.sh that passes leaves clean evidence of HEAD for   *)
(* an image that satisfies the package policy, its files as hashed, and of   *)
(* the tree that was built when nobody worked on it meanwhile.               *)
THEOREM SbomPassIsImage == SbomSpec => []SbomPassMeansImage
<1>1. SbomInv => SbomPassMeansImage
  <2> SUFFICES ASSUME SbomInv, SbomPassed PROVE SbomPassMeansImage
    BY DEF SbomPassMeansImage, SbomPassed
  <2>1. /\ evidence.run = ThisRun
        /\ evidence.revision = sbom.required /\ evidence.revision = sbom.revision
        /\ ~evidence.dirty /\ evidence.dirty = sbom.dirty
    BY DEF SbomInv, OwnInv
  <2>2. SelectedPackages(sbom.graph) /\ SoundArtifacts(sbom.graph, sbom.deploy)
    BY DEF SbomInv, OwnInv, AnalyzeGraph
  <2>3. LET names == {p.name : p \in Installed(sbom.graph)} IN
        DOMAIN Required \subseteq names /\ names \cap Forbidden = {}
    BY <2>2 DEF SelectedPackages
  <2>4. \A a \in sbom.graph.rootFiles : sbom.deploy[a.name].digest = a.digests[1]
    BY <2>2 DEF SoundArtifacts
  <2>5. ASSUME ~sbom.touched PROVE sbom.image = commits[evidence.revision]
    <3>1. sbom.image = content /\ sbom.revision = head /\ sbom.dirty = Dirty
      BY <2>5 DEF SbomInv, TreeInv
    <3>2. ~Dirty
      BY <2>1, <3>1
    <3> QED
      BY <2>1, <3>1, <3>2 DEF Dirty
  <2> QED
    BY <2>1, <2>3, <2>4, <2>5 DEF SbomPassMeansImage
<1> QED
  BY SbomSafety, <1>1, PTL

-----------------------------------------------------------------------------
(* Repository trust.                                                       *)

(* Every fact is asked about by a check, and by none that asks nothing.      *)
LEMMA FactsGrouped ==
  /\ \A f \in Facts : \E group \in ChecksOf : f \in group
  /\ \A group \in ChecksOf : group \subseteq Facts /\ group # {}
<1> DEFINE singles ==
        {"visibility", "default_branch", "merge_methods", "delete_branch_on_merge",
         "enabled", "allowed_actions", "sha_pinning_required", "default_workflow_permissions",
         "can_approve_pull_request_reviews", "enforcement", "name", "target", "bypass_actor_count",
         "deletion", "non_fast_forward", "linear_history", "do_not_enforce_on_create",
         "allowed_merge_methods", "strict_required_status_checks_policy", "dependabot_alerts",
         "dependabot_security_updates", "secret_scanning", "secret_scanning_push_protection",
         "private_vulnerability_reporting", "contact"}
       selected == {"github_owned_allowed", "verified_allowed", "patterns_allowed"}
       reviews == {"pull_request_required", "required_approving_review_count"}
<1>1. ChecksOf = {{f} : f \in singles} \cup {selected, reviews}
  BY DEF ChecksOf
<1>2. \A f \in Facts : f \in singles \/ f \in selected \/ f \in reviews
  BY DEF Facts
<1>3. singles \subseteq Facts /\ selected \subseteq Facts /\ reviews \subseteq Facts
  BY DEF Facts
<1>4. selected # {} /\ reviews # {}
  OBVIOUS
<1> HIDE DEF singles, selected, reviews
<1>5. \A f \in Facts : \E group \in ChecksOf : f \in group
  <2> SUFFICES ASSUME NEW f \in Facts PROVE \E group \in ChecksOf : f \in group
    OBVIOUS
  <2>1. CASE f \in singles
    <3>1. {f} \in ChecksOf
      BY <1>1, <2>1
    <3> QED BY <3>1
  <2>2. CASE f \in selected \/ f \in reviews
    BY <1>1, <2>2
  <2> QED BY <1>2, <2>1, <2>2
<1>6. ASSUME NEW group \in ChecksOf PROVE group \subseteq Facts /\ group # {}
  BY <1>1, <1>3, <1>4
<1> QED
  BY <1>5, <1>6

(* The required checks fail exactly when they are not the expected ones.     *)
LEMMA RequiredMeans ==
  ASSUME NEW checks, \A c, d \in checks : c = d
  PROVE  /\ RequiredChecks(checks) \subseteq {"pass", "fail", "unavailable"}
         /\ "fail" \in RequiredChecks(checks) <=> \E c \in checks : c # EXPECTED_CHECKS
         /\ ("fail" \notin RequiredChecks(checks) /\ "unavailable" \notin RequiredChecks(checks))
                <=> checks = {EXPECTED_CHECKS}
<1>1. CASE checks = {}
  BY <1>1 DEF RequiredChecks
<1>2. CASE checks # {}
  <2> DEFINE c == CHOOSE x \in checks : TRUE
             Status(holds) == IF holds THEN "pass" ELSE "fail"
  <2>1. c \in checks
    BY <1>2
  <2>2. checks = {c}
    BY <2>1
  <2>3. RequiredChecks(checks) =
            {Status(c = EXPECTED_CHECKS),
             Status(\A context \in DOMAIN c : c[context] = "github-actions"),
             Status("yocto-metadata" \notin DOMAIN c)}
    BY <1>2 DEF RequiredChecks
  <2> HIDE DEF c
  <2>4. CASE c = EXPECTED_CHECKS
    <3>1. DOMAIN c = {"diagnostics-schema", "licensing", "repository", "static"}
      BY <2>4 DEF EXPECTED_CHECKS
    <3>2. \A context \in DOMAIN c : c[context] = "github-actions"
      BY <2>4, <3>1 DEF EXPECTED_CHECKS
    <3>3. RequiredChecks(checks) = {"pass"}
      BY <2>3, <2>4, <3>1, <3>2
    <3> QED BY <2>2, <2>4, <3>3
  <2>5. CASE c # EXPECTED_CHECKS
    BY <2>2, <2>3, <2>5
  <2> QED BY <2>4, <2>5
<1> QED BY <1>1, <1>2

(* The facts a verdict is about: known settings, the required checks once or *)
(* not at all.                                                               *)
SoundFacts(facts) ==
    /\ \A f \in Facts : facts.setting[f] \in {"unseen", "expected", "different"}
    /\ \A c, d \in facts.checks : c = d

(* What was observed conflicts with the policy; everything was observed as   *)
(* the policy wants it.                                                      *)
Conflict(facts) ==
    \/ \E f \in Facts : facts.setting[f] = "different"
    \/ \E c \in facts.checks : c # EXPECTED_CHECKS
AllAsWanted(facts) ==
    (\A f \in Facts : facts.setting[f] = "expected") /\ facts.checks = {EXPECTED_CHECKS}

(* The verdict says exactly that: no fact escapes the checks, and nothing    *)
(* unseen passes.                                                            *)
LEMMA VerdictMeans ==
  ASSUME NEW facts, SoundFacts(facts)
  PROVE  LET result == TrustAggregate(CheckStatuses(facts)) IN
         /\ result \in {"pass", "fail", "unavailable"}
         /\ result = "fail" <=> Conflict(facts)
         /\ result = "pass" <=> AllAsWanted(facts)
<1> DEFINE Of(group) == CombinedStatus({facts.setting[f] : f \in group})
           asked == {Of(group) : group \in ChecksOf}
           statuses == CheckStatuses(facts)
<1>1. statuses = asked \cup RequiredChecks(facts.checks)
  BY DEF CheckStatuses
<1>2. \A group \in ChecksOf :
          /\ Of(group) \in {"pass", "fail", "unavailable"}
          /\ Of(group) = "fail" <=> \E f \in group : facts.setting[f] = "different"
          /\ Of(group) = "pass" <=> \A f \in group : facts.setting[f] = "expected"
  BY FactsGrouped DEF CombinedStatus, SoundFacts
<1>3. "fail" \in asked <=> \E group \in ChecksOf : Of(group) = "fail"
  OBVIOUS
<1>4. "unavailable" \in asked <=> \E group \in ChecksOf : Of(group) = "unavailable"
  OBVIOUS
<1> HIDE DEF Of, asked, statuses
<1>5. "fail" \in asked <=> \E f \in Facts : facts.setting[f] = "different"
  BY <1>2, <1>3, FactsGrouped
<1>6. ("fail" \notin asked /\ "unavailable" \notin asked) <=> \A f \in Facts : facts.setting[f] = "expected"
  BY <1>2, <1>3, <1>4, FactsGrouped
<1>7. /\ "fail" \in RequiredChecks(facts.checks) <=> \E c \in facts.checks : c # EXPECTED_CHECKS
      /\ ("fail" \notin RequiredChecks(facts.checks) /\ "unavailable" \notin RequiredChecks(facts.checks))
             <=> facts.checks = {EXPECTED_CHECKS}
  BY RequiredMeans DEF SoundFacts
<1>8. "fail" \in statuses <=> Conflict(facts)
  BY <1>1, <1>5, <1>7 DEF Conflict
<1>9. ("fail" \notin statuses /\ "unavailable" \notin statuses) <=> AllAsWanted(facts)
  BY <1>1, <1>6, <1>7 DEF AllAsWanted
<1>10. TrustAggregate(statuses) = IF "fail" \in statuses THEN "fail"
                                  ELSE IF "unavailable" \in statuses THEN "unavailable" ELSE "pass"
  BY DEF TrustAggregate
<1> QED
  BY <1>8, <1>9, <1>10 DEF statuses

(* Where the run stands and what it has established of what it read.         *)
TrustInv ==
    /\ DOMAIN owned = {"policy", "security", "files"}
    /\ owned.files \in Seq(Observations \cup {Absent}) /\ owned.files # <<>>
    /\ owned.security \in Texts \cup {ContactLine}
    /\ DOMAIN trust = {"pc", "command", "exit", "facts", "before", "touched"}
    /\ trust.pc \in {"policy", "security", "look", "inspect", "open", "read", "done"}
    /\ trust.command \in {"validate", "evaluate"}
    /\ trust.pc # "done" => trust.facts = EmptyFacts
    /\ trust.pc \in {"security", "look", "inspect", "open", "read"} => owned.policy = "approved"
    /\ trust.pc \in {"look", "inspect", "open", "read"} =>
          NamesContact(owned.security) /\ trust.command = "evaluate"
    /\ trust.pc \in {"open", "read"} => trust.before \in DOMAIN owned.files
    /\ trust.pc \in {"inspect", "open", "read"} /\ ~trust.touched => AtPath.kind # "absent"
    /\ trust.pc \in {"open", "read"} /\ ~trust.touched => trust.before = Len(owned.files)
    /\ TrustExact

(* Without an observation there is neither a conflict nor a pass.            *)
LEMMA NoFactsVerdict ==
  /\ SoundFacts(EmptyFacts) /\ ~Conflict(EmptyFacts) /\ ~AllAsWanted(EmptyFacts)
  /\ ValidTrust(BuildTrust(FALSE, EmptyFacts))
<1>1. "name" \in Facts
  BY DEF Facts
<1>2. EmptyFacts.checks = {} /\ \A f \in Facts : EmptyFacts.setting[f] = "unseen"
  BY DEF EmptyFacts
<1> QED
  BY <1>1, <1>2 DEF SoundFacts, Conflict, AllAsWanted, ValidTrust, BuildTrust

(* A run begins with a policy, a text and an observation.                    *)
LEMMA TrustInitially == ContactRead /\ TrustInit => TrustInv
<1> SUFFICES ASSUME NEW policy, NEW text \in Texts \cup {ContactLine}, NEW o \in Observations \cup {Absent},
                    NEW command \in {"validate", "evaluate"}, TrustStart(policy, text, o, command)
             PROVE  TrustInv
  BY DEF TrustInit
<1>1. /\ DOMAIN owned = {"policy", "security", "files"}
      /\ owned.files = <<o>> /\ owned.security = text
      /\ DOMAIN trust = {"pc", "command", "exit", "facts", "before", "touched"}
      /\ trust.pc = "policy" /\ trust.command = command
      /\ trust.facts = EmptyFacts
  BY DEF TrustStart, FreshTrust
<1> QED
  BY <1>1 DEF TrustInv, TrustExact

(* The facts of a valid observation make a document that validates.          *)
LEMMA ObservedFacts ==
  ASSUME NEW o \in Observations \cup {Absent}, ValidObservation(o)
  PROVE  SoundFacts(FactsFromObservation(o)) /\ ValidTrust(BuildTrust(TRUE, FactsFromObservation(o)))
<1> DEFINE facts == FactsFromObservation(o)
<1>1. o \in Observations
  BY DEF ValidObservation, Absent
<1>2. facts.checks = o.checks /\ \A f \in Facts : facts.setting[f] \in {"unseen", "expected", "different"}
  BY <1>1, RepositoryTrustAssumption DEF FactsFromObservation, ValidObservation
<1>3. SoundFacts(facts)
  BY <1>1, <1>2, RepositoryTrustAssumption DEF SoundFacts
<1>4. \A f \in Facts : facts.setting[f] # "malformed"
  BY <1>2
<1> HIDE DEF facts
<1>5. ValidTrust(BuildTrust(TRUE, facts))
  BY <1>4 DEF ValidTrust, BuildTrust
<1> QED
  BY <1>3, <1>5 DEF facts

(* An observation that is not there says nothing.                            *)
LEMMA AbsentFacts == FactsFromObservation(Absent) = EmptyFacts
BY DEF FactsFromObservation, EmptyFacts, Absent

(* A run that ends with a verdict on the facts it reports. *)
LEMMA TrustReports ==
  ASSUME ContactRead, TrustInv, trust.pc \in {"look", "read"}, UNCHANGED <<owned, refreshes>>,
         NEW facts, SoundFacts(facts), NEW observed, ValidTrust(BuildTrust(observed, facts)),
         NEW status, Report(BuildTrust(observed, facts), status),
         status \in {0, 1, 3}, status = 0 <=> AllAsWanted(facts), status = 1 <=> Conflict(facts),
         ~trust.touched => facts = FactsFromObservation(AtPath)
  PROVE  TrustInv'
<1>1. trust' = [trust EXCEPT !.pc = "done", !.exit = status, !.facts = facts]
  BY DEF Report, BuildTrust
<1>2. /\ trust'.pc = "done" /\ trust'.exit = status /\ trust'.facts = facts
      /\ trust'.command = "evaluate" /\ DOMAIN trust' = DOMAIN trust /\ trust'.touched = trust.touched
  BY <1>1 DEF TrustInv
<1>3. owned.policy = "approved" /\ ShownContact(owned.security)
  BY DEF TrustInv, ContactRead
<1>4. UNCHANGED owned /\ AtPath' = AtPath
  BY DEF AtPath
<1>5. status = 3 => ~AllAsWanted(facts) /\ ~Conflict(facts)
  OBVIOUS
<1>6. TrustExact'
  BY <1>2, <1>3, <1>4, <1>5 DEF TrustExact, AllAsWanted, Conflict
<1> QED
  BY <1>2, <1>4, <1>6 DEF TrustInv

(* A run that is refused says what was at fault. *)
LEMMA TrustRefuses ==
  ASSUME TrustInv, trust.pc # "done", EndTrust(2), UNCHANGED <<owned, refreshes>>,
         \/ owned.policy # "approved"
         \/ ~ShownContact(owned.security)
         \/ trust.command = "evaluate" /\ (Faulty(AtPath) \/ trust.touched)
  PROVE  TrustInv'
<1>1. /\ trust'.pc = "done" /\ trust'.exit = 2 /\ trust'.command = trust.command
      /\ DOMAIN trust' = DOMAIN trust /\ trust'.facts = trust.facts /\ trust'.touched = trust.touched
  BY DEF EndTrust, TrustInv
<1>2. TrustExact'
  <2>1. Faulty(AtPath)' = Faulty(AtPath)
    BY DEF Faulty, AtPath
  <2> QED
    BY <1>1, <2>1, NoFactsVerdict DEF TrustExact, TrustInv, Conflict, AllAsWanted
<1> QED
  BY <1>1, <1>2 DEF TrustInv

(* A step of the program that only moves on.                                 *)
LEMMA TrustContinues ==
  ASSUME TrustInv, UNCHANGED <<owned, refreshes>>, NEW pc, NEW before,
         trust' = [trust EXCEPT !.pc = pc, !.before = before],
         pc \in {"security", "look", "inspect", "open", "read"}, trust.pc # "done",
         owned.policy = "approved",
         pc # "security" => NamesContact(owned.security) /\ trust.command = "evaluate",
         pc \in {"open", "read"} => before \in DOMAIN owned.files,
         pc \in {"inspect", "open", "read"} /\ ~trust.touched => AtPath.kind # "absent",
         pc \in {"open", "read"} /\ ~trust.touched => before = Len(owned.files)
  PROVE  TrustInv'
<1>1. /\ DOMAIN trust' = DOMAIN trust /\ trust'.pc = pc /\ trust'.before = before
      /\ trust'.command = trust.command /\ trust'.facts = trust.facts
      /\ trust'.touched = trust.touched
  BY DEF TrustInv
<1>2. AtPath' = AtPath /\ owned' = owned
  BY DEF AtPath
<1> QED
  BY <1>1, <1>2 DEF TrustInv, TrustExact

(* The owner's steps: the path leads to an observation, and while the        *)
(* program looks at it this is remembered.                                   *)
LEMMA OwnerKeeps ==
  ASSUME TrustInv, OwnerActs, NEW after, owned' = [owned EXCEPT !.files = after],
         after \in Seq(Observations \cup {Absent}), after # <<>>, DOMAIN owned.files \subseteq DOMAIN after
  PROVE  TrustInv'
<1>1. /\ DOMAIN owned' = DOMAIN owned /\ owned'.files = after /\ owned'.policy = owned.policy
      /\ owned'.security = owned.security
  BY DEF TrustInv
<1>2. /\ DOMAIN trust' = DOMAIN trust /\ trust'.pc = trust.pc /\ trust'.command = trust.command
      /\ trust'.facts = trust.facts /\ trust'.before = trust.before
      /\ trust.pc # "done" /\ (trust.pc \in {"inspect", "open", "read"} => trust'.touched)
  BY DEF OwnerActs, TrustInv
<1> QED
  BY <1>1, <1>2 DEF TrustInv, TrustExact

(* Every step of the program and of the owner keeps the invariant.           *)
LEMMA TrustKept ==
  ASSUME ContactRead, TrustInv, [TrustNext]_trustVars
  PROVE  TrustInv'
<1> USE DEF TrustStep
<1>0. ASSUME NEW pc, Continue(pc) PROVE trust' = [trust EXCEPT !.pc = pc, !.before = trust.before]
  BY <1>0 DEF Continue, TrustInv
<1>1. CASE ReadPolicy
  <2>1. CASE owned.policy = "approved"
    <3>1. Continue("security") /\ UNCHANGED <<owned, refreshes>> /\ trust.pc = "policy"
      BY <1>1, <2>1 DEF ReadPolicy
    <3>2. trust' = [trust EXCEPT !.pc = "security", !.before = trust.before]
      BY <1>0, <3>1
    <3> QED
      BY <2>1, <3>1, <3>2, TrustContinues
  <2>2. CASE owned.policy # "approved"
    BY <1>1, <2>2, TrustRefuses DEF ReadPolicy
  <2> QED BY <2>1, <2>2
<1>2. CASE ReadSecurity
  <2>0. owned.security \in Texts \cup {ContactLine}
    BY DEF TrustInv
  <2>1. NamesContact(owned.security) <=> ShownContact(owned.security)
    BY <2>0 DEF ContactRead
  <2>2. CASE ~NamesContact(owned.security)
    BY <1>2, <2>1, <2>2, TrustRefuses DEF ReadSecurity
  <2>3. CASE NamesContact(owned.security) /\ trust.command = "validate"
    <3>1. EndTrust(0) /\ UNCHANGED <<owned, refreshes>> /\ trust.pc = "security"
      BY <1>2, <2>3 DEF ReadSecurity
    <3>2. /\ trust'.pc = "done" /\ trust'.exit = 0 /\ trust'.command = "validate"
          /\ DOMAIN trust' = DOMAIN trust
      BY <3>1, <2>3 DEF EndTrust, TrustInv
    <3> QED
      BY <2>1, <2>3, <3>1, <3>2 DEF TrustInv, TrustExact
  <2>4. CASE NamesContact(owned.security) /\ trust.command # "validate"
    <3>1. trust.pc = "security" /\ Continue("look") /\ UNCHANGED <<owned, refreshes>>
      BY <1>2, <2>4 DEF ReadSecurity
    <3>2. owned.policy = "approved" /\ trust.command = "evaluate"
      BY <2>4, <3>1 DEF TrustInv
    <3> QED
      BY <1>0, <2>4, <3>1, <3>2, TrustContinues
  <2> QED BY <2>2, <2>3, <2>4
<1>3. CASE LookForObservation
  <2>1. trust.pc = "look" /\ UNCHANGED <<owned, refreshes>>
    BY <1>3 DEF LookForObservation
  <2>2. CASE AtPath.kind = "absent"
    <3>1. Report(BuildTrust(FALSE, EmptyFacts), 3)
      BY <1>3, <2>2 DEF LookForObservation
    <3>2. (3 = 0 <=> AllAsWanted(EmptyFacts)) /\ (3 = 1 <=> Conflict(EmptyFacts))
      BY NoFactsVerdict
    <3>3. AtPath \in Observations \cup {Absent}
      BY DEF AtPath, Last, TrustInv
    <3>4. EmptyFacts = FactsFromObservation(AtPath)
      BY <2>2, <3>3, AbsentFacts, RepositoryTrustAssumption
    <3>5. trust.pc \in {"look", "read"} /\ 3 \in {0, 1, 3}
      BY <2>1
    <3> QED
      BY <2>1, <3>1, <3>2, <3>4, <3>5, NoFactsVerdict, TrustReports
  <2>3. CASE AtPath.kind # "absent"
    <3>1. Continue("inspect")
      BY <1>3, <2>3 DEF LookForObservation
    <3>2. owned.policy = "approved" /\ NamesContact(owned.security) /\ trust.command = "evaluate"
      BY <2>1 DEF TrustInv
    <3> QED
      BY <1>0, <2>1, <2>3, <3>1, <3>2, TrustContinues
  <2> QED BY <2>2, <2>3
<1>4. CASE InspectObservation
  <2>1. /\ trust.pc = "inspect" /\ UNCHANGED <<owned, refreshes>>
        /\ owned.policy = "approved" /\ NamesContact(owned.security) /\ trust.command = "evaluate"
        /\ ~trust.touched => AtPath.kind # "absent"
    BY <1>4 DEF InspectObservation, TrustInv
  <2>2. CASE Regular(AtPath)
    <3>1. trust' = [trust EXCEPT !.pc = "open", !.before = Len(owned.files)]
      BY <1>4, <2>2 DEF InspectObservation
    <3>2. Len(owned.files) \in DOMAIN owned.files
      BY DEF TrustInv
    <3> QED
      BY <2>1, <3>1, <3>2, TrustContinues
  <2>3. CASE ~Regular(AtPath)
    <3>1. Faulty(AtPath) \/ trust.touched
      BY <2>1, <2>3 DEF Faulty, Regular
    <3> QED
      BY <1>4, <2>1, <2>3, <3>1, TrustRefuses DEF InspectObservation
  <2> QED BY <2>2, <2>3
<1>5. CASE OpenObservation
  <2>1. /\ trust.pc = "open" /\ UNCHANGED <<owned, refreshes>>
        /\ owned.policy = "approved" /\ NamesContact(owned.security) /\ trust.command = "evaluate"
        /\ trust.before \in DOMAIN owned.files
        /\ ~trust.touched => AtPath.kind # "absent" /\ trust.before = Len(owned.files)
    BY <1>5 DEF OpenObservation, TrustInv
  <2>2. CASE trust.before = Len(owned.files)
    <3>1. Continue("read")
      BY <1>5, <2>2 DEF OpenObservation
    <3> QED
      BY <1>0, <2>1, <3>1, TrustContinues
  <2>3. CASE trust.before # Len(owned.files)
    BY <1>5, <2>1, <2>3, TrustRefuses DEF OpenObservation
  <2> QED BY <2>2, <2>3
<1>6. CASE ReadObservation
  <2> DEFINE o == owned.files[trust.before]
             facts == FactsFromObservation(o)
             document == BuildTrust(TRUE, facts)
             status == CASE document.result = "pass" -> 0
                         [] document.result = "fail" -> 1
                         [] document.result = "unavailable" -> 3
  <2>1. /\ trust.pc = "read" /\ UNCHANGED <<owned, refreshes>> /\ trust.command = "evaluate"
        /\ o \in Observations \cup {Absent}
        /\ ~trust.touched => AtPath.kind # "absent" /\ o = AtPath
    BY <1>6 DEF ReadObservation, TrustInv, AtPath, Last
  <2>2. CASE ~ValidObservation(o)
    <3>1. Faulty(AtPath) \/ trust.touched
      BY <2>1, <2>2 DEF ValidObservation, Faulty
    <3> QED
      BY <1>6, <2>1, <2>2, <3>1, TrustRefuses DEF ReadObservation
  <2>3. CASE ValidObservation(o)
    <3>1. Report(document, status)
      BY <1>6, <2>3 DEF ReadObservation
    <3>2. SoundFacts(facts) /\ ValidTrust(document)
      BY <2>1, <2>3, ObservedFacts
    <3>3. document.result = TrustAggregate(CheckStatuses(facts))
      BY DEF BuildTrust
    <3>4. ~trust.touched => facts = FactsFromObservation(AtPath)
      BY <2>1
    <3> HIDE DEF facts
    <3>5. /\ document.result \in {"pass", "fail", "unavailable"}
          /\ document.result = "fail" <=> Conflict(facts)
          /\ document.result = "pass" <=> AllAsWanted(facts)
      BY <3>2, <3>3, VerdictMeans
    <3> HIDE DEF document
    <3>6. status \in {0, 1, 3} /\ (status = 0 <=> AllAsWanted(facts)) /\ (status = 1 <=> Conflict(facts))
      <4>1. CASE document.result = "pass"
        BY <3>5, <4>1
      <4>2. CASE document.result = "fail"
        BY <3>5, <4>2
      <4>3. CASE document.result = "unavailable"
        BY <3>5, <4>3
      <4> QED BY <3>5, <4>1, <4>2, <4>3
    <3> USE DEF document
    <3> HIDE DEF status
    <3> QED
      BY <2>1, <3>1, <3>2, <3>4, <3>6, TrustReports
  <2> QED BY <2>2, <2>3
<1>7. CASE ReplaceObservation
  <2>1. PICK new \in Observations : owned' = [owned EXCEPT !.files = Append(owned.files, new)]
    BY <1>7, RepositoryTrustAssumption DEF ReplaceObservation
  <2>2. /\ Append(owned.files, new) \in Seq(Observations \cup {Absent}) /\ Append(owned.files, new) # <<>>
        /\ DOMAIN owned.files \subseteq DOMAIN Append(owned.files, new)
    BY DEF TrustInv
  <2> QED
    BY <1>7, <2>1, <2>2, OwnerKeeps DEF ReplaceObservation
<1>8. CASE RewriteObservation
  <2>1. PICK new \in Observations : owned' = [owned EXCEPT !.files = Append(Front(owned.files), new)]
    BY <1>8, RepositoryTrustAssumption DEF RewriteObservation
  <2> DEFINE after == Append(Front(owned.files), new)
  <2>2. /\ Len(owned.files) \in Nat /\ Len(owned.files) > 0 /\ DOMAIN owned.files = 1..Len(owned.files)
        /\ \A i \in 1..Len(owned.files) : owned.files[i] \in Observations \cup {Absent}
    BY DEF TrustInv
  <2>3. Front(owned.files) \in Seq(Observations \cup {Absent}) /\ Len(Front(owned.files)) = Len(owned.files) - 1
    <3>1. owned.files \in Seq(Observations \cup {Absent})
      BY DEF TrustInv
    <3> QED
      BY <2>2, <3>1 DEF Front
  <2>4. /\ after \in Seq(Observations \cup {Absent}) /\ after # <<>>
        /\ DOMAIN owned.files \subseteq DOMAIN after
    BY <2>2, <2>3
  <2> HIDE DEF after
  <2> QED
    BY <1>8, <2>1, <2>4, OwnerKeeps DEF RewriteObservation, after
<1>9. CASE UNCHANGED trustVars
  BY <1>9 DEF trustVars, TrustInv, TrustExact, Faulty, AtPath
<1> QED
  BY <1>1, <1>2, <1>3, <1>4, <1>5, <1>6, <1>7, <1>8, <1>9 DEF TrustNext

(* Whatever the owner has set up, and however he replaces or rewrites the    *)
(* observation while the program looks at it, the exit status is what was    *)
(* observed: 0 exactly when everything is as the policy wants it, 1 exactly  *)
(* on a conflict, 2 only when an input is at fault or the observation was    *)
(* changed after it was first seen, and otherwise the verdict is about the   *)
(* observation that is there. What the contact check reads in SECURITY.md is *)
(* a fold over its text and enters as the hypothesis ContactRead.            *)
THEOREM TrustIsExact == ContactRead => (TrustSpec => []TrustExact)
<1> SUFFICES ASSUME ContactRead PROVE TrustSpec => []TrustExact
  OBVIOUS
<1>1. TrustInit => TrustInv
  BY TrustInitially
<1>2. TrustInv /\ [TrustNext]_trustVars => TrustInv'
  BY TrustKept
<1>3. TrustInv => TrustExact
  BY DEF TrustInv
<1> QED
  BY <1>1, <1>2, <1>3, PTL DEF TrustSpec
=============================================================================
