---------------------------- MODULE Diagnostics ----------------------------
(* qemu-edu-lab and scripts/diagnostics.py: one run of status, doctor,       *)
(* inspect or evidence.  The run makes the command's checks in their fixed   *)
(* order, each reading its own input once; the files, the repository and the *)
(* tools may change between two checks, so what a check finds is independent *)
(* of what the others found.  The finished document is judged by a validator *)
(* (validate_document) written separately from the code that fills it.  A    *)
(* document the validator refuses ends the run as an internal failure, and   *)
(* so does an exception a check lets out.                                    *)
(* An identity read from the project (a version, a revision, a digest) is    *)
(* "current", one that differs from it "other".                              *)
EXTENDS Naturals, Sequences, FiniteSets

CONSTANTS
    Command,    \* the commands a user runs
    Lab,        \* the labs of the catalog
    DefaultLab, \* index["default_lab"]
    Selector,   \* the --lab arguments: none, a lab, or a name the catalog lacks
    Source,     \* the locked sources, in SOURCE_ORDER
    ConfFile,   \* the build files doctor looks for, in order
    Evidence    \* the valid runtime evidence documents an evidence file may hold

ASSUME DiagnosticsAssumption ==
    /\ Command \subseteq {"status", "doctor", "inspect", "evidence"}
    /\ DefaultLab \in Lab /\ "none" \notin Lab

None == "none"
NoDocument == [kind |-> None]
Malformed == [kind |-> "malformed"]

(* What an evidence document says of the run it describes. *)
EvidenceType ==
    [kind : {"pci", "platform"}, version : {"current", "other"},
     build : Lab \cup {"other"}, schema : {"current", "other"},
     revision : {"current", "other"}, dirty : BOOLEAN, passed : BOOLEAN,
     lock : {"current", "other"}, lab : Lab \cup {None},
     index : {"current", "other", None}, manifest : {"current", "other", None}]

(* A valid document records the digests of the catalog exactly when it is of *)
(* the platform lab.                                                         *)
ASSUME EvidenceAssumption ==
    /\ Evidence \subseteq EvidenceType
    /\ \A e \in Evidence : (e.kind = "platform") = (None \notin {e.index, e.manifest})

VARIABLES
    command,   \* the command line
    statuses,  \* Context.statuses: the checks made so far
    ctx,       \* the other fields of Context
    outcome    \* how the process stands: its exit status and what it published

diagVars == <<command, statuses, ctx, outcome>>

-----------------------------------------------------------------------------
Base == <<"project.version", "repository.git">>
Catalog == <<"inputs.source-lock", "inputs.lab-catalog", "lab.selection">>
Task == <<"workflow.task">>
EvidenceChecks == <<"evidence.file", "evidence.document", "evidence.result",
                    "evidence.inputs", "evidence.subject">>

SEQUENCES == 
    [status   |-> Base \o Task \o Catalog \o <<"repository.clean">>,
     doctor   |-> Base \o Task \o Catalog \o <<"tool.git", "tool.ssh">>
                       \o Source \o ConfFile \o EvidenceChecks,
     inspect  |-> Base \o Catalog,
     evidence |-> Base \o Catalog \o EvidenceChecks]

Elements(seq) == {seq[i] : i \in DOMAIN seq}
Distinct(seq) == \A i, j \in DOMAIN seq : seq[i] = seq[j] => i = j

(* The names made from the sources and the build files are names of their own. *)
FixedChecks == Elements(Base) \cup Elements(Catalog) \cup Elements(Task) \cup Elements(EvidenceChecks)
                   \cup {"repository.clean", "tool.git", "tool.ssh"}

ASSUME NamesAssumption ==
    /\ Source \in Seq(STRING) /\ ConfFile \in Seq(STRING)
    /\ Distinct(Source) /\ Distinct(ConfFile)
    /\ Elements(Source) \cap Elements(ConfFile) = {}
    /\ (Elements(Source) \cup Elements(ConfFile)) \cap FixedChecks = {}

Optional == {"repository.clean", "evidence.subject"}
Ok == {"pass", "warning"}
Result == {"pass", "fail", "unavailable"}

Running == outcome.state = "running"
Turn(id) == /\ Running
            /\ Cardinality(DOMAIN statuses) < Len(SEQUENCES[command])
            /\ SEQUENCES[command][Cardinality(DOMAIN statuses) + 1] = id

Blocked(ids) == \E id \in ids : id \notin DOMAIN statuses \/ statuses[id] \notin Ok

(* Context.record, with the fields of the context the check leaves behind. *)
Record(id, status, context) ==
    /\ statuses' = [c \in DOMAIN statuses \cup {id} |-> IF c = id THEN status ELSE statuses[c]]
    /\ ctx' = context
    /\ UNCHANGED <<command, outcome>>

(* A check that only looks: it passes or not, or is skipped when a           *)
(* prerequisite did not pass.                                                *)
Look(id, prerequisites) ==
    /\ Turn(id)
    /\ \E s \in IF Blocked(prerequisites) THEN {"unavailable"} ELSE Result :
          Record(id, s, ctx)

Seen(s, value) == IF s = "pass" THEN value ELSE None

-----------------------------------------------------------------------------
ProjectVersion ==
    /\ Turn("project.version")
    /\ \E s \in Result : Record("project.version", s, [ctx EXCEPT !.version = Seen(s, "current")])

(* _git: the executable and its version are looked at once and remembered. *)
(* A mutant: tool.git looks afresh. *)
MutGitStates == Result

GitStates == IF ctx.git = None THEN Result ELSE {ctx.git}

Repository ==
    /\ Turn("repository.git")
    /\ \E g \in GitStates, s \in {"pass", "fail"}, d \in {"clean", "dirty"} :
          Record("repository.git", IF g = "pass" THEN s ELSE g,
                 [ctx EXCEPT !.git = g,
                     !.revision = IF g = "pass" THEN Seen(s, "current") ELSE None,
                     !.dirty = IF g = "pass" THEN Seen(s, d) ELSE None])

Workflow ==
    /\ Turn("workflow.task")
    /\ \E s \in Result, active \in {None, "task"} :
          Record("workflow.task", s, [ctx EXCEPT !.task = Seen(s, active)])

SourceLock ==
    /\ Turn("inputs.source-lock")
    /\ \E s \in Result : Record("inputs.source-lock", s, [ctx EXCEPT !.lock = Seen(s, "current")])

(* The default lab is adopted as soon as the index parses, before the        *)
(* manifests it names are read.                                              *)
LabCatalog ==
    /\ Turn("inputs.lab-catalog")
    /\ \/ /\ Blocked({"inputs.source-lock"})
          /\ Record("inputs.lab-catalog", "unavailable", ctx)
       \/ /\ ~Blocked({"inputs.source-lock"})
          /\ \/ \E s \in {"fail", "unavailable"} : Record("inputs.lab-catalog", s, ctx)
             \/ \E s \in Result :
                   Record("inputs.lab-catalog", s,
                          [ctx EXCEPT !.lab = IF ctx.lab = None THEN DefaultLab ELSE ctx.lab,
                                      !.index = Seen(s, "current")])

(* A lab the catalog does not hold ends the run without a document. *)
Selection ==
    /\ Turn("lab.selection")
    /\ IF Blocked({"inputs.lab-catalog"})
       THEN Record("lab.selection", "unavailable", ctx)
       ELSE IF ctx.lab \in Lab
       THEN Record("lab.selection", "pass", [ctx EXCEPT !.manifest = "current"])
       ELSE /\ outcome' = [state |-> "usage", exit |-> 2, document |-> NoDocument]
            /\ UNCHANGED <<command, statuses, ctx>>

Cleanliness ==
    /\ Turn("repository.clean")
    /\ Record("repository.clean",
              IF Blocked({"repository.git"}) THEN "unavailable"
              ELSE IF ctx.dirty = "dirty" THEN "warning" ELSE "pass", ctx)

ToolGit ==
    /\ Turn("tool.git")
    /\ \E g \in GitStates : Record("tool.git", g, [ctx EXCEPT !.git = g])

ToolSsh == Look("tool.ssh", {})
SourceCheckout(id) == Look(id, {"tool.git", "inputs.source-lock"})
BuildFile(id) == Look(id, {"lab.selection"})

EvidenceFile ==
    /\ Turn("evidence.file")
    /\ \/ \E s \in {"fail", "unavailable"} :
             /\ Blocked({"lab.selection"}) => s = "unavailable"
             /\ Record("evidence.file", s, ctx)
       \/ /\ ~Blocked({"lab.selection"})
          /\ \E raw \in Evidence \cup {Malformed} :
                Record("evidence.file", "pass", [ctx EXCEPT !.raw = raw])

(* The summary leaves the file only when the document names the version just *)
(* read and the machine and image of the selected lab.                       *)
DescribesProject(e) == /\ ctx.version # None
                       /\ e.version = ctx.version
                       /\ e.build = ctx.lab

EvidenceDocument ==
    /\ Turn("evidence.document")
    /\ IF Blocked({"evidence.file", "lab.selection"})
       THEN Record("evidence.document", "unavailable", ctx)
       ELSE IF ctx.raw = Malformed THEN Record("evidence.document", "fail", ctx)
       ELSE Record("evidence.document", "pass",
                   [ctx EXCEPT !.document = ctx.raw,
                       !.summary = IF DescribesProject(ctx.raw) THEN ctx.raw ELSE NoDocument])

EvidenceResult ==
    /\ Turn("evidence.result")
    /\ Record("evidence.result",
              IF Blocked({"evidence.document"}) THEN "unavailable"
              ELSE IF ctx.document.passed /\ ~ctx.document.dirty THEN "pass" ELSE "fail", ctx)

(* A mutant: the source lock is not compared. *)
MutMatchesInputs(e) ==
    /\ e.version = ctx.version
    /\ e.build = ctx.lab
    /\ e.schema = "current"
    /\ e.kind = "platform" => /\ e.lab = ctx.lab
                              /\ e.index = ctx.index
                              /\ e.manifest = ctx.manifest

MatchesInputs(e) ==
    /\ e.lock = ctx.lock
    /\ e.version = ctx.version
    /\ e.build = ctx.lab
    /\ e.schema = "current"
    /\ e.kind = "platform" => /\ e.lab = ctx.lab
                              /\ e.index = ctx.index
                              /\ e.manifest = ctx.manifest

EvidenceInputs ==
    /\ Turn("evidence.inputs")
    /\ Record("evidence.inputs",
              IF Blocked({"project.version", "evidence.document", "inputs.source-lock", "lab.selection"})
              THEN "unavailable"
              ELSE IF ~MatchesInputs(ctx.document) THEN "fail"
              ELSE IF ctx.document.kind = "platform" THEN "pass" ELSE "warning", ctx)

EvidenceSubject ==
    /\ Turn("evidence.subject")
    /\ IF Blocked({"evidence.document", "evidence.result", "repository.git"})
       THEN Record("evidence.subject", "unavailable", ctx)
       ELSE LET same == ctx.document.revision = ctx.revision
            IN  Record("evidence.subject", IF same THEN "pass" ELSE "warning",
                       [ctx EXCEPT !.subject = IF same THEN "same" ELSE "different"])

-----------------------------------------------------------------------------
Aggregate(st) ==
    IF \E id \in DOMAIN st : st[id] = "fail" THEN "fail"
    ELSE IF \E id \in DOMAIN st \ Optional : st[id] = "unavailable" THEN "unavailable"
    ELSE IF \E id \in DOMAIN st : st[id] # "pass" THEN "warning" ELSE "pass"

ExitCode == [fail |-> 1, unavailable |-> 3, warning |-> 0, pass |-> 0]

(* command_document's data: what each command projects from the context. *)
Data ==
    [active    |-> ctx.task,
     lock      |-> ctx.lock,
     selected  |-> ctx.manifest,
     inspected |-> ctx.version # None /\ ctx.lock # None /\ ctx.manifest # None,
     evidence  |-> ctx.summary,
     inputs    |-> IF ctx.document = NoDocument THEN NoDocument
                   ELSE [kind |-> IF ctx.document.kind = "platform" THEN "bound" ELSE "not-recorded",
                         index |-> ctx.document.index, manifest |-> ctx.document.manifest],
     subject   |-> ctx.subject]

Document == [command |-> command, result |-> Aggregate(statuses), statuses |-> statuses,
             version |-> ctx.version, revision |-> ctx.revision, dirty |-> ctx.dirty,
             lab |-> ctx.lab, index |-> ctx.index, manifest |-> ctx.manifest, data |-> Data]

-----------------------------------------------------------------------------
(* validate_state_transitions: a check that depends on another. *)
Dependencies ==
    [c \in {"inputs.lab-catalog", "lab.selection", "repository.clean"}
           \cup Elements(Source) \cup Elements(ConfFile) \cup Elements(EvidenceChecks) |->
        CASE c = "inputs.lab-catalog" -> {"inputs.source-lock"}
          [] c = "lab.selection" -> {"inputs.lab-catalog"}
          [] c = "repository.clean" -> {"repository.git"}
          [] c \in Elements(Source) -> {"tool.git", "inputs.source-lock"}
          [] c \in Elements(ConfFile) \cup {"evidence.file"} -> {"lab.selection"}
          [] c = "evidence.document" -> {"evidence.file", "lab.selection"}
          [] c = "evidence.result" -> {"evidence.document"}
          [] c = "evidence.inputs" -> {"project.version", "evidence.document",
                                       "inputs.source-lock", "lab.selection"}
          [] c = "evidence.subject" -> {"evidence.document", "evidence.result", "repository.git"}]

(* The states a derived check may be in once everything it is derived from passed. *)
Derived ==
    [c \in {"lab.selection", "repository.clean", "evidence.document", "evidence.result",
            "evidence.inputs", "evidence.subject"} |->
        CASE c \in {"lab.selection", "evidence.result"} -> [from |-> Dependencies[c], allowed |-> {"pass", "fail"}]
          [] c = "evidence.document" -> [from |-> {"evidence.file"}, allowed |-> {"pass", "fail"}]
          [] c \in {"repository.clean", "evidence.subject"} -> [from |-> Dependencies[c], allowed |-> Ok]
          [] c = "evidence.inputs" -> [from |-> Dependencies[c], allowed |-> Ok \cup {"fail"}]]

ValidTransitions(st) ==
    /\ \A c \in DOMAIN Dependencies \cap DOMAIN st :
          (\E up \in Dependencies[c] \cap DOMAIN st : st[up] \notin Ok) => st[c] = "unavailable"
    /\ \A c \in DOMAIN Derived \cap DOMAIN st :
          /\ Derived[c].from \subseteq DOMAIN st
          /\ \A up \in Derived[c].from : st[up] = "pass"
          => st[c] \in Derived[c].allowed
    /\ {"repository.git", "tool.git"} \subseteq DOMAIN st =>
          st["tool.git"] \in CASE st["repository.git"] = "pass" -> {"pass"}
                               [] st["repository.git"] = "fail" -> {"pass", "fail"}
                               [] OTHER -> {"unavailable"}

ValidIdentity(d) ==
    LET st == d.statuses IN
    /\ (d.version # None) = (st["project.version"] = "pass")
    /\ (d.revision # None) = (st["repository.git"] = "pass")
    /\ (d.dirty # None) = (d.revision # None)
    /\ (d.index # None) = (st["inputs.lab-catalog"] = "pass")
    /\ (d.manifest # None) = (st["lab.selection"] = "pass")
    /\ st["lab.selection"] = "pass" => d.lab # None

ValidStatus(d) ==
    LET st == d.statuses IN
    /\ d.dirty = CASE st["repository.clean"] = "pass" -> "clean"
                   [] st["repository.clean"] = "warning" -> "dirty"
                   [] st["repository.clean"] = "unavailable" -> None
    /\ (d.data.lock # None) = (st["inputs.source-lock"] = "pass")
    /\ (d.data.selected # None) = (st["lab.selection"] = "pass")

ValidInspect(d) ==
    d.data.inspected = \A c \in {"project.version"} \cup Elements(Catalog) : d.statuses[c] = "pass"

ValidProjection(d) ==
    LET st == d.statuses  e == d.data.evidence IN
    /\ st["evidence.document"] # "pass" => e = NoDocument
    /\ st["evidence.inputs"] \in Ok => e # NoDocument
    /\ e # NoDocument =>
          /\ e.version = d.version
          /\ st["evidence.result"] \in {"pass", "fail"}
          /\ (st["evidence.result"] = "pass") = (e.passed /\ ~e.dirty)
          /\ st["evidence.subject"] \in Ok \cup {"unavailable"}
          /\ st["evidence.subject"] \in Ok =>
                (e.revision = d.revision) = (st["evidence.subject"] = "pass")
          /\ st["evidence.inputs"] = "pass" => e.kind = "platform"
          /\ st["evidence.inputs"] = "warning" => e.kind = "pci"

ValidInputs(d) ==
    LET st == d.statuses  inputs == d.data.inputs IN
    /\ (inputs # NoDocument) = (st["evidence.document"] = "pass")
    /\ d.data.subject = CASE st["evidence.subject"] = "pass" -> "same"
                          [] st["evidence.subject"] = "warning" -> "different"
                          [] st["evidence.subject"] = "unavailable" -> None
    /\ st["evidence.inputs"] = "pass" =>
          inputs = [kind |-> "bound", index |-> d.index, manifest |-> d.manifest]
    /\ st["evidence.inputs"] = "warning" => inputs.kind = "not-recorded"

(* valid_evidence_inputs: digests exactly when the kind records them. *)
ShapedInputs(inputs) ==
    inputs = NoDocument \/ (inputs.kind = "bound") = (None \notin {inputs.index, inputs.manifest})

CompleteWhenPassing(d) ==
    CASE d.command = "status" -> d.data.lock # None /\ d.data.selected # None
      [] d.command = "doctor" -> d.data.evidence # NoDocument
      [] d.command = "inspect" -> d.data.inspected
      [] d.command = "evidence" -> /\ NoDocument \notin {d.data.evidence, d.data.inputs}
                                   /\ d.data.subject = "same"

ValidDocument(d) ==
    /\ DOMAIN d.statuses = Elements(SEQUENCES[d.command])
    /\ d.result = Aggregate(d.statuses)
    /\ ValidTransitions(d.statuses)
    /\ ValidIdentity(d)
    /\ d.command \in {"status", "doctor"} =>
          (d.statuses["workflow.task"] # "pass" => d.data.active = None)
    /\ d.command = "status" => ValidStatus(d)
    /\ d.command = "inspect" => ValidInspect(d)
    /\ d.command \in {"doctor", "evidence"} => ValidProjection(d)
    /\ d.command = "evidence" => ValidInputs(d) /\ ShapedInputs(d.data.inputs)
    /\ d.result = "pass" => CompleteWhenPassing(d)

-----------------------------------------------------------------------------
(* The checks that look at a file or ask a program, each with the checks it  *)
(* waits for before it looks.                                                *)
Looks ==
    [c \in {"project.version", "repository.git", "workflow.task", "tool.ssh", "evidence.file"}
           \cup (Elements(Catalog) \ {"lab.selection"}) \cup Elements(Source) \cup Elements(ConfFile) |->
        CASE c = "inputs.lab-catalog" -> {"inputs.source-lock"}
          [] c \in Elements(Source) -> {"tool.git", "inputs.source-lock"}
          [] c \in Elements(ConfFile) \cup {"evidence.file"} -> {"lab.selection"}
          [] OTHER -> {}]

Internal == [state |-> "internal", exit |-> 1, document |-> NoDocument]

(* main's `except Exception`: what a check raises beside the errors it       *)
(* handles (the OSError of _is_reparse's own lstat, of read or of fstat, the *)
(* RuntimeError of a link that leads to itself) ends the whole run.          *)
CheckRaises ==
    /\ \E id \in DOMAIN Looks : Turn(id) /\ ~Blocked(Looks[id])
    /\ outcome' = Internal
    /\ UNCHANGED <<command, statuses, ctx>>

(* command_document's end and the entry point: a document the validator      *)
(* refuses is an internal failure, and a sink that cannot be written also    *)
(* ends the run with status 1.                                               *)
Finish ==
    /\ Running
    /\ DOMAIN statuses = Elements(SEQUENCES[command])
    /\ outcome' \in
          IF ValidDocument(Document)
          THEN {[state |-> "published", exit |-> ExitCode[Aggregate(statuses)], document |-> Document],
                [state |-> "unwritten", exit |-> 1, document |-> NoDocument]}
          ELSE {Internal}
    /\ UNCHANGED <<command, statuses, ctx>>

(* A malformed selector is refused by Context.__init__ (valid_lab_id) before *)
(* any check; a well-formed name the catalog lacks only by lab.selection.    *)
DiagInit ==
    /\ command \in Command
    /\ statuses = [c \in {} |-> None]
    /\ \E lab \in Selector :
          /\ ctx = [lab |-> lab, version |-> None, revision |-> None, dirty |-> None, task |-> None,
                    git |-> None, lock |-> None, index |-> None, manifest |-> None, subject |-> None,
                    raw |-> NoDocument, document |-> NoDocument, summary |-> NoDocument]
          /\ outcome = IF lab = "malformed"
                       THEN [state |-> "usage", exit |-> 2, document |-> NoDocument]
                       ELSE [state |-> "running", exit |-> 0, document |-> NoDocument]

DiagNext ==
    \/ ProjectVersion \/ Repository \/ Workflow \/ SourceLock \/ LabCatalog \/ Selection
    \/ Cleanliness \/ ToolGit \/ ToolSsh
    \/ \E id \in Elements(Source) : SourceCheckout(id)
    \/ \E id \in Elements(ConfFile) : BuildFile(id)
    \/ EvidenceFile \/ EvidenceDocument \/ EvidenceResult \/ EvidenceInputs \/ EvidenceSubject
    \/ CheckRaises \/ Finish

DiagSpec == DiagInit /\ [][DiagNext]_diagVars

-----------------------------------------------------------------------------
(* What the checks find never contradicts itself: whatever changes between   *)
(* two checks, the document of a run that made all its checks satisfies the  *)
(* validator.  So a run ends as "internal diagnostic failure" only when a    *)
(* check lets an exception out; that it then publishes no document is        *)
(* docs/diagnostics.md's rule, that it never happens nobody promises.        *)
DocumentsValid ==
    DOMAIN statuses = Elements(SEQUENCES[command]) => outcome.state # "internal"

(* docs/diagnostics.md "Results and exits": a doctor or evidence run that    *)
(* exits 0 has read evidence of a clean passing suite for this version, this *)
(* machine and image and these inputs; one whose result is "pass" has read   *)
(* evidence of the current revision bound to the current catalog.            *)
ZeroMeansPassingEvidence ==
    (outcome.state = "published" /\ outcome.exit = 0 /\ command \in {"doctor", "evidence"}) =>
        /\ ctx.raw.passed /\ ~ctx.raw.dirty
        /\ ctx.raw.version = ctx.version /\ ctx.raw.build = ctx.lab /\ ctx.raw.lock = ctx.lock
        /\ ctx.raw.kind = "platform" => /\ ctx.raw.lab = ctx.lab
                                        /\ ctx.raw.manifest = ctx.manifest
        /\ outcome.document.result = "pass" => /\ ctx.raw.revision = ctx.revision
                                               /\ ctx.raw.index = ctx.index
=============================================================================
