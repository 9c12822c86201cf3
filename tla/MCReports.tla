----------------------------- MODULE MCReports -----------------------------
(* Three machines of the diagnostics, one per behaviour: a whole run of a    *)
(* command, one read of an input, one call of a tool.  Only the subject of   *)
(* the behaviour moves; the other two are idle.                              *)
EXTENDS Diagnostics, SafeRead, ToolInvoke

VARIABLE subject

(* Both labs of the catalog, one locked source and one build file, and the   *)
(* evidence documents that differ from a current passing one in one field,   *)
(* or, for the ARM64 lab, in the revision and one field of the catalog.      *)
MCCommand == {"status", "doctor", "inspect", "evidence"}
MCLab == {"pci-x86-64", "platform-arm64"}
MCSelector == {None, "platform-arm64", "unlisted", "malformed"}
MCSource == <<"source.bitbake">>
MCConfFile == <<"build.local-conf">>

Passing ==
    {[kind |-> "pci", version |-> "current", build |-> "pci-x86-64", schema |-> "current",
      revision |-> "current", dirty |-> FALSE, passed |-> TRUE, lock |-> "current",
      lab |-> None, index |-> None, manifest |-> None],
     [kind |-> "platform", version |-> "current", build |-> "platform-arm64", schema |-> "current",
      revision |-> "current", dirty |-> FALSE, passed |-> TRUE, lock |-> "current",
      lab |-> "platform-arm64", index |-> "current", manifest |-> "current"]}

Near(e) ==
    {e, [e EXCEPT !.version = "other"], [e EXCEPT !.schema = "other"], [e EXCEPT !.revision = "other"],
     [e EXCEPT !.lock = "other"], [e EXCEPT !.dirty = TRUE], [e EXCEPT !.passed = FALSE],
     [e EXCEPT !.build = "other"]}
    \cup IF e.kind = "pci" THEN {}
         ELSE {[e EXCEPT !.lab = "pci-x86-64"], [e EXCEPT !.manifest = "other"],
               [e EXCEPT !.index = "other"], [e EXCEPT !.index = "other", !.revision = "other"]}

MCEvidence == UNION {Near(e) : e \in Passing}

MCInode == 1..3

DiagIdle == DiagInit /\ command = "status" /\ ctx.lab = "malformed"
ReadIdle == ReadInit /\ path.kind = "absent"
InvokeIdle == /\ alive = {} /\ holders = {} /\ spawned = FALSE /\ written = 0 /\ taken = 0
              /\ drain = [pc |-> "done", output |-> 0, overflow |-> FALSE]
              /\ main = "idle" /\ closed = FALSE

ReportsInit ==
    \/ subject = "command" /\ DiagInit /\ ReadIdle /\ InvokeIdle
    \/ subject = "read" /\ ReadInit /\ DiagIdle /\ InvokeIdle
    \/ subject = "invoke" /\ InvokeInit /\ DiagIdle /\ ReadIdle

OfInvoke(A) == subject = "invoke" /\ A /\ UNCHANGED <<subject, diagVars, readVars>>

ReportsNext ==
    \/ subject = "command" /\ DiagNext /\ UNCHANGED <<subject, readVars, toolVars>>
    \/ subject = "read" /\ ReadNext /\ UNCHANGED <<subject, diagVars, toolVars>>
    \/ OfInvoke(InvokeNext)
=============================================================================
