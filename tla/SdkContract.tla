---------------------------- MODULE SdkContract ----------------------------
(***************************************************************************)
(* What docs/sdk-iteration.md promises of a run of the direct-eSDK         *)
(* lifecycle, whatever happens inside it: passing evidence is published    *)
(* for a build root at rest, by a run nobody cancelled, and a run that     *)
(* fails leaves none.  SdkIteration implements it.                         *)
(***************************************************************************)

VARIABLES
    outcome,   \* Of the current run: none yet, running, passed, failed, dead.
    evidence,  \* none, stale (of an earlier run) or pass.
    at_rest,   \* The build root is at rest and no emulator runs.
    cancelled  \* The run was cancelled before it published.

vars == <<outcome, evidence, at_rest, cancelled>>

Init ==
    /\ outcome = "none"
    /\ evidence \in {"none", "stale"}
    /\ at_rest \in BOOLEAN
    /\ cancelled = FALSE

\* A new run has no emulator of its own yet, and no evidence.
Start ==
    /\ outcome # "running"
    /\ outcome' = "running"
    /\ cancelled' = FALSE
    /\ at_rest' \in {at_rest, TRUE}
    /\ evidence' = IF evidence = "none" THEN "none" ELSE "stale"

\* The lifecycle leaves rest and returns to it, without any passing evidence.
Work ==
    /\ outcome = "running" /\ evidence # "pass"
    /\ at_rest' \in BOOLEAN
    /\ UNCHANGED <<outcome, evidence, cancelled>>

Clear ==
    /\ outcome = "running"
    /\ evidence' = "none"
    /\ UNCHANGED <<outcome, at_rest, cancelled>>

Cancel ==
    /\ outcome = "running" /\ evidence # "pass"
    /\ cancelled' = TRUE
    /\ at_rest' \in BOOLEAN
    /\ UNCHANGED <<outcome, evidence>>

Publish ==
    /\ outcome = "running"
    /\ at_rest /\ ~cancelled
    /\ evidence' = "pass"
    /\ UNCHANGED <<outcome, at_rest, cancelled>>

Pass ==
    /\ outcome = "running" /\ evidence = "pass"
    /\ outcome' = "passed"
    /\ UNCHANGED <<evidence, at_rest, cancelled>>

\* The evidence is gone before the run has failed.
Fail ==
    /\ outcome = "running"
    /\ outcome' = "failed"
    /\ evidence' = "none"
    /\ cancelled' \in {cancelled, TRUE}
    /\ UNCHANGED at_rest

Die ==
    /\ outcome = "running"
    /\ outcome' = "dead"
    /\ at_rest' \in IF evidence = "pass" THEN {at_rest} ELSE BOOLEAN
    /\ UNCHANGED <<evidence, cancelled>>

\* A process that outlives its run, an emulator that could not be stopped or an
\* orphaned command, ends after all; none outlives a run that has published.
Settle ==
    /\ outcome # "running" /\ evidence # "pass"
    /\ at_rest' \in BOOLEAN
    /\ UNCHANGED <<outcome, evidence, cancelled>>

Next ==
    \/ Start \/ Work \/ Clear \/ Cancel \/ Publish \/ Pass \/ Fail \/ Die \/ Settle

Spec == Init /\ [][Next]_vars
=============================================================================
