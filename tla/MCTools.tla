------------------------------ MODULE MCTools ------------------------------
(* The Python tools around the build: every behaviour is one of MCReports or *)
(* one of MCRecords, and everything else is idle.                            *)
EXTENDS MCReports, MCRecords

reportsVars == <<subject, diagVars, readVars, toolVars>>

ToolsInit ==
    \/ ReportsInit /\ lane = "none" /\ RuntimeIdle /\ SbomIdle /\ CatalogIdle /\ TrustIdle
    \/ RecordsInit /\ subject = "none" /\ DiagIdle /\ ReadIdle /\ InvokeIdle

ToolsNext ==
    \/ subject # "none" /\ ReportsNext /\ UNCHANGED recordsVars
    \/ lane # "none" /\ RecordsNext /\ UNCHANGED reportsVars

ToolsSpec ==
    /\ ToolsInit
    /\ [][ToolsNext]_<<reportsVars, recordsVars>>
    /\ WF_toolVars(OfInvoke(MainStep)) /\ WF_toolVars(OfInvoke(DrainStep))
=============================================================================
