----------------------------- MODULE ToolInvoke -----------------------------
(* invoke of scripts/diagnostics_git.py: a tool runs in a process group of   *)
(* its own, a thread drains its output, and the main thread waits for it for *)
(* a bounded time.  The tool may leave a helper behind that keeps the output *)
(* pipe open.  Every process of the tool stays in its group (no git command  *)
(* the diagnostics run detaches itself).                                     *)
EXTENDS Naturals, FiniteSets

CONSTANTS
    Limit,       \* OUTPUT_LIMIT, in chunks
    MaxWritten   \* bound on the chunks the tool writes

ASSUME ToolInvokeAssumption == Limit \in Nat /\ MaxWritten \in Nat

VARIABLES
    alive,    \* the processes of the group
    holders,  \* the processes that hold the write end of the pipe
    spawned,  \* the tool has started its helper
    written,  \* chunks written to the pipe so far
    taken,    \* chunks the drain thread has taken out of it
    drain,    \* the drain thread: its program counter, its output and overflow
    main,     \* the main thread
    closed    \* process.stdout is closed

toolVars == <<alive, holders, spawned, written, taken, drain, main, closed>>
threadVars == <<drain, main, closed>>
processVars == <<alive, holders, spawned, written>>

-----------------------------------------------------------------------------
(* The tool. *)
StartHelper ==
    /\ "tool" \in alive /\ ~spawned
    /\ spawned' = TRUE
    /\ alive' = alive \cup {"helper"}
    /\ holders' = holders \cup (IF "tool" \in holders THEN {"helper"} ELSE {})
    /\ UNCHANGED <<written, taken, threadVars>>

(* Writing stalls while the pipe is full: its capacity is one chunk here. *)
WriteOutput ==
    /\ holders # {} /\ written < MaxWritten /\ written = taken
    /\ written' = written + 1
    /\ UNCHANGED <<alive, holders, spawned, taken, threadVars>>

CloseOutput ==
    /\ \E p \in holders : holders' = holders \ {p}
    /\ UNCHANGED <<alive, spawned, written, taken, threadVars>>

ExitProcess ==
    /\ \E p \in alive : alive' = alive \ {p} /\ holders' = holders \ {p}
    /\ UNCHANGED <<spawned, written, taken, threadVars>>

(* A mutant: the tool alone is killed, not its group. *)
MutTerminate == alive' = alive \ {"tool"} /\ holders' = holders \ {"tool"}

(* _terminate: killpg; a group that is gone already is no error. *)
Terminate == alive' = {} /\ holders' = {}

-----------------------------------------------------------------------------
(* The drain thread.  It holds the lock of process.stdout while it reads. *)
DrainRead ==
    /\ drain.pc = "read"
    /\ IF closed THEN drain' = [drain EXCEPT !.pc = "done"] /\ UNCHANGED taken
       ELSE \/ taken < written /\ drain' = [drain EXCEPT !.pc = "append"] /\ taken' = taken + 1
            \/ taken = written /\ holders = {} /\ drain' = [drain EXCEPT !.pc = "done"] /\ UNCHANGED taken
    /\ UNCHANGED <<processVars, main, closed>>

DrainAppend ==
    /\ drain.pc = "append"
    /\ drain' = IF drain.output < Limit
                THEN [drain EXCEPT !.pc = "read", !.output = @ + 1]
                ELSE [drain EXCEPT !.pc = "kill", !.overflow = TRUE]
    /\ UNCHANGED <<processVars, taken, main, closed>>

DrainKill ==
    /\ drain.pc = "kill"
    /\ drain' = [drain EXCEPT !.pc = "done"]
    /\ Terminate
    /\ UNCHANGED <<spawned, written, taken, main, closed>>

-----------------------------------------------------------------------------
(* The main thread. *)
Step(from, to) == main = from /\ main' = to
KeepProcesses == UNCHANGED <<processVars, taken, drain>>

(* process.wait ends with the tool's exit, or after eight seconds. *)
WaitExit == Step("wait", "join") /\ "tool" \notin alive /\ KeepProcesses /\ UNCHANGED closed

WaitTimeout ==
    /\ Step("wait", "reap")
    /\ "tool" \in alive
    /\ Terminate
    /\ UNCHANGED <<spawned, written, taken, drain, closed>>

(* The second wait, and a join whose result is not looked at. *)
WaitKilled ==
    /\ Step("reap", "close_error")
    /\ "tool" \notin alive
    /\ KeepProcesses
    /\ UNCHANGED closed

(* A mutant: whether the drain has ended is not looked at. *)
MutJoinDone ==
    /\ Step("join", IF drain.overflow THEN "close_error" ELSE "close_ok")
    /\ KeepProcesses
    /\ UNCHANGED closed

JoinDone ==
    /\ Step("join", IF drain.overflow THEN "close_error" ELSE "close_ok")
    /\ drain.pc = "done"
    /\ KeepProcesses
    /\ UNCHANGED closed

JoinTimeout ==
    /\ Step("join", "close_error")
    /\ drain.pc # "done"
    /\ Terminate
    /\ UNCHANGED <<spawned, written, taken, drain, closed>>

(* process.stdout.close() waits for the lock a read of the drain holds. *)
CloseStdout ==
    /\ main \in {"close_ok", "close_error"}
    /\ drain.pc # "read" \/ closed
    /\ main' = IF main = "close_ok" THEN "ok" ELSE "error"
    /\ closed' = TRUE
    /\ KeepProcesses

InvokeInit ==
    /\ alive = {"tool"} /\ holders = {"tool"} /\ spawned = FALSE
    /\ written = 0 /\ taken = 0
    /\ drain = [pc |-> "read", output |-> 0, overflow |-> FALSE]
    /\ main = "wait" /\ closed = FALSE

MainStep == WaitExit \/ WaitTimeout \/ WaitKilled \/ JoinDone \/ JoinTimeout \/ CloseStdout
DrainStep == DrainRead \/ DrainAppend \/ DrainKill
ToolStep == StartHelper \/ WriteOutput \/ CloseOutput \/ ExitProcess

InvokeNext == MainStep \/ DrainStep \/ ToolStep

(* Both threads of the diagnostics are scheduled, and their timeouts expire; *)
(* the tool owes nothing.                                                    *)
InvokeSpec == InvokeInit /\ [][InvokeNext]_toolVars /\ WF_toolVars(MainStep) /\ WF_toolVars(DrainStep)

-----------------------------------------------------------------------------
(* What invoke promises when it ends: nothing of the tool holds the output   *)
(* pipe; after an error nothing of the tool runs; an output it returns is    *)
(* all the tool wrote, within the limit (diagnostics_git.py:92).             *)
InvokeContained ==
    main \in {"ok", "error"} =>
        /\ holders = {}
        /\ main = "error" => alive = {}
        /\ main = "ok" => drain.output = written /\ written <= Limit

(* A tool that hangs, floods its output or leaves a helper on the pipe does  *)
(* not keep the diagnostics from an answer (TIMEOUT_SECONDS).                *)
InvokeReturns == (main = "wait") ~> (main \in {"ok", "error"})
=============================================================================
