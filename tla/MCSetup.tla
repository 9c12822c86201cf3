------------------------------ MODULE MCSetup ------------------------------
(* Values of the constants of Setup for TLC.                               *)
EXTENDS Setup, TLC

CONSTANT bitbake

OneSource == <<bitbake>>

\* The locked worktree; one on a branch; one with a commit of the user's.
Locked == [repo |-> "git", origin |-> "locked", head |-> "locked", attached |-> FALSE,
           partial |-> FALSE, edited |-> FALSE, index_lock |-> FALSE,
           refs |-> "valid"]
OnBranch == [Locked EXCEPT !.attached = TRUE]
OwnCommit == [Locked EXCEPT !.head = "other", !.refs = "none"]
OtherOrigin == [Locked EXCEPT !.origin = "other"]

Symmetry == Permutations(Runs)

SomeTrees == {Absent, Locked, OnBranch, OwnCommit, OtherOrigin}
=============================================================================
