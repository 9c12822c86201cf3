---------------------------- MODULE ProjectTree ----------------------------
(* The git repository around the evidence tools: a working tree, the commits *)
(* and HEAD.  A content says which code and which inputs (source lock, lab   *)
(* catalog) it holds, and whether the tool at hand accepts those inputs      *)
(* (select_lab, selected_contract: the whole catalog is validated whenever a *)
(* lab is selected).  The user edits, commits and moves between commits at   *)
(* any time.  Modelled from the queries of git_state and project_state.      *)
EXTENDS Naturals, Sequences

CONSTANT MaxEdits  \* bound on the user's steps

ASSUME MaxEditsAssumption == MaxEdits \in Nat

VARIABLES
    content,  \* the working tree
    commits,  \* the commits, by revision
    head,     \* HEAD's revision
    edits     \* the user's steps so far

treeVars == <<content, commits, head, edits>>

Original == [code |-> 0, inputs |-> 0, valid |-> TRUE]
Dirty == content # commits[head]

UserActs == edits < MaxEdits /\ edits' = edits + 1

EditTree ==
    /\ UserActs
    /\ content' \in {[content EXCEPT !.code = edits']}
                    \cup {[content EXCEPT !.inputs = edits', !.valid = v] : v \in BOOLEAN}
    /\ UNCHANGED <<commits, head>>

CommitTree ==
    /\ UserActs
    /\ Dirty
    /\ commits' = Append(commits, content)
    /\ head' = Len(commits')
    /\ UNCHANGED content

(* git checkout of a revision, or git restore of the current one. *)
CheckOut ==
    /\ UserActs
    /\ head' \in DOMAIN commits
    /\ content' = commits[head']
    /\ UNCHANGED commits

TreeInit ==
    /\ commits = <<Original>>
    /\ head = 1
    /\ content = Original
    /\ edits = 0

UserStep == EditTree \/ CommitTree \/ CheckOut
=============================================================================
