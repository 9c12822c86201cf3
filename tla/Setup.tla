------------------------------- MODULE Setup -------------------------------
(***************************************************************************)
(* setup.sh: source_lock.py materializes the locked sources, one Git       *)
(* worktree after the other, and configure_build.py reconciles the build   *)
(* directory.  Several invocations may run at once, the user may work in   *)
(* the worktrees meanwhile, the network may fail, upstream may move its    *)
(* refs, and an invocation may be killed anywhere.                         *)
(***************************************************************************)
EXTENDS Naturals, Sequences

CONSTANTS
    Sources,      \* The locked sources, a sequence of their names.
    Runs,         \* Invocations of setup.sh that may be under way at once.
    Modes,        \* How they are invoked: online, offline, check.
    InitialTrees, \* Worktrees found at first.
    UserActs      \* TRUE if the user works in the worktrees meanwhile.

Names == {Sources[i] : i \in DOMAIN Sources}

\* A worktree.  plain: a directory that is not a Git repository of its own, or
\* one with another object format; head and attached describe HEAD; partial:
\* files of an unfinished checkout; edited: modified or untracked files of the
\* user; refs: what the project's refs say of the last fetch, which also brought
\* the locked commit.
Worktrees ==
    [repo : {"absent", "plain", "git"}, origin : {"none", "locked", "other"},
     head : {"unborn", "locked", "other"}, attached : BOOLEAN,
     partial : BOOLEAN, edited : BOOLEAN, index_lock : BOOLEAN,
     refs : {"none", "valid", "moved_tag", "rewritten_branch"}]

\* local.conf.  own: where the user's lines and those of the template stand,
\* before the managed block or after it; block: the managed block.
LocalConfs == [exists : BOOLEAN, own : {"none", "before", "after"},
               block : {"none", "whole", "broken"}]

\* No directory is there.
Absent ==
    [repo |-> "absent", origin |-> "none", head |-> "unborn", attached |-> TRUE,
     partial |-> FALSE, edited |-> FALSE, index_lock |-> FALSE, refs |-> "none"]

ASSUME SetupAssumption ==
    /\ Sources \in Seq(Names) /\ Sources # <<>>
    /\ Modes \subseteq {"online", "offline", "check"}
    /\ InitialTrees \subseteq Worktrees
    /\ \A t \in InitialTrees : t.repo = "absent" => t = Absent
    /\ UserActs \in BOOLEAN

VARIABLES
    tree,     \* The worktree of every source.
    bblayers, \* TRUE if bblayers.conf is the rendered one.
    local,    \* local.conf of the build directory.
    pc,       \* Control state of every run.
    run,      \* Its mode and local variables; history: touched, the sources the
              \* user has changed since the run's preflight of them.
    hurt,     \* History: sources in which a run was killed, or the user's own.
    torn      \* History: local.conf was left half written, or read so.

conf    == <<bblayers, local>>
history == <<hurt, torn>>
vars    == <<tree, conf, pc, run, history>>

FreshRun ==
    [mode |-> "check", at |-> 1, has_head |-> FALSE, own |-> "none", touched |-> {}]

\* A run that has not begun, has failed or was killed is idle.
Active(r) == pc[r] \notin {"idle", "passed"}

\* The source a run is at.
Source(r) == Sources[run[r].at]

-----------------------------------------------------------------------------
(* What git tells of a worktree.                                           *)

Dirty(t) == t.partial \/ t.edited

\* Mutant: an unexpected HEAD is taken for none.
MutHasHead(t) == t.head = "locked"

\* rev-parse --verify HEAD.
HasHead(t) == t.head # "unborn"

\* Mutant: a branch will do.
MutReady(t) ==
    /\ t.repo = "git" /\ t.origin = "locked"
    /\ t.head = "locked"
    /\ ~Dirty(t)

\* inspect_source.
Ready(t) ==
    /\ t.repo = "git" /\ t.origin = "locked"
    /\ t.head = "locked" /\ ~t.attached
    /\ ~Dirty(t)

\* Mutant: a checkout without HEAD is refused.
MutAcceptable(t) ==
    \/ t.repo = "absent"
    \/ /\ t.repo = "git" /\ t.origin = "locked"
       /\ ~Dirty(t)
       /\ t.head = "locked" /\ ~t.attached

\* preflight_existing accepts.
Acceptable(t) ==
    \/ t.repo = "absent"
    \/ /\ t.repo = "git" /\ t.origin = "locked"
       /\ ~Dirty(t)
       /\ HasHead(t) => t.head = "locked" /\ ~t.attached

-----------------------------------------------------------------------------
(* Steps of a run.                                                         *)

\* What is left of a run's locals when it is at a place.
Kept(to, locals) ==
    CASE to = "idle"   -> FreshRun
      [] to = "passed" -> [FreshRun EXCEPT !.touched = locals.touched]
      [] OTHER         -> locals

\* A run goes on with new locals, or ends.
Goto(r, from, to, locals) ==
    /\ pc[r] = from
    /\ pc' = [pc EXCEPT ![r] = to]
    /\ run' = [run EXCEPT ![r] = Kept(to, locals)]

\* A step that changes nothing but the run's own variables.
Advance(r, from, to, locals) ==
    Goto(r, from, to, locals) /\ UNCHANGED <<tree, conf, history>>

Step(r, from, to) == Advance(r, from, to, run[r])

Fail(r, from) == Step(r, from, "idle")

\* A git command changes the worktree the run is at.
Git(r, from, to, new) ==
    /\ Goto(r, from, to, run[r])
    /\ tree' = [tree EXCEPT ![Source(r)] = new]
    /\ UNCHANGED <<conf, history>>

\* A step that changes the configuration only.
Configure(r, from, to) ==
    Goto(r, from, to, run[r]) /\ UNCHANGED <<tree, hurt>>

Start(r, mode) ==
    /\ ~Active(r)
    /\ pc' = [pc EXCEPT ![r] = IF mode = "check" THEN "status" ELSE "preflight"]
    /\ run' = [run EXCEPT ![r] = [FreshRun EXCEPT !.mode = mode]]
    /\ UNCHANGED <<tree, conf, history>>

\* setup.sh --check.
Check(r) ==
    Step(r, "status",
         IF \A s \in Names : Ready(tree[s]) THEN "passed" ELSE "idle")

-----------------------------------------------------------------------------
(* sync_source.                                                            *)

PreflightRefuses(r) == ~Acceptable(tree[Source(r)]) /\ Fail(r, "preflight")

PreflightAccepts(r) ==
    LET t == tree[Source(r)]
    IN  /\ Acceptable(t)
        /\ Advance(r, "preflight", "exists",
                   [run[r] EXCEPT !.has_head = t.repo = "git" /\ HasHead(t),
                                  !.touched = @ \ {Source(r)}])

\* Where the objects come from.
Provision(r) == IF run[r].mode = "offline" THEN "cat_file" ELSE "fetch"

Exists(r) ==
    Step(r, "exists", IF tree[Source(r)].repo # "absent" THEN Provision(r)
                      ELSE IF run[r].mode = "offline" THEN "idle" ELSE "init")

\* git init, which leaves an existing repository and existing files alone.
GitInit(r) ==
    Git(r, "init", "remote", [tree[Source(r)] EXCEPT !.repo = "git"])

RemoteAdd(r) ==
    LET t == tree[Source(r)]
    IN  /\ t.repo = "git" /\ t.origin = "none"
        /\ Git(r, "remote", Provision(r), [t EXCEPT !.origin = "locked"])

\* Mutant: pull instead of fetch.
MutFetch(r) ==
    LET t == tree[Source(r)]
    IN  /\ t.repo = "git" /\ t.origin # "none"
        /\ \E refs \in {"valid", "moved_tag", "rewritten_branch"} :
             Git(r, "fetch", "release",
                 [t EXCEPT !.refs = refs,
                           !.head = IF @ = "locked" /\ refs # "valid" THEN "other" ELSE @])

\* git fetch, into the project's own refs.
Fetch(r) ==
    LET t == tree[Source(r)]
    IN  /\ t.repo = "git" /\ t.origin # "none"
        /\ \E refs \in {"valid", "moved_tag", "rewritten_branch"} :
             Git(r, "fetch", "release", [t EXCEPT !.refs = refs])

\* A git command fails: the worktree is not what the command needs, another
\* process is at the same refs, or the network is down.
GitFails(r) ==
    LET t == tree[Source(r)]
    IN  \/ Fail(r, "init")
        \/ (t.repo # "git" \/ t.origin # "none") /\ Fail(r, "remote")
        \/ Fail(r, "fetch")

\* Where a run goes once the locked commit is there.
Materialize(r) == IF run[r].has_head THEN "inspect" ELSE "checkout"

CheckRelease(r) ==
    Step(r, "release",
         IF tree[Source(r)].refs \in {"valid", "rewritten_branch"}
         THEN "branch" ELSE "idle")

CheckBranch(r) ==
    Step(r, "branch",
         IF tree[Source(r)].refs \in {"valid", "moved_tag"}
         THEN Materialize(r) ELSE "idle")

\* The locked commit is among the worktree's objects.
Cached(t) == t.repo = "git" /\ (t.refs # "none" \/ t.head = "locked")

CatFile(r) ==
    Step(r, "cat_file",
         IF Cached(tree[Source(r)]) THEN Materialize(r) ELSE "idle")

\* git checkout --detach does nothing at its commit, takes the index lock
\* otherwise, and refuses to overwrite what the user has changed.
CheckoutNothing(r) ==
    LET t == tree[Source(r)]
    IN  /\ t.repo = "git" /\ t.head = "locked" /\ ~t.index_lock
        /\ Git(r, "checkout", "inspect", [t EXCEPT !.attached = FALSE])

CheckoutBegin(r) ==
    LET t == tree[Source(r)]
    IN  /\ Cached(t) /\ t.head # "locked" /\ ~t.index_lock
        /\ Git(r, "checkout", "checkout_end",
               [t EXCEPT !.index_lock = TRUE, !.partial = TRUE])

CheckoutFails(r) ==
    LET t == tree[Source(r)]
    IN  /\ ~Cached(t) \/ t.index_lock \/ Dirty(t)
        /\ Fail(r, "checkout")

CheckoutEnd(r) ==
    LET t == tree[Source(r)]
    IN  Git(r, "checkout_end", "inspect",
            IF t.repo # "git" THEN t
            ELSE [t EXCEPT !.head = "locked", !.attached = FALSE,
                           !.partial = FALSE, !.index_lock = FALSE])

\* Mutant: one source too many.
MutInspect(r) ==
    Advance(r, "inspect",
            IF ~Ready(tree[Source(r)]) THEN "idle"
            ELSE IF run[r].at > Len(Sources) THEN "environment" ELSE "preflight",
            [run[r] EXCEPT !.at = @ + 1])

\* inspect_source, then the next source, or environment.sh.
Inspect(r) ==
    LET last == run[r].at = Len(Sources)
    IN  Advance(r, "inspect",
                IF ~Ready(tree[Source(r)]) THEN "idle"
                ELSE IF last THEN "environment" ELSE "preflight",
                [run[r] EXCEPT !.at = IF last THEN @ ELSE @ + 1])

SyncSource(r) ==
    \/ PreflightRefuses(r) \/ PreflightAccepts(r) \/ Exists(r)
    \/ GitInit(r) \/ RemoteAdd(r) \/ Fetch(r) \/ GitFails(r)
    \/ CheckRelease(r) \/ CheckBranch(r) \/ CatFile(r)
    \/ CheckoutNothing(r) \/ CheckoutBegin(r) \/ CheckoutFails(r) \/ CheckoutEnd(r)
    \/ Inspect(r)

-----------------------------------------------------------------------------
(* environment.sh and configure_build.py configure.                        *)

\* source_lock.py status, once more.
Environment(r) ==
    Step(r, "environment",
         IF \A s \in Names : Ready(tree[s]) THEN "oe_init" ELSE "idle")

\* oe-init-build-env fills a build directory that has no local.conf from the
\* templates.
OeInit(r) ==
    /\ Configure(r, "oe_init", "render")
    /\ local' = IF local.exists THEN local
                ELSE [exists |-> TRUE, own |-> "before", block |-> "none"]
    /\ UNCHANGED <<bblayers, torn>>

\* A run is in between truncating local.conf and writing it.
HalfWritten == \E r \in Runs : pc[r] = "write_local"

RenderRefuses(r) ==
    /\ ~local.exists \/ local.block = "broken"
    /\ Fail(r, "render")

\* What render_local_conf makes of the text that was read.
Rendering(r, own) ==
    /\ local.exists /\ local.block # "broken"
    /\ Goto(r, "render", "bblayers", [run[r] EXCEPT !.own = own])
    /\ torn' = (torn \/ HalfWritten)
    /\ UNCHANGED <<tree, conf, hurt>>

\* Mutant: what stands after the managed block is dropped.
MutRender(r) == Rendering(r, IF local.own = "before" THEN "before" ELSE "none")

\* The user's lines first, the managed block last.
Render(r) == Rendering(r, IF local.own = "none" THEN "none" ELSE "before")

WriteBblayers(r) ==
    /\ Configure(r, "bblayers", "truncate")
    /\ bblayers' = TRUE
    /\ UNCHANGED <<local, torn>>

Empty == [exists |-> TRUE, own |-> "none", block |-> "none"]

TruncateLocal(r) ==
    /\ Configure(r, "truncate", "write_local")
    /\ local' = Empty
    /\ UNCHANGED <<bblayers, torn>>

\* The text is written over what another run may have written since the file was
\* truncated; a longer one of that run keeps its end.
WriteLocal(r) ==
    LET own == run[r].own
    IN  /\ Configure(r, "write_local", "verify")
        /\ local' = IF own = "none" /\ local.own # "none"
                    THEN [local EXCEPT !.block = "broken"]
                    ELSE [exists |-> TRUE, own |-> own, block |-> "whole"]
        /\ UNCHANGED <<bblayers, torn>>

\* A text stops somewhere: in the user's lines, which then count as lost, or in
\* the block.
HalfTexts(r) ==
    {local, Empty, [exists |-> TRUE, own |-> run[r].own, block |-> "broken"]}

WriteFails(r) ==
    \/ /\ Configure(r, "bblayers", "idle")
       /\ bblayers' = FALSE
       /\ UNCHANGED <<local, torn>>
    \/ /\ Configure(r, "write_local", "idle")
       /\ local' \in HalfTexts(r)
       /\ torn' = TRUE
       /\ UNCHANGED bblayers

\* bitbake-getvar and configure_build.py verify.
Verify(r) ==
    Step(r, "verify",
         IF bblayers /\ local.block = "whole" THEN "passed" ELSE "idle")

\* The OpenEmbedded tools fail.
ToolFails(r) == Fail(r, "oe_init") \/ Fail(r, "verify")

ConfigureBuild(r) ==
    \/ Environment(r) \/ OeInit(r) \/ RenderRefuses(r) \/ Render(r)
    \/ WriteBblayers(r) \/ TruncateLocal(r) \/ WriteLocal(r) \/ WriteFails(r)
    \/ Verify(r) \/ ToolFails(r)

-----------------------------------------------------------------------------
(* What else happens.                                                      *)

\* What a git command killed half-way may leave of a worktree.
HalfDone(r) ==
    LET t == tree[Source(r)]
    IN  CASE pc[r] = "init" -> {t, [t EXCEPT !.repo = IF @ = "absent" THEN "plain" ELSE @],
                                [t EXCEPT !.repo = "git"]}
          [] pc[r] = "remote" /\ t.repo = "git" ->
               {t, [t EXCEPT !.origin = IF @ = "none" THEN "locked" ELSE @]}
          [] pc[r] = "checkout_end" -> {t, [t EXCEPT !.index_lock = FALSE]}
          [] OTHER -> {t}

\* A run is killed, with the command it is waiting for, or that command fails
\* half-way.
Kill(r) ==
    /\ Active(r)
    /\ pc' = [pc EXCEPT ![r] = "idle"]
    /\ run' = [run EXCEPT ![r] = FreshRun]
    /\ \E t \in HalfDone(r) : tree' = [tree EXCEPT ![Source(r)] = t]
    /\ hurt' = IF pc[r] \in {"init", "remote", "checkout_end"}
               THEN hurt \cup {Source(r)} ELSE hurt
    /\ IF pc[r] = "write_local" THEN local' \in HalfTexts(r) /\ torn' = TRUE
                                ELSE UNCHANGED <<local, torn>>
    /\ bblayers' \in IF pc[r] = "bblayers" THEN BOOLEAN ELSE {bblayers}

\* What the user may do in a worktree.
UserEdit(t) == IF t.repo = "absent" THEN {} ELSE {[t EXCEPT !.edited = TRUE]}

UserCommit(t) ==
    IF t.repo = "git" /\ ~t.index_lock /\ t.edited
    THEN {[t EXCEPT !.edited = FALSE, !.head = "other"]} ELSE {}

\* What the user does to a source is noted for the runs it may concern.
Touch(s) ==
    /\ run' = [r \in Runs |-> IF pc[r] = "idle" THEN run[r]
                              ELSE [run[r] EXCEPT !.touched = @ \cup {s}]]
    /\ UNCHANGED <<conf, pc, torn>>

UserChanges(s) ==
    /\ UserActs
    /\ tree' \in {[tree EXCEPT ![s] = t] : t \in UserEdit(tree[s]) \cup UserCommit(tree[s])}
    /\ hurt' = hurt \cup {s}
    /\ Touch(s)

\* The directory is moved aside, as docs/source-lock.md has it, while no command
\* works in it.
MoveAside(s) ==
    /\ UserActs
    /\ tree[s].repo # "absent"
    /\ \A r \in Runs : ~(pc[r] = "checkout_end" /\ Source(r) = s)
    /\ tree' = [tree EXCEPT ![s] = Absent]
    /\ hurt' = hurt \ {s}
    /\ Touch(s)

UserStep == \E s \in Names : UserChanges(s) \/ MoveAside(s)

-----------------------------------------------------------------------------

Init ==
    /\ tree \in [Names -> InitialTrees]
    /\ bblayers = FALSE
    /\ local \in {[exists |-> FALSE, own |-> "none", block |-> "none"],
                  [exists |-> TRUE, own |-> "after", block |-> "whole"],
                  [exists |-> TRUE, own |-> "before", block |-> "broken"]}
    /\ pc = [r \in Runs |-> "idle"]
    /\ run = [r \in Runs |-> FreshRun]
    /\ hurt = {s \in Names : ~Acceptable(tree[s])}
    /\ torn = FALSE

Next ==
    \/ \E r \in Runs :
         \/ \E mode \in Modes : Start(r, mode)
         \/ Check(r) \/ SyncSource(r) \/ ConfigureBuild(r) \/ Kill(r)
    \/ UserStep

Spec == Init /\ [][Next]_vars

-----------------------------------------------------------------------------
(* Properties.                                                             *)

TypeOK ==
    /\ tree \in [Names -> Worktrees]
    /\ bblayers \in BOOLEAN /\ local \in LocalConfs
    /\ pc \in [Runs ->
               {"idle", "passed", "status", "preflight", "exists", "init", "remote", "fetch", "release",
                "branch", "cat_file", "checkout", "checkout_end", "inspect", "environment",
                "oe_init", "render", "bblayers", "truncate", "write_local", "verify"}]
    /\ run \in [Runs -> [mode : Modes \cup {"check"}, at : DOMAIN Sources,
                         has_head : BOOLEAN, own : {"none", "before"},
                         touched : SUBSET Names]]
    /\ hurt \subseteq Names /\ torn \in BOOLEAN

\* Setup never moves a HEAD of the user's, detaches his branch, or removes his
\* changes: the source lock promises to refuse such a checkout (preflight_existing).
\* Only a commit made between a run's preflight of the source and its checkout
\* is not noticed.
UserWorkKept ==
    [][\A s \in Names :
         LET t == tree[s]
         IN  \/ UserStep
             \/ \E r \in Runs : s \in run[r].touched /\ pc[r] \in {"checkout", "checkout_end"}
             \/ /\ t.head = "other" => tree'[s].head = "other"
                /\ t.head # "unborn" => tree'[s].attached = t.attached
                /\ t.edited => tree'[s].edited]_vars

\* Repeated setup is idempotent: whatever a run does, and wherever it dies, a
\* worktree that was the locked one stays it.
ReadyIsStable ==
    [][\A s \in Names : Ready(tree[s]) => UserStep \/ Ready(tree'[s])]_vars

\* When setup passes, every source is a clean, detached worktree of the locked
\* commit, whatever other runs, killed or alive, have done to it meanwhile
\* (sync_result, status_result), unless the user has changed it since.
SuccessMeansReady ==
    \A r \in Runs : pc[r] = "passed" =>
      \A s \in Names \ run[r].touched :
        /\ tree[s].repo = "git" /\ tree[s].origin = "locked"
        /\ tree[s].head = "locked" /\ ~tree[s].attached
        /\ ~tree[s].partial /\ ~tree[s].edited

\* A later run refuses a worktree only for the user's sake, because a run was killed
\* in git init, before git remote add, or in git checkout, or while another run
\* is there.  After every other failure setup goes on where it stopped.
RefusedOnlyWhenHurt ==
    \A s \in Names :
      \/ Acceptable(tree[s])
      \/ s \in hurt
      \/ \E r \in Runs : Source(r) = s /\ pc[r] \in {"remote", "checkout_end"}

\* The user's lines of local.conf outlive every run: configure moves them before
\* its block.  They are lost only if a run stops while it writes the file, or
\* reads what another has not written yet.
LinesKept ==
    local.exists /\ local.own = "none" =>
      torn \/ \E r \in Runs : pc[r] = "write_local" /\ run[r].own # "none"

=============================================================================
