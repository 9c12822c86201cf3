---------------------------- MODULE SetupProofs ----------------------------
(***************************************************************************)
(* Theorems about Setup, for any number of sources and of invocations.     *)
(***************************************************************************)
EXTENDS Setup, TLAPS

-----------------------------------------------------------------------------
(* The inductive invariant.                                                *)

\* Who has passed environment.sh has seen every source ready.
ReadyInv ==
    \A r \in Runs :
      pc[r] \in {"oe_init", "render", "bblayers", "truncate", "write_local", "verify", "passed"} =>
        \A s \in Names \ run[r].touched : Ready(tree[s])

\* A run that saw no HEAD finds none of the user's at its checkout, unless the user
\* has been there since.
CheckoutInv ==
    \A r \in Runs :
      /\ pc[r] \in {"checkout", "checkout_end"} => ~run[r].has_head
      /\ /\ pc[r] \in {"exists", "init", "remote", "fetch", "release", "branch",
                       "cat_file", "checkout", "checkout_end"}
         /\ ~run[r].has_head
         /\ Source(r) \notin run[r].touched
         => /\ tree[Source(r)].head # "other"
            /\ tree[Source(r)].head = "locked" => ~tree[Source(r)].attached

\* A source that nothing has hurt is on its way to the locked one, and whoever has
\* begun a change that is to be completed is still there.
Unhurt(s) ==
    /\ tree[s].repo # "plain" /\ tree[s].origin # "other"
    /\ tree[s].head # "other" /\ ~tree[s].edited
    /\ tree[s].head = "locked" => ~tree[s].attached
    /\ tree[s].origin = "none" => tree[s].refs = "none" /\ tree[s].head = "unborn"
    /\ tree[s].repo = "git" /\ tree[s].origin = "none" =>
         \E r \in Runs : pc[r] = "remote" /\ Source(r) = s
    /\ tree[s].partial => \E r \in Runs : pc[r] = "checkout_end" /\ Source(r) = s
    /\ \A r \in Runs : pc[r] = "checkout_end" /\ Source(r) = s =>
         tree[s].repo = "git" /\ tree[s].origin = "locked"

HurtInv ==
    \A s \in Names :
      /\ tree[s].repo = "absent" => tree[s].head = "unborn"
      /\ s \notin hurt => Unhurt(s)

\* Who has read local.conf has the user's lines, unless the file was torn.
LinesInv ==
    /\ LinesKept
    /\ \A r \in Runs :
         pc[r] \in {"bblayers", "truncate", "write_local"} => torn \/ run[r].own # "none"

Inv == TypeOK /\ ReadyInv /\ CheckoutInv /\ HurtInv /\ LinesInv

-----------------------------------------------------------------------------
(* Typing.                                                                 *)

Places ==
    {"idle", "passed", "status", "preflight", "exists", "init", "remote", "fetch", "release",
     "branch", "cat_file", "checkout", "checkout_end", "inspect", "environment",
     "oe_init", "render", "bblayers", "truncate", "write_local", "verify"}

RunType ==
    [mode : Modes \cup {"check"}, at : DOMAIN Sources, has_head : BOOLEAN,
     own : {"none", "before"}, touched : SUBSET Names]

\* An invocation that begins.
LEMMA FreshRunTyped == FreshRun \in RunType
BY SetupAssumption DEF SetupAssumption, FreshRun, RunType

\* A repository that was not cloned.
LEMMA AbsentTyped == Absent \in Worktrees
BY DEF Absent, Worktrees

\* The source a run stands at is one of the lock.
LEMMA SourceIsNamed ==
  ASSUME TypeOK, NEW r \in Runs
  PROVE  Source(r) \in Names
<1>1. run[r].at \in DOMAIN Sources
  BY DEF TypeOK
<1>2. QED BY <1>1 DEF Source, Names

\* The locals of a run that goes on, passes or ends.
LEMMA LocalsKept ==
  ASSUME NEW to, NEW locals \in RunType
  PROVE  /\ Kept(to, locals) \in RunType
         /\ to \notin {"idle", "passed"} => Kept(to, locals) = locals
         /\ to = "passed" => Kept(to, locals).touched = locals.touched
<1> DEFINE passed == [FreshRun EXCEPT !.touched = locals.touched]
<1>1. passed \in RunType /\ passed.touched = locals.touched
  BY FreshRunTyped DEF RunType
<1> HIDE DEF passed
<1>2. Kept(to, locals) = CASE to = "idle" -> FreshRun [] to = "passed" -> passed [] OTHER -> locals
  BY DEF Kept, passed
<1>3. QED BY <1>1, <1>2, FreshRunTyped

-----------------------------------------------------------------------------
(* Steps that change nothing but the run's own variables.                  *)

AfterEnvironment ==
    {"oe_init", "render", "bblayers", "truncate", "write_local", "verify", "passed"}

BeforeCheckout ==
    {"exists", "init", "remote", "fetch", "release", "branch", "cat_file", "checkout",
     "checkout_end"}

\* What the invariant needs to know of such a step.
Harmless(r, from, to, locals) ==
    /\ to \in AfterEnvironment =>
         \/ from \in AfterEnvironment /\ locals = run[r]
         \/ \A s \in Names : Ready(tree[s])
    /\ to = "checkout" => ~locals.has_head
    /\ to \in BeforeCheckout =>
         \/ from \in BeforeCheckout /\ locals = run[r]
         \/ LET t == tree[Sources[locals.at]]
            IN  locals.has_head \/ t.head = "unborn"
    /\ to \notin {"remote", "checkout_end", "bblayers", "truncate", "write_local"}
    /\ from \notin {"checkout_end", "write_local"}
    /\ from = "remote" => tree[Source(r)].repo # "git" \/ tree[Source(r)].origin # "none"

Quietly(r) ==
    \E from, to \in Places, locals \in RunType :
      Advance(r, from, to, locals) /\ Harmless(r, from, to, locals)

\* A quiet step keeps the invariant.
LEMMA QuietlyKeepsInv ==
  ASSUME Inv, NEW r \in Runs, Quietly(r)
  PROVE  Inv'
<1> PICK from \in Places, to \in Places, locals \in RunType :
      Advance(r, from, to, locals) /\ Harmless(r, from, to, locals)
  BY DEF Quietly
<1>1. UNCHANGED <<tree, conf, history>>
  BY DEF Advance
<1>2. /\ pc' \in [Runs -> Places] /\ run' \in [Runs -> RunType]
      /\ pc[r] = from /\ pc'[r] = to
      /\ \A q \in Runs \ {r} : pc'[q] = pc[q] /\ run'[q] = run[q]
      /\ to \notin {"idle", "passed"} => run'[r] = locals
      /\ to = "passed" => run'[r].touched = locals.touched
  BY LocalsKept DEF Advance, Goto, Inv, TypeOK, Places, RunType
<1>3. TypeOK'
  BY <1>1, <1>2 DEF Inv, TypeOK, Places, RunType, conf, history
<1>4. ReadyInv'
  <2>1. ASSUME NEW s \in Names, Ready(tree[s])
        PROVE  Ready(tree[s])'
    BY <1>1, <2>1 DEF Ready, Dirty
  <2>2. ASSUME pc'[r] \in AfterEnvironment, NEW s \in Names \ run'[r].touched
        PROVE  Ready(tree[s])
    BY <1>2, <2>2 DEF Inv, ReadyInv, Harmless, AfterEnvironment
  <2>3. QED BY <1>2, <2>1, <2>2 DEF Inv, ReadyInv, AfterEnvironment
<1>5. CheckoutInv'
  <2>1. ASSUME NEW q \in Runs, q # r
        PROVE  Source(q)' = Source(q) /\ pc'[q] = pc[q] /\ run'[q] = run[q]
    BY <1>2, <2>1 DEF Source
  <2>2. to \in BeforeCheckout => Source(r)' = Sources[locals.at] /\ run'[r] = locals
    BY <1>2 DEF Source, BeforeCheckout
  <2>3. QED BY <1>1, <1>2, <2>1, <2>2 DEF Inv, CheckoutInv, Harmless, BeforeCheckout, Source
<1>6. HurtInv'
  <2>1. ASSUME NEW q \in Runs, q # r
        PROVE  Source(q)' = Source(q) /\ pc'[q] = pc[q]
    BY <1>2, <2>1 DEF Source
  <2>2. ASSUME NEW s \in Names, Unhurt(s)
        PROVE  Unhurt(s)'
    BY <1>1, <1>2, <2>1, <2>2 DEF Unhurt, Harmless
  <2>3. QED BY <1>1, <2>2 DEF Inv, HurtInv, history
<1>7. LinesInv'
  BY <1>1, <1>2 DEF Inv, LinesInv, LinesKept, Harmless, conf, history
<1>8. QED BY <1>3, <1>4, <1>5, <1>6, <1>7 DEF Inv

\* The environment and the worktree checks are quiet.
LEMMA ChecksAreQuiet ==
  ASSUME Inv, NEW r \in Runs,
         \/ Check(r) \/ PreflightRefuses(r) \/ PreflightAccepts(r) \/ Exists(r) \/ GitFails(r)
         \/ CheckRelease(r) \/ CheckBranch(r) \/ CatFile(r) \/ CheckoutFails(r) \/ Inspect(r)
         \/ Environment(r) \/ RenderRefuses(r) \/ Verify(r) \/ ToolFails(r)
  PROVE  Quietly(r)
<1>1. ASSUME NEW from \in Places, NEW to \in Places, NEW locals \in RunType,
             Advance(r, from, to, locals), Harmless(r, from, to, locals)
      PROVE  Quietly(r)
  BY <1>1 DEF Quietly
<1>2. run[r] \in RunType
  BY DEF Inv, TypeOK, RunType
<1> USE <1>2 DEF Step, Fail, Places, AfterEnvironment, BeforeCheckout
<1>3. CASE Check(r)
  <2>1. PICK to : to = IF \A s \in Names : Ready(tree[s]) THEN "passed" ELSE "idle"
    OBVIOUS
  <2>2. Advance(r, "status", to, run[r])
    BY <1>3, <2>1 DEF Check
  <2>3. Harmless(r, "status", to, run[r])
    BY <2>1 DEF Harmless
  <2>4. "status" \in Places /\ to \in Places
    BY <2>1
  <2> HIDE DEF Places
  <2>5. QED BY <1>1, <2>2, <2>3, <2>4
<1>4. CASE Environment(r)
  BY <1>1, <1>4 DEF Environment, Harmless
<1>5. CASE \/ PreflightRefuses(r) \/ GitFails(r) \/ CheckoutFails(r) \/ RenderRefuses(r)
           \/ ToolFails(r)
  <2>1. \E from \in {"preflight", "init", "remote", "fetch", "checkout", "render", "oe_init",
                     "verify"} :
          /\ Advance(r, from, "idle", run[r])
          /\ from = "remote" => tree[Source(r)].repo # "git" \/ tree[Source(r)].origin # "none"
    BY <1>5 DEF PreflightRefuses, GitFails, CheckoutFails, RenderRefuses, ToolFails
  <2>2. QED BY ZenonT(40), <1>1, <2>1 DEF Harmless
<1>6. CASE PreflightAccepts(r)
  <2>1. PICK has_head \in BOOLEAN :
          has_head <=> tree[Source(r)].repo = "git" /\ HasHead(tree[Source(r)])
    OBVIOUS
  <2> DEFINE l == [run[r] EXCEPT !.has_head = has_head,
                                 !.touched = run[r].touched \ {Source(r)}]
  <2>2. Advance(r, "preflight", "exists", l) /\ Acceptable(tree[Source(r)])
    BY <1>6, <2>1, Zenon DEF PreflightAccepts
  <2>3. l \in RunType /\ l.at = run[r].at /\ l.has_head = has_head
    BY <1>2 DEF RunType
  <2> HIDE DEF l
  <2>4. Source(r) \in Names
    BY SourceIsNamed DEF Inv
  <2>5. has_head \/ tree[Source(r)].head = "unborn"
    BY <2>1, <2>2, <2>4 DEF Acceptable, HasHead, Inv, HurtInv
  <2>6. Harmless(r, "preflight", "exists", l)
    BY <2>3, <2>5 DEF Harmless, Source
  <2>7. QED BY <1>1, <2>2, <2>3, <2>6
<1>7. CASE Exists(r)
  <2>1. \E to \in {"cat_file", "fetch", "idle", "init"} : Advance(r, "exists", to, run[r])
    BY <1>7 DEF Exists, Provision
  <2>2. QED BY <1>1, <2>1 DEF Harmless
<1>8. CASE CheckRelease(r) \/ CheckBranch(r) \/ CatFile(r)
  <2>1. \E from \in {"release", "branch", "cat_file"},
           to \in {"branch", "inspect", "checkout", "idle"} :
          Advance(r, from, to, run[r]) /\ (to = "checkout" => ~run[r].has_head)
    BY <1>8 DEF CheckRelease, CheckBranch, CatFile, Materialize
  <2>2. QED BY ZenonT(40), <1>1, <2>1 DEF Harmless
<1>9. CASE Inspect(r)
  <2>1. PICK at \in {run[r].at, run[r].at + 1} :
          at = IF run[r].at = Len(Sources) THEN run[r].at ELSE run[r].at + 1
    OBVIOUS
  <2>2. at \in DOMAIN Sources
    BY <1>2, <2>1, SetupAssumption DEF SetupAssumption, RunType
  <2>3. [run[r] EXCEPT !.at = at] \in RunType
    BY <1>2, <2>2 DEF RunType
  <2> DEFINE l == [run[r] EXCEPT !.at = at]
  <2>4. PICK to \in {"idle", "environment", "preflight"} : Advance(r, "inspect", to, l)
    BY <1>9, <2>1 DEF Inspect
  <2> HIDE DEF l
  <2>5. Harmless(r, "inspect", to, l)
    BY <2>4 DEF Harmless
  <2>6. "inspect" \in Places /\ to \in Places
    BY <2>4
  <2> HIDE DEF Places
  <2>7. QED BY <1>1, <2>3, <2>4, <2>5, <2>6 DEF l
<1>10. CASE Verify(r)
  BY <1>1, <1>10 DEF Verify, Harmless
<1>11. QED BY <1>3, <1>4, <1>5, <1>6, <1>7, <1>8, <1>9, <1>10

-----------------------------------------------------------------------------
(* Git's steps.                                                            *)

\* What the invariant needs to know of a git command and the worktree it leaves.
Proper(r, from, to, new) ==
    LET t == tree[Source(r)]
    IN  /\ to \in {"remote", "fetch", "cat_file", "release", "inspect", "checkout_end"}
        /\ to \in BeforeCheckout => from \in BeforeCheckout
        /\ to = "checkout_end" =>
             ~run[r].has_head /\ t.repo = "git" /\ t.refs # "none"
        /\ from \in {"init", "remote", "fetch", "checkout", "checkout_end"}
        /\ from = "remote" => new.origin = "locked"
        /\ from = "checkout_end" /\ t.repo = "git" => ~new.partial
        /\ Ready(t) => Ready(new)
        /\ new.repo = "absent" => new = t
        /\ new.repo = t.repo \/ (new.repo = "git" /\ to = "remote")
        /\ new.origin \in {t.origin, "locked"} /\ new.edited = t.edited
        /\ \/ new.head = t.head /\ new.attached = t.attached
           \/ new.head = "locked" /\ ~new.attached /\ from \in {"checkout", "checkout_end"}
        /\ new.origin = "none" => new.refs = t.refs
        /\ new.head # t.head => from = "checkout_end"
        /\ new.partial => t.partial \/ to = "checkout_end"

ProperGit(r) ==
    \E from, to \in Places, new \in Worktrees : Git(r, from, to, new) /\ Proper(r, from, to, new)

\* A proper git step keeps the invariant.
LEMMA ProperGitKeepsInv ==
  ASSUME Inv, NEW r \in Runs, ProperGit(r)
  PROVE  Inv'
<1> PICK from \in Places, to \in Places, new \in Worktrees :
      Git(r, from, to, new) /\ Proper(r, from, to, new)
  BY DEF ProperGit
<1> DEFINE t == tree[Source(r)]
<1>1. UNCHANGED <<conf, history>> /\ tree' = [tree EXCEPT ![Source(r)] = new]
  BY DEF Git
<1>2. /\ pc' \in [Runs -> Places] /\ run' = run
      /\ pc[r] = from /\ pc'[r] = to
      /\ \A q \in Runs \ {r} : pc'[q] = pc[q]
  <2>1. run[r] \in RunType /\ to \notin {"idle", "passed"}
    BY DEF Inv, TypeOK, RunType, Proper
  <2>2. Kept(to, run[r]) = run[r]
    BY <2>1, LocalsKept
  <2>3. QED BY <2>2 DEF Git, Goto, Inv, TypeOK, Places
<1>3. \A q \in Runs : Source(q)' = Source(q) /\ Source(q) \in Names
  BY <1>2, SourceIsNamed DEF Source, Inv
<1>4. /\ tree \in [Names -> Worktrees] /\ tree'[Source(r)] = new
      /\ \A s \in Names \ {Source(r)} : tree'[s] = tree[s]
  BY <1>1, <1>3 DEF Inv, TypeOK
<1>5. TypeOK'
  BY <1>1, <1>2, <1>3 DEF Inv, TypeOK, Places, conf, history
<1>6. ReadyInv'
  <2>1. ASSUME NEW s \in Names, Ready(tree[s])
        PROVE  Ready(tree'[s])
    BY <1>4, <2>1 DEF Proper
  <2>2. pc'[r] \notin AfterEnvironment
    BY <1>2 DEF Proper, AfterEnvironment
  <2>3. QED BY <1>2, <2>1, <2>2 DEF Inv, ReadyInv, AfterEnvironment
<1>7. CheckoutInv'
  <2>1. ASSUME NEW s \in Names
        PROVE  /\ tree[s].head # "other" => tree'[s].head # "other"
               /\ (tree[s].head = "locked" => ~tree[s].attached) =>
                    (tree'[s].head = "locked" => ~tree'[s].attached)
    BY <1>4 DEF Proper
  <2>2. pc'[r] \in BeforeCheckout => pc[r] \in BeforeCheckout
    BY <1>2 DEF Proper
  <2>3. pc'[r] \in {"checkout", "checkout_end"} => ~run[r].has_head
    BY <1>2 DEF Proper
  <2>4. QED BY <1>2, <1>3, <2>1, <2>2, <2>3 DEF Inv, CheckoutInv, BeforeCheckout
<1>8. HurtInv'
  <2>1. ASSUME NEW s \in Names, s # Source(r), Unhurt(s)
        PROVE  Unhurt(s)'
    <3>1. tree'[s] = tree[s] /\ \A q \in Runs : Source(q) = s => q # r
      BY <1>4, <2>1
    <3>2. QED BY <1>2, <1>3, <2>1, <3>1 DEF Unhurt
  <2>2. ASSUME NEW s \in Names, s = Source(r), Unhurt(s)
        PROVE  Unhurt(s)'
    <3> USE <1>2, <1>3, <1>4, <2>2 DEF Unhurt, Proper
    <3>1. /\ new.repo # "plain" /\ new.origin # "other" /\ new.head # "other" /\ ~new.edited
          /\ new.head = "locked" => ~new.attached
      OBVIOUS
    <3>2. new.origin = "none" => new.refs = "none" /\ new.head = "unborn"
      OBVIOUS
    <3>3. new.repo = "git" /\ new.origin = "none" =>
            \E q \in Runs : pc'[q] = "remote" /\ Source(q) = Source(r)
      OBVIOUS
    <3>4. new.partial => \E q \in Runs : pc'[q] = "checkout_end" /\ Source(q) = Source(r)
      OBVIOUS
    <3>5. ASSUME NEW q \in Runs, pc'[q] = "checkout_end", Source(q) = Source(r)
          PROVE  new.repo = "git" /\ new.origin = "locked"
      BY <3>5 DEF Worktrees
    <3>6. QED BY <3>1, <3>2, <3>3, <3>4, <3>5
  <2>3. ASSUME NEW s \in Names
        PROVE  tree'[s].repo = "absent" => tree'[s].head = "unborn"
    BY <1>4 DEF Inv, HurtInv, Proper
  <2>4. QED BY <1>1, <2>1, <2>2, <2>3 DEF Inv, HurtInv, history
<1>9. LinesInv'
  BY <1>1, <1>2 DEF Inv, LinesInv, LinesKept, Proper, conf, history
<1>10. QED BY <1>5, <1>6, <1>7, <1>8, <1>9 DEF Inv

\* Every git command of the run is proper.
LEMMA GitIsProper ==
  ASSUME Inv, NEW r \in Runs,
         \/ GitInit(r) \/ RemoteAdd(r) \/ Fetch(r)
         \/ CheckoutNothing(r) \/ CheckoutBegin(r) \/ CheckoutEnd(r)
  PROVE  ProperGit(r)
<1> DEFINE t == tree[Source(r)]
<1>1. ASSUME NEW from \in Places, NEW to \in Places, NEW new \in Worktrees,
             Git(r, from, to, new), Proper(r, from, to, new)
      PROVE  ProperGit(r)
  BY <1>1 DEF ProperGit
<1>2. t \in Worktrees
  BY SourceIsNamed DEF Inv, TypeOK
<1>3. pc[r] \in {"checkout", "checkout_end"} => ~run[r].has_head
  BY DEF Inv, CheckoutInv
<1> USE DEF Places, BeforeCheckout, Proper, Ready, Dirty, Provision
<1>4. CASE GitInit(r)
  <2> DEFINE new == [t EXCEPT !.repo = "git"]
  <2>2. Git(r, "init", "remote", new)
    BY <1>4 DEF GitInit
  <2>3. new \in Worktrees
    BY <1>2 DEF Worktrees
  <2>4. /\ new.repo = "git" /\ new.origin = t.origin /\ new.head = t.head /\ new.attached = t.attached
        /\ new.partial = t.partial /\ new.edited = t.edited /\ new.index_lock = t.index_lock /\ new.refs = t.refs
    BY <1>2 DEF Worktrees
  <2> HIDE DEF new
  <2>5. Proper(r, "init", "remote", new)
    BY <2>3, <2>4 DEF Worktrees
  <2>6. QED BY <1>1, <2>2, <2>3, <2>5
<1>5. CASE RemoteAdd(r)
  <2> DEFINE new == [t EXCEPT !.origin = "locked"]
  <2>1. t.repo = "git" /\ t.origin = "none"
    BY <1>5 DEF RemoteAdd, Git, Goto
  <2>2. Git(r, "remote", Provision(r), new)
    BY <1>5 DEF RemoteAdd
  <2>3. new \in Worktrees
    BY <1>2 DEF Worktrees
  <2>4. /\ new.repo = t.repo /\ new.origin = "locked" /\ new.head = t.head /\ new.attached = t.attached
        /\ new.partial = t.partial /\ new.edited = t.edited /\ new.index_lock = t.index_lock /\ new.refs = t.refs
    BY <1>2 DEF Worktrees
  <2> HIDE DEF new
  <2>5. Proper(r, "remote", Provision(r), new)
    BY <2>1, <2>3, <2>4 DEF Worktrees
  <2>6. "remote" \in Places /\ Provision(r) \in Places
    OBVIOUS
  <2> HIDE DEF Places, Provision, Proper
  <2>7. QED BY <1>1, <2>2, <2>3, <2>5, <2>6
<1>6. CASE Fetch(r)
  <2>1. PICK refs \in {"valid", "moved_tag", "rewritten_branch"} :
          t.repo = "git" /\ t.origin # "none"
          /\ Git(r, "fetch", "release", [t EXCEPT !.refs = refs])
    BY <1>6 DEF Fetch
  <2> DEFINE new == [t EXCEPT !.refs = refs]
  <2>2. new \in Worktrees
    BY <1>2 DEF Worktrees
  <2>3. /\ new.repo = t.repo /\ new.origin = t.origin /\ new.head = t.head /\ new.attached = t.attached
        /\ new.partial = t.partial /\ new.edited = t.edited
    BY <1>2 DEF Worktrees
  <2>4. Git(r, "fetch", "release", new)
    BY <2>1
  <2> HIDE DEF new
  <2>5. Proper(r, "fetch", "release", new)
    BY <2>1, <2>2, <2>3 DEF Worktrees
  <2>6. QED BY <1>1, <2>2, <2>4, <2>5
<1>7. CASE CheckoutNothing(r)
  <2> DEFINE new == [t EXCEPT !.attached = FALSE]
  <2>1. t.repo = "git" /\ t.head = "locked"
    BY <1>7 DEF CheckoutNothing, Git, Goto
  <2>2. Git(r, "checkout", "inspect", new)
    BY <1>7 DEF CheckoutNothing
  <2>3. new \in Worktrees
    BY <1>2 DEF Worktrees
  <2>4. /\ new.repo = t.repo /\ new.origin = t.origin /\ new.head = t.head /\ new.attached = FALSE
        /\ new.partial = t.partial /\ new.edited = t.edited /\ new.index_lock = t.index_lock /\ new.refs = t.refs
    BY <1>2 DEF Worktrees
  <2> HIDE DEF new
  <2>5. Proper(r, "checkout", "inspect", new)
    BY <2>1, <2>3, <2>4 DEF Worktrees
  <2>6. QED BY <1>1, <2>2, <2>3, <2>5
<1>8. CASE CheckoutBegin(r)
  <2> DEFINE new == [t EXCEPT !.index_lock = TRUE, !.partial = TRUE]
  <2>1. t.repo = "git" /\ t.refs # "none" /\ t.head # "locked" /\ ~run[r].has_head
    BY <1>3, <1>8 DEF CheckoutBegin, Git, Goto, Cached
  <2>2. Git(r, "checkout", "checkout_end", new)
    BY <1>8 DEF CheckoutBegin
  <2>3. new \in Worktrees
    BY <1>2 DEF Worktrees
  <2>4. /\ new.repo = t.repo /\ new.origin = t.origin /\ new.head = t.head /\ new.attached = t.attached
        /\ new.partial = TRUE /\ new.edited = t.edited /\ new.index_lock = TRUE /\ new.refs = t.refs
    BY <1>2 DEF Worktrees
  <2> HIDE DEF new
  <2>5. Proper(r, "checkout", "checkout_end", new)
    BY <2>1, <2>3, <2>4 DEF Worktrees
  <2>6. QED BY <1>1, <2>2, <2>3, <2>5
<1>9. CASE CheckoutEnd(r) /\ t.repo # "git"
  <2>1. Git(r, "checkout_end", "inspect", t)
    BY <1>9 DEF CheckoutEnd
  <2>2. Proper(r, "checkout_end", "inspect", t)
    BY <1>2, <1>9 DEF Worktrees
  <2>3. QED BY <1>1, <1>2, <2>1, <2>2
<1>10. CASE CheckoutEnd(r) /\ t.repo = "git"
  <2> DEFINE new == [t EXCEPT !.head = "locked", !.attached = FALSE,
                             !.partial = FALSE, !.index_lock = FALSE]
  <2>2. Git(r, "checkout_end", "inspect", new)
    BY <1>10 DEF CheckoutEnd
  <2>3. new \in Worktrees
    BY <1>2 DEF Worktrees
  <2>4. /\ new.repo = t.repo /\ new.origin = t.origin /\ new.head = "locked" /\ new.attached = FALSE
        /\ new.partial = FALSE /\ new.edited = t.edited /\ new.index_lock = FALSE /\ new.refs = t.refs
    BY <1>2 DEF Worktrees
  <2> HIDE DEF new
  <2>5. Proper(r, "checkout_end", "inspect", new)
    BY <1>10, <2>3, <2>4 DEF Worktrees
  <2>6. QED BY <1>1, <2>2, <2>3, <2>5
<1>11. QED BY <1>4, <1>5, <1>6, <1>7, <1>8, <1>9, <1>10

-----------------------------------------------------------------------------
(* The build directory.                                                    *)

\* The build directory and its configuration.
LEMMA ConfigureKeepsInv ==
  ASSUME Inv, NEW r \in Runs,
         \/ OeInit(r) \/ Render(r) \/ WriteBblayers(r) \/ TruncateLocal(r) \/ WriteLocal(r)
         \/ WriteFails(r)
  PROVE  Inv'
<1>1. PICK from \in AfterEnvironment, to \in AfterEnvironment \cup {"idle"}, locals \in RunType :
        /\ Goto(r, from, to, locals) /\ to # "passed"
        /\ locals.touched = run[r].touched /\ locals.at = run[r].at
        /\ ~Render(r) => locals = run[r]
        /\ Render(r) /\ local.own # "none" => locals.own # "none"
  <2>1. run[r] \in RunType
    BY DEF Inv, TypeOK, RunType
  <2>2. CASE Render(r)
    <3>1. PICK own \in {"none", "before"} :
            Rendering(r, own) /\ (local.own # "none" => own # "none")
      BY <2>2 DEF Render
    <3> DEFINE l == [run[r] EXCEPT !.own = own]
    <3>2. l \in RunType /\ l.touched = run[r].touched /\ l.at = run[r].at /\ l.own = own
      BY <2>1 DEF RunType
    <3>3. Goto(r, "render", "bblayers", l)
      BY <3>1 DEF Rendering
    <3> HIDE DEF l
    <3>4. QED BY <2>2, <3>1, <3>2, <3>3 DEF AfterEnvironment
  <2>3. CASE ~Render(r)
    BY <2>1, <2>3 DEF OeInit, WriteBblayers, TruncateLocal, WriteLocal, WriteFails, Configure,
                      AfterEnvironment
  <2>4. QED BY <2>2, <2>3
<1>2. UNCHANGED <<tree, hurt>>
  BY DEF OeInit, Render, Rendering, WriteBblayers, TruncateLocal, WriteLocal, WriteFails, Configure
<1>3. /\ pc' \in [Runs -> Places] /\ run' \in [Runs -> RunType]
      /\ pc[r] = from /\ pc'[r] = to
      /\ \A q \in Runs \ {r} : pc'[q] = pc[q] /\ run'[q] = run[q]
      /\ to # "idle" => run'[r] = locals
  BY <1>1, LocalsKept DEF Goto, Inv, TypeOK, Places, RunType, AfterEnvironment
<1>4. TypeOK'
  <2>1. local' \in LocalConfs /\ bblayers' \in BOOLEAN /\ torn' \in BOOLEAN
    <3>1. /\ local \in LocalConfs /\ bblayers \in BOOLEAN /\ torn \in BOOLEAN
          /\ run[r] \in RunType
      BY DEF Inv, TypeOK, RunType
    <3>2. \/ local' = local \/ local' = Empty \/ local' = [local EXCEPT !.block = "broken"]
          \/ \E own \in {"none", "before"}, block \in {"none", "whole", "broken"} :
               local' = [exists |-> TRUE, own |-> own, block |-> block]
      BY <3>1 DEF OeInit, Render, Rendering, WriteBblayers, TruncateLocal, WriteLocal,
                  WriteFails, HalfTexts, Configure, conf, RunType
    <3>3. \A own \in {"none", "before"}, block \in {"none", "whole", "broken"} :
            [exists |-> TRUE, own |-> own, block |-> block] \in LocalConfs
      BY DEF LocalConfs
    <3>4. [local EXCEPT !.block = "broken"] \in LocalConfs
      BY <3>1 DEF LocalConfs
    <3>5. Empty \in LocalConfs
      BY DEF Empty, LocalConfs
    <3>6. local' \in LocalConfs
      BY <3>1, <3>2, <3>3, <3>4, <3>5
    <3>7. HalfWritten \in BOOLEAN
      BY DEF HalfWritten
    <3>8. torn' \in BOOLEAN /\ bblayers' \in BOOLEAN
      BY <3>1, <3>7, Zenon DEF OeInit, Render, Rendering, WriteBblayers, TruncateLocal, WriteLocal,
                        WriteFails, Configure, conf
    <3>9. QED BY <3>6, <3>8
  <2>2. QED BY <1>2, <1>3, <2>1 DEF Inv, TypeOK, Places, RunType
<1>5. ReadyInv'
  <2>1. ASSUME NEW s \in Names, Ready(tree[s])
        PROVE  Ready(tree[s])'
    BY <1>2, <2>1 DEF Ready, Dirty
  <2>2. QED BY <1>1, <1>3, <2>1 DEF Inv, ReadyInv, AfterEnvironment
<1>6. CheckoutInv'
  BY <1>1, <1>2, <1>3 DEF Inv, CheckoutInv, AfterEnvironment, Source
<1>7. HurtInv'
  <2>1. ASSUME NEW s \in Names, Unhurt(s)
        PROVE  Unhurt(s)'
    BY <1>1, <1>2, <1>3, <2>1 DEF Unhurt, AfterEnvironment, Source
  <2>2. QED BY <1>2, <2>1 DEF Inv, HurtInv
<1>8. LinesInv'
  <2> USE DEF LinesInv, LinesKept, Configure, conf
  <2>1. CASE OeInit(r)
    BY <1>3, <2>1 DEF OeInit, Inv, Goto
  <2>2. CASE Render(r)
    <3>1. torn' = (torn \/ HalfWritten) /\ UNCHANGED local /\ local.exists
          /\ pc[r] = "render" /\ pc'[r] = "bblayers"
      BY <1>3, <2>2 DEF Render, Rendering, Goto, Inv, TypeOK
    <3>2. torn' \/ run'[r].own # "none"
      BY <1>1, <1>3, <2>2, <3>1 DEF Inv, HalfWritten
    <3>3. torn => torn'
      BY <3>1
    <3>4. QED BY <1>3, <3>1, <3>2, <3>3 DEF Inv
  <2>3. CASE WriteBblayers(r)
    <3>1. UNCHANGED <<local, torn>> /\ pc[r] = "bblayers" /\ pc'[r] = "truncate" /\ run'[r] = run[r]
      BY <1>1, <1>3, <2>3 DEF WriteBblayers, Render, Rendering, Goto, Inv, TypeOK
    <3>2. QED BY <1>3, <3>1 DEF Inv
  <2>4. CASE TruncateLocal(r)
    <3>1. UNCHANGED torn /\ pc[r] = "truncate" /\ pc'[r] = "write_local" /\ run'[r] = run[r]
      BY <1>1, <1>3, <2>4 DEF TruncateLocal, Render, Rendering, Goto, Inv, TypeOK
    <3>2. QED BY <1>3, <3>1 DEF Inv
  <2>5. CASE WriteLocal(r)
    BY <1>3, <2>5 DEF WriteLocal, Inv, Goto
  <2>6. CASE WriteFails(r)
    BY <1>3, <2>6 DEF WriteFails, Inv, Goto
  <2>7. QED BY <2>1, <2>2, <2>3, <2>4, <2>5, <2>6
<1>9. QED BY <1>4, <1>5, <1>6, <1>7, <1>8 DEF Inv

-----------------------------------------------------------------------------
(* Starts, kills, and the user.                                            *)

\* An invocation begins.
LEMMA StartKeepsInv ==
  ASSUME Inv, NEW r \in Runs, NEW mode \in Modes, Start(r, mode)
  PROVE  Inv'
<1> DEFINE l == [FreshRun EXCEPT !.mode = mode]
<1>1. l \in RunType
  BY FreshRunTyped DEF RunType
<1>2. PICK to \in {"status", "preflight"} :
        /\ pc' = [pc EXCEPT ![r] = to] /\ run' = [run EXCEPT ![r] = l]
        /\ pc[r] \in {"idle", "passed"}
        /\ UNCHANGED <<tree, conf, history>>
  BY DEF Start, Active
<1> HIDE DEF l
<1>3. /\ pc' \in [Runs -> Places] /\ run' \in [Runs -> RunType]
      /\ pc'[r] = to
      /\ \A q \in Runs \ {r} : pc'[q] = pc[q] /\ run'[q] = run[q]
  BY <1>1, <1>2 DEF Inv, TypeOK, Places, RunType
<1>4. TypeOK'
  BY <1>2, <1>3 DEF Inv, TypeOK, Places, RunType, conf, history
<1>5. ReadyInv'
  <2>1. ASSUME NEW s \in Names, Ready(tree[s])
        PROVE  Ready(tree[s])'
    BY <1>2, <2>1 DEF Ready, Dirty
  <2>2. QED BY <1>2, <1>3, <2>1 DEF Inv, ReadyInv
<1>6. CheckoutInv'
  BY <1>2, <1>3 DEF Inv, CheckoutInv, Source
<1>7. HurtInv'
  <2>1. ASSUME NEW s \in Names, Unhurt(s)
        PROVE  Unhurt(s)'
    BY <1>2, <1>3, <2>1 DEF Unhurt, Source
  <2>2. QED BY <1>2, <2>1 DEF Inv, HurtInv, history
<1>8. LinesInv'
  BY <1>2, <1>3 DEF Inv, LinesInv, LinesKept, conf, history
<1>9. QED BY <1>4, <1>5, <1>6, <1>7, <1>8 DEF Inv

\* A killed command leaves what it found, or part of what it does, and never
\* undoes a source that is ready.
LEMMA HalfDoneTyped ==
  ASSUME Inv, NEW r \in Runs, NEW t \in HalfDone(r)
  PROVE  LET old == tree[Source(r)]
         IN  /\ t \in Worktrees
             /\ Ready(old) => Ready(t)
             /\ t.head = old.head /\ t.attached = old.attached /\ t.edited = old.edited
             /\ t.repo = "absent" => old.repo = "absent"
             /\ pc[r] \notin {"init", "remote", "checkout_end"} => t = old
<1> DEFINE old == tree[Source(r)]
<1>1. old \in Worktrees
  BY SourceIsNamed DEF Inv, TypeOK
<1>2. \/ t = old
      \/ /\ pc[r] = "init"
         /\ \/ t = [old EXCEPT !.repo = "plain"] /\ old.repo = "absent"
            \/ t = [old EXCEPT !.repo = "git"]
      \/ pc[r] = "remote" /\ old.repo = "git" /\ old.origin = "none" /\ t = [old EXCEPT !.origin = "locked"]
      \/ pc[r] = "checkout_end" /\ t = [old EXCEPT !.index_lock = FALSE]
  <2>1. CASE pc[r] = "init"
    BY <1>1, <2>1 DEF HalfDone, Worktrees
  <2>2. CASE pc[r] = "remote"
    BY <1>1, <2>2 DEF HalfDone, Worktrees
  <2>3. CASE pc[r] = "checkout_end"
    BY <2>3 DEF HalfDone
  <2>4. CASE pc[r] \notin {"init", "remote", "checkout_end"}
    BY <2>4 DEF HalfDone
  <2>5. QED BY <2>1, <2>2, <2>3, <2>4
<1> HIDE DEF old
<1>3. /\ t \in Worktrees /\ (Ready(old) => Ready(t))
      /\ t.head = old.head /\ t.attached = old.attached /\ t.edited = old.edited
      /\ t.repo = "absent" => old.repo = "absent"
      /\ pc[r] \notin {"init", "remote", "checkout_end"} => t = old
  <2> USE <1>1 DEF Worktrees, Ready, Dirty
  <2>1. CASE t = [old EXCEPT !.repo = "plain"] /\ old.repo = "absent" /\ pc[r] = "init"
    <3>1. t \in Worktrees
      BY <2>1
    <3>2. /\ t.origin = old.origin /\ t.head = old.head /\ t.attached = old.attached /\ t.partial = old.partial
          /\ t.edited = old.edited /\ t.refs = old.refs /\ t.repo = "plain"
      BY <2>1
    <3>3. QED BY <2>1, <3>1, <3>2
  <2>2. CASE t = [old EXCEPT !.repo = "git"] /\ pc[r] = "init"
    <3>1. t \in Worktrees
      BY <2>2
    <3>2. /\ t.origin = old.origin /\ t.head = old.head /\ t.attached = old.attached /\ t.partial = old.partial
          /\ t.edited = old.edited /\ t.refs = old.refs /\ t.repo = "git"
      BY <2>2
    <3>3. QED BY <2>2, <3>1, <3>2
  <2>3. CASE t = [old EXCEPT !.origin = "locked"] /\ old.repo = "git" /\ old.origin = "none" /\ pc[r] = "remote"
    <3>1. t \in Worktrees
      BY <2>3
    <3>2. /\ t.repo = old.repo /\ t.head = old.head /\ t.attached = old.attached /\ t.partial = old.partial
          /\ t.edited = old.edited /\ t.refs = old.refs /\ t.origin = "locked"
      BY <2>3
    <3>3. QED BY <2>3, <3>1, <3>2
  <2>4. CASE t = [old EXCEPT !.index_lock = FALSE] /\ pc[r] = "checkout_end"
    <3>1. t \in Worktrees
      BY <2>4
    <3>2. /\ t.repo = old.repo /\ t.origin = old.origin /\ t.head = old.head /\ t.attached = old.attached
          /\ t.partial = old.partial /\ t.edited = old.edited /\ t.refs = old.refs
      BY <2>4
    <3>3. QED BY <2>4, <3>1, <3>2
  <2>5. QED BY <1>2, <2>1, <2>2, <2>3, <2>4
<1>4. QED BY <1>3 DEF old

\* An invocation is killed, and may leave a git command half done.
LEMMA KillKeepsInv ==
  ASSUME Inv, NEW r \in Runs, Kill(r)
  PROVE  Inv'
<1> DEFINE old == tree[Source(r)]
<1>1. PICK t \in HalfDone(r) : tree' = [tree EXCEPT ![Source(r)] = t]
  BY DEF Kill
<1>2. /\ t \in Worktrees
      /\ Ready(old) => Ready(t)
      /\ t.head = old.head /\ t.attached = old.attached /\ t.edited = old.edited
      /\ t.repo = "absent" => old.repo = "absent"
      /\ pc[r] \notin {"init", "remote", "checkout_end"} => t = old
  BY HalfDoneTyped
<1>3. /\ tree \in [Names -> Worktrees] /\ tree'[Source(r)] = t
      /\ \A s \in Names \ {Source(r)} : tree'[s] = tree[s]
      /\ Source(r) \in Names
  BY <1>1, SourceIsNamed DEF Inv, TypeOK
<1>4. /\ pc' \in [Runs -> Places] /\ run' \in [Runs -> RunType]
      /\ pc[r] \notin {"idle", "passed"} /\ pc'[r] = "idle"
      /\ \A q \in Runs \ {r} : pc'[q] = pc[q] /\ run'[q] = run[q] /\ Source(q)' = Source(q)
  BY FreshRunTyped DEF Kill, Active, Inv, TypeOK, Places, RunType, Source
<1>5. hurt' = IF pc[r] \in {"init", "remote", "checkout_end"}
              THEN hurt \cup {Source(r)} ELSE hurt
  BY DEF Kill
<1>6. /\ pc[r] # "write_local" => UNCHANGED <<local, torn>>
      /\ pc[r] = "write_local" => torn' = TRUE
  BY DEF Kill
<1>7. TypeOK'
  <2>1. local' \in LocalConfs /\ bblayers' \in BOOLEAN /\ torn' \in BOOLEAN
    <3>1. /\ local \in LocalConfs /\ bblayers \in BOOLEAN /\ torn \in BOOLEAN
          /\ run[r] \in RunType
      BY DEF Inv, TypeOK, RunType
    <3>2. HalfTexts(r) \subseteq LocalConfs
      BY <3>1 DEF HalfTexts, Empty, LocalConfs, RunType
    <3>3. QED BY <3>1, <3>2 DEF Kill
  <2>2. tree' \in [Names -> Worktrees]
    BY <1>1, <1>2, <1>3
  <2>3. QED BY <1>3, <1>4, <1>5, <2>1, <2>2 DEF Inv, TypeOK, Places, RunType
<1>8. ReadyInv'
  <2>1. ASSUME NEW s \in Names, Ready(tree[s])
        PROVE  Ready(tree'[s])
    BY <1>2, <1>3, <2>1
  <2>2. QED BY <1>4, <2>1 DEF Inv, ReadyInv
<1>9. CheckoutInv'
  <2>1. \A s \in Names : tree'[s].head = tree[s].head /\ tree'[s].attached = tree[s].attached
    BY <1>2, <1>3
  <2>2. \A q \in Runs : Source(q) \in Names
    BY SourceIsNamed DEF Inv
  <2>3. QED BY <1>4, <2>1, <2>2 DEF Inv, CheckoutInv
<1>10. HurtInv'
  <2>1. ASSUME NEW s \in Names
        PROVE  tree'[s].repo = "absent" => tree'[s].head = "unborn"
    BY <1>2, <1>3 DEF Inv, HurtInv
  <2>2. ASSUME NEW s \in Names, s \notin hurt', Unhurt(s)
        PROVE  Unhurt(s)'
    <3>1. tree'[s] = tree[s]
      BY <1>2, <1>3, <1>5, <2>2
    <3>2. s = Source(r) => pc[r] \notin {"remote", "checkout_end"}
      BY <1>5, <2>2
    <3>3. QED BY <1>4, <2>2, <3>1, <3>2 DEF Unhurt
  <2>3. QED BY <1>5, <2>1, <2>2 DEF Inv, HurtInv
<1>11. LinesInv'
  BY <1>4, <1>6 DEF Inv, LinesInv, LinesKept
<1>12. QED BY <1>7, <1>8, <1>9, <1>10, <1>11 DEF Inv

\* Whatever the user does, the runs that may be concerned are told.
LEMMA UserKeepsInv ==
  ASSUME Inv, NEW s \in Names, UserChanges(s) \/ MoveAside(s)
  PROVE  Inv'
<1>1. PICK t \in Worktrees :
        /\ tree' = [tree EXCEPT ![s] = t]
        /\ \/ /\ t = Absent /\ hurt' = hurt \ {s}
              /\ \A r \in Runs : ~(pc[r] = "checkout_end" /\ Source(r) = s)
           \/ t.repo # "absent" /\ hurt' = hurt \cup {s}
  <2>1. tree[s] \in Worktrees
    BY DEF Inv, TypeOK
  <2>2. CASE MoveAside(s)
    BY <2>2, AbsentTyped DEF MoveAside
  <2>3. CASE UserChanges(s)
    <3>1. PICK t \in UserEdit(tree[s]) \cup UserCommit(tree[s]) : tree' = [tree EXCEPT ![s] = t]
      BY <2>3 DEF UserChanges
    <3>2. t \in Worktrees /\ t.repo # "absent"
      BY ZenonT(40), <2>1, <3>1 DEF UserEdit, UserCommit, Worktrees
    <3>3. QED BY <2>3, <3>1, <3>2 DEF UserChanges
  <2>4. QED BY <2>2, <2>3
<1>2. /\ tree \in [Names -> Worktrees] /\ tree'[s] = t
      /\ \A z \in Names \ {s} : tree'[z] = tree[z]
  BY <1>1 DEF Inv, TypeOK
<1>3. UNCHANGED <<conf, pc, torn>>
  BY DEF UserChanges, MoveAside, Touch
<1>4. ASSUME NEW r \in Runs
      PROVE  /\ run'[r] \in RunType /\ run'[r].at = run[r].at
             /\ run'[r].has_head = run[r].has_head /\ run'[r].own = run[r].own
             /\ run'[r].touched = IF pc[r] = "idle" THEN run[r].touched
                                  ELSE run[r].touched \cup {s}
  <2>1. run[r] \in RunType
    BY DEF Inv, TypeOK, RunType
  <2>2. run'[r] = IF pc[r] = "idle" THEN run[r]
                  ELSE [run[r] EXCEPT !.touched = run[r].touched \cup {s}]
    BY DEF UserChanges, MoveAside, Touch
  <2>3. CASE pc[r] = "idle"
    BY <2>1, <2>2, <2>3
  <2>4. CASE pc[r] # "idle"
    BY <2>1, <2>2, <2>4 DEF RunType
  <2>5. QED BY <2>3, <2>4
<1>5. TypeOK'
  <2>1. run' \in [Runs -> RunType]
    <3>1. DOMAIN run' = Runs /\ run' = [r \in Runs |-> run'[r]]
      BY DEF UserChanges, MoveAside, Touch
    <3>2. QED BY <1>4, <3>1
  <2>2. tree' \in [Names -> Worktrees] /\ hurt' \subseteq Names
    BY <1>1, <1>2 DEF Inv, TypeOK
  <2>3. QED BY <1>3, <2>1, <2>2 DEF Inv, TypeOK, RunType, conf
<1>6. ReadyInv'
  <2>1. ASSUME NEW z \in Names, z # s, Ready(tree[z])
        PROVE  Ready(tree'[z])
    BY <1>2, <2>1
  <2>2. QED BY <1>3, <1>4, <2>1 DEF Inv, ReadyInv
<1>7. CheckoutInv'
  <2>1. \A r \in Runs : Source(r)' = Source(r) /\ Source(r) \in Names
    BY <1>4, SourceIsNamed DEF Source, Inv
  <2>2. ASSUME NEW r \in Runs, pc[r] # "idle", Source(r) \notin run'[r].touched
        PROVE  tree'[Source(r)] = tree[Source(r)] /\ Source(r) \notin run[r].touched
    BY <1>2, <1>4, <2>1, <2>2
  <2>3. ASSUME NEW r \in Runs
        PROVE  /\ pc'[r] = pc[r] /\ run'[r].has_head = run[r].has_head
               /\ pc'[r] # "idle" /\ Source(r) \notin run'[r].touched =>
                    tree'[Source(r)] = tree[Source(r)] /\ Source(r) \notin run[r].touched
    BY <1>3, <1>4, <2>2
  <2>4. QED BY <2>1, <2>3 DEF Inv, CheckoutInv
<1>8. HurtInv'
  <2>1. ASSUME NEW z \in Names
        PROVE  tree'[z].repo = "absent" => tree'[z].head = "unborn"
    BY <1>1, <1>2 DEF Inv, HurtInv, Absent
  <2>2. ASSUME NEW z \in Names, z # s, Unhurt(z)
        PROVE  Unhurt(z)'
    BY ZenonT(40), <1>2, <1>3, <1>4, <2>2 DEF Unhurt, Source
  <2>3. ASSUME NEW z \in Names, z = s, s \notin hurt'
        PROVE  Unhurt(z)'
    <3>1. t = Absent /\ \A r \in Runs : ~(pc'[r] = "checkout_end" /\ Source(r)' = s)
      BY <1>1, <1>3, <1>4, <2>3 DEF Source
    <3>2. /\ t.repo = "absent" /\ t.origin = "none" /\ t.head = "unborn" /\ t.refs = "none"
          /\ ~t.edited /\ ~t.partial
      BY <3>1 DEF Absent
    <3>3. QED BY <1>2, <2>3, <3>1, <3>2 DEF Unhurt
  <2>4. QED BY <1>1, <2>1, <2>2, <2>3 DEF Inv, HurtInv
<1>9. LinesInv'
  BY <1>3, <1>4 DEF Inv, LinesInv, LinesKept, conf
<1>10. QED BY <1>5, <1>6, <1>7, <1>8, <1>9 DEF Inv

-----------------------------------------------------------------------------
(* Together.                                                               *)

\* Nothing is running.
LEMMA InitInv == Init => Inv
<1> SUFFICES ASSUME Init PROVE Inv
  OBVIOUS
<1>1. TypeOK
  <2>1. tree \in [Names -> Worktrees]
    BY SetupAssumption DEF Init, SetupAssumption
  <2>2. local \in LocalConfs
    <3>1. /\ [exists |-> FALSE, own |-> "none", block |-> "none"] \in LocalConfs
          /\ [exists |-> TRUE, own |-> "after", block |-> "whole"] \in LocalConfs
          /\ [exists |-> TRUE, own |-> "before", block |-> "broken"] \in LocalConfs
      BY DEF LocalConfs
    <3>2. QED BY <3>1 DEF Init
  <2>3. QED BY <2>1, <2>2, FreshRunTyped DEF Init, TypeOK, RunType
<1>2. ReadyInv /\ CheckoutInv /\ LinesInv
  BY DEF Init, ReadyInv, CheckoutInv, LinesInv, LinesKept
<1>3. ASSUME NEW s \in Names
      PROVE  /\ tree[s].repo = "absent" => tree[s] = Absent
             /\ s \notin hurt => Acceptable(tree[s])
             /\ tree[s] \in Worktrees
  BY SetupAssumption DEF Init, SetupAssumption
<1>4. HurtInv
  BY <1>3 DEF Init, HurtInv, Unhurt, Acceptable, Dirty, HasHead, Absent, Worktrees
<1>5. QED BY <1>1, <1>2, <1>4 DEF Inv

\* A step of nobody.
LEMMA StutterKeepsInv ==
  ASSUME Inv, UNCHANGED vars
  PROVE  Inv'
<1>1. UNCHANGED <<tree, bblayers, local, pc, run, hurt, torn>>
  BY DEF vars, conf, history
<1>2. ASSUME NEW s \in Names
      PROVE  (Ready(tree[s]) => Ready(tree[s])') /\ (Unhurt(s) => Unhurt(s)')
  BY <1>1 DEF Ready, Dirty, Unhurt, Source
<1>3. TypeOK' /\ CheckoutInv' /\ LinesInv'
  BY <1>1 DEF Inv, TypeOK, CheckoutInv, LinesInv, LinesKept, Source
<1>4. ReadyInv' /\ HurtInv'
  BY <1>1, <1>2 DEF Inv, ReadyInv, HurtInv
<1>5. QED BY <1>3, <1>4 DEF Inv

\* The invariant holds.
LEMMA InductiveInv == Spec => []Inv
<1>1. ASSUME Inv, Next
      PROVE  Inv'
  <2>1. CASE \E r \in Runs : \E mode \in Modes : Start(r, mode)
    BY <1>1, <2>1, StartKeepsInv
  <2>2. CASE \E r \in Runs : Check(r) \/ SyncSource(r) \/ ConfigureBuild(r)
    BY <1>1, <2>2, ChecksAreQuiet, QuietlyKeepsInv, GitIsProper, ProperGitKeepsInv,
       ConfigureKeepsInv DEF SyncSource, ConfigureBuild
  <2>3. CASE \E r \in Runs : Kill(r)
    BY <1>1, <2>3, KillKeepsInv
  <2>4. CASE UserStep
    BY <1>1, <2>4, UserKeepsInv DEF UserStep
  <2>5. QED BY <1>1, <2>1, <2>2, <2>3, <2>4 DEF Next
<1>2. QED BY InitInv, <1>1, StutterKeepsInv, PTL DEF Spec

\* A step that changes a worktree is the user's, a git command's, or a kill.
LEMMA TreeSteps ==
  ASSUME Inv, Next
  PROVE  UserStep \/ UNCHANGED tree \/ \E r \in Runs : ProperGit(r) \/ Kill(r)
<1>1. ASSUME NEW r \in Runs, Quietly(r)
      PROVE  UNCHANGED tree
  BY <1>1 DEF Quietly, Advance
<1>2. ASSUME NEW r \in Runs,
             \/ OeInit(r) \/ Render(r) \/ WriteBblayers(r) \/ TruncateLocal(r) \/ WriteLocal(r)
             \/ WriteFails(r)
      PROVE  UNCHANGED tree
  BY <1>2 DEF OeInit, Render, Rendering, WriteBblayers, TruncateLocal, WriteLocal, WriteFails,
              Configure
<1>3. ASSUME NEW r \in Runs, NEW mode \in Modes, Start(r, mode)
      PROVE  UNCHANGED tree
  BY <1>3 DEF Start
<1>4. QED BY <1>1, <1>2, <1>3, ChecksAreQuiet, GitIsProper DEF Next, SyncSource, ConfigureBuild

-----------------------------------------------------------------------------
(* The theorems.                                                           *)

\* The worktrees, the build directory and the locals of every invocation keep
\* their types; no invocation leaves the list of sources.
THEOREM TypeCorrect == Spec => []TypeOK
BY InductiveInv, PTL DEF Inv

\* When setup passes, every source the user has not touched is the locked one,
\* however many invocations there are, and wherever others have died.
THEOREM PassedIsReady == Spec => []SuccessMeansReady
<1>1. Inv => SuccessMeansReady
  BY DEF Inv, ReadyInv, SuccessMeansReady, Ready, Dirty
<1>2. QED BY InductiveInv, <1>1, PTL

\* Only the user, or a kill inside one of three steps of git, makes later setups
\* refuse a worktree.
THEOREM RefusedIsHurt == Spec => []RefusedOnlyWhenHurt
<1>1. Inv => RefusedOnlyWhenHurt
  <2> SUFFICES ASSUME Inv, NEW s \in Names, s \notin hurt,
                      \A r \in Runs : ~(Source(r) = s /\ pc[r] \in {"remote", "checkout_end"})
               PROVE  Acceptable(tree[s])
    BY DEF RefusedOnlyWhenHurt
  <2>1. Unhurt(s) /\ tree[s] \in Worktrees
    BY DEF Inv, HurtInv, TypeOK
  <2>2. QED BY <2>1 DEF Unhurt, Acceptable, Worktrees, Dirty, HasHead
<1>2. QED BY InductiveInv, <1>1, PTL

\* Configurations never lose the user's lines of local.conf, unless one stops
\* while it writes the file or reads what another has not written yet.
THEOREM LinesSurvive == Spec => []LinesKept
<1>1. Inv => LinesKept
  BY DEF Inv, LinesInv
<1>2. QED BY InductiveInv, <1>1, PTL

\* No step of a run takes a ready worktree from its locked commit.
THEOREM ReadyStays == Spec => ReadyIsStable
<1>1. ASSUME Inv, [Next]_vars, NEW s \in Names, Ready(tree[s])
      PROVE  UserStep \/ Ready(tree'[s])
  <2>1. CASE UNCHANGED tree
    BY <1>1, <2>1
  <2>2. ASSUME NEW r \in Runs, ProperGit(r)
        PROVE  Ready(tree'[s])
    <3>1. PICK from \in Places, to \in Places, new \in Worktrees :
            Git(r, from, to, new) /\ Proper(r, from, to, new)
      BY <2>2 DEF ProperGit
    <3>2. tree' = [tree EXCEPT ![Source(r)] = new] /\ tree \in [Names -> Worktrees]
      BY <1>1, <3>1 DEF Git, Inv, TypeOK
    <3>3. QED BY <1>1, <3>1, <3>2 DEF Proper
  <2>3. ASSUME NEW r \in Runs, Kill(r)
        PROVE  Ready(tree'[s])
    <3>1. PICK t \in HalfDone(r) : tree' = [tree EXCEPT ![Source(r)] = t]
      BY <2>3 DEF Kill
    <3>2. Ready(tree[Source(r)]) => Ready(t)
      BY <1>1, HalfDoneTyped
    <3>3. QED BY <1>1, <3>1, <3>2 DEF Inv, TypeOK
  <2>4. QED BY <1>1, <2>1, <2>2, <2>3, TreeSteps DEF vars
<1>2. Inv /\ [Next]_vars =>
        \A s \in Names : Ready(tree[s]) => UserStep \/ Ready(tree'[s])
  BY <1>1
<1>3. QED BY InductiveInv, <1>2, PTL DEF Spec, ReadyIsStable

\* Setup never moves a HEAD of the user's, detaches his branch, or removes his
\* changes, except for what he does between a preflight and its checkout.
THEOREM WorkIsKept == Spec => UserWorkKept
<1> DEFINE Respects(s) ==
      LET t == tree[s]
      IN  /\ t.head = "other" => tree'[s].head = "other"
          /\ t.head # "unborn" => tree'[s].attached = t.attached
          /\ t.edited => tree'[s].edited
           Excused(s) ==
      \E r \in Runs : s \in run[r].touched /\ pc[r] \in {"checkout", "checkout_end"}
<1>1. ASSUME Inv, [Next]_vars, NEW s \in Names
      PROVE  UserStep \/ Excused(s) \/ Respects(s)
  <2>1. CASE UNCHANGED tree
    BY <2>1
  <2>2. ASSUME NEW r \in Runs, ProperGit(r)
        PROVE  Excused(s) \/ Respects(s)
    <3>1. PICK from \in Places, to \in Places, new \in Worktrees :
            Git(r, from, to, new) /\ Proper(r, from, to, new)
      BY <2>2 DEF ProperGit
    <3>2. /\ tree' = [tree EXCEPT ![Source(r)] = new] /\ tree \in [Names -> Worktrees]
          /\ pc[r] = from
      BY <1>1, <3>1 DEF Git, Goto, Inv, TypeOK
    <3>3. CASE s # Source(r)
      BY <3>2, <3>3
    <3>4. CASE s = Source(r)
      BY <1>1, <3>1, <3>2, <3>4 DEF Proper, Inv, CheckoutInv, Worktrees
    <3>5. QED BY <3>3, <3>4
  <2>3. ASSUME NEW r \in Runs, Kill(r)
        PROVE  Respects(s)
    <3>1. PICK t \in HalfDone(r) : tree' = [tree EXCEPT ![Source(r)] = t]
      BY <2>3 DEF Kill
    <3>2. LET old == tree[Source(r)]
          IN  t.head = old.head /\ t.attached = old.attached /\ t.edited = old.edited
      BY <1>1, HalfDoneTyped
    <3>3. QED BY <1>1, <3>1, <3>2 DEF Inv, TypeOK
  <2>4. QED BY <1>1, <2>1, <2>2, <2>3, TreeSteps DEF vars
<1>2. Inv /\ [Next]_vars =>
        \A s \in Names :
          LET t == tree[s]
          IN  \/ UserStep
              \/ \E r \in Runs : s \in run[r].touched /\ pc[r] \in {"checkout", "checkout_end"}
              \/ /\ t.head = "other" => tree'[s].head = "other"
                 /\ t.head # "unborn" => tree'[s].attached = t.attached
                 /\ t.edited => tree'[s].edited
  BY <1>1
<1>3. QED BY InductiveInv, <1>2, PTL DEF Spec, UserWorkKept
=============================================================================
