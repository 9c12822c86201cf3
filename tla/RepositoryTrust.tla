-------------------------- MODULE RepositoryTrust --------------------------
(* scripts/repository_trust.py: validate and evaluate.  The program reads    *)
(* the policy and SECURITY.md, then the observation of the repository's      *)
(* settings if there is one, and prints a verdict on thirty checks.  The     *)
(* owner may replace, remove or rewrite the observation between any two      *)
(* system calls on it; the policy and SECURITY.md stay as they are during a  *)
(* run.  A fact about the repository is unseen, as the policy wants it,      *)
(* different, or malformed; only the required status checks are kept as they *)
(* are.  A text is a sequence of lines, a line a sequence of tokens.         *)
EXTENDS Naturals, Sequences, SequencesExt

CONSTANTS
    Observations,  \* the files that may be at the observation's path
    Refreshed,     \* those the owner may put there during a run, a half-written one too
    Texts,         \* the texts SECURITY.md may hold
    MaxRefreshes   \* bound on the owner's steps

Absent == [kind |-> "absent", setting |-> [f \in {} |-> "unseen"], checks |-> {}]

(* An observation names the required checks once, or not at all.             *)
ASSUME RepositoryTrustAssumption ==
    /\ MaxRefreshes \in Nat /\ Refreshed \subseteq Observations
    /\ \A o \in Observations :
          /\ o.kind = "absent" => o = Absent
          /\ \A f \in DOMAIN o.setting : o.setting[f] \in {"unseen", "expected", "different", "malformed"}
          /\ \A c, d \in o.checks : c = d

VARIABLES
    owned,      \* the policy, SECURITY.md and the observation's path: the files it led to
    refreshes,  \* the owner's steps so far
    trust       \* the program

trustVars == <<owned, refreshes, trust>>

-----------------------------------------------------------------------------
(* visible_markdown_lines: the text outside HTML comments, line by line.  A  *)
(* nested open, a close without an open and an unclosed comment are refused. *)
Comment(state, t) ==
    CASE t = "eol"   -> [state EXCEPT !.lines = Append(@, state.line), !.line = <<>>]
      [] t = "open"  -> [state EXCEPT !.refused = @ \/ state.inside, !.inside = TRUE]
      [] t = "close" -> [state EXCEPT !.refused = @ \/ ~state.inside, !.inside = FALSE]
      [] OTHER       -> [state EXCEPT !.line = IF state.inside THEN @ ELSE Append(@, t)]

VisibleMarkdown(text) ==
    LET tokens == FlattenSeq([i \in DOMAIN text |-> Append(text[i], "eol")])
        last == FoldLeft(Comment, [inside |-> FALSE, refused |-> FALSE, line |-> <<>>, lines |-> <<>>], tokens)
    IN  [refused |-> last.refused \/ last.inside, lines |-> last.lines]

(* validate_local_contract *)
NamesContact(text) ==
    LET visible == VisibleMarkdown(text)
    IN  ~visible.refused /\ Len(SelectSeq(visible.lines, LAMBDA l : l = <<"contact">>)) = 1

-----------------------------------------------------------------------------
(* EXPECTED_CHECKS: the source of each required context. *)
EXPECTED_CHECKS ==
    [c \in {"diagnostics-schema", "licensing", "repository", "static"} |-> "github-actions"]

(* check_statuses: the facts each check asks about. *)
ChecksOf ==
    {{f} : f \in
        {"visibility", "default_branch", "merge_methods", "delete_branch_on_merge",
         "enabled", "allowed_actions", "sha_pinning_required", "default_workflow_permissions",
         "can_approve_pull_request_reviews", "enforcement", "name", "target", "bypass_actor_count",
         "deletion", "non_fast_forward", "linear_history", "do_not_enforce_on_create",
         "allowed_merge_methods", "strict_required_status_checks_policy", "dependabot_alerts",
         "dependabot_security_updates", "secret_scanning", "secret_scanning_push_protection",
         "private_vulnerability_reporting", "contact"}}
    \cup {{"github_owned_allowed", "verified_allowed", "patterns_allowed"},
          {"pull_request_required", "required_approving_review_count"}}

(* empty_facts names every fact there is. *)
Facts ==
    {"visibility", "default_branch", "merge_methods", "delete_branch_on_merge"}
    \cup {"enabled", "allowed_actions", "sha_pinning_required", "default_workflow_permissions",
          "can_approve_pull_request_reviews", "github_owned_allowed", "verified_allowed", "patterns_allowed"}
    \cup {"name", "enforcement", "target", "bypass_actor_count", "deletion", "non_fast_forward",
          "linear_history", "do_not_enforce_on_create", "pull_request_required",
          "required_approving_review_count", "allowed_merge_methods", "strict_required_status_checks_policy"}
    \cup {"dependabot_alerts", "dependabot_security_updates", "secret_scanning",
          "secret_scanning_push_protection", "private_vulnerability_reporting", "contact"}

EmptyFacts == [setting |-> [f \in Facts |-> "unseen"], checks |-> {}]

(* A mutant: a combination with an unseen component passes on the others. *)
MutCombinedStatus(values) ==
    IF "different" \in values THEN "fail"
    ELSE IF "expected" \notin values THEN "unavailable"
    ELSE "pass"

(* scalar_status and combined_status: a conflict outranks what is unseen. *)
CombinedStatus(values) ==
    IF "different" \in values THEN "fail"
    ELSE IF "unseen" \in values THEN "unavailable"
    ELSE "pass"

(* The three checks on required_status_checks. *)
RequiredChecks(checks) ==
    IF checks = {} THEN {"unavailable"}
    ELSE LET c == CHOOSE x \in checks : TRUE
             Status(holds) == IF holds THEN "pass" ELSE "fail"
         IN  {Status(c = EXPECTED_CHECKS),
              Status(\A context \in DOMAIN c : c[context] = "github-actions"),
              Status("yocto-metadata" \notin DOMAIN c)}

CheckStatuses(facts) ==
    {CombinedStatus({facts.setting[f] : f \in group}) : group \in ChecksOf} \cup RequiredChecks(facts.checks)

TrustAggregate(statuses) ==
    IF "fail" \in statuses THEN "fail" ELSE IF "unavailable" \in statuses THEN "unavailable" ELSE "pass"

(* validate_observation: every given value has its type. *)
ValidObservation(o) == o.kind = "observation" /\ \A f \in DOMAIN o.setting : o.setting[f] # "malformed"

FactsFromObservation(o) ==
    [setting |-> [f \in Facts |-> IF f \in DOMAIN o.setting THEN o.setting[f] ELSE "unseen"],
     checks |-> o.checks]

BuildTrust(observed, facts) ==
    [observed |-> observed, facts |-> facts, checks |-> CheckStatuses(facts),
     result |-> TrustAggregate(CheckStatuses(facts))]

(* validate_evidence, which build_evidence applies to its own document. *)
ValidTrust(d) ==
    /\ \A f \in Facts : d.facts.setting[f] # "malformed"
    /\ d.checks = CheckStatuses(d.facts)
    /\ d.result = TrustAggregate(CheckStatuses(d.facts))
    /\ d.observed \/ d.facts = EmptyFacts

-----------------------------------------------------------------------------
TrustStep(pc) == trust.pc = pc /\ UNCHANGED <<owned, refreshes>>
Continue(pc) == trust' = [trust EXCEPT !.pc = pc]
EndTrust(status) == trust' = [trust EXCEPT !.pc = "done", !.exit = status]
Report(document, status) ==
    IF ValidTrust(document)
    THEN trust' = [trust EXCEPT !.pc = "done", !.exit = status, !.facts = document.facts]
    ELSE EndTrust(2)

(* load_policy: exactly the approved one. *)
ReadPolicy == TrustStep("policy") /\ IF owned.policy = "approved" THEN Continue("security") ELSE EndTrust(2)

ReadSecurity ==
    /\ TrustStep("security")
    /\ IF ~NamesContact(owned.security) THEN EndTrust(2)
       ELSE IF trust.command = "validate" THEN EndTrust(0)
       ELSE Continue("look")

(* What the path leads to now: a file of its own with every replacement.     *)
AtPath == Last(owned.files)
Regular(o) == o.kind \in {"observation", "torn"}

LookForObservation ==
    /\ TrustStep("look")
    /\ IF AtPath.kind = "absent" THEN Report(BuildTrust(FALSE, EmptyFacts), 3)
       ELSE Continue("inspect")

(* read_regular looks at the path once more and remembers which file it is;  *)
(* the file it then opens must be the same.                                  *)
InspectObservation ==
    /\ TrustStep("inspect")
    /\ IF Regular(AtPath)
       THEN trust' = [trust EXCEPT !.pc = "open", !.before = Len(owned.files)]
       ELSE EndTrust(2)

OpenObservation ==
    /\ TrustStep("open")
    /\ IF trust.before = Len(owned.files) THEN Continue("read") ELSE EndTrust(2)

(* What the open file holds when it is read. *)
ReadObservation ==
    /\ TrustStep("read")
    /\ LET o == owned.files[trust.before]
           document == BuildTrust(TRUE, FactsFromObservation(o))
       IN  IF ~ValidObservation(o) THEN EndTrust(2)
           ELSE Report(document, CASE document.result = "pass" -> 0
                                   [] document.result = "fail" -> 1
                                   [] document.result = "unavailable" -> 3)

OwnerActs ==
    /\ refreshes < MaxRefreshes
    /\ trust.pc \in {"look", "inspect", "open", "read"}
    /\ refreshes' = refreshes + 1
    /\ trust' = [trust EXCEPT !.touched = @ \/ trust.pc # "look"]

ReplaceObservation ==
    /\ OwnerActs
    /\ \E o \in Refreshed : owned' = [owned EXCEPT !.files = Append(@, o)]

RewriteObservation ==
    /\ OwnerActs
    /\ Regular(AtPath)
    /\ \E o \in Refreshed :
          Regular(o) /\ owned' = [owned EXCEPT !.files = Append(Front(@), o)]

FreshTrust(pc, command) ==
    [pc |-> pc, command |-> command, exit |-> 0, facts |-> EmptyFacts, before |-> 0, touched |-> FALSE]

TrustStart(policy, text, o, command) ==
    /\ owned = [policy |-> policy, security |-> text, files |-> <<o>>]
    /\ refreshes = 0
    /\ trust = FreshTrust("policy", command)

ContactLine == <<<<"contact">>>>

TrustInit ==
    \/ \E o \in Observations : TrustStart("approved", ContactLine, o, "evaluate")
    \/ \E text \in Texts, command \in {"validate", "evaluate"} : TrustStart("approved", text, Absent, command)
    \/ TrustStart("other", ContactLine, Absent, "validate")

TrustNext ==
    \/ ReadPolicy \/ ReadSecurity
    \/ LookForObservation \/ InspectObservation \/ OpenObservation \/ ReadObservation
    \/ ReplaceObservation \/ RewriteObservation

TrustSpec == TrustInit /\ [][TrustNext]_trustVars

-----------------------------------------------------------------------------
(* A token is visible when the comments before it are balanced; the markers  *)
(* of a text alternate from the first open to the last close.                *)
Markers(line) == SelectSeq(line, LAMBDA t : t \in {"open", "close"})
Balanced(tokens) ==
    LET m == Markers(tokens)
    IN  Len(m) % 2 = 0 /\ \A i \in DOMAIN m : m[i] = IF i % 2 = 1 THEN "open" ELSE "close"
ShownContact(text) ==
    LET before(i) == FlattenSeq(SubSeq(text, 1, i - 1))
        shown(i) == {k \in DOMAIN text[i] :
                        /\ text[i][k] \notin {"open", "close"}
                        /\ Len(Markers(before(i) \o SubSeq(text[i], 1, k))) % 2 = 0}
        contact == {i \in DOMAIN text : \E k \in shown(i) : shown(i) = {k} /\ text[i][k] = "contact"}
    IN  Balanced(FlattenSeq(text)) /\ \E i \in contact : contact = {i}

(* What the contact check reads of a text is what is visible of it.          *)
ContactRead == \A text \in Texts \cup {ContactLine} : NamesContact(text) = ShownContact(text)

(* Something else than a file, or one that is half-written or holds a value  *)
(* that has not its type.                                                    *)
Faulty(o) ==
    \/ o.kind \notin {"absent", "observation"}
    \/ \E f \in DOMAIN o.setting : o.setting[f] = "malformed"

(* The exit status says what was observed (docs/repository-trust.md:175): 0  *)
(* every setting there is, as the policy wants it, and one visible contact   *)
(* line; 1 a conflict; 3 no conflict but something unseen; 2 neither, and    *)
(* then the policy, SECURITY.md or the observation is at fault, or the owner *)
(* changed the observation after the program first saw it.  When the owner   *)
(* did not, the verdict is about the very observation that is there.         *)
TrustExact ==
    trust.pc = "done" =>
        LET seen == trust.facts
            conflict == \/ \E f \in Facts : seen.setting[f] = "different"
                        \/ \E c \in seen.checks : c # EXPECTED_CHECKS
            all == (\A f \in Facts : seen.setting[f] = "expected") /\ seen.checks = {EXPECTED_CHECKS}
        IN  /\ trust.exit # 2 => owned.policy = "approved" /\ ShownContact(owned.security)
            /\ trust.command = "evaluate" =>
                  /\ (trust.exit = 0 <=> all)
                  /\ (trust.exit = 1 <=> conflict)
                  /\ (trust.exit = 3 => ~all /\ ~conflict)
            /\ trust.exit = 2 =>
                  \/ owned.policy # "approved"
                  \/ ~ShownContact(owned.security)
                  \/ trust.command = "evaluate" /\ (Faulty(AtPath) \/ trust.touched)
            /\ (trust.command = "evaluate" /\ trust.exit # 2 /\ ~trust.touched) =>
                  seen = FactsFromObservation(AtPath)
=============================================================================
