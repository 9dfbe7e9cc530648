----------------------------- MODULE WorkspaceRun -----------------------------
(***************************************************************************)
(* run_agent_on_task_with_artifacts: an Agent works in a fresh solver      *)
(* checkout; its diff is captured, replayed in a fresh verifier checkout   *)
(* and checked there with material the Agent never saw; the run becomes a  *)
(* record that says who is to blame, and then a Result.                    *)
(*                                                                         *)
(* A file is a text and its line ending.  The Agent edits what it likes,   *)
(* bends or breaks the git metadata, replaces its directory, does not end, *)
(* or leaves a process behind that the harness cannot see.  Such a process *)
(* stays in the solver checkout: workspace.md claims no more containment.  *)
(* Git, the disk and the hidden material's source fail or change at any    *)
(* time.  The ghost "guilty" names who caused something, never what the    *)
(* harness made of it.                                                     *)
(***************************************************************************)
EXTENDS Naturals, Sequences, FiniteSets

CONSTANTS
  Paths,      \* files of the repository, among them
  Reserved,   \* what lies under .barcarolle,
  Caches,     \* what lies under a __pycache__ or .pytest_cache, and
  Script,     \* what the Check command names
  Texts, Endings,
  Base,       \* the files of the Task's base commit
  MaxFaults,  \* bound: failures of the environment
  Gone, None

Roles == {"solver", "verifier"}
Contents == [text : Texts, ending : Endings] \cup {Gone}
ASSUME RunConstants ==
  /\ Reserved \subseteq Paths /\ Caches \subseteq Paths
  /\ Script \subseteq Paths \ (Reserved \cup Caches)
  /\ "lf" \in Endings /\ Endings \subseteq {"lf", "crlf"}
  /\ Base \in [Paths -> Contents] /\ \A p \in Reserved : Base[p] = Gone
  /\ MaxFaults \in Nat
  /\ None \notin {"error", "timeout", "invalid", "uncontained", "bound", "other", "agent", "benchmark",
                  "seen", "unseen"}

VARIABLES
  pc,
  files,     \* the solver checkout
  git,       \* its git metadata: intact, bent (git works and misreports) or broken
  dir,       \* each workspace directory: absent, ours or foreign
  owned,     \* roles registered in _OWNED_WORKSPACES
  alive,     \* a process of the Agent runs: seen, in its group or at its pipes, or unseen
  status,    \* AgentRunOutcome
  diff,      \* CapturedDiff: the text before and after of each changed path
  replayed,  \* the verifier checkout
  replay,    \* DiffReplayOutcome
  hidden,    \* the hidden material's source: bound, or changed since
  injected,  \* what was copied into the verifier checkout
  check,     \* CheckOutcome
  record,    \* WorkspaceRunRecord
  raised,    \* the call ends with an exception
  warned,
  guilty,    \* ghost: who caused something that can invalidate the run
  faults

inputs == <<hidden, guilty, faults>>
solver == <<files, git, alive, status, diff>>
verify == <<replayed, replay, injected, check>>
places == <<dir, owned>>
ending == <<record, raised, warned>>
vars == <<pc, inputs, solver, verify, places, ending>>

Init ==
  /\ pc = "call" /\ hidden = "bound" /\ guilty = {} /\ faults = 0
  /\ files = Base /\ git = "intact" /\ alive = None /\ status = None /\ diff = None
  /\ replayed = Base /\ replay = None /\ injected = None /\ check = None
  /\ dir = [r \in Roles |-> "absent"] /\ owned = {}
  /\ record = None /\ raised = None /\ warned = FALSE

Blame(who) == guilty' = guilty \cup {who}
Fault(who) == faults < MaxFaults /\ faults' = faults + 1 /\ Blame(who) /\ UNCHANGED hidden

\* _invalid_run_record
Invalid(label, owner) ==
  [terminal |-> "invalid", replay |-> "skipped", check |-> "invalid",
   owner |-> owner, label |-> label]
EndWith(label, owner) ==
  /\ pc' = "preserve" /\ record' = Invalid(label, owner) /\ UNCHANGED <<raised, warned>>
Raise(why) == pc' = "cleanup" /\ raised' = why /\ UNCHANGED <<record, warned>>

--------------------------------------------------------------------------------
(* The solver                                                              *)

Mismatch ==
  /\ pc = "call"
  /\ EndWith("task_check_mismatch", "benchmark") /\ Blame("benchmark")
  /\ UNCHANGED <<hidden, faults, solver, verify, places>>

\* preflight_run_bindings
Preflight ==
  /\ pc = "call"
  /\ IF hidden = "bound" THEN pc' = "checkout" /\ UNCHANGED ending ELSE Raise("error")
  /\ UNCHANGED <<inputs, solver, verify, places>>

\* _checkout_repository: a directory is made and registered, then filled.
Checkout(role) == dir' = [dir EXCEPT ![role] = "ours"] /\ owned' = owned \cup {role}
\* Its own failure discards it; when that fails too, silently, it is left behind.
CheckoutFails(role) ==
  /\ Fault("benchmark")
  /\ dir' \in {dir, [dir EXCEPT ![role] = "ours"]} /\ UNCHANGED owned

CheckoutSolver ==
  /\ pc = "checkout"
  /\ \/ Checkout("solver") /\ pc' = "invoke" /\ UNCHANGED <<inputs, ending>>
     \/ CheckoutFails("solver") /\ EndWith("repository_checkout_failed", "benchmark")
  /\ UNCHANGED <<solver, verify>>

\* invoke_agent: the harness is validated again, and may not start, because its command
\* is wrong or because the machine has no memory or no descriptors left.
Invoke ==
  /\ pc = "invoke"
  /\ \/ pc' = "agent" /\ alive' = "seen" /\ UNCHANGED <<inputs, status, ending>>
     \/ /\ pc' = "ended" /\ status' = "invalid"
        /\ (Blame("agent") /\ UNCHANGED <<hidden, faults>>) \/ Fault("benchmark")
        /\ UNCHANGED <<alive, ending>>
     \/ Fault("benchmark") /\ Raise("error") /\ UNCHANGED <<alive, status>>
  /\ UNCHANGED <<files, git, diff, verify, places>>

Edit(p, content) ==
  /\ alive # None
  /\ files' = [files EXCEPT ![p] = content]
  /\ guilty' = IF p \in Script THEN guilty \cup {"agent"} ELSE guilty
  /\ UNCHANGED <<pc, hidden, faults, git, alive, status, diff, verify, places, ending>>

\* Metadata that git rejects, or accepts and then hides or alters changes: flags in the
\* index, filters, a repository inside; or the directory moved away or replaced.
Corrupt ==
  /\ alive # None /\ git # "broken" /\ dir["solver"] = "ours"
  /\ Blame("agent")
  /\ \E d \in {"ours", "foreign", "absent"} :
       /\ git' \in IF d = "absent" THEN {"broken"} ELSE {"bent", "broken"}
       /\ dir' = [dir EXCEPT !["solver"] = d]
  /\ UNCHANGED <<pc, hidden, faults, files, alive, status, diff, verify, owned, ending>>

\* run_bounded_process: a clean end says that the group is gone and the pipes are closed.
\* It fails or does not end by itself, or the machine kills or starves it; it cannot be
\* contained, whoever is the cause.
AgentEnds ==
  /\ pc = "agent" /\ pc' = "ended"
  /\ \/ status' = "completed" /\ alive' \in {None, "unseen"} /\ UNCHANGED inputs
     \/ /\ status' \in {"error", "timeout"} /\ alive' \in {None, "unseen"}
        /\ (Blame("agent") /\ UNCHANGED <<hidden, faults>>) \/ Fault("benchmark")
     \/ status' = "uncontained" /\ UNCHANGED <<inputs, alive>>
  /\ UNCHANGED <<files, git, diff, verify, places, ending>>

Contained_Unchecked ==
  /\ pc = "ended" /\ pc' = "capture"
  /\ UNCHANGED <<inputs, solver, verify, places, ending>>
Contained ==
  /\ pc = "ended"
  /\ IF status = "uncontained" THEN EndWith("agent_process_containment_failed", "benchmark")
     ELSE pc' = "capture" /\ UNCHANGED ending
  /\ UNCHANGED <<inputs, solver, verify, places>>

\* The diff is read as text, which turns every line ending into a line feed.
Decoded(content) == IF content = Gone THEN Gone ELSE [content EXCEPT !.ending = "lf"]
\* _CAPTURE_PATHSPEC
Excluded == Reserved \cup Caches
Captured_Everything(seen) == {p \in Paths : seen[p] # Base[p]}
Captured(seen) == {p \in Paths \ Excluded : seen[p] # Base[p]}
Diff(seen) == [p \in Captured(seen) |-> [old |-> Decoded(Base[p]), new |-> Decoded(seen[p])]]

\* capture_diff: what git sees of the files is what they are, unless its metadata is bent.
Capture ==
  /\ pc = "capture"
  /\ \/ /\ git # "broken" /\ pc' = "verifier"
        /\ \E seen \in IF git = "intact" THEN {files} ELSE [Paths -> Contents] : diff' = Diff(seen)
        /\ UNCHANGED <<inputs, ending>>
     \/ git = "broken" /\ EndWith("agent_workspace_corrupted", "agent") /\ UNCHANGED <<inputs, diff>>
     \/ Fault("benchmark") /\ EndWith("agent_workspace_corrupted", "agent") /\ UNCHANGED diff
  /\ UNCHANGED <<files, git, alive, status, verify, places>>

--------------------------------------------------------------------------------
(* The verifier                                                            *)

Replayed(is, label) == replay' = [status |-> is, label |-> label]
Checked(outcome, label) == check' = [outcome |-> outcome, label |-> label]
\* The replay or the Check cannot go on: the run is recorded as it stands.
Stuck(is, label) == Replayed(is, label) /\ Checked("invalid", label) /\ pc' = "record"

CheckoutVerifier ==
  /\ pc = "verifier"
  /\ \/ Checkout("verifier") /\ pc' = "replay" /\ UNCHANGED <<inputs, replay, check>>
     \/ CheckoutFails("verifier") /\ Stuck("invalid", "repository_checkout_failed")
  /\ UNCHANGED <<solver, replayed, injected, ending>>

\* apply_diff: git apply wants the old text where it was.  One that is killed or finds
\* the disk full ends like one that does not apply.
Applies == \A p \in DOMAIN diff : diff[p].old = replayed[p]
Replay ==
  /\ pc = "replay"
  /\ \/ /\ Applies /\ Replayed("applied", None) /\ pc' = "prepare"
        /\ replayed' = [p \in Paths |-> IF p \in DOMAIN diff THEN diff[p].new ELSE replayed[p]]
        /\ UNCHANGED <<inputs, check>>
     \/ ~Applies /\ Stuck("failed", "diff_replay_failed") /\ UNCHANGED <<inputs, replayed>>
     \/ /\ Fault("benchmark")
        /\ \/ Stuck("invalid", "missing_git_checkout")
           \/ DOMAIN diff # {} /\ Stuck("invalid", "diff_replay_launch_error")
           \/ DOMAIN diff # {} /\ Stuck("failed", "diff_replay_failed")
        /\ UNCHANGED replayed
  /\ UNCHANGED <<solver, injected, places, ending>>

NotPrepared(label) == Checked("invalid", label) /\ pc' = "record"
\* prepare_verifier: the source is digested and the reserved namespace must be absent ...
Prepare ==
  /\ pc = "prepare"
  /\ \/ /\ IF hidden # "bound" THEN NotPrepared("hidden_material_mismatch")
           ELSE IF \E p \in Reserved : replayed[p] # Gone THEN NotPrepared("verifier_preparation_failed")
           ELSE pc' = "copy" /\ UNCHANGED check
        /\ UNCHANGED inputs
     \/ Fault("benchmark") /\ NotPrepared("verifier_preparation_failed")
  /\ UNCHANGED <<solver, replayed, replay, injected, places, ending>>

Inject_Unhashed ==
  /\ pc = "copy" /\ injected' = hidden /\ pc' = "check"
  /\ UNCHANGED <<inputs, solver, replayed, replay, check, places, ending>>
\* ... then it is copied, and the copy is digested.
Inject ==
  /\ pc = "copy"
  /\ \/ /\ injected' = hidden /\ UNCHANGED inputs
        /\ IF hidden = "bound" THEN pc' = "check" /\ UNCHANGED check
           ELSE NotPrepared("hidden_material_mismatch")
     \/ /\ Fault("benchmark") /\ NotPrepared("verifier_preparation_failed")
        /\ injected' \in {injected, hidden}
  /\ UNCHANGED <<solver, replayed, replay, places, ending>>

\* verify_diff and normalize_outcome: the Check passes or fails; it does not end, refuses
\* or escapes containment, whatever was changed; it cannot be launched, because of what
\* was changed or because of the machine.
Check ==
  /\ pc = "check" /\ pc' = "record"
  /\ \/ DOMAIN diff # {} /\ Checked("pass", None) /\ UNCHANGED inputs
     \/ DOMAIN diff = {} /\ Checked("invalid", "baseline_check_passed_without_diff") /\ UNCHANGED inputs
     \/ Checked("fail", "check_failed") /\ UNCHANGED inputs
     \/ /\ \E label \in {"timeout", "check_invalid", "check_process_containment_failed"} :
             Checked("invalid", label)
        /\ UNCHANGED inputs
     \/ /\ (DOMAIN diff # {} /\ UNCHANGED inputs) \/ Fault("benchmark")
        /\ Checked("invalid", "check_launch_error")
  /\ UNCHANGED <<solver, replayed, replay, injected, places, ending>>

--------------------------------------------------------------------------------
(* The record                                                              *)

\* _agent_changed_check_command_path
ChangedCommand == DOMAIN diff \cap Script # {}
BenchmarkLabels == {"baseline_check_passed_without_diff", "hidden_material_mismatch",
                    "verifier_preparation_failed", "check_process_containment_failed"}

TerminalStatus ==
  IF replay.status # "applied" \/ check.outcome = "invalid" THEN "invalid"
  ELSE IF status # "completed" THEN status
  ELSE IF check.outcome = "pass" THEN "passed" ELSE "failed"

\* A Check that could not be launched or refused is the Agent's only if it touched its files.
CheckOwner ==
  IF check.label \in {"check_invalid", "check_launch_error"}
  THEN IF ChangedCommand THEN "agent" ELSE "benchmark"
  ELSE IF check.label \in BenchmarkLabels THEN "benchmark" ELSE "agent"
Owner_InvokeForgotten ==
  IF TerminalStatus # "invalid" THEN None
  ELSE IF replay.status # "applied" THEN IF replay.status = "failed" THEN "agent" ELSE "benchmark"
  ELSE IF check.outcome = "invalid" THEN CheckOwner ELSE None
Owner ==
  IF TerminalStatus # "invalid" THEN None
  ELSE IF replay.status # "applied" THEN IF replay.status = "failed" THEN "agent" ELSE "benchmark"
  ELSE IF check.outcome = "invalid" THEN CheckOwner
  ELSE IF status = "invalid" THEN "agent" ELSE "benchmark"

AgentLabel ==
  [invalid |-> "agent_launch_error", error |-> "agent_failed", timeout |-> "agent_timeout"][status]
FailureLabel ==
  IF replay.status # "applied" THEN replay.label
  ELSE IF check.outcome = "invalid" \/ status = "completed" THEN check.label
  ELSE AgentLabel

\* What validate_workspace_run and validate_result accept, and _normalize_result_state.
RunStates ==
  {<<"passed", "applied", "pass", None>>, <<"failed", "applied", "fail", None>>}
  \cup ({"error", "timeout"} \X {"applied"} \X {"pass", "fail", "invalid"} \X {None})
  \cup ({"error", "timeout"} \X {"failed", "invalid", "skipped"} \X {"invalid"} \X {None})
  \cup ({"invalid"} \X {"applied"} \X {"pass", "fail", "invalid"} \X {"agent", "benchmark"})
  \cup ({"invalid"} \X {"failed", "invalid", "skipped"} \X {"invalid"} \X {"agent", "benchmark"})
Normalized(run) ==
  IF run.terminal = "passed" /\ run.check = "pass" THEN <<"scoreable", "pass", None>>
  ELSE IF run.terminal = "failed" THEN <<"scoreable", "fail", None>>
  ELSE IF run.owner = "agent" \/ run.terminal \in {"error", "timeout"}
  THEN <<"agent_invalid", "invalid", "agent">>
  ELSE <<"benchmark_invalid", "invalid", "benchmark">>
ResultStates ==
  {<<"passed", <<"scoreable", "pass", None>>>>, <<"failed", <<"scoreable", "fail", None>>>>}
  \cup ({"invalid", "error", "timeout"} \X {<<"agent_invalid", "invalid", "agent">>})
  \cup {<<"invalid", <<"benchmark_invalid", "invalid", "benchmark">>>>}
Owed(run) == Normalized(run)[3]

\* _workspace_run_record
Record ==
  /\ pc = "record" /\ pc' = "preserve"
  /\ record' = [terminal |-> TerminalStatus, replay |-> replay.status, check |-> check.outcome,
                owner |-> Owner, label |-> FailureLabel]
  /\ UNCHANGED <<inputs, solver, verify, places, raised, warned>>

\* _workspace_run_result: artifacts that cannot be written are warned about.
Preserve ==
  /\ pc = "preserve" /\ pc' = "cleanup"
  /\ \/ UNCHANGED <<inputs, warned>>
     \/ Fault("benchmark") /\ warned' = TRUE
  /\ UNCHANGED <<solver, verify, places, record, raised>>

Cleanup_Raises ==
  /\ pc = "cleanup" /\ pc' = "done"
  /\ \E left \in SUBSET {r \in owned : dir[r] = "ours"} :
       /\ left # {} => faults < MaxFaults
       /\ faults' = IF left # {} THEN faults + 1 ELSE faults
       /\ dir' = [r \in Roles |-> IF r \in owned \ left /\ dir[r] = "ours" THEN "absent" ELSE dir[r]]
       /\ raised' = IF left # {} THEN "error" ELSE raised
  /\ UNCHANGED <<hidden, guilty, solver, verify, owned, record, warned>>
\* _cleanup_workspaces: only the directory that was registered is removed; one that is
\* missing, was replaced or cannot be removed is warned about.
Cleanup ==
  /\ pc = "cleanup" /\ pc' = "done"
  /\ \E left \in SUBSET {r \in owned : dir[r] = "ours"} :
       /\ left # {} => faults < MaxFaults
       /\ faults' = IF left # {} THEN faults + 1 ELSE faults
       /\ dir' = [r \in Roles |-> IF r \in owned \ left /\ dir[r] = "ours" THEN "absent" ELSE dir[r]]
       /\ owned' = left
       /\ warned' = (warned \/ left # {} \/ \E r \in owned : dir[r] # "ours")
  /\ UNCHANGED <<hidden, guilty, solver, verify, record, raised>>

\* KeyboardInterrupt: every workspace that exists is cleaned up.
Interrupt ==
  /\ pc \notin {"call", "cleanup", "done"}
  /\ Fault("benchmark") /\ Raise("interrupt")
  /\ alive' \in IF alive = "seen" THEN {"seen", "unseen", None} ELSE {alive}
  /\ UNCHANGED <<files, git, status, diff, verify, places>>

HiddenChanges ==
  /\ pc # "done" /\ hidden = "bound" /\ faults < MaxFaults
  /\ hidden' = "other" /\ faults' = faults + 1 /\ Blame("benchmark")
  /\ UNCHANGED <<pc, solver, verify, places, ending>>

Proceed ==
  \/ Preflight \/ CheckoutSolver \/ Invoke \/ AgentEnds \/ Contained \/ Capture
  \/ CheckoutVerifier \/ Replay \/ Prepare \/ Inject \/ Check \/ Record \/ Preserve \/ Cleanup
Next ==
  \/ Mismatch \/ Proceed \/ Corrupt \/ Interrupt \/ HiddenChanges
  \/ \E p \in Paths, content \in Contents : Edit(p, content)
Spec == Init /\ [][Next]_vars
\* The Agent and the Check are bounded by their timeouts.
FairSpec == Spec /\ WF_vars(Proceed)

--------------------------------------------------------------------------------
(* Properties                                                              *)

TypeOK ==
  /\ files \in [Paths -> Contents] /\ replayed \in [Paths -> Contents]
  /\ git \in {"intact", "bent", "broken"} /\ alive \in {None, "seen", "unseen"}
  /\ raised \in {None, "error", "interrupt"} /\ warned \in BOOLEAN
  /\ dir \in [Roles -> {"absent", "ours", "foreign"}] /\ owned \subseteq Roles
  /\ guilty \subseteq {"agent", "benchmark"} /\ faults \in 0..MaxFaults

\* The record of every run, however it went, is one that the Result Store accepts: a run
\* that was paid for is never lost to the validators.
RecordIsStorable ==
  record # None =>
    /\ <<record.terminal, record.replay, record.check, record.owner>> \in RunStates
    /\ <<record.terminal, Normalized(record)>> \in ResultStates

\* What the harness charges to one side whoever is the cause.
ChargedToAgent == {"agent_launch_error", "agent_failed", "agent_timeout",
                   "agent_workspace_corrupted", "diff_replay_failed"}
ChargedToBenchmark == {"agent_process_containment_failed", "check_process_containment_failed"}

\* Who owns an invalid run caused something that can make it invalid.  The Agent answers
\* for a failure of the environment only where the harness cannot tell the two apart, and
\* for a Check that times out; the benchmark answers without a cause only for what cannot
\* be contained, for a Check that passes on the base commit, and for one that refuses or
\* cannot start although the files its command names are those of the base commit.
BlamedIsGuilty ==
  record # None =>
    /\ Owed(record) = "agent" =>
         \/ "agent" \in guilty \/ record.label = "timeout"
         \/ record.label \in ChargedToAgent /\ "benchmark" \in guilty
    /\ Owed(record) = "benchmark" =>
         \/ "benchmark" \in guilty \/ record.label \in ChargedToBenchmark
         \/ record.label = "baseline_check_passed_without_diff" /\ replayed = Base
         \/ /\ record.label \in {"check_invalid", "check_launch_error"}
            /\ \A p \in Script : replayed[p] = Base[p]

\* A scoreable Result measures a completed Agent against the bound material.  If the Agent
\* left the git metadata alone and no process behind, it measures what the Agent left,
\* but for the reserved namespace and the caches that workspace.md excludes.
Unimpaired == git = "intact" /\ alive = None
ScoreableMeasuresAgent ==
  record # None /\ Normalized(record)[1] = "scoreable" =>
    /\ status = "completed" /\ injected = "bound"
    /\ Unimpaired => \A p \in Paths \ Excluded : replayed[p] = files[p]

\* capture_diff returns a replayable final diff: where nothing fails and the Agent meddled
\* with nothing but files, what it captured can be put back.
CapturedDiffReplays ==
  replay # None /\ replay.status \in {"applied", "failed"} /\ faults = 0 /\ Unimpaired =>
    \A p \in Paths \ Excluded : replayed[p] = files[p]

\* No process of the Agent that the harness can see, in its group or at its pipes, runs
\* once the hidden material is there to be read.
HiddenFromAgent == injected # None => alive # "seen"

\* A run that came to its record returns it, whatever becomes of its artifacts and of
\* its workspaces, unless it is interrupted.
RecordIsReturned ==
  (pc = "record") ~> (pc = "done" /\ (raised = "interrupt" \/ (raised = None /\ record # None)))
================================================================================
