---------------------------- MODULE WorkspaceProofs ----------------------------
(***************************************************************************)
(* Theorems about WorkspaceRun, for any files, faults and behaviour of the *)
(* Agent: every record is storable, the hidden material is never there     *)
(* beside a process of the Agent that can be seen, and where no file has   *)
(* carriage returns a scoreable record measures what an Agent left that    *)
(* meddled with nothing else, and an invalid one blames who caused it, but *)
(* for what is charged by policy.                                          *)
(***************************************************************************)
EXTENDS WorkspaceRun, TLAPS

Early == {"call", "checkout", "invoke"}
Verifying == {"verifier", "replay", "prepare", "copy", "check", "record"}
Ended == {"preserve", "cleanup", "done"}
Ran == {"completed", "error", "timeout", "invalid"}
OnlyLf == Endings = {"lf"}

Replayable == Paths \ Excluded
Faithful == \A p \in Replayable : replayed[p] = files[p]
Untouched == \A p \in Paths : p \notin DOMAIN diff => replayed[p] = Base[p]

Typed ==
  /\ TypeOK
  /\ pc \in Early \cup {"agent", "ended", "capture"} \cup Verifying \cup Ended
  /\ hidden \in {"bound", "other"}

\* What can make a run invalid has an author.
GuiltInv ==
  /\ (\E p \in Script : files[p] # Base[p]) => "agent" \in guilty
  /\ git # "intact" => "agent" \in guilty
  /\ status \in {"error", "timeout", "invalid"} => "agent" \in guilty \/ "benchmark" \in guilty
  /\ hidden # "bound" => "benchmark" \in guilty

\* What the harness sees of the Agent runs only before its diff is captured, or beside a
\* run that has ended.
AgentInv ==
  /\ pc \in Early => alive = None
  /\ pc \in Early \cup {"agent", "ended"} => injected = None
  /\ pc = "ended" => status \in Ran \cup {"uncontained"} /\ (status # "uncontained" => alive # "seen")
  /\ pc \in {"capture"} \cup Verifying => alive # "seen" /\ status \in Ran
  /\ injected # None => alive # "seen"

\* A diff is about files that can be replayed; one that touches the command has an author.
WellFormed(d) ==
  /\ \A p \in DOMAIN d : p \in Replayable /\ d[p].old = Decoded(Base[p]) /\ d[p].new \in Contents
  /\ DOMAIN d \cap Script # {} => "agent" \in guilty

\* From its capture on, the diff is that of the solver checkout; once it was replayed the
\* verifier checkout is the solver checkout, without what is excluded.
ReplayInv ==
  /\ pc \in Early \cup {"agent", "ended", "capture", "verifier", "replay"} => replayed = Base
  /\ pc \in Verifying => WellFormed(diff) /\ Untouched /\ (Unimpaired => diff = Diff(files))
  /\ pc \in {"prepare", "copy", "check"} =>
       /\ replay.status = "applied" /\ \A p \in Reserved : replayed[p] = Gone
       /\ OnlyLf /\ Unimpaired => Faithful
  /\ pc = "check" => injected = "bound"

\* When the record is made, an invalid Check is excused by its label or by its author.
Excused ==
  \/ check.label \in {"timeout", "check_invalid", "check_launch_error", "check_process_containment_failed"}
  \/ check.label = "baseline_check_passed_without_diff" /\ DOMAIN diff = {}
  \/ check.label \in BenchmarkLabels /\ "benchmark" \in guilty
OutcomeInv ==
  pc = "record" =>
    /\ replay.status \in {"applied", "failed", "invalid"}
    /\ check.outcome \in {"pass", "fail", "invalid"}
    /\ replay.status # "applied" => check.outcome = "invalid"
    /\ replay.status = "failed" =>
         replay.label = "diff_replay_failed" /\ (OnlyLf => "benchmark" \in guilty)
    /\ replay.status = "invalid" => "benchmark" \in guilty
    /\ replay.status = "applied" /\ OnlyLf /\ Unimpaired => Faithful
    /\ replay.status = "applied" /\ check.outcome = "invalid" => Excused
    /\ check.outcome \in {"pass", "fail"} => injected = "bound"

\* The side that owns a record caused it, or answers for it by policy.
Deserved(r) ==
  /\ Owed(r) = "agent" =>
       \/ "agent" \in guilty \/ r.label = "timeout"
       \/ r.label \in ChargedToAgent /\ "benchmark" \in guilty
  /\ Owed(r) = "benchmark" =>
       \/ "benchmark" \in guilty \/ r.label \in ChargedToBenchmark
       \/ r.label = "baseline_check_passed_without_diff" /\ replayed = Base
       \/ /\ r.label \in {"check_invalid", "check_launch_error"}
          /\ \A p \in Script : replayed[p] = Base[p]

\* What the record says is storable, true, and about somebody who deserves it.
RecordInv ==
  record # None =>
    /\ pc \in Ended
    /\ <<record.terminal, record.replay, record.check, record.owner>> \in RunStates
    /\ <<record.terminal, Normalized(record)>> \in ResultStates
    /\ OnlyLf => Deserved(record)
    /\ Normalized(record)[1] = "scoreable" =>
         /\ alive # "seen" /\ status = "completed" /\ injected = "bound"
         /\ OnlyLf /\ Unimpaired => Faithful

WorkspaceInv == Typed /\ GuiltInv /\ AgentInv /\ ReplayInv /\ OutcomeInv /\ RecordInv

--------------------------------------------------------------------------------
(* Records.                                                                *)

\* The record of a run that came to an early end.
LEMMA InvalidRecord ==
  ASSUME NEW label, NEW owner \in {"agent", "benchmark"}
  PROVE  LET r == Invalid(label, owner) IN
         /\ <<r.terminal, r.replay, r.check, r.owner>> \in RunStates
         /\ <<r.terminal, Normalized(r)>> \in ResultStates
         /\ Normalized(r)[1] # "scoreable" /\ Owed(r) = owner /\ r.label = label
<1> DEFINE r == Invalid(label, owner)
<1>1. r.terminal = "invalid" /\ r.replay = "skipped" /\ r.check = "invalid" /\ r.owner = owner /\ r.label = label
  BY DEF Invalid
<1>2. <<"invalid", "skipped", "invalid", owner>> \in RunStates
  BY DEF RunStates
<1>3. Normalized(r) = IF owner = "agent" THEN <<"agent_invalid", "invalid", "agent">>
                      ELSE <<"benchmark_invalid", "invalid", "benchmark">>
  BY <1>1 DEF Normalized
<1>4. <<"invalid", Normalized(r)>> \in ResultStates
  BY <1>3 DEF ResultStates
<1> QED
  BY <1>1, <1>2, <1>3, <1>4 DEF Owed

\* An early end leaves a record that is storable and blames its owner.
LEMMA EarlyEnd ==
  ASSUME NEW label, NEW owner \in {"agent", "benchmark"}, EndWith(label, owner),
         \/ owner \in guilty'
         \/ owner = "agent" /\ label \in ChargedToAgent /\ "benchmark" \in guilty'
         \/ owner = "benchmark" /\ label \in ChargedToBenchmark
  PROVE  RecordInv' /\ pc' = "preserve"
<1>1. pc' = "preserve" /\ record' = Invalid(label, owner)
  BY DEF EndWith
<1> HIDE DEF Invalid
<1>2. /\ <<record'.terminal, record'.replay, record'.check, record'.owner>> \in RunStates
      /\ <<record'.terminal, Normalized(record')>> \in ResultStates
      /\ Normalized(record')[1] # "scoreable" /\ Owed(record') = owner /\ record'.label = label
  BY <1>1, InvalidRecord
<1> QED
  BY <1>1, <1>2 DEF RecordInv, Deserved, Ended

--------------------------------------------------------------------------------
(* Every action preserves what is known of types, guilt and the Agent.     *)

LEMMA InitInv == Init => WorkspaceInv
<1> SUFFICES ASSUME Init PROVE WorkspaceInv
  OBVIOUS
<1>1. Typed
  <2>1. dir \in [Roles -> {"absent", "ours", "foreign"}]
    BY DEF Init
  <2>2. faults \in 0..MaxFaults
    BY RunConstants DEF Init
  <2>3. files \in [Paths -> Contents] /\ replayed \in [Paths -> Contents]
    BY RunConstants DEF Init
  <2> QED
    BY <2>1, <2>2, <2>3 DEF Init, Typed, TypeOK, Early
<1>2. GuiltInv
  BY RunConstants DEF Init, GuiltInv
<1>3. AgentInv
  BY DEF Init, AgentInv, Early, Verifying
<1>4. ReplayInv /\ OutcomeInv /\ RecordInv
  BY DEF Init, ReplayInv, OutcomeInv, RecordInv, Early, Verifying
<1> QED
  BY <1>1, <1>2, <1>3, <1>4 DEF WorkspaceInv

LEMMA TypedStep == WorkspaceInv /\ [Next]_vars => Typed'
<1> SUFFICES ASSUME WorkspaceInv, [Next]_vars PROVE Typed'
  OBVIOUS
<1>0. Typed /\ ReplayInv
  BY DEF WorkspaceInv
<1> USE DEF Typed, TypeOK, Early, Verifying, Ended, Blame, EndWith, Raise, NotPrepared, Roles,
            inputs, solver, verify, places, ending
<1>a. Fault("benchmark") =>
        faults' \in 0..MaxFaults /\ guilty' \subseteq {"agent", "benchmark"} /\ hidden' = hidden
  BY <1>0, RunConstants DEF Fault
<1>1. CASE Mismatch
  BY <1>0, <1>a, <1>1 DEF Mismatch
<1>2. CASE Preflight
  BY <1>0, <1>a, <1>2 DEF Preflight
<1>3. CASE CheckoutSolver
  BY <1>0, <1>a, <1>3 DEF CheckoutSolver, Checkout, CheckoutFails
<1>4. CASE Invoke
  BY <1>0, <1>a, <1>4 DEF Invoke
<1>5. CASE AgentEnds
  BY <1>0, <1>a, <1>5 DEF AgentEnds
<1>6. CASE Contained
  BY <1>0, <1>a, <1>6 DEF Contained
<1>7. CASE Capture
  BY <1>0, <1>a, <1>7 DEF Capture
<1>8. CASE CheckoutVerifier
  BY <1>0, <1>a, <1>8 DEF CheckoutVerifier, Checkout, CheckoutFails, Stuck
<1>9. CASE Replay
  <2>1. replayed' \in [Paths -> Contents]
    <3>1. WellFormed(diff) /\ replayed \in [Paths -> Contents]
      BY <1>0, <1>9 DEF Replay, ReplayInv
    <3> QED
      BY <1>9, <3>1 DEF Replay, WellFormed
  <2> QED
    BY <1>0, <1>a, <1>9, <2>1 DEF Replay, Stuck
<1>10. CASE Prepare
  BY <1>0, <1>a, <1>10 DEF Prepare
<1>11. CASE Inject
  BY <1>0, <1>a, <1>11 DEF Inject
<1>12. CASE Check
  BY <1>0, <1>a, <1>12 DEF Check
<1>13. CASE Record
  BY <1>0, <1>a, <1>13 DEF Record
<1>14. CASE Preserve
  BY <1>0, <1>a, <1>14 DEF Preserve
<1>15. CASE Cleanup
  BY <1>0, RunConstants, <1>15 DEF Cleanup
<1>16. CASE Corrupt
  BY <1>0, <1>a, <1>16 DEF Corrupt
<1>17. CASE Interrupt
  BY <1>0, <1>a, <1>17 DEF Interrupt
<1>18. CASE HiddenChanges
  BY <1>0, RunConstants, <1>18 DEF HiddenChanges
<1>19. CASE \E p \in Paths, content \in Contents : Edit(p, content)
  BY <1>0, <1>a, <1>19 DEF Edit
<1>20. CASE UNCHANGED vars
  BY <1>0, <1>a, <1>20 DEF vars
<1> QED
  BY <1>1, <1>2, <1>3, <1>4, <1>5, <1>6, <1>7, <1>8, <1>9, <1>10, <1>11, <1>12, <1>13, <1>14,
     <1>15, <1>16, <1>17, <1>18, <1>19, <1>20 DEF Next, Proceed

LEMMA GuiltStep == WorkspaceInv /\ [Next]_vars => GuiltInv'
<1> SUFFICES ASSUME WorkspaceInv, [Next]_vars PROVE GuiltInv'
  OBVIOUS
<1>0. GuiltInv
  BY DEF WorkspaceInv
<1> USE DEF GuiltInv, inputs, solver, verify, places, ending, Blame, Fault
<1>1. CASE Mismatch \/ Preflight \/ CheckoutSolver \/ Contained \/ UNCHANGED vars
  BY <1>0, <1>1 DEF Mismatch, Preflight, CheckoutSolver, CheckoutFails, Contained, vars
<1>2. CASE Invoke
  BY <1>0, <1>2 DEF Invoke
<1>3. CASE AgentEnds
  BY <1>0, <1>3 DEF AgentEnds
<1>4. CASE Capture \/ CheckoutVerifier \/ Replay \/ Prepare \/ Inject
  BY <1>0, <1>4 DEF Capture, CheckoutVerifier, CheckoutFails, Replay, Prepare, Inject
<1>5. CASE Check
  BY <1>0, <1>5 DEF Check
<1>6. CASE Record \/ Preserve \/ Cleanup
  BY <1>0, <1>6 DEF Record, Preserve, Cleanup
<1>7. CASE Corrupt \/ Interrupt \/ HiddenChanges
  BY <1>0, <1>7 DEF Corrupt, Interrupt, HiddenChanges
<1>8. CASE \E p \in Paths, content \in Contents : Edit(p, content)
  <2> PICK p \in Paths, content \in Contents : Edit(p, content)
    BY <1>8
  <2>1. files \in [Paths -> Contents]
    BY DEF WorkspaceInv, Typed, TypeOK
  <2>2. \A q \in Paths : q # p => files'[q] = files[q]
    BY <2>1 DEF Edit
  <2>3. ASSUME NEW q \in Script, files'[q] # Base[q] PROVE "agent" \in guilty'
    BY <1>0, <2>2, <2>3, RunConstants DEF Edit
  <2> QED
    BY <1>0, <2>3 DEF Edit
<1> QED
  BY <1>1, <1>2, <1>3, <1>4, <1>5, <1>6, <1>7, <1>8 DEF Next, Proceed

LEMMA AgentStep == WorkspaceInv /\ [Next]_vars => AgentInv'
<1> SUFFICES ASSUME WorkspaceInv, [Next]_vars PROVE AgentInv'
  OBVIOUS
<1>0. AgentInv
  BY DEF WorkspaceInv
<1> USE DEF AgentInv, inputs, solver, verify, places, ending, Early, Verifying, Ran, EndWith, Raise,
            NotPrepared
<1>1. CASE Mismatch \/ Preflight \/ CheckoutSolver \/ Contained \/ UNCHANGED vars
  BY <1>0, <1>1 DEF Mismatch, Preflight, CheckoutSolver, Contained, vars
<1>2. CASE Invoke
  BY <1>0, RunConstants, <1>2 DEF Invoke
<1>3. CASE AgentEnds
  BY <1>0, RunConstants, <1>3 DEF AgentEnds
<1>4. CASE Capture \/ CheckoutVerifier
  BY <1>0, <1>4 DEF Capture, CheckoutVerifier, Stuck
<1>5. CASE Replay \/ Prepare \/ Inject
  BY <1>0, <1>5 DEF Replay, Prepare, Inject, Stuck
<1>6. CASE Check \/ Record \/ Preserve \/ Cleanup
  BY <1>0, <1>6 DEF Check, Record, Preserve, Cleanup
<1>7. CASE Corrupt
  BY <1>0, <1>7 DEF Corrupt
<1>8. CASE Interrupt
  <2>1. alive' = "seen" => alive = "seen"
    BY <1>8 DEF Interrupt
  <2>2. pc' = "cleanup" /\ injected' = injected
    BY <1>8 DEF Interrupt
  <2>3. injected # None => alive' # "seen"
    BY <1>0, <2>1
  <2> QED
    BY <2>2, <2>3
<1>9. CASE HiddenChanges
  BY <1>0, <1>9 DEF HiddenChanges
<1>10. CASE \E p \in Paths, content \in Contents : Edit(p, content)
  BY <1>0, <1>10 DEF Edit
<1> QED
  BY <1>1, <1>2, <1>3, <1>4, <1>5, <1>6, <1>7, <1>8, <1>9, <1>10 DEF Next, Proceed

--------------------------------------------------------------------------------
(* The verifier checkout.                                                  *)

\* Without carriage returns reading a file as text changes nothing.
LEMMA TextIsFaithful ==
  ASSUME OnlyLf, NEW c \in Contents
  PROVE  Decoded(c) = c
BY DEF OnlyLf, Decoded, Contents

\* Whatever git sees, the diff is about files that can be replayed.
LEMMA DiffIsWellFormed ==
  ASSUME NEW seen \in [Paths -> Contents],
         (\E p \in Script : seen[p] # Base[p]) => "agent" \in guilty
  PROVE  WellFormed(Diff(seen))
<1>1. \A c \in Contents : Decoded(c) \in Contents
  BY RunConstants DEF Decoded, Contents
<1>2. DOMAIN Diff(seen) = Captured(seen)
  BY DEF Diff
<1>3. \A p \in Captured(seen) :
        /\ p \in Replayable /\ seen[p] # Base[p]
        /\ Diff(seen)[p].old = Decoded(Base[p]) /\ Diff(seen)[p].new = Decoded(seen[p])
  BY DEF Diff, Captured, Replayable
<1>4. \A p \in Captured(seen) : Diff(seen)[p].new \in Contents
  BY <1>1, <1>3 DEF Replayable
<1> QED
  BY <1>2, <1>3, <1>4 DEF WellFormed

\* Without carriage returns a diff applies to the base commit, and that of the solver
\* checkout gives it back.
LEMMA DiffIsFaithful ==
  ASSUME OnlyLf, Typed, replayed = Base, WellFormed(diff)
  PROVE  /\ Applies
         /\ diff = Diff(files) =>
              \A p \in Replayable : IF p \in DOMAIN diff THEN diff[p].new = files[p] ELSE Base[p] = files[p]
<1>1. \A p \in Paths : Decoded(Base[p]) = Base[p] /\ Decoded(files[p]) = files[p]
  BY RunConstants, TextIsFaithful DEF Typed, TypeOK
<1>2. Applies
  BY <1>1 DEF Applies, WellFormed, Replayable
<1>3. ASSUME diff = Diff(files), NEW p \in Replayable
      PROVE  IF p \in DOMAIN diff THEN diff[p].new = files[p] ELSE Base[p] = files[p]
  <2>1. DOMAIN diff = Captured(files) /\ \A q \in Captured(files) : diff[q].new = Decoded(files[q])
    BY <1>3 DEF Diff
  <2> QED
    BY <1>1, <1>3, <2>1 DEF Captured, Replayable
<1> QED
  BY <1>2, <1>3

\* What was left is not touched any more once nothing of the Agent is alive; what was
\* bent, or runs unseen, stays so.
LEMMA LeftAlone ==
  ASSUME WorkspaceInv, [Next]_vars, alive # "seen", pc \notin Early \cup {"agent"}
  PROVE  /\ alive' = alive /\ (Unimpaired' => Unimpaired /\ files' = files)
         /\ Unimpaired' /\ replayed' = replayed /\ Faithful => Faithful'
<1>1. alive' = alive /\ (alive = None => files' = files) /\ (git # "intact" => git' # "intact")
  <2>1. CASE \E p \in Paths, content \in Contents : Edit(p, content)
    BY <2>1 DEF Edit
  <2>2. CASE Corrupt
    BY <2>2 DEF Corrupt
  <2>3. CASE AgentEnds
    BY <2>3 DEF AgentEnds
  <2> QED
    BY <2>1, <2>2, <2>3 DEF Next, Proceed, vars, solver, Mismatch, Preflight, CheckoutSolver, Invoke,
       Contained, Capture, CheckoutVerifier, Replay, Prepare, Inject, Check, Record, Preserve,
       Cleanup, Interrupt, HiddenChanges, Early
<1> QED
  BY <1>1 DEF Unimpaired, Faithful

\* Guilt is not taken back.
LEMMA GuiltGrows == [Next]_vars => guilty \subseteq guilty'
<1> USE DEF Blame, Fault, inputs
<1>1. CASE \E p \in Paths, content \in Contents : Edit(p, content)
  BY <1>1 DEF Edit
<1>2. CASE Mismatch \/ Preflight \/ CheckoutSolver \/ Invoke \/ AgentEnds \/ Contained \/ Capture
  BY <1>2 DEF Mismatch, Preflight, CheckoutSolver, CheckoutFails, Invoke, AgentEnds, Contained, Capture
<1>3. CASE CheckoutVerifier \/ Replay \/ Prepare \/ Inject \/ Check
  BY <1>3 DEF CheckoutVerifier, CheckoutFails, Replay, Prepare, Inject, Check
<1>4. CASE Record \/ Preserve \/ Cleanup \/ Corrupt \/ Interrupt \/ HiddenChanges \/ UNCHANGED vars
  BY <1>4 DEF Record, Preserve, Cleanup, Corrupt, Interrupt, HiddenChanges, vars
<1> QED
  BY <1>1, <1>2, <1>3, <1>4 DEF Next, Proceed

\* Steps that leave the two checkouts and the diff as they are keep what is known of them.
LEMMA ReplayStays ==
  ASSUME WorkspaceInv, [Next]_vars, pc \in Verifying, pc' \in Verifying,
         diff' = diff, replayed' = replayed
  PROVE  /\ WellFormed(diff)' /\ Untouched' /\ (Unimpaired' => diff' = Diff(files)')
         /\ (OnlyLf /\ Unimpaired => Faithful) => (OnlyLf /\ Unimpaired' => Faithful')
<1>1. /\ WellFormed(diff) /\ Untouched /\ (Unimpaired => diff = Diff(files)) /\ alive # "seen"
  BY DEF WorkspaceInv, ReplayInv, AgentInv
<1>2. guilty \subseteq guilty'
  BY GuiltGrows
<1>3. Unimpaired' => Unimpaired /\ files' = files
  BY <1>1, LeftAlone DEF Verifying, Early
<1>4. WellFormed(diff)'
  BY <1>1, <1>2 DEF WellFormed
<1>5. Unimpaired' => diff' = Diff(files)'
  BY <1>1, <1>3 DEF Diff, Captured
<1> QED
  BY <1>1, <1>3, <1>4, <1>5 DEF Untouched, Faithful

LEMMA ReplayStep == WorkspaceInv /\ [Next]_vars => ReplayInv'
<1> SUFFICES ASSUME WorkspaceInv, [Next]_vars PROVE ReplayInv'
  OBVIOUS
<1>0. ReplayInv /\ AgentInv /\ Typed /\ GuiltInv
  BY DEF WorkspaceInv
<1>a. pc \in Verifying /\ pc' \in Verifying /\ diff' = diff /\ replayed' = replayed =>
        /\ WellFormed(diff)' /\ Untouched' /\ (Unimpaired' => diff' = Diff(files)')
        /\ (OnlyLf /\ Unimpaired => Faithful) => (OnlyLf /\ Unimpaired' => Faithful')
  BY ReplayStays
<1>b. CASE pc' \notin Verifying
  <2>1. pc' \in Early \cup {"agent", "ended", "capture"} => replayed' = Base
    BY <1>0, <1>b DEF Next, Proceed, Mismatch, Preflight, CheckoutSolver, Invoke, AgentEnds, Contained,
       Capture, CheckoutVerifier, Replay, Stuck, Prepare, NotPrepared, Inject, Check, Record, Preserve,
       Cleanup, Corrupt, Edit, Interrupt, HiddenChanges, EndWith, Raise, vars, verify, ReplayInv, Early,
       Verifying
  <2> QED
    BY <1>b, <2>1 DEF ReplayInv, Early, Verifying
<1> USE DEF ReplayInv, AgentInv, inputs, solver, verify, places, ending, Early, Verifying
<1>1. CASE Capture /\ pc' = "verifier"
  <2>1. PICK seen \in IF git = "intact" THEN {files} ELSE [Paths -> Contents] : diff' = Diff(seen)
    BY <1>1 DEF Capture, EndWith
  <2>2. /\ replayed' = replayed /\ replayed = Base /\ UNCHANGED <<files, git, alive, guilty>>
    BY <1>0, <1>1 DEF Capture, EndWith
  <2>3. seen \in [Paths -> Contents]
    BY <1>0, <2>1 DEF Typed, TypeOK
  <2>4. (\E p \in Script : seen[p] # Base[p]) => "agent" \in guilty
    BY <1>0, <2>1 DEF GuiltInv
  <2>5. WellFormed(diff')
    BY <2>1, <2>3, <2>4, DiffIsWellFormed
  <2>6. WellFormed(diff)'
    BY <2>2, <2>5 DEF WellFormed
  <2>7. Unimpaired' => diff' = Diff(files)'
    BY <2>1, <2>2 DEF Unimpaired, Diff, Captured
  <2> QED
    BY <1>1, <2>2, <2>6, <2>7 DEF Untouched
<1>2. CASE CheckoutVerifier
  BY <1>0, <1>a, <1>2 DEF CheckoutVerifier, Stuck
<1>3. CASE Replay
  <2>1. WellFormed(diff) /\ diff' = diff /\ replayed = Base /\ UNCHANGED <<files, git, alive>>
    BY <1>0, <1>3 DEF Replay
  <2>2. CASE pc' = "prepare"
    <3>1. /\ replay'.status = "applied" /\ guilty' = guilty
          /\ replayed' = [p \in Paths |-> IF p \in DOMAIN diff THEN diff[p].new ELSE replayed[p]]
      BY <1>3, <2>2 DEF Replay, Stuck, Replayed
    <3>2. \A p \in Reserved : replayed'[p] = Gone
      BY <2>1, <3>1, RunConstants DEF WellFormed, Replayable, Excluded
    <3>3. WellFormed(diff)' /\ Untouched'
      BY <2>1, <3>1 DEF WellFormed, Untouched
    <3>4. Unimpaired' => Unimpaired /\ diff' = Diff(files)'
      BY <1>0, <1>3, <2>1 DEF Replay, Unimpaired, Diff, Captured
    <3>5. OnlyLf /\ Unimpaired' => Faithful'
      <4> SUFFICES ASSUME OnlyLf, Unimpaired', NEW p \in Replayable PROVE replayed'[p] = files'[p]
        BY DEF Faithful
      <4>1. diff = Diff(files)
        BY <1>0, <1>3, <3>4 DEF Replay
      <4>2. IF p \in DOMAIN diff THEN diff[p].new = files[p] ELSE Base[p] = files[p]
        BY <1>0, <2>1, <4>1, DiffIsFaithful
      <4> QED
        BY <2>1, <3>1, <4>2 DEF Replayable
    <3> QED
      BY <2>2, <3>1, <3>2, <3>3, <3>4, <3>5
  <2>3. CASE pc' # "prepare"
    <3>1. pc' = "record" /\ replayed' = replayed
      BY <1>3, <2>3 DEF Replay, Stuck
    <3> QED
      BY <1>3, <1>a, <2>1, <3>1 DEF Replay
  <2> QED
    BY <2>2, <2>3
<1>4. CASE Prepare \/ Inject
  BY <1>0, <1>a, <1>4 DEF Prepare, Inject, NotPrepared
<1>5. CASE Check
  BY <1>0, <1>a, <1>5 DEF Check
<1>6. CASE pc' \in Verifying /\ pc' = pc
  <2>1. diff' = diff /\ UNCHANGED <<replayed, replay, injected>>
    BY <1>6 DEF Next, Proceed, Mismatch, Preflight, CheckoutSolver, Invoke, AgentEnds, Contained,
       Capture, CheckoutVerifier, Replay, Stuck, Prepare, NotPrepared, Inject, Check, Record, Preserve,
       Cleanup, Corrupt, Edit, Interrupt, HiddenChanges, EndWith, Raise, vars
  <2> QED
    BY <1>0, <1>a, <1>6, <2>1
<1> QED
  BY <1>b, <1>1, <1>2, <1>3, <1>4, <1>5, <1>6 DEF Next, Proceed, Mismatch, Preflight, CheckoutSolver,
     Invoke, AgentEnds, Contained, Capture, Record, Preserve, Cleanup, Corrupt, Edit, Interrupt,
     HiddenChanges, EndWith, Raise, vars

--------------------------------------------------------------------------------
(* What is known when the record is made.                                  *)

LEMMA OutcomeStep == WorkspaceInv /\ [Next]_vars => OutcomeInv'
<1> SUFFICES ASSUME WorkspaceInv, [Next]_vars, pc' = "record" PROVE OutcomeInv'
  BY DEF OutcomeInv
<1>0. OutcomeInv /\ ReplayInv /\ AgentInv /\ GuiltInv /\ Typed /\ guilty \subseteq guilty'
  BY GuiltGrows DEF WorkspaceInv
<1>a. pc \in Verifying /\ diff' = diff /\ replayed' = replayed =>
        ((OnlyLf /\ Unimpaired => Faithful) => (OnlyLf /\ Unimpaired' => Faithful'))
  BY ReplayStays DEF Verifying
<1>b. CASE pc \in {"prepare", "copy", "check"} /\ UNCHANGED <<replay, replayed, diff>>
           /\ check'.outcome = "invalid" /\ Excused'
  BY <1>0, <1>a, <1>b DEF OutcomeInv, ReplayInv, Verifying
<1> USE DEF Replayed, Checked, inputs, solver, verify, places, ending, Blame, Fault
<1>1. CASE CheckoutVerifier
  BY <1>0, <1>1 DEF CheckoutVerifier, Checkout, CheckoutFails, Stuck, OutcomeInv
<1>2. CASE Replay
  <2>1. replayed = Base /\ WellFormed(diff)
    BY <1>0, <1>2 DEF Replay, ReplayInv, Verifying
  <2>2. OnlyLf => Applies
    BY <1>0, <2>1, DiffIsFaithful
  <2> QED
    BY <1>2, <2>2 DEF Replay, Stuck, OutcomeInv
<1>3. CASE Prepare
  <2>1. \A p \in Reserved : replayed[p] = Gone
    BY <1>0, <1>3 DEF Prepare, ReplayInv
  <2>2. /\ pc = "prepare" /\ UNCHANGED <<replay, replayed, diff>> /\ check'.outcome = "invalid"
        /\ check'.label \in BenchmarkLabels /\ (hidden # "bound" \/ "benchmark" \in guilty')
    BY <1>3, <2>1 DEF Prepare, NotPrepared, BenchmarkLabels
  <2> QED
    BY <1>0, <1>b, <2>2 DEF GuiltInv, Excused
<1>4. CASE Inject
  <2>1. /\ pc = "copy" /\ UNCHANGED <<replay, replayed, diff>> /\ check'.outcome = "invalid"
        /\ check'.label \in BenchmarkLabels /\ (hidden # "bound" \/ "benchmark" \in guilty')
    BY <1>4 DEF Inject, NotPrepared, BenchmarkLabels
  <2> QED
    BY <1>0, <1>b, <2>1 DEF GuiltInv, Excused
<1>5. CASE Check
  <2>1. pc = "check" /\ UNCHANGED <<replay, replayed, injected, diff>> /\ injected = "bound"
    BY <1>0, <1>5 DEF Check, ReplayInv
  <2>2. /\ check'.outcome \in {"pass", "fail", "invalid"}
        /\ check'.outcome = "invalid" => Excused'
    BY <1>5 DEF Check, Excused
  <2>3. replay'.status = "applied" /\ (OnlyLf /\ Unimpaired' => Faithful')
    BY <1>0, <1>a, <2>1 DEF ReplayInv, Verifying
  <2> QED
    BY <2>1, <2>2, <2>3 DEF OutcomeInv
<1>6. CASE pc = "record"
  <2>1. UNCHANGED <<replay, check, diff, replayed, injected>>
    BY <1>6 DEF Next, Proceed, Mismatch, Preflight, CheckoutSolver, Invoke, AgentEnds, Contained,
       Capture, CheckoutVerifier, Replay, Prepare, Inject, Check, Record, Preserve, Cleanup, Corrupt,
       Edit, Interrupt, HiddenChanges, vars, Raise
  <2>2. Excused => Excused'
    BY <1>0, <2>1 DEF Excused
  <2>3. (OnlyLf /\ Unimpaired => Faithful) => (OnlyLf /\ Unimpaired' => Faithful')
    BY <1>a, <1>6, <2>1 DEF Verifying
  <2> QED
    BY <1>0, <1>6, <2>1, <2>2, <2>3 DEF OutcomeInv
<1> QED
  BY <1>1, <1>2, <1>3, <1>4, <1>5, <1>6 DEF Next, Proceed, Mismatch, Preflight, CheckoutSolver,
     Invoke, AgentEnds, Contained, Capture, Record, Preserve, Cleanup, Corrupt, Edit, Interrupt,
     HiddenChanges, EndWith, Raise, vars

\* Who owes an invalid run, and who one that did not end by itself.
LEMMA InvalidIsOwed ==
  ASSUME NEW r, r.terminal = "invalid", r.owner \in {"agent", "benchmark"}
  PROVE  Owed(r) = r.owner /\ Normalized(r)[1] # "scoreable" /\ <<"invalid", Normalized(r)>> \in ResultStates
<1>1. CASE r.owner = "agent"
  BY <1>1 DEF Normalized, Owed, ResultStates
<1>2. CASE r.owner = "benchmark"
  BY <1>2 DEF Normalized, Owed, ResultStates
<1> QED
  BY <1>1, <1>2

LEMMA UnfinishedIsOwed ==
  ASSUME NEW r, r.terminal \in {"error", "timeout"}
  PROVE  Owed(r) = "agent" /\ Normalized(r)[1] # "scoreable" /\ <<r.terminal, Normalized(r)>> \in ResultStates
BY DEF Normalized, Owed, ResultStates

LEMMA RecordStored == WorkspaceInv /\ Record => RecordInv'
<1> SUFFICES ASSUME WorkspaceInv, Record PROVE RecordInv'
  OBVIOUS
<1> DEFINE r == record'
<1>0. /\ OutcomeInv /\ GuiltInv /\ pc = "record" /\ pc' \in Ended
      /\ WellFormed(diff) /\ Untouched /\ alive # "seen" /\ status \in Ran
  BY DEF WorkspaceInv, Record, Ended, AgentInv, ReplayInv, Verifying
<1>1. /\ r.terminal = TerminalStatus /\ r.replay = replay.status /\ r.check = check.outcome
      /\ r.owner = Owner /\ r.label = FailureLabel
      /\ UNCHANGED <<guilty, git, alive, status, injected, files, replayed>>
  BY DEF Record, inputs, solver, verify
<1>2. (Faithful => Faithful') /\ (Unimpaired' => Unimpaired)
  BY <1>1 DEF Faithful, Unimpaired
<1>3. replay.status \in {"applied", "failed", "invalid"} /\ check.outcome \in {"pass", "fail", "invalid"}
  BY <1>0 DEF OutcomeInv
<1> HIDE DEF r
<1>4. CASE replay.status # "applied"
  <2>1. r.terminal = "invalid" /\ r.check = "invalid" /\ r.label = replay.label
    BY <1>0, <1>1, <1>4 DEF TerminalStatus, OutcomeInv, FailureLabel
  <2>2. r.owner = IF replay.status = "failed" THEN "agent" ELSE "benchmark"
    BY <1>1, <1>3, <1>4, <2>1 DEF Owner
  <2>3. <<r.terminal, r.replay, r.check, r.owner>> \in RunStates
    BY <1>1, <1>3, <1>4, <2>1, <2>2 DEF RunStates
  <2>4. Owed(r) = r.owner /\ Normalized(r)[1] # "scoreable" /\ <<"invalid", Normalized(r)>> \in ResultStates
    BY <2>1, <2>2, InvalidIsOwed
  <2>5. OnlyLf => Deserved(record)'
    BY <1>0, <1>1, <1>3, <1>4, <2>1, <2>2, <2>4 DEF OutcomeInv, Deserved, ChargedToAgent, Owed, r
  <2> QED
    BY <1>0, <2>1, <2>3, <2>4, <2>5 DEF RecordInv, Deserved, r
<1>5. CASE replay.status = "applied" /\ check.outcome = "invalid"
  <2>1. r.terminal = "invalid" /\ r.label = check.label
    BY <1>1, <1>5 DEF TerminalStatus, FailureLabel
  <2>2. r.owner = CheckOwner
    BY <1>1, <1>5, <2>1 DEF Owner
  <2>3. <<r.terminal, r.replay, r.check, r.owner>> \in RunStates
    BY <1>1, <1>5, <2>1, <2>2 DEF RunStates, CheckOwner
  <2>4. ChangedCommand => "agent" \in guilty
    BY <1>0 DEF ChangedCommand, WellFormed
  <2>5. ~ChangedCommand => \A p \in Script : replayed[p] = Base[p]
    BY <1>0, RunConstants DEF ChangedCommand, Untouched
  <2>6. DOMAIN diff = {} => replayed = Base
    BY <1>0, RunConstants DEF Untouched, WorkspaceInv, Typed, TypeOK
  <2>7. Owed(r) = r.owner /\ Normalized(r)[1] # "scoreable" /\ <<"invalid", Normalized(r)>> \in ResultStates
    BY <2>1, <2>2, InvalidIsOwed DEF CheckOwner
  <2>8. Excused
    BY <1>0, <1>5 DEF OutcomeInv
  <2>9. Deserved(record)'
    <3>1. CASE check.label \in {"check_invalid", "check_launch_error"}
      BY <1>1, <2>1, <2>2, <2>4, <2>5, <2>7, <3>1 DEF CheckOwner, Deserved, Owed, r
    <3>2. CASE check.label = "timeout"
      <4>1. CheckOwner = "agent"
        BY <3>2 DEF CheckOwner, BenchmarkLabels
      <4> QED
        BY <2>1, <2>2, <2>7, <3>2, <4>1 DEF Deserved, Owed, r
    <3>3. CASE check.label \in BenchmarkLabels
      <4>1. CheckOwner = "benchmark"
        BY <3>3 DEF CheckOwner, BenchmarkLabels
      <4>2. \/ "benchmark" \in guilty' \/ r.label \in ChargedToBenchmark
            \/ r.label = "baseline_check_passed_without_diff" /\ replayed' = Base
        BY <1>1, <2>1, <2>6, <2>8, <3>3 DEF Excused, ChargedToBenchmark, BenchmarkLabels
      <4> QED
        BY <2>2, <2>7, <4>1, <4>2 DEF Deserved, Owed, r
    <3> QED
      BY <2>8, <3>1, <3>2, <3>3 DEF Excused, BenchmarkLabels
  <2> QED
    BY <1>0, <2>1, <2>3, <2>7, <2>9 DEF RecordInv, Deserved, r
<1>6. CASE replay.status = "applied" /\ check.outcome # "invalid" /\ status # "completed"
  <2>1. /\ r.terminal = status /\ r.label \in ChargedToAgent
        /\ "agent" \in guilty' \/ "benchmark" \in guilty'
    BY <1>0, <1>1, <1>6 DEF TerminalStatus, FailureLabel, AgentLabel, ChargedToAgent, GuiltInv, Ran
  <2>2. CASE status = "invalid"
    <3>1. r.owner = "agent"
      BY <1>1, <1>6, <2>1, <2>2 DEF Owner
    <3>2. <<r.terminal, r.replay, r.check, r.owner>> \in RunStates
      BY <1>1, <1>3, <1>6, <2>1, <2>2, <3>1 DEF RunStates
    <3> QED
      BY <1>0, <2>1, <2>2, <3>1, <3>2, InvalidIsOwed DEF RecordInv, Deserved, Owed, r
  <2>3. CASE status \in {"error", "timeout"}
    <3>1. r.owner = None
      BY <1>1, <1>6, <2>1, <2>3 DEF Owner
    <3>2. <<r.terminal, r.replay, r.check, r.owner>> \in RunStates
      BY <1>1, <1>3, <1>6, <2>1, <2>3, <3>1 DEF RunStates
    <3> QED
      BY <1>0, <2>1, <2>3, <3>1, <3>2, UnfinishedIsOwed DEF RecordInv, Deserved, Owed, r
  <2> QED
    BY <1>0, <1>6, <2>2, <2>3 DEF Ran
<1>7. CASE replay.status = "applied" /\ check.outcome # "invalid" /\ status = "completed"
  <2>1. r.terminal = IF check.outcome = "pass" THEN "passed" ELSE "failed"
    BY <1>1, <1>7 DEF TerminalStatus
  <2>2. r.owner = None
    BY <1>1, <1>7, <2>1 DEF Owner
  <2>3. <<r.terminal, r.replay, r.check, r.owner>> \in RunStates
    BY <1>1, <1>3, <1>7, <2>1, <2>2 DEF RunStates
  <2>4. Normalized(r) = IF check.outcome = "pass" THEN <<"scoreable", "pass", None>>
                        ELSE <<"scoreable", "fail", None>>
    BY <1>1, <2>1 DEF Normalized
  <2>5. <<r.terminal, Normalized(r)>> \in ResultStates /\ Owed(r) \notin {"agent", "benchmark"}
    BY <2>1, <2>4, RunConstants DEF ResultStates, Owed
  <2>6. injected' = "bound" /\ (OnlyLf /\ Unimpaired' => Faithful')
    BY <1>0, <1>1, <1>2, <1>3, <1>7 DEF OutcomeInv
  <2> QED
    BY <1>0, <1>1, <1>7, <2>3, <2>5, <2>6 DEF RecordInv, Deserved, Owed, r
<1> QED
  BY <1>4, <1>5, <1>6, <1>7

\* A record that is there already stays true: nothing of the Agent is alive beside a
\* scoreable one, and guilt is not taken back.
LEMMA RecordStays ==
  ASSUME WorkspaceInv, [Next]_vars, record # None, pc \in Ended
  PROVE  RecordInv'
<1>1. RecordInv
  BY DEF WorkspaceInv
<1>2. record' = record /\ status' = status /\ injected' = injected /\ replayed' = replayed
      /\ guilty \subseteq guilty' /\ pc' \in Ended
  <2>1. CASE Preserve \/ Cleanup
    BY <2>1 DEF Preserve, Cleanup, Fault, Blame, Ended, inputs, solver, verify, places
  <2>2. CASE Interrupt \/ HiddenChanges
    BY <2>2 DEF Interrupt, HiddenChanges, Raise, Fault, Blame, Ended, solver, verify, places, ending
  <2>3. CASE Corrupt \/ UNCHANGED vars
    BY <2>3 DEF Corrupt, Blame, vars, inputs, solver, verify, ending
  <2>4. CASE \E p \in Paths, content \in Contents : Edit(p, content)
    BY <2>4 DEF Edit, verify, places, ending
  <2> QED
    BY <2>1, <2>2, <2>3, <2>4 DEF Next, Proceed, Mismatch, Preflight, CheckoutSolver, Invoke, AgentEnds,
       Contained, Capture, CheckoutVerifier, Replay, Prepare, Inject, Check, Record, Ended
<1>3. alive # "seen" => /\ alive' = alive
                        /\ Unimpaired' => Unimpaired /\ (Faithful => Faithful')
  BY <1>2, LeftAlone DEF Ended, Early
<1>4. OnlyLf => Deserved(record)'
  BY <1>1, <1>2 DEF RecordInv, Deserved, Owed
<1> QED
  BY <1>1, <1>2, <1>3, <1>4 DEF RecordInv

LEMMA RecordStep == WorkspaceInv /\ [Next]_vars => RecordInv'
<1> SUFFICES ASSUME WorkspaceInv, [Next]_vars PROVE RecordInv'
  OBVIOUS
<1>0. GuiltInv /\ AgentInv /\ RecordInv /\ Typed
  BY DEF WorkspaceInv
<1>1. CASE record # None
  BY <1>0, <1>1, RecordStays DEF RecordInv
<1>2. CASE record' = None
  BY <1>2 DEF RecordInv
<1>3. CASE Mismatch
  BY <1>3, EarlyEnd DEF Mismatch, Blame
<1>4. CASE CheckoutSolver /\ record' # record
  BY <1>4, EarlyEnd DEF CheckoutSolver, Checkout, CheckoutFails, Fault, Blame, ending
<1>5. CASE Contained /\ record' # record
  <2>1. EndWith("agent_process_containment_failed", "benchmark")
    BY <1>5 DEF Contained, ending
  <2> QED
    BY <2>1, EarlyEnd DEF ChargedToBenchmark
<1>6. CASE Capture /\ record' # record
  <2>1. /\ EndWith("agent_workspace_corrupted", "agent")
        /\ "agent" \in guilty' \/ "benchmark" \in guilty'
    BY <1>0, <1>6 DEF Capture, GuiltInv, Fault, Blame, inputs, ending
  <2> QED
    BY <2>1, EarlyEnd DEF ChargedToAgent
<1>7. CASE Record
  BY <1>7, RecordStored
<1>8. CASE record' = record
  BY <1>1, <1>2, <1>8
<1> QED
  BY <1>1, <1>2, <1>3, <1>4, <1>5, <1>6, <1>7, <1>8 DEF Next, Proceed, Preflight, Invoke, AgentEnds,
     CheckoutVerifier, Replay, Prepare, Inject, Check, Preserve, Cleanup, Corrupt, Edit, Interrupt,
     HiddenChanges, Raise, vars, ending

--------------------------------------------------------------------------------
(* Theorems.                                                               *)

\* What is true of every state of a run.
THEOREM WorkspaceInvariant == Spec => []WorkspaceInv
<1>1. WorkspaceInv /\ [Next]_vars => WorkspaceInv'
  BY TypedStep, GuiltStep, AgentStep, ReplayStep, OutcomeStep, RecordStep DEF WorkspaceInv
<1> QED
  BY InitInv, <1>1, PTL DEF Spec

\* Every variable keeps its type: what an action leaves open it leaves as it was.
THEOREM TypeInvariant == Spec => []TypeOK
<1>1. WorkspaceInv => TypeOK
  BY DEF WorkspaceInv, Typed
<1> QED
  BY <1>1, WorkspaceInvariant, PTL

\* However a run goes, its record is one that validate_workspace_run and validate_result
\* accept: no combination of replay, Check and Agent outcomes falls between them.
THEOREM RecordsAreStorable == Spec => []RecordIsStorable
<1>1. WorkspaceInv => RecordIsStorable
  BY DEF WorkspaceInv, RecordInv, RecordIsStorable
<1> QED
  BY <1>1, WorkspaceInvariant, PTL

\* prepare_verifier copies the hidden material only when no process of the Agent is left
\* in its group or at its pipes, and none starts afterwards, however the run is interrupted.
THEOREM HiddenIsSafe == Spec => []HiddenFromAgent
<1>1. WorkspaceInv => HiddenFromAgent
  BY DEF WorkspaceInv, AgentInv, HiddenFromAgent
<1> QED
  BY <1>1, WorkspaceInvariant, PTL

\* Where no file has carriage returns, the Agent left no process and git tells the truth,
\* what capture_diff and apply_diff carry over to the verifier checkout of a scoreable run
\* is all that the Agent left outside of the excluded paths.
THEOREM ScoresMeasureTheAgent == OnlyLf => (Spec => []ScoreableMeasuresAgent)
<1> SUFFICES ASSUME OnlyLf PROVE Spec => []ScoreableMeasuresAgent
  OBVIOUS
<1>1. WorkspaceInv => ScoreableMeasuresAgent
  BY DEF WorkspaceInv, RecordInv, Faithful, Replayable, ScoreableMeasuresAgent
<1> QED
  BY <1>1, WorkspaceInvariant, PTL

\* Where no file has carriage returns, _invalid_owner names a side that caused something
\* to make the run invalid, but for what is charged to one side whoever is the cause.
THEOREM BlameIsDeserved == OnlyLf => (Spec => []BlamedIsGuilty)
<1> SUFFICES ASSUME OnlyLf PROVE Spec => []BlamedIsGuilty
  OBVIOUS
<1>1. WorkspaceInv => BlamedIsGuilty
  BY DEF WorkspaceInv, RecordInv, Deserved, BlamedIsGuilty
<1> QED
  BY <1>1, WorkspaceInvariant, PTL
================================================================================
