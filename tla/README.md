# Barcarolle in TLA+

Barcarolle measures coding Agents on repository tasks. Runs cost money, so the
program's core promise is about evidence: a paid Result is stored durably, is
never paid for twice, is never silently lost or replaced, measures what the Agent
did, and every frozen record keeps pointing at what it was made from. The code
that keeps this promise is concurrent (several processes, advisory locks, reader
threads, subprocess trees) and must survive interruption at any step. This
directory models that code in TLA+, checks it with TLC, and proves the most
important facts with TLAPS. Line numbers refer to the repository's `src/`,
`docs/` and `examples/` at this commit.

## 1. Inventory

| Component | State | Operations | Who it meets |
| --- | --- | --- | --- |
| Task Pool (`task_pool.py`) | published bundle directory | filter, certify, freeze, validate, publish, open | Runners, importers |
| Selection and rolling origins (`selection/`, `runner.py`) | logs of origins, snapshots, inputs, Selections, cell sets | `select_benchmark`, `evaluate_selectors`, `evaluate_prospective_selection` | evidence logs, Result Store, Task Pools |
| Evaluation cell filling (`runner.py`, `result_store.py`) | Result rows, `evaluation-cell-sets.jsonl` | `fill_results`, `prepare_evaluation_cells`, `run_agents`: find missing, run, reprice, resolve, freeze | Result Store session, evidence log, paid Agent runs |
| Workspace runs and verification (`workspace.py`, `verification.py`) | solver and verifier checkouts, hidden material | prepare, run Agent, capture diff, replay, inject, check, record | process containment, the paid callers |
| Process containment (`_subprocess.py`) | process group, pipes, reader threads | `run_bounded_process` | Agent commands, checks, the operating system |
| Result Store log (`result_store.py`) | JSONL file, advisory lock, session index | open session, `append_many`, `load_results`, `recover_result_store_tail` | every Runner, importer and reader |
| Companion evidence logs (`runner.py`) | one JSONL file per record type | `_append_record_once`, `load_jsonl_records` | a single Runner writes, anybody reads |
| External Result import (`runner.py`, `result_store.py`) | two import locks, receipt file, rows | `import_result_bundle`, replay, receipt publication | other imports, the Result Store, filling Runners |
| Paid ledger (`examples/experiment_ledger.py`) | event log, derived snapshot | reserve, complete, reauthorize, fold, rebuild | paid campaigns |
| Paid campaign (`examples/pylint_swe_bench_verified/`) | the ledger, Results of its cells | initialize, preflight, run next cell, reconcile, amend, continue | operators, the Result Store |
| Result matrix, training, scoring, reporting, records, CLI, migrations | none, or output files | joins, statistics, validation, rendering | all |

What is hard here: steps of two processes around a lock (a probe before it, a
close after it, a ledger read before it); the page cache and the disk disagreeing
after a kill and then a power loss; a retry that finds what an interrupted attempt
left; logs without a lock or a recovery; operations that write two files, or six;
an Agent that does not cooperate and a run that must say whose fault it was;
records that must not depend on what became known after their cutoff.
`PROJECT.json` lists these hazards line by line.

What makes each component correct, in a sentence:

- Task Pool: only certified Tasks are published, one directory never holds two
  bundles, and a publication that returned after its fsync stays.
- Selection: a strict Selection sees nothing later than its cutoff and is judged
  on exactly the arrivals of its window; replays agree; records resolve.
- Filling: no cell is paid for while a reusable Result of it is stored; a frozen
  cell set binds stored Results of its own cell and pricing view.
- Workspace run: the record is storable, blames the side at fault as far as the
  harness can tell, measures what an Agent that only edits files left, and no process
  of the Agent that the harness can see runs beside the hidden material.
- Containment: a clean result means the group is finished and all output is
  captured; a caught exception leaves no group behind; the call ends whatever the
  tree does.
- Result Store: a confirmed record can always be read back, a `result_id` occurs
  once, complete lines are only ever added.
- Evidence logs: everyone is given the first record of an id, and a damaged log
  raises instead of hiding records.
- Import: one observation time per manifest and store, one execution per cell,
  receipts that are immutable, replayable and bind durable rows.
- Campaign: a cell is paid at most once, within the budget, never after a stop
  that nobody accepted, and an interrupted step is settled by a later one.

## 2. Plan

| # | Module | Composes | State |
| --- | --- | --- | --- |
| 1 | `ResultStore`, implements `AcknowledgedLog` | | checked, all safety properties proved |
| 2 | `EvaluationFill` | the session of 1 as one exclusive lock, the log of 3 as scan and append | checked, all safety properties proved |
| 3 | `EvidenceLog` | | checked, all safety properties proved |
| 4 | `ResultImport` | sessions of 1, a Runner of 2 | checked, all safety properties proved |
| 5 | `ProcessContainment` | | checked, all safety properties proved |
| 6 | `PaidLedger`, `ReplicateCampaign` | the fold of the ledger, the session and durable append of 1 | checked, all safety properties proved |
| 7 | `TaskPoolBuild` | | checked, all safety properties proved |
| 8 | `WorkspaceRun` | the result of 5 as a step that may fail | checked, all safety properties proved |
| 9 | `RollingSelection` | the pools of 7, the Results of 2, the logs of 3 as sets | checked, all safety properties proved |

Left on the plan: the abstract specification of 1 as what 2, 4 and 6 assume of
their store, the accounting of `examples/model_agent_study/study.py` over two campaigns of 6
(section 7 says what to look at there), and the Result matrix as operators over
the frozen sets of 2.

## 3. Modules

### ResultStore and AcknowledgedLog

`file` and `tail` are the bytes every process sees (whole lines, and what
follows the last newline); the first `synced` lines, `diskTail` and a durable
`entry` are what power loss cannot take. A record is a model value, `IdOf` its
`result_id`; two records of one id stand for two digests.

| Action | Code |
| --- | --- |
| `Probe`, `OpenHandle`, `LockAndLoad` | `open_result_store_session`: the existence probe, `open("a+")`, `flock`, load and index |
| `AcceptStored`, `AcceptNew`, `RefuseConflict` | the loop of `append_many` |
| `Write`, `FlushLine`, `Fsync`, `ReturnWritten`, `ReturnStored` | the write, flush, fsync, directory fsync, index update and return |
| `Raise`, `Leave`, `Unlock`, `CloseHandle` | exceptions and the `finally` clause, which unlocks and then closes |
| `Load`, `Repair`, `RepairSync` | `load_results`, `recover_result_store_tail` |
| `Kill`, `PowerLoss` | the environment: locks and buffers vanish; any prefix of unsynced lines survives |

A line is flushed whole or, by a kill, in part. It follows whatever the file ends
with: behind a torn tail it becomes a line that nobody can read (`Garbage`).

`AcknowledgedLog` has two actions, `Grow` and `Confirm`: durable records only
grow, without repeating an id, and confirmed records are among them. The
refinement maps `stored` to the synced lines.

### EvaluationFill

A row is a cell, which run of it it records, the run's scoreable state and its
pricing view. `Begin` to `Return` follow `_resolve_evaluation_cell_sets`: reuse
persisted cell sets, check their bindings, open the session and find missing
cells, run and store them one by one, reprice, resolve, leave the session, then
scan and append each cell set in a log without a lock. `RunAgents` is the forced
path. Every call may abort at every step.

### EvidenceLog

`ReturnStored` and `Start` are the two outcomes of the scan of
`_append_record_once`; `WriteText` and `WriteNewline` are separate because the
code writes them separately; `Fsync` and `ReturnWritten` end the append. A last
line without newline is read as a line, as `load_jsonl_records` does. What was
returned or shown without having been written by the returning call (`acked`,
`seen`) is only promised until power is lost; what was written (`written`) is
promised for ever.

### ResultImport

An import takes its lock files in path order (`TakeLock`), reads receipt and
rows (`Observe`), admits under a writer session (`Admit`, `AppendRow`,
`CloseSession`) or recomputes a recorded admission (`Replay`), and publishes the
receipt (`CheckReceipt`, `Rename`, `SyncAndReturn`). Beside it a Runner fills
the same stores. The receipt's field `store` is a history variable that no guard
reads. Validation of single rows and of the admission inputs is abstracted to
`Pool`, the cells the inputs cover; all callers pass the same inputs.

### ProcessContainment

The command is the leader of a group; `Fork`, `LeaveGroup`, `ClosePipe`, `Emit`
and `Exit` let the tree do what it likes. `Drain`, `EndOfFile` and `ReadFails`
are the reader threads. The command runs before the caller enters its try
(`Protect`) and starts the readers (`StartReader`). The caller then waits, sends
TERM, polls during the grace period, sends KILL, awaits the leader, joins the
readers, and does it once more when a reader still reads. `Interrupt` is an
exception inside the try, which the handler answers with `_cleanup_failed_process`;
`Abandon` is one that nothing catches, because it comes between `Popen` and the try
or inside the handler, and leaves what was not yet signalled to itself. What the
caller can see is the group and the pipes: a process that left the group and closed
its pipes may outlive a clean result, in the model as in the code. The model is of
POSIX; the direct-process fallback is not modelled.

### PaidLedger and ReplicateCampaign

`PaidLedger` says which event logs the fold of `experiment_ledger.py` accepts
(`Fits`, `Folds`) and what it makes of them (`Call`, `Calls`, `Spent`).
`ReplicateCampaign` runs operators over such a log, a snapshot file with the
authority, and the Results.

| Action | Code |
| --- | --- |
| `Initialize`, `Load`, `Rebuild` | `initialize_replicate_campaign_ledger`, `load_resource_ledger`: fold the log, and write the snapshot that was read back |
| `Open`, `Reconcile`, `Reserve` | preflight: the session, `_reconcile_started_call`, `_validate_calls_and_results`, `_ensure_call_allowed`, the reservation |
| `Run`, `Store`, `Finish`, `Interrupt` | the paid run, its Result, the completion event, and the stop that an exception leaves |
| `Confirmed`, `Judge`, `Amend`, `Mark` | both amendments: an idempotent repeat, the examination of the stop, the new snapshot, the reauthorization event |
| `SyncEvent`, `Kill`, `PowerLoss` | the fsync of each event, and faults |

The ledger is loaded before the Result Store session is taken, and no lock
covers the two files; that two operators overlap is what most properties are
about. A call is paid, and its Result judged, under the limit and the totals read
before the session (`Claim`, `under`, `spent`): `_start_call` loads the ledger again
after the reservation, which may refuse the call, but throws what it read away.
Costs are whole units, so the tolerance of the budget's comparisons
(`replicate_campaign.py:1602`) has no counterpart. The schedule is the numbers `1..N`; the retained history is empty.

### TaskPoolBuild

`Build` filters, `CheckBase` and `CheckReference` are the alternating checks of
one certification attempt, `Freeze` freezes and validates (the certifier and
the validator are separate code, and so are `Decide` and `Validates`). `Probe`,
`Stage`, `SyncStaged`, `Rename`, `SyncParent`, `Compare` are
`publish_task_pool_bundle`; a failed directory fsync (`SyncParentFails`) lands in
the handler of a failed rename. `Republish` publishes what was frozen before;
`OpenManifest` and `OpenMembers` are the two reads of `open_task_pool_bundle`.

### WorkspaceRun

One call of `run_agent_on_task_with_artifacts`. A file is a text and its line
ending. `Preflight`, `CheckoutSolver`, `Invoke`, `AgentEnds`, `Contained` and
`Capture` are the solver half, beside an Agent that may `Edit` and `Corrupt` as
long as a process of it is alive; `CheckoutVerifier`, `Replay`, `Prepare`,
`Inject` and `Check` are the verifier half; `Record`, `Preserve` and `Cleanup`
end the call. An Agent process is `seen`, in its group or at its pipes, or `unseen`:
a clean or killed call may leave an unseen one behind, which stays in the solver
checkout. Git metadata is `intact`, `broken` (git refuses) or `bent`: git works and
reports whatever it was made to report, so the diff captured may be any. `Excluded`
is the capture pathspec, the reserved namespace and the Python caches. `TerminalStatus`, `Owner` and `FailureLabel` translate the functions
of these names, `Normalized` translates `_normalize_result_state`, and `RunStates`
and `ResultStates` are what the validators of `records.py` accept. `guilty` is a
history variable: who caused something that can invalidate the run. It is set by
causes (the Agent fails, edits a file the Check names, meddles with git; a step of
the environment fails), never by what the harness makes of them.

### RollingSelection

Time passes (`Tick`), events become known, `BuildPool` certifies what is there and
`Deliver` lets a Result arrive. A runner serves (`select_benchmark`), replays
(`evaluate_selectors`) or judges (`evaluate_prospective_selection`):
`AppendOrigins`, `Read`, `AppendSnapshot`, `AppendInput` and `AppendSelections`
freeze one record after the other, `Check` validates the records and pools of a
prospective evaluation, `Fill` and `Freeze` run missing cells and freeze the cell
sets. `KnownAt`, `History`, `Arrived` and `Future` are the cohort rules of
`origin.py`. A record's id is a digest of its content, so a log is a set. What one
step appends to one log is appended at once, and the selectors' log is left out:
Selections name their selector by id only. The Selector takes the whole history.

## 4. Runs

| Run | Shows | Bounds |
| --- | --- | --- |
| `result_store` | confirmed durable, ids unique, reads stay, implements the log | 2 processes, 3 records of 2 ids, batches of 2, flushes succeed |
| `evaluation_fill` | never paid again, frozen bindings stored, missing only after a run | 2 Runners, 2 cells, 2 plans that both ask for both, 2 pricing views, 2 runs per cell, forced runs |
| `evidence_log` | written records survive power loss, one record per id, fails closed | 2 ids, 2 bodies, 2 observation times |
| `result_import` | one observation, one execution, receipts replay | 2 importers, 2 manifests, 2 receipts, 1 store, a filling Runner |
| `result_import_power` | admitting receipts are durable, returned receipts stay, every import ends | 2 importers, 1 manifest of one row, 2 stores, 1 receipt |
| `containment` | clean results are contained and captured; caught exceptions contain; the call ends | leader, 2 forked processes, 1 stream |
| `replicate_campaign` | paid once, nothing past a stop, accepted is authorized | 2 operators, 2 cells, 1 fault |
| `replicate_campaign_live` | within budget, amendments stay, interrupted steps are settled | 1 operator, 3 cells, 2 faults, every kind of Result |
| `task_pool_build` | published is certified, synced stays, publication ends and succeeds | 2 builders, 1 reader, 2 events, 2 builds, 2 faults |
| `workspace_run` | storable records, deserved blame, scores measure the Agent, hidden material hidden from seen processes, records returned | 4 paths (reserved, cache, Check script, other), 1 text (an edit creates or deletes), 2 faults, line feeds only |
| `rolling_selection` | no look-ahead, cohorts are the window, replays agree, records resolve | 2 Runners, 2 Tasks, times 0 to 3, 2 pools, 2 calls, 1 kill |
| `workspace_run_crlf` | finding: a captured diff that does not replay | as `workspace_run`, 2 texts, one file with carriage returns |

Why the bounds are enough. Every hazard is a conflict of two parties, so two
processes, importers, operators or forked children suffice to meet it, and the
third record of the store gives a digest conflict next to an independent record.
A batch of two lines is the smallest that can be torn in the middle. Two runs per
cell are what ambiguity takes. Two times tell a first observation from a later
one; under power loss the import runs with one, since there the question is what
is on disk. The readers of a contained call are independent of each other, so one
stream shows what a reader can do. An amended campaign needs a cell before the
stop and one after it, hence three cells where amendments are followed to their
effect, with one operator: what overlapping operators can do to liveness is that
they leave an unreadable log (below). A kill and what its recovery meets take two
faults. Two pools are the one a Selection was made on and the one that judges it;
two calls are a replay and its repetition, or a Selection and its judgement; one
calendar has a Task whose material is early and one whose material is in the
window. The theorems of section 6 hold for any value of all of these.

Symmetry is used over processes, and over what the code treats alike: ids and
bodies of the evidence log; plans, cells and pricing views of filling, where every
CHOOSE picks from a set with one element; Runners of the selection, where CHOOSE
picks among origins and inputs only. The runs that check liveness use none.
`CHECK_DEADLOCK FALSE` stands where the system really stops: a damaged evidence log
has no recovery, an ambiguous store makes every later fill raise, and a contained
call, a Workspace run or a bounded number of builds and calls ends.

Constants that pick an environment: `FlushMayFail` and `FsyncFlushesEntry` (POSIX
leaves open whether fsync of a file makes its directory entry durable; Linux file
systems usually do), `PowerMayFail`, `NewlineMayBeLost`, `RunnerReruns`,
`AllowForced`, `ReuseBenchmarkInvalid` (the code's own configuration), `Endings`.

`CohortIsTheWindow` speaks of later pools whose source window starts at the first
time (`pool.from = 0`): see the last item below.

### Where code and documentation disagree

`workspace_run_crlf` expects a violation, quoted under `findings` in
`PROJECT.json`: git's output is decoded with universal newlines, so the diff of a
file with carriage returns does not replay, or replays another file, although
`capture_diff` promises a replayable final diff.

The following come from the same models; each is one configuration or one
operation away from a run:

- `UniqueResultIds` of `ResultStore` fails with `FlushMayFail = TRUE`: after a failed
  flush, `close()` writes the buffer after the unlock. `ConfirmedDurable` fails then
  too: a closer killed in that late write leaves a torn tail in the middle of another
  process's session, whose next line is glued to it, fsynced and confirmed, and
  unreadable.
- `ProcessContainment`: an exception between `Popen` and the try
  (`_subprocess.py:103-110`) and a second one during `_cleanup_failed_process`
  (`121-127`) leave the command's group running (`Abandon`; `RaiseIsContained` is
  about the exceptions the handler catches and completes).
- `AckedDurable` of `ResultStore` fails: `append_many` acknowledges a record that
  a killed writer left, which may never have been fsynced.
- `AckedEntryDurable` of `ResultStore` fails with `FsyncFlushesEntry = FALSE`: the
  existence probe runs before the lock, so nobody may fsync the directory.
- `StoreUnambiguous` of `EvaluationFill` fails: rerunning a benchmark-invalid cell
  leaves two executions of one cache identity, and all later resolutions raise.
- `WrittenReadable` of `EvidenceLog` fails: an unterminated last line is accepted,
  and the next append destroys both records. `AckedDurable` fails with
  `PowerMayFail = TRUE`: a resumed append returns an unsynced record.
- `ReturnedRowsStay` of `ResultImport` fails with `PowerMayFail = TRUE`, one store and
  one receipt: a retried import syncs its receipt but not the rows an interrupted
  import left. `ReceiptReplays` fails with `RunnerReruns = TRUE`: a later managed
  rerun of an imported cell makes an unchanged receipt fail its replay.
- Campaign: two overlapping operators may append a second reservation or a second
  completion, after which no load succeeds (no money is lost: that is `PaidOnce`);
  the overlapping load may also write an amendment out of the snapshot.
  An interrupt between Result and completion writes a stop that no amendment
  accepts, while a SIGKILL at the same place is reconciled. A power loss after an
  unsynced stop whose amendment is on disk leaves the campaign stuck. A torn event
  line blocks every load. A retained Agent failure in the prefix blocks every later
  cost amendment.
- Task Pool: when the target exists its directory is not fsynced, and a failed
  directory fsync is swallowed; new parent directories are not fsynced either.
- Workspace run: where the harness cannot tell causes apart it charges one side
  whoever is the cause, and `BlamedIsGuilty` lists these labels. To the Agent: it
  cannot be launched, fails or does not end (also when the machine has no memory);
  its diff cannot be captured; `git apply` ends with a nonzero status (also when it
  is killed or the disk is full, `workspace.py:715-719`, although
  `docs/design/modules/workspace.md:348-350` charges the Agent only for its own
  patch); a Check times out. To the benchmark: an Agent or a Check that cannot be contained; a Check
  that passes on an unchanged base; a Check that exits with 2 or cannot start while
  the files its command names are those of the base, even if edits to others are why.
- Workspace run: an Agent that bends its git metadata (flags in the index, filters,
  an embedded repository) gets an incomplete diff accepted and scored, and a process
  of it that left the group and closed its pipes may still edit, and read the
  material once it is injected. `ScoreableMeasuresAgent` and `HiddenFromAgent`
  exclude both by name; `workspace.md:12-17` claims no containment against them.
- Workspace run: a run that was paid for is lost when the caller is interrupted
  between the Agent and the append of its Result; when the cleanup of a failed
  checkout fails too, the directory is left behind silently.
- Selection: an incremental later pool, which the design allows
  (`docs/design/modules/selection.md`), filters by when an event was resolved and
  so misses Tasks resolved before its window whose material arrives within it,
  while the protocol wants every arrival of the window. Two overlapping
  replays may freeze two inputs for one origin, and every later replay raises.

## 5. Fairness

- `ResultImport`: flock serves a waiter again and again (strong fairness of the two
  locks and the session); a Runner ends its batch (`RunnerClose`).
- `ProcessContainment`: only the caller is fair, because all its waits have a
  timeout; the tree and the reader threads owe nothing.
- `ReplicateCampaign`: an operation that began goes on, and operators keep calling
  the operations that move the campaign (strong fairness of `Begin` with `create`,
  `run` and `amend`). An operator who gives up settles nothing, which is why the
  properties are about what repeated calls achieve.
- `TaskPoolBuild`: certification and publication go on once begun, because every
  check has a timeout; somebody publishes again what was frozen (strong fairness of
  `Republish`). Opening a bundle, kills and power losses are not fair.
- `WorkspaceRun`: weak fairness of `Proceed`: Agent and Check have timeouts, and the
  other steps are the caller's own. The Agent owes nothing.

## 6. Proofs

A theorem that is listed with a property in `PROJECT.json` states what a run
checks; the others (`TypeOK` of every proved module, `SecondRunsOnlyReplace`,
`SessionIndexCurrent`, `PaidIsReserved` and the like) are stated only as theorems.

`ResultStoreProofs` proves, for any processes, records and batch bound:

- `TypeInvariant`: `Spec => []TypeOK`.
- `LogIsAppendOnly`: only a power loss shortens or rewrites complete lines.
- `ConfirmedSurvive`: if flushes succeed and fsync of the file flushes its directory
  entry, confirmed records stay durable. `ConfirmedDurable` alone is not inductive: a record is
  confirmed two steps after its fsync. `DurableInv` adds `Tracked`: in every
  session the accepted records are stored already or still buffered, nothing
  remains buffered once the flush is over, and after the fsync the accepted
  records lie among the synced lines. That a session's lines are written as they are
  takes `Exclusive`, below: its holder met a log without a tail, and nobody else
  writes one. The proof goes action by action; kills and repairs keep synced lines,
  and a power loss keeps exactly those.

The assumptions `FsyncFlushesEntry` and `~FlushMayFail` are stated in the theorem.
Without the first a power loss may take the file whose entry nobody made durable;
without the second a confirmed line may be glued to a torn one.

The second half of `ResultStoreProofs` is about what the log holds:

- `ResultIdsAreUnique` and `SessionSeesTheLog`: when flushes succeed, no
  `result_id` occurs twice and the index of an open session is the log. The
  invariant is `UniqueInv`. `Exclusive`: whoever is inside holds the lock, met a log
  without a tail, has every line in its index or its batch, and buffers only ids
  the log does not have. `FreshTail`: a tail that a repair may complete, in memory
  or on disk, has a new id. The assumption `~FlushMayFail` is needed: otherwise a
  handle closes with a full buffer after the unlock.
- `ReadsAreStable`: what a live process has read stays, under no assumption.
- `StoreImplementsLog`: under both assumptions `Spec => ImplementsLog`. From
  `DurableInv` and `UniqueInv`, an fsync or a power loss that makes lines durable is
  a `Grow`, a `ReturnWritten` is a `Confirm`, and every other step is a stutter.

`FillProofs` proves, for any processes, cells, plans, outcomes and number of runs:

- `TypeInvariant`: `Spec => []TypeOK`.
- `FillsNeverPayAgain`: whoever pays for a cell that has a reusable Result was told
  to by a call of `run_agents`; fills never do, also beside such calls. What
  makes it inductive (`PayInv`): whoever is between opening and leaving the session
  holds it, and the cells a fill still has to run have no reusable row. Other
  processes cannot add one, and the holder adds one only for a cell it crosses off
  in the same step, or when no cell is left.
- `FillsOnlyReplace`: if nobody forces runs, a second execution is stored only
  beside one the policy does not reuse. `RunInv` adds that stored runs are counted
  and that a run about to be stored is newer than all stored runs of its cell.
- `FrozenSetsAreBound`: cell sets bind stored rows of their cell and scoring, with
  forced runs too. `FrozenInv` follows a binding from `Resolve` over the log scan
  to the append; it survives the gap after the session because rows only grow.
- `FrozenMissingCellsWereRun`: from what a fill still has to run, a cell it leaves
  without a binding is one it ran itself, or found with rows that are not reused.
  `SettleInv` follows this from the missing-cell search over the runs and the
  repricing to the resolution.

`ImportProofs` proves, for any importers, manifests, stores, receipt paths and times:

- `TypeInvariant`, `ObservationsAgree`, `AdmissionsAreDurable`, `ReturnedReceiptsStay`,
  under no assumption. `ImportInv` follows an import from the locks to the return
  (`Keeps`): it holds both locks; until it has appended, all rows of its manifest
  have its draft's time; what it decided is `idempotent` is in the store; what its
  draft binds is synced once the session has ended; and the receipt path it found
  absent, or renamed to, stays so as long as it holds the lock. A receipt that was returned is settled, which a power loss keeps.
- `CellsHaveOneExecution`, where the Runner runs only cells without a row
  (`~RunnerReruns`): what an import is about to append has no rival in the store,
  because importer and Runner decide and append inside one session
  (`UnambiguousInv`). With reruns it is false.
- `ReceiptsReplay`, where in addition the machine stays on: every verdict is one
  that later rows cannot refute. `ReplayInv` says for each kind of verdict what
  stays true of the store (`Lasting`) and that admitted rows are stored.

`ContainmentProofs` proves, for any forked processes, streams and output:

- `TypeInvariant`, and from the invariant `GroupInv`, `CleanResultIsContained`,
  `CleanResultIsReaped` and `RaisedCallIsContained`: every way to the join passes a
  group that is gone, a KILL, or a refused signal, and only a running member can
  add a process to the group. For exceptions this is what the handler does with the
  first one inside the try, in whatever pass; an abandoned call is exempt by name.
- `CleanResultIsCaptured`, from `CaptureInv`: a reader that ended without an error
  saw the end of file, after which nobody holds the pipe.

`CampaignProofs` proves, for any operators, cells, outcomes, limits and faults:

- `NoCellIsPaidTwice`, `PaymentStopsAtAStop`, `PaidRunsAreReserved`,
  `TypeInvariant`. Operators read the ledger before they take the session, so the
  session alone excludes nothing. The argument is that only its holder reserves and
  pays; a reservation made from a stale reading makes the log unfoldable, and
  between reservation and payment the log is folded once more. The
  invariant says that what an operator saw is a prefix of the log, or the log no
  longer folds, or it was torn; and that at the payment this reservation and what
  accepted all earlier calls is fsynced, which a power loss then cannot undo.
- `AmendmentsStay`: in turns, what an operator loaded is what the snapshot still
  says when it writes (`TurnInv`), so no load writes an amendment out.
- `PaymentsStayWithinBudget`, for operators that overlap too, whose limit and totals
  may be stale when they pay. `LimitInv`: whoever has loaded a ledger holds a limit;
  `RecordInv`: Results, events and payments tell the same costs, and only a paid cell
  has events after its reservation. `SpendInv` then says that what was paid before a
  reserved cell, plus the limit it was reserved under, is within the budget
  (`Affords`): whoever may reserve saw all earlier calls completed at their costs
  (`ReserveAffords`), and nobody pays an earlier cell again. The sum
  over calls is unfolded by induction over the size of finite sets, which the
  module derives from well-foundedness of the naturals in set form (`Numbers`).
- `AcceptedCallsAreAuthorized`, for operators that overlap, die and lose power.
  `AuthorizedInv` says why each authority may be believed (`Explained`): the call it
  amends has one usable Result above the first limit, and its stop is the first
  completion in the log, or a power loss took that stop (`Lost`). In the latter case
  everybody holds this amendment, nothing after the call was paid and nobody gets
  past it, for the log has no event that would make `_validate_calls_and_results`
  pass. A reauthorization answers a stop that the log still has (`ReauthorizedInv`);
  who has reserved a cell under the higher limit did so after the amended call, which
  was accepted again before that reservation (`PaysUnder`), so the limit read before
  the session is good for judging the Result; and every completion that fits was allowed by one of
  the two limits (`CompletedInv`).

`TaskPoolProofs` proves, for any builders, events, repetitions and faults:

- `TypeInvariant`, `OnlyCertifiedIsPublished`, `SyncedPublicationStays`. `PoolInv`
  says that whoever is past the freeze carries a validated bundle, that nobody
  replaces a directory that is there, so the target is still the publisher's own
  when it reaches the directory fsync, and that a kept bundle has a durable entry
  and synced members.

`SelectionProofs` proves, for any calendars, windows, origins, runners and calls:

- `StrictSelectionsDoNotLookAhead`, `CohortsAreTheWindow`, `RecordsNameRecords`.
  `SelectionInv` says what a frozen input may contain (`Good`), that a runner holds
  exactly one input for every origin it has still to freeze, that a Result is never
  older than its Task's material and Check, and that a Selection being judged
  passed the checks on times and source windows. `CohortsAreTheWindow` covers later
  pools whose source window starts at the first time, and arrivals that mature by the
  evaluation: incremental pools, which the code accepts, may miss arrivals
  (section 4). The record order (origins,
  snapshot, input, Selections, cell sets) is then kept by every step and kill.
- `ReplaysReturnTheFirst`: in turns, what a killed replay left is completed and not
  redone. `ReplayInv`: the inputs of one origin are one, and what a runner returns
  of an origin is what the logs hold of it.

The end of `SelectionProofs` is about the files these records go to. It proves of
`EvidenceLog`, for any ids, bodies and observation times, from `EvidenceInv` (which
lines are on disk in every step of an append, and that a log that reads has every record
anybody was given):

- `WrittenEvidenceIsDurable`, `EvidenceReturnsAgree`, `EvidenceIsNeverSilentlyGone`. They
  assume `FsyncFlushesEntry`, without which the first claim is false, and the module's
  `CutsAreNoRecords`: what a cut leaves of a line is not taken for a record (a
  truncated line is no JSON object).

`WorkspaceProofs` proves, for any paths, texts, Checks and faults:

- `TypeInvariant`, `RecordsAreStorable`, and `HiddenIsSafe`, under no assumption. The
  last is about processes in the Agent's group or at its pipes, the ones
  `run_bounded_process` answers for.
- `ScoresMeasureTheAgent` and `BlameIsDeserved`, where no file has carriage returns
  (`OnlyLf`); with them the first finding refutes both. The first claims that the
  score is that of the files left only if git was intact and no process stayed
  (`Unimpaired`), and up to `Excluded`; the second exempts the labels that section 4
  lists. `WorkspaceInv` follows the diff from its capture over the replay to the
  record: it is well-formed whatever git reported and touches no excluded path, so
  those stay as in the base; in an unimpaired run it is exactly the diff of the files,
  which nobody changes any more; and what can make a run invalid has put its author
  into `guilty` or bears a listed label.

Model-checked only: all liveness, since ENABLED and fairness are beyond the prover.
These are `ImportEnds`, `CallEnds`, `PublicationEnds`, `FrozenGetsPublished`,
`RecordIsReturned`, `InterruptedCompletionSettles` and `AmendmentTakesEffect`. Every
invariant and every action property of the runs is a theorem. What a
recursive definition computes is not proved for all inputs; the folds of
`PaidLedger` are written as quantified conditions instead.

## 7. Not modelled

Schema validation, digests and canonical JSON are abstracted to equality of
records. Floating-point cost and statistics, selector training and scoring, the
numeric selectors, dependency clusters, report rendering, the CLI, the Result
matrix (a pure join of frozen sets) and the migration scripts are left out. Reuse
of a reaped group leader's process id is a hazard without a property; so are
fixed temporary names under concurrent writers.

Most of the repository's lines are research scripts under `examples/`:
single-process statistics over frozen Results, without state that outlives a
call. They are the reason why the models stand for a small share of all lines.
The exception is `model_agent_study/study.py`, whose paid runs are those of
`ReplicateCampaign` but which adds a resource ledger of its own: one JSON file under
a study lock, with receipts that arrive late and a budget guard that reserves for
them. Three things a model of it should start from: the preflights rewrite this
file without the lock, so a concurrent run's entry can be lost until a
reconciliation finds its Result; a cell interrupted before its payment leaves an
entry without a Result, next to the one of its later run, and reconciliation
refuses duplicate cells; and a lost entry is invisible to the rule that a block
starts only when the previous one has its receipts.
