---------------------------- MODULE EvaluationFill ----------------------------
(***************************************************************************)
(* How Runner turns requested evaluation cells into Results and frozen     *)
(* EvaluationCellSets: reuse what is persisted, run the missing cells one  *)
(* at a time under one Result Store session, reprice, resolve, and append  *)
(* the cell sets to a companion log that no lock protects.                 *)
(*                                                                         *)
(* A row is a Result: the cell it was paid for, which run of that cell it  *)
(* records, that run's scoreable state and the scoring view.  Rows of one  *)
(* cell share their cache identity; rows of one run share their execution  *)
(* digest.  A process may die, or raise, at every step.                    *)
(***************************************************************************)
EXTENDS Naturals, Sequences, FiniteSets

CONSTANTS
  Fillers,                \* processes that call Runner
  Cells,                  \* Agent/Task/Check cells of one Runtime identity
  Plans,                  \* selections with an Origin
  PlanCells,              \* the cells each plan requests
  Scorings,               \* scoring configs
  Outcomes,               \* scoreable states a run may end in
  ReuseBenchmarkInvalid,  \* ResultCacheConfig.reuse_benchmark_invalid
  AllowForced,            \* callers also use run_agents
  MaxRuns,                \* bound: paid runs of one cell
  Nobody, Missing

ASSUME FillConstants ==
  /\ PlanCells \in [Plans -> SUBSET Cells]
  /\ Outcomes \subseteq {"scoreable", "agent_invalid", "benchmark_invalid"}
  /\ ReuseBenchmarkInvalid \in BOOLEAN /\ AllowForced \in BOOLEAN
  /\ MaxRuns \in Nat
  /\ Nobody \notin Fillers

VARIABLES
  rows,     \* what the Result Store holds
  log,      \* the EvaluationCellSet log
  paid,     \* how many times each cell was run
  holder,   \* who holds the Result Store session
  pc,       \* where each process is
  forced,   \* the running call is run_agents
  scoring,  \* its scoring config
  pending,  \* plans whose cell set the call must still build and append
  todo,     \* cells it must still run
  product,  \* the row it is about to append
  bound     \* the cells it resolved under its session

vars == <<rows, log, paid, holder, pc, forced, scoring, pending, todo, product, bound>>
store == <<rows, log, paid, holder>>

Row == [cell : Cells, run : 1..MaxRuns, state : Outcomes, scoring : Scorings]
CellSetId == Plans \X Scorings
None == [cell |-> Missing]

Reusable(row) == row.state # "benchmark_invalid" \/ ReuseBenchmarkInvalid

\* Two executions under one cache identity: every later resolution raises.
Ambiguous == \E x, y \in rows : x.cell = y.cell /\ x.run # y.run

Views(c)      == {row \in rows : row.cell = c /\ Reusable(row)}
Union(plans)  == UNION {PlanCells[p] : p \in plans}
Repeated      == \E i, j \in DOMAIN log : i # j /\ log[i].id = log[j].id

\* The ids that the unlocked readers of the log find in it.
Persisted     == {log[i].id : i \in DOMAIN log}
Entry(id)     == log[CHOOSE i \in DOMAIN log : log[i].id = id]
BoundRows(cs) == {cs.bind[c] : c \in DOMAIN cs.bind} \ {None}

Init ==
  /\ rows = {} /\ log = <<>> /\ holder = Nobody
  /\ paid = [c \in Cells |-> 0]
  /\ pc = [f \in Fillers |-> "idle"]
  /\ forced = [f \in Fillers |-> FALSE]
  /\ scoring = [f \in Fillers |-> Missing]
  /\ pending = [f \in Fillers |-> {}]
  /\ todo = [f \in Fillers |-> {}]
  /\ product = [f \in Fillers |-> None]
  /\ bound = [f \in Fillers |-> <<>>]

Goto(f, at) == pc' = [pc EXCEPT ![f] = at]

\* The call ends: its session is closed and its locals are gone.
End(f) ==
  /\ Goto(f, "idle")
  /\ holder' = IF holder = f THEN Nobody ELSE holder
  /\ forced' = [forced EXCEPT ![f] = FALSE]
  /\ pending' = [pending EXCEPT ![f] = {}]
  /\ todo' = [todo EXCEPT ![f] = {}]
  /\ product' = [product EXCEPT ![f] = None]
  /\ bound' = [bound EXCEPT ![f] = <<>>]
  /\ scoring' = [scoring EXCEPT ![f] = Missing]
  /\ UNCHANGED <<rows, log, paid>>

--------------------------------------------------------------------------------

\* fill_results or prepare_evaluation_cells: read the cell-set log without a
\* lock and keep the plans whose cell set is not persisted yet.
Begin(f, plans, s) ==
  /\ pc[f] = "idle" /\ ~Repeated
  /\ scoring' = [scoring EXCEPT ![f] = s]
  /\ pending' = [pending EXCEPT ![f] = plans]
  /\ Goto(f, "planned")
  /\ UNCHANGED <<store, forced, todo, product, bound>>

Requested(f) == {<<p, scoring[f]>> : p \in pending[f]}

\* The Results bound by reusable cell sets are read back and compared.
CheckBindings(f) ==
  LET reused == Requested(f) \cap Persisted
      bindings == UNION {BoundRows(Entry(id)) : id \in reused}
  IN /\ pc[f] = "planned"
     /\ bindings # {} => holder = Nobody
     /\ IF bindings \subseteq rows /\ Requested(f) \notin SUBSET reused
          THEN /\ pending' = [pending EXCEPT ![f] = {p \in @ : <<p, scoring[f]>> \notin reused}]
               /\ Goto(f, "waiting")
               /\ UNCHANGED <<store, forced, scoring, todo, product, bound>>
          ELSE End(f)

\* run_agents: every requested cell is run, whatever the store holds.
RunAgents(f, cells, s) ==
  /\ AllowForced /\ pc[f] = "idle"
  /\ forced' = [forced EXCEPT ![f] = TRUE]
  /\ scoring' = [scoring EXCEPT ![f] = s]
  /\ todo' = [todo EXCEPT ![f] = cells]
  /\ Goto(f, "waiting")
  /\ UNCHANGED <<store, pending, product, bound>>

\* Mutant: the session is not exclusive.
OpenSession_Shared(f) ==
  /\ pc[f] = "waiting"
  /\ holder' = f
  /\ todo' = [todo EXCEPT ![f] =
                IF forced[f] THEN @ ELSE {c \in Union(pending[f]) : Views(c) = {}}]
  /\ Goto(f, "filling")
  /\ UNCHANGED <<rows, log, paid, forced, scoring, pending, product, bound>>

\* The Result Store session opens; find_missing_results runs under it.
OpenSession(f) ==
  /\ pc[f] = "waiting" /\ holder = Nobody
  /\ IF ~forced[f] /\ Ambiguous
       THEN End(f)
       ELSE /\ holder' = f
            /\ todo' = [todo EXCEPT ![f] =
                          IF forced[f] THEN @
                          ELSE {c \in Union(pending[f]) : Views(c) = {}}]
            /\ Goto(f, "filling")
            /\ UNCHANGED <<rows, log, paid, forced, scoring, pending, product, bound>>

\* One paid Agent run; its Result is appended before the next one starts.
RunCell(f, c, outcome) ==
  /\ pc[f] = "filling"
  /\ paid[c] < MaxRuns
  /\ c \in todo[f]
  /\ paid' = [paid EXCEPT ![c] = @ + 1]
  /\ product' = [product EXCEPT ![f] = [cell |-> c, run |-> paid[c] + 1,
                                        state |-> outcome, scoring |-> scoring[f]]]
  /\ Goto(f, "produced")
  /\ UNCHANGED <<rows, log, holder, forced, scoring, pending, todo, bound>>

StoreResult(f) ==
  /\ pc[f] = "produced"
  /\ rows' = rows \cup {product[f]}
  /\ todo' = [todo EXCEPT ![f] = @ \ {product[f].cell}]
  /\ product' = [product EXCEPT ![f] = None]
  /\ Goto(f, "filling")
  /\ UNCHANGED <<log, paid, holder, forced, scoring, pending, bound>>

RunAgentsReturns(f) ==
  /\ pc[f] = "filling" /\ forced[f] /\ todo[f] = {}
  /\ End(f)

\* Mutant: nothing is repriced and no view is added.
Repriced_Skipped(f) == {}

\* Reusable executions without the requested scoring view get one.
Repriced(f) ==
  {[row EXCEPT !.scoring = scoring[f]] :
     row \in UNION {Views(c) : c \in Union(pending[f])}}

Reprice(f) ==
  /\ pc[f] = "filling" /\ ~forced[f] /\ todo[f] = {}
  /\ IF Ambiguous
       THEN End(f)
       ELSE /\ rows' = rows \cup Repriced(f)
            /\ Goto(f, "repriced")
            /\ UNCHANGED <<log, paid, holder, forced, scoring, pending, todo,
                           product, bound>>

\* Mutant: any view of the cell is bound, whatever scoring was asked for.
View_AnyScoring(c, s) ==
  IF Views(c) = {} THEN None ELSE CHOOSE row \in Views(c) : TRUE

\* Each cell is bound to its view under the requested scoring, or missing,
\* and the session closes.
View(c, s) ==
  LET views == {row \in Views(c) : row.scoring = s}
  IN IF views = {} THEN None ELSE CHOOSE row \in views : TRUE

Resolve(f) ==
  /\ pc[f] = "repriced"
  /\ bound' = [bound EXCEPT ![f] =
                 [c \in Union(pending[f]) |-> View(c, scoring[f])]]
  /\ holder' = Nobody
  /\ Goto(f, "appending")
  /\ UNCHANGED <<rows, log, paid, forced, scoring, pending, todo, product>>

--------------------------------------------------------------------------------
(* _append_record_once on the cell-set log: a scan and a write, no lock.   *)

CellSet(f, p) ==
  [id |-> <<p, scoring[f]>>, bind |-> [c \in PlanCells[p] |-> bound[f][c]]]

\* The scan finds the same cell set, a conflict, or room for a new one.
ScanLog(f, p) ==
  LET id == <<p, scoring[f]>>
  IN /\ pc[f] = "appending" /\ p \in pending[f]
     /\ \/ /\ ~Repeated /\ id \notin Persisted
           /\ product' = [product EXCEPT ![f] = CellSet(f, p)]
           /\ Goto(f, "scanned")
           /\ UNCHANGED <<store, forced, scoring, pending, todo, bound>>
        \/ /\ ~Repeated /\ id \in Persisted /\ Entry(id) = CellSet(f, p)
           /\ pending' = [pending EXCEPT ![f] = @ \ {p}]
           /\ UNCHANGED <<store, pc, forced, scoring, todo, product, bound>>
        \/ /\ Repeated \/ (id \in Persisted /\ Entry(id) # CellSet(f, p))
           /\ End(f)

AppendCellSet(f) ==
  /\ pc[f] = "scanned"
  /\ log' = Append(log, product[f])
  /\ pending' = [pending EXCEPT ![f] = @ \ {product[f].id[1]}]
  /\ product' = [product EXCEPT ![f] = None]
  /\ Goto(f, "appending")
  /\ UNCHANGED <<rows, paid, holder, forced, scoring, todo, bound>>

Return(f) ==
  /\ pc[f] = "appending" /\ pending[f] = {}
  /\ End(f)

\* A kill, or an exception out of the Agent run or of a write.
Abort(f) == pc[f] # "idle" /\ End(f)

--------------------------------------------------------------------------------

Progress(f) ==
  \/ CheckBindings(f) \/ OpenSession(f)
  \/ \E c \in Cells, outcome \in Outcomes : RunCell(f, c, outcome)
  \/ StoreResult(f) \/ RunAgentsReturns(f) \/ Reprice(f) \/ Resolve(f)
  \/ \E p \in Plans : ScanLog(f, p)
  \/ AppendCellSet(f) \/ Return(f)

Next ==
  \E f \in Fillers :
    \/ \E plans \in (SUBSET Plans) \ {{}}, s \in Scorings : Begin(f, plans, s)
    \/ \E cells \in (SUBSET Cells) \ {{}}, s \in Scorings : RunAgents(f, cells, s)
    \/ Progress(f) \/ Abort(f)

Spec == Init /\ [][Next]_vars

--------------------------------------------------------------------------------
(* Properties.                                                             *)

\* Types of the store, the log and each process's locals.
TypeOK ==
  /\ rows \subseteq Row
  /\ \A i \in DOMAIN log : log[i].id \in CellSetId /\ BoundRows(log[i]) \subseteq Row
  /\ paid \in [Cells -> 0..MaxRuns]
  /\ holder \in Fillers \cup {Nobody}
  /\ pc \in [Fillers -> {"idle", "planned", "waiting", "filling", "produced",
                         "repriced", "appending", "scanned"}]
  /\ forced \in [Fillers -> BOOLEAN]
  /\ scoring \in [Fillers -> Scorings \cup {Missing}]
  /\ pending \in [Fillers -> SUBSET Plans]
  /\ todo \in [Fillers -> SUBSET Cells]

\* No cell is paid for while the store already holds a reusable Result of it,
\* whoever else fills, and wherever an earlier call was interrupted: only a
\* caller of run_agents, who asks for just that, pays again.
Forces(f, c) == forced[f] /\ pc[f] = "filling" /\ c \in todo[f]

NeverPaidAgain ==
  [][\A c \in Cells : paid'[c] # paid[c] =>
       Views(c) = {} \/ \E f \in Fillers : Forces(f, c)]_vars

\* One execution per cache identity: the store can be resolved for ever.
StoreUnambiguous == ~Ambiguous

\* Without forced runs, a second execution of a cell is stored only beside one
\* that the policy does not reuse: fills never duplicate a Result they could
\* have reused.
SecondRunsOnlyReplace ==
  \A x, y \in rows : x.cell = y.cell /\ x.run < y.run => ~Reusable(x)

\* A frozen cell set binds only stored Results, of its own cell and scoring.
FrozenBindingsStored ==
  \A i \in DOMAIN log : \A c \in DOMAIN log[i].bind :
    log[i].bind[c] # None =>
      /\ log[i].bind[c] \in rows
      /\ log[i].bind[c].cell = c
      /\ log[i].bind[c].scoring = log[i].id[2]

\* A cell is frozen as missing only after a run of it that the policy does
\* not reuse: a fill never freezes a cell it could have bound or run.
FrozenMissingWasRun ==
  \A i \in DOMAIN log : \A c \in DOMAIN log[i].bind :
    log[i].bind[c] = None => \E row \in rows : row.cell = c /\ ~Reusable(row)

\* The cell-set log never holds an id twice.
CellSetIdsUnique == ~Repeated

================================================================================
