---------------------------- MODULE RollingSelection ----------------------------
(***************************************************************************)
(* Selecting a benchmark on past Tasks and judging it on future ones.      *)
(* Source events are resolved and their Task and Check material becomes    *)
(* available as time passes; Task Pools certify what is there; Agents run  *)
(* and leave Results.  select_benchmark freezes a strict Selection before  *)
(* its future window opens, evaluate_prospective_selection judges it on a  *)
(* later Task Pool, and evaluate_selectors replays origins of a past pool. *)
(* Every record these append is fsynced before the next step and has an id *)
(* computed from its content, so a log is the set of its records.          *)
(*                                                                         *)
(* Every event certifies, the Selector takes the whole history, there is   *)
(* one Agent, and dependency clusters are left out.                        *)
(***************************************************************************)
EXTENDS Integers, FiniteSets, FiniteSetsExt

CONSTANTS
  Tasks,       \* source events, each with one Check once it is certified
  Runners,     \* processes that call the three operations
  MaxTime,     \* bound: the clock
  MaxPools,    \* bound: Task Pools that are built
  MaxCalls,    \* bound: operations, the killed ones left out
  MaxFaults,   \* bound: killed runners
  Calendars,   \* when the events may be resolved and their material available
  Windows,     \* the source windows of Task Pools
  Lag,         \* maturity_lag_seconds
  Strict,      \* the strict origin: its cutoff and its future window
  Replayed,    \* the counterfactual origins of a replay, likewise
  None

Times   == 0..MaxTime
Never   == MaxTime + 1
Origin  == [cutoff : Times, start : Times, end : Times]
ASSUME SelectionConstants ==
  /\ MaxTime \in Nat /\ MaxPools \in Nat /\ MaxCalls \in Nat /\ MaxFaults \in Nat /\ Lag \in Nat
  /\ Windows \subseteq [from : Times, to : Times]
  /\ Calendars \subseteq [Tasks -> [resolved : Times, material : Times, check : Times \cup {Never}]]
  /\ \A calendar \in Calendars, t \in Tasks : calendar[t].resolved <= calendar[t].material
  /\ {Strict} \cup Replayed \subseteq Origin
  /\ \A o \in {Strict} \cup Replayed : o.cutoff <= o.start /\ o.start <= o.end

VARIABLES
  now,         \* the clock
  when,        \* the calendar of the events, known up to now
  pools,       \* the published Task Pools
  results,     \* result_available_at of the Result of each Task
  origins, snapshots, inputs, selections, cellsets,  \* the companion logs
  op,          \* what each runner is doing
  replies,     \* history: what finished replays returned
  overlapped,  \* history: two operations were active at once
  calls, faults

logs  == <<origins, snapshots, inputs, selections, cellsets>>
world == <<now, when, pools, results>>
vars  == <<world, logs, op, replies, overlapped, calls, faults>>

Pool == [from : Times, to : Times, created : Times, tasks : SUBSET Tasks]
Idle == [at |-> "idle", job |-> "none", pool |-> None, sel |-> None, view |-> {}, todo |-> {}]

Init ==
  /\ now = 0
  /\ when \in Calendars
  /\ pools = {} /\ results = [t \in Tasks |-> Never]
  /\ origins = {} /\ snapshots = {} /\ inputs = {} /\ selections = {} /\ cellsets = {}
  /\ op = [p \in Runners |-> Idle]
  /\ replies = {} /\ overlapped = FALSE /\ calls = 0 /\ faults = 0

--------------------------------------------------------------------------------
(* The world: events, Task Pools (TaskPoolBuild), Results (EvaluationFill). *)

Tick ==
  /\ now < MaxTime
  /\ now' = now + 1
  /\ UNCHANGED <<when, pools, results, logs, op, replies, overlapped, calls, faults>>

\* A pool holds the events resolved in its source window whose material is there.
BuildPool(w) ==
  /\ Cardinality(pools) < MaxPools /\ w.to <= now
  /\ pools' = pools \cup
       {[from |-> w.from, to |-> w.to, created |-> now,
         tasks |-> {t \in Tasks : when[t].resolved \in w.from..w.to
                                  /\ when[t].material <= now /\ when[t].check <= now}]}
  /\ UNCHANGED <<now, when, results, logs, op, replies, overlapped, calls, faults>>

\* Somebody runs the Agent on a certified Task.
Deliver(t) ==
  /\ results[t] = Never /\ \E pool \in pools : t \in pool.tasks
  /\ results' = [results EXCEPT ![t] = now]
  /\ UNCHANGED <<now, when, pools, logs, op, replies, overlapped, calls, faults>>

--------------------------------------------------------------------------------
(* Cohorts: _rolling_origin_cohorts                                         *)

KnownAt_Material(t, pool, strict) == Max({when[t].material, when[t].check})

\* _task_check_known_at_for_policy
KnownAt(t, pool, strict) ==
  Max({when[t].material, when[t].check} \cup (IF strict THEN {pool.created} ELSE {}))

\* Arrivals up to the cutoff whose label was known by then.
History(pool, o, strict) ==
  {t \in pool.tasks : when[t].material <= o.cutoff /\ KnownAt(t, pool, strict) <= o.cutoff}
\* Arrivals in the future window; those that are not mature in time are censored.
Arrived(pool, o) ==
  {t \in pool.tasks : when[t].material > o.cutoff /\ when[t].material \in o.start..o.end}
Future(pool, o) == {t \in Arrived(pool, o) : KnownAt(t, pool, FALSE) <= o.end + Lag}

--------------------------------------------------------------------------------
(* Freezing a Selection: select_benchmark (job "select") and the first half *)
(* of evaluate_selectors (job "replay").                                    *)

Put(p, o)  == op' = [op EXCEPT ![p] = o]
Leave(p)   == Put(p, Idle)
Serving(p) == op[p].job = "select"
Mine(p)    == IF Serving(p) THEN {Strict} ELSE Replayed
OriginOf(p, o) == [origin |-> o, pool |-> op[p].pool, strict |-> Serving(p)]

Begin(p, job, pool, sel) ==
  /\ op[p] = Idle /\ calls < MaxCalls
  /\ calls' = calls + 1
  /\ Put(p, [Idle EXCEPT !.at = IF job = "judge" THEN "check" ELSE "origin",
                         !.job = job, !.pool = pool, !.sel = sel])
  /\ overlapped' = (overlapped \/ \E q \in Runners \ {p} : op[q] # Idle)
  /\ UNCHANGED <<world, logs, replies, faults>>

AppendOrigins(p) ==
  /\ op[p].at = "origin"
  /\ origins' = origins \cup {OriginOf(p, o) : o \in Mine(p)}
  /\ Put(p, [op[p] EXCEPT !.at = "read"])
  /\ UNCHANGED <<world, snapshots, inputs, selections, cellsets, replies, overlapped, calls, faults>>

\* _load_frozen_origin_material: the inputs an earlier replay froze for an origin.
Frozen_Forgotten(p, o) == {}
Frozen(p, o) == {i \in inputs : i.origin = OriginOf(p, o)}

\* The Results of history refs; a strict origin does not see later ones.
View(o, pool, strict) ==
  {t \in History(pool, o, strict) : results[t] # Never /\ (strict => results[t] <= o.cutoff)}

\* One read of the Result Store serves all origins that have no frozen input.
Read(p) ==
  LET pool == op[p].pool
      fresh == IF Serving(p) THEN Mine(p) ELSE {o \in Mine(p) : Frozen(p, o) = {}} IN
  /\ op[p].at = "read"
  /\ IF ~Serving(p) /\ \E o \in Mine(p) : Cardinality(Frozen(p, o)) > 1
     THEN Leave(p)
     ELSE Put(p, [op[p] EXCEPT
            !.at   = "snapshot",
            !.view = {[origin |-> OriginOf(p, o), refs |-> History(pool, o, Serving(p)),
                       view |-> View(o, pool, Serving(p))] : o \in fresh}
                     \cup (IF Serving(p) THEN {} ELSE UNION {Frozen(p, o) : o \in Mine(p)}),
            !.todo = fresh])
  /\ UNCHANGED <<world, logs, replies, overlapped, calls, faults>>

InputOf(p, o) == CHOOSE i \in op[p].view : i.origin = OriginOf(p, o)
\* The origins are taken in the order of their times.
First(p) == CHOOSE o \in op[p].todo : \A q \in op[p].todo : o.cutoff <= q.cutoff

AppendSnapshot_AfterInput(p) ==
  /\ op[p].at = "snapshot" /\ op[p].todo # {}
  /\ inputs' = inputs \cup {InputOf(p, First(p))}
  /\ Put(p, [op[p] EXCEPT !.at = "input"])
  /\ UNCHANGED <<world, origins, snapshots, selections, cellsets, replies, overlapped, calls, faults>>

\* The FeatureSnapshot of the next origin, and then its SelectorInput.
AppendSnapshot(p) ==
  /\ op[p].at = "snapshot" /\ op[p].todo # {}
  /\ snapshots' = snapshots \cup {InputOf(p, First(p))}
  /\ Put(p, [op[p] EXCEPT !.at = "input"])
  /\ UNCHANGED <<world, origins, inputs, selections, cellsets, replies, overlapped, calls, faults>>

AppendInput(p) ==
  /\ op[p].at = "input"
  /\ inputs' = inputs \cup {InputOf(p, First(p))}
  /\ Put(p, [op[p] EXCEPT !.at = "snapshot", !.todo = @ \ {First(p)}])
  /\ UNCHANGED <<world, origins, snapshots, selections, cellsets, replies, overlapped, calls, faults>>

\* The Selections of all origins; an empty history is an error.  A Selection that
\* is already there keeps its created_at.
AppendSelections(p) ==
  /\ op[p].at = "snapshot" /\ op[p].todo = {}
  /\ IF \E i \in op[p].view : i.refs = {}
     THEN Leave(p) /\ UNCHANGED selections
     ELSE LET new == {i \in op[p].view : \A s \in selections : s.input # i} IN
          /\ selections' = selections \cup {[input |-> i, created |-> now] : i \in new}
          /\ IF Serving(p) THEN Leave(p) ELSE Put(p, [op[p] EXCEPT !.at = "fill"])
  /\ UNCHANGED <<world, origins, snapshots, inputs, cellsets, replies, overlapped, calls, faults>>

--------------------------------------------------------------------------------
(* Judging it: materialize_prospective_future_cohort and the fill.          *)

InTime_Early(sel, later) ==
  LET o == sel.input.origin.origin IN
  /\ sel.input.origin.pool.created <= sel.created /\ sel.created < o.start
  /\ later.created > sel.created

\* _validate_prospective_times
InTime(sel, later) ==
  LET o == sel.input.origin.origin IN
  /\ sel.input.origin.pool.created <= sel.created /\ sel.created < o.start
  /\ later.created > sel.created
  /\ later.created >= o.end + Lag
\* _validate_prospective_source_windows
Covers(sel, later) ==
  later.from <= sel.input.origin.origin.start /\ later.to >= sel.input.origin.origin.end

\* The records are loaded and replayed, and the later pool is checked.
Check(p) ==
  LET sel == op[p].sel IN
  /\ op[p].at = "check"
  /\ IF /\ sel.input \in inputs \cap snapshots /\ sel.input.origin \in origins
        /\ \A t \in sel.input.view : results[t] # Never
        /\ op[p].pool # sel.input.origin.pool
        /\ InTime(sel, op[p].pool) /\ Covers(sel, op[p].pool)
     THEN Put(p, [op[p] EXCEPT !.at = "fill"])
     ELSE Leave(p)
  /\ UNCHANGED <<world, logs, replies, overlapped, calls, faults>>

\* The Selections a call evaluates, and the refs each is judged on.
Judged(p) ==
  IF op[p].job = "judge" THEN {op[p].sel}
  ELSE {s \in selections : s.input \in op[p].view}
Cohort(p, s)  == Future(op[p].pool, s.input.origin.origin)
Wanted(p) == UNION {s.input.refs \cup Cohort(p, s) : s \in Judged(p)}
CellSet(p, s) ==
  [sel |-> s, pool |-> op[p].pool, future |-> Cohort(p, s),
   censored |-> Arrived(op[p].pool, s.input.origin.origin) \ Cohort(p, s)]

\* The missing cells are run one after the other ...
Fill(p) ==
  /\ op[p].at = "fill"
  /\ \E t \in Wanted(p) : results[t] = Never /\ results' = [results EXCEPT ![t] = now]
  /\ UNCHANGED <<now, when, pools, logs, op, replies, overlapped, calls, faults>>
\* ... and the cell sets are frozen and scored.
Freeze(p) ==
  /\ op[p].at = "fill" /\ \A t \in Wanted(p) : results[t] # Never
  /\ cellsets' = cellsets \cup {CellSet(p, s) : s \in Judged(p)}
  /\ replies' = IF op[p].job = "replay"
                THEN replies \cup {[pool |-> op[p].pool, sels |-> Judged(p)]} ELSE replies
  /\ Leave(p)
  /\ UNCHANGED <<world, origins, snapshots, inputs, selections, overlapped, calls, faults>>

Kill(p) ==
  /\ op[p] # Idle /\ faults < MaxFaults
  /\ Leave(p) /\ faults' = faults + 1 /\ calls' = calls - 1
  /\ UNCHANGED <<world, logs, replies, overlapped>>

Step(p) ==
  \/ AppendOrigins(p) \/ Read(p) \/ AppendSnapshot(p) \/ AppendInput(p) \/ AppendSelections(p)
  \/ Check(p) \/ Fill(p) \/ Freeze(p)
Calls(p) ==
  \/ \E job \in {"select", "replay"}, pool \in pools : Begin(p, job, pool, None)
  \/ \E s \in {s \in selections : s.input.origin.strict}, pool \in pools : Begin(p, "judge", pool, s)
Next ==
  \/ Tick
  \/ \E t \in Tasks : Deliver(t)
  \/ \E w \in Windows : BuildPool(w)
  \/ \E p \in Runners : Calls(p) \/ Step(p) \/ Kill(p)
Spec == Init /\ [][Next]_vars

--------------------------------------------------------------------------------
(* Properties                                                              *)

\* What a strict Selection is made from was there at its cutoff: the Tasks, their Checks
\* and the Results it read.  Of each Task it is judged on, neither the material nor a
\* Result was known when it was made.
NoLookAhead ==
  /\ \A s \in selections : s.input.origin.strict =>
       LET o == s.input.origin IN
       /\ o.pool.created <= o.origin.cutoff
       /\ \A t \in s.input.refs : when[t].material <= o.origin.cutoff /\ when[t].check <= o.origin.cutoff
       /\ \A t \in s.input.view : results[t] <= o.origin.cutoff
  /\ \A c \in cellsets : c.sel.input.origin.strict =>
       \A t \in c.future : Min({when[t].material, results[t]}) > c.sel.created

\* A later pool whose source window starts early enough judges a Selection on every
\* arrival of its window that matures in time, whichever such pool it is.
CohortIsTheWindow ==
  \A c \in cellsets : (c.sel.input.origin.strict /\ c.pool.from = 0) =>
    LET o == c.sel.input.origin.origin IN
    c.future = {t \in Tasks : /\ when[t].material > o.cutoff /\ when[t].material \in o.start..o.end
                              /\ Max({when[t].material, when[t].check}) <= o.end + Lag}

\* A replay repeated after Results have arrived, or after a killed one, returns the
\* Selections of the first.
ReplaysAgree ==
  ~overlapped => \A a, b \in replies : a.pool = b.pool => a.sels = b.sels

\* Whatever a persisted record names is persisted, wherever a runner was killed.
RecordsResolve ==
  /\ inputs \subseteq snapshots /\ {i.origin : i \in snapshots} \subseteq origins
  /\ {s.input : s \in selections} \subseteq inputs
  /\ {c.sel : c \in cellsets} \subseteq selections
  /\ \A i \in inputs : \A t \in i.view : results[t] # Never
================================================================================
