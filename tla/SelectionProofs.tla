--------------------------- MODULE SelectionProofs ---------------------------
(***************************************************************************)
(* Theorems about RollingSelection, for any Tasks, runners, calendars,     *)
(* Task Pools, origins and lags: a strict Selection looks neither ahead    *)
(* nor back, a prospective cohort is exactly its window, every record that *)
(* a persisted record names is persisted, and a replay returns what the    *)
(* first one did.  At the end, theorems about EvidenceLog, which is how    *)
(* one of the logs of these records is kept in a file.                     *)
(***************************************************************************)
EXTENDS RollingSelection, EvidenceLog, WellFoundedInduction, TLAPS

OriginRecord == [origin : Origin, pool : Pool, strict : BOOLEAN]
Input == [origin : OriginRecord, refs : SUBSET Tasks, view : SUBSET Tasks]
Selected == [input : Input, created : Times]
Op == [at : {"idle", "origin", "read", "snapshot", "input", "check", "fill"},
       job : {"none", "select", "replay", "judge"}, pool : Pool \cup {None},
       sel : Selected \cup {None}, view : SUBSET Input, todo : SUBSET Origin]

\* A pool holds what its window and its creation let it hold; a Result comes after
\* the material of its Task.
WorldInv ==
  /\ now \in Times /\ when \in Calendars
  /\ results \in [Tasks -> Times \cup {Never}]
  /\ \A t \in Tasks : results[t] # Never => when[t].material <= results[t] /\ results[t] <= now
  /\ \A pool \in pools :
       /\ pool \in Pool /\ pool.created <= now
       /\ pool.tasks = {t \in Tasks : /\ when[t].resolved \in pool.from..pool.to
                                      /\ when[t].material <= pool.created
                                      /\ when[t].check <= pool.created}

\* An input was made from the history of its origin and from Results seen in time.
Good(i) ==
  /\ i \in Input /\ i.origin.pool \in pools
  /\ i.refs = History(i.origin.pool, i.origin.origin, i.origin.strict)
  /\ \A t \in i.view : /\ results[t] # Never
                       /\ i.origin.strict => results[t] <= i.origin.origin.cutoff

InputsInv ==
  /\ \A i \in snapshots : Good(i) /\ i.origin \in origins
  /\ inputs \subseteq snapshots
SelectionsInv ==
  \A s \in selections : s \in Selected /\ s.input \in inputs /\ s.input.refs # {}
CellsetsInv ==
  \A c \in cellsets :
    /\ c.sel \in selections /\ c.pool \in pools
    /\ c.sel.input.origin.strict =>
         /\ c.future = Future(c.pool, c.sel.input.origin.origin)
         /\ InTime(c.sel, c.pool) /\ Covers(c.sel, c.pool)
RecordsInv == InputsInv /\ SelectionsInv /\ CellsetsInv

\* Between the read and the last record a runner knows one input for each origin it
\* has still to freeze, and every other input it knows is frozen.
Freezes(p) ==
  /\ \A i \in op[p].view :
       /\ Good(i) /\ i.origin \in origins
       /\ i \in inputs \/ \E o \in op[p].todo : i.origin = OriginOf(p, o)
  /\ \A o \in op[p].todo : \E i \in op[p].view : i.origin = OriginOf(p, o)
  /\ \A i, j \in op[p].view : i.origin = j.origin /\ (\E o \in op[p].todo : i.origin = OriginOf(p, o)) => i = j

RunnerInv(p) ==
  /\ op[p].at # "idle" => op[p].pool \in pools
  /\ op[p].at \in {"origin", "read", "snapshot", "input"} => op[p].job \in {"select", "replay"}
  /\ op[p].at = "check" => op[p].job = "judge"
  /\ op[p].at = "fill" => op[p].job \in {"judge", "replay"}
  /\ op[p].job = "judge" => op[p].sel \in selections
  /\ op[p].at = "read" => \A o \in Mine(p) : OriginOf(p, o) \in origins
  /\ op[p].at \in {"snapshot", "input"} => Freezes(p)
  /\ op[p].at \in {"snapshot", "input", "fill"} /\ op[p].job = "replay" =>
       \A i \in op[p].view : ~i.origin.strict
  /\ op[p].at = "input" => op[p].todo # {} /\ InputOf(p, First(p)) \in snapshots
  /\ op[p].at = "fill" /\ op[p].job = "judge" =>
       InTime(op[p].sel, op[p].pool) /\ Covers(op[p].sel, op[p].pool)

SelectionInv ==
  /\ WorldInv /\ RecordsInv /\ op \in [Runners -> Op]
  /\ \A p \in Runners : RunnerInv(p)

--------------------------------------------------------------------------------
(* Numbers.                                                                *)

\* A set of naturals has a least element.
LEMMA NaturalsHaveMinima ==
  ASSUME NEW S \in SUBSET Nat, S # {}
  PROVE  \E m \in S : \A n \in S : m <= n
<1> DEFINE R == OpToRel(<, Nat)
<1>1. IsWellFoundedOn(R, Nat)
  BY NatLessThanWellFounded
<1>2. \E m \in S : \A n \in S : <<n, m>> \notin R
  <2> HIDE DEF R
  <2> QED
    BY <1>1, WFMin
<1>3. \A m, n \in Nat : <<n, m>> \notin R => m <= n
  BY DEF OpToRel
<1> QED
  BY <1>2, <1>3

\* The later of two times, and of three; the earlier of two.
LEMMA MaxOfTwo ==
  ASSUME NEW x \in Int, NEW y \in Int
  PROVE  Max({x, y}) \in {x, y} /\ x <= Max({x, y}) /\ y <= Max({x, y})
<1>1. \E m \in {x, y} : \A n \in {x, y} : m >= n
  OBVIOUS
<1> QED
  BY <1>1 DEF Max

LEMMA MaxOfThree ==
  ASSUME NEW x \in Int, NEW y \in Int, NEW z \in Int
  PROVE  /\ Max({x, y} \cup {z}) \in {x, y, z}
         /\ x <= Max({x, y} \cup {z}) /\ y <= Max({x, y} \cup {z}) /\ z <= Max({x, y} \cup {z})
<1>1. \E m \in {x, y} \cup {z} : \A n \in {x, y} \cup {z} : m >= n
  OBVIOUS
<1> QED
  BY <1>1 DEF Max

LEMMA MinOfTwo ==
  ASSUME NEW x \in Int, NEW y \in Int
  PROVE  Min({x, y}) \in {x, y} /\ Min({x, y}) <= x /\ Min({x, y}) <= y
<1>1. \E m \in {x, y} : \A n \in {x, y} : m <= n
  OBVIOUS
<1> QED
  BY <1>1 DEF Min

\* Times are naturals, and Never is after all of them.
LEMMA TimesAreNaturals ==
  /\ Times \subseteq Nat /\ Never \in Nat /\ Never \notin Times
  /\ \A x \in Times : x < Never
  /\ \A o \in Origin : o.cutoff \in Times /\ o.start \in Times /\ o.end \in Times
  BY SelectionConstants DEF Times, Never, Origin

LEMMA CalendarTimes ==
  ASSUME WorldInv, NEW t \in Tasks
  PROVE  /\ when[t].resolved \in Nat /\ when[t].material \in Nat /\ when[t].check \in Nat
         /\ when[t].resolved <= when[t].material
         /\ results[t] \in Nat
  BY SelectionConstants, TimesAreNaturals DEF WorldInv

\* A label of a strict origin was known when its pool had been created.
LEMMA KnownAtBounds ==
  ASSUME WorldInv, NEW pool \in Pool, NEW t \in Tasks, NEW strict \in BOOLEAN
  PROVE  /\ KnownAt(t, pool, strict) \in Nat
         /\ when[t].material <= KnownAt(t, pool, strict)
         /\ when[t].check <= KnownAt(t, pool, strict)
         /\ strict => pool.created <= KnownAt(t, pool, strict)
         /\ ~strict => KnownAt(t, pool, strict) = Max({when[t].material, when[t].check})
<1>1. when[t].material \in Nat /\ when[t].check \in Nat /\ pool.created \in Nat
  BY CalendarTimes, TimesAreNaturals DEF Pool
<1>2. PICK x \in Int, y \in Int, z \in Int :
        x = when[t].material /\ y = when[t].check /\ z = pool.created
  BY <1>1
<1>3. CASE strict
  <2>1. KnownAt(t, pool, strict) = Max({x, y} \cup {z})
    BY <1>2, <1>3 DEF KnownAt
  <2>2. PICK m : m = KnownAt(t, pool, strict) /\ m \in {x, y, z} /\ x <= m /\ y <= m /\ z <= m
    BY <2>1, MaxOfThree
  <2> QED
    BY <1>1, <1>2, <1>3, <2>2
<1>4. CASE ~strict
  <2>1. {x, y} \cup {} = {x, y}
    OBVIOUS
  <2>2. KnownAt(t, pool, strict) = Max({x, y})
    BY <1>2, <1>4, <2>1 DEF KnownAt
  <2>3. PICK m : m = KnownAt(t, pool, strict) /\ m \in {x, y} /\ x <= m /\ y <= m
    BY <2>2, MaxOfTwo
  <2>4. m = Max({when[t].material, when[t].check})
    BY <1>2, <2>2, <2>3
  <2> QED
    BY <1>1, <1>2, <1>4, <2>3, <2>4
<1> QED
  BY <1>3, <1>4

--------------------------------------------------------------------------------
(* What no step takes away.                                                *)

Grows ==
  /\ when' = when /\ pools \subseteq pools'
  /\ \A t \in Tasks : results[t] # Never => results'[t] = results[t]
  /\ origins \subseteq origins' /\ snapshots \subseteq snapshots' /\ inputs \subseteq inputs'
  /\ selections \subseteq selections'

LEMMA GoodStays ==
  ASSUME Grows, NEW i, Good(i)
  PROVE  Good(i)'
  BY DEF Grows, Good, History, KnownAt, Input

LEMMA RecordsStay ==
  ASSUME SelectionInv, Grows, UNCHANGED logs
  PROVE  RecordsInv'
<1> USE DEF logs, SelectionInv, RecordsInv
<1>1. InputsInv'
  BY GoodStays DEF InputsInv
<1>2. SelectionsInv'
  BY DEF SelectionsInv
<1>3. CellsetsInv'
  BY DEF CellsetsInv, Grows, Future, Arrived, KnownAt, InTime, Covers
<1> QED
  BY <1>1, <1>2, <1>3

LEMMA RunnerStays ==
  ASSUME SelectionInv, Grows, NEW p \in Runners, op'[p] = op[p]
  PROVE  RunnerInv(p)'
<1>0. RunnerInv(p)
  BY DEF SelectionInv
<1>1. /\ \A o : OriginOf(p, o)' = OriginOf(p, o)
      /\ Mine(p)' = Mine(p)
  BY DEF OriginOf, Mine, Serving
<1>2. First(p)' = First(p)
  BY DEF First
<1>3. \A o : InputOf(p, o)' = InputOf(p, o)
  BY <1>1 DEF InputOf, OriginOf, Serving
<1>4. Freezes(p) => Freezes(p)'
  BY <1>1, GoodStays DEF Freezes, Grows
<1> QED
  BY <1>0, <1>1, <1>2, <1>3, <1>4 DEF RunnerInv, Grows, InTime, Covers

\* A step of one runner: the others are where they were.
LEMMA OneRunnerMoves ==
  ASSUME SelectionInv, Grows, WorldInv', RecordsInv', NEW p \in Runners, NEW o \in Op,
         Put(p, o), RunnerInv(p)'
  PROVE  SelectionInv'
<1>1. op' \in [Runners -> Op] /\ \A q \in Runners \ {p} : op'[q] = op[q]
  BY DEF SelectionInv, Put
<1>2. \A q \in Runners \ {p} : RunnerInv(q)'
  BY <1>1, RunnerStays
<1> QED
  BY <1>1, <1>2 DEF SelectionInv

\* A step that changes the world or nothing, and no runner.
LEMMA NobodyMoves ==
  ASSUME SelectionInv, Grows, WorldInv', UNCHANGED logs, UNCHANGED op
  PROVE  SelectionInv'
<1>1. \A p \in Runners : RunnerInv(p)'
  BY RunnerStays
<1> QED
  BY <1>1, RecordsStay DEF SelectionInv

LEMMA WorldStays ==
  ASSUME WorldInv, UNCHANGED world
  PROVE  WorldInv'
  BY DEF WorldInv, world

LEMMA IdleIsTyped == Idle \in Op
  BY DEF Idle, Op

\* A runner that ends its call, killed or not.
LEMMA LeaveKeeps ==
  ASSUME SelectionInv, NEW p \in Runners, Leave(p), UNCHANGED <<world, logs>>
  PROVE  SelectionInv'
<1>1. Grows
  BY DEF Grows, world, logs
<1>2. op'[p] = Idle
  BY DEF SelectionInv, Leave, Put
<1>3. RunnerInv(p)'
  BY <1>2 DEF RunnerInv, Idle
<1> QED
  BY <1>1, <1>3, IdleIsTyped, RecordsStay, WorldStays, OneRunnerMoves DEF SelectionInv, Leave

--------------------------------------------------------------------------------
(* The world.                                                              *)

LEMMA TickKeeps ==
  ASSUME SelectionInv, Tick
  PROVE  SelectionInv'
<1>1. now' \in Times /\ now <= now' /\ UNCHANGED <<when, pools, results>>
  BY SelectionConstants DEF Tick, SelectionInv, WorldInv, Times
<1>2. \A pool \in pools : pool.created \in Nat
  BY TimesAreNaturals DEF SelectionInv, WorldInv, Pool
<1>3. WorldInv'
  <2> USE DEF WorldInv
  <2>1. WorldInv
    BY DEF SelectionInv
  <2>2. now \in Nat /\ now' \in Nat
    BY <1>1, <2>1, TimesAreNaturals
  <2>3. \A t \in Tasks : results[t] # Never => when[t].material <= results[t] /\ results[t] <= now'
    <3> SUFFICES ASSUME NEW t \in Tasks, results[t] # Never
                 PROVE  when[t].material <= results[t] /\ results[t] <= now'
      OBVIOUS
    <3>1. when[t].material <= results[t] /\ results[t] <= now
      BY <2>1
    <3>2. results[t] \in Nat
      BY <2>1, CalendarTimes
    <3> QED
      BY <1>1, <2>2, <3>1, <3>2
  <2>4. \A pool \in pools : pool.created <= now'
    <3> SUFFICES ASSUME NEW pool \in pools PROVE pool.created <= now'
      OBVIOUS
    <3>1. pool.created \in Nat /\ pool.created <= now
      BY <1>2, <2>1
    <3> QED
      BY <1>1, <2>2, <3>1
  <2> QED
    BY <1>1, <2>1, <2>3, <2>4
<1>4. Grows
  BY <1>1 DEF Grows, Tick, logs
<1> QED
  BY <1>3, <1>4, NobodyMoves DEF Tick

\* A new pool holds what is there now.
LEMMA BuildPoolKeeps ==
  ASSUME SelectionInv, NEW w \in Windows, BuildPool(w)
  PROVE  SelectionInv'
<1> DEFINE pool == [from |-> w.from, to |-> w.to, created |-> now,
                    tasks |-> {t \in Tasks : when[t].resolved \in w.from..w.to
                                             /\ when[t].material <= now /\ when[t].check <= now}]
<1>1. pool \in Pool /\ pools' = pools \cup {pool} /\ UNCHANGED <<now, when, results, logs, op>>
  BY SelectionConstants DEF BuildPool, Pool, SelectionInv, WorldInv
<1>2. WorldInv'
  <2>1. /\ pool.created <= now
        /\ pool.tasks = {t \in Tasks : /\ when[t].resolved \in pool.from..pool.to
                                       /\ when[t].material <= pool.created
                                       /\ when[t].check <= pool.created}
    BY TimesAreNaturals DEF SelectionInv, WorldInv
  <2> HIDE DEF pool
  <2> QED
    BY <1>1, <2>1 DEF SelectionInv, WorldInv
<1>3. Grows
  BY <1>1 DEF Grows, logs
<1> QED
  BY <1>1, <1>2, <1>3, NobodyMoves

\* A Result of a Task that a pool holds.
LEMMA OneResult ==
  ASSUME SelectionInv, NEW t \in Tasks, NEW pool \in pools, t \in pool.tasks,
         results[t] = Never, results' = [results EXCEPT ![t] = now],
         UNCHANGED <<now, when, pools, logs, op>>
  PROVE  SelectionInv'
<1>1. when[t].material <= pool.created /\ pool.created <= now /\ pool.created \in Nat /\ now \in Times
  BY TimesAreNaturals DEF SelectionInv, WorldInv, Pool
<1>2. when[t].material <= now /\ now <= now
  BY <1>1, CalendarTimes, TimesAreNaturals DEF SelectionInv
<1>3. WorldInv'
  <2>1. results' \in [Tasks -> Times \cup {Never}] /\ results'[t] = now
        /\ \A u \in Tasks \ {t} : results'[u] = results[u]
    BY <1>1 DEF SelectionInv, WorldInv
  <2>2. \A u \in Tasks : results'[u] # Never => when[u].material <= results'[u] /\ results'[u] <= now
    BY <1>2, <2>1 DEF SelectionInv, WorldInv
  <2> QED
    BY <2>1, <2>2 DEF SelectionInv, WorldInv
<1>4. Grows
  BY DEF Grows, SelectionInv, WorldInv, logs
<1> QED
  BY <1>3, <1>4, NobodyMoves

\* What an input or a cohort names is in a pool.
LEMMA WantedIsPooled ==
  ASSUME SelectionInv, NEW p \in Runners, op[p].at = "fill", NEW t \in Wanted(p)
  PROVE  \E pool \in pools : t \in pool.tasks /\ t \in Tasks
<1>1. op[p].pool \in pools /\ op[p].job \in {"judge", "replay"} /\ RunnerInv(p)
  BY DEF SelectionInv, RunnerInv
<1>2. Judged(p) \subseteq selections
  BY <1>1 DEF Judged, RunnerInv
<1>3. \A s \in selections : Good(s.input)
  BY DEF SelectionInv, RecordsInv, SelectionsInv, InputsInv
<1>4. \A pool \in pools : pool.tasks \subseteq Tasks
  BY DEF SelectionInv, WorldInv
<1>5. ASSUME NEW s \in Judged(p), t \in s.input.refs
      PROVE  t \in s.input.origin.pool.tasks /\ s.input.origin.pool \in pools
  BY <1>2, <1>3, <1>5 DEF Good, History
<1>6. ASSUME NEW s \in Judged(p), t \in Cohort(p, s)
      PROVE  t \in op[p].pool.tasks
  BY <1>6 DEF Cohort, Future, Arrived
<1> QED
  BY <1>1, <1>4, <1>5, <1>6 DEF Wanted

LEMMA FillKeeps ==
  ASSUME SelectionInv, NEW p \in Runners, Fill(p)
  PROVE  SelectionInv'
<1>1. PICK t \in Wanted(p) : results[t] = Never /\ results' = [results EXCEPT ![t] = now]
  BY DEF Fill
<1>2. PICK pool \in pools : t \in pool.tasks /\ t \in Tasks
  BY WantedIsPooled DEF Fill
<1> QED
  BY <1>1, <1>2, OneResult DEF Fill

LEMMA DeliverKeeps ==
  ASSUME SelectionInv, NEW t \in Tasks, Deliver(t)
  PROVE  SelectionInv'
<1>1. PICK pool \in pools : t \in pool.tasks
  BY DEF Deliver
<1> QED
  BY <1>1, OneResult DEF Deliver

--------------------------------------------------------------------------------
(* Freezing.                                                               *)

\* The origins a call serves.
LEMMA MineIsTyped ==
  ASSUME SelectionInv, NEW p \in Runners
  PROVE  Mine(p) \subseteq Origin /\ Serving(p) \in BOOLEAN
  BY SelectionConstants DEF Mine, Serving

LEMMA OriginIsTyped ==
  ASSUME SelectionInv, NEW p \in Runners, op[p].at # "idle", NEW o \in Origin
  PROVE  /\ op[p].pool \in Pool /\ OriginOf(p, o) \in OriginRecord
         /\ OriginOf(p, o).origin = o /\ OriginOf(p, o).pool = op[p].pool
         /\ OriginOf(p, o).strict = Serving(p)
<1>1. op[p].pool \in Pool
  BY DEF SelectionInv, RunnerInv, WorldInv
<1> QED
  BY <1>1 DEF OriginOf, OriginRecord, Serving

LEMMA BeginKeeps ==
  ASSUME SelectionInv, NEW p \in Runners, Calls(p)
  PROVE  SelectionInv'
<1> DEFINE At(job) == IF job = "judge" THEN "check" ELSE "origin"
<1>1. PICK job \in {"select", "replay", "judge"}, pool \in pools, sel \in Selected \cup {None} :
        /\ Begin(p, job, pool, sel)
        /\ job = "judge" => sel \in selections
  <2>1. selections \subseteq Selected
    BY DEF SelectionInv, RecordsInv, SelectionsInv
  <2> QED
    BY <2>1 DEF Calls
<1>2. PICK o : o = [Idle EXCEPT !.at = At(job), !.job = job, !.pool = pool, !.sel = sel]
  OBVIOUS
<1>3. Put(p, o) /\ UNCHANGED <<world, logs>>
  BY <1>1, <1>2 DEF Begin
<1>4. /\ o \in Op /\ o.at = At(job) /\ o.job = job /\ o.pool = pool /\ o.sel = sel
  <2>1. pool \in Pool
    BY DEF SelectionInv, WorldInv
  <2> QED
    BY <1>2, <2>1 DEF Op, Idle
<1>5. op'[p] = o /\ Grows
  BY <1>3 DEF SelectionInv, Put, Grows, world, logs
<1>6. RunnerInv(p)'
  BY <1>1, <1>4, <1>5 DEF RunnerInv, Grows
<1> QED
  BY <1>3, <1>4, <1>5, <1>6, RecordsStay, WorldStays, OneRunnerMoves DEF SelectionInv

LEMMA AppendOriginsKeeps ==
  ASSUME SelectionInv, NEW p \in Runners, AppendOrigins(p)
  PROVE  SelectionInv'
<1>1. PICK o : o = [op[p] EXCEPT !.at = "read"]
  OBVIOUS
<1>2. /\ Put(p, o) /\ UNCHANGED <<world, snapshots, inputs, selections, cellsets>>
      /\ origins' = origins \cup {OriginOf(p, a) : a \in Mine(p)}
      /\ op[p].at = "origin"
  BY <1>1 DEF AppendOrigins
<1>3. op[p] \in Op /\ RunnerInv(p)
  BY DEF SelectionInv
<1>4. o \in Op /\ o.at = "read" /\ o.job = op[p].job /\ o.pool = op[p].pool /\ o.sel = op[p].sel
  BY <1>1, <1>3 DEF Op
<1>5. op'[p] = o /\ Grows
  BY <1>2 DEF SelectionInv, Put, Grows, world
<1>6. /\ Mine(p)' = Mine(p) /\ \A a : OriginOf(p, a)' = OriginOf(p, a)
  BY <1>4, <1>5 DEF Mine, OriginOf, Serving
<1>7. RunnerInv(p)'
  BY <1>2, <1>3, <1>4, <1>5, <1>6 DEF RunnerInv, Grows
<1>8. RecordsInv'
  BY <1>2, <1>5, GoodStays
     DEF SelectionInv, RecordsInv, InputsInv, SelectionsInv, CellsetsInv, world, Future, Arrived, KnownAt, InTime, Covers
<1> QED
  BY <1>2, <1>4, <1>5, <1>7, <1>8, WorldStays, OneRunnerMoves DEF SelectionInv

\* Every origin of a replay has inputs of an earlier one, all of this origin.
LEMMA FrozenInputs ==
  ASSUME SelectionInv, NEW p \in Runners, NEW o, NEW i \in Frozen(p, o)
  PROVE  i \in inputs /\ Good(i) /\ i.origin = OriginOf(p, o) /\ i.origin \in origins
  BY DEF Frozen, SelectionInv, RecordsInv, InputsInv

\* The read makes one sound input for each origin that has none.
LEMMA ReadKeeps ==
  ASSUME SelectionInv, NEW p \in Runners, Read(p)
  PROVE  SelectionInv'
<1> DEFINE pool == op[p].pool
           fresh == IF Serving(p) THEN Mine(p) ELSE {a \in Mine(p) : Frozen(p, a) = {}}
           Made(a) == [origin |-> OriginOf(p, a), refs |-> History(pool, a, Serving(p)),
                       view |-> View(a, pool, Serving(p))]
           old == IF Serving(p) THEN {} ELSE UNION {Frozen(p, a) : a \in Mine(p)}
           view == {Made(a) : a \in fresh} \cup old
<1>0. /\ op[p] \in Op /\ RunnerInv(p) /\ op[p].at = "read" /\ pool \in pools /\ pool \in Pool
      /\ op[p].job \in {"select", "replay"} /\ UNCHANGED <<world, logs>>
  BY DEF SelectionInv, RunnerInv, WorldInv, Read
<1>1. CASE Leave(p)
  BY <1>0, <1>1, LeaveKeeps
<1>2. CASE ~Leave(p)
  <2>1. Put(p, [op[p] EXCEPT !.at = "snapshot", !.view = view, !.todo = fresh])
    BY <1>2 DEF Read
  <2>2. fresh \subseteq Origin /\ fresh \subseteq Mine(p)
    BY MineIsTyped
  <2>3. ASSUME NEW a \in Mine(p)
        PROVE  /\ Good(Made(a)) /\ Made(a).origin = OriginOf(p, a) /\ Made(a).origin \in origins
    <3>1. OriginOf(p, a) \in OriginRecord /\ OriginOf(p, a).origin = a /\ OriginOf(p, a).pool = pool
          /\ OriginOf(p, a).strict = Serving(p) /\ OriginOf(p, a) \in origins
      BY <1>0, MineIsTyped, OriginIsTyped DEF RunnerInv
    <3>2. History(pool, a, Serving(p)) \subseteq Tasks
      BY <1>0 DEF History, SelectionInv, WorldInv
    <3>3. /\ View(a, pool, Serving(p)) \subseteq History(pool, a, Serving(p))
          /\ \A t \in View(a, pool, Serving(p)) :
               results[t] # Never /\ (Serving(p) => results[t] <= a.cutoff)
      BY DEF View
    <3>4. /\ Made(a).origin = OriginOf(p, a)
          /\ Made(a).refs = History(pool, a, Serving(p)) /\ Made(a).view = View(a, pool, Serving(p))
      OBVIOUS
    <3>5. Made(a) \in Input
      BY <3>1, <3>2, <3>3 DEF Input
    <3> HIDE DEF Made
    <3> QED
      BY <1>0, <3>1, <3>3, <3>4, <3>5 DEF Good
  <2>4. ASSUME NEW i \in old
        PROVE  i \in inputs /\ Good(i) /\ i.origin \in origins
               /\ \A a \in fresh : i.origin # OriginOf(p, a)
    <3>1. ~Serving(p) /\ \E a \in Mine(p) : i \in Frozen(p, a)
      BY <2>4
    <3>2. i \in inputs /\ Good(i) /\ i.origin \in origins
      BY <3>1, FrozenInputs
    <3>3. \A a \in fresh : i \notin Frozen(p, a)
      BY <3>1
    <3> QED
      BY <3>2, <3>3 DEF Frozen
  <2>5. \A i \in view : Good(i) /\ i.origin \in origins
    BY <2>2, <2>3, <2>4
  <2>6. view \subseteq Input
    BY <2>5 DEF Good
  <2>7. PICK o : o = [op[p] EXCEPT !.at = "snapshot", !.view = view, !.todo = fresh]
    OBVIOUS
  <2>8. /\ o \in Op /\ o.at = "snapshot" /\ o.view = view /\ o.todo = fresh
        /\ o.job = op[p].job /\ o.pool = pool /\ o.sel = op[p].sel
    <3> HIDE DEF view, fresh
    <3> QED
      BY <1>0, <2>2, <2>6, <2>7 DEF Op
  <2>9. op'[p] = o /\ Grows
    BY <1>0, <2>1, <2>7 DEF SelectionInv, Put, Grows, world, logs
  <2>10. /\ \A a : OriginOf(p, a)' = OriginOf(p, a)
    BY <2>8, <2>9 DEF OriginOf, Serving
  <2>11. \A i \in view : i \in inputs \/ \E a \in fresh : i.origin = OriginOf(p, a)
    BY <2>2, <2>3, <2>4
  <2>12. \A a \in fresh : \E i \in view : i.origin = OriginOf(p, a)
    BY <2>2, <2>3
  <2>13. ASSUME NEW i \in view, NEW j \in view, i.origin = j.origin,
                NEW a \in fresh, i.origin = OriginOf(p, a)
         PROVE  i = j
    <3>1. i \notin old /\ j \notin old
      BY <2>4, <2>13
    <3>2. PICK b \in fresh, c \in fresh : i = Made(b) /\ j = Made(c)
      BY <3>1
    <3>3. OriginOf(p, b) = OriginOf(p, c)
      BY <2>2, <2>3, <2>13, <3>2
    <3>4. b = c
      BY <3>3 DEF OriginOf
    <3> QED
      BY <3>2, <3>4
  <2>14. op[p].job = "replay" => \A i \in view : ~i.origin.strict
    <3> SUFFICES ASSUME op[p].job = "replay", NEW i \in view PROVE ~i.origin.strict
      OBVIOUS
    <3>1. ~Serving(p) /\ \A a : OriginOf(p, a).strict = FALSE
      BY DEF Serving, OriginOf
    <3>2. \E a \in Mine(p) : i.origin = OriginOf(p, a)
      <4>1. CASE i \in old
        BY <3>1, <4>1 DEF Frozen
      <4>2. CASE i \notin old
        BY <2>2, <2>3, <4>2
      <4> QED
        BY <4>1, <4>2
    <3> QED
      BY <3>1, <3>2
  <2>15. Freezes(p)'
    <3> HIDE DEF view, fresh, old, Made
    <3>1. op'[p].view = view /\ op'[p].todo = fresh
      BY <2>8, <2>9
    <3>2. UNCHANGED <<inputs, origins>>
      BY <1>0 DEF logs
    <3>3. \A i \in view : Good(i)'
      BY <2>5, <2>9, GoodStays
    <3> QED
      BY <2>5, <2>10, <2>11, <2>12, <2>13, <3>1, <3>2, <3>3 DEF Freezes
  <2>16. RunnerInv(p)'
    <3> HIDE DEF view, fresh, old, Made
    <3> QED
      BY <1>0, <2>8, <2>9, <2>14, <2>15 DEF RunnerInv, Grows
  <2>17. Put(p, o)
    BY <2>1, <2>7
  <2> QED
    BY <1>0, <2>8, <2>9, <2>16, <2>17, RecordsStay, WorldStays, OneRunnerMoves DEF SelectionInv
<1> QED
  BY <1>1, <1>2

\* A sound runner with origins to freeze has one input for the first of them.
LEMMA FirstInput ==
  ASSUME SelectionInv, NEW p \in Runners, op[p].at \in {"snapshot", "input"}, op[p].todo # {}
  PROVE  /\ First(p) \in op[p].todo /\ InputOf(p, First(p)) \in op[p].view
         /\ Good(InputOf(p, First(p))) /\ InputOf(p, First(p)).origin \in origins
         /\ InputOf(p, First(p)).origin = OriginOf(p, First(p))
<1> DEFINE todo == op[p].todo
<1>1. todo \subseteq Origin /\ Freezes(p)
  BY DEF SelectionInv, Op, RunnerInv
<1>2. \E o \in todo : \A q \in todo : o.cutoff <= q.cutoff
  <2> DEFINE S == {o.cutoff : o \in todo}
  <2>1. S \in SUBSET Nat /\ S # {}
    BY <1>1, TimesAreNaturals
  <2>2. \E m \in S : \A n \in S : m <= n
    <3> HIDE DEF S
    <3> QED
      BY <2>1, NaturalsHaveMinima
  <2> QED
    BY <2>2
<1>3. First(p) \in todo
  BY <1>2 DEF First
<1>4. \E i \in op[p].view : i.origin = OriginOf(p, First(p))
  BY <1>1, <1>3 DEF Freezes
<1>5. InputOf(p, First(p)) \in op[p].view /\ InputOf(p, First(p)).origin = OriginOf(p, First(p))
  BY <1>4 DEF InputOf
<1> QED
  BY <1>1, <1>3, <1>5 DEF Freezes

LEMMA AppendSnapshotKeeps ==
  ASSUME SelectionInv, NEW p \in Runners, AppendSnapshot(p)
  PROVE  SelectionInv'
<1>0. /\ op[p] \in Op /\ RunnerInv(p) /\ op[p].at = "snapshot" /\ op[p].todo # {}
      /\ UNCHANGED <<world, origins, inputs, selections, cellsets>>
  BY DEF SelectionInv, AppendSnapshot
<1>1. PICK i : i = InputOf(p, First(p))
  OBVIOUS
<1>2. Good(i) /\ i.origin \in origins /\ i \in op[p].view /\ snapshots' = snapshots \cup {i}
  BY <1>0, <1>1, FirstInput DEF AppendSnapshot
<1>3. PICK o : o = [op[p] EXCEPT !.at = "input"]
  OBVIOUS
<1>4. Put(p, o)
  BY <1>3 DEF AppendSnapshot
<1>5. /\ o \in Op /\ o.at = "input" /\ o.job = op[p].job /\ o.pool = op[p].pool /\ o.sel = op[p].sel
      /\ o.view = op[p].view /\ o.todo = op[p].todo
  BY <1>0, <1>3 DEF Op
<1>6. op'[p] = o /\ Grows
  BY <1>0, <1>2, <1>4 DEF SelectionInv, Put, Grows, world
<1>7. /\ \A a : OriginOf(p, a)' = OriginOf(p, a)
      /\ First(p)' = First(p)
  BY <1>5, <1>6 DEF OriginOf, Serving, First
<1>8. InputOf(p, First(p))' = i
  <2>1. op'[p].view = op[p].view
    BY <1>5, <1>6
  <2> QED
    BY <1>1, <1>7, <2>1 DEF InputOf
<1>9. Freezes(p)'
  <2>1. op'[p].view = op[p].view /\ op'[p].todo = op[p].todo /\ Freezes(p)
    BY <1>0, <1>5, <1>6 DEF RunnerInv
  <2>2. \A j \in op[p].view : Good(j)'
    BY <1>6, <2>1, GoodStays DEF Freezes
  <2> QED
    BY <1>0, <1>7, <2>1, <2>2 DEF Freezes
<1>10. RunnerInv(p)'
  BY <1>0, <1>2, <1>5, <1>6, <1>8, <1>9 DEF RunnerInv, Grows
<1>11. RecordsInv'
  <2>1. InputsInv'
    BY <1>0, <1>2, <1>6, GoodStays DEF SelectionInv, RecordsInv, InputsInv
  <2> QED
    BY <1>0, <2>1
       DEF SelectionInv, RecordsInv, SelectionsInv, CellsetsInv, world, Future, Arrived, KnownAt, InTime, Covers
<1> QED
  BY <1>0, <1>4, <1>5, <1>6, <1>10, <1>11, WorldStays, OneRunnerMoves DEF SelectionInv

LEMMA AppendInputKeeps ==
  ASSUME SelectionInv, NEW p \in Runners, AppendInput(p)
  PROVE  SelectionInv'
<1>0. /\ op[p] \in Op /\ RunnerInv(p) /\ op[p].at = "input" /\ op[p].todo # {}
      /\ UNCHANGED <<world, origins, snapshots, selections, cellsets>>
  BY DEF SelectionInv, AppendInput, RunnerInv
<1>1. PICK i, f : i = InputOf(p, First(p)) /\ f = First(p)
  OBVIOUS
<1>2. /\ i \in snapshots /\ i \in op[p].view /\ inputs' = inputs \cup {i}
      /\ f \in op[p].todo /\ i.origin = OriginOf(p, f)
  BY <1>0, <1>1, FirstInput DEF AppendInput, RunnerInv
<1>3. PICK o : o = [op[p] EXCEPT !.at = "snapshot", !.todo = op[p].todo \ {f}]
  OBVIOUS
<1>4. Put(p, o)
  BY <1>0, <1>1, <1>3 DEF AppendInput, Op
<1>5. /\ o \in Op /\ o.at = "snapshot" /\ o.job = op[p].job /\ o.pool = op[p].pool /\ o.sel = op[p].sel
      /\ o.view = op[p].view /\ o.todo = op[p].todo \ {f}
  BY <1>0, <1>3 DEF Op
<1>6. op'[p] = o /\ Grows
  BY <1>0, <1>2, <1>4 DEF SelectionInv, Put, Grows, world
<1>7. \A a : OriginOf(p, a)' = OriginOf(p, a)
  BY <1>5, <1>6 DEF OriginOf, Serving
<1>8. Freezes(p)'
  <2>1. op'[p].view = op[p].view /\ op'[p].todo = op[p].todo \ {f} /\ Freezes(p)
    BY <1>0, <1>5, <1>6 DEF RunnerInv
  <2>2. \A j \in op[p].view : Good(j)' /\ j.origin \in origins
    BY <1>6, <2>1, GoodStays DEF Freezes
  <2>3. ASSUME NEW j \in op[p].view
        PROVE  j \in inputs' \/ \E a \in op[p].todo \ {f} : j.origin = OriginOf(p, a)
    <3>1. CASE j.origin = OriginOf(p, f)
      BY <1>2, <2>1, <3>1 DEF Freezes
    <3>2. CASE j.origin # OriginOf(p, f)
      BY <1>2, <2>1, <3>2 DEF Freezes
    <3> QED
      BY <3>1, <3>2
  <2> QED
    BY <1>0, <1>7, <2>1, <2>2, <2>3 DEF Freezes
<1>9. RunnerInv(p)'
  BY <1>0, <1>5, <1>6, <1>8 DEF RunnerInv, Grows
<1>10. RecordsInv'
  <2>1. InputsInv'
    BY <1>0, <1>2, <1>6, GoodStays DEF SelectionInv, RecordsInv, InputsInv
  <2> QED
    BY <1>0, <1>2, <2>1
       DEF SelectionInv, RecordsInv, SelectionsInv, CellsetsInv, world, Future, Arrived, KnownAt, InTime, Covers
<1> QED
  BY <1>0, <1>4, <1>5, <1>6, <1>9, <1>10, WorldStays, OneRunnerMoves DEF SelectionInv

\* A Selection is made from a frozen input whose history is not empty.
LEMMA AppendSelectionsKeeps ==
  ASSUME SelectionInv, NEW p \in Runners, AppendSelections(p)
  PROVE  SelectionInv'
<1>0. /\ op[p] \in Op /\ RunnerInv(p) /\ op[p].at = "snapshot" /\ op[p].todo = {}
      /\ UNCHANGED <<world, origins, snapshots, inputs, cellsets>>
  BY DEF SelectionInv, AppendSelections
<1>1. op[p].view \subseteq inputs /\ op[p].view \subseteq Input
  BY <1>0 DEF RunnerInv, Freezes, Op
<1>2. CASE UNCHANGED selections /\ Leave(p)
  BY <1>0, <1>2, LeaveKeeps DEF logs
<1>3. CASE ~(UNCHANGED selections /\ Leave(p))
  <2> DEFINE new == {i \in op[p].view : \A s \in selections : s.input # i}
  <2>1. /\ \A i \in op[p].view : i.refs # {}
        /\ selections' = selections \cup {[input |-> i, created |-> now] : i \in new}
        /\ IF Serving(p) THEN Leave(p) ELSE Put(p, [op[p] EXCEPT !.at = "fill"])
    BY <1>3 DEF AppendSelections
  <2>2. PICK o : o = IF Serving(p) THEN Idle ELSE [op[p] EXCEPT !.at = "fill"]
    OBVIOUS
  <2>3. Put(p, o)
    BY <2>1, <2>2 DEF Leave
  <2>4. Grows
    BY <1>0, <2>1 DEF Grows, world
  <2>5. op'[p] = o
    BY <2>3 DEF SelectionInv, Put
  <2>6. SelectionsInv'
    <3>1. \A i \in new : [input |-> i, created |-> now] \in Selected
      BY <1>1 DEF SelectionInv, WorldInv, Selected
    <3> QED
      BY <1>0, <1>1, <2>1, <3>1 DEF SelectionInv, RecordsInv, SelectionsInv
  <2>7. RecordsInv'
    <3>1. InputsInv'
      BY <1>0, <2>4, GoodStays DEF SelectionInv, RecordsInv, InputsInv
    <3> QED
      BY <1>0, <2>4, <2>6, <3>1
         DEF SelectionInv, RecordsInv, CellsetsInv, Grows, Future, Arrived, KnownAt, InTime, Covers
  <2>8. CASE Serving(p)
    <3>1. o = Idle /\ o \in Op
      BY <2>2, <2>8, IdleIsTyped
    <3>2. RunnerInv(p)'
      BY <2>5, <3>1 DEF RunnerInv, Idle
    <3> QED
      BY <1>0, <2>3, <2>4, <2>7, <3>1, <3>2, WorldStays, OneRunnerMoves DEF SelectionInv
  <2>9. CASE ~Serving(p)
    <3>1. /\ o \in Op /\ o.at = "fill" /\ o.job = op[p].job /\ o.pool = op[p].pool
          /\ o.sel = op[p].sel /\ o.view = op[p].view
      BY <1>0, <2>2, <2>9 DEF Op
    <3>2. op[p].job = "replay"
      BY <1>0, <2>9 DEF RunnerInv, Serving
    <3>3. RunnerInv(p)'
      BY <1>0, <2>4, <2>5, <3>1, <3>2 DEF RunnerInv, Grows
    <3> QED
      BY <1>0, <2>3, <2>4, <2>7, <3>1, <3>3, WorldStays, OneRunnerMoves DEF SelectionInv
  <2> QED
    BY <2>8, <2>9
<1> QED
  BY <1>2, <1>3

--------------------------------------------------------------------------------
(* Judging.                                                                *)

LEMMA CheckKeeps ==
  ASSUME SelectionInv, NEW p \in Runners, Check(p)
  PROVE  SelectionInv'
<1>0. op[p] \in Op /\ RunnerInv(p) /\ op[p].at = "check" /\ UNCHANGED <<world, logs>>
  BY DEF SelectionInv, Check
<1>1. CASE Leave(p)
  BY <1>0, <1>1, LeaveKeeps
<1>2. CASE ~Leave(p)
  <2>1. InTime(op[p].sel, op[p].pool) /\ Covers(op[p].sel, op[p].pool)
        /\ Put(p, [op[p] EXCEPT !.at = "fill"])
    BY <1>2 DEF Check
  <2>2. PICK o : o = [op[p] EXCEPT !.at = "fill"]
    OBVIOUS
  <2>3. /\ o \in Op /\ o.at = "fill" /\ o.job = op[p].job /\ o.pool = op[p].pool
        /\ o.sel = op[p].sel /\ o.view = op[p].view
    BY <1>0, <2>2 DEF Op
  <2>4. op'[p] = o /\ Grows
    BY <1>0, <2>1, <2>2 DEF SelectionInv, Put, Grows, world, logs
  <2>5. RunnerInv(p)'
    BY <1>0, <2>1, <2>3, <2>4 DEF RunnerInv, Grows, InTime, Covers
  <2> QED
    BY <1>0, <2>1, <2>2, <2>3, <2>4, <2>5, RecordsStay, WorldStays, OneRunnerMoves DEF SelectionInv
<1> QED
  BY <1>1, <1>2

\* A strict Selection is judged by evaluate_prospective_selection only, on a pool that
\* was checked against it.
LEMMA FreezeKeeps ==
  ASSUME SelectionInv, NEW p \in Runners, Freeze(p)
  PROVE  SelectionInv'
<1>0. /\ op[p] \in Op /\ RunnerInv(p) /\ op[p].at = "fill"
      /\ UNCHANGED <<world, origins, snapshots, inputs, selections>>
      /\ cellsets' = cellsets \cup {CellSet(p, s) : s \in Judged(p)}
  BY DEF SelectionInv, Freeze
<1>1. Grows
  BY <1>0 DEF Grows, world
<1>2. ASSUME NEW s \in Judged(p)
      PROVE  /\ s \in selections
             /\ s.input.origin.strict => InTime(s, op[p].pool) /\ Covers(s, op[p].pool)
  <2>1. CASE op[p].job = "judge"
    BY <1>0, <1>2, <2>1 DEF RunnerInv, Judged
  <2>2. CASE op[p].job = "replay"
    BY <1>0, <1>2, <2>2 DEF RunnerInv, Judged
  <2> QED
    BY <1>0, <2>1, <2>2 DEF RunnerInv
<1>3. CellsetsInv'
  <2>1. ASSUME NEW c \in cellsets'
        PROVE  /\ c.sel \in selections /\ c.pool \in pools
               /\ c.sel.input.origin.strict =>
                    /\ c.future = Future(c.pool, c.sel.input.origin.origin)
                    /\ InTime(c.sel, c.pool) /\ Covers(c.sel, c.pool)
    <3>1. CASE c \in cellsets
      BY <3>1 DEF SelectionInv, RecordsInv, CellsetsInv
    <3>2. ASSUME NEW s \in Judged(p), c = CellSet(p, s)
          PROVE  c.sel = s /\ c.pool = op[p].pool /\ c.future = Future(op[p].pool, s.input.origin.origin)
      BY <3>2 DEF CellSet, Cohort
    <3>3. op[p].pool \in pools
      BY <1>0 DEF RunnerInv
    <3> QED
      BY <1>0, <1>2, <2>1, <3>1, <3>2, <3>3
  <2> QED
    BY <1>0, <2>1 DEF CellsetsInv, world, Future, Arrived, KnownAt, InTime, Covers
<1>4. RecordsInv'
  <2>1. InputsInv' /\ SelectionsInv'
    BY <1>0, <1>1, GoodStays DEF SelectionInv, RecordsInv, InputsInv, SelectionsInv
  <2> QED
    BY <1>3, <2>1 DEF RecordsInv
<1>5. Put(p, Idle) /\ op'[p] = Idle
  BY DEF SelectionInv, Freeze, Leave, Put
<1>6. RunnerInv(p)'
  BY <1>5 DEF RunnerInv, Idle
<1> QED
  BY <1>0, <1>1, <1>4, <1>5, <1>6, IdleIsTyped, WorldStays, OneRunnerMoves DEF SelectionInv

--------------------------------------------------------------------------------
(* The theorems.                                                           *)

LEMMA SelectionInit == Init => SelectionInv
<1> SUFFICES ASSUME Init PROVE SelectionInv
  OBVIOUS
<1>1. WorldInv
  BY SelectionConstants DEF Init, WorldInv, Times
<1>2. RecordsInv
  BY DEF Init, RecordsInv, InputsInv, SelectionsInv, CellsetsInv
<1>3. op \in [Runners -> Op] /\ \A p \in Runners : op[p] = Idle
  BY IdleIsTyped DEF Init
<1> QED
  BY <1>1, <1>2, <1>3 DEF SelectionInv, RunnerInv, Idle

LEMMA SelectionNext == SelectionInv /\ [Next]_vars => SelectionInv'
<1> SUFFICES ASSUME SelectionInv, [Next]_vars PROVE SelectionInv'
  OBVIOUS
<1>1. CASE UNCHANGED vars
  <2>1. Grows /\ WorldInv'
    BY <1>1, WorldStays DEF SelectionInv, Grows, vars, world, logs
  <2> QED
    BY <1>1, <2>1, NobodyMoves DEF vars
<1>2. ASSUME NEW p \in Runners, Calls(p) \/ Step(p) \/ Kill(p) PROVE SelectionInv'
  <2>1. CASE Kill(p)
    BY <2>1, LeaveKeeps DEF Kill
  <2> QED
    BY <1>2, <2>1, BeginKeeps, AppendOriginsKeeps, ReadKeeps, AppendSnapshotKeeps, AppendInputKeeps,
       AppendSelectionsKeeps, CheckKeeps, FillKeeps, FreezeKeeps DEF Step
<1> QED
  BY <1>1, <1>2, TickKeeps, DeliverKeeps, BuildPoolKeeps DEF Next

\* What holds between the world, the records and the runners holds in every reachable state.
THEOREM SelectionInvariant == Spec => []SelectionInv
  BY SelectionInit, SelectionNext, PTL DEF Spec

\* A strict Selection is made from Tasks, labels, Results and a Task Pool that were there
\* at its cutoff, and judged on Tasks and Results that were not there when it was made.
THEOREM StrictSelectionsDoNotLookAhead == Spec => []NoLookAhead
<1>1. SelectionInv => NoLookAhead
  <2> SUFFICES ASSUME SelectionInv PROVE NoLookAhead
    OBVIOUS
  <2> USE DEF SelectionInv, RecordsInv
  <2>1. ASSUME NEW s \in selections, s.input.origin.strict
        PROVE  LET o == s.input.origin IN
               /\ o.pool.created <= o.origin.cutoff
               /\ \A t \in s.input.refs : when[t].material <= o.origin.cutoff /\ when[t].check <= o.origin.cutoff
               /\ \A t \in s.input.view : results[t] <= o.origin.cutoff
    <3> DEFINE o == s.input.origin
    <3>1. Good(s.input) /\ s.input.refs # {} /\ s.input \in Input
      BY DEF SelectionsInv, InputsInv, Good
    <3>2. o.pool \in Pool /\ o.origin \in Origin /\ o.strict \in BOOLEAN /\ o.pool.created \in Nat
          /\ o.pool.tasks \subseteq Tasks /\ o.origin.cutoff \in Nat
      BY <3>1, TimesAreNaturals DEF Input, OriginRecord, Pool
    <3>3. ASSUME NEW t \in s.input.refs
          PROVE  when[t].material <= o.origin.cutoff /\ when[t].check <= o.origin.cutoff
                 /\ o.pool.created <= o.origin.cutoff
      <4>1. t \in Tasks /\ KnownAt(t, o.pool, o.strict) <= o.origin.cutoff
        BY <3>1, <3>2 DEF Good, History
      <4>2. /\ KnownAt(t, o.pool, o.strict) \in Nat
            /\ when[t].material <= KnownAt(t, o.pool, o.strict)
            /\ when[t].check <= KnownAt(t, o.pool, o.strict)
            /\ o.pool.created <= KnownAt(t, o.pool, o.strict)
        BY <2>1, <3>2, <4>1, KnownAtBounds
      <4>3. when[t].material \in Nat /\ when[t].check \in Nat
        BY <4>1, CalendarTimes
      <4> QED
        BY <3>2, <4>1, <4>2, <4>3
    <3> QED
      BY <2>1, <3>1, <3>3 DEF Good
  <2>2. ASSUME NEW c \in cellsets, c.sel.input.origin.strict, NEW t \in c.future
        PROVE  Min({when[t].material, results[t]}) > c.sel.created
    <3> DEFINE o == c.sel.input.origin.origin
    <3>1. c.sel \in Selected /\ c.future = Future(c.pool, o) /\ InTime(c.sel, c.pool) /\ c.pool \in pools
      BY <2>2 DEF CellsetsInv, SelectionsInv
    <3>2. o \in Origin /\ c.sel.created \in Nat /\ o.start \in Nat /\ o.end \in Nat
      BY <3>1, TimesAreNaturals DEF Selected, Input, OriginRecord
    <3>3. t \in Tasks /\ when[t].material \in o.start..o.end
      BY <3>1 DEF Future, Arrived, WorldInv
    <3>4. c.sel.created < o.start
      BY <3>1 DEF InTime
    <3>5. PICK x \in Nat, y \in Nat : x = when[t].material /\ y = results[t]
      BY <3>3, CalendarTimes
    <3>6. x > c.sel.created
      BY <3>2, <3>3, <3>4, <3>5
    <3>7. y >= x
      <4>1. CASE results[t] = Never
        BY <3>3, <3>5, <4>1, SelectionConstants, TimesAreNaturals DEF WorldInv
      <4>2. CASE results[t] # Never
        BY <3>3, <3>5, <4>2 DEF WorldInv
      <4> QED
        BY <4>1, <4>2
    <3>8. Min({x, y}) \in {x, y} /\ Min({x, y}) <= x /\ Min({x, y}) <= y
      <4>1. x \in Int /\ y \in Int
        OBVIOUS
      <4> QED
        BY <4>1, MinOfTwo
    <3>9. Min({x, y}) > c.sel.created
      BY <3>2, <3>6, <3>7, <3>8
    <3> QED
      BY <3>5, <3>9
  <2> QED
    BY <2>1, <2>2 DEF NoLookAhead
<1> QED
  BY <1>1, SelectionInvariant, PTL

\* Every later pool whose source window starts early enough judges a strict Selection on
\* the same cohort: all arrivals of its future window that mature in time.
THEOREM CohortsAreTheWindow == Spec => []CohortIsTheWindow
<1>1. SelectionInv => CohortIsTheWindow
  <2> SUFFICES ASSUME SelectionInv, NEW c \in cellsets, c.sel.input.origin.strict, c.pool.from = 0
               PROVE  LET o == c.sel.input.origin.origin IN
                      c.future = {t \in Tasks :
                                    /\ when[t].material > o.cutoff /\ when[t].material \in o.start..o.end
                                    /\ Max({when[t].material, when[t].check}) <= o.end + Lag}
    BY DEF CohortIsTheWindow
  <2> DEFINE o == c.sel.input.origin.origin
  <2>1. /\ c.sel \in Selected /\ c.future = Future(c.pool, o) /\ c.pool \in pools
        /\ c.pool.created >= o.end + Lag /\ c.pool.to >= o.end
    BY DEF SelectionInv, RecordsInv, CellsetsInv, SelectionsInv, InTime, Covers
  <2>2. o \in Origin /\ o.cutoff \in Nat /\ o.start \in Nat /\ o.end \in Nat /\ Lag \in Nat
    BY <2>1, TimesAreNaturals, SelectionConstants DEF Selected, Input, OriginRecord
  <2>3. c.pool \in Pool /\ c.pool.created \in Nat /\ c.pool.to \in Nat
    BY <2>1, TimesAreNaturals DEF SelectionInv, WorldInv, Pool
  <2>4. c.pool.tasks = {t \in Tasks : /\ when[t].resolved \in c.pool.from..c.pool.to
                                      /\ when[t].material <= c.pool.created
                                      /\ when[t].check <= c.pool.created}
    BY <2>1 DEF SelectionInv, WorldInv
  <2>5. ASSUME NEW t \in Tasks
        PROVE  KnownAt(t, c.pool, FALSE) = Max({when[t].material, when[t].check})
    BY <2>3, KnownAtBounds DEF SelectionInv
  <2>6. ASSUME NEW t \in Tasks, when[t].material \in o.start..o.end,
               Max({when[t].material, when[t].check}) <= o.end + Lag
        PROVE  t \in c.pool.tasks
    <3>1. PICK x \in Nat, y \in Nat, r \in Nat :
            x = when[t].material /\ y = when[t].check /\ r = when[t].resolved /\ r <= x
      BY CalendarTimes DEF SelectionInv
    <3>2. Max({x, y}) \in {x, y} /\ x <= Max({x, y}) /\ y <= Max({x, y})
      BY MaxOfTwo
    <3>3. Max({x, y}) <= o.end + Lag
      BY <2>6, <3>1
    <3>4. x <= c.pool.created /\ y <= c.pool.created
      BY <2>1, <2>2, <2>3, <3>2, <3>3
    <3>5. r \in 0..c.pool.to
      BY <2>1, <2>2, <2>3, <2>6, <3>1
    <3> QED
      BY <2>4, <3>1, <3>4, <3>5
  <2>7. \A t \in c.pool.tasks : t \in Tasks
    BY <2>4
  <2> QED
    BY <2>1, <2>5, <2>6, <2>7 DEF Future, Arrived
<1> QED
  BY <1>1, SelectionInvariant, PTL

\* Wherever a runner is killed, every record that a persisted record names is persisted.
THEOREM RecordsNameRecords == Spec => []RecordsResolve
<1>1. SelectionInv => RecordsResolve
  BY DEF SelectionInv, RecordsInv, InputsInv, SelectionsInv, CellsetsInv, Good, RecordsResolve
<1> QED
  BY <1>1, SelectionInvariant, PTL

--------------------------------------------------------------------------------
(* Replays.  While runners take turns, an origin of a Task Pool that was   *)
(* replayed once has one input and one Selection for good.                 *)

Replay(o, pool) == [origin |-> o, pool |-> pool, strict |-> FALSE]

OneSelectionEach == \A s, t \in selections : s.input = t.input => s = t
InputsReplayed == \A i \in inputs : ~i.origin.strict => i.origin.origin \in Replayed
OneInputEach == \A i, j \in inputs : ~i.origin.strict /\ i.origin = j.origin => i = j

\* A replay that returned has a Selection for every origin, and returned what its pool has.
Answered ==
  \A a \in replies :
    /\ \A o \in Replayed : \E s \in selections : s.input.origin = Replay(o, a.pool)
    /\ a.sels = {s \in selections : ~s.input.origin.strict /\ s.input.origin.pool = a.pool}

\* A replay under way knows an input for each origin; those it has still to freeze are
\* frozen by nobody, and when it fills cells all are frozen and have a Selection.
Replays(p) ==
  op[p].job = "replay" /\ op[p].at \in {"snapshot", "input", "fill"} =>
    /\ \A i \in op[p].view : \E o \in Replayed : i.origin = Replay(o, op[p].pool)
    /\ \A o \in Replayed : \E i \in op[p].view : i.origin = Replay(o, op[p].pool)
    /\ \A o \in op[p].todo, i \in inputs : i.origin # Replay(o, op[p].pool)
    /\ op[p].at = "fill" => /\ op[p].view \subseteq inputs
                            /\ \A i \in op[p].view : \E s \in selections : s.input = i

OneAtATime == \A p, q \in Runners : op[p] # Idle /\ op[q] # Idle => p = q
TurnInv ==
  /\ OneAtATime /\ InputsReplayed /\ OneInputEach /\ Answered
  /\ \A p \in Runners : Replays(p)
ReplayInv == OneSelectionEach /\ (~overlapped => TurnInv)

Moves(p) == Calls(p) \/ Step(p) \/ Kill(p)

\* A step of a runner in turn finds the others idle and leaves them so.
LEMMA OthersIdle ==
  ASSUME SelectionInv, ReplayInv, NEW p \in Runners, Moves(p), ~overlapped'
  PROVE  /\ ~overlapped /\ TurnInv
         /\ \A q \in Runners \ {p} : op[q] = Idle /\ op'[q] = Idle
<1> DEFINE Begins == \E job, pool, sel : Begin(p, job, pool, sel)
<1>0. Idle.at = "idle"
  BY DEF Idle
<1>1. CASE Begins
  <2>1. PICK job, pool, sel : Begin(p, job, pool, sel)
    BY <1>1
  <2>2. ~overlapped /\ \A q \in Runners \ {p} : op[q] = Idle
    BY <2>1 DEF Begin
  <2>3. \A q \in Runners \ {p} : op'[q] = op[q]
    BY <2>1 DEF Begin, Put, SelectionInv
  <2> QED
    BY <2>2, <2>3 DEF ReplayInv
<1>2. CASE ~Begins
  <2>1. Step(p) \/ Kill(p)
    BY <1>2 DEF Moves, Calls
  <2>2. op[p] # Idle
    <3>1. ASSUME Step(p) PROVE op[p].at # "idle"
      BY <3>1 DEF Step, AppendOrigins, Read, AppendSnapshot, AppendInput, AppendSelections, Check, Fill, Freeze
    <3> QED
      BY <1>0, <2>1, <3>1 DEF Kill
  <2>3. overlapped' = overlapped
    <3>1. ASSUME Step(p) PROVE overlapped' = overlapped
      BY <3>1 DEF Step, AppendOrigins, Read, AppendSnapshot, AppendInput, AppendSelections, Check, Fill, Freeze
    <3> QED
      BY <2>1, <3>1 DEF Kill
  <2>4. TurnInv
    BY <2>3 DEF ReplayInv
  <2>5. \A q \in Runners \ {p} : op[q] = Idle
    BY <2>2, <2>4 DEF TurnInv, OneAtATime
  <2>6. \A q \in Runners \ {p} : op'[q] = op[q]
    <3>1. \E o : Put(p, o) \/ UNCHANGED op
      BY <2>1 DEF Step, AppendOrigins, Read, AppendSnapshot, AppendInput, AppendSelections, Check, Fill, Freeze,
         Kill, Leave
    <3> QED
      BY <3>1 DEF Put, SelectionInv
  <2> QED
    BY <2>3, <2>4, <2>5, <2>6
<1> QED
  BY <1>1, <1>2

\* What is left to show of a step of a runner in turn.
LEMMA TurnHolds ==
  ASSUME NEW p \in Runners, \A q \in Runners \ {p} : op'[q] = Idle,
         InputsReplayed', OneInputEach', Answered', Replays(p)'
  PROVE  TurnInv'
<1>1. \A q \in Runners \ {p} : Replays(q)'
  BY DEF Replays, Idle
<1> QED
  BY <1>1 DEF TurnInv, OneAtATime

\* Where a runner has nothing to keep.
LEMMA NoReplay ==
  ASSUME NEW p \in Runners, op'[p].at \notin {"snapshot", "input", "fill"}
  PROVE  Replays(p)'
  BY DEF Replays

\* The logs and the replies stay.
LEMMA TurnLogsStay ==
  ASSUME TurnInv, UNCHANGED <<inputs, selections, replies>>
  PROVE  InputsReplayed' /\ OneInputEach' /\ Answered'
  BY DEF TurnInv, InputsReplayed, OneInputEach, Answered

\* A replay takes over what is frozen, and makes one input for each of the other origins.
LEMMA ReadReplays ==
  ASSUME SelectionInv, TurnInv, NEW p \in Runners, Read(p)
  PROVE  Replays(p)'
<1> DEFINE pool == op[p].pool
           fresh == IF Serving(p) THEN Mine(p) ELSE {a \in Mine(p) : Frozen(p, a) = {}}
           Made(a) == [origin |-> OriginOf(p, a), refs |-> History(pool, a, Serving(p)),
                       view |-> View(a, pool, Serving(p))]
           old == IF Serving(p) THEN {} ELSE UNION {Frozen(p, a) : a \in Mine(p)}
           view == {Made(a) : a \in fresh} \cup old
<1>0. op[p] \in Op /\ op \in [Runners -> Op]
  BY DEF SelectionInv
<1>1. CASE Leave(p)
  <2>1. op'[p].at = "idle"
    BY <1>0, <1>1 DEF Leave, Put, Idle
  <2> QED
    BY <2>1, NoReplay
<1>2. CASE ~Leave(p)
  <2>1. Put(p, [op[p] EXCEPT !.at = "snapshot", !.view = view, !.todo = fresh]) /\ inputs' = inputs
    BY <1>2 DEF Read, logs
  <2>2. /\ op'[p].at = "snapshot" /\ op'[p].view = view /\ op'[p].todo = fresh
        /\ op'[p].job = op[p].job /\ op'[p].pool = pool
    <3> HIDE DEF view, fresh
    <3> QED
      BY <1>0, <2>1 DEF Put, Op
  <2> SUFFICES ASSUME op[p].job = "replay"
               PROVE  /\ \A i \in view : \E o \in Replayed : i.origin = Replay(o, pool)
                      /\ \A o \in Replayed : \E i \in view : i.origin = Replay(o, pool)
                      /\ \A o \in fresh, i \in inputs : i.origin # Replay(o, pool)
    <3> HIDE DEF view, fresh
    <3> QED
      BY <2>1, <2>2 DEF Replays
  <2>3. ~Serving(p) /\ Mine(p) = Replayed /\ \A o : OriginOf(p, o) = Replay(o, pool)
    BY DEF Serving, Mine, OriginOf, Replay
  <2>4. /\ fresh = {o \in Replayed : Frozen(p, o) = {}}
        /\ old = UNION {Frozen(p, o) : o \in Replayed}
        /\ \A o : Frozen(p, o) = {i \in inputs : i.origin = Replay(o, pool)}
    BY <2>3 DEF Frozen
  <2>5. \A o : Made(o).origin = Replay(o, pool)
    BY <2>3
  <2>6. \A i : i \in view <=> (\E o \in fresh : i = Made(o)) \/ i \in old
    OBVIOUS
  <2> HIDE DEF fresh, old, Made, view
  <2>7. ASSUME NEW i \in view
        PROVE  \E o \in Replayed : i.origin = Replay(o, pool)
    BY <2>4, <2>5, <2>6
  <2>8. ASSUME NEW o \in Replayed
        PROVE  \E i \in view : i.origin = Replay(o, pool)
    <3>1. CASE o \in fresh
      BY <2>5, <2>6, <3>1
    <3>2. CASE o \notin fresh
      <4>1. PICK i : i \in Frozen(p, o)
        BY <2>4, <3>2
      <4>2. i \in old /\ i.origin = Replay(o, pool)
        BY <2>4, <4>1
      <4> QED
        BY <2>6, <4>2
    <3> QED
      BY <3>1, <3>2
  <2>9. \A o \in fresh, i \in inputs : i.origin # Replay(o, pool)
    BY <2>4
  <2> QED
    BY <2>7, <2>8, <2>9
<1> QED
  BY <1>1, <1>2

\* The next origin gets its only input.
LEMMA AppendInputReplays ==
  ASSUME SelectionInv, TurnInv, NEW p \in Runners, AppendInput(p)
  PROVE  InputsReplayed' /\ OneInputEach' /\ Answered' /\ Replays(p)'
<1>0. /\ op[p] \in Op /\ op \in [Runners -> Op] /\ RunnerInv(p) /\ op[p].at = "input" /\ op[p].todo # {}
      /\ UNCHANGED <<selections, replies>> /\ Replays(p)
  BY DEF SelectionInv, AppendInput, RunnerInv, TurnInv
<1>1. PICK i, f : i = InputOf(p, First(p)) /\ f = First(p)
  OBVIOUS
<1>2. /\ i \in op[p].view /\ inputs' = inputs \cup {i} /\ f \in op[p].todo /\ i.origin = OriginOf(p, f)
  BY <1>0, <1>1, FirstInput DEF AppendInput
<1>3. op' = [op EXCEPT ![p] = [op[p] EXCEPT !.at = "snapshot", !.todo = op[p].todo \ {f}]]
  BY <1>0, <1>1 DEF AppendInput, Put, Op
<1>4. /\ op'[p].at = "snapshot" /\ op'[p].job = op[p].job /\ op'[p].pool = op[p].pool
      /\ op'[p].view = op[p].view /\ op'[p].todo = op[p].todo \ {f}
  BY <1>0, <1>3 DEF Op
<1>5. Answered'
  BY <1>0 DEF TurnInv, Answered
<1>6. CASE op[p].job = "replay"
  <2>1. i.origin = Replay(f, op[p].pool)
    BY <1>2, <1>6 DEF OriginOf, Serving, Replay
  <2>2. /\ \A j \in op[p].view : \E o \in Replayed : j.origin = Replay(o, op[p].pool)
        /\ \A o \in Replayed : \E j \in op[p].view : j.origin = Replay(o, op[p].pool)
        /\ \A o \in op[p].todo, j \in inputs : j.origin # Replay(o, op[p].pool)
    BY <1>0, <1>6 DEF Replays
  <2>3. \A o, q, pool : Replay(o, pool) = Replay(q, pool) => o = q
    BY DEF Replay
  <2>4. i.origin.origin \in Replayed
    <3>1. PICK o \in Replayed : i.origin = Replay(o, op[p].pool)
      BY <1>2, <2>2
    <3> QED
      BY <3>1 DEF Replay
  <2>5. InputsReplayed'
    BY <1>2, <2>4 DEF TurnInv, InputsReplayed
  <2>6. OneInputEach'
    BY <1>2, <2>1, <2>2 DEF TurnInv, OneInputEach
  <2>7. \A o \in op[p].todo \ {f}, j \in inputs' : j.origin # Replay(o, op[p].pool)
    BY <1>2, <2>1, <2>2, <2>3
  <2>8. Replays(p)'
    BY <1>4, <2>2, <2>7 DEF Replays
  <2> QED
    BY <1>5, <2>5, <2>6, <2>8
<1>7. CASE op[p].job # "replay"
  <2>1. op[p].job = "select"
    BY <1>0, <1>7 DEF RunnerInv
  <2>2. i.origin.strict
    <3>1. i.origin = [origin |-> f, pool |-> op[p].pool, strict |-> op[p].job = "select"]
      BY <1>2 DEF OriginOf, Serving
    <3>2. i.origin.strict = (op[p].job = "select")
      BY <3>1
    <3> QED
      BY <2>1, <3>2
  <2>3. InputsReplayed' /\ OneInputEach'
    BY <1>2, <2>2 DEF TurnInv, InputsReplayed, OneInputEach
  <2>4. Replays(p)'
    BY <1>4, <1>7 DEF Replays
  <2> QED
    BY <1>5, <2>3, <2>4
<1> QED
  BY <1>6, <1>7

\* An input gets one Selection.
LEMMA SelectionsStaySingle ==
  ASSUME SelectionInv, OneSelectionEach, NEW p \in Runners, AppendSelections(p)
  PROVE  OneSelectionEach'
<1>1. CASE selections' = selections
  BY <1>1 DEF OneSelectionEach
<1>2. CASE selections' # selections
  <2> DEFINE new == {i \in op[p].view : \A s \in selections : s.input # i}
  <2>1. selections' = selections \cup {[input |-> i, created |-> now] : i \in new}
    BY <1>2 DEF AppendSelections
  <2> QED
    BY <2>1 DEF OneSelectionEach
<1> QED
  BY <1>1, <1>2

\* A pool that was replayed has its Selections already.
LEMMA AppendSelectionsReplays ==
  ASSUME SelectionInv, TurnInv, NEW p \in Runners, AppendSelections(p)
  PROVE  InputsReplayed' /\ OneInputEach' /\ Answered' /\ Replays(p)'
<1>0. /\ op[p] \in Op /\ op \in [Runners -> Op] /\ RunnerInv(p) /\ op[p].at = "snapshot" /\ op[p].todo = {}
      /\ UNCHANGED <<inputs, replies>> /\ Replays(p)
  BY DEF SelectionInv, AppendSelections, TurnInv
<1>1. op[p].view \subseteq inputs
  BY <1>0 DEF RunnerInv, Freezes
<1>2. InputsReplayed' /\ OneInputEach'
  BY <1>0 DEF TurnInv, InputsReplayed, OneInputEach
<1>3. CASE UNCHANGED selections /\ Leave(p)
  <2>1. op'[p].at = "idle"
    BY <1>0, <1>3 DEF Leave, Put, Idle
  <2> QED
    BY <1>0, <1>2, <1>3, <2>1, NoReplay, TurnLogsStay
<1>4. CASE ~(UNCHANGED selections /\ Leave(p))
  <2> DEFINE new == {i \in op[p].view : \A s \in selections : s.input # i}
             Made(i) == [input |-> i, created |-> now]
  <2>1. /\ selections' = selections \cup {Made(i) : i \in new}
        /\ IF Serving(p) THEN Leave(p) ELSE Put(p, [op[p] EXCEPT !.at = "fill"])
    BY <1>4 DEF AppendSelections
  <2>2. \A i : Made(i).input = i
    OBVIOUS
  <2>3. \A i \in new : i \in inputs /\ \A s \in selections : s.input # i
    BY <1>1
  <2>4. \A i \in op[p].view : \E s \in selections' : s.input = i
    BY <2>1, <2>2
  <2> HIDE DEF new, Made
  <2>5. ASSUME NEW a \in replies, NEW i \in new, ~i.origin.strict, i.origin.pool = a.pool
        PROVE  FALSE
    <3>1. i \in inputs /\ i.origin \in OriginRecord
      BY <2>3 DEF SelectionInv, RecordsInv, InputsInv, Good, Input
    <3>2. i.origin.origin \in Replayed /\ i.origin = Replay(i.origin.origin, a.pool)
      BY <2>5, <3>1 DEF TurnInv, InputsReplayed, Replay, OriginRecord
    <3>3. PICK s \in selections : s.input.origin = i.origin
      BY <3>2 DEF TurnInv, Answered
    <3>4. s.input \in inputs
      BY DEF SelectionInv, RecordsInv, SelectionsInv
    <3>5. s.input = i
      BY <2>5, <3>1, <3>3, <3>4 DEF TurnInv, OneInputEach
    <3> QED
      BY <2>3, <3>5
  <2>6. Answered'
    <3> SUFFICES ASSUME NEW a \in replies
                 PROVE  /\ \A o \in Replayed : \E s \in selections' : s.input.origin = Replay(o, a.pool)
                        /\ a.sels = {s \in selections' : ~s.input.origin.strict /\ s.input.origin.pool = a.pool}
      BY <1>0 DEF Answered
    <3>1. /\ \A o \in Replayed : \E s \in selections : s.input.origin = Replay(o, a.pool)
          /\ a.sels = {s \in selections : ~s.input.origin.strict /\ s.input.origin.pool = a.pool}
      BY DEF TurnInv, Answered
    <3>2. \A s \in selections' : ~s.input.origin.strict /\ s.input.origin.pool = a.pool => s \in selections
      BY <2>1, <2>2, <2>5
    <3>3. selections \subseteq selections'
      BY <2>1
    <3> QED
      BY <3>1, <3>2, <3>3
  <2>7. Replays(p)'
    <3>1. CASE Serving(p)
      <4>1. op'[p].at = "idle"
        BY <1>0, <2>1, <3>1 DEF Leave, Put, Idle
      <4> QED
        BY <4>1, NoReplay
    <3>2. CASE ~Serving(p)
      <4>1. /\ op'[p].at = "fill" /\ op'[p].job = op[p].job /\ op'[p].pool = op[p].pool
            /\ op'[p].view = op[p].view /\ op'[p].todo = op[p].todo
        BY <1>0, <2>1, <3>2 DEF Put, Op
      <4> QED
        BY <1>0, <1>1, <2>4, <4>1 DEF Replays
    <3> QED
      BY <3>1, <3>2
  <2> QED
    BY <1>2, <2>6, <2>7
<1> QED
  BY <1>3, <1>4

\* What a replay returns is all that its pool has.
LEMMA FreezeAnswers ==
  ASSUME SelectionInv, TurnInv, NEW p \in Runners, Freeze(p)
  PROVE  Answered'
<1>0. /\ op[p] \in Op /\ RunnerInv(p) /\ op[p].at = "fill" /\ selections' = selections /\ Replays(p)
  BY DEF SelectionInv, Freeze, TurnInv
<1>1. CASE op[p].job # "replay"
  <2>1. replies' = replies
    BY <1>1 DEF Freeze
  <2> QED
    BY <1>0, <2>1 DEF TurnInv, Answered
<1>2. CASE op[p].job = "replay"
  <2> DEFINE pool == op[p].pool
             sels == {s \in selections : ~s.input.origin.strict /\ s.input.origin.pool = pool}
  <2>1. replies' = replies \cup {[pool |-> pool, sels |-> Judged(p)]}
    BY <1>2 DEF Freeze
  <2>2. Judged(p) = {s \in selections : s.input \in op[p].view}
    BY <1>2 DEF Judged
  <2>3. /\ \A i \in op[p].view : \E o \in Replayed : i.origin = Replay(o, pool)
        /\ \A o \in Replayed : \E i \in op[p].view : i.origin = Replay(o, pool)
        /\ op[p].view \subseteq inputs
        /\ \A i \in op[p].view : \E s \in selections : s.input = i
    BY <1>0, <1>2 DEF Replays
  <2>4. \A o \in Replayed : \E s \in selections : s.input.origin = Replay(o, pool)
    BY <2>3
  <2>5. ASSUME NEW s \in selections, s.input \in op[p].view
        PROVE  ~s.input.origin.strict /\ s.input.origin.pool = pool
    <3>1. PICK o \in Replayed : s.input.origin = Replay(o, pool)
      BY <2>3, <2>5
    <3>2. /\ Replay(o, pool).strict = FALSE
          /\ Replay(o, pool).pool = pool
      BY DEF Replay
    <3> QED
      BY <3>1, <3>2
  <2>6. ASSUME NEW s \in selections, ~s.input.origin.strict, s.input.origin.pool = pool
        PROVE  s.input \in op[p].view
    <3>1. s.input \in inputs /\ s.input.origin \in OriginRecord
      BY DEF SelectionInv, RecordsInv, SelectionsInv, InputsInv, Good, Input
    <3>2. s.input.origin.origin \in Replayed /\ s.input.origin = Replay(s.input.origin.origin, pool)
      BY <2>6, <3>1 DEF TurnInv, InputsReplayed, Replay, OriginRecord
    <3>3. PICK i \in op[p].view : i.origin = s.input.origin
      BY <2>3, <3>2
    <3>4. i = s.input
      BY <2>3, <2>6, <3>1, <3>3 DEF TurnInv, OneInputEach
    <3> QED
      BY <3>4
  <2>7. Judged(p) = sels
    BY <2>2, <2>5, <2>6
  <2> HIDE DEF sels
  <2>8. \A a \in replies' : a \in replies \/ (a.pool = pool /\ a.sels = sels)
    BY <2>1, <2>7
  <2> QED
    BY <1>0, <2>4, <2>8 DEF TurnInv, Answered, sels
<1> QED
  BY <1>1, <1>2

LEMMA ReplayInit == Init => ReplayInv
  BY DEF Init, ReplayInv, OneSelectionEach, TurnInv, OneAtATime, InputsReplayed, OneInputEach, Answered,
     Replays, Idle

LEMMA ReplayNext == SelectionInv /\ ReplayInv /\ [Next]_vars => ReplayInv'
<1> SUFFICES ASSUME SelectionInv, ReplayInv, [Next]_vars PROVE ReplayInv'
  OBVIOUS
<1>1. CASE UNCHANGED <<inputs, selections, op, replies, overlapped>>
  BY <1>1 DEF ReplayInv, OneSelectionEach, TurnInv, OneAtATime, InputsReplayed, OneInputEach, Answered, Replays
<1>2. ASSUME NEW p \in Runners, Moves(p) PROVE OneSelectionEach'
  <2>1. CASE AppendSelections(p)
    BY <2>1, SelectionsStaySingle DEF ReplayInv
  <2>2. CASE ~AppendSelections(p)
    <3>1. selections' = selections
      BY <1>2, <2>2 DEF Moves, Calls, Step, Begin, AppendOrigins, Read, AppendSnapshot, AppendInput, Check, Fill,
         Freeze, Kill, logs
    <3> QED
      BY <3>1 DEF ReplayInv, OneSelectionEach
  <2> QED
    BY <2>1, <2>2
<1>3. ASSUME NEW p \in Runners, Moves(p), ~overlapped' PROVE TurnInv'
  <2>0. /\ TurnInv /\ op \in [Runners -> Op] /\ op[p] \in Op
        /\ \A q \in Runners \ {p} : op'[q] = Idle
    BY <1>3, OthersIdle DEF SelectionInv
  <2>a. ASSUME UNCHANGED <<inputs, selections, replies>>, Replays(p)'
        PROVE  TurnInv'
    BY <2>0, <2>a, TurnLogsStay, TurnHolds
  <2>b. ASSUME Leave(p)
        PROVE  Replays(p)'
    <3>1. op'[p].at = "idle"
      BY <2>0, <2>b DEF Leave, Put, Idle
    <3> QED
      BY <3>1, NoReplay
  <2>1. CASE Calls(p)
    <3>1. PICK job, pool, sel : Begin(p, job, pool, sel)
      BY <2>1 DEF Calls
    <3>2. op'[p].at \in {"check", "origin"}
      BY <2>0, <3>1 DEF Begin, Put, Idle
    <3> QED
      BY <2>a, <3>1, <3>2, NoReplay DEF Begin, logs
  <2>2. CASE AppendOrigins(p)
    <3>1. op'[p].at = "read" /\ UNCHANGED <<inputs, selections, replies>>
      BY <2>0, <2>2 DEF AppendOrigins, Put, Op
    <3> QED
      BY <2>a, <3>1, NoReplay
  <2>3. CASE Read(p)
    BY <2>0, <2>3, <2>a, ReadReplays DEF Read, logs
  <2>4. CASE AppendSnapshot(p)
    <3>1. /\ op[p].at = "snapshot" /\ op'[p].at = "input" /\ op'[p].job = op[p].job
          /\ op'[p].pool = op[p].pool /\ op'[p].view = op[p].view /\ op'[p].todo = op[p].todo
          /\ UNCHANGED <<inputs, selections, replies>>
      BY <2>0, <2>4 DEF AppendSnapshot, Put, Op
    <3>2. Replays(p)
      BY <2>0 DEF TurnInv
    <3>3. op[p].at \in {"snapshot", "input"} /\ op'[p].at \in {"snapshot", "input"}
      BY <3>1
    <3>4. Replays(p)'
      BY <3>1, <3>2 DEF Replays
    <3> QED
      BY <2>a, <3>1, <3>4
  <2>5. CASE AppendInput(p)
    BY <2>0, <2>5, AppendInputReplays, TurnHolds
  <2>6. CASE AppendSelections(p)
    BY <2>0, <2>6, AppendSelectionsReplays, TurnHolds
  <2>7. CASE Check(p)
    <3>1. op[p].job = "judge" /\ UNCHANGED <<inputs, selections, replies>>
      BY <2>7 DEF Check, SelectionInv, RunnerInv, logs
    <3>2. op'[p].job = "judge" \/ op'[p].at = "idle"
      BY <2>0, <2>7, <3>1 DEF Check, Leave, Put, Op, Idle
    <3>3. Replays(p)'
      BY <3>2 DEF Replays
    <3> QED
      BY <2>a, <3>1, <3>3
  <2>8. CASE Fill(p)
    <3>1. UNCHANGED <<inputs, selections, replies, op>>
      BY <2>8 DEF Fill, logs
    <3>2. Replays(p)'
      BY <2>0, <3>1 DEF TurnInv, Replays
    <3> QED
      BY <2>a, <3>1, <3>2
  <2>9. CASE Freeze(p)
    <3>1. Leave(p) /\ UNCHANGED <<inputs, selections>>
      BY <2>9 DEF Freeze
    <3>2. InputsReplayed' /\ OneInputEach'
      BY <2>0, <3>1 DEF TurnInv, InputsReplayed, OneInputEach
    <3> QED
      BY <2>0, <2>9, <2>b, <3>1, <3>2, FreezeAnswers, TurnHolds
  <2>10. CASE Kill(p)
    BY <2>10, <2>a, <2>b DEF Kill, logs
  <2> QED
    BY <1>3, <2>1, <2>2, <2>3, <2>4, <2>5, <2>6, <2>7, <2>8, <2>9, <2>10 DEF Moves, Step
<1>4. ASSUME ~ \E p \in Runners : Moves(p)
      PROVE  UNCHANGED <<inputs, selections, op, replies, overlapped>>
  BY <1>4 DEF Next, Moves, Tick, Deliver, BuildPool, vars, logs, world
<1> QED
  BY <1>1, <1>2, <1>3, <1>4 DEF ReplayInv

\* While runners take turns, a replay of a Task Pool returns the Selections that every
\* earlier one returned, whoever was killed between them and whatever Results arrived.
THEOREM ReplaysReturnTheFirst == Spec => []ReplaysAgree
<1>1. Spec => [](SelectionInv /\ ReplayInv)
  <2>1. SelectionInv /\ ReplayInv /\ [Next]_vars => SelectionInv' /\ ReplayInv'
    BY SelectionNext, ReplayNext
  <2> QED
    BY <2>1, SelectionInit, ReplayInit, PTL DEF Spec
<1>2. ReplayInv => ReplaysAgree
  BY DEF ReplayInv, TurnInv, Answered, ReplaysAgree
<1> QED
  BY <1>1, <1>2, PTL

--------------------------------------------------------------------------------
(* The logs these records go to: EvidenceLog, for every set of ids, bodies  *)
(* and times, where fsync of a file makes its directory entry durable.     *)

\* An append never reached the disk while the directory entry has not.
Unsynced == entry # "durable" => synced = 0 /\ written = {}

\* What the running append knows: nobody was given a record under its id, and what it
\* wrote is the last line, or is spoilt by what preceded it.
Appending ==
  /\ entry = "absent" => pc = "idle"
  /\ pc # "idle" => record \in Record /\ \A s \in acked : s.id # record.id
  /\ pc = "opened" => Readable
  /\ pc = "unterminated" => tail \in {record, Torn}
  /\ pc \in {"flushed", "synced"} => tail = Nothing /\ file # <<>> /\ file[Len(file)] \in {record, Garbage}
  /\ pc = "synced" => synced = Len(file) /\ entry = "durable"

\* A written record is among the synced lines, unless one of them is spoilt.
Kept == \A r \in written : \E i \in 1..synced : file[i] = r \/ file[i] = Garbage

EvidenceInv ==
  /\ TypeOK /\ Unsynced /\ Appending /\ Kept
  /\ NeverSilentlyGone /\ ReturnsAgree

\* The log starts with the invariant.
LEMMA EvidenceInit == NoRecord /\ LogInit => EvidenceInv
<1> SUFFICES ASSUME NoRecord, LogInit PROVE EvidenceInv
  OBVIOUS
<1> USE DEF LogInit, NoRecord
<1>1. TypeOK
  <2>1. /\ file = <<>> /\ Len(file) = 0 /\ file \in Seq(Record \cup {Garbage})
        /\ synced \in 0..Len(file)
    OBVIOUS
  <2> QED
    BY <2>1 DEF TypeOK
<1>2. Unsynced /\ Appending /\ Kept
  BY DEF Unsynced, Appending, Kept
<1>3. NeverSilentlyGone /\ ReturnsAgree
  BY DEF NeverSilentlyGone, ReturnsAgree
<1> QED
  BY <1>1, <1>2, <1>3 DEF EvidenceInv

Text(lines, last) == IF last = Nothing THEN lines ELSE Append(lines, last)
AnyLine == Record \cup {Garbage}
Marks == Record \cup {Nothing, Torn}

\* A line is read when it is in the file or is what follows it.
LEMMA TextHas ==
  ASSUME NEW lines \in Seq(AnyLine), NEW last \in Marks
  PROVE  \A r : r \in Range(Text(lines, last)) <=>
           (\E i \in 1..Len(lines) : lines[i] = r) \/ (last # Nothing /\ r = last)
<1> USE DEF Text, Range
<1>1. CASE last = Nothing
  BY <1>1
<1>2. CASE last # Nothing
  <2>1. /\ Text(lines, last) = Append(lines, last)
        /\ DOMAIN Text(lines, last) = 1..(Len(lines) + 1) /\ Len(lines) \in Nat
    BY <1>2
  <2>2. /\ \A i \in 1..Len(lines) : Text(lines, last)[i] = lines[i]
        /\ Text(lines, last)[Len(lines) + 1] = last
    BY <2>1
  <2>3. \A r : r \in Range(Text(lines, last)) <=>
                 \E i \in 1..(Len(lines) + 1) : Text(lines, last)[i] = r
    BY <2>1
  <2> QED
    BY <1>2, <2>1, <2>2, <2>3
<1> QED
  BY <1>1, <1>2

\* The lines that a reader finds, now and after a step.
LEMMA LinesRead ==
  /\ TypeOK => \A r : r \in Range(Lines) <=>
       (\E i \in 1..Len(file) : file[i] = r) \/ (tail # Nothing /\ r = tail)
  /\ TypeOK' => \A r : r \in Range(Lines)' <=>
       (\E i \in 1..Len(file') : file'[i] = r) \/ (tail' # Nothing /\ r = tail')
<1>1. Lines = Text(file, tail) /\ Lines' = Text(file', tail')
  BY DEF Lines, Text
<1>2. /\ TypeOK => file \in Seq(AnyLine) /\ tail \in Marks
      /\ TypeOK' => file' \in Seq(AnyLine) /\ tail' \in Marks
  BY DEF TypeOK, AnyLine, Marks
<1>3. /\ Range(Lines) = Range(Text(file, tail))
      /\ Range(Lines)' = Range(Text(file', tail'))
  BY <1>1 DEF Range
<1> QED
  BY <1>2, <1>3, TextHas

\* A log that can be read has no spoilt and no cut line, and one record of each id.
LEMMA ReadableLines ==
  ASSUME NoRecord
  PROVE  /\ TypeOK /\ Readable =>
              /\ tail # Torn /\ \A i \in 1..Len(file) : file[i] # Garbage
              /\ \A r, s \in Range(Lines) : r.id = s.id => r = s
         /\ TypeOK' /\ Readable' =>
              tail' # Torn /\ \A i \in 1..Len(file') : file'[i] # Garbage
<1>1. Torn \notin Record /\ Garbage \notin Record /\ Torn # Nothing
  BY DEF NoRecord
<1>2. ASSUME TypeOK, Readable
      PROVE  /\ tail # Torn /\ \A i \in 1..Len(file) : file[i] # Garbage
             /\ \A r, s \in Range(Lines) : r.id = s.id => r = s
  <2>1. tail # Torn /\ \A i \in 1..Len(file) : file[i] # Garbage
    BY <1>1, <1>2, LinesRead DEF Readable
  <2>2. ASSUME NEW r \in Range(Lines), NEW s \in Range(Lines), r.id = s.id
        PROVE  r = s
    <3>1. PICK i \in DOMAIN Lines : Lines[i] = r
      BY DEF Range
    <3>2. PICK j \in DOMAIN Lines : Lines[j] = s
      BY DEF Range
    <3> QED
      BY <1>2, <2>2, <3>1, <3>2 DEF Readable, IdsRepeat
  <2> QED
    BY <2>1, <2>2
<1>3. ASSUME TypeOK', Readable'
      PROVE  tail' # Torn /\ \A i \in 1..Len(file') : file'[i] # Garbage
  <2>1. Range(Lines)' \subseteq Record
    BY <1>3 DEF Readable
  <2> QED
    BY <1>1, <1>3, <2>1, LinesRead
<1> QED
  BY <1>2, <1>3

\* Every step keeps the types.
LEMMA EvidenceType ==
  ASSUME NoRecord, TypeOK, Appending, [LogNext]_logVars
  PROVE  TypeOK'
<1> USE DEF told, disk, Marks
<1>0. /\ entry \in {"absent", "cached", "durable"} /\ file \in Seq(Record \cup {Garbage})
      /\ tail \in Marks /\ diskTail \in Marks /\ synced \in 0..Len(file)
      /\ pc \in {"idle", "opened", "unterminated", "flushed", "synced"}
      /\ record \in Record \cup {Nothing} /\ created \in BOOLEAN
      /\ acked \subseteq Record /\ written \subseteq acked /\ seen \subseteq Record
  BY DEF TypeOK
<1>1. CASE UNCHANGED logVars
  BY <1>1 DEF TypeOK, logVars
<1>2. ASSUME NEW r \in Record, ReturnStored(r) PROVE TypeOK'
  <2>1. PICK old \in Stored(r.id) : acked' = acked \cup {old}
    BY <1>2 DEF ReturnStored
  <2>2. old \in Record
    BY <1>2, <2>1 DEF ReturnStored, Stored, Readable
  <2> QED
    BY <1>0, <1>2, <2>1, <2>2 DEF ReturnStored, TypeOK
<1>3. ASSUME NEW r \in Record, Start(r) PROVE TypeOK'
  BY <1>0, <1>3 DEF Start, TypeOK
<1>4. CASE WriteText
  BY <1>0, <1>4 DEF WriteText, TypeOK, Appending
<1>5. CASE WriteNewline
  <2>1. tail = Torn \/ (tail # Torn /\ tail \in Record)
    BY <1>0, <1>5 DEF WriteNewline, Appending
  <2>2. PICK line \in Record \cup {Garbage} : file' = Append(file, line)
    BY <1>5, <2>1 DEF WriteNewline
  <2>3. file' \in Seq(Record \cup {Garbage}) /\ Len(file') = Len(file) + 1
    BY <1>0, <2>2
  <2>4. synced' \in 0..Len(file') /\ Len(file) \in Nat
    BY <1>0, <1>5, <2>3 DEF WriteNewline
  <2> QED
    BY <1>0, <1>5, <2>3, <2>4 DEF WriteNewline, TypeOK
<1>6. CASE Fsync
  BY <1>0, <1>6 DEF Fsync, TypeOK
<1>7. CASE ReturnWritten
  <2>1. record \in Record
    BY <1>7 DEF ReturnWritten, Appending
  <2> QED
    BY <1>0, <1>7, <2>1 DEF ReturnWritten, TypeOK
<1>8. CASE Load
  BY <1>0, <1>8 DEF Load, Readable, TypeOK
<1>9. CASE Abort
  BY <1>0, <1>9 DEF Abort, Stop, TypeOK
<1>10. CASE PowerLoss
  <2>0. pc' = "idle" /\ record' = Nothing /\ created' = FALSE /\ acked' = written /\ seen' = {} /\ written' = written
    BY <1>10 DEF PowerLoss, Stop
  <2>1. ASSUME NEW n \in synced..Len(file), entry' = "durable", file' = SubSeq(file, 1, n), synced' = n,
               tail' \in TailsAfter(n), diskTail' = tail'
        PROVE  TypeOK'
    <3>1. n \in Nat /\ n <= Len(file) /\ Len(file) \in Nat
      BY <1>0, <2>1
    <3>2. file' \in Seq(Record \cup {Garbage}) /\ Len(file') = n
      BY <1>0, <2>1, <3>1
    <3>3. \A line : Cut(line) \subseteq Marks
      BY DEF Cut
    <3>4. tail' \in Marks
      BY <1>0, <2>1, <3>3 DEF TailsAfter
    <3>5. entry' = "durable" /\ synced' \in 0..Len(file') /\ diskTail' \in Marks
      BY <2>1, <3>1, <3>2, <3>4
    <3> QED
      BY <1>0, <2>0, <3>2, <3>4, <3>5 DEF TypeOK
  <2>2. ASSUME entry' = "absent", file' = <<>>, synced' = 0, tail' = Nothing, diskTail' = Nothing
        PROVE  TypeOK'
    <3>1. file' \in Seq(Record \cup {Garbage}) /\ synced' \in 0..Len(file')
      BY <2>2
    <3> QED
      BY <1>0, <2>0, <2>2, <3>1 DEF TypeOK
  <2> QED
    BY <1>10, <2>1, <2>2 DEF PowerLoss
<1> QED
  BY <1>1, <1>2, <1>3, <1>4, <1>5, <1>6, <1>7, <1>8, <1>9, <1>10 DEF LogNext

\* A step that leaves the lines and the file alone and returns nothing.
LEMMA QuietStep ==
  ASSUME EvidenceInv, UNCHANGED <<entry, file, tail, synced, diskTail, acked, written>>
  PROVE  /\ Unsynced' /\ Kept' /\ ReturnsAgree'
         /\ seen' = seen => NeverSilentlyGone'
  BY DEF EvidenceInv, Unsynced, Kept, ReturnsAgree, NeverSilentlyGone,
         Readable, IdsRepeat, Lines

\* What a record that was returned after writing it stands on.
LEMMA WrittenRead ==
  ASSUME NoRecord, TypeOK, Kept, Readable
  PROVE  written \subseteq Range(Lines)
<1> SUFFICES ASSUME NEW r \in written PROVE r \in Range(Lines)
  OBVIOUS
<1>1. PICK i \in 1..synced : file[i] = r \/ file[i] = Garbage
  BY DEF Kept
<1>2. i \in 1..Len(file)
  BY DEF TypeOK
<1>3. file[i] = r
  BY <1>1, <1>2, ReadableLines
<1> QED
  BY <1>2, <1>3, LinesRead

\* A new record is written and returned.
LEMMA AppendKeeps ==
  ASSUME NoRecord, FsyncFlushesEntry, EvidenceInv, TypeOK',
         \/ \E r \in Record : Start(r)
         \/ WriteText \/ WriteNewline \/ Fsync \/ ReturnWritten
  PROVE  EvidenceInv'
<1> USE DEF told, disk
<1>0. /\ TypeOK /\ Unsynced /\ Appending /\ Kept
      /\ NeverSilentlyGone /\ ReturnsAgree
      /\ Len(file) \in Nat /\ synced \in Nat /\ synced <= Len(file)
      /\ file \in Seq(Record \cup {Garbage})
      /\ Torn \notin Record \cup {Nothing} /\ Garbage \notin Record
  BY DEF EvidenceInv, TypeOK, NoRecord
<1>1. ASSUME NEW r \in Record, Start(r) PROVE EvidenceInv'
  <2>0. /\ Readable /\ Stored(r.id) = {} /\ record' = r /\ pc' = "opened"
        /\ entry' = (IF entry = "absent" THEN "cached" ELSE entry)
        /\ UNCHANGED <<file, tail, synced, diskTail, acked, written, seen>>
    BY <1>1 DEF Start
  <2>1. Readable' /\ Lines' = Lines
    BY <2>0 DEF Readable, IdsRepeat, Lines
  <2>2. \A s \in acked : s.id # r.id
    BY <1>0, <2>0 DEF NeverSilentlyGone, Stored
  <2>3. Appending'
    BY <2>0, <2>1, <2>2 DEF Appending
  <2>4. Unsynced' /\ Kept' /\ ReturnsAgree'
    BY <1>0, <2>0 DEF Unsynced, Kept, ReturnsAgree
  <2>5. NeverSilentlyGone'
    BY <1>0, <2>0, <2>1 DEF NeverSilentlyGone
  <2> QED
    BY <2>3, <2>4, <2>5 DEF EvidenceInv
<1>2. CASE WriteText
  <2>0. /\ pc = "opened" /\ pc' = "unterminated" /\ tail' = (IF tail = Nothing THEN record ELSE Torn)
        /\ UNCHANGED <<entry, file, synced, diskTail, record, acked, written, seen>>
        /\ Readable
    BY <1>0, <1>2 DEF WriteText, Appending
  <2>1. Appending'
    BY <1>0, <2>0 DEF Appending
  <2>2. Unsynced' /\ Kept' /\ ReturnsAgree'
    BY <1>0, <2>0 DEF Unsynced, Kept, ReturnsAgree
  <2>3. ASSUME Readable' PROVE acked \cup seen \subseteq Range(Lines)'
    <3>1. tail' # Torn
      BY <2>3, ReadableLines
    <3>2. tail = Nothing
      BY <2>0, <3>1
    <3>3. ASSUME NEW r \in acked \cup seen PROVE r \in Range(Lines)'
      <4>1. r \in Range(Lines)
        BY <1>0, <2>0 DEF NeverSilentlyGone
      <4>2. PICK i \in 1..Len(file) : file[i] = r
        BY <1>0, <3>2, <4>1, LinesRead
      <4> QED
        BY <2>0, <4>2, LinesRead
    <3> QED
      BY <2>0, <3>3
  <2>4. NeverSilentlyGone'
    BY <2>0, <2>3 DEF NeverSilentlyGone
  <2> QED
    BY <2>1, <2>2, <2>4 DEF EvidenceInv
<1>3. CASE WriteNewline
  <2>0. /\ pc = "unterminated" /\ pc' = "flushed" /\ tail' = Nothing /\ tail \in {record, Torn}
        /\ file' = Append(file, IF tail = Torn THEN Garbage ELSE tail)
        /\ UNCHANGED <<entry, synced, diskTail, record, acked, written, seen>>
        /\ record \in Record
    BY <1>0, <1>3 DEF WriteNewline, Appending
  <2>1. PICK line \in AnyLine : line = IF tail = Torn THEN Garbage ELSE tail
    BY <1>0, <2>0 DEF AnyLine
  <2>2. /\ file' = Append(file, line) /\ Len(file') = Len(file) + 1 /\ file' # <<>>
        /\ file'[Len(file')] = line /\ \A i \in 1..Len(file) : file'[i] = file[i]
    BY <1>0, <2>0, <2>1 DEF AnyLine
  <2>3. line \in {record, Garbage}
    BY <1>0, <2>0, <2>1
  <2>4. Appending'
    BY <1>0, <2>0, <2>2, <2>3 DEF Appending
  <2>5. Unsynced' /\ Kept' /\ ReturnsAgree'
    <3>1. \A i \in 1..synced : file'[i] = file[i]
      BY <1>0, <2>2
    <3> QED
      BY <1>0, <2>0, <3>1 DEF Unsynced, Kept, ReturnsAgree
  <2>6. ASSUME Readable' PROVE acked \cup seen \subseteq Range(Lines)'
    <3>1. line # Garbage
      <4>1. \A i \in 1..Len(file') : file'[i] # Garbage
        BY <2>6, ReadableLines
      <4> QED
        BY <1>0, <2>2, <4>1
    <3>2. tail # Torn /\ tail # Nothing /\ line = tail
      BY <1>0, <2>0, <2>1, <3>1 DEF NoRecord
    <3>3. Lines' = Lines
      BY <2>0, <2>2, <3>2, <1>0 DEF Lines
    <3>4. Readable
      BY <2>6, <3>3 DEF Readable, IdsRepeat
    <3>5. acked \cup seen \subseteq Range(Lines)
      BY <1>0, <3>4 DEF NeverSilentlyGone
    <3> QED
      BY <3>3, <3>5 DEF Range
  <2>7. NeverSilentlyGone'
    BY <2>0, <2>6 DEF NeverSilentlyGone
  <2> QED
    BY <2>4, <2>5, <2>7 DEF EvidenceInv
<1>4. CASE Fsync
  <2>0. /\ pc = "flushed" /\ pc' = "synced" /\ synced' = Len(file) /\ entry' = "durable"
        /\ UNCHANGED <<file, tail, record, acked, written, seen>>
    BY <1>4 DEF Fsync
  <2>1. Appending' /\ Unsynced' /\ ReturnsAgree'
    BY <1>0, <2>0 DEF Appending, Unsynced, ReturnsAgree
  <2>2. Kept'
    <3> SUFFICES ASSUME NEW r \in written PROVE \E i \in 1..synced' : file[i] = r \/ file[i] = Garbage
      BY <2>0 DEF Kept
    <3>1. PICK i \in 1..synced : file[i] = r \/ file[i] = Garbage
      BY <1>0 DEF Kept
    <3> QED
      BY <1>0, <2>0, <3>1
  <2>3. NeverSilentlyGone'
    BY <1>0, <2>0 DEF NeverSilentlyGone, Readable, IdsRepeat, Lines
  <2> QED
    BY <2>1, <2>2, <2>3 DEF EvidenceInv
<1>5. CASE ReturnWritten
  <2>0. /\ pc = "synced" /\ pc' = "idle" /\ entry = "durable" /\ entry' = "durable"
        /\ acked' = acked \cup {record} /\ written' = written \cup {record}
        /\ UNCHANGED <<file, tail, synced, diskTail, seen>>
        /\ tail = Nothing /\ file # <<>> /\ file[Len(file)] \in {record, Garbage} /\ synced = Len(file)
        /\ \A s \in acked : s.id # record.id
    BY <1>0, <1>5 DEF ReturnWritten, Appending
  <2>1. Appending' /\ Unsynced' /\ ReturnsAgree'
    BY <1>0, <2>0 DEF Appending, Unsynced, ReturnsAgree
  <2>2. Len(file) \in 1..Len(file)
    BY <1>0, <2>0
  <2>3. Kept'
    BY <1>0, <2>0, <2>2 DEF Kept
  <2>4. ASSUME Readable PROVE record \in Range(Lines)
    <3>1. file[Len(file)] = record
      BY <1>0, <2>0, <2>2, <2>4, ReadableLines
    <3> QED
      BY <1>0, <2>2, <3>1, LinesRead
  <2>5. Lines' = Lines /\ Readable' = Readable
    BY <2>0 DEF Readable, IdsRepeat, Lines
  <2>6. NeverSilentlyGone'
    BY <1>0, <2>0, <2>4, <2>5 DEF NeverSilentlyGone
  <2> QED
    BY <2>1, <2>3, <2>6 DEF EvidenceInv
<1> QED
  BY <1>1, <1>2, <1>3, <1>4, <1>5

\* A stored record is returned, the log is read, or an append is broken off.
LEMMA LoadAbortKeeps ==
  ASSUME NoRecord, EvidenceInv, TypeOK',
         \/ \E r \in Record : ReturnStored(r)
         \/ Load \/ Abort
  PROVE  EvidenceInv'
<1> USE DEF told, disk
<1>0. /\ TypeOK /\ Unsynced /\ Appending /\ Kept
      /\ NeverSilentlyGone /\ ReturnsAgree
  BY DEF EvidenceInv
<1>1. ASSUME NEW r \in Record, ReturnStored(r) PROVE EvidenceInv'
  <2>0. PICK old \in Stored(r.id) : acked' = acked \cup {old}
    BY <1>1 DEF ReturnStored
  <2>1. /\ pc = "idle" /\ Readable /\ old \in Range(Lines)
        /\ UNCHANGED <<entry, file, tail, synced, diskTail, pc, record, created, written, seen>>
    BY <1>1, <2>0 DEF ReturnStored, Stored
  <2>2. ReturnsAgree'
    <3>1. acked \subseteq Range(Lines)
      BY <1>0, <2>1 DEF NeverSilentlyGone
    <3> QED
      BY <1>0, <2>0, <2>1, <3>1, ReadableLines DEF ReturnsAgree
  <2>3. entry' # "absent" \/ pc' = "idle"
    BY <2>1
  <2>4. Appending' /\ Unsynced' /\ Kept'
    BY <1>0, <2>1 DEF Appending, Unsynced, Kept
  <2>5. Lines' = Lines
    BY <2>1 DEF Lines
  <2>6. NeverSilentlyGone'
    BY <1>0, <2>0, <2>1, <2>5 DEF NeverSilentlyGone
  <2> QED
    BY <2>2, <2>4, <2>6 DEF EvidenceInv
<1>2. CASE Load
  <2>1. /\ Readable /\ seen' = seen \cup Range(Lines)
        /\ UNCHANGED <<entry, file, tail, synced, diskTail, pc, record, created, acked, written>>
    BY <1>2 DEF Load
  <2>2. Lines' = Lines /\ Readable' = Readable
    BY <2>1 DEF Readable, IdsRepeat, Lines
  <2>3. Appending' /\ Unsynced' /\ Kept' /\ ReturnsAgree'
    BY <1>0, <2>1, <2>2 DEF Appending, Unsynced, Kept, ReturnsAgree
  <2>4. NeverSilentlyGone'
    BY <1>0, <2>1, <2>2 DEF NeverSilentlyGone
  <2> QED
    BY <2>3, <2>4 DEF EvidenceInv
<1>3. CASE Abort
  <2>0. /\ pc # "idle" /\ pc' = "idle" /\ UNCHANGED <<entry, file, synced, diskTail, acked, written, seen>>
        /\ tail' = tail \/ tail' = Torn
    BY <1>3 DEF Abort, Stop
  <2>1. Appending' /\ Unsynced' /\ Kept' /\ ReturnsAgree'
    BY <1>0, <2>0 DEF Appending, Unsynced, Kept, ReturnsAgree
  <2>2. ASSUME Readable' PROVE acked \cup seen \subseteq Range(Lines)'
    <3>1. tail' = tail
      BY <2>0, <2>2, ReadableLines
    <3>2. Lines' = Lines
      BY <2>0, <3>1 DEF Lines
    <3>3. Readable
      BY <2>2, <3>2 DEF Readable, IdsRepeat
    <3> QED
      BY <1>0, <3>2, <3>3 DEF NeverSilentlyGone
  <2>3. NeverSilentlyGone'
    BY <2>0, <2>2 DEF NeverSilentlyGone
  <2> QED
    BY <2>1, <2>3 DEF EvidenceInv
<1> QED
  BY <1>1, <1>2, <1>3

\* Nothing happens.
LEMMA StutterKeeps ==
  ASSUME NoRecord, EvidenceInv, TypeOK',
         UNCHANGED <<entry, file, tail, synced, diskTail, pc, record, created, acked, written, seen>>
  PROVE  EvidenceInv'
<1>1. Appending'
  BY DEF EvidenceInv, Appending, Readable, IdsRepeat, Lines
<1>2. Unsynced' /\ Kept' /\ ReturnsAgree' /\ NeverSilentlyGone'
  BY QuietStep
<1> QED
  BY <1>1, <1>2 DEF EvidenceInv

\* Power fails: what was synced stays, and only what was written counts.
LEMMA PowerKeeps ==
  ASSUME NoRecord, EvidenceInv, TypeOK', PowerLoss
  PROVE  EvidenceInv'
<1>0. /\ TypeOK /\ Unsynced /\ Appending /\ Kept /\ ReturnsAgree
      /\ Len(file) \in Nat /\ synced \in Nat /\ synced <= Len(file) /\ written \subseteq acked
      /\ file \in Seq(Record \cup {Garbage}) /\ Garbage \notin Record
      /\ written \subseteq Record
  BY DEF EvidenceInv, TypeOK, NoRecord
<1>1. pc' = "idle" /\ acked' = written /\ seen' = {} /\ written' = written
  BY DEF PowerLoss, Stop
<1>2. Appending' /\ ReturnsAgree'
  BY <1>0, <1>1 DEF Appending, ReturnsAgree
<1>3. Unsynced' /\ Kept'
  <2>1. ASSUME NEW n \in synced..Len(file), entry' = "durable", file' = SubSeq(file, 1, n), synced' = n
        PROVE  Unsynced' /\ Kept'
    <3>1. n \in Nat /\ synced <= n /\ n <= Len(file)
      BY <1>0, <2>1
    <3>2. \A i \in 1..synced : i \in 1..n /\ file'[i] = file[i]
      BY <1>0, <2>1, <3>1
    <3> QED
      BY <1>0, <1>1, <2>1, <3>2 DEF Unsynced, Kept
  <2>2. ASSUME entry = "cached", entry' = "absent", synced' = 0
        PROVE  Unsynced' /\ Kept'
    BY <1>0, <1>1, <2>2 DEF Unsynced, Kept
  <2> QED
    BY <2>1, <2>2 DEF PowerLoss
<1>4. ASSUME Readable', NEW r \in written PROVE r \in Range(Lines)'
  <2>1. PICK i \in 1..synced' : file'[i] = r \/ file'[i] = Garbage
    BY <1>1, <1>3 DEF Kept
  <2>2. i \in 1..Len(file')
    BY <2>1 DEF TypeOK
  <2>3. file'[i] = r
    BY <1>4, <2>1, <2>2, ReadableLines
  <2> QED
    BY <2>2, <2>3, LinesRead
<1>5. NeverSilentlyGone'
  BY <1>1, <1>4 DEF NeverSilentlyGone
<1> QED
  BY <1>2, <1>3, <1>5 DEF EvidenceInv

\* The assumptions: what a cut leaves is no record, and fsync of a file makes its
\* directory entry durable.
Assumed == NoRecord /\ FsyncFlushesEntry

LEMMA EvidenceStep == Assumed /\ EvidenceInv /\ [LogNext]_logVars => EvidenceInv'
<1> SUFFICES ASSUME Assumed, EvidenceInv, [LogNext]_logVars PROVE EvidenceInv'
  OBVIOUS
<1>1. NoRecord /\ FsyncFlushesEntry
  BY DEF Assumed
<1>2. TypeOK'
  BY <1>1, EvidenceType DEF EvidenceInv
<1>3. CASE UNCHANGED logVars
  <2>1. UNCHANGED <<entry, file, tail, synced, diskTail, pc, record, created, acked, written, seen>>
    BY <1>3 DEF logVars, told, disk
  <2> QED
    BY <1>1, <1>2, <2>1, StutterKeeps
<1>4. CASE LogNext
  <2>1. ASSUME NEW r \in Record, ReturnStored(r) PROVE EvidenceInv'
    BY <1>1, <1>2, <2>1, LoadAbortKeeps
  <2>2. ASSUME NEW r \in Record, Start(r) PROVE EvidenceInv'
    BY <1>1, <1>2, <2>2, AppendKeeps
  <2>3. CASE WriteText \/ WriteNewline \/ Fsync \/ ReturnWritten
    BY <1>1, <1>2, <2>3, AppendKeeps
  <2>4. CASE Load \/ Abort
    BY <1>1, <1>2, <2>4, LoadAbortKeeps
  <2>5. CASE PowerLoss
    BY <1>1, <1>2, <2>5, PowerKeeps
  <2> QED
    BY <1>4, <2>1, <2>2, <2>3, <2>4, <2>5 DEF LogNext
<1> QED
  BY <1>3, <1>4

LEMMA EvidenceInvariant == Assumed => (LogSpec => []EvidenceInv)
<1> SUFFICES ASSUME Assumed PROVE LogSpec => []EvidenceInv
  OBVIOUS
<1>1. LogInit => EvidenceInv
  BY EvidenceInit DEF Assumed
<1>2. EvidenceInv /\ [LogNext]_logVars => EvidenceInv'
  BY EvidenceStep
<1> QED
  BY <1>1, <1>2, PTL DEF LogSpec

\* What a companion log returned after writing it stays on disk: no kill and no power
\* loss takes it, as long as the log can be read.
THEOREM WrittenEvidenceIsDurable == FsyncFlushesEntry => (LogSpec => []WrittenDurable)
<1> SUFFICES ASSUME FsyncFlushesEntry PROVE LogSpec => []WrittenDurable
  OBVIOUS
<1>0. Assumed
  BY CutsAreNoRecords DEF Assumed
<1>1. EvidenceInv => WrittenDurable
  <2> SUFFICES ASSUME EvidenceInv, Readable, NEW r \in written PROVE Durable(r)
    BY DEF WrittenDurable
  <2>1. PICK i \in 1..synced : file[i] = r \/ file[i] = Garbage
    BY DEF EvidenceInv, Kept
  <2>2. i \in 1..Len(file) /\ entry = "durable"
    BY DEF EvidenceInv, Unsynced, TypeOK
  <2>3. file[i] = r
    BY <1>0, <2>1, <2>2, ReadableLines DEF Assumed, EvidenceInv
  <2> QED
    BY <2>2, <2>3 DEF Durable
<1>2. LogSpec => []EvidenceInv
  BY <1>0, EvidenceInvariant
<1> QED
  BY <1>1, <1>2, PTL

\* Callers that append under one semantic id are given one record.
THEOREM EvidenceReturnsAgree == FsyncFlushesEntry => (LogSpec => []ReturnsAgree)
<1> SUFFICES ASSUME FsyncFlushesEntry PROVE LogSpec => []ReturnsAgree
  OBVIOUS
<1>0. Assumed
  BY CutsAreNoRecords DEF Assumed
<1>1. EvidenceInv => ReturnsAgree
  BY DEF EvidenceInv
<1>2. LogSpec => []EvidenceInv
  BY <1>0, EvidenceInvariant
<1> QED
  BY <1>1, <1>2, PTL

\* Whatever a log returned or showed is there whenever the log can be read.
THEOREM EvidenceIsNeverSilentlyGone == FsyncFlushesEntry => (LogSpec => []NeverSilentlyGone)
<1> SUFFICES ASSUME FsyncFlushesEntry PROVE LogSpec => []NeverSilentlyGone
  OBVIOUS
<1>0. Assumed
  BY CutsAreNoRecords DEF Assumed
<1>1. EvidenceInv => NeverSilentlyGone
  BY DEF EvidenceInv
<1>2. LogSpec => []EvidenceInv
  BY <1>0, EvidenceInvariant
<1> QED
  BY <1>1, <1>2, PTL

================================================================================
