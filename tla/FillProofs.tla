------------------------------- MODULE FillProofs -------------------------------
(***************************************************************************)
(* Theorems about EvaluationFill, for every set of Runner processes, cells *)
(* and plans, every policy on benchmark-invalid Results and any number of  *)
(* paid runs.                                                              *)
(***************************************************************************)
EXTENDS EvaluationFill, TLAPS

CellSets == [id : CellSetId, bind : UNION {[D -> Row \cup {None}] : D \in SUBSET Cells}]

\* What a process holds while it is at each place of the call.
Local(f) ==
  /\ pc[f] # "idle" => scoring[f] \in Scorings
  /\ pc[f] = "produced" => product[f] \in Row
  /\ pc[f] = "scanned" => product[f] \in CellSets
  /\ pc[f] \in {"appending", "scanned"} =>
       \A c \in Union(pending[f]) : bound[f][c] \in Row \cup {None}

Typed ==
  /\ TypeOK
  /\ log \in Seq(CellSets)
  /\ DOMAIN product = Fillers /\ DOMAIN bound = Fillers
  /\ \A f \in Fillers : Local(f)

\* Everything a process can do in one step.
Act(f) ==
  \/ \E plans \in (SUBSET Plans) \ {{}}, s \in Scorings : Begin(f, plans, s)
  \/ \E cells \in (SUBSET Cells) \ {{}}, s \in Scorings : RunAgents(f, cells, s)
  \/ Progress(f) \/ Abort(f)

--------------------------------------------------------------------------------
(* Type correctness.                                                       *)

\* The cells of any plans are cells.
LEMMA UnionType ==
  ASSUME NEW plans \in SUBSET Plans
  PROVE  Union(plans) \subseteq Cells
  BY FillConstants DEF Union

\* A binding is missing, or a stored row of the cell under the scoring.
LEMMA ViewFacts ==
  ASSUME NEW c, NEW s
  PROVE  \/ View(c, s) = None
         \/ View(c, s) \in rows /\ View(c, s).cell = c /\ View(c, s).scoring = s
  BY DEF View, Views

\* Repricing keeps the cell, the run and the state of a stored reusable row.
LEMMA RepricedFacts ==
  ASSUME Typed, NEW f \in Fillers, scoring[f] \in Scorings, NEW new \in Repriced(f)
  PROVE  /\ new \in Row
         /\ \E old \in rows : /\ old.cell = new.cell /\ old.run = new.run
                              /\ old.state = new.state /\ Reusable(old)
<1>1. PICK old \in UNION {Views(c) : c \in Union(pending[f])} :
             new = [old EXCEPT !.scoring = scoring[f]]
  BY DEF Repriced
<1>2. old \in rows /\ old \in Row /\ Reusable(old)
  BY <1>1 DEF Views, Typed, TypeOK
<1> QED
  BY <1>1, <1>2 DEF Row

\* A cell set that is built from resolved cells is well typed.
LEMMA CellSetType ==
  ASSUME Typed, NEW f \in Fillers, pc[f] = "appending", NEW p \in pending[f]
  PROVE  CellSet(f, p) \in CellSets
<1>1. p \in Plans /\ scoring[f] \in Scorings
  BY DEF Typed, TypeOK, Local
<1>2. PlanCells[p] \in SUBSET Cells /\ PlanCells[p] \subseteq Union(pending[f])
  BY <1>1, FillConstants DEF Union
<1>3. [c \in PlanCells[p] |-> bound[f][c]] \in [PlanCells[p] -> Row \cup {None}]
  BY <1>2 DEF Typed, Local
<1>4. [c \in PlanCells[p] |-> bound[f][c]]
        \in UNION {[D -> Row \cup {None}] : D \in SUBSET Cells}
  BY <1>2, <1>3
<1> QED
  BY <1>1, <1>4 DEF CellSet, CellSets, CellSetId

\* The rows that a well-typed cell set binds are Results.
LEMMA BoundRowsType ==
  ASSUME NEW cs \in CellSets
  PROVE  cs.id \in CellSetId /\ BoundRows(cs) \subseteq Row
<1>1. PICK D \in SUBSET Cells : cs.bind \in [D -> Row \cup {None}]
  BY DEF CellSets
<1> QED
  BY <1>1 DEF BoundRows, CellSets

\* The variables other than log, product and bound keep their types: with the
\* log well typed this is all that TypeOK asks.
Basic ==
  /\ rows \subseteq Row
  /\ paid \in [Cells -> 0..MaxRuns]
  /\ holder \in Fillers \cup {Nobody}
  /\ pc \in [Fillers -> {"idle", "planned", "waiting", "filling", "produced",
                         "repriced", "appending", "scanned"}]
  /\ forced \in [Fillers -> BOOLEAN]
  /\ scoring \in [Fillers -> Scorings \cup {Missing}]
  /\ pending \in [Fillers -> SUBSET Plans]
  /\ todo \in [Fillers -> SUBSET Cells]

Shape ==
  /\ Basic /\ log \in Seq(CellSets)
  /\ DOMAIN product = Fillers /\ DOMAIN bound = Fillers
  /\ \A f \in Fillers : Local(f)

\* So the two formulations of the type invariant agree.
LEMMA ShapeIsTyped == Shape <=> Typed
<1>1. log \in Seq(CellSets) =>
        \A i \in DOMAIN log : log[i].id \in CellSetId /\ BoundRows(log[i]) \subseteq Row
  BY BoundRowsType
<1> QED
  BY <1>1 DEF Shape, Typed, Basic, TypeOK

\* Ending a call, whatever ends it, is well typed.
LEMMA EndType ==
  ASSUME Shape, NEW f \in Fillers, End(f)
  PROVE  Shape'
  BY DEF Shape, Basic, End, Goto, Local, Union

\* Every step of a process is well typed.
LEMMA ActType ==
  ASSUME Typed, NEW f \in Fillers, Act(f)
  PROVE  Shape'
<1>shape. Shape
  BY ShapeIsTyped
<1> SUFFICES ASSUME ~End(f) PROVE Shape'
  BY <1>shape, EndType
<1> USE <1>shape, FillConstants DEF Shape, Basic, Local, Union, store, Goto
<1>1. ASSUME NEW plans \in (SUBSET Plans) \ {{}}, NEW s \in Scorings, Begin(f, plans, s)
      PROVE  Shape'
  BY <1>1 DEF Begin
<1>2. ASSUME NEW cells \in (SUBSET Cells) \ {{}}, NEW s \in Scorings, RunAgents(f, cells, s)
      PROVE  Shape'
  BY <1>2 DEF RunAgents
<1>3. CASE CheckBindings(f)
  <2>1. PICK kept \in SUBSET pending[f] :
          /\ pending' = [pending EXCEPT ![f] = kept]
          /\ pc[f] = "planned" /\ pc' = [pc EXCEPT ![f] = "waiting"]
          /\ UNCHANGED <<rows, log, paid, holder, forced, scoring, todo, product, bound>>
    BY <1>3 DEF CheckBindings
  <2> QED
    BY <2>1
<1>4. CASE OpenSession(f)
  BY <1>4 DEF OpenSession
<1>5. ASSUME NEW c \in Cells, NEW outcome \in Outcomes, RunCell(f, c, outcome)
      PROVE  Shape'
  <2>1. paid[c] + 1 \in 1..MaxRuns /\ scoring[f] \in Scorings
    BY <1>5 DEF RunCell
  <2>2. product'[f] \in Row
    BY <1>5, <2>1 DEF RunCell, Row
  <2> QED
    BY <1>5, <2>1, <2>2 DEF RunCell
<1>6. CASE StoreResult(f)
  BY <1>6 DEF StoreResult
<1>7. CASE RunAgentsReturns(f)
  BY <1>7 DEF RunAgentsReturns
<1>8. CASE Reprice(f)
  <2>1. scoring[f] \in Scorings
    BY <1>8 DEF Reprice
  <2>2. Repriced(f) \subseteq Row
    BY <2>1, RepricedFacts
  <2> QED
    BY <1>8, <2>2 DEF Reprice
<1>9. CASE Resolve(f)
  <2>1. \A c, s : View(c, s) \in Row \cup {None}
    BY ViewFacts
  <2> QED
    BY <1>9, <2>1 DEF Resolve
<1>10. ASSUME NEW p \in Plans, ScanLog(f, p)
       PROVE  Shape'
  <2>1. CellSet(f, p) \in CellSets
    BY <1>10, CellSetType DEF ScanLog
  <2>2. CASE pc'[f] = "scanned"
    <3>1. /\ product' = [product EXCEPT ![f] = CellSet(f, p)] /\ pc[f] = "appending"
          /\ pc' = [pc EXCEPT ![f] = "scanned"]
          /\ UNCHANGED <<rows, log, paid, holder, forced, scoring, pending, todo, bound>>
      BY <1>10, <2>2 DEF ScanLog
    <3> QED
      BY <3>1, <2>1
  <2>3. CASE pc'[f] # "scanned"
    <3>1. /\ pending' = [pending EXCEPT ![f] = @ \ {p}] /\ pc[f] = "appending"
          /\ UNCHANGED <<rows, log, paid, holder, pc, forced, scoring, todo, product, bound>>
      BY <1>10, <2>3 DEF ScanLog
    <3> QED
      BY <3>1
  <2> QED
    BY <2>2, <2>3
<1>11. CASE AppendCellSet(f)
  BY <1>11 DEF AppendCellSet
<1>12. CASE Return(f)
  BY <1>12 DEF Return
<1>13. CASE Abort(f)
  BY <1>13 DEF Abort
<1> QED
  BY <1>1, <1>2, <1>3, <1>4, <1>5, <1>6, <1>7, <1>8, <1>9, <1>10, <1>11, <1>12,
     <1>13 DEF Act, Progress

\* The initial state is well typed.
LEMMA TypedInit == Init => Typed
<1>1. Init => Shape
  BY FillConstants DEF Init, Shape, Basic, Local
<1> QED
  BY <1>1, ShapeIsTyped

\* Every step is well typed.
LEMMA TypedNext == Typed /\ [Next]_vars => Typed'
<1> SUFFICES ASSUME Typed, [Next]_vars PROVE Shape'
  BY ShapeIsTyped, PTL
<1>1. CASE UNCHANGED vars
  BY <1>1, ShapeIsTyped DEF Shape, Basic, Local, Union, vars
<1>2. CASE Next
  BY <1>2, ActType DEF Next, Act
<1> QED
  BY <1>1, <1>2

\* Type correctness of filling, for every set of processes, cells and plans.
THEOREM TypeInvariant == Spec => []TypeOK
<1>1. Typed => TypeOK
  BY DEF Typed
<1> QED
  BY <1>1, TypedInit, TypedNext, PTL DEF Spec

--------------------------------------------------------------------------------
(* Paying once.                                                            *)

Inside == {"filling", "produced", "repriced"}

\* The session is exclusive, and while it lasts no cell that a fill has still
\* to run gets a reusable Result but by its holder, who then crosses it off.
PayInv ==
  /\ Typed
  /\ \A f \in Fillers : pc[f] \in Inside => holder = f
  /\ \A f \in Fillers : ~forced[f] /\ pc[f] = "filling" =>
       \A c \in todo[f] : Views(c) = {}
  /\ \A f \in Fillers : ~forced[f] /\ pc[f] = "produced" =>
       \A c \in todo[f] : c # product[f].cell => Views(c) = {}

\* Nobody calls run_agents.
Unforced == \A f \in Fillers : ~forced[f]

\* Stored runs were counted, and only non-reusable ones are older than another.
Runs ==
  /\ \A x \in rows : x.run <= paid[x.cell]
  /\ SecondRunsOnlyReplace

\* A run that is about to be stored is newer than every stored run of its cell,
\* and none of those can be reused.
Newer(f) ==
  /\ product[f].run <= paid[product[f].cell]
  /\ \A x \in rows : x.cell = product[f].cell =>
       x.run < product[f].run /\ ~Reusable(x)

RunInv ==
  /\ PayInv /\ Unforced /\ Runs
  /\ \A f \in Fillers : pc[f] = "produced" => Newer(f)

\* A step of one process leaves the locals of every other one alone.
LEMMA ActIsLocal ==
  ASSUME Typed, NEW f \in Fillers, Act(f), NEW g \in Fillers, g # f
  PROVE  /\ pc'[g] = pc[g] /\ forced'[g] = forced[g] /\ scoring'[g] = scoring[g]
         /\ pending'[g] = pending[g] /\ todo'[g] = todo[g]
         /\ product'[g] = product[g] /\ bound'[g] = bound[g]
<1> DEFINE Same == /\ pc'[g] = pc[g] /\ forced'[g] = forced[g] /\ scoring'[g] = scoring[g]
                   /\ pending'[g] = pending[g] /\ todo'[g] = todo[g]
                   /\ product'[g] = product[g] /\ bound'[g] = bound[g]
<1> SUFFICES Same
  OBVIOUS
<1>dom. /\ DOMAIN pc = Fillers /\ DOMAIN forced = Fillers /\ DOMAIN scoring = Fillers
        /\ DOMAIN pending = Fillers /\ DOMAIN todo = Fillers
        /\ DOMAIN product = Fillers /\ DOMAIN bound = Fillers
  BY DEF Typed, TypeOK
<1> USE <1>dom
<1>0. CASE End(f)
  BY <1>0 DEF End, Goto
<1> SUFFICES ASSUME ~End(f) PROVE Same
  BY <1>0
<1> USE DEF Goto, store
<1>1. ASSUME NEW plans, NEW s, Begin(f, plans, s) \/ RunAgents(f, plans, s) PROVE Same
  BY <1>1 DEF Begin, RunAgents
<1>2. CASE CheckBindings(f) \/ OpenSession(f)
  BY <1>2 DEF CheckBindings, OpenSession
<1>3. ASSUME NEW c, NEW outcome, RunCell(f, c, outcome) PROVE Same
  BY <1>3 DEF RunCell
<1>4. CASE StoreResult(f) \/ Reprice(f) \/ Resolve(f)
  BY <1>4 DEF StoreResult, Reprice, Resolve
<1>5. ASSUME NEW p, ScanLog(f, p) PROVE Same
  BY <1>5 DEF ScanLog
<1>6. CASE AppendCellSet(f)
  BY <1>6 DEF AppendCellSet
<1> QED
  BY <1>1, <1>2, <1>3, <1>4, <1>5, <1>6 DEF Act, Progress, RunAgentsReturns, Return, Abort

\* Only the holder of the session stores rows, and nobody takes one away.
LEMMA RowsGrow ==
  ASSUME NEW f \in Fillers, Act(f)
  PROVE  rows \subseteq rows' /\ (rows' = rows \/ StoreResult(f) \/ Reprice(f))
<1> USE DEF store
<1>0. CASE End(f)
  BY <1>0 DEF End
<1>1. CASE StoreResult(f)
  BY <1>1 DEF StoreResult
<1>2. CASE Reprice(f)
  BY <1>2, <1>0 DEF Reprice
<1>3. ASSUME ~End(f), ~StoreResult(f), ~Reprice(f) PROVE rows' = rows
  <2>1. ASSUME NEW plans, NEW s, Begin(f, plans, s) \/ RunAgents(f, plans, s)
        PROVE  rows' = rows
    BY <2>1 DEF Begin, RunAgents
  <2>2. CASE CheckBindings(f) \/ OpenSession(f)
    BY <1>3, <2>2 DEF CheckBindings, OpenSession
  <2>3. ASSUME NEW c, NEW outcome, RunCell(f, c, outcome) PROVE rows' = rows
    BY <2>3 DEF RunCell
  <2>4. ASSUME NEW p, ScanLog(f, p) PROVE rows' = rows
    BY <1>3, <2>4 DEF ScanLog
  <2>5. CASE Resolve(f) \/ AppendCellSet(f)
    BY <2>5 DEF Resolve, AppendCellSet
  <2> QED
    BY <1>3, <2>1, <2>2, <2>3, <2>4, <2>5
       DEF Act, Progress, RunAgentsReturns, Return, Abort
<1> QED
  BY <1>0, <1>1, <1>2, <1>3

\* The session is exclusive: after a step only its holder is inside.
LEMMA SessionNext ==
  ASSUME PayInv, NEW f \in Fillers, Act(f)
  PROVE  \A g \in Fillers : pc'[g] \in Inside => holder' = g
<1> DEFINE Kept == /\ pc'[f] \in Inside => holder' = f
                   /\ holder' # holder => holder \in {f, Nobody}
<1> SUFFICES Kept
  <2>1. \A g \in Fillers : g # f => pc'[g] = pc[g]
    BY ActIsLocal DEF PayInv
  <2> QED
    BY <2>1, FillConstants DEF PayInv
<1>type. /\ DOMAIN pc = Fillers
         /\ pc[f] \in Inside => holder = f
  BY DEF PayInv, Typed, TypeOK
<1> USE <1>type DEF Goto, store, Inside
<1>0. CASE End(f)
  BY <1>0 DEF End
<1> SUFFICES ASSUME ~End(f) PROVE Kept
  BY <1>0
<1>1. ASSUME NEW plans, NEW s, Begin(f, plans, s) \/ RunAgents(f, plans, s) PROVE Kept
  BY <1>1 DEF Begin, RunAgents
<1>2. CASE CheckBindings(f)
  BY <1>2 DEF CheckBindings
<1>3. CASE OpenSession(f)
  BY <1>3 DEF OpenSession
<1>4. ASSUME NEW c, NEW outcome, RunCell(f, c, outcome) PROVE Kept
  BY <1>4 DEF RunCell
<1>5. CASE StoreResult(f)
  BY <1>5 DEF StoreResult
<1>6. CASE Reprice(f)
  BY <1>6 DEF Reprice
<1>7. CASE Resolve(f)
  BY <1>7 DEF Resolve
<1>8. ASSUME NEW p, ScanLog(f, p) PROVE Kept
  BY <1>8 DEF ScanLog
<1>9. CASE AppendCellSet(f)
  BY <1>9 DEF AppendCellSet
<1> QED
  BY <1>1, <1>2, <1>3, <1>4, <1>5, <1>6, <1>7, <1>8, <1>9
     DEF Act, Progress, RunAgentsReturns, Return, Abort

\* While a process is inside, the rows it looks at are changed by itself only.
LEMMA OthersSeeSameRows ==
  ASSUME PayInv, NEW f \in Fillers, Act(f), NEW g \in Fillers, g # f,
         pc[g] \in Inside
  PROVE  rows' = rows
<1>1. holder = g /\ pc[f] \notin Inside
  BY DEF PayInv
<1> QED
  BY <1>1, RowsGrow DEF StoreResult, Reprice, Inside

\* The cells a process still has to run stay without a reusable Result.
LEMMA MissingStaysMissing ==
  ASSUME PayInv, NEW f \in Fillers, Act(f)
  PROVE  /\ ~forced'[f] /\ pc'[f] = "filling" => \A c \in todo'[f] : Views(c)' = {}
         /\ ~forced'[f] /\ pc'[f] = "produced" =>
              \A c \in todo'[f] : c # product'[f].cell => Views(c)' = {}
<1> DEFINE Kept == /\ ~forced'[f] /\ pc'[f] = "filling" =>
                        \A c \in todo'[f] : Views(c)' = {}
                   /\ ~forced'[f] /\ pc'[f] = "produced" =>
                        \A c \in todo'[f] : c # product'[f].cell => Views(c)' = {}
<1> SUFFICES Kept
  OBVIOUS
<1>type. /\ DOMAIN pc = Fillers /\ DOMAIN todo = Fillers /\ DOMAIN product = Fillers
         /\ DOMAIN forced = Fillers
  BY DEF PayInv, Typed, TypeOK
<1> USE <1>type DEF Goto, store
<1>1. CASE OpenSession(f) /\ ~End(f)
  <2>1. /\ rows' = rows /\ pc'[f] = "filling" /\ forced'[f] = forced[f]
        /\ ~forced[f] => todo'[f] = {c \in Union(pending[f]) : Views(c) = {}}
    BY <1>1 DEF OpenSession
  <2>2. \A c : Views(c)' = Views(c)
    BY <2>1 DEF Views
  <2> QED
    BY <2>1, <2>2
<1>2. ASSUME NEW c, NEW outcome, RunCell(f, c, outcome) PROVE Kept
  <2>1. /\ rows' = rows /\ pc[f] = "filling" /\ pc'[f] = "produced"
        /\ todo'[f] = todo[f] /\ forced'[f] = forced[f]
    BY <1>2 DEF RunCell
  <2>2. \A d : Views(d)' = Views(d)
    BY <2>1 DEF Views
  <2> QED
    BY <2>1, <2>2 DEF PayInv
<1>3. CASE StoreResult(f)
  <2>1. /\ rows' = rows \cup {product[f]} /\ pc[f] = "produced" /\ pc'[f] = "filling"
        /\ todo'[f] = todo[f] \ {product[f].cell} /\ forced'[f] = forced[f]
    BY <1>3 DEF StoreResult
  <2>2. \A d : d # product[f].cell => Views(d)' = Views(d)
    BY <2>1 DEF Views
  <2> QED
    BY <2>1, <2>2 DEF PayInv
<1>4. ASSUME \A c, outcome : ~RunCell(f, c, outcome),
             ~StoreResult(f), ~(OpenSession(f) /\ ~End(f))
      PROVE  Kept
  <2>1. CASE End(f)
    BY <2>1 DEF End
  <2> SUFFICES ASSUME ~End(f) PROVE pc'[f] \notin {"filling", "produced"}
    BY <2>1
  <2>2. ASSUME NEW plans, NEW s, Begin(f, plans, s) \/ RunAgents(f, plans, s)
        PROVE  pc'[f] \notin {"filling", "produced"}
    BY <2>2 DEF Begin, RunAgents
  <2>3. CASE CheckBindings(f)
    BY <2>3 DEF CheckBindings
  <2>4. CASE Reprice(f)
    BY <2>4 DEF Reprice
  <2>5. CASE Resolve(f)
    BY <2>5 DEF Resolve
  <2>6. ASSUME NEW p, ScanLog(f, p) PROVE pc'[f] \notin {"filling", "produced"}
    BY <2>6 DEF ScanLog
  <2>7. CASE AppendCellSet(f)
    BY <2>7 DEF AppendCellSet
  <2> QED
    BY <1>4, <2>2, <2>3, <2>4, <2>5, <2>6, <2>7
       DEF Act, Progress, RunAgentsReturns, Return, Abort
<1> QED
  BY <1>1, <1>2, <1>3, <1>4

\* The invariant of paying is kept by every step.
LEMMA PayNext == PayInv /\ [Next]_vars => PayInv'
<1> SUFFICES ASSUME PayInv, [Next]_vars PROVE PayInv'
  OBVIOUS
<1>type. Typed /\ Typed'
  BY TypedNext DEF PayInv
<1>1. CASE UNCHANGED vars
  <2>1. \A c : Views(c)' = Views(c)
    BY <1>1 DEF Views, vars
  <2> QED
    BY <1>1, <1>type, <2>1 DEF PayInv, vars
<1>2. ASSUME NEW f \in Fillers, Act(f) PROVE PayInv'
  <2>1. ASSUME NEW g \in Fillers, g # f, pc'[g] \in Inside
        PROVE  /\ ~forced'[g] /\ pc'[g] = "filling" => \A c \in todo'[g] : Views(c)' = {}
               /\ ~forced'[g] /\ pc'[g] = "produced" =>
                    \A c \in todo'[g] : c # product'[g].cell => Views(c)' = {}
    <3>1. /\ pc'[g] = pc[g] /\ todo'[g] = todo[g] /\ product'[g] = product[g]
          /\ forced'[g] = forced[g]
      BY <1>2, <1>type, <2>1, ActIsLocal
    <3>2. rows' = rows
      BY <1>2, <2>1, <3>1, OthersSeeSameRows
    <3>3. \A c : Views(c)' = Views(c)
      BY <3>2 DEF Views
    <3> QED
      BY <3>1, <3>3, <2>1 DEF PayInv
  <2>2. \A g \in Fillers :
          /\ ~forced'[g] /\ pc'[g] = "filling" => \A c \in todo'[g] : Views(c)' = {}
          /\ ~forced'[g] /\ pc'[g] = "produced" =>
               \A c \in todo'[g] : c # product'[g].cell => Views(c)' = {}
    BY <1>2, <2>1, MissingStaysMissing DEF Inside
  <2> QED
    BY <1>2, <1>type, <2>2, SessionNext DEF PayInv
<1> QED
  BY <1>1, <1>2 DEF Next, Act

\* Nothing is owed at the start.
LEMMA PayInit == Init => PayInv
<1> SUFFICES ASSUME Init PROVE PayInv
  OBVIOUS
<1>1. Typed
  BY TypedInit
<1> QED
  BY <1>1 DEF PayInv, Init, Inside

\* Only RunCell pays, for a cell that its process has still to run.
LEMMA OnlyMissingIsPaid ==
  ASSUME PayInv, NEW f \in Fillers, Act(f), NEW c \in Cells, paid'[c] # paid[c]
  PROVE  Views(c) = {} \/ Forces(f, c)
<1> USE DEF store
<1>0. ASSUME NEW d, NEW outcome, RunCell(f, d, outcome)
      PROVE  Views(c) = {} \/ Forces(f, c)
  <2>1. d = c /\ c \in todo[f] /\ pc[f] = "filling"
    BY <1>0 DEF RunCell, PayInv, Typed, TypeOK
  <2> QED
    BY <2>1 DEF PayInv, Forces
<1>1. CASE End(f)
  BY <1>1 DEF End
<1> SUFFICES ASSUME ~End(f), \A d, outcome : ~RunCell(f, d, outcome)
             PROVE  paid' = paid
  BY <1>0, <1>1
<1>2. ASSUME NEW plans, NEW s, Begin(f, plans, s) \/ RunAgents(f, plans, s)
      PROVE  paid' = paid
  BY <1>2 DEF Begin, RunAgents
<1>3. CASE CheckBindings(f) \/ OpenSession(f)
  BY <1>3 DEF CheckBindings, OpenSession
<1>4. CASE StoreResult(f) \/ Reprice(f) \/ Resolve(f) \/ AppendCellSet(f)
  BY <1>4 DEF StoreResult, Reprice, Resolve, AppendCellSet
<1>5. ASSUME NEW p, ScanLog(f, p) PROVE paid' = paid
  BY <1>5 DEF ScanLog
<1> QED
  BY <1>2, <1>3, <1>4, <1>5 DEF Act, Progress, RunAgentsReturns, Return, Abort

\* No cell is paid for while the store holds a reusable Result of it but by a
\* caller of run_agents, however many processes fill overlapping plans or run
\* Agents beside them, and wherever earlier calls were interrupted.
THEOREM FillsNeverPayAgain == Spec => NeverPaidAgain
<1>1. PayInv /\ [Next]_vars => PayInv'
  BY PayNext
<1>2. PayInv /\ [Next]_vars => [\A c \in Cells : paid'[c] # paid[c] =>
                                  Views(c) = {} \/ \E f \in Fillers : Forces(f, c)]_vars
  BY OnlyMissingIsPaid DEF Next, Act
<1> QED
  BY <1>1, <1>2, PayInit, PTL DEF Spec, NeverPaidAgain

--------------------------------------------------------------------------------
(* Second executions.                                                      *)

\* What a step that runs no cell and stores nothing leaves alone.
LEMMA QuietStep ==
  ASSUME Typed, NEW f \in Fillers, Act(f),
         \A c \in Cells, outcome \in Outcomes : ~RunCell(f, c, outcome),
         ~StoreResult(f), ~(Reprice(f) /\ ~End(f))
  PROVE  /\ rows' = rows /\ paid' = paid
         /\ pc'[f] # "produced"
<1> DEFINE Quiet == rows' = rows /\ paid' = paid /\ pc'[f] # "produced"
<1> SUFFICES Quiet
  OBVIOUS
<1>dom. DOMAIN pc = Fillers
  BY DEF Typed, TypeOK
<1> USE <1>dom DEF store, Goto
<1>0. CASE End(f)
  BY <1>0 DEF End
<1> SUFFICES ASSUME ~End(f) PROVE Quiet
  BY <1>0
<1>1. ASSUME NEW plans, NEW s, Begin(f, plans, s) \/ RunAgents(f, plans, s)
      PROVE  Quiet
  BY <1>1 DEF Begin, RunAgents
<1>2. CASE CheckBindings(f) \/ OpenSession(f)
  BY <1>2 DEF CheckBindings, OpenSession
<1>3. CASE Resolve(f) \/ AppendCellSet(f)
  BY <1>3 DEF Resolve, AppendCellSet
<1>4. ASSUME NEW p, ScanLog(f, p) PROVE Quiet
  BY <1>4 DEF ScanLog
<1> QED
  BY <1>1, <1>2, <1>3, <1>4 DEF Act, Progress, RunAgentsReturns, Return, Abort

\* What can be reused does not depend on the state.
LEMMA ReusableIsConstant == \A x : Reusable(x)' = Reusable(x)
  BY DEF Reusable

\* The run counter only grows, and a new run of a cell is newer than all
\* stored ones, which cannot be reused: the cell was missing.
LEMMA RunCellKeepsRuns ==
  ASSUME RunInv, NEW f \in Fillers, NEW c \in Cells, NEW outcome \in Outcomes,
         RunCell(f, c, outcome)
  PROVE  Runs' /\ Newer(f)'
<1> USE DEF RunInv, PayInv, Unforced, Typed, TypeOK, RunCell
<1>1. /\ rows' = rows /\ paid' = [paid EXCEPT ![c] = @ + 1]
      /\ product'[f].cell = c /\ product'[f].run = paid[c] + 1
      /\ paid[c] \in Nat /\ Views(c) = {}
  BY FillConstants
<1>2. \A x \in rows : x.cell \in Cells /\ x.run \in Nat /\ paid[x.cell] \in Nat
  BY FillConstants DEF Row
<1>3. \A x \in rows : x.cell = c => x.run < paid[c] + 1 /\ ~Reusable(x)
  BY <1>1, <1>2 DEF Views, Runs
<1>4. \A x \in rows' : x.run <= paid'[x.cell]
  BY <1>1, <1>2 DEF Runs
<1>5. SecondRunsOnlyReplace'
  BY <1>1, ReusableIsConstant DEF Runs, SecondRunsOnlyReplace
<1> QED
  BY <1>1, <1>3, <1>4, <1>5, ReusableIsConstant DEF Runs, Newer

\* Storing that run keeps the order of runs and of reuse.
LEMMA StoreKeepsRuns ==
  ASSUME RunInv, NEW f \in Fillers, StoreResult(f)
  PROVE  Runs' /\ pc'[f] = "filling"
<1>1. /\ rows' = rows \cup {product[f]} /\ paid' = paid /\ pc[f] = "produced"
      /\ pc'[f] = "filling" /\ product[f] \in Row
  BY DEF StoreResult, Goto, RunInv, PayInv, Typed, TypeOK, Local
<1>2. \A x \in rows' : x.run \in Nat
  BY <1>1 DEF RunInv, PayInv, Typed, TypeOK, Row
<1>3. Newer(f) /\ Runs
  BY <1>1 DEF RunInv
<1>4. \A x, y \in rows' : x.cell = y.cell /\ x.run < y.run => ~Reusable(x)
  BY <1>1, <1>2, <1>3 DEF Newer, Runs, SecondRunsOnlyReplace
<1> QED
  BY <1>1, <1>3, <1>4, ReusableIsConstant DEF Newer, Runs, SecondRunsOnlyReplace

\* Repricing adds views of stored executions and no execution.
LEMMA RepriceKeepsRuns ==
  ASSUME RunInv, NEW f \in Fillers, Reprice(f), ~End(f)
  PROVE  Runs' /\ pc'[f] = "repriced"
<1>1. /\ rows' = rows \cup Repriced(f) /\ paid' = paid /\ pc[f] = "filling"
      /\ pc'[f] = "repriced" /\ ~Ambiguous
  BY DEF Reprice, Goto, RunInv, PayInv, Typed, TypeOK
<1>2. scoring[f] \in Scorings /\ Typed
  BY <1>1 DEF RunInv, PayInv, Typed, Local
<1>3. \A x \in rows' : \E old \in rows : old.cell = x.cell /\ old.run = x.run
  BY <1>1, <1>2, RepricedFacts
<1>4. \A x, y \in rows' : x.cell = y.cell => x.run = y.run
  BY <1>1, <1>3 DEF Ambiguous
<1>5. \A x \in rows' : x.run \in Nat
  BY <1>3 DEF RunInv, PayInv, Typed, TypeOK, Row
<1>6. \A x \in rows' : x.run <= paid'[x.cell]
  BY <1>1, <1>3 DEF RunInv, Runs
<1> QED
  BY <1>1, <1>4, <1>5, <1>6 DEF Runs, SecondRunsOnlyReplace

\* The step of a process keeps the order of runs.
LEMMA ActKeepsRuns ==
  ASSUME RunInv, NEW f \in Fillers, Act(f)
  PROVE  Runs' /\ (pc'[f] = "produced" => Newer(f)')
<1>1. CASE \E c \in Cells, outcome \in Outcomes : RunCell(f, c, outcome)
  BY <1>1, RunCellKeepsRuns
<1>2. CASE StoreResult(f)
  BY <1>2, StoreKeepsRuns
<1>3. CASE Reprice(f) /\ ~End(f)
  BY <1>3, RepriceKeepsRuns
<1>4. CASE /\ \A c \in Cells, outcome \in Outcomes : ~RunCell(f, c, outcome)
           /\ ~StoreResult(f) /\ ~(Reprice(f) /\ ~End(f))
  <2>1. rows' = rows /\ paid' = paid /\ pc'[f] # "produced"
    BY <1>4, QuietStep DEF RunInv, PayInv
  <2> QED
    BY <2>1, ReusableIsConstant DEF RunInv, Runs, SecondRunsOnlyReplace
<1> QED
  BY <1>1, <1>2, <1>3, <1>4

\* A process that has a run to store holds the session, so no other process
\* counts a run or stores a row.
LEMMA OthersKeepNewer ==
  ASSUME RunInv, NEW f \in Fillers, Act(f), NEW g \in Fillers, g # f,
         pc'[g] = "produced"
  PROVE  Newer(g)'
<1>1. pc[g] = "produced" /\ product'[g] = product[g]
  BY ActIsLocal DEF RunInv, PayInv
<1>2. pc[f] \notin Inside /\ Newer(g)
  BY <1>1 DEF RunInv, PayInv, Inside
<1>3. rows' = rows /\ paid' = paid
  <2>1. \A c \in Cells, outcome \in Outcomes : ~RunCell(f, c, outcome)
    BY <1>2 DEF RunCell, Inside
  <2>2. ~StoreResult(f) /\ ~Reprice(f)
    BY <1>2 DEF StoreResult, Reprice, Inside
  <2> QED
    BY <2>1, <2>2, QuietStep DEF RunInv, PayInv
<1> QED
  BY <1>1, <1>2, <1>3, ReusableIsConstant DEF Newer

\* Only RunAgents makes a call a forced one.
LEMMA UnforcedNext ==
  ASSUME ~AllowForced, Typed, Unforced, [Next]_vars
  PROVE  Unforced'
<1>1. CASE UNCHANGED vars
  BY <1>1 DEF Unforced, vars
<1>2. ASSUME NEW f \in Fillers, Act(f) PROVE Unforced'
  <2> SUFFICES ~forced'[f]
    BY <1>2, ActIsLocal DEF Unforced
  <2>dom. DOMAIN forced = Fillers /\ ~forced[f]
    BY DEF Typed, TypeOK, Unforced
  <2> USE <2>dom DEF store, Goto
  <2>0. CASE End(f)
    BY <2>0 DEF End
  <2> SUFFICES ASSUME ~End(f) PROVE forced' = forced
    BY <2>0
  <2>1. ASSUME NEW plans, NEW s, Begin(f, plans, s) \/ RunAgents(f, plans, s)
        PROVE  forced' = forced
    BY <2>1 DEF Begin, RunAgents
  <2>2. CASE CheckBindings(f) \/ OpenSession(f)
    BY <2>2 DEF CheckBindings, OpenSession
  <2>3. ASSUME NEW c, NEW outcome, RunCell(f, c, outcome) PROVE forced' = forced
    BY <2>3 DEF RunCell
  <2>4. CASE StoreResult(f) \/ Reprice(f) \/ Resolve(f) \/ AppendCellSet(f)
    BY <2>4 DEF StoreResult, Reprice, Resolve, AppendCellSet
  <2>5. ASSUME NEW p, ScanLog(f, p) PROVE forced' = forced
    BY <2>5 DEF ScanLog
  <2> QED
    BY <1>2, <2>1, <2>2, <2>3, <2>4, <2>5
       DEF Act, Progress, RunAgentsReturns, Return, Abort
<1> QED
  BY <1>1, <1>2 DEF Next, Act

\* The order of runs is kept by every step of callers that only fill.
LEMMA RunNext == ~AllowForced /\ RunInv /\ [Next]_vars => RunInv'
<1> SUFFICES ASSUME ~AllowForced, RunInv, [Next]_vars PROVE RunInv'
  OBVIOUS
<1>pay. PayInv' /\ Unforced'
  BY PayNext, UnforcedNext DEF RunInv, PayInv
<1>1. CASE UNCHANGED vars
  BY <1>1, <1>pay, ReusableIsConstant DEF RunInv, Runs, Newer, SecondRunsOnlyReplace, vars
<1>2. ASSUME NEW f \in Fillers, Act(f) PROVE RunInv'
  BY <1>2, <1>pay, ActKeepsRuns, OthersKeepNewer DEF RunInv
<1> QED
  BY <1>1, <1>2 DEF Next, Act

\* Processes that only fill store a second execution of a cell only beside
\* one that the policy does not reuse.
THEOREM FillsOnlyReplace == ~AllowForced => (Spec => []SecondRunsOnlyReplace)
<1> SUFFICES ASSUME ~AllowForced PROVE Spec => []SecondRunsOnlyReplace
  OBVIOUS
<1>1. Init => RunInv
  <2> SUFFICES ASSUME Init PROVE RunInv
    OBVIOUS
  <2> QED
    BY PayInit DEF Init, RunInv, Unforced, Runs, SecondRunsOnlyReplace
<1>2. RunInv /\ [Next]_vars => RunInv'
  BY RunNext
<1>3. RunInv => SecondRunsOnlyReplace
  BY DEF RunInv, Runs
<1> QED
  BY <1>1, <1>2, <1>3, PTL DEF Spec

--------------------------------------------------------------------------------
(* Frozen cell sets.                                                       *)

\* A requested cell has a Result; it has one under the scoring, or one that is
\* not reused.
WasRun(c)     == \E row \in rows : row.cell = c
Settled(c, s) == \E row \in rows : row.cell = c /\ (Reusable(row) => row.scoring = s)

\* A fill still has to run the cells without a Result, and reprices the others.
Settles(f) ==
  /\ ~forced[f] /\ pc[f] \in {"filling", "produced"} =>
       \A c \in Union(pending[f]) : c \in todo[f] \/ WasRun(c)
  /\ pc[f] = "repriced" => \A c \in Union(pending[f]) : Settled(c, scoring[f])

SettleInv == Typed /\ \A f \in Fillers : Settles(f)

LEMMA SettledStays ==
  ASSUME rows \subseteq rows'
  PROVE  \A c, s : (WasRun(c) => WasRun(c)') /\ (Settled(c, s) => Settled(c, s)')
  BY DEF WasRun, Settled, Reusable

LEMMA OthersStaySettled ==
  ASSUME SettleInv, NEW f \in Fillers, Act(f), NEW g \in Fillers, g # f
  PROVE  Settles(g)'
<1>1. /\ pc'[g] = pc[g] /\ forced'[g] = forced[g] /\ scoring'[g] = scoring[g]
      /\ pending'[g] = pending[g] /\ todo'[g] = todo[g]
  BY ActIsLocal DEF SettleInv
<1>2. \A c, s : (WasRun(c) => WasRun(c)') /\ (Settled(c, s) => Settled(c, s)')
  BY RowsGrow, SettledStays
<1>3. Union(pending[g])' = Union(pending[g])
  BY <1>1 DEF Union
<1>4. Settles(g)
  BY DEF SettleInv
<1>5. \A c : WasRun(c) => WasRun(c)'
  BY <1>2
<1>6. \A c : Settled(c, scoring[g]) => Settled(c, scoring[g])'
  BY <1>1, <1>2 DEF Settled
<1> QED
  BY <1>1, <1>3, <1>4, <1>5, <1>6 DEF Settles

\* Repricing gives every cell that has a reusable Result a view under the scoring.
LEMMA RepriceSettles ==
  ASSUME SettleInv, NEW f \in Fillers, Reprice(f), ~End(f), NEW c \in Union(pending[f])
  PROVE  Settled(c, scoring[f])'
<1>1. /\ rows' = rows \cup Repriced(f) /\ WasRun(c) /\ scoring'[f] = scoring[f]
      /\ scoring[f] \in Scorings
  BY DEF Reprice, SettleInv, Settles, Typed, TypeOK, Local
<1>2. PICK row \in rows : row.cell = c
  BY <1>1 DEF WasRun
<1>3. CASE ~Reusable(row)
  BY <1>1, <1>2, <1>3 DEF Settled, Reusable
<1>4. CASE Reusable(row)
  <2>1. row \in Row /\ row \in Views(c)
    BY <1>2, <1>4 DEF SettleInv, Typed, TypeOK, Views
  <2>2. PICK view : view = [row EXCEPT !.scoring = scoring[f]]
    OBVIOUS
  <2>3. view \in Repriced(f) /\ view.cell = c /\ view.scoring = scoring[f]
    BY <1>2, <2>1, <2>2 DEF Repriced, Row
  <2> QED
    BY <1>1, <2>3 DEF Settled
<1> QED
  BY <1>3, <1>4

\* A fill crosses a cell off only when its Result is stored.
LEMMA ActSettles ==
  ASSUME SettleInv, NEW f \in Fillers, Act(f)
  PROVE  Settles(f)'
<1>typed. /\ Typed /\ Settles(f) /\ DOMAIN pc = Fillers /\ DOMAIN todo = Fillers
          /\ DOMAIN forced = Fillers /\ DOMAIN pending = Fillers /\ DOMAIN scoring = Fillers
  BY DEF SettleInv, Typed, TypeOK
<1> USE <1>typed DEF Goto, store
<1>0. CASE End(f)
  BY <1>0 DEF End, Settles
<1> SUFFICES ASSUME ~End(f) PROVE Settles(f)'
  BY <1>0
<1>1. ASSUME NEW plans, NEW s, Begin(f, plans, s) \/ RunAgents(f, plans, s)
      PROVE  Settles(f)'
  BY <1>1 DEF Begin, RunAgents, Settles
<1>2. CASE CheckBindings(f)
  BY <1>2 DEF CheckBindings, Settles
<1>3. CASE OpenSession(f)
  <2>1. /\ pc'[f] = "filling" /\ UNCHANGED <<rows, forced, pending>>
        /\ ~forced[f] => todo'[f] = {c \in Union(pending[f]) : Views(c) = {}}
    BY <1>3 DEF OpenSession
  <2>2. \A c : Views(c) # {} => WasRun(c)'
    BY <2>1 DEF Views, WasRun
  <2>3. Union(pending[f])' = Union(pending[f])
    BY <2>1 DEF Union
  <2> QED
    BY <2>1, <2>2, <2>3 DEF Settles
<1>4. ASSUME NEW c, NEW outcome, RunCell(f, c, outcome) PROVE Settles(f)'
  <2>1. /\ pc[f] = "filling" /\ pc'[f] = "produced" /\ UNCHANGED <<rows, forced, pending, todo>>
    BY <1>4 DEF RunCell
  <2>2. Union(pending[f])' = Union(pending[f]) /\ \A d : WasRun(d)' = WasRun(d)
    BY <2>1 DEF Union, WasRun
  <2> QED
    BY <2>1, <2>2 DEF Settles
<1>5. CASE StoreResult(f)
  <2>1. /\ pc[f] = "produced" /\ pc'[f] = "filling" /\ UNCHANGED <<forced, pending>>
        /\ rows' = rows \cup {product[f]} /\ todo'[f] = todo[f] \ {product[f].cell}
    BY <1>5 DEF StoreResult
  <2>2. Union(pending[f])' = Union(pending[f])
        /\ \A d : (WasRun(d) => WasRun(d)') /\ (d = product[f].cell => WasRun(d)')
    BY <2>1 DEF Union, WasRun
  <2> QED
    BY <2>1, <2>2 DEF Settles
<1>6. CASE Reprice(f)
  <2>1. pc'[f] = "repriced" /\ UNCHANGED <<forced, pending>>
    BY <1>6 DEF Reprice
  <2>2. Union(pending[f])' = Union(pending[f])
    BY <2>1 DEF Union
  <2> QED
    BY <1>6, <2>1, <2>2, RepriceSettles DEF Settles
<1>7. ASSUME NEW p, ScanLog(f, p) \/ Resolve(f) \/ AppendCellSet(f) PROVE Settles(f)'
  BY <1>7 DEF ScanLog, Resolve, AppendCellSet, Settles
<1> QED
  BY <1>1, <1>2, <1>3, <1>4, <1>5, <1>6, <1>7
     DEF Act, Progress, RunAgentsReturns, Return, Abort

\* A binding is a stored row of its cell under its scoring, or it is missing and
\* the cell was run without a reusable Result.
Faithful(stored, row, c, s) ==
  IF row = None THEN \E x \in stored : x.cell = c /\ ~Reusable(x)
  ELSE row \in stored /\ row.cell = c /\ row.scoring = s

FaithfulSet(stored, cs) ==
  \A c \in DOMAIN cs.bind : Faithful(stored, cs.bind[c], c, cs.id[2])

\* What a process resolved, what it is about to append and what is appended
\* binds stored rows: nothing is removed after the session was closed.
FrozenInv ==
  /\ SettleInv
  /\ \A i \in DOMAIN log : FaithfulSet(rows, log[i])
  /\ \A f \in Fillers : pc[f] = "scanned" => FaithfulSet(rows, product[f])
  /\ \A f \in Fillers : pc[f] \in {"appending", "scanned"} =>
       \A c \in Union(pending[f]) : Faithful(rows, bound[f][c], c, scoring[f])

\* A faithful binding stays faithful while rows are only added.
LEMMA FaithfulStays ==
  ASSUME rows \subseteq rows'
  PROVE  /\ \A row, c, s : Faithful(rows, row, c, s) => Faithful(rows', row, c, s)
         /\ \A cs : FaithfulSet(rows, cs) => FaithfulSet(rows', cs)
  BY DEF Faithful, FaithfulSet

\* No Result is the missing one.
LEMMA NoneIsNoRow == None \notin Row
<1>1. DOMAIN None = {"cell"} /\ \A row \in Row : "run" \in DOMAIN row
  BY DEF None, Row
<1> QED
  BY <1>1

\* What Resolve binds is faithful.
LEMMA ResolveIsFaithful ==
  ASSUME SettleInv, NEW f \in Fillers, Resolve(f)
  PROVE  /\ pc'[f] = "appending" /\ log' = log
         /\ \A c \in Union(pending'[f]) : Faithful(rows', bound'[f][c], c, scoring'[f])
<1>1. /\ rows' = rows /\ log' = log /\ pc'[f] = "appending" /\ pc[f] = "repriced"
      /\ scoring' = scoring /\ pending' = pending /\ rows \subseteq Row
      /\ bound'[f] = [c \in Union(pending[f]) |-> View(c, scoring[f])]
  BY DEF Resolve, Goto, SettleInv, Typed, TypeOK
<1>2. \A c \in Union(pending[f]) : bound'[f][c] = View(c, scoring[f])
  BY <1>1
<1>3. ASSUME NEW c \in Union(pending[f])
      PROVE  Faithful(rows, View(c, scoring[f]), c, scoring[f])
  <2>1. PICK row \in rows : row.cell = c /\ (Reusable(row) => row.scoring = scoring[f])
    BY <1>1, <1>3 DEF SettleInv, Settles, Settled
  <2>2. CASE Reusable(row)
    <3>1. row \in {x \in Views(c) : x.scoring = scoring[f]}
      BY <2>1, <2>2 DEF Views
    <3>2. View(c, scoring[f]) \in {x \in Views(c) : x.scoring = scoring[f]}
      BY <3>1 DEF View
    <3> QED
      BY <1>1, <3>2, NoneIsNoRow DEF Faithful, Views
  <2>3. CASE ~Reusable(row)
    BY <2>1, <2>3, ViewFacts DEF Faithful
  <2> QED
    BY <2>2, <2>3
<1> QED
  BY <1>1, <1>2, <1>3

\* A cell set built from faithful bindings is faithful.
LEMMA CellSetIsFaithful ==
  ASSUME FrozenInv, NEW f \in Fillers, pc[f] = "appending", NEW p \in pending[f]
  PROVE  FaithfulSet(rows, CellSet(f, p))
<1>1. PlanCells[p] \subseteq Union(pending[f])
  BY DEF Union
<1>2. \A c \in PlanCells[p] : Faithful(rows, bound[f][c], c, scoring[f])
  BY <1>1 DEF FrozenInv
<1> QED
  BY <1>2 DEF FaithfulSet, CellSet

\* What the process f itself holds and what the log holds stays faithful.
LEMMA ActKeepsFaithful ==
  ASSUME FrozenInv, NEW f \in Fillers, Act(f)
  PROVE  /\ \A i \in DOMAIN log' : FaithfulSet(rows', log'[i])
         /\ pc'[f] = "scanned" => FaithfulSet(rows', product'[f])
         /\ pc'[f] \in {"appending", "scanned"} =>
              \A c \in Union(pending'[f]) : Faithful(rows', bound'[f][c], c, scoring'[f])
<1> DEFINE Held == /\ pc'[f] = "scanned" => FaithfulSet(rows', product'[f])
                   /\ pc'[f] \in {"appending", "scanned"} =>
                        \A c \in Union(pending'[f]) :
                          Faithful(rows', bound'[f][c], c, scoring'[f])
           Logged == \A i \in DOMAIN log' : FaithfulSet(rows', log'[i])
<1> SUFFICES Held /\ Logged
  OBVIOUS
<1>stays. /\ \A row, c, s : Faithful(rows, row, c, s) => Faithful(rows', row, c, s)
          /\ \A cs : FaithfulSet(rows, cs) => FaithfulSet(rows', cs)
  BY RowsGrow, FaithfulStays
<1>type. /\ DOMAIN pc = Fillers /\ DOMAIN pending = Fillers /\ DOMAIN product = Fillers
         /\ log \in Seq(CellSets)
  BY DEF FrozenInv, SettleInv, Typed, TypeOK
<1>log. log' = log => Logged
  BY <1>stays DEF FrozenInv
<1> USE <1>type DEF Goto, store
<1>1. CASE End(f)
  <2>1. pc'[f] = "idle" /\ log' = log
    BY <1>1 DEF End
  <2> QED
    BY <2>1, <1>log
<1>2. CASE Resolve(f)
  BY <1>2, <1>log, ResolveIsFaithful DEF FrozenInv
<1>3. ASSUME NEW p \in Plans, ScanLog(f, p), ~End(f) PROVE Held /\ Logged
  <2>1. /\ pc[f] = "appending" /\ p \in pending[f] /\ log' = log
        /\ pending'[f] \subseteq pending[f] /\ bound' = bound /\ scoring' = scoring
        /\ pc'[f] = "scanned" => product'[f] = CellSet(f, p)
    BY <1>3 DEF ScanLog
  <2>2. Union(pending'[f]) \subseteq Union(pending[f])
    BY <2>1 DEF Union
  <2>3. FaithfulSet(rows, CellSet(f, p))
    BY <2>1, CellSetIsFaithful
  <2>4. pc'[f] = "scanned" => FaithfulSet(rows', product'[f])
    BY <2>1, <2>3, <1>stays
  <2>5. \A c \in Union(pending'[f]) : Faithful(rows', bound'[f][c], c, scoring'[f])
    BY <2>1, <2>2, <1>stays DEF FrozenInv
  <2> QED
    BY <2>1, <2>4, <2>5, <1>log
<1>4. CASE AppendCellSet(f)
  <2>1. /\ pc[f] = "scanned" /\ pc'[f] = "appending" /\ log' = Append(log, product[f])
        /\ pending'[f] \subseteq pending[f] /\ bound' = bound /\ scoring' = scoring
    BY <1>4 DEF AppendCellSet
  <2>2. Union(pending'[f]) \subseteq Union(pending[f])
    BY <2>1 DEF Union
  <2>3. product[f] \in CellSets /\ FaithfulSet(rows, product[f])
    BY <2>1 DEF FrozenInv, SettleInv, Typed, Local
  <2>4. \A i \in DOMAIN log' : log'[i] = product[f] \/ (i \in DOMAIN log /\ log'[i] = log[i])
    BY <2>1, <2>3
  <2>5. Logged
    BY <2>3, <2>4, <1>stays DEF FrozenInv
  <2>6. \A c \in Union(pending'[f]) : Faithful(rows', bound'[f][c], c, scoring'[f])
    BY <2>1, <2>2, <1>stays DEF FrozenInv
  <2> QED
    BY <2>1, <2>5, <2>6
<1>5. ASSUME ~End(f), ~Resolve(f), ~AppendCellSet(f), \A p \in Plans : ~ScanLog(f, p)
      PROVE  log' = log /\ pc'[f] \notin {"appending", "scanned"}
  <2>1. ASSUME NEW plans, NEW s, Begin(f, plans, s) \/ RunAgents(f, plans, s)
        PROVE  log' = log /\ pc'[f] \notin {"appending", "scanned"}
    BY <2>1 DEF Begin, RunAgents
  <2>2. CASE CheckBindings(f) \/ OpenSession(f)
    BY <1>5, <2>2 DEF CheckBindings, OpenSession
  <2>3. ASSUME NEW c, NEW outcome, RunCell(f, c, outcome)
        PROVE  log' = log /\ pc'[f] \notin {"appending", "scanned"}
    BY <2>3 DEF RunCell
  <2>4. CASE StoreResult(f) \/ Reprice(f)
    BY <1>5, <2>4 DEF StoreResult, Reprice
  <2> QED
    BY <1>5, <2>1, <2>2, <2>3, <2>4 DEF Act, Progress, RunAgentsReturns, Return, Abort
<1> QED
  BY <1>1, <1>2, <1>3, <1>4, <1>5, <1>log

\* The invariant of frozen cell sets is inductive.
LEMMA FrozenNext == FrozenInv /\ [Next]_vars => FrozenInv'
<1> SUFFICES ASSUME FrozenInv, [Next]_vars PROVE FrozenInv'
  OBVIOUS
<1>type. Typed /\ Typed'
  BY TypedNext DEF FrozenInv, SettleInv
<1>1. CASE UNCHANGED vars
  <2>1. \A f \in Fillers : Settles(f)'
    BY <1>1 DEF FrozenInv, SettleInv, Settles, WasRun, Settled, Reusable, Union, vars
  <2> QED
    BY <1>1, <1>type, <2>1 DEF FrozenInv, SettleInv, FaithfulSet, Faithful, Reusable, Union, vars
<1>2. ASSUME NEW f \in Fillers, Act(f) PROVE FrozenInv'
  <2>1. ASSUME NEW g \in Fillers, g # f
        PROVE  /\ pc'[g] = "scanned" => FaithfulSet(rows', product'[g])
               /\ pc'[g] \in {"appending", "scanned"} =>
                    \A c \in Union(pending'[g]) : Faithful(rows', bound'[g][c], c, scoring'[g])
    <3>1. /\ pc'[g] = pc[g] /\ scoring'[g] = scoring[g] /\ pending'[g] = pending[g]
          /\ product'[g] = product[g] /\ bound'[g] = bound[g]
      BY <1>2, <1>type, <2>1, ActIsLocal
    <3>2. rows \subseteq rows'
      BY <1>2, RowsGrow
    <3> QED
      BY <3>1, <3>2, FaithfulStays DEF FrozenInv
  <2>2. \A g \in Fillers :
          /\ pc'[g] = "scanned" => FaithfulSet(rows', product'[g])
          /\ pc'[g] \in {"appending", "scanned"} =>
               \A c \in Union(pending'[g]) : Faithful(rows', bound'[g][c], c, scoring'[g])
    BY <1>2, <2>1, ActKeepsFaithful
  <2>3. \A i \in DOMAIN log' : FaithfulSet(rows', log'[i])
    BY <1>2, ActKeepsFaithful
  <2>4. \A g \in Fillers : Settles(g)'
    BY <1>2, ActSettles, OthersStaySettled DEF FrozenInv
  <2> QED
    BY <1>type, <2>2, <2>3, <2>4 DEF FrozenInv, SettleInv, Union
<1> QED
  BY <1>1, <1>2 DEF Next, Act

LEMMA FrozenInvariant == Spec => []FrozenInv
<1>1. Init => FrozenInv
  <2> SUFFICES ASSUME Init PROVE FrozenInv
    OBVIOUS
  <2> QED
    BY TypedInit DEF Init, FrozenInv, SettleInv, Settles
<1> QED
  BY <1>1, FrozenNext, PTL DEF Spec

\* A frozen cell set binds only stored Results of its own cell and scoring,
\* although it is built and appended after the session was closed, in a log
\* without a lock, with forced runs beside it and interruptions anywhere.
THEOREM FrozenSetsAreBound == Spec => []FrozenBindingsStored
<1>1. FrozenInv => FrozenBindingsStored
  BY DEF FrozenInv, FaithfulSet, Faithful, FrozenBindingsStored
<1> QED
  BY <1>1, FrozenInvariant, PTL

\* A cell is frozen as missing only after a run of it whose Result the policy does
\* not reuse, whatever other fills and forced runs store meanwhile.
THEOREM FrozenMissingCellsWereRun == Spec => []FrozenMissingWasRun
<1>1. FrozenInv => FrozenMissingWasRun
  BY DEF FrozenInv, FaithfulSet, Faithful, FrozenMissingWasRun
<1> QED
  BY <1>1, FrozenInvariant, PTL

================================================================================
