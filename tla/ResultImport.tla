------------------------------ MODULE ResultImport ------------------------------
(***************************************************************************)
(* Runner.import_result_bundle: external Results of a read-only source     *)
(* manifest are admitted into a Result Store and the row-by-row decisions  *)
(* are published as an immutable receipt, under two advisory locks, beside *)
(* other imports and a Runner that fills cells of the same stores.         *)
(*                                                                         *)
(* An execution is a cell and a run of it; a local row is an execution and *)
(* its evidence view: the manifest and the first local observation time.   *)
(* All callers pass the same Task Pool, Agents and configs.                *)
(***************************************************************************)
EXTENDS Naturals, Sequences, FiniteSets, SequencesExt

CONSTANTS
  Importers, Stores, Receipts,
  Rank,          \* the lock path order that sorted(..., key=str) gives
  Manifests,
  Source,        \* the executions of each manifest
  Pool,          \* cells that the admission inputs cover
  RunnerReruns,  \* a Runner may run a cell that has a Result (run_agents)
  PowerMayFail,
  MaxTime,       \* bound: distinct observation times
  Nobody, Runner, Managed, Absent, Damaged

Cells == {e.cell : e \in UNION {Source[m] : m \in Manifests}} \cup Pool
Executions ==
  (UNION {Source[m] : m \in Manifests}) \cup [cell : Pool, run : {0, 1}]
Paths == Stores \cup Receipts

ASSUME ImportConstants ==
  /\ Stores \cap Receipts = {}
  /\ Paths \subseteq DOMAIN Rank
  /\ \A k, l \in Paths : Rank[k] = Rank[l] => k = l
  /\ \A m \in Manifests : \A e \in Source[m] : e.run > 1
  /\ RunnerReruns \in BOOLEAN /\ PowerMayFail \in BOOLEAN
  /\ MaxTime \in Nat
  /\ Nobody \notin Importers \cup {Runner} /\ Runner \notin Importers
  /\ Managed \notin Manifests

\* What a receipt on disk says, and that neither sentinel is one.
Verdicts == {"outside", "ambiguous_incoming", "ambiguous_local", "idempotent", "admitted"}
Receipt ==
  {r \in [manifest : Manifests, at : 0..MaxTime, store : Stores,
          decisions : UNION {[Source[m] -> Verdicts] : m \in Manifests}] :
     DOMAIN r.decisions = Source[r.manifest]}

ASSUME NoReceipt == Absent # Damaged /\ {Absent, Damaged} \cap Receipt = {}

VARIABLES
  file,      \* each store's rows, in append order
  synced,    \* how many of them are on disk
  session,   \* who holds each store's exclusive session
  receipt,   \* what each receipt path holds
  settled,   \* receipt paths that were fsynced
  owner,     \* who holds each import lock
  clock,
  pc,        \* where each import call is
  call,      \* its manifest, store and receipt path
  draft,     \* the receipt it will publish
  missing,   \* cells the Runner found missing in each store
  returned   \* receipts that calls returned, with their paths

stores  == <<file, synced>>
papers  == <<receipt, settled>>
imports == <<owner, pc, call, draft>>
vars    == <<stores, papers, imports, session, clock, missing, returned>>

Row     == [exec : Executions, from : Manifests \cup {Managed}, at : 0..MaxTime]
Rows(s) == Range(file[s])
Local(m, e, t) == [exec |-> e, from |-> m, at |-> t]

Init ==
  /\ file = [s \in Stores |-> <<>>] /\ synced = [s \in Stores |-> 0]
  /\ session = [s \in Stores |-> Nobody]
  /\ receipt = [q \in Receipts |-> Absent] /\ settled = {}
  /\ owner = [l \in Paths |-> Nobody]
  /\ clock = 0
  /\ pc = [i \in Importers |-> "idle"]
  /\ call = [i \in Importers |-> Absent]
  /\ draft = [i \in Importers |-> Absent]
  /\ missing = [s \in Stores |-> {}]
  /\ returned = {}

Goto(i, at) == pc' = [pc EXCEPT ![i] = at]
Store(i) == call[i].store
Path(i)  == call[i].path

\* The call ends, by returning or raising: locks and session are released.
End(i) ==
  /\ Goto(i, "idle")
  /\ call' = [call EXCEPT ![i] = Absent]
  /\ draft' = [draft EXCEPT ![i] = Absent]
  /\ owner' = [l \in Paths |-> IF owner[l] = i THEN Nobody ELSE owner[l]]
  /\ session' = [s \in Stores |-> IF session[s] = i THEN Nobody ELSE session[s]]

--------------------------------------------------------------------------------
(* Admission.                                                              *)

Rivals(e, executions) == {d \in executions : d.cell = e.cell /\ d # e}

\* Mutant: a local execution of the same cell is not looked for.
Decision_NoRival(m, e, t, rows) ==
  IF e.cell \notin Pool THEN "outside"
  ELSE IF Rivals(e, Source[m]) # {} THEN "ambiguous_incoming"
  ELSE IF Local(m, e, t) \in rows THEN "idempotent"
  ELSE "admitted"

\* What is decided about one source row against the rows of the local store.
Decision(m, e, t, rows) ==
  IF e.cell \notin Pool THEN "outside"
  ELSE IF Rivals(e, Source[m]) # {} THEN "ambiguous_incoming"
  ELSE IF Rivals(e, {r.exec : r \in rows}) # {} THEN "ambiguous_local"
  ELSE IF Local(m, e, t) \in rows THEN "idempotent"
  ELSE "admitted"

Decisions(m, t, rows) == [e \in Source[m] |-> Decision(m, e, t, rows)]

Candidates(m) == {e \in Source[m] : e.cell \in Pool /\ Rivals(e, Source[m]) = {}}

Bound(rc) ==
  {Local(rc.manifest, e, rc.at) :
     e \in {d \in DOMAIN rc.decisions : rc.decisions[d] \in {"admitted", "idempotent"}}}

\* _ensure_result_import_decisions_replay
Replays(prior, current) ==
  \A e \in DOMAIN prior :
    current[e] = IF prior[e] = "admitted" THEN "idempotent" ELSE prior[e]

--------------------------------------------------------------------------------
(* The import.                                                             *)

Call(i, m, s, q) ==
  /\ pc[i] = "idle"
  /\ call' = [call EXCEPT ![i] = [manifest |-> m, store |-> s, path |-> q]]
  /\ Goto(i, "locking")
  /\ UNCHANGED <<stores, papers, owner, draft, session, clock, missing, returned>>

Needed(i) == {Store(i), Path(i)}

\* Mutant: the lock paths are taken in the order a set yields them.
TakeLock_Unsorted(i) ==
  /\ pc[i] = "locking"
  /\ \E l \in Needed(i) :
       /\ owner[l] = Nobody
       /\ owner' = [owner EXCEPT ![l] = i]
       /\ Goto(i, IF \E k \in Needed(i) : owner'[k] # i THEN "locking" ELSE "locked")
  /\ UNCHANGED <<stores, papers, call, draft, session, clock, missing, returned>>

\* Mutant: only the receipt is locked.
TakeLock_ReceiptOnly(i) ==
  /\ pc[i] = "locking"
  /\ owner[Path(i)] = Nobody
  /\ owner' = [owner EXCEPT ![Path(i)] = i]
  /\ Goto(i, "locked")
  /\ UNCHANGED <<stores, papers, call, draft, session, clock, missing, returned>>

\* open_result_import_transaction: one lock file after the other, sorted.
TakeLock(i) ==
  /\ pc[i] = "locking"
  /\ \E l \in Needed(i) :
       /\ owner[l] = Nobody
       /\ \A k \in Needed(i) : Rank[k] < Rank[l] => owner[k] = i
       /\ owner' = [owner EXCEPT ![l] = i]
       /\ Goto(i, IF \E k \in Needed(i) : owner'[k] # i THEN "locking" ELSE "locked")
  /\ UNCHANGED <<stores, papers, call, draft, session, clock, missing, returned>>

\* The observation time: that of a prior local row of the manifest, or now.
ObservedAt(m, s) ==
  LET times == {r.at : r \in {x \in Rows(s) : x.from = m}}
  IN IF times = {} THEN {clock}
     ELSE {t \in times : \A u \in times : t <= u}

\* Read the receipt and the local rows, and fix the observation time.  A
\* receipt that is damaged, of another manifest or not bound here raises.
Observe(i) ==
  LET m == call[i].manifest
      prior == receipt[Path(i)]
  IN /\ pc[i] = "locked" /\ session[Store(i)] = Nobody
     /\ \/ /\ prior = Absent
           /\ \E t \in ObservedAt(m, Store(i)) :
                draft' = [draft EXCEPT ![i] =
                  [manifest |-> m, at |-> t, decisions |-> <<>>, store |-> Store(i)]]
           /\ Goto(i, "fresh")
           /\ UNCHANGED <<owner, call, session>>
        \/ /\ prior \notin {Absent, Damaged}
           /\ prior.manifest = m /\ Bound(prior) \subseteq Rows(Store(i))
           /\ draft' = [draft EXCEPT ![i] = prior]
           /\ Goto(i, "replaying")
           /\ UNCHANGED <<owner, call, session>>
        \/ /\ prior # Absent
           /\ prior # Damaged => \/ prior.manifest # m
                                 \/ ~(Bound(prior) \subseteq Rows(Store(i)))
           /\ End(i)
     /\ UNCHANGED <<stores, papers, clock, missing, returned>>

Decide(i) ==
  LET d == draft[i]
  IN draft' = [draft EXCEPT ![i].decisions = Decisions(d.manifest, d.at, Rows(Store(i)))]

\* Mutant: the rows are compared without opening a writer session.
Admit_NoSession(i) ==
  /\ pc[i] = "fresh" /\ session[Store(i)] = Nobody
  /\ Decide(i)
  /\ Goto(i, IF Candidates(draft[i].manifest) = {} THEN "publishing" ELSE "appending")
  /\ UNCHANGED <<stores, papers, owner, call, session, clock, missing, returned>>

\* Admission against the live index of a writer session; without a
\* candidate row the store is only read.
Admit(i) ==
  /\ pc[i] = "fresh" /\ session[Store(i)] = Nobody
  /\ Decide(i)
  /\ IF Candidates(draft[i].manifest) = {}
       THEN Goto(i, "publishing") /\ UNCHANGED session
       ELSE Goto(i, "appending") /\ session' = [session EXCEPT ![Store(i)] = i]
  /\ UNCHANGED <<stores, papers, owner, call, clock, missing, returned>>

\* With a receipt, admission is recomputed and compared, and no row is written.
Replay(i) ==
  LET d == draft[i]
  IN /\ pc[i] = "replaying" /\ session[Store(i)] = Nobody
     /\ IF Replays(d.decisions, Decisions(d.manifest, d.at, Rows(Store(i))))
          THEN Goto(i, "publishing") /\ UNCHANGED <<owner, call, draft, session>>
          ELSE End(i)
     /\ UNCHANGED <<stores, papers, clock, missing, returned>>

Admitted(d) ==
  {Local(d.manifest, e, d.at) : e \in {x \in DOMAIN d.decisions : d.decisions[x] = "admitted"}}

\* append_many of the admitted rows, line by line in one order ...
AppendRow(i) ==
  LET left == Admitted(draft[i]) \ Rows(Store(i))
  IN /\ pc[i] = "appending" /\ left # {}
     /\ file' = [file EXCEPT ![Store(i)] = Append(@, CHOOSE row \in left : TRUE)]
     /\ UNCHANGED <<synced, papers, imports, session, clock, missing, returned>>

\* Mutant: the session closes without fsync.
CloseSession_NoSync(i) ==
  /\ pc[i] = "appending" /\ Admitted(draft[i]) \subseteq Rows(Store(i))
  /\ session' = [session EXCEPT ![Store(i)] = Nobody]
  /\ Goto(i, "publishing")
  /\ UNCHANGED <<stores, papers, owner, call, draft, clock, missing, returned>>

\* ... one fsync if there was a line to write, and the session closes.
CloseSession(i) ==
  /\ pc[i] = "appending" /\ Admitted(draft[i]) \subseteq Rows(Store(i))
  /\ synced' = IF Admitted(draft[i]) = {} THEN synced
               ELSE [synced EXCEPT ![Store(i)] = Len(file[Store(i)])]
  /\ session' = [session EXCEPT ![Store(i)] = Nobody]
  /\ Goto(i, "publishing")
  /\ UNCHANGED <<file, papers, owner, call, draft, clock, missing, returned>>

\* write_result_import_receipt looks at the path again, ...
CheckReceipt(i) ==
  /\ pc[i] = "publishing"
  /\ \/ /\ receipt[Path(i)] = Absent /\ Goto(i, "renaming")
        /\ UNCHANGED <<owner, call, draft, session>>
     \/ /\ receipt[Path(i)] = draft[i] /\ Goto(i, "renamed")
        /\ UNCHANGED <<owner, call, draft, session>>
     \/ /\ receipt[Path(i)] \notin {Absent, draft[i]} /\ End(i)
  /\ UNCHANGED <<stores, papers, clock, missing, returned>>

\* ... replaces it by a temporary file that holds the receipt, ...
Rename(i) ==
  /\ pc[i] = "renaming"
  /\ receipt' = [receipt EXCEPT ![Path(i)] = draft[i]]
  /\ settled' = settled \ {Path(i)}
  /\ Goto(i, "renamed")
  /\ UNCHANGED <<stores, owner, call, draft, session, clock, missing, returned>>

\* Mutant: a receipt that was already there is returned without fsync.
SyncAndReturn_OnlyNew(i) ==
  /\ pc[i] = "renamed"
  /\ settled' = IF \E e \in DOMAIN draft[i].decisions :
                     draft[i].decisions[e] = "admitted"
                  THEN settled \cup {Path(i)} ELSE settled
  /\ returned' = returned \cup {<<Path(i), draft[i]>>}
  /\ End(i)
  /\ UNCHANGED <<stores, receipt, clock, missing>>

\* ... and fsyncs file and directory before the call returns.
SyncAndReturn(i) ==
  /\ pc[i] = "renamed"
  /\ settled' = settled \cup {Path(i)}
  /\ returned' = returned \cup {<<Path(i), draft[i]>>}
  /\ End(i)
  /\ UNCHANGED <<stores, receipt, clock, missing>>

\* A kill, or an exception, anywhere.
Abort(i) ==
  /\ pc[i] # "idle" /\ End(i)
  /\ UNCHANGED <<stores, papers, clock, missing, returned>>

--------------------------------------------------------------------------------
(* The Runner that fills cells, the clock, and power.                      *)

\* Under its session the Runner runs cells without a Result (EvaluationFill).
RunnerOpen(s) ==
  /\ session[s] = Nobody
  /\ session' = [session EXCEPT ![s] = Runner]
  /\ missing' = [missing EXCEPT ![s] =
       IF RunnerReruns THEN Pool ELSE Pool \ {r.exec.cell : r \in Rows(s)}]
  /\ UNCHANGED <<stores, papers, imports, clock, returned>>

RunnerExecution(s, c) ==
  [cell |-> c, run |-> IF \E r \in Rows(s) : r.exec = [cell |-> c, run |-> 0] THEN 1 ELSE 0]

\* A Result is stored and fsynced, or the Runner dies before the fsync.
RunnerStore(s) ==
  /\ session[s] = Runner
  /\ \E c \in missing[s] :
       LET row == Local(Managed, RunnerExecution(s, c), 0)
       IN /\ row \notin Rows(s)
          /\ file' = [file EXCEPT ![s] = Append(@, row)]
          /\ \/ /\ synced' = [synced EXCEPT ![s] = Len(file'[s])]
                /\ missing' = [missing EXCEPT ![s] = @ \ {c}]
                /\ UNCHANGED session
             \/ /\ session' = [session EXCEPT ![s] = Nobody]
                /\ missing' = [missing EXCEPT ![s] = {}]
                /\ UNCHANGED synced
  /\ UNCHANGED <<papers, imports, clock, returned>>

RunnerClose(s) ==
  /\ session[s] = Runner
  /\ session' = [session EXCEPT ![s] = Nobody]
  /\ missing' = [missing EXCEPT ![s] = {}]
  /\ UNCHANGED <<stores, papers, imports, clock, returned>>

Tick ==
  /\ clock < MaxTime /\ clock' = clock + 1
  /\ UNCHANGED <<stores, papers, imports, session, missing, returned>>

\* A store keeps a prefix of its unsynced rows; a renamed but unsynced
\* receipt stays, vanishes, or keeps its name and loses its content.
PowerLoss ==
  /\ PowerMayFail
  /\ \E kept \in [Stores -> Nat \cap 0..Cardinality(Row)] :
       /\ \A s \in Stores : kept[s] \in synced[s]..Len(file[s])
       /\ file' = [s \in Stores |-> SubSeq(file[s], 1, kept[s])]
       /\ synced' = kept
  /\ \E fate \in [Receipts -> {"stays", "vanishes", "damaged"}] :
       /\ \A q \in settled : fate[q] = "stays"
       /\ receipt' = [q \in Receipts |->
            IF receipt[q] = Absent \/ fate[q] = "vanishes" THEN Absent
            ELSE IF fate[q] = "damaged" THEN Damaged ELSE receipt[q]]
       /\ settled' = Receipts
  /\ session' = [s \in Stores |-> Nobody]
  /\ owner' = [l \in Paths |-> Nobody]
  /\ pc' = [i \in Importers |-> "idle"]
  /\ call' = [i \in Importers |-> Absent]
  /\ draft' = [i \in Importers |-> Absent]
  /\ missing' = [s \in Stores |-> {}]
  /\ UNCHANGED <<clock, returned>>

--------------------------------------------------------------------------------

Waits(i)    == TakeLock(i) \/ Observe(i) \/ Admit(i) \/ Replay(i)
Proceeds(i) == AppendRow(i) \/ CloseSession(i) \/ CheckReceipt(i) \/ Rename(i)
               \/ SyncAndReturn(i)

Next ==
  \/ \E i \in Importers :
       \/ \E m \in Manifests, s \in Stores, q \in Receipts : Call(i, m, s, q)
       \/ Waits(i) \/ Proceeds(i) \/ Abort(i)
  \/ \E s \in Stores : RunnerOpen(s) \/ RunnerStore(s) \/ RunnerClose(s)
  \/ Tick \/ PowerLoss

Spec == Init /\ [][Next]_vars

\* A call that can run runs; flock serves a waiter again and again; a Runner
\* ends its batch.
Fairness ==
  /\ \A i \in Importers :
       SF_vars(TakeLock(i)) /\ SF_vars(Observe(i) \/ Admit(i) \/ Replay(i))
       /\ WF_vars(Proceeds(i))
  /\ \A s \in Stores : WF_vars(RunnerClose(s))

FairSpec == Spec /\ Fairness

--------------------------------------------------------------------------------
(* Properties.                                                             *)

Whole(q) == receipt[q] \notin {Absent, Damaged}

\* Types of stores, receipts, locks and calls.
TypeOK ==
  /\ \A s \in Stores : Rows(s) \subseteq Row /\ synced[s] \in 0..Len(file[s])
  /\ session \in [Stores -> Importers \cup {Nobody, Runner}]
  /\ owner \in [Paths -> Importers \cup {Nobody}]
  /\ settled \subseteq Receipts /\ clock \in 0..MaxTime
  /\ pc \in [Importers -> {"idle", "locking", "locked", "fresh", "replaying",
                           "appending", "publishing", "renaming", "renamed"}]
  /\ receipt \in [Receipts -> Receipt \cup {Absent, Damaged}]
  /\ returned \subseteq Receipts \X Receipt

\* A store holds one observation time per manifest: retries after a crash,
\* other receipts and concurrent imports agree on the first one.
OneObservation ==
  \A s \in Stores : \A x, y \in Rows(s) :
    x.from = y.from /\ x.from # Managed => x.at = y.at

\* Imports and a filling Runner never give a cell two executions.
StoreUnambiguous ==
  \A s \in Stores : \A x, y \in Rows(s) : x.exec.cell = y.exec.cell => x.exec = y.exec

\* Every receipt on disk can be replayed: its rows are in the store, and
\* admission decided anew, after whatever happened since, agrees with it.
ReceiptReplays ==
  \A q \in Receipts : Whole(q) =>
    LET r == receipt[q] IN
      /\ Bound(r) \subseteq Rows(r.store)
      /\ Replays(r.decisions, Decisions(r.manifest, r.at, Rows(r.store)))

\* A receipt that admitted a row binds rows that power cannot take away.
AdmittingReceiptDurable ==
  \A q \in Receipts : Whole(q) =>
    LET r == receipt[q] IN
      (\E e \in DOMAIN r.decisions : r.decisions[e] = "admitted") =>
        Bound(r) \subseteq Range(SubSeq(file[r.store], 1, synced[r.store]))

\* Every row that a returned receipt binds stays in the store, whatever the
\* call wrote itself and whatever it found there ("durable Result append").
ReturnedRowsStay ==
  \A pair \in returned : Bound(pair[2]) \subseteq Rows(pair[2].store)

\* What a call returned stays the content of its receipt path, whatever
\* is imported, killed or powered off later.
ReturnedReceiptStays == \A pair \in returned : receipt[pair[1]] = pair[2]

\* Every call ends: no two imports wait for each other's locks for ever.
ImportEnds == \A i \in Importers : pc[i] # "idle" ~> pc[i] = "idle"

================================================================================
