------------------------------ MODULE ImportProofs ------------------------------
(***************************************************************************)
(* Theorems about ResultImport, for any importers, stores, receipts and    *)
(* manifests: observation times and returned receipts under every fault;   *)
(* one execution per cell, when the Runner runs only cells without a       *)
(* Result; receipts that replay, when power does not fail besides.         *)
(***************************************************************************)
EXTENDS ResultImport, SequenceTheorems, TLAPS

Places == {"idle", "locking", "locked", "fresh", "replaying", "appending", "publishing",
           "renaming", "renamed"}
Calls  == [manifest : Manifests, store : Stores, path : Receipts]
\* A draft whose rows are not decided yet.
Fresh  == [manifest : Manifests, at : 0..MaxTime, store : Stores, decisions : {<<>>}]

\* Both locks are held, the draft is complete, the draft is in its final form.
Locked(i)  == pc[i] \notin {"idle", "locking"}
Decided(i) == pc[i] \in {"replaying", "appending", "publishing", "renaming", "renamed"}
Final(i)   == pc[i] \in {"replaying", "publishing", "renaming", "renamed"}

Typed ==
  /\ file \in [Stores -> Seq(Row)] /\ synced \in [Stores -> Nat]
  /\ \A s \in Stores : synced[s] <= Len(file[s])
  /\ session \in [Stores -> Importers \cup {Nobody, Runner}]
  /\ owner \in [Paths -> Importers \cup {Nobody}]
  /\ receipt \in [Receipts -> Receipt \cup {Absent, Damaged}]
  /\ settled \subseteq Receipts /\ clock \in 0..MaxTime
  /\ pc \in [Importers -> Places]
  /\ DOMAIN call = Importers /\ DOMAIN draft = Importers
  /\ missing \in [Stores -> SUBSET Pool]
  /\ returned \subseteq Receipts \X Receipt

SyncedRows(s) == {file[s][k] : k \in 1..synced[s]}

\* A receipt that admitted a row binds only synced rows.
Durable(d) ==
  (\E e \in DOMAIN d.decisions : d.decisions[e] = "admitted") => Bound(d) \subseteq SyncedRows(d.store)

\* The rows that were decided to be stored are stored.
Found(d) ==
  \A e \in DOMAIN d.decisions :
    d.decisions[e] = "idempotent" => Local(d.manifest, e, d.at) \in Rows(d.store)

\* What one importer holds and knows: its locks, its session and its draft; until it
\* has appended, the rows of its manifest have the time of its draft.
Keeps(i) ==
  /\ pc[i] # "idle" => call[i] \in Calls
  /\ Locked(i) => owner[Store(i)] = i /\ owner[Path(i)] = i
  /\ pc[i] = "appending" => session[Store(i)] = i /\ Found(draft[i])
  /\ pc[i] = "fresh" => draft[i] \in Fresh
  /\ Decided(i) => draft[i] \in Receipt
  /\ pc[i] \in {"fresh", "appending"} =>
       /\ draft[i].store = Store(i)
       /\ \A x \in Rows(Store(i)) : x.from = draft[i].manifest => x.at = draft[i].at
  /\ Final(i) => Durable(draft[i])
  /\ pc[i] = "renaming" => receipt[Path(i)] = Absent
  /\ pc[i] = "renamed" => receipt[Path(i)] = draft[i]

\* What a call returned is on disk.
ReturnedInv ==
  \A pair \in returned : receipt[pair[1]] = pair[2] /\ pair[1] \in settled

ImportInv ==
  /\ Typed /\ OneObservation /\ ReturnedInv
  /\ \A q \in Receipts : receipt[q] \in Receipt => Durable(receipt[q])
  /\ \A i \in Importers : Keeps(i)

--------------------------------------------------------------------------------
(* Rows, receipts and what a step leaves alone.                            *)

\* The lines of one store after a row was appended to a store.
LEMMA AppendedRow ==
  ASSUME Typed, NEW s \in Stores, NEW row \in Row,
         file' = [file EXCEPT ![s] = Append(@, row)]
  PROVE  /\ file' \in [Stores -> Seq(Row)]
         /\ Len(file'[s]) = Len(file[s]) + 1
         /\ \A t \in Stores : Len(file[t]) <= Len(file'[t])
         /\ \A t \in Stores : \A k \in 1..Len(file[t]) : file'[t][k] = file[t][k]
         /\ \A t \in Stores \ {s} : Rows(t)' = Rows(t)
         /\ Rows(s)' = Rows(s) \cup {row}
<1>1. file[s] \in Seq(Row) /\ file'[s] = Append(file[s], row)
  BY DEF Typed
<1>2. /\ Len(file'[s]) = Len(file[s]) + 1
      /\ DOMAIN file[s] = 1..Len(file[s]) /\ DOMAIN file'[s] = 1..(Len(file[s]) + 1)
      /\ \A k \in 1..Len(file[s]) : file'[s][k] = file[s][k]
      /\ file'[s][Len(file[s]) + 1] = row
      /\ file'[s] \in Seq(Row)
  BY <1>1
<1>3. \A t \in Stores : Len(file[t]) \in Nat
  BY DEF Typed
<1>4. \A t \in Stores \ {s} : file'[t] = file[t]
  BY DEF Typed
<1>5. Rows(s)' = Rows(s) \cup {row}
  <2>1. \A k : k \in 1..(Len(file[s]) + 1) <=> k \in 1..Len(file[s]) \/ k = Len(file[s]) + 1
    BY <1>3
  <2> QED
    BY <1>2, <2>1 DEF Rows, Range
<1>6. \A t \in Stores \ {s} : Rows(t)' = Rows(t)
  BY <1>4 DEF Rows
<1> QED
  BY <1>2, <1>3, <1>4, <1>5, <1>6 DEF Typed

\* Every row of a store is a row, and a synced row is one of its rows.
LEMMA RowFacts ==
  ASSUME Typed, NEW s \in Stores
  PROVE  Rows(s) \subseteq Row /\ SyncedRows(s) \subseteq Rows(s)
<1>1. file[s] \in Seq(Row) /\ DOMAIN file[s] = 1..Len(file[s])
      /\ synced[s] \in Nat /\ synced[s] <= Len(file[s]) /\ Len(file[s]) \in Nat
  BY DEF Typed
<1>2. \A k \in 1..synced[s] : k \in DOMAIN file[s]
  BY <1>1
<1> QED
  BY <1>1, <1>2 DEF Rows, Range, SyncedRows

\* The parts of a receipt.
LEMMA ReceiptFacts ==
  ASSUME NEW d \in Receipt
  PROVE  /\ d.manifest \in Manifests /\ d.at \in 0..MaxTime /\ d.store \in Stores
         /\ d.manifest # Managed
         /\ DOMAIN d.decisions = Source[d.manifest]
         /\ d # Absent /\ d # Damaged
         /\ \A e \in DOMAIN d.decisions : Local(d.manifest, e, d.at) \in Row
<1>1. d.manifest \in Manifests /\ d.at \in 0..MaxTime /\ d.store \in Stores
      /\ DOMAIN d.decisions = Source[d.manifest]
  BY DEF Receipt
<1>2. \A e \in Source[d.manifest] : e \in Executions
  BY <1>1 DEF Executions
<1> QED
  BY <1>1, <1>2, ImportConstants, NoReceipt DEF Row, Local

\* Admission yields a verdict for every source row.
LEMMA DecisionsType ==
  ASSUME NEW d \in Fresh, NEW rows
  PROVE  [d EXCEPT !.decisions = Decisions(d.manifest, d.at, rows)] \in Receipt
<1> DEFINE new == [d EXCEPT !.decisions = Decisions(d.manifest, d.at, rows)]
<1>1. Decisions(d.manifest, d.at, rows) \in [Source[d.manifest] -> Verdicts]
  BY DEF Decisions, Decision, Verdicts
<1>2. d.manifest \in Manifests
  BY DEF Fresh
<1>3. new = [manifest |-> d.manifest, at |-> d.at, store |-> d.store,
             decisions |-> Decisions(d.manifest, d.at, rows)]
  BY DEF Fresh
<1>4. DOMAIN Decisions(d.manifest, d.at, rows) = Source[d.manifest]
  BY DEF Decisions
<1>5. Decisions(d.manifest, d.at, rows) \in UNION {[Source[m] -> Verdicts] : m \in Manifests}
  BY <1>1, <1>2
<1> HIDE DEF new
<1> QED
  BY <1>2, <1>3, <1>4, <1>5 DEF Receipt, Fresh

\* Nothing is done to the importer j, to its locks or to its session.
Still(j) ==
  /\ pc'[j] = pc[j] /\ call'[j] = call[j] /\ draft'[j] = draft[j]
  /\ \A l \in Paths : owner[l] = j => owner'[l] = j
  /\ \A s \in Stores : session[s] = j => session'[s] = j
FilesGrow ==
  \A s \in Stores : Rows(s) \subseteq Rows(s)' /\ SyncedRows(s) \subseteq SyncedRows(s)'
\* In a store that j locked only a Runner stores, and its receipt stays.
Spared(j) ==
  /\ \A s \in Stores : owner[s] = j => \A x \in Rows(s)' : x \in Rows(s) \/ x.from = Managed
  /\ \A q \in Receipts : owner[q] = j => receipt'[q] = receipt[q]

\* What a receipt binds stays durable, and what a draft found stays there.
LEMMA DurableStays ==
  ASSUME FilesGrow, NEW d \in Receipt
  PROVE  /\ Durable(d) => Durable(d)'
         /\ Found(d) => Found(d)'
  BY ReceiptFacts DEF FilesGrow, Durable, Found, Bound, SyncedRows

LEMMA OthersKeep ==
  ASSUME ImportInv, NEW j \in Importers, Still(j), FilesGrow, Spared(j)
  PROVE  Keeps(j)'
<1> USE DEF Keeps
<1>1. Keeps(j)
  BY DEF ImportInv
<1>2. /\ (Locked(j) <=> Locked(j)') /\ (Decided(j) <=> Decided(j)') /\ (Final(j) <=> Final(j)')
      /\ Store(j)' = Store(j) /\ Path(j)' = Path(j)
  BY DEF Still, Locked, Decided, Final, Store, Path
<1>3. Locked(j) => Store(j) \in Stores /\ Path(j) \in Receipts
  BY <1>1 DEF Locked, Calls, Store, Path
<1>4. pc[j] \in {"fresh", "appending"} =>
        \A x \in Rows(Store(j))' : x.from = draft[j].manifest => x.at = draft[j].at
  <2> SUFFICES ASSUME pc[j] \in {"fresh", "appending"}, NEW x \in Rows(Store(j))',
                      x.from = draft[j].manifest
               PROVE  x.at = draft[j].at
    OBVIOUS
  <2>1. owner[Store(j)] = j /\ Store(j) \in Stores
    BY <1>1, <1>3 DEF Locked
  <2>2. x.from # Managed
    BY <1>1, ReceiptFacts, ImportConstants DEF Fresh, Decided
  <2>3. x \in Rows(Store(j))
    BY <2>1, <2>2, <1>2 DEF Spared
  <2> QED
    BY <1>1, <2>3
<1>5. Final(j) => Durable(draft[j])'
  BY <1>1, DurableStays DEF Final, Decided, Still, Durable, Bound
<1>6. pc[j] = "appending" => Found(draft[j])'
  BY <1>1, DurableStays DEF Decided, Still, Found
<1>7. pc[j] \in {"renaming", "renamed"} => receipt'[Path(j)] = receipt[Path(j)]
  BY <1>1, <1>3 DEF Locked, Spared
<1>8. Locked(j) => owner'[Store(j)] = j /\ owner'[Path(j)] = j
  BY <1>1, <1>3 DEF Still, Paths
<1>9. pc[j] = "appending" => session'[Store(j)] = j
  BY <1>1, <1>3 DEF Still, Locked
<1> QED
  BY <1>1, <1>2, <1>4, <1>5, <1>6, <1>7, <1>8, <1>9 DEF Still, Store, Path

--------------------------------------------------------------------------------
(* The steps of an import.                                                 *)

Others(i) == Importers \ {i}

\* A call that ends frees what it held and nothing else.
LEMMA EndFacts ==
  ASSUME Typed, NEW i \in Importers, End(i)
  PROVE  /\ pc' \in [Importers -> Places] /\ pc'[i] = "idle"
         /\ DOMAIN call' = Importers /\ DOMAIN draft' = Importers
         /\ owner' \in [Paths -> Importers \cup {Nobody}]
         /\ session' \in [Stores -> Importers \cup {Nobody, Runner}]
         /\ \A j \in Others(i) : Still(j)
         /\ Keeps(i)'
<1>1. /\ pc' \in [Importers -> Places] /\ pc'[i] = "idle"
      /\ DOMAIN call' = Importers /\ DOMAIN draft' = Importers
      /\ owner' \in [Paths -> Importers \cup {Nobody}]
      /\ session' \in [Stores -> Importers \cup {Nobody, Runner}]
  BY DEF Typed, End, Goto, Places
<1>2. \A j \in Others(i) : Still(j)
  BY DEF Typed, End, Goto, Still, Others
<1>3. Keeps(i)'
  BY <1>1 DEF Keeps, Locked, Decided, Final
<1> QED
  BY <1>1, <1>2, <1>3

\* A step that leaves stores and receipts alone.
LEMMA QuietKeeps ==
  ASSUME ImportInv, NEW i \in Importers, Typed', UNCHANGED <<stores, papers, returned>>,
         Keeps(i)', \A j \in Others(i) : Still(j)
  PROVE  ImportInv'
<1>1. FilesGrow /\ \A j \in Importers : Spared(j)
  BY DEF stores, papers, FilesGrow, Spared, Rows, SyncedRows
<1>2. \A j \in Others(i) : Keeps(j)'
  BY <1>1, OthersKeep DEF Others
<1>3. OneObservation' /\ ReturnedInv'
      /\ \A q \in Receipts : receipt'[q] \in Receipt => Durable(receipt[q])'
  BY DEF ImportInv, stores, papers, OneObservation, ReturnedInv, Durable, Rows, SyncedRows
<1> QED
  BY <1>2, <1>3 DEF ImportInv, Others

\* Ending without a change to the files.
LEMMA EndKeeps ==
  ASSUME ImportInv, NEW i \in Importers, End(i),
         UNCHANGED <<stores, papers, clock, missing, returned>>
  PROVE  ImportInv'
<1>1. Typed
  BY DEF ImportInv
<1>2. Typed'
  BY <1>1, EndFacts DEF Typed, stores, papers
<1> QED
  BY <1>1, <1>2, EndFacts, QuietKeeps

LEMMA CallKeeps ==
  ASSUME ImportInv, NEW i \in Importers, NEW m \in Manifests, NEW s \in Stores,
         NEW q \in Receipts, Call(i, m, s, q)
  PROVE  ImportInv'
<1> USE DEF Call, Goto
<1>1. Typed'
  BY DEF ImportInv, Typed, stores, papers, Places
<1>2. pc'[i] = "locking" /\ call'[i] \in Calls
  BY DEF ImportInv, Typed, Calls
<1>3. Keeps(i)'
  BY <1>2 DEF Keeps, Locked, Decided, Final
<1>4. \A j \in Others(i) : Still(j)
  BY DEF ImportInv, Typed, Still, Others
<1> QED
  BY <1>1, <1>3, <1>4, QuietKeeps

LEMMA TakeLockKeeps ==
  ASSUME ImportInv, NEW i \in Importers, TakeLock(i)
  PROVE  ImportInv'
<1> USE DEF TakeLock, Goto
<1>1. call[i] \in Calls /\ Needed(i) \subseteq Paths
  BY DEF ImportInv, Keeps, Needed, Store, Path, Calls, Paths
<1>2. PICK l \in Needed(i) : owner[l] = Nobody /\ owner' = [owner EXCEPT ![l] = i]
  OBVIOUS
<1>3. pc'[i] \in {"locking", "locked"} /\ pc' \in [Importers -> Places]
  BY DEF ImportInv, Typed, Places
<1>4. pc'[i] = "locked" => \A k \in Needed(i) : owner'[k] = i
  BY <1>3 DEF ImportInv, Typed
<1>5. Typed'
  BY <1>1, <1>2, <1>3 DEF ImportInv, Typed, stores, papers
<1>6. Keeps(i)'
  BY <1>1, <1>3, <1>4 DEF Keeps, Locked, Decided, Final, Needed, Store, Path
<1>7. \A j \in Others(i) : Still(j)
  BY <1>1, <1>2, ImportConstants DEF ImportInv, Typed, Still, Others
<1> QED
  BY <1>5, <1>6, <1>7, QuietKeeps

\* All rows of a manifest have the time that a new call observes.
LEMMA ObservedTime ==
  ASSUME ImportInv, NEW m \in Manifests, NEW s \in Stores, NEW t \in ObservedAt(m, s)
  PROVE  t \in 0..MaxTime /\ \A x \in Rows(s) : x.from = m => x.at = t
<1> DEFINE times == {r.at : r \in {x \in Rows(s) : x.from = m}}
<1>1. Rows(s) \subseteq Row /\ clock \in 0..MaxTime
  BY RowFacts DEF ImportInv, Typed
<1>2. CASE times = {}
  BY <1>1, <1>2 DEF ObservedAt
<1>3. CASE times # {}
  <2>1. PICK r \in Rows(s) : r.from = m /\ t = r.at
    BY <1>3 DEF ObservedAt
  <2> QED
    BY <1>1, <2>1, ImportConstants DEF ImportInv, OneObservation, Row
<1> QED
  BY <1>2, <1>3

LEMMA ObserveKeeps ==
  ASSUME ImportInv, NEW i \in Importers, Observe(i)
  PROVE  ImportInv'
<1> DEFINE m == call[i].manifest
           prior == receipt[Path(i)]
<1>1. /\ call[i] \in Calls /\ m \in Manifests /\ Store(i) \in Stores /\ Path(i) \in Receipts
      /\ owner[Store(i)] = i /\ owner[Path(i)] = i
  BY DEF Observe, ImportInv, Keeps, Locked, Calls, Store, Path
<1>2. ASSUME NEW t \in ObservedAt(m, Store(i)), Goto(i, "fresh"),
             draft' = [draft EXCEPT ![i] =
               [manifest |-> m, at |-> t, decisions |-> <<>>, store |-> Store(i)]],
             UNCHANGED <<stores, papers, owner, call, session, clock, missing, returned>>
      PROVE  ImportInv'
  <2>1. t \in 0..MaxTime /\ \A x \in Rows(Store(i)) : x.from = m => x.at = t
    BY <1>1, ObservedTime
  <2>2. /\ pc'[i] = "fresh" /\ pc' \in [Importers -> Places]
        /\ draft'[i] = [manifest |-> m, at |-> t, decisions |-> <<>>, store |-> Store(i)]
        /\ DOMAIN draft' = Importers
    BY <1>2 DEF ImportInv, Typed, Goto, Places
  <2>3. draft'[i] \in Fresh
    BY <1>1, <2>1, <2>2 DEF Fresh
  <2>4. Typed'
    BY <1>2, <2>2 DEF ImportInv, Typed, stores, papers
  <2>5. Keeps(i)'
    BY <1>1, <1>2, <2>1, <2>2, <2>3
       DEF Keeps, Locked, Decided, Final, Store, Path, Rows, stores, papers
  <2>6. \A j \in Others(i) : Still(j)
    BY <1>2 DEF ImportInv, Typed, Goto, Still, Others
  <2> QED
    BY <1>2, <2>4, <2>5, <2>6, QuietKeeps
<1>3. ASSUME prior \notin {Absent, Damaged}, Goto(i, "replaying"),
             draft' = [draft EXCEPT ![i] = prior],
             UNCHANGED <<stores, papers, owner, call, session, clock, missing, returned>>
      PROVE  ImportInv'
  <2>1. prior \in Receipt /\ Durable(prior)
    BY <1>1, <1>3 DEF ImportInv, Typed
  <2>2. /\ pc'[i] = "replaying" /\ pc' \in [Importers -> Places]
        /\ draft'[i] = prior /\ DOMAIN draft' = Importers
    BY <1>3 DEF ImportInv, Typed, Goto, Places
  <2>3. Typed'
    BY <1>3, <2>2 DEF ImportInv, Typed, stores, papers
  <2>4. Keeps(i)'
    BY <1>1, <1>3, <2>1, <2>2
       DEF Keeps, Locked, Decided, Final, Store, Path, Durable, SyncedRows, stores
  <2>5. \A j \in Others(i) : Still(j)
    BY <1>3 DEF ImportInv, Typed, Goto, Still, Others
  <2> QED
    BY <1>3, <2>3, <2>4, <2>5, QuietKeeps
<1> QED
  BY <1>2, <1>3, EndKeeps DEF Observe

\* The draft of an import, decided against the rows of its store.
DecidedDraft(i) ==
  [draft[i] EXCEPT !.decisions = Decisions(draft[i].manifest, draft[i].at, Rows(Store(i)))]

\* Without a candidate nothing is admitted.
LEMMA NoCandidate ==
  ASSUME NEW d \in Fresh, NEW rows, Candidates(d.manifest) = {}
  PROVE  \A e \in Source[d.manifest] : Decision(d.manifest, e, d.at, rows) # "admitted"
  BY DEF Candidates, Decision

LEMMA AdmitKeeps ==
  ASSUME ImportInv, NEW i \in Importers, Admit(i)
  PROVE  ImportInv'
<1> DEFINE d == draft[i]
           new == DecidedDraft(i)
<1>1. /\ call[i] \in Calls /\ Store(i) \in Stores /\ Path(i) \in Receipts
      /\ owner[Store(i)] = i /\ owner[Path(i)] = i
      /\ d \in Fresh /\ d.store = Store(i) /\ session[Store(i)] = Nobody
      /\ \A x \in Rows(Store(i)) : x.from = d.manifest => x.at = d.at
  BY DEF Admit, ImportInv, Keeps, Locked, Calls, Store, Path
<1>2. /\ new \in Receipt /\ new.manifest = d.manifest /\ new.at = d.at /\ new.store = d.store
      /\ new.decisions = Decisions(d.manifest, d.at, Rows(Store(i)))
  BY <1>1, DecisionsType DEF DecidedDraft, Fresh
<1>3. /\ draft'[i] = new /\ DOMAIN draft' = Importers
      /\ \A j \in Others(i) : draft'[j] = draft[j]
  BY DEF Admit, Decide, ImportInv, Typed, Others, DecidedDraft
<1>4. \A e \in DOMAIN new.decisions :
        new.decisions[e] = Decision(d.manifest, e, d.at, Rows(Store(i)))
  BY <1>2 DEF Decisions
<1>5. Found(new)
  <2>1. \A e \in DOMAIN new.decisions :
          Decision(d.manifest, e, d.at, Rows(Store(i))) = "idempotent"
            => Local(d.manifest, e, d.at) \in Rows(Store(i))
    BY DEF Decision
  <2> QED
    BY <1>1, <1>2, <1>4, <2>1 DEF Found
<1>6. UNCHANGED <<stores, papers, owner, call, clock, missing, returned>>
  BY DEF Admit
<1>7. CASE Candidates(d.manifest) = {}
  <2>1. pc'[i] = "publishing" /\ pc' = [pc EXCEPT ![i] = "publishing"] /\ UNCHANGED session
    BY <1>7 DEF Admit, Goto, ImportInv, Typed
  <2>2. Durable(new)
    BY <1>1, <1>2, <1>4, <1>7, NoCandidate, ReceiptFacts DEF Durable
  <2>3. Typed'
    BY <1>3, <1>6, <2>1 DEF ImportInv, Typed, stores, papers, Places
  <2>4. Keeps(i)'
    BY <1>1, <1>2, <1>3, <1>6, <2>1, <2>2
       DEF Keeps, Locked, Decided, Final, Store, Path, Durable, SyncedRows, stores
  <2>5. \A j \in Others(i) : Still(j)
    BY <1>3, <1>6, <2>1 DEF ImportInv, Typed, Still, Others
  <2> QED
    BY <1>6, <2>3, <2>4, <2>5, QuietKeeps
<1>8. CASE Candidates(d.manifest) # {}
  <2>1. /\ pc'[i] = "appending" /\ pc' = [pc EXCEPT ![i] = "appending"]
        /\ session' = [session EXCEPT ![Store(i)] = i]
    BY <1>8 DEF Admit, Goto, ImportInv, Typed
  <2>2. Typed'
    BY <1>1, <1>3, <1>6, <2>1 DEF ImportInv, Typed, stores, papers, Places
  <2>3. session'[Store(i)] = i
    BY <1>1, <2>1 DEF ImportInv, Typed
  <2>4. Keeps(i)'
    BY <1>1, <1>2, <1>3, <1>5, <1>6, <2>1, <2>3
       DEF Keeps, Locked, Decided, Final, Store, Path, Found, Rows, stores
  <2>5. \A j \in Others(i) : Still(j)
    BY <1>1, <1>3, <1>6, <2>1, ImportConstants DEF ImportInv, Typed, Still, Others
  <2> QED
    BY <1>6, <2>2, <2>4, <2>5, QuietKeeps
<1> QED
  BY <1>7, <1>8

LEMMA ReplayKeeps ==
  ASSUME ImportInv, NEW i \in Importers, Replay(i)
  PROVE  ImportInv'
<1>1. ASSUME Goto(i, "publishing"),
             UNCHANGED <<stores, papers, owner, call, draft, session, clock, missing, returned>>
      PROVE  ImportInv'
  <2>1. pc'[i] = "publishing" /\ pc' \in [Importers -> Places] /\ pc[i] = "replaying"
    BY <1>1 DEF Replay, ImportInv, Typed, Goto, Places
  <2>2. Typed'
    BY <1>1, <2>1 DEF ImportInv, Typed, stores, papers
  <2>3. Keeps(i)'
    BY <1>1, <2>1 DEF ImportInv, Keeps, Locked, Decided, Final, Store, Path, Durable, SyncedRows, stores
  <2>4. \A j \in Others(i) : Still(j)
    BY <1>1 DEF ImportInv, Typed, Goto, Still, Others
  <2> QED
    BY <1>1, <2>2, <2>3, <2>4, QuietKeeps
<1> QED
  BY <1>1, EndKeeps DEF Replay

\* The rows that a draft admits are new rows of its manifest, at its time.
LEMMA AdmittedFacts ==
  ASSUME NEW d \in Receipt, NEW x \in Admitted(d)
  PROVE  x \in Row /\ x.from = d.manifest /\ x.at = d.at /\ x.from # Managed
         /\ x.exec \in Source[d.manifest] /\ d.decisions[x.exec] = "admitted"
  BY ReceiptFacts DEF Admitted, Local

LEMMA AppendRowKeeps ==
  ASSUME ImportInv, NEW i \in Importers, AppendRow(i)
  PROVE  ImportInv'
<1>0. PICK s \in Stores : s = Store(i)
  BY DEF AppendRow, ImportInv, Keeps, Calls, Store
<1>1. /\ pc[i] = "appending" /\ Keeps(i) /\ Typed /\ draft[i] \in Receipt /\ owner[s] = i
  BY <1>0 DEF AppendRow, ImportInv, Keeps, Locked, Decided
<1>2. PICK row \in Admitted(draft[i]) : file' = [file EXCEPT ![s] = Append(@, row)]
  BY <1>0 DEF AppendRow
<1>3. UNCHANGED <<synced, papers, imports, session, clock, missing, returned>>
  BY DEF AppendRow
<1>4. row \in Row /\ row.from = draft[i].manifest /\ row.at = draft[i].at
  BY <1>1, <1>2, AdmittedFacts
<1>5. /\ file' \in [Stores -> Seq(Row)]
      /\ \A t \in Stores : Len(file[t]) <= Len(file'[t])
      /\ \A t \in Stores : \A k \in 1..Len(file[t]) : file'[t][k] = file[t][k]
      /\ \A t \in Stores \ {s} : Rows(t)' = Rows(t)
      /\ Rows(s)' = Rows(s) \cup {row}
  BY <1>1, <1>2, <1>4, AppendedRow
<1>6. \A t \in Stores : SyncedRows(t)' = SyncedRows(t) /\ synced[t] <= Len(file'[t])
  <2> SUFFICES ASSUME NEW t \in Stores
               PROVE  SyncedRows(t)' = SyncedRows(t) /\ synced[t] <= Len(file'[t])
    OBVIOUS
  <2>1. /\ synced[t] \in Nat /\ Len(file[t]) \in Nat /\ Len(file'[t]) \in Nat
        /\ synced[t] <= Len(file[t])
    BY <1>1, <1>5 DEF Typed
  <2>2. \A k \in 1..synced[t] : file'[t][k] = file[t][k]
    BY <1>5, <2>1
  <2>3. synced[t] <= Len(file'[t])
    BY <1>5, <2>1
  <2> QED
    BY <1>3, <2>2, <2>3 DEF SyncedRows
<1>7. Typed'
  BY <1>1, <1>3, <1>5, <1>6 DEF Typed, papers, imports
<1>8. FilesGrow
  BY <1>5, <1>6 DEF FilesGrow
<1>9. \A j \in Others(i) : Still(j) /\ Spared(j)
  BY <1>1, <1>3, <1>5 DEF Still, Spared, Others, imports, papers
<1>10. Keeps(i)'
  <2>1. \A x \in Rows(s)' : x.from = draft[i].manifest => x.at = draft[i].at
    BY <1>0, <1>1, <1>4, <1>5 DEF Keeps
  <2>2. Found(draft[i])'
    BY <1>1, <1>3, <1>8, DurableStays DEF Keeps, Found, imports
  <2> QED
    BY <1>0, <1>1, <1>3, <2>1, <2>2 DEF Keeps, Locked, Decided, Final, Store, Path, imports
<1>11. OneObservation'
  <2> SUFFICES ASSUME NEW t \in Stores, NEW x \in Rows(t)', NEW y \in Rows(t)',
                      x.from = y.from, x.from # Managed
               PROVE  x.at = y.at
    BY DEF OneObservation
  <2>1. CASE x \in Rows(t) /\ y \in Rows(t)
    BY <2>1 DEF ImportInv, OneObservation
  <2>2. CASE ~(x \in Rows(t) /\ y \in Rows(t))
    <3>1. t = s /\ x \in Rows(s) \cup {row} /\ y \in Rows(s) \cup {row}
      BY <1>5, <2>2
    <3>2. \A z \in Rows(s) \cup {row} : z.from = row.from => z.at = row.at
      BY <1>0, <1>1, <1>4 DEF Keeps
    <3> QED
      BY <2>2, <3>1, <3>2
  <2> QED
    BY <2>1, <2>2
<1>12. ReturnedInv' /\ \A q \in Receipts : receipt'[q] \in Receipt => Durable(receipt[q])'
  BY <1>3, <1>6, <1>8, ReceiptFacts, DurableStays
     DEF ImportInv, ReturnedInv, papers, Durable
<1> QED
  BY <1>7, <1>8, <1>9, <1>10, <1>11, <1>12, OthersKeep DEF ImportInv, Others

LEMMA CloseSessionKeeps ==
  ASSUME ImportInv, NEW i \in Importers, CloseSession(i)
  PROVE  ImportInv'
<1>0. PICK s \in Stores, d \in Receipt : s = Store(i) /\ d = draft[i]
  BY DEF CloseSession, ImportInv, Keeps, Decided, Calls, Store
<1>1. /\ pc[i] = "appending" /\ Keeps(i) /\ Typed
      /\ d.store = s /\ session[s] = i /\ Admitted(d) \subseteq Rows(s)
  BY <1>0 DEF CloseSession, ImportInv, Keeps
<1>2. /\ synced' = IF Admitted(d) = {} THEN synced ELSE [synced EXCEPT ![s] = Len(file[s])]
      /\ session' = [session EXCEPT ![s] = Nobody]
      /\ UNCHANGED <<file, papers, owner, call, draft, clock, missing, returned>>
  BY <1>0 DEF CloseSession
<1>3. pc' = [pc EXCEPT ![i] = "publishing"] /\ pc'[i] = "publishing"
  BY <1>1 DEF CloseSession, Goto, Typed
<1>4. \A t \in Stores : /\ Len(file[t]) \in Nat /\ DOMAIN file[t] = 1..Len(file[t])
                        /\ synced[t] \in Nat /\ synced[t] <= Len(file[t])
  BY <1>1 DEF Typed
<1>5. /\ synced' \in [Stores -> Nat]
      /\ \A t \in Stores : synced[t] <= synced'[t] /\ synced'[t] <= Len(file[t])
      /\ Admitted(d) # {} => synced'[s] = Len(file[s])
  BY <1>1, <1>2, <1>4 DEF Typed
<1>6. Typed'
  BY <1>1, <1>2, <1>3, <1>5 DEF Typed, papers, Places
<1>7. \A t \in Stores : SyncedRows(t) \subseteq SyncedRows(t)' /\ Rows(t)' = Rows(t)
  BY <1>2, <1>4, <1>5 DEF SyncedRows, Rows
<1>8. FilesGrow
  BY <1>7 DEF FilesGrow
<1>9. \A j \in Others(i) : Still(j) /\ Spared(j)
  <2>1. \A j \in Others(i) : Still(j)
    BY <1>1, <1>2, <1>3 DEF Still, Others, Typed
  <2>2. \A j \in Others(i) : Spared(j)
    BY <1>2, <1>7 DEF Spared, papers
  <2> QED
    BY <2>1, <2>2
<1>10. Durable(d)'
  <2> SUFFICES ASSUME NEW e \in DOMAIN d.decisions, d.decisions[e] = "admitted"
               PROVE  Bound(d) \subseteq SyncedRows(s)'
    BY <1>1 DEF Durable, Bound
  <2>1. Admitted(d) # {}
    BY DEF Admitted
  <2>2. Rows(s) = SyncedRows(s)'
    BY <1>1, <1>2, <1>4, <1>5, <2>1 DEF SyncedRows, Rows, Range
  <2>3. \A x \in Bound(d) : x \in Rows(s)
    BY <1>0, <1>1 DEF Bound, Keeps, Found, Admitted
  <2> QED
    BY <2>2, <2>3
<1>11. Keeps(i)'
  BY <1>0, <1>1, <1>2, <1>3, <1>10 DEF Keeps, Locked, Decided, Final, Store, Path, Durable, Bound
<1>12. OneObservation'
  BY <1>7 DEF ImportInv, OneObservation
<1>13. ReturnedInv' /\ \A q \in Receipts : receipt'[q] \in Receipt => Durable(receipt[q])'
  BY <1>2, <1>7, <1>8, ReceiptFacts, DurableStays
     DEF ImportInv, ReturnedInv, papers, Durable
<1> QED
  BY <1>6, <1>8, <1>9, <1>11, <1>12, <1>13, OthersKeep DEF ImportInv, Others

LEMMA CheckReceiptKeeps ==
  ASSUME ImportInv, NEW i \in Importers, CheckReceipt(i)
  PROVE  ImportInv'
<1>1. ASSUME NEW at \in {"renaming", "renamed"}, Goto(i, at),
             at = "renaming" => receipt[Path(i)] = Absent,
             at = "renamed" => receipt[Path(i)] = draft[i],
             UNCHANGED <<stores, papers, owner, call, draft, session, clock, missing, returned>>
      PROVE  ImportInv'
  <2>1. pc'[i] = at /\ pc' \in [Importers -> Places] /\ pc[i] = "publishing"
    BY <1>1 DEF CheckReceipt, ImportInv, Typed, Goto, Places
  <2>2. Typed'
    BY <1>1, <2>1 DEF ImportInv, Typed, stores, papers
  <2>3. Keeps(i)'
    BY <1>1, <2>1
       DEF ImportInv, Keeps, Locked, Decided, Final, Store, Path, Durable, SyncedRows, stores, papers
  <2>4. \A j \in Others(i) : Still(j)
    BY <1>1 DEF ImportInv, Typed, Goto, Still, Others
  <2> QED
    BY <1>1, <2>2, <2>3, <2>4, QuietKeeps
<1> QED
  BY <1>1, EndKeeps DEF CheckReceipt

LEMMA RenameKeeps ==
  ASSUME ImportInv, NEW i \in Importers, Rename(i)
  PROVE  ImportInv'
<1> DEFINE d == draft[i]
           q == Path(i)
<1>1. /\ pc[i] = "renaming" /\ Keeps(i) /\ Typed /\ q \in Receipts /\ owner[q] = i
      /\ d \in Receipt /\ Durable(d) /\ receipt[q] = Absent
  BY DEF Rename, ImportInv, Keeps, Locked, Decided, Final, Calls, Path
<1>2. /\ receipt' = [receipt EXCEPT ![q] = d] /\ settled' = settled \ {q}
      /\ UNCHANGED <<stores, owner, call, draft, session, clock, missing, returned>>
  BY DEF Rename
<1>3. pc' = [pc EXCEPT ![i] = "renamed"] /\ pc'[i] = "renamed"
  BY <1>1 DEF Rename, Goto, Typed
<1>4. receipt'[q] = d /\ \A p \in Receipts \ {q} : receipt'[p] = receipt[p]
  BY <1>1, <1>2 DEF Typed
<1>5. Typed'
  BY <1>1, <1>2, <1>3 DEF Typed, stores, Places
<1>6. FilesGrow
  BY <1>2 DEF FilesGrow, stores, Rows, SyncedRows
<1>7. \A j \in Others(i) : Still(j) /\ Spared(j)
  BY <1>1, <1>2, <1>3, <1>4 DEF Still, Spared, Others, Typed, stores, Rows
<1>8. Keeps(i)'
  BY <1>1, <1>2, <1>3, <1>4, <1>6, DurableStays
     DEF Keeps, Locked, Decided, Final, Store, Path, Durable, Bound
<1>9. OneObservation'
  BY <1>2 DEF ImportInv, OneObservation, stores, Rows
<1>10. ReturnedInv'
  <2> SUFFICES ASSUME NEW pair \in returned
               PROVE  receipt'[pair[1]] = pair[2] /\ pair[1] \in settled'
    BY <1>2 DEF ReturnedInv
  <2>1. pair[1] \in Receipts /\ pair[2] \in Receipt
        /\ receipt[pair[1]] = pair[2] /\ pair[1] \in settled
    BY <1>1 DEF ImportInv, ReturnedInv, Typed
  <2>2. pair[1] # q
    BY <1>1, <2>1, ReceiptFacts
  <2> QED
    BY <1>2, <1>4, <2>1, <2>2
<1>11. \A p \in Receipts : receipt'[p] \in Receipt => Durable(receipt[p])'
  BY <1>1, <1>4, <1>6, DurableStays DEF ImportInv, Durable, Bound
<1> QED
  BY <1>5, <1>6, <1>7, <1>8, <1>9, <1>10, <1>11, OthersKeep DEF ImportInv, Others

LEMMA SyncAndReturnKeeps ==
  ASSUME ImportInv, NEW i \in Importers, SyncAndReturn(i)
  PROVE  ImportInv'
<1>1. /\ Typed /\ End(i) /\ Path(i) \in Receipts /\ draft[i] \in Receipt
      /\ receipt[Path(i)] = draft[i]
  BY DEF SyncAndReturn, ImportInv, Keeps, Decided, Calls, Path
<1>2. /\ settled' = settled \cup {Path(i)} /\ returned' = returned \cup {<<Path(i), draft[i]>>}
      /\ UNCHANGED <<stores, receipt, clock, missing>>
  BY DEF SyncAndReturn
<1>3. Typed'
  BY <1>1, <1>2, EndFacts DEF Typed, stores
<1>4. FilesGrow /\ \A j \in Importers : Spared(j)
  BY <1>2 DEF FilesGrow, Spared, stores, Rows, SyncedRows
<1>5. \A j \in Importers : Keeps(j)'
  BY <1>1, <1>4, EndFacts, OthersKeep DEF Others
<1>6. OneObservation' /\ \A q \in Receipts : receipt'[q] \in Receipt => Durable(receipt[q])'
  BY <1>2 DEF ImportInv, OneObservation, stores, Durable, Rows, SyncedRows
<1>7. ReturnedInv'
  BY <1>1, <1>2 DEF ImportInv, ReturnedInv
<1> QED
  BY <1>3, <1>5, <1>6, <1>7 DEF ImportInv

--------------------------------------------------------------------------------
(* The Runner, the clock, and power.                                       *)

\* A step that leaves all imports alone and appends no row but a managed one.
LEMMA EnvironmentKeeps ==
  ASSUME ImportInv, Typed', OneObservation', FilesGrow, UNCHANGED <<papers, imports, returned>>,
         \A s \in Stores : session[s] \notin {Nobody, Runner} => session'[s] = session[s],
         \A s \in Stores : \A x \in Rows(s)' : x \in Rows(s) \/ x.from = Managed
  PROVE  ImportInv'
<1>1. \A j \in Importers : Still(j) /\ Spared(j)
  BY ImportConstants DEF Still, Spared, papers, imports
<1>2. ReturnedInv' /\ \A q \in Receipts : receipt'[q] \in Receipt => Durable(receipt[q])'
  BY ReceiptFacts, DurableStays DEF ImportInv, ReturnedInv, papers, Durable, Bound
<1> QED
  BY <1>1, <1>2, OthersKeep DEF ImportInv

LEMMA QuietRunnerKeeps ==
  ASSUME ImportInv, NEW s \in Stores, RunnerOpen(s) \/ RunnerClose(s) \/ Tick
  PROVE  ImportInv'
<1>1. CASE RunnerOpen(s)
  BY <1>1, EnvironmentKeeps
     DEF RunnerOpen, ImportInv, Typed, OneObservation, stores, papers, imports, FilesGrow, Rows, SyncedRows
<1>2. CASE RunnerClose(s)
  BY <1>2, EnvironmentKeeps
     DEF RunnerClose, ImportInv, Typed, OneObservation, stores, papers, imports, FilesGrow, Rows, SyncedRows
<1>3. CASE Tick
  BY <1>3, EnvironmentKeeps, ImportConstants
     DEF Tick, ImportInv, Typed, OneObservation, stores, papers, imports, FilesGrow, Rows, SyncedRows
<1> QED
  BY <1>1, <1>2, <1>3

\* What the Runner stores is a row.
LEMMA RunnerRow ==
  ASSUME Typed, NEW s \in Stores, NEW c \in missing[s]
  PROVE  Local(Managed, RunnerExecution(s, c), 0) \in Row
<1>1. c \in Pool
  BY DEF Typed
<1>2. RunnerExecution(s, c) \in [cell : Pool, run : {0, 1}]
  BY <1>1 DEF RunnerExecution
<1>3. RunnerExecution(s, c) \in Executions
  BY <1>2, Zenon DEF Executions
<1>4. 0 \in 0..MaxTime
  BY ImportConstants
<1> QED
  BY <1>3, <1>4 DEF Local, Row

LEMMA RunnerStoreKeeps ==
  ASSUME ImportInv, NEW s \in Stores, RunnerStore(s)
  PROVE  ImportInv'
<1>1. Typed /\ session[s] = Runner
  BY DEF ImportInv, RunnerStore
<1>2. PICK c \in missing[s] :
        /\ file' = [file EXCEPT ![s] = Append(@, Local(Managed, RunnerExecution(s, c), 0))]
        /\ \/ /\ synced' = [synced EXCEPT ![s] = Len(file'[s])]
              /\ missing' = [missing EXCEPT ![s] = @ \ {c}]
              /\ UNCHANGED session
           \/ /\ session' = [session EXCEPT ![s] = Nobody]
              /\ missing' = [missing EXCEPT ![s] = {}]
              /\ UNCHANGED synced
  BY DEF RunnerStore
<1>3. PICK row \in Row : row = Local(Managed, RunnerExecution(s, c), 0)
  BY <1>1, RunnerRow
<1>4. row.from = Managed /\ UNCHANGED <<papers, imports, clock, returned>>
  BY <1>3 DEF Local, RunnerStore
<1>5. /\ file' \in [Stores -> Seq(Row)]
      /\ \A t \in Stores : Len(file[t]) <= Len(file'[t])
      /\ \A t \in Stores : \A k \in 1..Len(file[t]) : file'[t][k] = file[t][k]
      /\ \A t \in Stores \ {s} : Rows(t)' = Rows(t)
      /\ Rows(s)' = Rows(s) \cup {row}
  BY <1>1, <1>2, <1>3, AppendedRow
<1>6. ASSUME NEW t \in Stores
      PROVE  /\ synced'[t] \in Nat /\ synced'[t] <= Len(file'[t])
             /\ SyncedRows(t) \subseteq SyncedRows(t)'
  <2>1. /\ synced[t] \in Nat /\ Len(file[t]) \in Nat /\ Len(file'[t]) \in Nat
        /\ synced[t] <= Len(file[t]) /\ Len(file[t]) <= Len(file'[t])
    BY <1>1, <1>5 DEF Typed
  <2>2. synced'[t] \in {synced[t], Len(file'[t])}
    BY <1>1, <1>2 DEF Typed
  <2>3. synced[t] <= synced'[t] /\ synced'[t] \in Nat /\ synced'[t] <= Len(file'[t])
    BY <2>1, <2>2
  <2>4. \A k \in 1..synced[t] : k \in 1..Len(file[t]) /\ k \in 1..synced'[t]
    BY <2>1, <2>3
  <2> QED
    BY <1>5, <2>3, <2>4 DEF SyncedRows
<1>7. Typed'
  <2>1. synced' \in [Stores -> Nat]
    BY <1>1, <1>2, <1>6 DEF Typed
  <2>2. missing' \in [Stores -> SUBSET Pool]
    BY <1>1, <1>2 DEF Typed
  <2>3. session' \in [Stores -> Importers \cup {Nobody, Runner}]
    BY <1>1, <1>2 DEF Typed
  <2> QED
    BY <1>1, <1>4, <1>5, <1>6, <2>1, <2>2, <2>3 DEF Typed, papers, imports
<1>8. FilesGrow
  BY <1>5, <1>6 DEF FilesGrow
<1>9. \A t \in Stores : session[t] \notin {Nobody, Runner} => session'[t] = session[t]
  BY <1>1, <1>2 DEF Typed
<1>10. \A t \in Stores : \A x \in Rows(t)' : x \in Rows(t) \/ x.from = Managed
  BY <1>4, <1>5
<1>11. OneObservation'
  BY <1>10 DEF ImportInv, OneObservation
<1> QED
  BY <1>4, <1>7, <1>8, <1>9, <1>10, <1>11, EnvironmentKeeps

\* What power loss leaves of the stores.
LEMMA KeptRows ==
  ASSUME Typed, PowerLoss
  PROVE  /\ file' \in [Stores -> Seq(Row)] /\ synced' \in [Stores -> Nat]
         /\ \A s \in Stores : synced'[s] <= Len(file'[s])
         /\ \A s \in Stores : Rows(s)' \subseteq Rows(s) /\ SyncedRows(s) \subseteq SyncedRows(s)'
<1>1. PICK kept \in [Stores -> Nat] :
        /\ \A s \in Stores : kept[s] \in synced[s]..Len(file[s])
        /\ file' = [s \in Stores |-> SubSeq(file[s], 1, kept[s])]
        /\ synced' = kept
  <2>1. \A kept : kept \in [Stores -> Nat \cap 0..Cardinality(Row)] => kept \in [Stores -> Nat]
    OBVIOUS
  <2> QED
    BY <2>1 DEF PowerLoss
<1>2. ASSUME NEW s \in Stores
      PROVE  /\ file'[s] \in Seq(Row) /\ Len(file'[s]) = kept[s]
             /\ Rows(s)' \subseteq Rows(s) /\ SyncedRows(s) \subseteq SyncedRows(s)'
  <2>1. /\ file[s] \in Seq(Row) /\ kept[s] \in 0..Len(file[s]) /\ synced[s] \in Nat
        /\ synced[s] <= kept[s] /\ Len(file[s]) \in Nat /\ kept[s] \in Nat
    BY <1>1 DEF Typed
  <2>2. /\ SubSeq(file[s], 1, kept[s]) \in Seq(Row) /\ Len(SubSeq(file[s], 1, kept[s])) = kept[s]
        /\ \A k \in 1..kept[s] : SubSeq(file[s], 1, kept[s])[k] = file[s][k]
    BY <2>1, SubSeqProperties
  <2>3. /\ file'[s] \in Seq(Row) /\ Len(file'[s]) = kept[s]
        /\ \A k \in 1..kept[s] : file'[s][k] = file[s][k]
    BY <1>1, <2>2
  <2>4. /\ DOMAIN file[s] = 1..Len(file[s]) /\ DOMAIN file'[s] = 1..kept[s]
        /\ \A k \in 1..kept[s] : k \in 1..Len(file[s])
        /\ \A k \in 1..synced[s] : k \in 1..kept[s]
    BY <2>1, <2>3
  <2>5. Rows(s)' \subseteq Rows(s)
    BY <2>3, <2>4 DEF Rows, Range
  <2>6. synced'[s] = kept[s]
    BY <1>1
  <2>7. SyncedRows(s) \subseteq SyncedRows(s)'
    BY <2>3, <2>4, <2>6 DEF SyncedRows
  <2> QED
    BY <2>3, <2>5, <2>7
<1>3. file' \in [Stores -> Seq(Row)]
  BY <1>1, <1>2
<1>4. \A s \in Stores : synced'[s] <= Len(file'[s])
  BY <1>1, <1>2
<1> QED
  BY <1>1, <1>2, <1>3, <1>4

LEMMA PowerLossKeeps ==
  ASSUME ImportInv, PowerLoss
  PROVE  ImportInv'
<1>1. Typed /\ \A s \in Stores : Rows(s)' \subseteq Rows(s) /\ SyncedRows(s) \subseteq SyncedRows(s)'
  BY KeptRows DEF ImportInv
<1>2. PICK fate \in [Receipts -> {"stays", "vanishes", "damaged"}] :
        /\ \A q \in settled : fate[q] = "stays"
        /\ receipt' = [q \in Receipts |->
             IF receipt[q] = Absent \/ fate[q] = "vanishes" THEN Absent
             ELSE IF fate[q] = "damaged" THEN Damaged ELSE receipt[q]]
        /\ settled' = Receipts
  BY DEF PowerLoss
<1>3. /\ receipt' \in [Receipts -> Receipt \cup {Absent, Damaged}]
      /\ \A q \in Receipts : receipt'[q] \in {Absent, Damaged, receipt[q]}
      /\ \A q \in settled : q \in Receipts /\ receipt'[q] = receipt[q]
  BY <1>1, <1>2 DEF Typed
<1>4. /\ session' = [s \in Stores |-> Nobody] /\ owner' = [l \in Paths |-> Nobody]
      /\ pc' = [i \in Importers |-> "idle"] /\ call' = [i \in Importers |-> Absent]
      /\ draft' = [i \in Importers |-> Absent] /\ missing' = [s \in Stores |-> {}]
      /\ UNCHANGED <<clock, returned>>
  BY DEF PowerLoss
<1>5. Typed'
  BY <1>1, <1>2, <1>3, <1>4, KeptRows DEF Typed, Places
<1>6. \A i \in Importers : Keeps(i)'
  BY <1>4 DEF Keeps, Locked, Decided, Final
<1>7. OneObservation'
  BY <1>1 DEF ImportInv, OneObservation
<1>8. ReturnedInv'
  BY <1>2, <1>3, <1>4 DEF ImportInv, ReturnedInv, Typed
<1>9. \A q \in Receipts : receipt'[q] \in Receipt => Durable(receipt[q])'
  <2> SUFFICES ASSUME NEW q \in Receipts, receipt'[q] \in Receipt PROVE Durable(receipt[q])'
    OBVIOUS
  <2>1. receipt'[q] = receipt[q]
    BY <1>3, ReceiptFacts
  <2>2. receipt[q] \in Receipt /\ Durable(receipt[q]) /\ receipt[q].store \in Stores
    BY <2>1, ReceiptFacts DEF ImportInv
  <2> QED
    BY <1>1, <2>1, <2>2 DEF Durable, Bound
<1> QED
  BY <1>5, <1>6, <1>7, <1>8, <1>9 DEF ImportInv

--------------------------------------------------------------------------------
(* What holds under every fault.                                           *)

LEMMA ImportInit == Init => ImportInv
<1> SUFFICES ASSUME Init PROVE ImportInv
  OBVIOUS
<1> USE DEF Init
<1>1. <<>> \in Seq(Row) /\ Len(<<>>) = 0 /\ Range(<<>>) = {}
  BY DEF Range
<1>2. Typed
  BY <1>1, ImportConstants DEF Typed, Places
<1>3. OneObservation
  BY <1>1 DEF OneObservation, Rows
<1>4. ReturnedInv /\ \A i \in Importers : Keeps(i)
  BY DEF ReturnedInv, Keeps, Locked, Decided, Final
<1>5. \A q \in Receipts : receipt[q] \notin Receipt
  BY NoReceipt
<1> QED
  BY <1>2, <1>3, <1>4, <1>5 DEF ImportInv

LEMMA ImportNext == ImportInv /\ [Next]_vars => ImportInv'
<1> SUFFICES ASSUME ImportInv, [Next]_vars PROVE ImportInv'
  OBVIOUS
<1>1. ASSUME NEW i \in Importers, Waits(i)
      PROVE  ImportInv'
  BY <1>1, TakeLockKeeps, ObserveKeeps, AdmitKeeps, ReplayKeeps DEF Waits
<1>2. ASSUME NEW i \in Importers, Proceeds(i)
      PROVE  ImportInv'
  BY <1>2, AppendRowKeeps, CloseSessionKeeps, CheckReceiptKeeps, RenameKeeps, SyncAndReturnKeeps
     DEF Proceeds
<1>3. ASSUME NEW i \in Importers, Abort(i)
      PROVE  ImportInv'
  BY <1>3, EndKeeps DEF Abort
<1>4. CASE Tick
  <2>1. CASE Stores = {}
    BY <1>4, <2>1, EnvironmentKeeps, ImportConstants
       DEF Tick, ImportInv, Typed, OneObservation, stores, papers, imports, FilesGrow
  <2> QED
    BY <1>4, <2>1, QuietRunnerKeeps
<1>5. CASE UNCHANGED vars
  BY <1>5, EnvironmentKeeps
     DEF vars, ImportInv, Typed, OneObservation, stores, papers, imports, FilesGrow, Rows, SyncedRows
<1> QED
  BY <1>1, <1>2, <1>3, <1>4, <1>5, CallKeeps, QuietRunnerKeeps, RunnerStoreKeeps, PowerLossKeeps
     DEF Next

LEMMA ImportInvariant == Spec => []ImportInv
<1> QED
  BY ImportInit, ImportNext, PTL DEF Spec

\* Stores, sessions, locks, receipts and calls keep their types.
THEOREM TypeInvariant == Spec => []TypeOK
<1>1. ImportInv => TypeOK
  BY RowFacts DEF ImportInv, Typed, TypeOK, Places
<1> QED
  BY <1>1, ImportInvariant, PTL

\* Concurrent and retried imports of a manifest agree on its first observation time
\* in every store, whatever is killed or loses power.
THEOREM ObservationsAgree == Spec => []OneObservation
<1>1. ImportInv => OneObservation
  BY DEF ImportInv
<1> QED
  BY <1>1, ImportInvariant, PTL

\* A receipt on disk that admitted a row binds rows that power cannot take away.
THEOREM AdmissionsAreDurable == Spec => []AdmittingReceiptDurable
<1>1. ImportInv => AdmittingReceiptDurable
  <2> SUFFICES ASSUME ImportInv, NEW q \in Receipts, Whole(q),
                      \E e \in DOMAIN receipt[q].decisions : receipt[q].decisions[e] = "admitted"
               PROVE  Bound(receipt[q])
                        \subseteq Range(SubSeq(file[receipt[q].store], 1, synced[receipt[q].store]))
    BY DEF AdmittingReceiptDurable
  <2> DEFINE s == receipt[q].store
  <2>1. receipt[q] \in Receipt /\ s \in Stores
    BY ReceiptFacts DEF ImportInv, Typed, Whole
  <2>2. Bound(receipt[q]) \subseteq SyncedRows(s)
    BY <2>1 DEF ImportInv, Durable
  <2>3. /\ file[s] \in Seq(Row) /\ synced[s] \in 0..Len(file[s])
    BY <2>1 DEF ImportInv, Typed
  <2>4. /\ Len(SubSeq(file[s], 1, synced[s])) = synced[s]
        /\ SubSeq(file[s], 1, synced[s]) \in Seq(Row)
        /\ \A k \in 1..synced[s] : SubSeq(file[s], 1, synced[s])[k] = file[s][k]
    BY <2>3, SubSeqProperties
  <2>5. SyncedRows(s) \subseteq Range(SubSeq(file[s], 1, synced[s]))
    BY <2>4 DEF SyncedRows, Range
  <2> QED
    BY <2>2, <2>5
<1> QED
  BY <1>1, ImportInvariant, PTL

\* No import, kill or power loss changes a receipt that some call returned.
THEOREM ReturnedReceiptsStay == Spec => []ReturnedReceiptStays
<1>1. ImportInv => ReturnedReceiptStays
  BY DEF ImportInv, ReturnedInv, ReturnedReceiptStays
<1> QED
  BY <1>1, ImportInvariant, PTL

--------------------------------------------------------------------------------
(* One execution per cell.                                                 *)

\* The rows that importer i still has to append give no cell of its store
\* another execution.
Unrivalled(i) ==
  \A x \in Admitted(draft[i]) :
    /\ Rivals(x.exec, Source[draft[i].manifest]) = {}
    /\ \A y \in Rows(Store(i)) : y.exec.cell = x.exec.cell => y.exec = x.exec

\* A Runner in its session finds missing only cells without a Result.
RunnerSees(s) == session[s] = Runner => \A y \in Rows(s) : y.exec.cell \notin missing[s]

UnambiguousInv ==
  /\ StoreUnambiguous
  /\ \A i \in Importers : pc[i] = "appending" => Unrivalled(i)
  /\ \A s \in Stores : RunnerSees(s)

\* Most steps write no row, and nobody learns anything.
LEMMA NoNewRows ==
  ASSUME UnambiguousInv, UNCHANGED file,
         \A j \in Importers : pc'[j] = "appending" =>
           pc[j] = "appending" /\ call'[j] = call[j] /\ draft'[j] = draft[j],
         \A s \in Stores : session'[s] = Runner => session[s] = Runner /\ missing'[s] = missing[s]
  PROVE  UnambiguousInv'
<1>1. \A s \in Stores : Rows(s)' = Rows(s)
  BY DEF Rows
<1>2. StoreUnambiguous'
  BY <1>1 DEF UnambiguousInv, StoreUnambiguous
<1>3. ASSUME NEW j \in Importers, pc'[j] = "appending"
      PROVE  Unrivalled(j)'
  <2>1. Rows(Store(j))' = Rows(Store(j)) /\ draft'[j] = draft[j] /\ pc[j] = "appending"
    BY <1>3 DEF Store, Rows
  <2>2. Unrivalled(j)
    BY <2>1 DEF UnambiguousInv
  <2> QED
    BY <2>1, <2>2 DEF Unrivalled
<1>4. \A s \in Stores : RunnerSees(s)'
  BY <1>1 DEF UnambiguousInv, RunnerSees
<1> QED
  BY <1>2, <1>3, <1>4 DEF UnambiguousInv

LEMMA EndIsQuiet ==
  ASSUME Typed, UnambiguousInv, NEW i \in Importers, End(i), UNCHANGED <<file, missing>>
  PROVE  UnambiguousInv'
<1>1. \A s \in Stores : session'[s] = Runner => session[s] = Runner
  BY ImportConstants DEF Typed, End
<1>2. \A j \in Importers : pc'[j] = "appending" =>
        pc[j] = "appending" /\ call'[j] = call[j] /\ draft'[j] = draft[j]
  BY DEF Typed, End, Goto
<1> QED
  BY <1>1, <1>2, NoNewRows

\* What is admitted has no rival, neither in the source nor in the store.
LEMMA AdmitIsUnrivalled ==
  ASSUME ImportInv, UnambiguousInv, NEW i \in Importers, Admit(i)
  PROVE  UnambiguousInv'
<1>0. PICK s \in Stores, d \in Fresh : s = Store(i) /\ d = draft[i]
  BY DEF Admit, ImportInv, Keeps, Calls, Store
<1>1. PICK new \in Receipt : /\ draft'[i] = new
                             /\ new.manifest = d.manifest /\ new.at = d.at
                             /\ new.decisions = Decisions(d.manifest, d.at, Rows(s))
  <2>1. /\ DecidedDraft(i) \in Receipt
        /\ DecidedDraft(i).manifest = d.manifest /\ DecidedDraft(i).at = d.at
        /\ DecidedDraft(i).decisions = Decisions(d.manifest, d.at, Rows(s))
    BY <1>0, DecisionsType DEF DecidedDraft, Fresh
  <2>2. draft'[i] = DecidedDraft(i)
    BY DEF Admit, Decide, ImportInv, Typed, DecidedDraft
  <2> QED
    BY <2>1, <2>2
<1>2. /\ UNCHANGED <<stores, call, missing>> /\ session[s] = Nobody
      /\ \A j \in Others(i) : pc'[j] = pc[j] /\ draft'[j] = draft[j]
  BY <1>0 DEF Admit, Decide, Goto, ImportInv, Typed, Others
<1>3. \A t \in Stores : session'[t] = Runner => session[t] = Runner
  BY <1>0, ImportConstants DEF Admit, ImportInv, Typed
<1>4. \A t \in Stores : Rows(t)' = Rows(t)
  BY <1>2 DEF Rows, stores
<1>5. \A e \in DOMAIN new.decisions : new.decisions[e] = "admitted" =>
        /\ Rivals(e, Source[d.manifest]) = {}
        /\ Rivals(e, {r.exec : r \in Rows(s)}) = {}
  BY <1>1 DEF Decisions, Decision
<1>6. ASSUME NEW x \in Admitted(new)
      PROVE  /\ Rivals(x.exec, Source[d.manifest]) = {}
             /\ \A y \in Rows(s) : y.exec.cell = x.exec.cell => y.exec = x.exec
  <2>1. x.exec \in DOMAIN new.decisions /\ new.decisions[x.exec] = "admitted"
    BY <1>6, AdmittedFacts, ReceiptFacts
  <2>2. Rivals(x.exec, Source[d.manifest]) = {} /\ Rivals(x.exec, {r.exec : r \in Rows(s)}) = {}
    BY <1>5, <2>1
  <2> QED
    BY <2>2 DEF Rivals
<1>7. Unrivalled(i)'
  BY <1>0, <1>1, <1>2, <1>4, <1>6 DEF Unrivalled, Store
<1>8. ASSUME NEW j \in Others(i), pc'[j] = "appending"
      PROVE  Unrivalled(j)'
  <2>1. Rows(Store(j))' = Rows(Store(j)) /\ draft'[j] = draft[j]
    BY <1>2 DEF Store, Rows, stores
  <2>2. Unrivalled(j)
    BY <1>2, <1>8 DEF UnambiguousInv, Others
  <2> QED
    BY <2>1, <2>2 DEF Unrivalled
<1>9. StoreUnambiguous' /\ \A t \in Stores : RunnerSees(t)'
  BY <1>2, <1>3, <1>4 DEF UnambiguousInv, StoreUnambiguous, RunnerSees
<1> QED
  BY <1>7, <1>8, <1>9 DEF UnambiguousInv, Others

\* A row of a cell that the store has no other execution of.
LEMMA NewExecution ==
  ASSUME StoreUnambiguous, NEW s \in Stores, NEW row,
         \A t \in Stores \ {s} : Rows(t)' = Rows(t), Rows(s)' = Rows(s) \cup {row},
         \A y \in Rows(s) : y.exec.cell = row.exec.cell => y.exec = row.exec
  PROVE  StoreUnambiguous'
<1> SUFFICES ASSUME NEW t \in Stores, NEW x \in Rows(t)', NEW y \in Rows(t)',
                    x.exec.cell = y.exec.cell
             PROVE  x.exec = y.exec
  BY DEF StoreUnambiguous
<1>1. CASE x \in Rows(t) /\ y \in Rows(t)
  BY <1>1 DEF StoreUnambiguous
<1>2. CASE ~(x \in Rows(t) /\ y \in Rows(t))
  <2>1. x \in Rows(s) \cup {row} /\ y \in Rows(s) \cup {row}
    BY <1>2
  <2>2. x \in Rows(s) /\ x.exec.cell = row.exec.cell => x.exec = row.exec
    OBVIOUS
  <2>3. t = s /\ (x = row \/ y = row)
    BY <1>2, <2>1
  <2> QED
    BY <2>1, <2>2, <2>3
<1> QED
  BY <1>1, <1>2

LEMMA AppendRowIsUnrivalled ==
  ASSUME ImportInv, UnambiguousInv, NEW i \in Importers, AppendRow(i)
  PROVE  UnambiguousInv'
<1>0. PICK s \in Stores, d \in Receipt : s = Store(i) /\ d = draft[i]
  BY DEF AppendRow, ImportInv, Keeps, Decided, Calls, Store
<1>1. /\ pc[i] = "appending" /\ Typed /\ Unrivalled(i) /\ session[s] = i
  BY <1>0 DEF AppendRow, ImportInv, UnambiguousInv, Keeps
<1>2. PICK row \in Admitted(d) : file' = [file EXCEPT ![s] = Append(@, row)]
  BY <1>0 DEF AppendRow
<1>3. UNCHANGED <<imports, session, missing>>
  BY DEF AppendRow
<1>4. row \in Row /\ row.exec \in Source[d.manifest]
  BY <1>2, AdmittedFacts
<1>5. \A t \in Stores \ {s} : Rows(t)' = Rows(t)
  BY <1>1, <1>2, <1>4, AppendedRow
<1>6. Rows(s)' = Rows(s) \cup {row}
  BY <1>1, <1>2, <1>4, AppendedRow
<1>7. StoreUnambiguous'
  <2>1. \A y \in Rows(s) : y.exec.cell = row.exec.cell => y.exec = row.exec
    BY <1>0, <1>1, <1>2 DEF Unrivalled
  <2> QED
    BY <1>5, <1>6, <2>1, NewExecution DEF UnambiguousInv
<1>8. Unrivalled(i)'
  <2>1. ASSUME NEW x \in Admitted(d)
        PROVE  /\ Rivals(x.exec, Source[d.manifest]) = {}
               /\ \A y \in Rows(s)' : y.exec.cell = x.exec.cell => y.exec = x.exec
    <3>1. Rivals(x.exec, Source[d.manifest]) = {}
      BY <1>0, <1>1, <2>1 DEF Unrivalled
    <3>2. row.exec.cell = x.exec.cell => row.exec = x.exec
      BY <1>4, <3>1 DEF Rivals
    <3>3. \A y \in Rows(s) : y.exec.cell = x.exec.cell => y.exec = x.exec
      BY <1>0, <1>1, <2>1 DEF Unrivalled
    <3> QED
      BY <1>6, <3>1, <3>2, <3>3
  <2>2. draft'[i] = d /\ Store(i)' = s
    BY <1>0, <1>3 DEF imports, Store
  <2> QED
    BY <2>1, <2>2 DEF Unrivalled
<1>9. ASSUME NEW j \in Others(i), pc'[j] = "appending"
      PROVE  Unrivalled(j)'
  <2>1. pc[j] = "appending" /\ j # i /\ j \in Importers
    BY <1>3, <1>9 DEF Others, imports
  <2>2. PICK t \in Stores : t = Store(j) /\ session[t] = j
    BY <2>1 DEF ImportInv, Keeps, Calls, Store
  <2>3. Rows(t)' = Rows(t) /\ Store(j)' = t /\ draft'[j] = draft[j]
    BY <1>1, <1>3, <1>5, <2>1, <2>2 DEF imports, Store
  <2>4. Unrivalled(j)
    BY <2>1 DEF UnambiguousInv
  <2> QED
    BY <2>2, <2>3, <2>4 DEF Unrivalled
<1>10. ASSUME NEW t \in Stores
       PROVE  RunnerSees(t)'
  <2>1. CASE t = s
    BY <1>1, <1>3, <2>1, ImportConstants DEF RunnerSees
  <2>2. CASE t # s
    BY <1>3, <1>5, <2>2 DEF UnambiguousInv, RunnerSees
  <2> QED
    BY <2>1, <2>2
<1> QED
  BY <1>7, <1>8, <1>9, <1>10 DEF UnambiguousInv, Others

LEMMA RunnerStoreIsUnrivalled ==
  ASSUME ImportInv, UnambiguousInv, NEW s \in Stores, RunnerStore(s)
  PROVE  UnambiguousInv'
<1>1. Typed /\ session[s] = Runner /\ RunnerSees(s)
  BY DEF ImportInv, UnambiguousInv, RunnerStore
<1>2. PICK c \in missing[s] :
        /\ file' = [file EXCEPT ![s] = Append(@, Local(Managed, RunnerExecution(s, c), 0))]
        /\ \/ missing' = [missing EXCEPT ![s] = @ \ {c}] /\ UNCHANGED session
           \/ session' = [session EXCEPT ![s] = Nobody] /\ missing' = [missing EXCEPT ![s] = {}]
  BY DEF RunnerStore
<1>3. PICK row \in Row : row = Local(Managed, RunnerExecution(s, c), 0)
  BY <1>1, RunnerRow
<1>4. row.exec.cell = c /\ UNCHANGED imports
  BY <1>3 DEF Local, RunnerExecution, RunnerStore
<1>5. (\A t \in Stores \ {s} : Rows(t)' = Rows(t)) /\ Rows(s)' = Rows(s) \cup {row}
  BY <1>1, <1>2, <1>3, AppendedRow
<1>6. StoreUnambiguous'
  <2>1. \A y \in Rows(s) : y.exec.cell # row.exec.cell
    BY <1>1, <1>4 DEF RunnerSees
  <2> QED
    BY <1>5, <2>1, NewExecution DEF UnambiguousInv
<1>7. ASSUME NEW j \in Importers, pc'[j] = "appending"
      PROVE  Unrivalled(j)'
  <2>1. pc[j] = "appending" /\ Unrivalled(j)
    BY <1>4, <1>7 DEF UnambiguousInv, imports
  <2>2. PICK t \in Stores : t = Store(j) /\ session[t] = j
    BY <2>1 DEF ImportInv, Keeps, Calls, Store
  <2>3. Rows(t)' = Rows(t) /\ Store(j)' = t /\ draft'[j] = draft[j]
    BY <1>1, <1>4, <1>5, <2>2, ImportConstants DEF imports, Store
  <2> QED
    BY <2>1, <2>2, <2>3 DEF Unrivalled
<1>8. ASSUME NEW t \in Stores
      PROVE  RunnerSees(t)'
  <2>1. CASE t = s
    <3>1. session'[s] = Runner => missing'[s] = missing[s] \ {c}
      BY <1>1, <1>2, ImportConstants DEF Typed
    <3> QED
      BY <1>1, <1>4, <1>5, <2>1, <3>1 DEF RunnerSees
  <2>2. CASE t # s
    <3>1. session'[t] = session[t] /\ missing'[t] = missing[t]
      BY <1>1, <1>2, <2>2 DEF Typed
    <3> QED
      BY <1>5, <2>2, <3>1 DEF UnambiguousInv, RunnerSees
  <2> QED
    BY <2>1, <2>2
<1> QED
  BY <1>6, <1>7, <1>8 DEF UnambiguousInv

\* The Runner looks for missing cells when it opens its session.
LEMMA RunnerOpenSees ==
  ASSUME ~RunnerReruns, ImportInv, UnambiguousInv, NEW s \in Stores, RunnerOpen(s)
  PROVE  UnambiguousInv'
<1>1. \A t \in Stores : Rows(t)' = Rows(t)
  BY DEF RunnerOpen, stores, Rows
<1>2. StoreUnambiguous'
  BY <1>1 DEF UnambiguousInv, StoreUnambiguous
<1>3. ASSUME NEW j \in Importers, pc'[j] = "appending"
      PROVE  Unrivalled(j)'
  <2>1. Rows(Store(j))' = Rows(Store(j)) /\ draft'[j] = draft[j] /\ pc[j] = "appending"
    BY <1>3 DEF RunnerOpen, stores, imports, Store, Rows
  <2>2. Unrivalled(j)
    BY <2>1 DEF UnambiguousInv
  <2> QED
    BY <2>1, <2>2 DEF Unrivalled
<1>4. missing'[s] = Pool \ {r.exec.cell : r \in Rows(s)}
      /\ \A t \in Stores \ {s} : session'[t] = session[t] /\ missing'[t] = missing[t]
  BY DEF RunnerOpen, ImportInv, Typed
<1>5. \A t \in Stores : RunnerSees(t)'
  BY <1>1, <1>4 DEF UnambiguousInv, RunnerSees
<1> QED
  BY <1>2, <1>3, <1>5 DEF UnambiguousInv

LEMMA UnambiguousNext ==
  ASSUME ~RunnerReruns, ImportInv, UnambiguousInv, [Next]_vars
  PROVE  UnambiguousInv'
<1>0. Typed
  BY DEF ImportInv
<1>1. ASSUME NEW i \in Importers, Waits(i)
      PROVE  UnambiguousInv'
  <2>1. CASE TakeLock(i)
    BY <1>0, <2>1, NoNewRows DEF TakeLock, Goto, Typed, stores
  <2>2. CASE Observe(i)
    <3>1. CASE End(i)
      BY <1>0, <2>2, <3>1, EndIsQuiet DEF Observe, stores
    <3>2. ASSUME NEW at \in {"fresh", "replaying"}, NEW d,
                 Goto(i, at), draft' = [draft EXCEPT ![i] = d],
                 UNCHANGED <<stores, call, session, missing>>
          PROVE  UnambiguousInv'
      BY <1>0, <3>2, NoNewRows DEF Goto, Typed, stores
    <3> QED
      BY <2>2, <3>1, <3>2 DEF Observe
  <2>3. CASE Replay(i)
    <3>1. CASE End(i)
      BY <1>0, <2>3, <3>1, EndIsQuiet DEF Replay, stores
    <3>2. CASE Goto(i, "publishing") /\ UNCHANGED <<stores, call, draft, session, missing>>
      BY <1>0, <3>2, NoNewRows DEF Goto, Typed, stores
    <3> QED
      BY <2>3, <3>1, <3>2 DEF Replay
  <2> QED
    BY <1>1, <2>1, <2>2, <2>3, AdmitIsUnrivalled DEF Waits
<1>2. ASSUME NEW i \in Importers, Proceeds(i)
      PROVE  UnambiguousInv'
  <2>1. CASE CloseSession(i)
    <3>1. \A s \in Stores : session'[s] = Runner => session[s] = Runner
      BY <1>0, <2>1, ImportConstants DEF CloseSession, Typed
    <3> QED
      BY <1>0, <2>1, <3>1, NoNewRows DEF CloseSession, Goto, Typed
  <2>2. CASE CheckReceipt(i)
    <3>1. CASE End(i)
      BY <1>0, <2>2, <3>1, EndIsQuiet DEF CheckReceipt, stores
    <3>2. ASSUME NEW at \in {"renaming", "renamed"}, Goto(i, at),
                 UNCHANGED <<stores, call, draft, session, missing>>
          PROVE  UnambiguousInv'
      BY <1>0, <3>2, NoNewRows DEF Goto, Typed, stores
    <3> QED
      BY <2>2, <3>1, <3>2 DEF CheckReceipt
  <2>3. CASE Rename(i)
    BY <1>0, <2>3, NoNewRows DEF Rename, Goto, Typed, stores
  <2>4. CASE SyncAndReturn(i)
    BY <1>0, <2>4, EndIsQuiet DEF SyncAndReturn, stores
  <2> QED
    BY <1>2, <2>1, <2>2, <2>3, <2>4, AppendRowIsUnrivalled DEF Proceeds
<1>3. ASSUME NEW i \in Importers, NEW m \in Manifests, NEW s \in Stores, NEW q \in Receipts,
             Call(i, m, s, q)
      PROVE  UnambiguousInv'
  BY <1>0, <1>3, NoNewRows DEF Call, Goto, Typed, stores
<1>4. ASSUME NEW i \in Importers, Abort(i)
      PROVE  UnambiguousInv'
  BY <1>0, <1>4, EndIsQuiet DEF Abort, stores
<1>5. ASSUME NEW s \in Stores, RunnerClose(s)
      PROVE  UnambiguousInv'
  BY <1>0, <1>5, ImportConstants, NoNewRows DEF RunnerClose, Typed, stores, imports
<1>6. CASE Tick \/ UNCHANGED vars
  BY <1>0, <1>6, NoNewRows DEF Tick, vars, stores, imports
<1>7. CASE PowerLoss
  <2>1. \A s \in Stores : Rows(s)' \subseteq Rows(s)
    BY <1>0, <1>7, KeptRows
  <2>2. StoreUnambiguous'
    BY <2>1 DEF UnambiguousInv, StoreUnambiguous
  <2>3. (\A i \in Importers : pc'[i] = "idle") /\ \A s \in Stores : session'[s] = Nobody
    BY <1>7 DEF PowerLoss
  <2> QED
    BY <2>2, <2>3, ImportConstants DEF UnambiguousInv, RunnerSees
<1> QED
  BY <1>1, <1>2, <1>3, <1>4, <1>5, <1>6, <1>7, RunnerOpenSees, RunnerStoreIsUnrivalled DEF Next

\* Imports and a Runner that runs only cells without a Result never give a cell of
\* a store two executions.
THEOREM CellsHaveOneExecution == ~RunnerReruns => (Spec => []StoreUnambiguous)
<1> SUFFICES ASSUME ~RunnerReruns PROVE Spec => []StoreUnambiguous
  OBVIOUS
<1>1. Init => UnambiguousInv
  <2> SUFFICES ASSUME Init PROVE UnambiguousInv
    OBVIOUS
  <2>1. \A s \in Stores : Rows(s) = {}
    BY DEF Init, Rows, Range
  <2> QED
    BY <2>1 DEF Init, UnambiguousInv, StoreUnambiguous, RunnerSees
<1>2. ImportInv /\ UnambiguousInv /\ [Next]_vars => UnambiguousInv'
  BY UnambiguousNext
<1>3. UnambiguousInv => StoreUnambiguous
  BY DEF UnambiguousInv
<1> QED
  BY <1>1, <1>2, <1>3, ImportInvariant, PTL DEF Spec

--------------------------------------------------------------------------------
(* Receipts that replay.                                                   *)

\* What a receipt says of each source row, as far as it can never change.
Lasting(d) ==
  \A e \in DOMAIN d.decisions :
    LET verdict == d.decisions[e] IN
      /\ verdict = "outside" <=> e.cell \notin Pool
      /\ verdict = "ambiguous_incoming" <=> e.cell \in Pool /\ Rivals(e, Source[d.manifest]) # {}
      /\ verdict = "ambiguous_local" => Rivals(e, {r.exec : r \in Rows(d.store)}) # {}
      /\ verdict = "idempotent" => Local(d.manifest, e, d.at) \in Rows(d.store)

Stored(d) == Bound(d) \subseteq Rows(d.store)

ReplayInv ==
  /\ \A q \in Receipts : receipt[q] \in Receipt => Lasting(receipt[q]) /\ Stored(receipt[q])
  /\ \A i \in Importers : /\ Decided(i) => Lasting(draft[i])
                          /\ Final(i) => Stored(draft[i])

RowsGrow == \A s \in Stores : Rows(s) \subseteq Rows(s)'

\* Rows that are added refute nothing that a receipt says.
LEMMA LastingStays ==
  ASSUME RowsGrow, NEW d \in Receipt
  PROVE  /\ Lasting(d) => Lasting(d)'
         /\ Stored(d) => Stored(d)'
<1>1. Rows(d.store) \subseteq Rows(d.store)'
  BY ReceiptFacts DEF RowsGrow
<1>2. \A e : Rivals(e, {r.exec : r \in Rows(d.store)}) # {}
               => Rivals(e, {r.exec : r \in Rows(d.store)'}) # {}
  BY <1>1 DEF Rivals
<1>3. Lasting(d) => Lasting(d)'
  BY <1>1, <1>2 DEF Lasting
<1> QED
  BY <1>1, <1>3 DEF Stored

\* One importer moves, and no receipt but a lasting and stored one is written.
LEMMA ReplayStep ==
  ASSUME ImportInv, ReplayInv, RowsGrow, NEW i \in Importers,
         \A j \in Others(i) : pc'[j] = pc[j] /\ draft'[j] = draft[j],
         \A q \in Receipts : \/ receipt'[q] \in {receipt[q], Absent, Damaged}
                             \/ \E d \in Receipt : receipt'[q] = d /\ Lasting(d) /\ Stored(d),
         Decided(i)' => \E d \in Receipt : draft'[i] = d /\ Lasting(d) /\ (Final(i)' => Stored(d))
  PROVE  ReplayInv'
<1>1. ASSUME NEW q \in Receipts, receipt'[q] \in Receipt
      PROVE  Lasting(receipt[q])' /\ Stored(receipt[q])'
  <2>1. PICK d \in Receipt : receipt'[q] = d /\ Lasting(d) /\ Stored(d)
    BY <1>1, NoReceipt DEF ReplayInv
  <2>2. Lasting(d)' /\ Stored(d)'
    BY <2>1, LastingStays
  <2> QED
    BY <2>1, <2>2 DEF Lasting, Stored
<1>2. ASSUME NEW j \in Importers, Decided(j)'
      PROVE  Lasting(draft[j])' /\ (Final(j)' => Stored(draft[j])')
  <2>1. PICK d \in Receipt : draft'[j] = d /\ Lasting(d) /\ (Final(j)' => Stored(d))
    <3>1. CASE j = i
      BY <1>2, <3>1
    <3>2. CASE j # i
      <4>1. pc'[j] = pc[j] /\ draft'[j] = draft[j] /\ Decided(j) /\ (Final(j)' <=> Final(j))
        BY <1>2, <3>2 DEF Others, Decided, Final
      <4>2. draft[j] \in Receipt /\ Lasting(draft[j]) /\ (Final(j) => Stored(draft[j]))
        BY <4>1 DEF ImportInv, Keeps, ReplayInv
      <4> QED
        BY <4>1, <4>2
    <3> QED
      BY <3>1, <3>2
  <2>2. Lasting(d)' /\ (Final(j)' => Stored(d)')
    BY <2>1, LastingStays
  <2> QED
    BY <2>1, <2>2 DEF Lasting, Stored
<1>3. \A j \in Importers : Final(j)' => Decided(j)'
  BY DEF Final, Decided
<1> QED
  BY <1>1, <1>2, <1>3 DEF ReplayInv

\* The importer that moves has decided nothing new, and stored no less.
LEMMA QuietReplays ==
  ASSUME ImportInv, ReplayInv, RowsGrow, NEW i \in Importers, UNCHANGED receipt,
         \A j \in Others(i) : pc'[j] = pc[j] /\ draft'[j] = draft[j],
         Decided(i)' => Decided(i) /\ draft'[i] = draft[i] /\ (Final(i)' => Final(i))
  PROVE  ReplayInv'
<1>1. Decided(i)' => \E d \in Receipt : draft'[i] = d /\ Lasting(d) /\ (Final(i)' => Stored(d))
  BY DEF ImportInv, Keeps, ReplayInv
<1> QED
  BY <1>1, ReplayStep

\* Without a step of an import.
LEMMA EnvironmentReplays ==
  ASSUME ImportInv, ReplayInv, RowsGrow, UNCHANGED <<receipt, pc, draft>>
  PROVE  ReplayInv'
<1>1. ASSUME NEW q \in Receipts, receipt[q] \in Receipt
      PROVE  Lasting(receipt[q])' /\ Stored(receipt[q])'
  BY <1>1, LastingStays DEF ReplayInv, Lasting, Stored
<1>2. ASSUME NEW j \in Importers
      PROVE  (Decided(j) => Lasting(draft[j])') /\ (Final(j) => Stored(draft[j])')
  <2>1. (Decided(j) => draft[j] \in Receipt) /\ (Final(j) => Decided(j))
    BY DEF ImportInv, Keeps, Final, Decided
  <2> QED
    BY <2>1, LastingStays DEF ReplayInv, Lasting, Stored
<1> QED
  BY <1>1, <1>2 DEF ReplayInv, Decided, Final

LEMMA EndReplays ==
  ASSUME ImportInv, ReplayInv, NEW i \in Importers, End(i), UNCHANGED <<file, receipt>>
  PROVE  ReplayInv'
<1>1. RowsGrow
  BY DEF RowsGrow, Rows
<1>2. pc'[i] = "idle" /\ \A j \in Others(i) : pc'[j] = pc[j] /\ draft'[j] = draft[j]
  BY EndFacts DEF ImportInv, Still
<1>3. ~Decided(i)'
  BY <1>2 DEF Decided
<1> QED
  BY <1>1, <1>2, <1>3, QuietReplays

\* An import goes on without a new draft.
LEMMA GoOnReplays ==
  ASSUME ImportInv, ReplayInv, NEW i \in Importers, NEW at, Goto(i, at),
         at \in {"locking", "locked", "fresh"}
           \/ (Final(i) /\ UNCHANGED draft /\ at \in {"publishing", "renaming", "renamed"}),
         \A j \in Others(i) : draft'[j] = draft[j], UNCHANGED <<file, receipt>>
  PROVE  ReplayInv'
<1>1. RowsGrow
  BY DEF RowsGrow, Rows
<1>2. pc'[i] = at /\ \A j \in Others(i) : pc'[j] = pc[j]
  BY DEF Goto, ImportInv, Typed, Others
<1>3. Decided(i)' => Decided(i) /\ draft'[i] = draft[i] /\ (Final(i)' => Final(i))
  BY <1>2 DEF Decided, Final
<1> QED
  BY <1>1, <1>2, <1>3, QuietReplays

LEMMA ObserveReplays ==
  ASSUME ImportInv, ReplayInv, NEW i \in Importers, Observe(i)
  PROVE  ReplayInv'
<1>1. Typed /\ Path(i) \in Receipts /\ pc[i] = "locked" /\ UNCHANGED <<file, receipt>>
  BY DEF ImportInv, Observe, Keeps, Calls, Path, stores, papers
<1>2. ASSUME NEW d, Goto(i, "fresh"), draft' = [draft EXCEPT ![i] = d]
      PROVE  ReplayInv'
  BY <1>1, <1>2, GoOnReplays DEF Typed, Others
<1>3. ASSUME NEW d, d = receipt[Path(i)], d \notin {Absent, Damaged},
             Goto(i, "replaying"), draft' = [draft EXCEPT ![i] = d]
      PROVE  ReplayInv'
  <2>1. d \in Receipt /\ Lasting(d) /\ Stored(d)
    BY <1>1, <1>3 DEF Typed, ReplayInv
  <2>2. /\ draft'[i] = d
        /\ \A j \in Others(i) : pc'[j] = pc[j] /\ draft'[j] = draft[j]
    BY <1>1, <1>3 DEF Typed, Goto, Others
  <2>3. RowsGrow
    BY <1>1 DEF RowsGrow, Rows
  <2> QED
    BY <1>1, <2>1, <2>2, <2>3, ReplayStep
<1> QED
  BY <1>1, <1>2, <1>3, EndReplays DEF Observe

\* A decision is lasting; without a candidate it binds nothing that is not stored.
LEMMA AdmitReplays ==
  ASSUME ImportInv, ReplayInv, NEW i \in Importers, Admit(i)
  PROVE  ReplayInv'
<1>0. PICK s \in Stores, d \in Fresh : s = Store(i) /\ d = draft[i] /\ d.store = s
  BY DEF Admit, ImportInv, Keeps, Calls, Store
<1>1. PICK new \in Receipt : /\ draft'[i] = new
                             /\ new.manifest = d.manifest /\ new.at = d.at /\ new.store = s
                             /\ new.decisions = Decisions(d.manifest, d.at, Rows(s))
  <2>1. /\ DecidedDraft(i) \in Receipt
        /\ DecidedDraft(i).manifest = d.manifest /\ DecidedDraft(i).at = d.at
        /\ DecidedDraft(i).store = s
        /\ DecidedDraft(i).decisions = Decisions(d.manifest, d.at, Rows(s))
    BY <1>0, DecisionsType DEF DecidedDraft, Fresh
  <2>2. draft'[i] = DecidedDraft(i)
    BY DEF Admit, Decide, ImportInv, Typed, DecidedDraft
  <2> QED
    BY <2>1, <2>2
<1>2. /\ UNCHANGED <<file, receipt>>
      /\ \A j \in Others(i) : pc'[j] = pc[j] /\ draft'[j] = draft[j]
  BY DEF Admit, Decide, Goto, ImportInv, Typed, Others, stores, papers
<1>3. RowsGrow
  BY <1>2 DEF RowsGrow, Rows
<1>4. DOMAIN new.decisions = Source[d.manifest]
      /\ \A e \in Source[d.manifest] : new.decisions[e] = Decision(d.manifest, e, d.at, Rows(s))
  BY <1>1 DEF Decisions
<1>5. Lasting(new)
  <2> SUFFICES ASSUME NEW e \in Source[d.manifest]
               PROVE  LET verdict == Decision(d.manifest, e, d.at, Rows(s)) IN
                      /\ verdict = "outside" <=> e.cell \notin Pool
                      /\ verdict = "ambiguous_incoming"
                           <=> e.cell \in Pool /\ Rivals(e, Source[d.manifest]) # {}
                      /\ verdict = "ambiguous_local" => Rivals(e, {r.exec : r \in Rows(s)}) # {}
                      /\ verdict = "idempotent" => Local(d.manifest, e, d.at) \in Rows(s)
    BY <1>1, <1>4 DEF Lasting
  <2> QED
    BY DEF Decision
<1>6. Final(i)' => Stored(new)
  <2> SUFFICES ASSUME Final(i)' PROVE Stored(new)
    OBVIOUS
  <2>1. Candidates(d.manifest) = {}
    BY <1>0 DEF Final, Admit, Goto, ImportInv, Typed
  <2>2. \A e \in Source[d.manifest] : new.decisions[e] # "admitted"
    BY <1>4, <2>1, NoCandidate
  <2>3. \A e \in Source[d.manifest] : new.decisions[e] = "idempotent"
          => Local(d.manifest, e, d.at) \in Rows(s)
    BY <1>4 DEF Decision
  <2> QED
    BY <1>1, <1>4, <2>2, <2>3 DEF Stored, Bound
<1> QED
  BY <1>1, <1>2, <1>3, <1>5, <1>6, ReplayStep

LEMMA AppendRowReplays ==
  ASSUME ImportInv, ReplayInv, NEW i \in Importers, AppendRow(i)
  PROVE  ReplayInv'
<1>1. PICK s \in Stores, d \in Receipt : s = Store(i) /\ d = draft[i]
  BY DEF AppendRow, ImportInv, Keeps, Decided, Calls, Store
<1>2. PICK row \in Admitted(d) : file' = [file EXCEPT ![s] = Append(@, row)]
  BY <1>1 DEF AppendRow
<1>3. Typed /\ row \in Row
  BY <1>2, AdmittedFacts DEF ImportInv
<1>4. (\A t \in Stores \ {s} : Rows(t)' = Rows(t)) /\ Rows(s)' = Rows(s) \cup {row}
  BY <1>2, <1>3, AppendedRow
<1>5. RowsGrow
  BY <1>4 DEF RowsGrow
<1> QED
  BY <1>5, EnvironmentReplays DEF AppendRow, papers, imports

\* A closed session stored what was admitted, and found what was not.
LEMMA CloseSessionReplays ==
  ASSUME ImportInv, ReplayInv, NEW i \in Importers, CloseSession(i)
  PROVE  ReplayInv'
<1>0. PICK s \in Stores, d \in Receipt : s = Store(i) /\ d = draft[i]
  BY DEF CloseSession, ImportInv, Keeps, Decided, Calls, Store
<1>1. /\ d.store = s /\ Found(d) /\ Admitted(d) \subseteq Rows(s) /\ Lasting(d)
  BY <1>0 DEF CloseSession, ImportInv, Keeps, ReplayInv, Decided
<1>2. Stored(d)
  BY <1>1 DEF Stored, Bound, Found, Admitted
<1>3. /\ UNCHANGED <<file, receipt, draft>> /\ \A j \in Others(i) : pc'[j] = pc[j]
  BY DEF CloseSession, Goto, ImportInv, Typed, Others, papers
<1>4. RowsGrow
  BY <1>3 DEF RowsGrow, Rows
<1> QED
  BY <1>0, <1>1, <1>2, <1>3, <1>4, ReplayStep

LEMMA RenameReplays ==
  ASSUME ImportInv, ReplayInv, NEW i \in Importers, Rename(i)
  PROVE  ReplayInv'
<1>0. PICK d \in Receipt : d = draft[i] /\ Lasting(d) /\ Stored(d)
  BY DEF Rename, ImportInv, Keeps, Decided, Final, ReplayInv
<1>1. /\ UNCHANGED <<file, draft>> /\ \A j \in Others(i) : pc'[j] = pc[j]
      /\ \A q \in Receipts : receipt'[q] \in {receipt[q], d}
  BY <1>0 DEF Rename, Goto, ImportInv, Typed, Others, stores
<1>2. RowsGrow
  BY <1>1 DEF RowsGrow, Rows
<1> QED
  BY <1>0, <1>1, <1>2, ReplayStep

LEMMA ReplayNext ==
  ASSUME ~PowerMayFail, ImportInv, ReplayInv, [Next]_vars
  PROVE  ReplayInv'
<1>0. Typed
  BY DEF ImportInv
<1>1. ASSUME NEW i \in Importers, Waits(i)
      PROVE  ReplayInv'
  <2>1. CASE TakeLock(i)
    <3>1. PICK at \in {"locking", "locked"} : Goto(i, at)
      BY <2>1 DEF TakeLock
    <3> QED
      BY <2>1, <3>1, GoOnReplays DEF TakeLock, stores, papers
  <2>2. CASE Replay(i)
    BY <2>2, GoOnReplays, EndReplays DEF Replay, Final, stores, papers
  <2> QED
    BY <1>1, <2>1, <2>2, ObserveReplays, AdmitReplays DEF Waits
<1>2. ASSUME NEW i \in Importers, Proceeds(i)
      PROVE  ReplayInv'
  <2>1. CASE CheckReceipt(i)
    BY <2>1, GoOnReplays, EndReplays DEF CheckReceipt, Final, stores, papers
  <2>2. CASE SyncAndReturn(i)
    BY <2>2, EndReplays DEF SyncAndReturn, stores
  <2> QED
    BY <1>2, <2>1, <2>2, AppendRowReplays, CloseSessionReplays, RenameReplays DEF Proceeds
<1>3. ASSUME NEW i \in Importers, NEW m \in Manifests, NEW s \in Stores, NEW q \in Receipts,
             Call(i, m, s, q)
      PROVE  ReplayInv'
  BY <1>3, GoOnReplays DEF Call, stores, papers
<1>4. ASSUME NEW i \in Importers, Abort(i)
      PROVE  ReplayInv'
  BY <1>4, EndReplays DEF Abort, stores, papers
<1>5. ASSUME NEW s \in Stores, RunnerStore(s)
      PROVE  ReplayInv'
  <2>1. PICK c \in missing[s] :
          file' = [file EXCEPT ![s] = Append(@, Local(Managed, RunnerExecution(s, c), 0))]
    BY <1>5 DEF RunnerStore
  <2>2. PICK row \in Row : row = Local(Managed, RunnerExecution(s, c), 0)
    BY <1>0, RunnerRow
  <2>3. (\A t \in Stores \ {s} : Rows(t)' = Rows(t)) /\ Rows(s)' = Rows(s) \cup {row}
    BY <1>0, <2>1, <2>2, AppendedRow
  <2>4. RowsGrow
    BY <2>3 DEF RowsGrow
  <2> QED
    BY <1>5, <2>4, EnvironmentReplays DEF RunnerStore, papers, imports
<1>6. ASSUME UNCHANGED <<file, receipt, pc, draft>>
      PROVE  ReplayInv'
  BY <1>6, EnvironmentReplays DEF RowsGrow, Rows
<1>7. ~PowerLoss
  BY DEF PowerLoss
<1> QED
  BY <1>1, <1>2, <1>3, <1>4, <1>5, <1>6, <1>7
     DEF Next, RunnerOpen, RunnerClose, Tick, vars, stores, papers, imports

\* Without a power loss, admission that is decided anew against everything that imports
\* and the Runner stored since agrees with every receipt on disk.
THEOREM ReceiptsReplay == ~RunnerReruns /\ ~PowerMayFail => (Spec => []ReceiptReplays)
<1> SUFFICES ASSUME ~RunnerReruns, ~PowerMayFail PROVE Spec => []ReceiptReplays
  OBVIOUS
<1>1. Init => ReplayInv
  BY NoReceipt DEF Init, ReplayInv, Decided, Final
<1>2. ImportInv /\ ReplayInv /\ [Next]_vars => ReplayInv'
  BY ReplayNext
<1>3. ImportInv /\ ReplayInv /\ StoreUnambiguous => ReceiptReplays
  <2> SUFFICES ASSUME ImportInv, ReplayInv, StoreUnambiguous, NEW q \in Receipts, Whole(q)
               PROVE  LET r == receipt[q] IN
                      /\ Bound(r) \subseteq Rows(r.store)
                      /\ Replays(r.decisions, Decisions(r.manifest, r.at, Rows(r.store)))
    BY DEF ReceiptReplays
  <2>1. PICK r \in Receipt : r = receipt[q] /\ Lasting(r) /\ Stored(r)
    BY DEF ImportInv, Typed, Whole, ReplayInv
  <2> DEFINE rows == Rows(r.store)
  <2>2. /\ r.store \in Stores /\ DOMAIN r.decisions = Source[r.manifest]
        /\ \A e \in DOMAIN r.decisions : r.decisions[e] \in Verdicts
    BY ReceiptFacts DEF Receipt
  <2>3. ASSUME NEW e \in DOMAIN r.decisions
        PROVE  Decision(r.manifest, e, r.at, rows)
                 = IF r.decisions[e] = "admitted" THEN "idempotent" ELSE r.decisions[e]
    <3>1. r.decisions[e] \in {"outside", "ambiguous_incoming", "ambiguous_local"}
            => Decision(r.manifest, e, r.at, rows) = r.decisions[e]
      BY <2>1 DEF Lasting, Decision
    <3>2. ASSUME r.decisions[e] \in {"admitted", "idempotent"}
          PROVE  Decision(r.manifest, e, r.at, rows) = "idempotent"
      <4>1. Local(r.manifest, e, r.at) \in rows
        BY <2>1, <3>2 DEF Stored, Bound
      <4>2. Local(r.manifest, e, r.at).exec = e
        BY DEF Local
      <4>3. Rivals(e, {x.exec : x \in rows}) = {}
        BY <2>2, <4>1, <4>2 DEF StoreUnambiguous, Rivals
      <4>4. e.cell \in Pool /\ Rivals(e, Source[r.manifest]) = {}
        BY <2>1, <3>2 DEF Lasting
      <4> QED
        BY <4>1, <4>3, <4>4 DEF Decision
    <3> QED
      BY <2>2, <3>1, <3>2 DEF Verdicts
  <2>4. Replays(r.decisions, Decisions(r.manifest, r.at, rows))
    BY <2>2, <2>3 DEF Replays, Decisions
  <2> QED
    BY <2>1, <2>4 DEF Stored
<1> QED
  BY <1>1, <1>2, <1>3, ImportInvariant, CellsHaveOneExecution, PTL DEF Spec

================================================================================
