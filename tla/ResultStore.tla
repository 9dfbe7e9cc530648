------------------------------ MODULE ResultStore ------------------------------
(***************************************************************************)
(* The Result Store's JSONL log: writers that take one exclusive session,  *)
(* index the file and append batches; readers; explicit tail recovery; and *)
(* what a killed process or a power loss leaves behind.                    *)
(*                                                                         *)
(* The file has two lives.  `file' and `tail' are what every process sees  *)
(* through the page cache; the first `synced' lines, `diskTail' and a      *)
(* durable `entry' are what a power loss cannot take away.  A record is a  *)
(* member of Records; IdOf is its result_id, and two records of one id     *)
(* differ in their digest.                                                 *)
(***************************************************************************)
EXTENDS Naturals, Sequences

CONSTANTS
  Procs,              \* operating-system processes that use the store
  Records,            \* result records
  IdOf,               \* result_id of each record
  MaxBatch,           \* bound: new records of one append_many
  FlushMayFail,       \* write() may be followed by a failing flush()
  FsyncFlushesEntry,  \* fsync(file) also makes its directory entry durable
  Nobody,             \* no lock holder
  NoTail, Torn,       \* the bytes after the last newline: none, unparseable
  Garbage             \* a newline-terminated line that is no record

ASSUME StoreConstants ==
  /\ MaxBatch \in Nat \ {0}
  /\ FlushMayFail \in BOOLEAN
  /\ FsyncFlushesEntry \in BOOLEAN
  /\ Nobody \notin Procs
  /\ NoTail \notin Records /\ Torn \notin Records /\ NoTail # Torn
  /\ Garbage \notin Records

VARIABLES
  entry,      \* the directory entry: "absent", "cached" or "durable"
  file,       \* the newline-terminated lines, in the page cache
  tail,       \* what follows the last newline, in the page cache
  synced,     \* how many lines are on disk
  diskTail,   \* what follows them on disk
  holder,     \* who holds the exclusive advisory lock
  pc,         \* where each process is
  created,    \* the session believes it created the file
  index,      \* records the session has indexed
  accepted,   \* records the running append_many will return
  unwritten,  \* lines still in the user-space buffer of the handle
  seen,       \* records a live process got from load_results
  acked,      \* records some append_many returned
  confirmed   \* records returned by an append_many that wrote something

disk  == <<entry, file, tail, synced, diskTail>>
local == <<created, index, accepted, unwritten>>
told  == <<acked, confirmed>>
vars  == <<disk, holder, pc, local, seen, told>>

States == {"out", "probed", "waiting", "session", "buffered", "flushed",
           "synced", "leaving", "closing", "repairing"}

Lines == {file[i] : i \in 1..Len(file)}

\* _load_results_unlocked and _require_unique_result_ids raise otherwise.
Loadable ==
  /\ tail = NoTail
  /\ \A i \in 1..Len(file) : file[i] \in Records
  /\ \A i, j \in 1..Len(file) : IdOf[file[i]] = IdOf[file[j]] => i = j

Init ==
  /\ entry = "absent" /\ file = <<>> /\ tail = NoTail
  /\ synced = 0 /\ diskTail = NoTail
  /\ holder = Nobody
  /\ pc = [p \in Procs |-> "out"]
  /\ created = [p \in Procs |-> FALSE]
  /\ index = [p \in Procs |-> {}]
  /\ accepted = [p \in Procs |-> {}]
  /\ unwritten = [p \in Procs |-> <<>>]
  /\ seen = [p \in Procs |-> {}]
  /\ acked = {} /\ confirmed = {}

Goto(p, at) == pc' = [pc EXCEPT ![p] = at]

--------------------------------------------------------------------------------
(* Opening a session: the existence probe runs before the lock is taken.   *)

Probe(p) ==
  /\ pc[p] = "out"
  /\ created' = [created EXCEPT ![p] = (entry = "absent")]
  /\ Goto(p, "probed")
  /\ UNCHANGED <<disk, holder, index, accepted, unwritten, seen, told>>

OpenHandle(p) ==
  /\ pc[p] = "probed"
  /\ entry' = IF entry = "absent" THEN "cached" ELSE entry
  /\ Goto(p, "waiting")
  /\ UNCHANGED <<file, tail, synced, diskTail, holder, local, seen, told>>

\* Mutant: the session takes the lock in shared mode.
LockAndLoad_Shared(p) ==
  /\ pc[p] = "waiting"
  /\ holder' = p
  /\ index' = [index EXCEPT ![p] = IF Loadable THEN Lines ELSE {}]
  /\ Goto(p, IF Loadable THEN "session" ELSE "leaving")
  /\ UNCHANGED <<disk, created, accepted, unwritten, seen, told>>

\* flock(LOCK_EX) is granted; the log is loaded and indexed, or rejected.
LockAndLoad(p) ==
  /\ pc[p] = "waiting"
  /\ holder = Nobody
  /\ holder' = p
  /\ index' = [index EXCEPT ![p] = IF Loadable THEN Lines ELSE {}]
  /\ Goto(p, IF Loadable THEN "session" ELSE "leaving")
  /\ UNCHANGED <<disk, created, accepted, unwritten, seen, told>>

--------------------------------------------------------------------------------
(* append_many: the loop over the batch, one record at a time, then one    *)
(* write, flush, fsync of the file and, for a creator, of its directory.   *)

Twins(p, r) == {s \in index[p] \cup accepted[p] : IdOf[s] = IdOf[r]}

\* A record already stored or pending under its id is returned as it is.
AcceptStored(p, r) ==
  /\ pc[p] = "session"
  /\ r \in Twins(p, r)
  /\ accepted' = [accepted EXCEPT ![p] = @ \cup {r}]
  /\ UNCHANGED <<disk, holder, pc, created, index, unwritten, seen, told>>

AcceptNew(p, r) ==
  /\ pc[p] = "session"
  /\ Len(unwritten[p]) < MaxBatch
  /\ Twins(p, r) = {}
  /\ accepted' = [accepted EXCEPT ![p] = @ \cup {r}]
  /\ unwritten' = [unwritten EXCEPT ![p] = Append(@, r)]
  /\ UNCHANGED <<disk, holder, pc, created, index, seen, told>>

\* Same id, other digest: the batch is refused before anything is written.
RefuseConflict(p, r) ==
  /\ pc[p] = "session"
  /\ Twins(p, r) \notin {{}, {r}}
  /\ accepted' = [accepted EXCEPT ![p] = {}]
  /\ unwritten' = [unwritten EXCEPT ![p] = <<>>]
  /\ Goto(p, "leaving")
  /\ UNCHANGED <<disk, holder, created, index, seen, told>>

\* Nothing new: append_many returns the stored records without touching disk.
ReturnStored(p) ==
  /\ pc[p] = "session"
  /\ unwritten[p] = <<>> /\ accepted[p] # {}
  /\ acked' = acked \cup accepted[p]
  /\ accepted' = [accepted EXCEPT ![p] = {}]
  /\ UNCHANGED <<disk, holder, pc, created, index, unwritten, seen, confirmed>>

Write(p) ==
  /\ pc[p] = "session"
  /\ unwritten[p] # <<>>
  /\ Goto(p, "buffered")
  /\ UNCHANGED <<disk, holder, local, seen, told>>

\* One line of the payload reaches the page cache.  The handle is in append
\* mode: behind a tail that a late closer left, the line is glued to it.
FlushLine(p) ==
  /\ pc[p] = "buffered" /\ unwritten[p] # <<>>
  /\ file' = Append(file, IF tail = NoTail THEN Head(unwritten[p]) ELSE Garbage)
  /\ tail' = NoTail
  /\ unwritten' = [unwritten EXCEPT ![p] = Tail(@)]
  /\ Goto(p, IF Len(unwritten[p]) = 1 THEN "flushed" ELSE "buffered")
  /\ UNCHANGED <<entry, synced, diskTail, holder,
                 created, index, accepted, seen, told>>

SyncedEntry == IF FsyncFlushesEntry THEN "durable" ELSE entry

\* Mutant: the fsync is skipped.
Fsync_Skipped(p) ==
  /\ pc[p] = "flushed"
  /\ Goto(p, "synced")
  /\ UNCHANGED <<disk, holder, local, seen, told>>

Fsync(p) ==
  /\ pc[p] = "flushed"
  /\ synced' = Len(file) /\ diskTail' = tail /\ entry' = SyncedEntry
  /\ Goto(p, "synced")
  /\ UNCHANGED <<file, tail, holder, local, seen, told>>

\* _fsync_directory for a creator, then the index update and the return.
ReturnWritten(p) ==
  /\ pc[p] = "synced"
  /\ entry' = IF created[p] THEN "durable" ELSE entry
  /\ created' = [created EXCEPT ![p] = FALSE]
  /\ index' = [index EXCEPT ![p] = @ \cup accepted[p]]
  /\ accepted' = [accepted EXCEPT ![p] = {}]
  /\ acked' = acked \cup accepted[p]
  /\ confirmed' = confirmed \cup accepted[p]
  /\ Goto(p, "session")
  /\ UNCHANGED <<file, tail, synced, diskTail, holder, unwritten, seen>>

\* An exception leaves the session: a signal, or a failing fsync or flush.
\* What write() had buffered and flush() did not take stays in the handle.
Raise(p) ==
  /\ \/ pc[p] \in {"session", "flushed", "synced"}
     \/ pc[p] = "buffered" /\ FlushMayFail
  /\ unwritten' = [unwritten EXCEPT ![p] = IF pc[p] = "buffered" THEN @ ELSE <<>>]
  /\ accepted' = [accepted EXCEPT ![p] = {}]
  /\ Goto(p, "leaving")
  /\ UNCHANGED <<disk, holder, created, index, seen, told>>

--------------------------------------------------------------------------------
(* Leaving: the finally clause unlocks first and closes the handle next.   *)

Leave(p) ==
  /\ pc[p] = "session"
  /\ unwritten[p] = <<>> /\ accepted[p] = {}
  /\ Goto(p, "leaving")
  /\ UNCHANGED <<disk, holder, local, seen, told>>

Unlock(p) ==
  /\ pc[p] = "leaving"
  /\ holder' = Nobody
  /\ index' = [index EXCEPT ![p] = {}]
  /\ Goto(p, "closing")
  /\ UNCHANGED <<disk, created, accepted, unwritten, seen, told>>

\* close() flushes the leftover; a torn tail swallows its first line.
CloseHandle(p) ==
  /\ pc[p] = "closing"
  /\ IF unwritten[p] = <<>>
       THEN UNCHANGED <<file, tail>>
     ELSE IF tail = NoTail
       THEN file' = file \o unwritten[p] /\ UNCHANGED tail
       ELSE file' = Append(file, Garbage) \o Tail(unwritten[p]) /\ tail' = NoTail
  /\ unwritten' = [unwritten EXCEPT ![p] = <<>>]
  /\ created' = [created EXCEPT ![p] = FALSE]
  /\ Goto(p, "out")
  /\ UNCHANGED <<entry, synced, diskTail, holder, index, accepted, seen, told>>

--------------------------------------------------------------------------------
(* Readers and recovery.                                                   *)

\* load_results under the shared lock; it raises unless the log is loadable.
Load(p) ==
  /\ pc[p] = "out"
  /\ entry # "absent" /\ holder = Nobody /\ Loadable
  /\ seen' = [seen EXCEPT ![p] = Lines]
  /\ UNCHANGED <<disk, holder, pc, local, told>>

\* Mutant: the truncation starts one line too early.
Repair_LosesLine(p) ==
  /\ pc[p] = "out"
  /\ entry # "absent" /\ holder = Nobody /\ tail # NoTail
  /\ holder' = p
  /\ file' = IF tail # Torn THEN Append(file, tail)
             ELSE IF file = <<>> THEN file ELSE SubSeq(file, 1, Len(file) - 1)
  /\ tail' = NoTail
  /\ Goto(p, "repairing")
  /\ UNCHANGED <<entry, synced, diskTail, local, seen, told>>

\* recover_result_store_tail: complete a parseable tail, truncate another.
Repair(p) ==
  /\ pc[p] = "out"
  /\ entry # "absent" /\ holder = Nobody /\ tail # NoTail
  /\ holder' = p
  /\ file' = IF tail = Torn THEN file ELSE Append(file, tail)
  /\ tail' = NoTail
  /\ Goto(p, "repairing")
  /\ UNCHANGED <<entry, synced, diskTail, local, seen, told>>

RepairSync(p) ==
  /\ pc[p] = "repairing"
  /\ synced' = Len(file) /\ diskTail' = tail /\ entry' = SyncedEntry
  /\ holder' = Nobody
  /\ Goto(p, "out")
  /\ UNCHANGED <<file, tail, local, seen, told>>

--------------------------------------------------------------------------------
(* Failures.                                                               *)

Released(p) == IF holder = p THEN Nobody ELSE holder

\* The kernel drops the lock and the user-space buffer dies with the process;
\* a write in progress may leave a torn or a newline-less last line.
Kill(p) ==
  /\ pc[p] # "out"
  /\ holder' = Released(p)
  /\ pc' = [pc EXCEPT ![p] = "out"]
  /\ created' = [created EXCEPT ![p] = FALSE]
  /\ index' = [index EXCEPT ![p] = {}]
  /\ accepted' = [accepted EXCEPT ![p] = {}]
  /\ unwritten' = [unwritten EXCEPT ![p] = <<>>]
  /\ seen' = [seen EXCEPT ![p] = {}]
  /\ \/ UNCHANGED tail
     \/ /\ pc[p] \in {"buffered", "closing"} /\ unwritten[p] # <<>>
        /\ tail' \in {Torn} \cup (IF tail = NoTail THEN {Head(unwritten[p])} ELSE {})
  /\ UNCHANGED <<entry, file, synced, diskTail, told>>

\* What may follow line n on disk when the machine stops.
TornForms(last) == IF last = NoTail THEN {NoTail} ELSE
                   IF last \in Records THEN {Torn, last} ELSE {Torn}
TailsAfter(n) ==
  (IF n = synced THEN {diskTail} ELSE {NoTail}) \cup
  (IF n < Len(file) THEN TornForms(file[n + 1]) ELSE TornForms(tail))

\* Power fails: synced lines survive, and any prefix of the others may.
PowerLoss ==
  /\ entry # "absent"
  /\ \/ \E n \in synced..Len(file) :
          /\ entry' = "durable"
          /\ file' = SubSeq(file, 1, n)
          /\ synced' = n
          /\ tail' \in TailsAfter(n)
          /\ diskTail' = tail'
     \/ /\ entry = "cached"
        /\ entry' = "absent" /\ file' = <<>> /\ synced' = 0
        /\ tail' = NoTail /\ diskTail' = NoTail
  /\ holder' = Nobody
  /\ pc' = [p \in Procs |-> "out"]
  /\ created' = [p \in Procs |-> FALSE]
  /\ index' = [p \in Procs |-> {}]
  /\ accepted' = [p \in Procs |-> {}]
  /\ unwritten' = [p \in Procs |-> <<>>]
  /\ seen' = [p \in Procs |-> {}]
  /\ UNCHANGED told

--------------------------------------------------------------------------------

Step(p) ==
  \/ Probe(p) \/ OpenHandle(p) \/ LockAndLoad(p)
  \/ \E r \in Records : AcceptStored(p, r) \/ AcceptNew(p, r) \/ RefuseConflict(p, r)
  \/ ReturnStored(p) \/ Write(p) \/ FlushLine(p) \/ Fsync(p) \/ ReturnWritten(p)
  \/ Raise(p) \/ Leave(p) \/ Unlock(p) \/ CloseHandle(p)
  \/ Load(p) \/ Repair(p) \/ RepairSync(p)

Next == (\E p \in Procs : Step(p) \/ Kill(p)) \/ PowerLoss

Spec == Init /\ [][Next]_vars

--------------------------------------------------------------------------------
(* Properties.                                                             *)

\* Every variable keeps its type (the shape of the store and its sessions).
TypeOK ==
  /\ entry \in {"absent", "cached", "durable"}
  /\ file \in Seq(Records \cup {Garbage})
  /\ tail \in Records \cup {NoTail, Torn}
  /\ synced \in 0..Len(file)
  /\ diskTail \in Records \cup {NoTail, Torn}
  /\ holder \in Procs \cup {Nobody}
  /\ pc \in [Procs -> States]
  /\ created \in [Procs -> BOOLEAN]
  /\ index \in [Procs -> SUBSET (Records \cup {Garbage})]
  /\ accepted \in [Procs -> SUBSET Records]
  /\ unwritten \in [Procs -> Seq(Records)]
  /\ seen \in [Procs -> SUBSET (Records \cup {Garbage})]
  /\ acked \subseteq Records /\ confirmed \subseteq acked

Durable(r) == entry = "durable" /\ \E i \in 1..synced : file[i] = r

\* A record returned by an append_many that wrote something survives any
\* later kill, power loss and repair (flush, fsync, then return).
ConfirmedDurable == \A r \in confirmed : Durable(r)

\* The documented promise for every return of append_many, whether or not
\* it wrote ("flushes, and fsyncs before returning").  It fails: a record left
\* unsynced by a killed writer is returned as it was found.
AckedDurable == \A r \in acked : Durable(r)

\* The directory part of that promise: once an append was acknowledged, the
\* file's directory entry is durable.  It fails without FsyncFlushesEntry: the
\* opener whose probe found the file of a killed creator never syncs it.
AckedEntryDurable == acked # {} => entry = "durable"

\* Every result_id occurs once, so the log stays loadable but for its tail.
UniqueResultIds ==
  /\ \A i \in 1..Len(file) : file[i] \in Records
  /\ \A i, j \in 1..Len(file) : IdOf[file[i]] = IdOf[file[j]] => i = j

\* What a live process read from the store is still in it: no later writer,
\* reader or repair takes a complete line away.
ReadsStay == \A p \in Procs : seen[p] \subseteq Lines

\* An open session's index is the log: nobody else adds a line under it, so
\* its duplicate check is made against everything that is stored.
SessionIndexCurrent ==
  \A p \in Procs : pc[p] = "session" => index[p] = Lines

\* Only a power loss shortens or rewrites the complete lines.
Prefix(s, t) == Len(s) <= Len(t) /\ \A i \in 1..Len(s) : t[i] = s[i]
AppendOnly == [][PowerLoss \/ Prefix(file, file')]_vars

\* The store implements the abstract append-only log: its durable lines grow
\* without ever repeating an id, and confirmed records are among them.
Log == INSTANCE AcknowledgedLog WITH
         Record <- Records, Id <- IdOf,
         stored <- SubSeq(file, 1, synced), confirmedSet <- confirmed
ImplementsLog == Log!Spec

================================================================================
