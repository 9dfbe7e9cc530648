------------------------------ MODULE EvidenceLog ------------------------------
(***************************************************************************)
(* A companion evidence log (selectors, origins, selections, cell sets,    *)
(* matrices, metrics): one Runner appends a record once per semantic id,   *)
(* without a lock and without tail recovery; readers load the whole log.   *)
(*                                                                         *)
(* A record is an id, a body and an observation time; its digest covers    *)
(* all three, and a record that differs from the stored one only by its    *)
(* time resolves to the stored one.  The text of a line and its newline    *)
(* are two writes to the handle and may reach the file separately.         *)
(*                                                                         *)
(* SelectionProofs extends this module beside RollingSelection, whose      *)
(* Init, Next, Spec and vars keep those names.                             *)
(***************************************************************************)
EXTENDS Naturals, Sequences, SequencesExt

CONSTANTS
  Ids, Bodies, Observed,
  PowerMayFail,       \* the machine may stop, not only the process
  NewlineMayBeLost,   \* an interruption may fall between text and newline
  FsyncFlushesEntry,  \* fsync(file) also makes its directory entry durable
  Nothing, Torn, Garbage

ASSUME LogConstants ==
  /\ PowerMayFail \in BOOLEAN
  /\ NewlineMayBeLost \in BOOLEAN
  /\ FsyncFlushesEntry \in BOOLEAN

Record == [id : Ids, body : Bodies, at : Observed]

\* What a cut leaves is told from a record.
NoRecord == Nothing \notin Record /\ Torn \notin Record \cup {Nothing} /\ Garbage \notin Record
ASSUME CutsAreNoRecords == NoRecord

VARIABLES
  entry,     \* the directory entry: "absent", "cached" or "durable"
  file,      \* newline-terminated lines
  tail,      \* what follows the last newline
  synced,    \* how many lines are on disk
  diskTail,  \* what follows them on disk
  pc,        \* where _append_record_once is
  record,    \* the record it appends
  created,   \* it found no file
  acked,     \* records it returned since power-on, or after writing them
  written,   \* those it returned after writing them
  seen       \* records some reader got since power-on

disk == <<entry, file, tail, synced, diskTail>>
told == <<acked, written, seen>>
logVars == <<disk, pc, record, created, told>>

LogInit ==
  /\ entry = "absent" /\ file = <<>> /\ tail = Nothing
  /\ synced = 0 /\ diskTail = Nothing
  /\ pc = "idle" /\ record = Nothing /\ created = FALSE
  /\ acked = {} /\ written = {} /\ seen = {}

\* load_jsonl_records splits at newlines and takes a last line without one.
Lines == IF tail = Nothing THEN file ELSE Append(file, tail)
IdsRepeat == \E i, j \in DOMAIN Lines : i # j /\ Lines[i].id = Lines[j].id

\* It raises at a line that is no record; the append scan, at a repeated id.
Readable == Range(Lines) \subseteq Record /\ ~IdsRepeat
Stored(id) == {r \in Range(Lines) : r.id = id}

\* Same digest, or equal after the observation time is taken from the stored.
Matches(old, new) == [new EXCEPT !.at = old.at] = old

--------------------------------------------------------------------------------

\* Mutant: the caller is given its own record, not the stored one.
ReturnStored_Own(r) ==
  /\ pc = "idle" /\ Readable
  /\ \E old \in Stored(r.id) : Matches(old, r) /\ acked' = acked \cup {r}
  /\ UNCHANGED <<disk, pc, record, created, written, seen>>

\* The scan finds the record: the stored one is returned, nothing is written.
ReturnStored(r) ==
  /\ pc = "idle" /\ Readable
  /\ \E old \in Stored(r.id) : Matches(old, r) /\ acked' = acked \cup {old}
  /\ UNCHANGED <<disk, pc, record, created, written, seen>>

\* The scan finds no record of this id: the file is opened for appending.
\* A conflicting record or an unreadable log raises before this.
Start(r) ==
  /\ pc = "idle" /\ Readable
  /\ Stored(r.id) = {}
  /\ record' = r
  /\ created' = (entry = "absent")
  /\ entry' = IF entry = "absent" THEN "cached" ELSE entry
  /\ pc' = "opened"
  /\ UNCHANGED <<file, tail, synced, diskTail, told>>

\* Mutant: what follows the last newline is overwritten.
WriteText_DropsTail ==
  /\ pc = "opened"
  /\ tail' = record
  /\ pc' = "unterminated"
  /\ UNCHANGED <<entry, file, synced, diskTail, record, created, told>>

\* The text reaches the file, behind whatever follows the last newline.
WriteText ==
  /\ pc = "opened"
  /\ tail' = IF tail = Nothing THEN record ELSE Torn
  /\ pc' = "unterminated"
  /\ UNCHANGED <<entry, file, synced, diskTail, record, created, told>>

WriteNewline ==
  /\ pc = "unterminated"
  /\ file' = Append(file, IF tail = Torn THEN Garbage ELSE tail)
  /\ tail' = Nothing
  /\ pc' = "flushed"
  /\ UNCHANGED <<entry, synced, diskTail, record, created, told>>

\* Mutant: no fsync before the return.
Fsync_Skipped ==
  /\ pc = "flushed"
  /\ pc' = "synced"
  /\ UNCHANGED <<disk, record, created, told>>

Fsync ==
  /\ pc = "flushed"
  /\ synced' = Len(file) /\ diskTail' = tail
  /\ entry' = IF FsyncFlushesEntry THEN "durable" ELSE entry
  /\ pc' = "synced"
  /\ UNCHANGED <<file, tail, record, created, told>>

\* _fsync_directory for a creator, and the return.
ReturnWritten ==
  /\ pc = "synced"
  /\ entry' = IF created THEN "durable" ELSE entry
  /\ acked' = acked \cup {record} /\ written' = written \cup {record}
  /\ pc' = "idle" /\ record' = Nothing /\ created' = FALSE
  /\ UNCHANGED <<file, tail, synced, diskTail, seen>>

\* A reader of the log.
Load ==
  /\ entry # "absent" /\ Readable
  /\ seen' = seen \cup Range(Lines)
  /\ UNCHANGED <<disk, pc, record, created, acked, written>>

--------------------------------------------------------------------------------
(* A kill or an exception ends the call; a power loss also cuts the file.  *)

Stop == pc' = "idle" /\ record' = Nothing /\ created' = FALSE

Abort ==
  /\ pc # "idle" /\ Stop
  /\ \/ pc # "unterminated" /\ UNCHANGED tail
     \/ pc = "unterminated" /\ tail' = Torn
     \/ pc = "unterminated" /\ NewlineMayBeLost /\ UNCHANGED tail
  /\ UNCHANGED <<entry, file, synced, diskTail, told>>

Cut(line) ==
  IF line = Nothing THEN {Nothing}
  ELSE {Torn} \cup (IF NewlineMayBeLost THEN {line} \cap Record ELSE {})

TailsAfter(n) ==
  {IF n = synced THEN diskTail ELSE Nothing} \cup
  Cut(IF n < Len(file) THEN file[n + 1] ELSE tail)

PowerLoss ==
  /\ PowerMayFail /\ entry # "absent" /\ Stop
  /\ \/ \E n \in synced..Len(file) :
          /\ entry' = "durable"
          /\ file' = SubSeq(file, 1, n) /\ synced' = n
          /\ tail' \in TailsAfter(n) /\ diskTail' = tail'
     \/ /\ entry = "cached"
        /\ entry' = "absent" /\ file' = <<>> /\ synced' = 0
        /\ tail' = Nothing /\ diskTail' = Nothing
  /\ acked' = written /\ seen' = {}
  /\ UNCHANGED written

--------------------------------------------------------------------------------

LogNext ==
  \/ \E r \in Record : ReturnStored(r) \/ Start(r)
  \/ WriteText \/ WriteNewline \/ Fsync \/ ReturnWritten
  \/ Load \/ Abort \/ PowerLoss

LogSpec == LogInit /\ [][LogNext]_logVars

--------------------------------------------------------------------------------
(* Properties.                                                             *)

\* Types of the log and of the running append.
TypeOK ==
  /\ entry \in {"absent", "cached", "durable"}
  /\ file \in Seq(Record \cup {Garbage})
  /\ tail \in Record \cup {Nothing, Torn}
  /\ synced \in 0..Len(file)
  /\ diskTail \in Record \cup {Nothing, Torn}
  /\ pc \in {"idle", "opened", "unterminated", "flushed", "synced"}
  /\ record \in Record \cup {Nothing}
  /\ created \in BOOLEAN
  /\ acked \subseteq Record /\ written \subseteq acked /\ seen \subseteq Record

Durable(r) == entry = "durable" /\ \E i \in 1..synced : file[i] = r

\* A record the append returned after writing it survives every later
\* interruption and power loss, as long as the log can be read at all.
WrittenDurable == Readable => \A r \in written : Durable(r)

\* The documented promise, for every record an append returned: a resumed
\* operation that reuses the first record relies on it just the same.  It
\* fails, like its counterpart in ResultStore.
AckedDurable == \A r \in acked : Durable(r)

\* All callers that append under one semantic id are given the same record,
\* the first observation, whoever is interrupted where.
ReturnsAgree == \A r, s \in acked : r.id = s.id => r = s

\* The log fails closed: whenever it can be read, every record it returned or
\* showed is read; none is lost without the load raising.
NeverSilentlyGone == Readable => acked \cup seen \subseteq Range(Lines)

\* Every record that an append wrote and returned can be read back.
WrittenReadable == written \subseteq Range(Lines)

================================================================================
