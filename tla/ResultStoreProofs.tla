--------------------------- MODULE ResultStoreProofs ---------------------------
(***************************************************************************)
(* Theorems about ResultStore, for every set of processes and records.     *)
(***************************************************************************)
EXTENDS ResultStore, SequenceTheorems, TLAPS

--------------------------------------------------------------------------------
(* Facts about sequences that several steps need.                          *)

\* Appending keeps every line where it was and adds one at the end.
LEMMA AppendFacts ==
  ASSUME NEW S, NEW s \in Seq(S), NEW e \in S
  PROVE  /\ Append(s, e) \in Seq(S)
         /\ Len(Append(s, e)) = Len(s) + 1
         /\ \A i \in 1..Len(s) : Append(s, e)[i] = s[i]
         /\ Append(s, e)[Len(s) + 1] = e
  BY SMT

\* Concatenation keeps every line of its first operand where it was.
LEMMA CatFacts ==
  ASSUME NEW S, NEW s \in Seq(S), NEW t \in Seq(S)
  PROVE  /\ s \o t \in Seq(S)
         /\ Len(s \o t) = Len(s) + Len(t)
         /\ \A i \in 1..Len(s) : (s \o t)[i] = s[i]
  BY ConcatProperties

\* A prefix is a sequence with the first lines of the whole.
LEMMA PrefixFacts ==
  ASSUME NEW S, NEW s \in Seq(S), NEW n \in 0..Len(s)
  PROVE  /\ SubSeq(s, 1, n) \in Seq(S)
         /\ Len(SubSeq(s, 1, n)) = n
         /\ \A i \in 1..n : SubSeq(s, 1, n)[i] = s[i]
  BY SubSeqProperties

\* The tail of a buffer holds the buffer's lines but the first.
LEMMA TailFacts ==
  ASSUME NEW S, NEW s \in Seq(S), s # <<>>
  PROVE  /\ Head(s) \in S /\ Tail(s) \in Seq(S)
         /\ Len(Tail(s)) = Len(s) - 1
         /\ \A i \in 1..Len(Tail(s)) : Tail(s)[i] = s[i + 1]
         /\ Head(s) = s[1] /\ Len(s) \in Nat \ {0}
  BY HeadTailProperties

\* A buffer of one line is empty once that line is taken.
LEMMA LastOne ==
  ASSUME NEW S, NEW s \in Seq(S), Len(s) = 1
  PROVE  Tail(s) = <<>>
<1>1. s # <<>>
  BY EmptySeq
<1>2. Tail(s) \in Seq(S) /\ Len(Tail(s)) = 0
  BY <1>1, TailFacts
<1> QED
  BY <1>2, EmptySeq

\* The lines of a sequence.
Elems(s) == {s[i] : i \in 1..Len(s)}

\* Appending adds one line to them.
LEMMA ElemsAppend ==
  ASSUME NEW S, NEW s \in Seq(S), NEW e \in S
  PROVE  Elems(Append(s, e)) = Elems(s) \cup {e}
<1>1. Len(s) \in Nat /\ Len(Append(s, e)) = Len(s) + 1
  BY AppendFacts
<1>2. 1..(Len(s) + 1) = (1..Len(s)) \cup {Len(s) + 1}
  BY <1>1
<1> QED
  BY <1>1, <1>2, AppendFacts DEF Elems

\* Taking the tail takes the first line away.
LEMMA ElemsTail ==
  ASSUME NEW S, NEW s \in Seq(S), s # <<>>
  PROVE  Elems(s) = {Head(s)} \cup Elems(Tail(s))
<1>1. Elems(s) \subseteq {Head(s)} \cup Elems(Tail(s))
  <2> SUFFICES ASSUME NEW i \in 1..Len(s), i # 1
               PROVE  s[i] \in Elems(Tail(s))
    BY TailFacts DEF Elems
  <2>1. i - 1 \in 1..Len(Tail(s)) /\ Tail(s)[i - 1] = s[i]
    BY TailFacts
  <2> QED
    BY <2>1 DEF Elems
<1>2. Elems(Tail(s)) \subseteq Elems(s)
  <2> SUFFICES ASSUME NEW i \in 1..Len(Tail(s))
               PROVE  Tail(s)[i] \in Elems(s)
    BY DEF Elems
  <2>1. i + 1 \in 1..Len(s) /\ Tail(s)[i] = s[i + 1]
    BY TailFacts
  <2> QED
    BY <2>1 DEF Elems
<1>3. Head(s) \in Elems(s)
  <2>1. 1 \in 1..Len(s) /\ Head(s) = s[1]
    BY TailFacts
  <2> QED
    BY <2>1 DEF Elems
<1> QED
  BY <1>1, <1>2, <1>3

--------------------------------------------------------------------------------
(* Type correctness.                                                       *)

Line == Records \cup {Garbage}
TailByte == Records \cup {NoTail, Torn}

\* Whatever the machine leaves behind the durable lines is a tail.
LEMMA TailsAfterType ==
  ASSUME TypeOK, NEW n \in synced..Len(file)
  PROVE  TailsAfter(n) \subseteq TailByte
<1>1. \A l \in Line \cup TailByte : TornForms(l) \subseteq TailByte
  BY DEF TornForms, Line, TailByte
<1>2. n \in Nat /\ Len(file) \in Nat /\ synced \in Nat
  BY DEF TypeOK
<1>3. ASSUME n < Len(file) PROVE file[n + 1] \in Line
  BY <1>2, <1>3 DEF TypeOK, Line
<1> QED
  BY <1>1, <1>2, <1>3 DEF TailsAfter, TypeOK, Line, TailByte

\* The initial state is well typed.
LEMMA TypeInit == Init => TypeOK
  BY StoreConstants DEF Init, TypeOK, States

\* Every step of every process, and every failure, keeps the types.
LEMMA TypeNext == TypeOK /\ [Next]_vars => TypeOK'
<1> SUFFICES ASSUME TypeOK, [Next]_vars PROVE TypeOK'
  OBVIOUS
<1> USE StoreConstants DEF TypeOK, States, disk, local, told, Goto
<1>lines. Lines \subseteq Line
  BY DEF Lines, Line
<1>1. CASE UNCHANGED vars
  BY <1>1 DEF vars
<1>2. ASSUME NEW p \in Procs, Step(p) PROVE TypeOK'
  <2>1. CASE Probe(p)
    BY <2>1 DEF Probe
  <2>2. CASE OpenHandle(p)
    BY <2>2 DEF OpenHandle
  <2>3. CASE LockAndLoad(p)
    BY <2>3, <1>lines DEF LockAndLoad, Line
  <2>4. ASSUME NEW r \in Records, AcceptStored(p, r) PROVE TypeOK'
    BY <2>4 DEF AcceptStored
  <2>5. ASSUME NEW r \in Records, AcceptNew(p, r) PROVE TypeOK'
    BY <2>5, AppendFacts DEF AcceptNew
  <2>6. ASSUME NEW r \in Records, RefuseConflict(p, r) PROVE TypeOK'
    BY <2>6 DEF RefuseConflict
  <2>7. CASE ReturnStored(p)
    BY <2>7 DEF ReturnStored
  <2>8. CASE Write(p)
    BY <2>8 DEF Write
  <2>9. CASE FlushLine(p)
    <3> DEFINE line == IF tail = NoTail THEN Head(unwritten[p]) ELSE Garbage
    <3>1. line \in Line /\ file \in Seq(Line)
      BY <2>9 DEF FlushLine, Line
    <3>2. file' = Append(file, line)
      BY <2>9 DEF FlushLine
    <3>3. /\ file' \in Seq(Line) /\ Len(file) \in Nat
          /\ Len(file') = Len(file) + 1
      BY <3>1, <3>2, AppendFacts
    <3> QED
      BY <2>9, <3>3 DEF FlushLine, Line
  <2>10. CASE Fsync(p)
    BY <2>10 DEF Fsync, SyncedEntry
  <2>11. CASE ReturnWritten(p)
    BY <2>11 DEF ReturnWritten
  <2>12. CASE Raise(p)
    BY <2>12 DEF Raise
  <2>13. CASE Leave(p)
    BY <2>13 DEF Leave
  <2>14. CASE Unlock(p)
    BY <2>14 DEF Unlock
  <2>15. CASE CloseHandle(p)
    <3>1. file' \in Seq(Line) /\ Len(file') \in Nat /\ Len(file) <= Len(file')
      <4>1. CASE unwritten[p] = <<>>
        BY <4>1, <2>15 DEF CloseHandle, Line
      <4>2. CASE unwritten[p] # <<>> /\ tail = NoTail
        <5>1. file \in Seq(Line) /\ unwritten[p] \in Seq(Line)
          BY DEF Line
        <5>2. file' = file \o unwritten[p]
          BY <4>2, <2>15 DEF CloseHandle
        <5> QED
          BY <5>1, <5>2, CatFacts
      <4>3. CASE unwritten[p] # <<>> /\ tail # NoTail
        <5>1. /\ Append(file, Garbage) \in Seq(Line)
              /\ Len(Append(file, Garbage)) = Len(file) + 1
              /\ Tail(unwritten[p]) \in Seq(Line)
          BY <4>3 DEF Line
        <5>2. file' = Append(file, Garbage) \o Tail(unwritten[p])
          BY <4>3, <2>15 DEF CloseHandle
        <5> QED
          BY <5>1, <5>2, CatFacts
      <4> QED
        BY <4>1, <4>2, <4>3
    <3>2. tail' \in TailByte
      BY <2>15 DEF CloseHandle, TailByte
    <3> QED
      BY <3>1, <3>2, <2>15 DEF CloseHandle, Line, TailByte
  <2>16. CASE Load(p)
    BY <2>16, <1>lines DEF Load, Line
  <2>17. CASE Repair(p)
    BY <2>17 DEF Repair
  <2>18. CASE RepairSync(p)
    BY <2>18 DEF RepairSync, SyncedEntry
  <2> QED
    BY <1>2, <2>1, <2>2, <2>3, <2>4, <2>5, <2>6, <2>7, <2>8, <2>9, <2>10,
       <2>11, <2>12, <2>13, <2>14, <2>15, <2>16, <2>17, <2>18 DEF Step
<1>3. ASSUME NEW p \in Procs, Kill(p) PROVE TypeOK'
  BY <1>3 DEF Kill, Released
<1>4. CASE PowerLoss
  <2>1. CASE entry' = "absent"
    BY <1>4, <2>1 DEF PowerLoss
  <2>2. CASE entry' # "absent"
    <3>1. PICK n \in synced..Len(file) :
             /\ entry' = "durable" /\ file' = SubSeq(file, 1, n) /\ synced' = n
             /\ tail' \in TailsAfter(n) /\ diskTail' = tail'
      BY <1>4, <2>2 DEF PowerLoss
    <3>2. n \in 0..Len(file)
      OBVIOUS
    <3>3. file' \in Seq(Line) /\ Len(file') = n
      BY <3>1, <3>2, PrefixFacts DEF Line
    <3>4. tail' \in TailByte
      BY <3>1, TailsAfterType
    <3> QED
      BY <1>4, <3>1, <3>2, <3>3, <3>4 DEF PowerLoss, Line, TailByte
  <2> QED
    BY <2>1, <2>2
<1> QED
  BY <1>1, <1>2, <1>3, <1>4 DEF Next

\* Type correctness of the store, for every set of processes and records.
THEOREM TypeInvariant == Spec => []TypeOK
<1>1. Init => TypeOK
  BY TypeInit
<1>2. TypeOK /\ [Next]_vars => TypeOK'
  BY TypeNext
<1> QED
  BY <1>1, <1>2, PTL DEF Spec

--------------------------------------------------------------------------------
(* Append-only: no process step shortens or rewrites the complete lines.   *)

\* Appending one line, several lines, or none extends the log.
LEMMA Extension ==
  ASSUME NEW S, NEW s \in Seq(S)
  PROVE  /\ Prefix(s, s)
         /\ \A e \in S : Prefix(s, Append(s, e))
         /\ \A t \in Seq(S) : Prefix(s, s \o t)
<1>1. Prefix(s, s)
  BY DEF Prefix
<1>2. \A e \in S : Prefix(s, Append(s, e))
  BY AppendFacts DEF Prefix
<1>3. \A t \in Seq(S) : Prefix(s, s \o t)
  BY CatFacts DEF Prefix
<1> QED
  BY <1>1, <1>2, <1>3

\* Extending twice extends.
LEMMA PrefixTransitive ==
  ASSUME NEW S, NEW s \in Seq(S), NEW t \in Seq(S), NEW u \in Seq(S),
         Prefix(s, t), Prefix(t, u)
  PROVE  Prefix(s, u)
  BY DEF Prefix

\* One step of a process extends the log.
LEMMA StepExtends ==
  ASSUME TypeOK, NEW p \in Procs, Step(p)
  PROVE  Prefix(file, file')
<1> USE DEF disk
<1>file. file \in Seq(Line) /\ unwritten[p] \in Seq(Line)
  BY DEF TypeOK, Line
<1>same. Prefix(file, file)
  BY <1>file, Extension
<1>1. CASE FlushLine(p)
  <2>1. (IF tail = NoTail THEN Head(unwritten[p]) ELSE Garbage) \in Line
    BY <1>1, <1>file DEF FlushLine, Line
  <2> QED
    BY <1>1, <2>1, <1>file, Extension DEF FlushLine
<1>2. CASE CloseHandle(p)
  <2>1. CASE unwritten[p] = <<>>
    BY <1>2, <2>1, <1>same DEF CloseHandle
  <2>2. CASE unwritten[p] # <<>> /\ tail = NoTail
    BY <1>2, <2>2, <1>file, Extension DEF CloseHandle
  <2>3. CASE unwritten[p] # <<>> /\ tail # NoTail
    <3>1. /\ Append(file, Garbage) \in Seq(Line) /\ Tail(unwritten[p]) \in Seq(Line)
          /\ Prefix(file, Append(file, Garbage))
      BY <2>3, <1>file, Extension DEF Line
    <3>2. file' = Append(file, Garbage) \o Tail(unwritten[p])
      BY <1>2, <2>3 DEF CloseHandle
    <3>3. Prefix(Append(file, Garbage), file') /\ file' \in Seq(Line)
      BY <3>1, <3>2, Extension, CatFacts
    <3> QED
      BY <1>file, <3>1, <3>3, PrefixTransitive
  <2> QED
    BY <2>1, <2>2, <2>3
<1>3. CASE Repair(p)
  <2>1. tail # Torn => tail \in Line
    BY <1>3 DEF Repair, TypeOK, Line
  <2> QED
    BY <1>3, <2>1, <1>file, <1>same, Extension DEF Repair
<1>4. ASSUME ~FlushLine(p), ~CloseHandle(p), ~Repair(p)
      PROVE  UNCHANGED file
  BY <1>4 DEF Step, Probe, OpenHandle, LockAndLoad, AcceptStored, AcceptNew,
       RefuseConflict, ReturnStored, Write, Fsync, ReturnWritten, Raise, Leave,
       Unlock, Load, RepairSync
<1> QED
  BY <1>1, <1>2, <1>3, <1>4, <1>same

\* Only a power loss shortens or rewrites the complete lines of the log,
\* whatever the processes do, fail at, or are killed in.
THEOREM LogIsAppendOnly == Spec => AppendOnly
<1>1. TypeOK /\ [Next]_vars => [PowerLoss \/ Prefix(file, file')]_vars
  <2> SUFFICES ASSUME TypeOK, [Next]_vars, ~PowerLoss, ~UNCHANGED vars
               PROVE  Prefix(file, file')
    OBVIOUS
  <2>1. PICK p \in Procs : Step(p) \/ Kill(p)
    BY DEF Next
  <2>2. CASE Step(p)
    BY <2>2, StepExtends
  <2>3. CASE Kill(p)
    <3>1. UNCHANGED file /\ file \in Seq(Line)
      BY <2>3 DEF Kill, TypeOK, Line
    <3> QED
      BY <3>1, Extension
  <2> QED
    BY <2>1, <2>2, <2>3
<1> QED
  BY <1>1, TypeInvariant, PTL DEF Spec, AppendOnly

--------------------------------------------------------------------------------
(* Durability of confirmed records.                                        *)

SyncedLines == {file[i] : i \in 1..synced}
Buffer(p)   == Elems(unwritten[p])
Open        == {"session", "buffered", "flushed", "synced"}

\* Every record an append_many is about to return is in the log or still in
\* the buffer, in the log after the flush, and on disk after the fsync.
Tracked(p) ==
  /\ pc[p] \in Open => /\ index[p] \subseteq Lines
                       /\ accepted[p] \subseteq Lines \cup Buffer(p)
  /\ pc[p] \in {"flushed", "synced"} => unwritten[p] = <<>>
  /\ pc[p] = "synced" => accepted[p] \subseteq SyncedLines
  /\ pc[p] \notin Open => accepted[p] = {}

\* The strengthening of ConfirmedDurable: Tracked follows a record from the
\* batch loop to the return, and what is synced has a durable entry.
DurableInv ==
  /\ TypeOK
  /\ synced > 0 => entry = "durable"
  /\ \A p \in Procs : Tracked(p)
  /\ confirmed \subseteq SyncedLines

\* Growing the log and its synced part loses no line of either.
LEMMA GrowthKeepsLines ==
  ASSUME TypeOK, TypeOK', Prefix(file, file'), synced <= synced'
  PROVE  Lines \subseteq Lines' /\ SyncedLines \subseteq SyncedLines'
<1>1. /\ Len(file) \in Nat /\ Len(file') \in Nat /\ Len(file) <= Len(file')
      /\ synced \in 0..Len(file) /\ synced' \in 0..Len(file')
      /\ \A i \in 1..Len(file) : file'[i] = file[i]
  BY DEF Prefix, TypeOK
<1>2. ASSUME NEW i \in 1..Len(file) PROVE file[i] \in Lines'
  <2>1. i \in 1..Len(file') /\ file'[i] = file[i]
    BY <1>1
  <2> QED
    BY <2>1 DEF Lines
<1>3. ASSUME NEW i \in 1..synced PROVE file[i] \in SyncedLines'
  <2>1. i \in 1..synced' /\ file'[i] = file[i]
    BY <1>1
  <2> QED
    BY <2>1 DEF SyncedLines
<1> QED
  BY <1>2, <1>3 DEF Lines, SyncedLines

\* A process that does not move keeps what is tracked for it while the
\* others extend the log.
LEMMA OthersKeepTracked ==
  ASSUME NEW q, Tracked(q), Lines \subseteq Lines', SyncedLines \subseteq SyncedLines',
         pc'[q] = pc[q], index'[q] = index[q], accepted'[q] = accepted[q],
         unwritten'[q] = unwritten[q]
  PROVE  Tracked(q)'
<1>1. Buffer(q)' = Buffer(q)
  BY DEF Buffer
<1> QED
  BY <1>1 DEF Tracked, Open

\* A step of one process leaves the locals of every other one alone.
LEMMA StepIsLocal ==
  ASSUME TypeOK, NEW p \in Procs, Step(p) \/ Kill(p), NEW q \in Procs, q # p
  PROVE  /\ pc'[q] = pc[q] /\ index'[q] = index[q]
         /\ accepted'[q] = accepted[q] /\ unwritten'[q] = unwritten[q]
<1> USE DEF TypeOK, Goto, local
<1>1. ASSUME NEW r \in Records,
             AcceptStored(p, r) \/ AcceptNew(p, r) \/ RefuseConflict(p, r)
      PROVE  /\ pc'[q] = pc[q] /\ index'[q] = index[q]
             /\ accepted'[q] = accepted[q] /\ unwritten'[q] = unwritten[q]
  BY <1>1 DEF AcceptStored, AcceptNew, RefuseConflict
<1>2. CASE Probe(p) \/ OpenHandle(p) \/ LockAndLoad(p)
  BY <1>2 DEF Probe, OpenHandle, LockAndLoad
<1>3. CASE ReturnStored(p) \/ Write(p) \/ FlushLine(p)
  BY <1>3 DEF ReturnStored, Write, FlushLine
<1>4. CASE Fsync(p) \/ ReturnWritten(p) \/ Raise(p)
  BY <1>4 DEF Fsync, ReturnWritten, Raise
<1>5. CASE Leave(p) \/ Unlock(p) \/ CloseHandle(p)
  BY <1>5 DEF Leave, Unlock, CloseHandle
<1>6. CASE Load(p) \/ Repair(p) \/ RepairSync(p)
  BY <1>6 DEF Load, Repair, RepairSync
<1>7. CASE Kill(p)
  BY <1>7 DEF Kill
<1> QED
  BY <1>1, <1>2, <1>3, <1>4, <1>5, <1>6, <1>7 DEF Step

\* The number of synced lines never falls, but in a power loss.
LEMMA SyncedGrows ==
  ASSUME TypeOK, NEW p \in Procs, Step(p) \/ Kill(p)
  PROVE  synced <= synced' /\ (synced' = synced \/ synced' = Len(file))
<1> USE DEF TypeOK, disk
<1>1. CASE Fsync(p)
  BY <1>1 DEF Fsync
<1>2. CASE RepairSync(p)
  BY <1>2 DEF RepairSync
<1>3. ASSUME ~Fsync(p), ~RepairSync(p)
      PROVE  UNCHANGED synced
  BY <1>3 DEF Step, Probe, OpenHandle, LockAndLoad, AcceptStored, AcceptNew,
       RefuseConflict, ReturnStored, Write, FlushLine, ReturnWritten, Raise,
       Leave, Unlock, CloseHandle, Load, Repair, Kill
<1> QED
  BY <1>1, <1>2, <1>3

\* With a file system that persists the entry of an fsynced file, whatever a
\* process does, synced lines keep a durable entry.
LEMMA StepKeepsEntry ==
  ASSUME TypeOK, FsyncFlushesEntry, synced > 0 => entry = "durable",
         NEW p \in Procs, Step(p) \/ Kill(p)
  PROVE  synced' > 0 => entry' = "durable"
<1> USE DEF TypeOK, disk
<1>1. CASE Fsync(p)
  BY <1>1 DEF Fsync, SyncedEntry
<1>2. CASE RepairSync(p)
  BY <1>2 DEF RepairSync, SyncedEntry
<1>3. CASE OpenHandle(p)
  BY <1>3 DEF OpenHandle
<1>4. CASE ReturnWritten(p)
  BY <1>4 DEF ReturnWritten
<1>5. ASSUME ~Fsync(p), ~RepairSync(p), ~OpenHandle(p), ~ReturnWritten(p)
      PROVE  UNCHANGED <<synced, entry>>
  BY <1>5 DEF Step, Probe, LockAndLoad, AcceptStored, AcceptNew,
       RefuseConflict, ReturnStored, Write, FlushLine, Raise,
       Leave, Unlock, CloseHandle, Load, Repair, Kill
<1> QED
  BY <1>1, <1>2, <1>3, <1>4, <1>5

\* The step of a process keeps what is tracked for that process, as long as
\* nothing it flushes is glued to a tail.
LEMMA StepKeepsTracked ==
  ASSUME TypeOK, TypeOK', NEW p \in Procs, Tracked(p), Step(p) \/ Kill(p),
         pc[p] = "buffered" => tail = NoTail,
         Lines \subseteq Lines', SyncedLines \subseteq SyncedLines'
  PROVE  Tracked(p)'
<1> USE DEF Goto, local, disk, Tracked, Open
<1>type. /\ pc \in [Procs -> States] /\ index \in [Procs -> SUBSET Line]
         /\ accepted \in [Procs -> SUBSET Records]
         /\ unwritten \in [Procs -> Seq(Records)] /\ file \in Seq(Line)
  BY DEF TypeOK, Line
<1>1. ASSUME NEW r \in Records, AcceptStored(p, r)
      PROVE  Tracked(p)'
  <2>1. /\ pc[p] = "session" /\ UNCHANGED <<pc, index, unwritten, file>>
        /\ accepted'[p] = accepted[p] \cup {r} /\ r \in index[p] \cup accepted[p]
    BY <1>1, <1>type DEF AcceptStored, Twins
  <2>2. Buffer(p)' = Buffer(p)
    BY <2>1 DEF Buffer
  <2> QED
    BY <2>1, <2>2
<1>2. ASSUME NEW r \in Records, AcceptNew(p, r)
      PROVE  Tracked(p)'
  <2>1. unwritten'[p] = Append(unwritten[p], r) /\ unwritten[p] \in Seq(Records)
    BY <1>2, <1>type DEF AcceptNew
  <2>2. Buffer(p)' = Buffer(p) \cup {r}
    BY <2>1, ElemsAppend DEF Buffer
  <2>3. /\ pc[p] = "session" /\ pc'[p] = "session" /\ index'[p] = index[p]
        /\ accepted'[p] = accepted[p] \cup {r}
    BY <1>2, <1>type DEF AcceptNew
  <2> QED
    BY <2>2, <2>3
<1>3. ASSUME NEW r \in Records, RefuseConflict(p, r)
      PROVE  Tracked(p)'
  BY <1>3, <1>type DEF RefuseConflict
<1>4. CASE Probe(p) \/ OpenHandle(p)
  BY <1>4, <1>type DEF Probe, OpenHandle
<1>5. CASE LockAndLoad(p)
  <2>1. accepted'[p] = {} /\ index'[p] \subseteq Lines
    BY <1>5, <1>type DEF LockAndLoad
  <2>2. pc'[p] \in {"session", "leaving"}
    BY <1>5, <1>type DEF LockAndLoad
  <2> QED
    BY <2>1, <2>2
<1>6. CASE ReturnStored(p)
  BY <1>6, <1>type DEF ReturnStored
<1>7. CASE Write(p)
  <2>1. Buffer(p)' = Buffer(p)
    BY <1>7, <1>type DEF Write, Buffer
  <2> QED
    BY <1>7, <2>1 DEF Write
<1>8. CASE FlushLine(p)
  <2> DEFINE buf == unwritten[p]
  <2>1. /\ buf \in Seq(Records) /\ buf # <<>>
        /\ file' = Append(file, Head(buf)) /\ unwritten'[p] = Tail(buf)
        /\ index'[p] = index[p] /\ accepted'[p] = accepted[p]
        /\ pc'[p] = IF Len(buf) = 1 THEN "flushed" ELSE "buffered"
    BY <1>8, <1>type DEF FlushLine
  <2>2. Head(buf) \in Line
    BY <2>1 DEF Line
  <2>3. Lines' = Lines \cup {Head(buf)}
    <3>1. Lines = Elems(file) /\ Lines' = Elems(file')
      BY DEF Lines, Elems
    <3> QED
      BY <2>1, <2>2, <3>1, <1>type, ElemsAppend
  <2>4. Buffer(p) = {Head(buf)} \cup Buffer(p)'
    BY <2>1, ElemsTail DEF Buffer
  <2>5. accepted[p] \subseteq Lines \cup Buffer(p) /\ index[p] \subseteq Lines
    BY <1>8, <1>type DEF FlushLine
  <2>6. Len(buf) = 1 => Tail(buf) = <<>>
    BY <2>1, LastOne
  <2> QED
    BY <2>1, <2>3, <2>4, <2>5, <2>6
<1>9. CASE Fsync(p)
  <2>1. /\ pc'[p] = "synced" /\ UNCHANGED <<file, unwritten, index, accepted>>
        /\ synced' = Len(file) /\ unwritten[p] = <<>>
    BY <1>9, <1>type DEF Fsync
  <2>2. Buffer(p) = {} /\ Buffer(p)' = {}
    BY <2>1 DEF Buffer, Elems
  <2>3. SyncedLines' = Lines /\ Lines' = Lines
    BY <2>1 DEF SyncedLines, Lines
  <2>4. index[p] \subseteq Lines /\ accepted[p] \subseteq Lines
    BY <1>9, <2>2 DEF Fsync
  <2> QED
    BY <2>1, <2>2, <2>3, <2>4
<1>10. CASE ReturnWritten(p)
  <2>1. /\ pc[p] = "synced" /\ pc'[p] = "session" /\ UNCHANGED <<file, synced, unwritten>>
        /\ index'[p] = index[p] \cup accepted[p] /\ accepted'[p] = {}
    BY <1>10, <1>type DEF ReturnWritten
  <2>2. accepted[p] \subseteq Lines /\ index[p] \subseteq Lines
    <3>1. unwritten[p] = <<>>
      BY <2>1
    <3>2. Buffer(p) = {}
      BY <3>1 DEF Buffer, Elems
    <3> QED
      BY <2>1, <3>2
  <2> QED
    BY <2>1, <2>2
<1>11. CASE Raise(p) \/ Leave(p) \/ Unlock(p) \/ CloseHandle(p)
  <2>1. accepted'[p] = {} /\ pc'[p] \in {"leaving", "closing", "out"}
    BY <1>11, <1>type DEF Raise, Leave, Unlock, CloseHandle
  <2> QED
    BY <2>1
<1>12. CASE Load(p) \/ Repair(p) \/ RepairSync(p)
  BY <1>12, <1>type DEF Load, Repair, RepairSync
<1>13. CASE Kill(p)
  BY <1>13, <1>type DEF Kill
<1> QED
  BY <1>1, <1>2, <1>3, <1>4, <1>5, <1>6, <1>7, <1>8, <1>9, <1>10, <1>11,
     <1>12, <1>13 DEF Step

\* Only ReturnWritten confirms records, and it confirms what Fsync put on disk.
LEMMA StepConfirmsSynced ==
  ASSUME TypeOK, NEW p \in Procs, Tracked(p), Step(p) \/ Kill(p),
         confirmed \subseteq SyncedLines
  PROVE  confirmed' \subseteq SyncedLines
<1> USE DEF told
<1>1. CASE ReturnWritten(p)
  BY <1>1 DEF ReturnWritten, Tracked
<1>2. CASE ~ReturnWritten(p)
  <2>1. UNCHANGED confirmed
    BY <1>2 DEF Step, Probe, OpenHandle, LockAndLoad, AcceptStored, AcceptNew,
         RefuseConflict, ReturnStored, Write, FlushLine, Fsync, Raise,
         Leave, Unlock, CloseHandle, Load, Repair, RepairSync, Kill
  <2> QED
    BY <2>1
<1> QED
  BY <1>1, <1>2

\* A power loss keeps every synced line, and nothing is tracked after it.
LEMMA PowerLossKeepsDurable ==
  ASSUME DurableInv, PowerLoss
  PROVE  /\ SyncedLines \subseteq SyncedLines' /\ \A p \in Procs : Tracked(p)'
         /\ synced' > 0 => entry' = "durable"
<1>1. \A p \in Procs : Tracked(p)'
  BY DEF PowerLoss, Tracked, Open
<1>2. CASE entry' = "absent"
  <2>1. synced = 0 /\ synced' = 0
    BY <1>2 DEF PowerLoss, DurableInv, TypeOK
  <2>2. SyncedLines = {}
    BY <2>1 DEF SyncedLines
  <2> QED
    BY <1>1, <2>1, <2>2
<1>3. CASE entry' # "absent"
  <2>1. PICK n \in synced..Len(file) :
          entry' = "durable" /\ file' = SubSeq(file, 1, n) /\ synced' = n
    BY <1>3 DEF PowerLoss
  <2>2. n \in 0..Len(file) /\ file \in Seq(Line) /\ synced \in Nat /\ synced <= n
    BY DEF DurableInv, TypeOK, Line
  <2>3. \A i \in 1..n : file'[i] = file[i]
    BY <2>1, <2>2, PrefixFacts
  <2>4. ASSUME NEW i \in 1..synced PROVE file[i] \in SyncedLines'
    <3>1. i \in 1..synced' /\ file'[i] = file[i]
      BY <2>1, <2>2, <2>3
    <3> QED
      BY <3>1 DEF SyncedLines
  <2> QED
    BY <1>1, <2>1, <2>4 DEF SyncedLines
<1> QED
  BY <1>2, <1>3

\* Where fsync of a file also persists its directory entry, every step keeps
\* the durability invariant, as long as nothing is flushed behind a tail.
LEMMA DurableNext ==
  ASSUME FsyncFlushesEntry, DurableInv, [Next]_vars,
         \A p \in Procs : pc[p] = "buffered" => tail = NoTail
  PROVE  DurableInv'
<1>type. TypeOK /\ TypeOK'
  BY TypeNext DEF DurableInv
<1>1. CASE UNCHANGED vars
  BY <1>1, <1>type DEF DurableInv, Tracked, Open, Buffer, Elems, Lines,
     SyncedLines, vars, disk, local, told
<1>2. ASSUME NEW p \in Procs, Step(p) \/ Kill(p) PROVE DurableInv'
  <2>1. Prefix(file, file')
    <3>1. CASE Step(p)
      BY <3>1, <1>type, StepExtends
    <3>2. CASE Kill(p)
      <4>1. UNCHANGED file /\ file \in Seq(Line)
        BY <3>2, <1>type DEF Kill, TypeOK, Line
      <4> QED
        BY <4>1, Extension
    <3> QED
      BY <1>2, <3>1, <3>2
  <2>2. synced <= synced'
    BY <1>2, <1>type, SyncedGrows
  <2>3. Lines \subseteq Lines' /\ SyncedLines \subseteq SyncedLines'
    BY <2>1, <2>2, <1>type, GrowthKeepsLines
  <2>4. \A q \in Procs : Tracked(q)'
    <3> SUFFICES ASSUME NEW q \in Procs PROVE Tracked(q)'
      OBVIOUS
    <3>1. CASE q = p
      BY <1>2, <1>type, <2>3, <3>1, StepKeepsTracked DEF DurableInv
    <3>2. CASE q # p
      BY <1>2, <1>type, <2>3, <3>2, StepIsLocal, OthersKeepTracked DEF DurableInv
    <3> QED
      BY <3>1, <3>2
  <2>5. synced' > 0 => entry' = "durable"
    BY <1>2, <1>type, StepKeepsEntry DEF DurableInv
  <2>6. confirmed' \subseteq SyncedLines'
    BY <1>2, <1>type, <2>3, StepConfirmsSynced DEF DurableInv
  <2> QED
    BY <1>type, <2>4, <2>5, <2>6 DEF DurableInv
<1>3. CASE PowerLoss
  <2>1. UNCHANGED confirmed
    BY <1>3 DEF PowerLoss, told
  <2> QED
    BY <1>3, <1>type, <2>1, PowerLossKeepsDurable DEF DurableInv
<1> QED
  BY <1>1, <1>2, <1>3 DEF Next

\* The initial store satisfies the durability invariant.
LEMMA DurableInit == Init => DurableInv
<1> SUFFICES ASSUME Init PROVE DurableInv
  OBVIOUS
<1>1. TypeOK
  BY TypeInit
<1>2. ASSUME NEW p \in Procs PROVE Tracked(p)
  BY DEF Init, Tracked, Open
<1> QED
  BY <1>1, <1>2 DEF Init, DurableInv

\* Confirmed records are durable in every state that satisfies the invariant.
LEMMA DurableMeaning == DurableInv => ConfirmedDurable
<1> SUFFICES ASSUME DurableInv, NEW r \in confirmed PROVE Durable(r)
  BY DEF ConfirmedDurable
<1>1. PICK i \in 1..synced : file[i] = r
  BY DEF DurableInv, SyncedLines
<1>2. synced > 0
  BY <1>1 DEF DurableInv, TypeOK
<1> QED
  BY <1>1, <1>2 DEF Durable, DurableInv

--------------------------------------------------------------------------------
(* What the log holds: unique result ids, the session index, the stability *)
(* of what was read, and the refinement of AcknowledgedLog.  All but the   *)
(* third need flushes that succeed, and so does the durability of what was  *)
(* confirmed: after a failed flush another closes the handle it has unlocked *)
(* and may leave a tail under an open session, which glues its next line.  *)

Locked == Open \cup {"leaving", "repairing"}

\* No two lines of s share an id.
Distinct(s) == \A i, j \in 1..Len(s) : IdOf[s[i]] = IdOf[s[j]] => i = j

\* The record r has an id that none of the first n lines of s has.
NewTo(r, s, n) == \A i \in 1..n : IdOf[s[i]] # IdOf[r]

\* The lines of the buffer have ids of their own, which the log does not have.
FreshBuffer(p) ==
  /\ Distinct(unwritten[p])
  /\ \A j \in 1..Len(unwritten[p]) : NewTo(unwritten[p][j], file, Len(file))

\* What one process knows: who is inside holds the lock, met a log without
\* tail, has everything that is stored in its index or its batch, and buffers
\* only records with new ids.
Exclusive(p) ==
  /\ pc[p] \in Locked => holder = p
  /\ pc[p] \notin {"session", "buffered"} => unwritten[p] = <<>>
  /\ pc[p] \in Open => /\ tail = NoTail
                       /\ Lines \cup Buffer(p) \subseteq index[p] \cup accepted[p]
                       /\ FreshBuffer(p)
  /\ pc[p] = "session" => Lines \subseteq index[p] /\ Buffer(p) \subseteq accepted[p]

\* A tail that recovery may complete has a new id, in memory and on disk.
FreshTail ==
  /\ tail \in Records => NewTo(tail, file, Len(file))
  /\ diskTail \in Records => NewTo(diskTail, file, synced)

UniqueInv ==
  /\ TypeOK /\ UniqueResultIds /\ FreshTail
  /\ \A p \in Procs : Exclusive(p) /\ Tracked(p)

--------------------------------------------------------------------------------
(* Sequences of records with distinct ids.                                 *)

\* Appending a record with a new id keeps ids distinct.
LEMMA DistinctAppend ==
  ASSUME NEW S, NEW s \in Seq(S), NEW r \in S, Distinct(s), NewTo(r, s, Len(s))
  PROVE  Distinct(Append(s, r))
<1>1. /\ Len(s) \in Nat /\ Len(Append(s, r)) = Len(s) + 1
      /\ \A i \in 1..Len(s) : Append(s, r)[i] = s[i]
      /\ Append(s, r)[Len(s) + 1] = r
  BY AppendFacts
<1>2. \A i \in 1..(Len(s) + 1) : i \in 1..Len(s) \/ i = Len(s) + 1
  BY <1>1
<1> QED
  BY <1>1, <1>2 DEF Distinct, NewTo

\* A record is new to the extended log when it is new to the log and differs
\* in its id from the line that was added.
LEMMA NewToAppend ==
  ASSUME NEW S, NEW s \in Seq(S), NEW e \in S, NEW r, NewTo(r, s, Len(s)),
         IdOf[e] # IdOf[r]
  PROVE  NewTo(r, Append(s, e), Len(Append(s, e)))
<1>1. /\ Len(s) \in Nat /\ Len(Append(s, e)) = Len(s) + 1
      /\ \A i \in 1..Len(s) : Append(s, e)[i] = s[i]
      /\ Append(s, e)[Len(s) + 1] = e
  BY AppendFacts
<1>2. \A i \in 1..(Len(s) + 1) : i \in 1..Len(s) \/ i = Len(s) + 1
  BY <1>1
<1> QED
  BY <1>1, <1>2 DEF NewTo

\* A buffer of distinct ids stays one when its first line is taken, and the
\* lines that remain differ in id from the one that was taken.
LEMMA DistinctTail ==
  ASSUME NEW S, NEW s \in Seq(S), s # <<>>, Distinct(s)
  PROVE  /\ Distinct(Tail(s))
         /\ \A j \in 1..Len(Tail(s)) : IdOf[Head(s)] # IdOf[Tail(s)[j]]
<1>1. /\ Len(s) \in Nat \ {0} /\ Len(Tail(s)) = Len(s) - 1
      /\ \A i \in 1..Len(Tail(s)) : Tail(s)[i] = s[i + 1]
      /\ Head(s) = s[1]
  BY TailFacts
<1>2. \A i \in 1..Len(Tail(s)) : i + 1 \in 1..Len(s) /\ i + 1 # 1
  BY <1>1
<1>3. 1 \in 1..Len(s)
  BY <1>1
<1>4. ASSUME NEW i \in 1..Len(Tail(s)), NEW j \in 1..Len(Tail(s)),
             IdOf[Tail(s)[i]] = IdOf[Tail(s)[j]]
      PROVE  i = j
  <2>1. IdOf[s[i + 1]] = IdOf[s[j + 1]]
    BY <1>1, <1>4
  <2>2. i + 1 = j + 1
    BY <1>2, <2>1 DEF Distinct
  <2> QED
    BY <2>2
<1>5. ASSUME NEW j \in 1..Len(Tail(s)) PROVE IdOf[Head(s)] # IdOf[Tail(s)[j]]
  BY <1>1, <1>2, <1>3 DEF Distinct
<1> QED
  BY <1>4, <1>5 DEF Distinct

\* The ids of a prefix are distinct when those of the whole are, and the line
\* after the prefix is new to it.
LEMMA DistinctPrefix ==
  ASSUME NEW S, NEW s \in Seq(S), NEW n \in 0..Len(s), Distinct(s)
  PROVE  /\ Distinct(SubSeq(s, 1, n))
         /\ n < Len(s) => NewTo(s[n + 1], SubSeq(s, 1, n), n)
<1>1. /\ Len(s) \in Nat /\ n \in Nat /\ n <= Len(s)
      /\ Len(SubSeq(s, 1, n)) = n
      /\ \A i \in 1..n : SubSeq(s, 1, n)[i] = s[i] /\ i \in 1..Len(s)
  BY PrefixFacts
<1>2. n < Len(s) => n + 1 \in 1..Len(s) /\ \A i \in 1..n : i # n + 1
  BY <1>1
<1> QED
  BY <1>1, <1>2 DEF Distinct, NewTo

--------------------------------------------------------------------------------
(* Exclusion.                                                              *)

\* What a step of a process that is not inside leaves alone, and what a
\* process inside does to the log.
LEMMA LogSteps ==
  ASSUME ~FlushMayFail, UniqueInv, NEW p \in Procs, Step(p) \/ Kill(p)
  PROVE  \/ UNCHANGED <<file, tail>>
         \/ FlushLine(p) \/ Repair(p)
         \/ Kill(p) /\ UNCHANGED file /\ pc[p] = "buffered" /\ holder = p
            /\ unwritten[p] # <<>> /\ tail' \in {Torn, Head(unwritten[p])}
<1> USE DEF disk
<1>1. CASE CloseHandle(p)
  <2>1. unwritten[p] = <<>>
    BY <1>1 DEF CloseHandle, UniqueInv, Exclusive
  <2> QED
    BY <1>1, <2>1 DEF CloseHandle
<1>2. CASE Kill(p)
  <2>1. pc[p] = "closing" => unwritten[p] = <<>>
    BY DEF UniqueInv, Exclusive
  <2>2. pc[p] = "buffered" => holder = p
    BY DEF UniqueInv, Exclusive, Locked, Open
  <2> QED
    BY <1>2, <2>1, <2>2 DEF Kill
<1>3. ASSUME ~CloseHandle(p), ~Kill(p), ~FlushLine(p), ~Repair(p)
      PROVE  UNCHANGED <<file, tail>>
  BY <1>3 DEF Step, Probe, OpenHandle, LockAndLoad, AcceptStored, AcceptNew,
       RefuseConflict, ReturnStored, Write, Fsync, ReturnWritten, Raise, Leave,
       Unlock, Load, RepairSync
<1> QED
  BY <1>1, <1>2, <1>3

\* The lock changes hands only through nobody.
LEMMA LockSteps ==
  ASSUME UniqueInv, NEW p \in Procs, Step(p) \/ Kill(p)
  PROVE  /\ pc'[p] \in Locked => holder' = p
         /\ holder' = holder \/ holder \in {p, Nobody}
<1>type. pc \in [Procs -> States] /\ (pc[p] \in Locked => holder = p)
  BY DEF UniqueInv, TypeOK, Exclusive
<1> DEFINE Kept == /\ pc'[p] \in Locked => holder' = p
                   /\ holder' = holder \/ holder \in {p, Nobody}
<1> SUFFICES Kept
  OBVIOUS
<1> USE <1>type DEF Goto, Locked, Open
<1>1. ASSUME NEW r \in Records,
             AcceptStored(p, r) \/ AcceptNew(p, r) \/ RefuseConflict(p, r)
      PROVE  Kept
  BY <1>1 DEF AcceptStored, AcceptNew, RefuseConflict
<1>2. CASE Probe(p) \/ OpenHandle(p) \/ LockAndLoad(p)
  BY <1>2 DEF Probe, OpenHandle, LockAndLoad
<1>3. CASE ReturnStored(p) \/ Write(p) \/ FlushLine(p)
  BY <1>3 DEF ReturnStored, Write, FlushLine
<1>4. CASE Fsync(p) \/ ReturnWritten(p) \/ Raise(p)
  BY <1>4 DEF Fsync, ReturnWritten, Raise
<1>5. CASE Leave(p) \/ Unlock(p) \/ CloseHandle(p)
  BY <1>5 DEF Leave, Unlock, CloseHandle
<1>6. CASE Load(p) \/ Repair(p) \/ RepairSync(p)
  BY <1>6 DEF Load, Repair, RepairSync
<1>7. CASE Kill(p)
  BY <1>7 DEF Kill, Released
<1> QED
  BY <1>1, <1>2, <1>3, <1>4, <1>5, <1>6, <1>7 DEF Step

\* A process inside a session is alone with the log.
LEMMA OthersKeepExclusive ==
  ASSUME ~FlushMayFail, UniqueInv, NEW p \in Procs, Step(p) \/ Kill(p),
         NEW q \in Procs, q # p
  PROVE  Exclusive(q)'
<1>1. /\ pc'[q] = pc[q] /\ index'[q] = index[q]
      /\ accepted'[q] = accepted[q] /\ unwritten'[q] = unwritten[q]
  BY StepIsLocal DEF UniqueInv
<1>2. pc[q] \in Locked => holder = q /\ holder' = q
  BY LockSteps, StoreConstants DEF UniqueInv, Exclusive
<1>3. pc[q] \in Open => UNCHANGED <<file, tail>>
  <2> SUFFICES ASSUME pc[q] \in Open PROVE UNCHANGED <<file, tail>>
    OBVIOUS
  <2>1. holder = q /\ pc[p] \notin Open
    BY <1>2 DEF Locked, UniqueInv, Exclusive
  <2>2. ~FlushLine(p) /\ ~Repair(p) /\ pc[p] # "buffered"
    BY <2>1, StoreConstants DEF FlushLine, Repair, Open
  <2> QED
    BY <2>1, <2>2, LogSteps
<1>4. pc[q] \in Open => Lines' = Lines /\ Buffer(q)' = Buffer(q) /\ FreshBuffer(q)' = FreshBuffer(q)
  BY <1>1, <1>3 DEF Lines, Buffer, FreshBuffer
<1>5. Exclusive(q) /\ "session" \in Open
  BY DEF UniqueInv, Open
<1> QED
  BY <1>1, <1>2, <1>3, <1>4, <1>5 DEF Exclusive

--------------------------------------------------------------------------------
(* The steps of a process keep its own part of the invariant.              *)

\* A record without a twin has an id that neither the log nor the buffer has.
LEMMA NoTwin ==
  ASSUME UniqueInv, NEW p \in Procs, pc[p] = "session", NEW r, Twins(p, r) = {}
  PROVE  NewTo(r, file, Len(file)) /\ NewTo(r, unwritten[p], Len(unwritten[p]))
<1>1. /\ \A i \in 1..Len(file) : file[i] \in index[p]
      /\ \A j \in 1..Len(unwritten[p]) : unwritten[p][j] \in accepted[p]
  BY DEF UniqueInv, Exclusive, Lines, Buffer, Elems
<1> QED
  BY <1>1 DEF Twins, NewTo

\* Accepting a new record into the batch.
LEMMA AcceptNewKeeps ==
  ASSUME UniqueInv, NEW p \in Procs, NEW r \in Records, AcceptNew(p, r)
  PROVE  Exclusive(p)'
<1>type. /\ pc \in [Procs -> States] /\ unwritten \in [Procs -> Seq(Records)]
         /\ accepted \in [Procs -> SUBSET Records] /\ Exclusive(p)
  BY DEF UniqueInv, TypeOK
<1> DEFINE buf == unwritten[p]
<1>1. /\ pc[p] = "session" /\ pc' = pc /\ UNCHANGED <<file, tail, holder, index>>
      /\ accepted'[p] = accepted[p] \cup {r} /\ unwritten'[p] = Append(buf, r)
      /\ buf \in Seq(Records) /\ Twins(p, r) = {}
  BY <1>type DEF AcceptNew, disk
<1>2. NewTo(r, file, Len(file)) /\ NewTo(r, buf, Len(buf))
  BY <1>1, NoTwin
<1>3. Buffer(p)' = Buffer(p) \cup {r} /\ Lines' = Lines
  BY <1>1, ElemsAppend DEF Buffer, Lines
<1>4. Distinct(unwritten'[p])
  <2>1. Distinct(buf)
    BY <1>1, <1>type DEF Exclusive, FreshBuffer, Open
  <2> QED
    BY <1>1, <1>2, <2>1, DistinctAppend
<1>5. \A j \in 1..Len(unwritten'[p]) : NewTo(unwritten'[p][j], file, Len(file))
  <2>1. \A j \in 1..Len(buf) : NewTo(buf[j], file, Len(file))
    BY <1>1, <1>type DEF Exclusive, FreshBuffer, Open
  <2>2. /\ Len(buf) \in Nat /\ Len(unwritten'[p]) = Len(buf) + 1
        /\ \A i \in 1..Len(buf) : unwritten'[p][i] = buf[i]
        /\ unwritten'[p][Len(buf) + 1] = r
    BY <1>1, AppendFacts
  <2>3. \A j \in 1..Len(unwritten'[p]) : j \in 1..Len(buf) \/ j = Len(buf) + 1
    BY <2>2
  <2> QED
    BY <1>2, <2>1, <2>2, <2>3
<1>6. FreshBuffer(p)'
  BY <1>1, <1>4, <1>5 DEF FreshBuffer
<1> QED
  BY <1>1, <1>3, <1>6, <1>type DEF Exclusive, Locked, Open

\* Writing one line of the batch to the file.
LEMMA FlushLineKeeps ==
  ASSUME UniqueInv, NEW p \in Procs, FlushLine(p)
  PROVE  /\ Exclusive(p)' /\ UniqueResultIds'
         /\ tail' = NoTail
<1>type. /\ pc \in [Procs -> States] /\ unwritten \in [Procs -> Seq(Records)]
         /\ file \in Seq(Line) /\ Exclusive(p)
  BY DEF UniqueInv, TypeOK, Line
<1> DEFINE buf == unwritten[p]
<1>1. /\ buf \in Seq(Records) /\ buf # <<>> /\ pc[p] = "buffered"
      /\ file' = Append(file, Head(buf)) /\ unwritten'[p] = Tail(buf)
      /\ UNCHANGED <<tail, holder, index, accepted>>
      /\ pc'[p] = IF Len(buf) = 1 THEN "flushed" ELSE "buffered"
  BY <1>type DEF FlushLine, Goto, Exclusive, Open
<1>2. Head(buf) \in Records /\ Head(buf) \in Line /\ 1 \in 1..Len(buf) /\ Head(buf) = buf[1]
  BY <1>1, TailFacts DEF Line
<1>3. /\ Distinct(buf) /\ tail = NoTail /\ holder = p
      /\ \A j \in 1..Len(buf) : NewTo(buf[j], file, Len(file))
  BY <1>1, <1>type DEF Exclusive, FreshBuffer, Open, Locked
<1>4. /\ Distinct(Tail(buf))
      /\ \A j \in 1..Len(Tail(buf)) : IdOf[Head(buf)] # IdOf[Tail(buf)[j]]
  BY <1>1, <1>3, DistinctTail
<1>5. ASSUME NEW j \in 1..Len(Tail(buf)) PROVE NewTo(Tail(buf)[j], file', Len(file'))
  <2>1. j + 1 \in 1..Len(buf) /\ Tail(buf)[j] = buf[j + 1]
    BY <1>1, TailFacts
  <2>2. NewTo(Tail(buf)[j], file, Len(file))
    BY <1>3, <2>1
  <2> QED
    BY <1>1, <1>2, <1>4, <2>2, <1>type, NewToAppend
<1>6. FreshBuffer(p)'
  BY <1>1, <1>4, <1>5 DEF FreshBuffer
<1>7. Lines' \cup Buffer(p)' \subseteq Lines \cup Buffer(p)
  <2>1. Lines = Elems(file) /\ Lines' = Elems(file')
    BY DEF Lines, Elems
  <2>2. Lines' = Lines \cup {Head(buf)}
    BY <1>1, <1>2, <2>1, <1>type, ElemsAppend
  <2>3. Buffer(p) = {Head(buf)} \cup Buffer(p)'
    BY <1>1, ElemsTail DEF Buffer
  <2> QED
    BY <2>2, <2>3
<1>8. Len(buf) = 1 => Tail(buf) = <<>>
  BY <1>1, LastOne
<1>9. UniqueResultIds'
  <2>1. Distinct(file) /\ NewTo(Head(buf), file, Len(file))
    BY <1>2, <1>3 DEF UniqueInv, UniqueResultIds, Distinct
  <2>2. Distinct(file')
    BY <1>1, <1>2, <2>1, <1>type, DistinctAppend
  <2>3. file \in Seq(Records)
    BY <1>type DEF UniqueInv, UniqueResultIds
  <2>4. file' \in Seq(Records)
    BY <1>1, <1>2, <2>3, AppendFacts
  <2>5. \A i \in 1..Len(file') : file'[i] \in Records
    BY <2>4
  <2> QED
    BY <2>2, <2>5 DEF UniqueResultIds, Distinct
<1>10. Lines \cup Buffer(p) \subseteq index[p] \cup accepted[p]
  BY <1>1, <1>type DEF Exclusive, Open
<1> QED
  BY <1>1, <1>3, <1>6, <1>7, <1>8, <1>9, <1>10 DEF Exclusive, Locked, Open

\* Every other step of a process inside leaves its knowledge intact.
LEMMA QuietKeeps ==
  ASSUME ~FlushMayFail, UniqueInv, NEW p \in Procs, Step(p) \/ Kill(p),
         ~FlushLine(p), \A r \in Records : ~AcceptNew(p, r)
  PROVE  Exclusive(p)'
<1>lock. pc'[p] \in Locked => holder' = p
  BY LockSteps
<1>type. /\ pc \in [Procs -> States] /\ unwritten \in [Procs -> Seq(Records)]
         /\ accepted \in [Procs -> SUBSET Records] /\ index \in [Procs -> SUBSET Line]
         /\ Exclusive(p)
  BY DEF UniqueInv, TypeOK, Line
<1> USE <1>type DEF Goto, local, disk, Open
<1>1. ASSUME NEW r \in Records, AcceptStored(p, r) PROVE Exclusive(p)'
  <2>1. /\ pc[p] = "session" /\ UNCHANGED <<file, tail, pc, index, unwritten>>
        /\ accepted'[p] = accepted[p] \cup {r}
    BY <1>1 DEF AcceptStored
  <2>2. Lines' = Lines /\ Buffer(p)' = Buffer(p) /\ FreshBuffer(p)' = FreshBuffer(p)
    BY <2>1 DEF Lines, Buffer, FreshBuffer
  <2> QED
    BY <2>1, <2>2, <1>lock DEF Exclusive
<1>2. CASE LockAndLoad(p)
  <2>1. /\ UNCHANGED <<file, tail, unwritten>> /\ unwritten[p] = <<>>
        /\ pc'[p] \in {"session", "leaving"}
        /\ pc'[p] = "session" => tail = NoTail /\ index'[p] = Lines
    BY <1>2 DEF LockAndLoad, Loadable, Exclusive
  <2>2. Lines' = Lines /\ unwritten'[p] = <<>>
    BY <2>1 DEF Lines
  <2>3. FreshBuffer(p)' /\ Buffer(p)' = {}
    BY <2>2 DEF FreshBuffer, Distinct, Buffer, Elems
  <2> QED
    BY <2>1, <2>2, <2>3, <1>lock DEF Exclusive
<1>3. CASE ReturnStored(p)
  <2>1. /\ pc[p] = "session" /\ UNCHANGED <<file, tail, pc, index, unwritten>>
        /\ unwritten[p] = <<>>
    BY <1>3 DEF ReturnStored
  <2>2. Lines' = Lines /\ Buffer(p)' = {} /\ FreshBuffer(p)' = FreshBuffer(p)
    BY <2>1 DEF Lines, Buffer, FreshBuffer, Elems
  <2> QED
    BY <2>1, <2>2, <1>lock DEF Exclusive
<1>4. CASE Write(p) \/ Fsync(p)
  <2>1. /\ pc[p] \in {"session", "flushed"} /\ pc'[p] \in {"buffered", "synced"}
        /\ pc'[p] = "synced" => pc[p] = "flushed"
        /\ UNCHANGED <<file, tail, index, accepted, unwritten>>
    BY <1>4 DEF Write, Fsync
  <2>2. Lines' = Lines /\ Buffer(p)' = Buffer(p) /\ FreshBuffer(p)' = FreshBuffer(p)
    BY <2>1 DEF Lines, Buffer, FreshBuffer
  <2> QED
    BY <2>1, <2>2, <1>lock DEF Exclusive
<1>5. CASE ReturnWritten(p)
  <2>1. /\ pc[p] = "synced" /\ pc'[p] = "session" /\ UNCHANGED <<file, tail, unwritten>>
        /\ unwritten[p] = <<>> /\ index'[p] = index[p] \cup accepted[p]
    BY <1>5 DEF ReturnWritten, Exclusive
  <2>2. Lines' = Lines /\ Buffer(p) = {} /\ Buffer(p)' = {} /\ FreshBuffer(p)' = FreshBuffer(p)
    BY <2>1 DEF Lines, Buffer, FreshBuffer, Elems
  <2> QED
    BY <2>1, <2>2, <1>lock DEF Exclusive
<1>6. ASSUME pc'[p] \notin Open, unwritten'[p] = <<>> PROVE Exclusive(p)'
  BY <1>6, <1>lock DEF Exclusive
<1>7. ASSUME NEW r \in Records, RefuseConflict(p, r) PROVE Exclusive(p)'
  <2>1. pc'[p] = "leaving" /\ unwritten'[p] = <<>>
    BY <1>7 DEF RefuseConflict
  <2> QED
    BY <2>1, <1>6
<1>8. CASE Probe(p) \/ OpenHandle(p) \/ Leave(p) \/ Unlock(p)
  <2>1. pc'[p] \notin Open /\ unwritten'[p] = <<>>
    BY <1>8 DEF Probe, OpenHandle, Leave, Unlock, Exclusive
  <2> QED
    BY <2>1, <1>6
<1>9. CASE Raise(p) \/ CloseHandle(p) \/ Kill(p)
  <2>1. pc'[p] \notin Open /\ unwritten'[p] = <<>>
    BY <1>9 DEF Raise, CloseHandle, Kill
  <2> QED
    BY <2>1, <1>6
<1>10. CASE Load(p) \/ Repair(p) \/ RepairSync(p)
  <2>1. pc'[p] \notin Open /\ unwritten'[p] = <<>>
    BY <1>10 DEF Load, Repair, RepairSync, Exclusive
  <2> QED
    BY <2>1, <1>6
<1> QED
  BY <1>1, <1>2, <1>3, <1>4, <1>5, <1>7, <1>8, <1>9, <1>10 DEF Step

--------------------------------------------------------------------------------
(* The log and its tail.                                                   *)

\* Recovery completes a tail only under a new id.
LEMMA RepairKeepsIds ==
  ASSUME UniqueInv, NEW p \in Procs, Repair(p)
  PROVE  UniqueResultIds' /\ tail' = NoTail
<1>1. file \in Seq(Records) /\ Distinct(file)
  BY DEF UniqueInv, UniqueResultIds, TypeOK, Distinct
<1>2. CASE tail = Torn
  <2>1. file' = file /\ tail' = NoTail
    BY <1>2 DEF Repair
  <2> QED
    BY <2>1 DEF UniqueInv, UniqueResultIds
<1>3. CASE tail # Torn
  <2>1. tail \in Records /\ file' = Append(file, tail) /\ tail' = NoTail
    BY <1>3 DEF Repair, UniqueInv, TypeOK
  <2>2. NewTo(tail, file, Len(file))
    BY <2>1 DEF UniqueInv, FreshTail
  <2>3. file' \in Seq(Records) /\ Distinct(file')
    BY <1>1, <2>1, <2>2, DistinctAppend, AppendFacts
  <2> QED
    BY <2>1, <2>3 DEF UniqueResultIds, Distinct
<1> QED
  BY <1>2, <1>3

\* No step of a process stores an id twice, and what it leaves behind the last
\* newline has a new id.
LEMMA StepKeepsIds ==
  ASSUME ~FlushMayFail, UniqueInv, NEW p \in Procs, Step(p) \/ Kill(p)
  PROVE  UniqueResultIds' /\ (tail' \in Records => NewTo(tail', file', Len(file')))
<1>1. CASE UNCHANGED <<file, tail>>
  BY <1>1 DEF UniqueInv, UniqueResultIds, FreshTail
<1>2. CASE FlushLine(p)
  BY <1>2, FlushLineKeeps, StoreConstants
<1>3. CASE Repair(p)
  BY <1>3, RepairKeepsIds, StoreConstants
<1>4. CASE Kill(p) /\ UNCHANGED file /\ pc[p] = "buffered" /\ holder = p
           /\ unwritten[p] # <<>> /\ tail' \in {Torn, Head(unwritten[p])}
  <2>1. FreshBuffer(p) /\ unwritten[p] \in Seq(Records)
    BY <1>4 DEF UniqueInv, Exclusive, Open, TypeOK
  <2>2. Head(unwritten[p]) = unwritten[p][1] /\ 1 \in 1..Len(unwritten[p])
    BY <1>4, <2>1, TailFacts
  <2>3. NewTo(Head(unwritten[p]), file, Len(file))
    BY <2>1, <2>2 DEF FreshBuffer
  <2> QED
    BY <1>4, <2>3, StoreConstants DEF UniqueInv, UniqueResultIds
<1> QED
  BY <1>1, <1>2, <1>3, <1>4, LogSteps

\* The tail on disk changes only when it is synced together with the log.
LEMMA DiskTailSteps ==
  ASSUME UniqueInv, NEW p \in Procs, Step(p) \/ Kill(p)
  PROVE  \/ UNCHANGED <<synced, diskTail>>
         \/ diskTail' = tail /\ synced' = Len(file) /\ file' = file /\ tail' = tail
<1> USE DEF disk
<1>1. CASE Fsync(p)
  BY <1>1 DEF Fsync
<1>2. CASE RepairSync(p)
  BY <1>2 DEF RepairSync
<1>3. ASSUME ~Fsync(p), ~RepairSync(p)
      PROVE  UNCHANGED <<synced, diskTail>>
  BY <1>3 DEF Step, Probe, OpenHandle, LockAndLoad, AcceptStored, AcceptNew,
       RefuseConflict, ReturnStored, Write, FlushLine, ReturnWritten, Raise,
       Leave, Unlock, CloseHandle, Load, Repair, Kill
<1> QED
  BY <1>1, <1>2, <1>3

\* Every step of a process extends the log.
LEMMA StepOrKillExtends ==
  ASSUME TypeOK, NEW p \in Procs, Step(p) \/ Kill(p)
  PROVE  Prefix(file, file')
<1>1. CASE Step(p)
  BY <1>1, StepExtends
<1>2. CASE Kill(p)
  <2>1. UNCHANGED file /\ file \in Seq(Line)
    BY <1>2 DEF Kill, TypeOK, Line
  <2> QED
    BY <2>1, Extension
<1> QED
  BY <1>1, <1>2

\* Both tails stay fresh under the steps of processes.
LEMMA StepKeepsFreshTail ==
  ASSUME ~FlushMayFail, UniqueInv, NEW p \in Procs, Step(p) \/ Kill(p)
  PROVE  FreshTail'
<1>1. tail' \in Records => NewTo(tail', file', Len(file'))
  BY StepKeepsIds
<1>2. CASE UNCHANGED <<synced, diskTail>>
  <2>1. Prefix(file, file') /\ synced \in 0..Len(file) /\ Len(file) \in Nat
    BY StepOrKillExtends DEF UniqueInv, TypeOK
  <2>2. \A i \in 1..synced : file'[i] = file[i]
    BY <2>1 DEF Prefix
  <2>3. diskTail \in Records => NewTo(diskTail, file, synced)
    BY DEF UniqueInv, FreshTail
  <2> QED
    BY <1>1, <1>2, <2>2, <2>3 DEF FreshTail, NewTo
<1>3. CASE diskTail' = tail /\ synced' = Len(file) /\ file' = file /\ tail' = tail
  BY <1>1, <1>3 DEF FreshTail
<1> QED
  BY <1>2, <1>3, DiskTailSteps

\* A power loss keeps a prefix of the log, and the line it may leave without
\* newline is the next one, or a tail that was fresh already.
LEMMA PowerLossKeepsIds ==
  ASSUME UniqueInv, PowerLoss
  PROVE  UniqueResultIds' /\ FreshTail'
<1>1. CASE entry' = "absent"
  <2>1. file' = <<>> /\ tail' = NoTail /\ diskTail' = NoTail
    BY <1>1 DEF PowerLoss
  <2> QED
    BY <2>1, StoreConstants DEF UniqueResultIds, FreshTail
<1>2. CASE entry' # "absent"
  <2>1. PICK n \in synced..Len(file) :
          /\ file' = SubSeq(file, 1, n) /\ synced' = n
          /\ tail' \in TailsAfter(n) /\ diskTail' = tail'
    BY <1>2 DEF PowerLoss
  <2>a. file \in Seq(Records) /\ Distinct(file)
    BY DEF UniqueInv, UniqueResultIds, TypeOK, Distinct
  <2>b. Len(file) \in Nat /\ synced \in Nat /\ n \in 0..Len(file)
    <3>1. Len(file) \in Nat
      BY <2>a
    <3>2. synced \in 0..Len(file)
      BY DEF UniqueInv, TypeOK
    <3> QED
      BY <3>1, <3>2
  <2>2. /\ file \in Seq(Records) /\ Distinct(file) /\ n \in 0..Len(file)
        /\ Len(file) \in Nat /\ synced \in Nat
    BY <2>a, <2>b
  <2>3. /\ file' \in Seq(Records) /\ Len(file') = n
        /\ \A i \in 1..n : file'[i] = file[i]
    BY <2>1, <2>2, PrefixFacts
  <2>4. Distinct(file') /\ (n < Len(file) => NewTo(file[n + 1], file', n))
    BY <2>1, <2>2, DistinctPrefix
  <2>5. ASSUME tail' \in Records PROVE NewTo(tail', file', n)
    <3>1. \A last : tail' \in TornForms(last) => tail' = last
      BY <2>5, StoreConstants DEF TornForms
    <3>2. \/ n = synced /\ tail' = diskTail
          \/ n < Len(file) /\ tail' = file[n + 1]
          \/ n = Len(file) /\ tail' = tail
      BY <2>1, <2>2, <2>5, <3>1, StoreConstants DEF TailsAfter
    <3>3. CASE n = synced /\ tail' = diskTail
      BY <2>3, <2>5, <3>3 DEF UniqueInv, FreshTail, NewTo
    <3>4. CASE n < Len(file) /\ tail' = file[n + 1]
      BY <2>4, <3>4
    <3>5. CASE n = Len(file) /\ tail' = tail
      BY <2>3, <2>5, <3>5 DEF UniqueInv, FreshTail, NewTo
    <3> QED
      BY <3>2, <3>3, <3>4, <3>5
  <2>6. UniqueResultIds'
    BY <2>3, <2>4 DEF UniqueResultIds, Distinct
  <2>7. FreshTail'
    BY <2>1, <2>3, <2>5 DEF FreshTail
  <2> QED
    BY <2>6, <2>7
<1> QED
  BY <1>1, <1>2

--------------------------------------------------------------------------------
(* The invariant and its theorems.                                         *)

\* The steps of processes keep what is tracked for every process.
LEMMA StepKeepsAllTracked ==
  ASSUME UniqueInv, TypeOK', NEW p \in Procs, Step(p) \/ Kill(p), NEW q \in Procs
  PROVE  Tracked(q)'
<1>1. Prefix(file, file') /\ synced <= synced'
  BY StepOrKillExtends, SyncedGrows DEF UniqueInv
<1>2. Lines \subseteq Lines' /\ SyncedLines \subseteq SyncedLines'
  BY <1>1, GrowthKeepsLines DEF UniqueInv
<1>3. CASE q = p
  BY <1>2, <1>3, StepKeepsTracked DEF UniqueInv, Exclusive, Open
<1>4. CASE q # p
  BY <1>2, <1>4, StepIsLocal, OthersKeepTracked DEF UniqueInv
<1> QED
  BY <1>3, <1>4

\* After a power loss no process is anywhere.
LEMMA PowerLossKeepsExclusive ==
  ASSUME PowerLoss, NEW p \in Procs
  PROVE  Exclusive(p)' /\ Tracked(p)'
<1>1. pc'[p] = "out" /\ unwritten'[p] = <<>> /\ accepted'[p] = {}
  BY DEF PowerLoss
<1> QED
  BY <1>1 DEF Exclusive, Tracked, Locked, Open

\* When flushes succeed, every step keeps ids unique and sessions exclusive.
LEMMA UniqueNext == ~FlushMayFail /\ UniqueInv /\ [Next]_vars => UniqueInv'
<1> SUFFICES ASSUME ~FlushMayFail, UniqueInv, [Next]_vars PROVE UniqueInv'
  OBVIOUS
<1>type. TypeOK'
  BY TypeNext DEF UniqueInv
<1>1. CASE UNCHANGED vars
  BY <1>1, <1>type DEF UniqueInv, UniqueResultIds, FreshTail, Exclusive, FreshBuffer,
     Tracked, Buffer, Elems, Lines, SyncedLines, vars, disk, local, told
<1>2. ASSUME NEW p \in Procs, Step(p) \/ Kill(p) PROVE UniqueInv'
  <2>1. ASSUME NEW q \in Procs PROVE Exclusive(q)'
    <3>1. CASE q # p
      BY <1>2, <3>1, OthersKeepExclusive
    <3>2. CASE FlushLine(p)
      BY <3>2, FlushLineKeeps, <3>1
    <3>3. CASE \E r \in Records : AcceptNew(p, r)
      BY <3>3, AcceptNewKeeps, <3>1
    <3>4. CASE ~FlushLine(p) /\ \A r \in Records : ~AcceptNew(p, r)
      BY <1>2, <3>4, QuietKeeps, <3>1
    <3> QED
      BY <3>2, <3>3, <3>4
  <2>2. UniqueResultIds' /\ FreshTail'
    BY <1>2, StepKeepsIds, StepKeepsFreshTail
  <2>3. \A q \in Procs : Tracked(q)'
    BY <1>2, <1>type, StepKeepsAllTracked
  <2> QED
    BY <1>type, <2>1, <2>2, <2>3 DEF UniqueInv
<1>3. CASE PowerLoss
  BY <1>3, <1>type, PowerLossKeepsIds, PowerLossKeepsExclusive DEF UniqueInv
<1> QED
  BY <1>1, <1>2, <1>3 DEF Next

\* The empty store satisfies the invariant.
LEMMA UniqueInit == Init => UniqueInv
<1> SUFFICES ASSUME Init PROVE UniqueInv
  OBVIOUS
<1>1. TypeOK
  BY TypeInit
<1>2. UniqueResultIds /\ FreshTail
  BY StoreConstants DEF Init, UniqueResultIds, FreshTail
<1>3. \A p \in Procs : Exclusive(p) /\ Tracked(p)
  BY DEF Init, Exclusive, Tracked, Locked, Open
<1> QED
  BY <1>1, <1>2, <1>3 DEF UniqueInv

\* When flushes succeed, no result_id ever occurs twice in the log and every
\* complete line is a record, whatever is killed, repaired or powered off.
THEOREM ResultIdsAreUnique == ~FlushMayFail => (Spec => []UniqueResultIds)
<1> SUFFICES ASSUME ~FlushMayFail PROVE Spec => []UniqueResultIds
  OBVIOUS
<1>1. UniqueInv /\ [Next]_vars => UniqueInv'
  BY UniqueNext
<1>2. UniqueInv => UniqueResultIds
  BY DEF UniqueInv
<1> QED
  BY <1>1, <1>2, UniqueInit, PTL DEF Spec

\* Then the index of an open session is exactly the log, so its duplicate
\* check is made against everything that is stored.
THEOREM SessionSeesTheLog == ~FlushMayFail => (Spec => []SessionIndexCurrent)
<1> SUFFICES ASSUME ~FlushMayFail PROVE Spec => []SessionIndexCurrent
  OBVIOUS
<1>1. UniqueInv /\ [Next]_vars => UniqueInv'
  BY UniqueNext
<1>2. UniqueInv => SessionIndexCurrent
  BY DEF UniqueInv, Exclusive, Tracked, Open, SessionIndexCurrent
<1> QED
  BY <1>1, <1>2, UniqueInit, PTL DEF Spec

\* When flushes succeed and fsync of a file persists its entry, a record
\* returned by an append_many that wrote something survives every later kill,
\* power loss and repair, whatever the other processes do.
THEOREM ConfirmedSurvive ==
  FsyncFlushesEntry /\ ~FlushMayFail => (Spec => []ConfirmedDurable)
<1> SUFFICES ASSUME FsyncFlushesEntry, ~FlushMayFail PROVE Spec => []ConfirmedDurable
  OBVIOUS
<1>1. UniqueInv /\ DurableInv /\ [Next]_vars => UniqueInv' /\ DurableInv'
  BY UniqueNext, DurableNext DEF UniqueInv, Exclusive, Open
<1>2. DurableInv => ConfirmedDurable
  BY DurableMeaning
<1> QED
  BY <1>1, <1>2, UniqueInit, DurableInit, PTL DEF Spec

--------------------------------------------------------------------------------
(* Reads.                                                                  *)

\* Every step keeps what live processes have read in the log: a process reads
\* the log as it is, the log only grows, and who is killed forgets.
LEMMA ReadsNext == TypeOK /\ ReadsStay /\ [Next]_vars => ReadsStay'
<1> SUFFICES ASSUME TypeOK, ReadsStay, [Next]_vars, NEW q \in Procs
             PROVE  seen'[q] \subseteq Lines'
  BY DEF ReadsStay
<1>type. TypeOK' /\ seen[q] \subseteq Lines
  BY TypeNext DEF ReadsStay
<1>1. CASE UNCHANGED vars
  BY <1>1, <1>type DEF vars, disk, Lines
<1>2. ASSUME NEW p \in Procs, Step(p) \/ Kill(p) PROVE seen'[q] \subseteq Lines'
  <2>1. Lines \subseteq Lines'
    BY <1>2, <1>type, StepOrKillExtends, SyncedGrows, GrowthKeepsLines
  <2>2. CASE Load(p)
    BY <1>type, <2>1, <2>2 DEF Load, TypeOK
  <2>3. CASE Kill(p)
    BY <1>type, <2>1, <2>3 DEF Kill, TypeOK
  <2>4. ASSUME ~Load(p), ~Kill(p) PROVE UNCHANGED seen
    BY <1>2, <2>4 DEF Step, Probe, OpenHandle, LockAndLoad, AcceptStored,
       AcceptNew, RefuseConflict, ReturnStored, Write, FlushLine, Fsync,
       ReturnWritten, Raise, Leave, Unlock, CloseHandle, Repair, RepairSync
  <2> QED
    BY <1>type, <2>1, <2>2, <2>3, <2>4
<1>3. CASE PowerLoss
  BY <1>3 DEF PowerLoss
<1> QED
  BY <1>1, <1>2, <1>3 DEF Next

\* No writer, repair or failing flush takes away what a live process has read:
\* this one needs no assumption on the machine.
THEOREM ReadsAreStable == Spec => []ReadsStay
<1>1. Init => ReadsStay
  BY DEF Init, ReadsStay
<1>2. TypeOK /\ ReadsStay /\ [Next]_vars => ReadsStay'
  BY ReadsNext
<1> QED
  BY <1>1, <1>2, TypeInvariant, PTL DEF Spec

--------------------------------------------------------------------------------
(* The store implements the abstract log.                                  *)

Stored == SubSeq(file, 1, synced)

\* Two durable prefixes of logs that agree on the shorter one are equal, or
\* the longer one strictly extends the shorter.
LEMMA PrefixGrows ==
  ASSUME NEW S, NEW s \in Seq(S), NEW m \in 0..Len(s),
         NEW t \in Seq(S), NEW n \in m..Len(t),
         \A i \in 1..m : t[i] = s[i]
  PROVE  \/ SubSeq(s, 1, m) = SubSeq(t, 1, n)
         \/ Log!IsStrictPrefix(SubSeq(s, 1, m), SubSeq(t, 1, n))
<1> DEFINE a == SubSeq(s, 1, m)
           b == SubSeq(t, 1, n)
<1>0. /\ Len(s) \in Nat /\ Len(t) \in Nat /\ m \in Nat /\ n \in Nat
      /\ m <= n /\ n \in 0..Len(t)
  OBVIOUS
<1>1. a \in Seq(S) /\ Len(a) = m /\ \A i \in 1..m : a[i] = s[i]
  BY PrefixFacts
<1>2. b \in Seq(S) /\ Len(b) = n /\ \A i \in 1..n : b[i] = t[i]
  BY <1>0, PrefixFacts
<1> HIDE DEF a, b
<1>3. /\ SubSeq(a, 1, m) \in Seq(S) /\ Len(SubSeq(a, 1, m)) = m
      /\ \A i \in 1..m : SubSeq(a, 1, m)[i] = a[i]
  BY <1>0, <1>1, PrefixFacts
<1>4. /\ SubSeq(b, 1, m) \in Seq(S) /\ Len(SubSeq(b, 1, m)) = m
      /\ \A i \in 1..m : SubSeq(b, 1, m)[i] = b[i]
  BY <1>0, <1>2, PrefixFacts
<1>5. \A i \in 1..m : a[i] = b[i]
  BY <1>0, <1>1, <1>2
<1>6. SubSeq(a, 1, m) = SubSeq(b, 1, m)
  BY <1>3, <1>4, <1>5, SeqEqual
<1>7. a = b \/ Log!IsStrictPrefix(a, b)
  BY <1>0, <1>1, <1>2, <1>6 DEF Log!IsStrictPrefix, Log!IsPrefix
<1> QED
  BY <1>7 DEF a, b

\* A step after which the durable lines are those there were, or more of a log
\* of distinct ids, is a Grow of the abstract log or a stutter.
LEMMA GrowsOrStutters ==
  ASSUME TypeOK, TypeOK', UniqueResultIds, UniqueResultIds', synced <= synced',
         \A i \in 1..synced : file'[i] = file[i], UNCHANGED confirmed
  PROVE  Log!Grow \/ UNCHANGED <<Stored, confirmed>>
<1>1. /\ file \in Seq(Records) /\ file' \in Seq(Records)
      /\ Distinct(file')
  <2>1. /\ file \in Seq(Records \cup {Garbage})
        /\ \A i \in 1..Len(file) : file[i] \in Records
    BY DEF TypeOK, UniqueResultIds
  <2>2. /\ file' \in Seq(Records \cup {Garbage})
        /\ \A i \in 1..Len(file') : file'[i] \in Records
    BY DEF TypeOK, UniqueResultIds
  <2>3. \A i, j \in 1..Len(file') : IdOf[file'[i]] = IdOf[file'[j]] => i = j
    BY DEF UniqueResultIds
  <2> QED
    BY <2>1, <2>2, <2>3 DEF Distinct
<1>2. synced \in 0..Len(file) /\ synced' \in 0..Len(file')
  BY DEF TypeOK
<1>3. synced' \in synced..Len(file')
  BY <1>1, <1>2
<1>4. Stored = Stored' \/ Log!IsStrictPrefix(Stored, Stored')
  BY <1>1, <1>2, <1>3, PrefixGrows DEF Stored
<1>5. Stored' \in Seq(Records) /\ Distinct(Stored')
  BY <1>1, <1>2, PrefixFacts, DistinctPrefix DEF Stored
<1>6. DOMAIN Stored' = 1..Len(Stored')
  BY <1>5, LenProperties
<1> QED
  BY <1>4, <1>5, <1>6 DEF Log!Grow, Stored, Distinct

\* The durable lines are the range of the abstract log.
LEMMA StoredRange ==
  ASSUME TypeOK, UniqueResultIds
  PROVE  SyncedLines = Log!Range(Stored)
<1>1. file \in Seq(Records) /\ synced \in 0..Len(file)
  BY DEF TypeOK, UniqueResultIds
<1>2. /\ Stored \in Seq(Records) /\ Len(Stored) = synced
      /\ \A i \in 1..synced : Stored[i] = file[i]
  BY <1>1, PrefixFacts DEF Stored
<1>3. DOMAIN Stored = 1..synced
  BY <1>2, LenProperties
<1> QED
  BY <1>2, <1>3 DEF SyncedLines, Log!Range

\* The refinement: every step of the store is a Grow, a Confirm or a stutter
\* of the abstract log.
LEMMA StepSimulates ==
  ASSUME DurableInv, UniqueInv, DurableInv', UniqueInv', [Next]_vars
  PROVE  [Log!Grow \/ Log!Confirm]_<<Stored, confirmed>>
<1>type. TypeOK /\ TypeOK' /\ UniqueResultIds /\ UniqueResultIds'
  BY DEF UniqueInv
<1>1. CASE UNCHANGED vars
  BY <1>1 DEF vars, disk, told, Stored
<1>2. ASSUME NEW p \in Procs, ReturnWritten(p)
      PROVE  [Log!Grow \/ Log!Confirm]_<<Stored, confirmed>>
  <2>1. UNCHANGED <<file, synced>> /\ confirmed \subseteq confirmed'
    BY <1>2 DEF ReturnWritten
  <2>2. UNCHANGED Stored
    BY <2>1 DEF Stored
  <2>3. confirmed' \subseteq SyncedLines'
    BY DEF DurableInv
  <2>4. SyncedLines' = SyncedLines
    BY <2>1 DEF SyncedLines
  <2>5. confirmed' \subseteq Log!Range(Stored)
    BY <1>type, <2>3, <2>4, StoredRange
  <2> QED
    BY <2>1, <2>2, <2>5 DEF Log!Confirm, Stored
<1>3. ASSUME NEW p \in Procs, Step(p) \/ Kill(p), ~ReturnWritten(p)
      PROVE  Log!Grow \/ UNCHANGED <<Stored, confirmed>>
  <2>1. UNCHANGED confirmed
    BY <1>3 DEF Step, Probe, OpenHandle, LockAndLoad, AcceptStored, AcceptNew,
       RefuseConflict, ReturnStored, Write, FlushLine, Fsync, Raise, Leave,
       Unlock, CloseHandle, Load, Repair, RepairSync, Kill, told
  <2>2. synced <= synced'
    BY <1>3, <1>type, SyncedGrows
  <2>3. \A i \in 1..Len(file) : file'[i] = file[i]
    BY <1>3, <1>type, StepOrKillExtends DEF Prefix
  <2>4. \A i \in 1..synced : i \in 1..Len(file)
    BY <1>type DEF TypeOK
  <2> QED
    BY <1>type, <2>1, <2>2, <2>3, <2>4, GrowsOrStutters
<1>4. CASE PowerLoss
  <2>1. UNCHANGED confirmed
    BY <1>4 DEF PowerLoss, told
  <2>2. synced <= synced' /\ \A i \in 1..synced : file'[i] = file[i]
    <3>1. CASE entry' = "absent"
      <4>1. synced = 0 /\ synced' = 0
        BY <1>4, <1>type, <3>1 DEF PowerLoss, DurableInv, TypeOK
      <4> QED
        BY <4>1
    <3>2. CASE entry' # "absent"
      <4>1. PICK n \in synced..Len(file) : file' = SubSeq(file, 1, n) /\ synced' = n
        BY <1>4, <3>2 DEF PowerLoss
      <4>2. file \in Seq(Line) /\ synced \in 0..Len(file) /\ Len(file) \in Nat
        BY <1>type DEF TypeOK, Line
      <4>3. n \in 0..Len(file) /\ synced <= n /\ \A i \in 1..synced : i \in 1..n
        BY <4>2
      <4>4. \A i \in 1..n : file'[i] = file[i]
        BY <4>1, <4>2, <4>3, PrefixFacts
      <4> QED
        BY <4>1, <4>3, <4>4
    <3> QED
      BY <3>1, <3>2
  <2> QED
    BY <1>type, <2>1, <2>2, GrowsOrStutters
<1> QED
  BY <1>1, <1>2, <1>3, <1>4 DEF Next

\* Where flushes succeed and fsync of a file persists its entry, the whole
\* machinery of probes, locks, buffers, repairs and failures implements the
\* abstract log: durable lines only grow, under new ids, and what is confirmed
\* is among them.
THEOREM StoreImplementsLog ==
  FsyncFlushesEntry /\ ~FlushMayFail => (Spec => ImplementsLog)
<1> SUFFICES ASSUME FsyncFlushesEntry, ~FlushMayFail PROVE Spec => ImplementsLog
  OBVIOUS
<1>1. UniqueInv /\ DurableInv /\ [Next]_vars => DurableInv'
  BY DurableNext DEF UniqueInv, Exclusive, Open
<1>2. UniqueInv /\ [Next]_vars => UniqueInv'
  BY UniqueNext
<1>3. Init => Log!Init
  <2> SUFFICES ASSUME Init PROVE Log!Init
    OBVIOUS
  <2>1. file = <<>> /\ synced = 0 /\ confirmed = {}
    BY DEF Init
  <2>2. SubSeq(file, 1, synced) = <<>>
    BY <2>1, SubSeqEmpty
  <2> QED
    BY <2>1, <2>2 DEF Log!Init
<1>4. /\ DurableInv /\ UniqueInv /\ DurableInv' /\ UniqueInv' /\ [Next]_vars
      => [Log!Grow \/ Log!Confirm]_<<SubSeq(file, 1, synced), confirmed>>
  BY StepSimulates DEF Stored
<1> QED
  BY <1>1, <1>2, <1>3, <1>4, DurableInit, UniqueInit, PTL DEF Spec, ImplementsLog, Log!Spec

================================================================================
