--------------------------- MODULE ContainmentProofs ---------------------------
(***************************************************************************)
(* Theorems about ProcessContainment, for every set of processes that the  *)
(* command may fork, every set of streams and any amount of output.        *)
(***************************************************************************)
EXTENDS ProcessContainment, TLAPS

\* Nobody in the leader's group runs.
Contained == \A p \in group : state[p] # "running"

\* The group has only processes that were started, and once the group was
\* found empty or was killed it stays contained until the call ends, unless
\* the signals were refused or an uncaught exception abandoned the group.
GroupInv ==
  /\ TypeOK
  /\ \A p \in group : state[p] # "unborn"
  /\ pc = "leaderwait" => Contained
  /\ pc \in {"joining", "returned", "raised"} /\ "signal" \notin errors
       => Contained \/ mode = "abandoned"
  /\ mode = "abandoned" => pc = "raised"
  /\ pc \in {"joining", "returned"} /\ {"signal", "leader"} \cap errors = {}
       => state[Leader] = "gone"

\* A reader that ended without an error has seen the end of file: nobody can
\* write to its pipe and it took everything that was written.  Only a call that
\* raises terminates the group before every reader was started.
CaptureInv ==
  /\ TypeOK
  /\ \A s \in Streams : reader[s] = "ended" /\ s \notin readerErrors
       => captured[s] = emitted[s] /\ holders[s] = {}
  /\ pc \notin {"starting", "waiting"} /\ mode \in {"first", "second"}
       => \A s \in Streams : reader[s] # "idle"
  /\ pc = "returned" => mode \in {"first", "second"}
  /\ mode = "abandoned" => pc = "raised"
  /\ pc = "returned" /\ errors = {}
       => readerErrors = {} /\ \A s \in Streams : reader[s] = "ended"

--------------------------------------------------------------------------------
(* Type correctness.                                                       *)

\* Collecting the leader's status only changes the leader.
LEMMA ReapedType ==
  ASSUME TypeOK
  PROVE  /\ Reaped \in [Tree -> {"unborn", "running", "dying", "zombie", "gone"}]
         /\ \A p \in Tree : Reaped[p] = state[p] \/ (state[p] = "zombie" /\ Reaped[p] = "gone")
         /\ Reaped[Leader] \in {"gone", state[Leader]}
  BY DEF TypeOK, Reaped, Tree

\* Whatever the started tree does is well typed.
LEMMA TreeType ==
  ASSUME TypeOK, NEW p \in Tree,
         \/ \E k \in Kids : Fork(p, k)
         \/ LeaveGroup(p) \/ Exit(p)
         \/ \E s \in Streams : ClosePipe(p, s) \/ Emit(p, s)
  PROVE  TypeOK'
<1> USE ContainmentConstants DEF TypeOK, Tree, tree, streams, main
<1>1. ASSUME NEW k \in Kids, Fork(p, k) PROVE TypeOK'
  BY <1>1 DEF Fork
<1>2. CASE LeaveGroup(p)
  BY <1>2 DEF LeaveGroup
<1>3. CASE Exit(p)
  BY <1>3 DEF Exit
<1>4. ASSUME NEW s \in Streams, ClosePipe(p, s) PROVE TypeOK'
  BY <1>4 DEF ClosePipe
<1>5. ASSUME NEW s \in Streams, Emit(p, s) PROVE TypeOK'
  BY <1>5 DEF Emit
<1> QED
  BY <1>1, <1>2, <1>3, <1>4, <1>5

\* Every step of a reader thread is well typed.
LEMMA ReaderType ==
  ASSUME TypeOK, NEW s \in Streams, Drain(s) \/ EndOfFile(s) \/ ReadFails(s)
  PROVE  TypeOK'
<1> USE ContainmentConstants DEF TypeOK, tree, streams, main
<1>1. CASE Drain(s)
  BY <1>1 DEF Drain
<1>2. CASE EndOfFile(s)
  BY <1>2 DEF EndOfFile
<1>3. CASE ReadFails(s)
  BY <1>3 DEF ReadFails
<1> QED
  BY <1>1, <1>2, <1>3

\* Every step of the caller is well typed.
LEMMA CallerType ==
  ASSUME TypeOK, Caller \/ Poll \/ SignalFails \/ Interrupt \/ Abandon
  PROVE  TypeOK'
<1> USE ReapedType DEF TypeOK, tree, streams, main
<1>1. CASE WaitEnds
  BY <1>1 DEF WaitEnds
<1>2. CASE Terminate
  BY <1>2 DEF Terminate
<1>3. CASE GraceEnds
  BY <1>3 DEF GraceEnds
<1>4. CASE Kill
  BY <1>4 DEF Kill
<1>5. CASE LeaderWaitEnds
  BY <1>5 DEF LeaderWaitEnds
<1>6. CASE JoinEnds
  BY <1>6 DEF JoinEnds
<1>7. CASE Poll
  BY <1>7 DEF Poll
<1>8. CASE SignalFails
  BY <1>8 DEF SignalFails
<1>9. CASE Interrupt
  BY <1>9 DEF Interrupt
<1>10. CASE Abandon
  BY <1>10 DEF Abandon
<1>11. CASE Protect
  BY <1>11 DEF Protect
<1>12. ASSUME NEW s \in Streams, StartReader(s) PROVE TypeOK'
  BY <1>12 DEF StartReader
<1> QED
  BY <1>1, <1>2, <1>3, <1>4, <1>5, <1>6, <1>7, <1>8, <1>9, <1>10, <1>11, <1>12
     DEF Caller

\* The call starts well typed.
LEMMA TypeInit == Init => TypeOK
  BY ContainmentConstants DEF Init, TypeOK, Tree

\* Every step keeps the types.
LEMMA TypeNext == TypeOK /\ [Next]_vars => TypeOK'
<1> SUFFICES ASSUME TypeOK, [Next]_vars PROVE TypeOK'
  OBVIOUS
<1>1. CASE UNCHANGED vars
  BY <1>1 DEF TypeOK, vars, tree, streams, main
<1>2. CASE Next
  BY <1>2, TreeType, ReaderType, CallerType DEF Next
<1> QED
  BY <1>1, <1>2

\* Type correctness of a contained call, for every tree and every stream.
THEOREM TypeInvariant == Spec => []TypeOK
<1> QED
  BY TypeInit, TypeNext, PTL DEF Spec

--------------------------------------------------------------------------------
(* Containment of the group.                                               *)

\* A group that is gone has a leader that was awaited, and nobody runs in it.
LEMMA GoneGroup ==
  ASSUME TypeOK, \A p \in group : state[p] # "unborn", ~GroupExists
  PROVE  Contained /\ state[Leader] = "gone"
<1>1. \A p \in group : state[p] = "gone"
  BY DEF GroupExists, TypeOK, Tree
<1> QED
  BY <1>1 DEF Contained, TypeOK

\* The started tree cannot undo containment: only a running member of the
\* group adds processes to it.
LEMMA TreeKeepsGroup ==
  ASSUME GroupInv, NEW p \in Tree,
         \/ \E k \in Kids : Fork(p, k)
         \/ LeaveGroup(p) \/ Exit(p)
         \/ \E s \in Streams : ClosePipe(p, s) \/ Emit(p, s)
  PROVE  GroupInv'
<1>type. TypeOK /\ TypeOK'
  BY TreeType DEF GroupInv
<1> USE DEF GroupInv, Contained, TypeOK, tree, streams, main
<1>1. ASSUME NEW k \in Kids, Fork(p, k) PROVE GroupInv'
  <2>1. /\ state[p] = "running" /\ k \notin group /\ UNCHANGED <<pc, errors, mode>>
        /\ \A q \in Tree : q # k => state'[q] = state[q]
        /\ k \in Tree /\ k # Leader /\ state'[k] = "running"
        /\ group' = IF p \in group THEN group \cup {k} ELSE group
    BY <1>1, <1>type, ContainmentConstants DEF Fork, Tree
  <2>2. Contained => group' = group /\ Contained'
    BY <2>1, <1>type
  <2>3. \A q \in group' : state'[q] # "unborn"
    BY <2>1, <1>type
  <2> QED
    BY <2>1, <2>2, <2>3, <1>type DEF Tree
<1>2. CASE LeaveGroup(p)
  BY <1>2, <1>type DEF LeaveGroup
<1>3. CASE Exit(p)
  BY <1>3, <1>type DEF Exit, Tree
<1>4. ASSUME NEW s \in Streams, ClosePipe(p, s) PROVE GroupInv'
  BY <1>4, <1>type DEF ClosePipe
<1>5. ASSUME NEW s \in Streams, Emit(p, s) PROVE GroupInv'
  BY <1>5, <1>type DEF Emit
<1> QED
  BY <1>1, <1>2, <1>3, <1>4, <1>5

\* Every step of the caller keeps the group invariant: each way to the join
\* passes a group that is gone, a KILL, or a refused signal.
LEMMA CallerKeepsGroup ==
  ASSUME GroupInv, Caller \/ Poll \/ SignalFails \/ Interrupt \/ Abandon
  PROVE  GroupInv'
<1>type. TypeOK /\ TypeOK'
  BY CallerType DEF GroupInv
<1>reap. \A p \in Tree : Reaped[p] = state[p] \/ (state[p] = "zombie" /\ Reaped[p] = "gone")
  BY <1>type, ReapedType
<1> USE <1>type DEF GroupInv, tree, streams, main
<1>1. CASE WaitEnds
  BY <1>1, <1>reap DEF WaitEnds, TypeOK
<1>2. CASE Terminate
  <2>1. CASE GroupExists
    BY <1>2, <2>1 DEF Terminate
  <2>2. CASE ~GroupExists
    <3>1. Contained /\ state[Leader] = "gone"
      BY <2>2, GoneGroup
    <3> QED
      BY <1>2, <2>2, <3>1, <1>reap DEF Terminate, Contained, TypeOK
  <2> QED
    BY <2>1, <2>2
<1>3. CASE GraceEnds
  <2>1. ~GroupExists => Contained /\ state[Leader] = "gone"
    BY GoneGroup
  <2> QED
    BY <1>3, <2>1 DEF GraceEnds, Contained
<1>4. CASE Kill
  <2>1. CASE GroupExists
    BY <1>4, <2>1 DEF Kill, Contained, TypeOK
  <2>2. CASE ~GroupExists
    <3>1. Contained /\ state[Leader] = "gone"
      BY <2>2, GoneGroup
    <3> QED
      BY <1>4, <2>2, <3>1, <1>reap DEF Kill, Contained, TypeOK
  <2> QED
    BY <2>1, <2>2
<1>5. CASE LeaderWaitEnds
  BY <1>5, <1>reap DEF LeaderWaitEnds, Contained, TypeOK
<1>6. CASE JoinEnds
  BY <1>6 DEF JoinEnds, Contained
<1>7. CASE Poll
  BY <1>7, <1>reap DEF Poll, TypeOK
<1>8. CASE SignalFails
  BY <1>8 DEF SignalFails
<1>9. CASE Interrupt
  BY <1>9 DEF Interrupt
<1>10. CASE Abandon
  BY <1>10 DEF Abandon, Contained
<1>11. CASE Protect
  BY <1>11 DEF Protect
<1>12. ASSUME NEW s \in Streams, StartReader(s) PROVE GroupInv'
  <2>1. UNCHANGED <<state, group, pc, mode, errors>>
    BY <1>12 DEF StartReader
  <2> QED
    BY <2>1 DEF Contained
<1> QED
  BY <1>1, <1>2, <1>3, <1>4, <1>5, <1>6, <1>7, <1>8, <1>9, <1>10, <1>11, <1>12
     DEF Caller

\* The group invariant is inductive.
LEMMA GroupNext == GroupInv /\ [Next]_vars => GroupInv'
<1> SUFFICES ASSUME GroupInv, [Next]_vars PROVE GroupInv'
  OBVIOUS
<1>1. CASE UNCHANGED vars
  BY <1>1, TypeNext DEF GroupInv, Contained, vars, tree, streams, main
<1>2. ASSUME NEW s \in Streams, Drain(s) \/ EndOfFile(s) \/ ReadFails(s)
      PROVE  GroupInv'
  <2>1. TypeOK' /\ UNCHANGED <<state, group, pc, errors, mode>>
    BY <1>2, ReaderType DEF GroupInv, Drain, EndOfFile, ReadFails, tree, main
  <2> QED
    BY <2>1 DEF GroupInv, Contained
<1>3. CASE Next
  BY <1>2, <1>3, TreeKeepsGroup, CallerKeepsGroup DEF Next
<1> QED
  BY <1>1, <1>3

\* The call starts with a running leader and nothing to contain yet.
LEMMA GroupInit == Init => GroupInv
<1> SUFFICES ASSUME Init PROVE GroupInv
  OBVIOUS
<1>1. TypeOK
  BY TypeInit
<1> QED
  BY <1>1, ContainmentConstants DEF Init, GroupInv, Tree

\* Whatever the tree forks, and whenever members leave the group or ignore
\* TERM, a result without containment error means that nobody in the
\* command's group runs, now and for ever.
THEOREM CleanResultIsContained == Spec => []CleanIsContained
<1>1. GroupInv => CleanIsContained
  BY DEF GroupInv, CleanIsContained, Clean, Contained
<1> QED
  BY <1>1, GroupInit, GroupNext, PTL DEF Spec

\* Such a result also has the exit status of the command.
THEOREM CleanResultIsReaped == Spec => []CleanIsReaped
<1>1. GroupInv => CleanIsReaped
  BY DEF GroupInv, CleanIsReaped, Clean
<1> QED
  BY <1>1, GroupInit, GroupNext, PTL DEF Spec

\* An exception or an interrupt at any point of the try leaves no running
\* group behind, unless the signals were refused or a second exception came
\* before the group was signalled to the end.
THEOREM RaisedCallIsContained == Spec => []RaiseIsContained
<1>1. GroupInv => RaiseIsContained
  BY DEF GroupInv, RaiseIsContained, Contained
<1> QED
  BY <1>1, GroupInit, GroupNext, PTL DEF Spec

--------------------------------------------------------------------------------
(* Completeness of the captured output.                                    *)

\* The tree cannot write behind a reader that has seen the end of file.
LEMMA TreeKeepsCapture ==
  ASSUME CaptureInv, NEW p \in Tree,
         \/ \E k \in Kids : Fork(p, k)
         \/ LeaveGroup(p) \/ Exit(p)
         \/ \E s \in Streams : ClosePipe(p, s) \/ Emit(p, s)
  PROVE  CaptureInv'
<1>type. TypeOK /\ TypeOK'
  BY TreeType DEF CaptureInv
<1> USE <1>type DEF CaptureInv, TypeOK, tree, streams, main
<1>1. ASSUME NEW k \in Kids, Fork(p, k) PROVE CaptureInv'
  BY <1>1 DEF Fork
<1>2. CASE LeaveGroup(p)
  BY <1>2 DEF LeaveGroup
<1>3. CASE Exit(p)
  BY <1>3 DEF Exit
<1>4. ASSUME NEW s \in Streams, ClosePipe(p, s) PROVE CaptureInv'
  BY <1>4 DEF ClosePipe
<1>5. ASSUME NEW s \in Streams, Emit(p, s) PROVE CaptureInv'
  BY <1>5 DEF Emit
<1> QED
  BY <1>1, <1>2, <1>3, <1>4, <1>5

\* A reader ends without an error only at the end of file, and a reader that
\* has ended stays ended.
LEMMA ReaderKeepsCapture ==
  ASSUME CaptureInv, NEW s \in Streams, Drain(s) \/ EndOfFile(s) \/ ReadFails(s)
  PROVE  CaptureInv'
<1>type. TypeOK /\ TypeOK'
  BY ReaderType DEF CaptureInv
<1> USE <1>type DEF CaptureInv, TypeOK, tree, main
<1>1. CASE Drain(s)
  BY <1>1 DEF Drain
<1>2. CASE EndOfFile(s)
  BY <1>2 DEF EndOfFile
<1>3. CASE ReadFails(s)
  BY <1>3 DEF ReadFails
<1> QED
  BY <1>1, <1>2, <1>3

\* The capture invariant is inductive: the join reports readers that still
\* read and readers that failed.
LEMMA CaptureNext == CaptureInv /\ [Next]_vars => CaptureInv'
<1> SUFFICES ASSUME CaptureInv, [Next]_vars PROVE CaptureInv'
  OBVIOUS
<1>type. TypeOK /\ TypeOK'
  BY TypeNext DEF CaptureInv
<1>1. CASE UNCHANGED vars
  BY <1>1, <1>type DEF CaptureInv, vars, tree, streams, main
<1>2. CASE JoinEnds
  BY <1>2, <1>type DEF CaptureInv, JoinEnds, Draining, TypeOK, tree, streams
<1>3. ASSUME NEW s \in Streams, StartReader(s) PROVE CaptureInv'
  <2>1. /\ UNCHANGED <<holders, captured, emitted, readerErrors, pc, mode, errors>>
        /\ pc = "waiting" /\ reader[s] = "idle" /\ reader'[s] = "reading"
        /\ \A t \in Streams : t # s => reader'[t] = reader[t]
    BY <1>3, <1>type DEF StartReader, TypeOK, tree, main
  <2> QED
    BY <2>1, <1>type DEF CaptureInv
<1>4. CASE WaitEnds
  BY <1>4, <1>type DEF CaptureInv, WaitEnds, TypeOK, streams
<1>5. ASSUME \/ Caller /\ ~JoinEnds /\ ~WaitEnds /\ \A s \in Streams : ~StartReader(s)
             \/ Poll \/ SignalFails \/ Interrupt \/ Abandon
      PROVE  CaptureInv'
  <2>1. /\ UNCHANGED <<holders, streams>>
        /\ pc # "raised" /\ pc' # "returned"
    BY <1>5 DEF Caller, Protect, Terminate, GraceEnds, Kill, LeaderWaitEnds, Poll,
       SignalFails, Interrupt, Abandon, tree, main
  <2>2. \/ mode' = mode \/ mode' = "cleanup"
        \/ mode' = "abandoned" /\ pc' = "raised"
    BY <1>5 DEF Caller, Protect, Terminate, GraceEnds, Kill, LeaderWaitEnds, Poll,
       SignalFails, Interrupt, Abandon, main
  <2>3. pc \in {"starting", "waiting"} /\ pc' \notin {"starting", "waiting"}
          => mode' \in {"cleanup", "abandoned"}
    BY <1>5 DEF Caller, Protect, Terminate, GraceEnds, Kill, LeaderWaitEnds, Poll,
       SignalFails, Interrupt, Abandon, main
  <2> QED
    <3>1. UNCHANGED <<holders, captured, emitted, reader, readerErrors>>
      BY <2>1 DEF streams
    <3> QED
      BY <2>1, <2>2, <2>3, <3>1, <1>type DEF CaptureInv, TypeOK
<1>6. CASE Next
  BY <1>2, <1>3, <1>4, <1>5, <1>6, TreeKeepsCapture, ReaderKeepsCapture DEF Next
<1> QED
  BY <1>1, <1>6

\* Every reader starts reading.
LEMMA CaptureInit == Init => CaptureInv
<1> SUFFICES ASSUME Init PROVE CaptureInv
  OBVIOUS
<1>1. TypeOK
  BY TypeInit
<1> QED
  BY <1>1 DEF Init, CaptureInv

\* A result without containment error holds everything the tree wrote, and
\* nobody can write more.
THEOREM CleanResultIsCaptured == Spec => []CleanIsCaptured
<1>1. CaptureInv => CleanIsCaptured
  BY DEF CaptureInv, CleanIsCaptured, Clean
<1> QED
  BY <1>1, CaptureInit, CaptureNext, PTL DEF Spec

================================================================================
