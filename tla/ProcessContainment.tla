--------------------------- MODULE ProcessContainment ---------------------------
(***************************************************************************)
(* run_bounded_process on POSIX: a command is started as the leader of its *)
(* own process group, two reader threads drain its pipes, and the caller   *)
(* waits, terminates the group (TERM, grace, KILL), joins the readers and  *)
(* reports what it could not contain.  The started tree is adversarial: it *)
(* forks, leaves the group, keeps or closes pipes, ignores TERM.  The first *)
(* exception inside the try cleans up; one before the try, or a second one *)
(* during the cleanup, simply ends the call.                               *)
(***************************************************************************)
EXTENDS Naturals, FiniteSets

CONSTANTS
  Leader, Kids,   \* the command, and the processes its tree may fork
  Streams,        \* stdout and stderr
  MaxChunks       \* bound: chunks written to one stream

ASSUME ContainmentConstants == Leader \notin Kids /\ MaxChunks \in Nat

Tree == Kids \cup {Leader}

VARIABLES
  state,         \* unborn, running, dying (KILL is pending), zombie or gone
  group,         \* processes in the leader's group
  holders,       \* for each stream, who can write to its pipe
  emitted,       \* chunks written to each stream
  captured,      \* chunks its reader took
  reader,        \* each reader thread: "idle" until started, "reading" or "ended"
  readerErrors,  \* streams whose reader failed
  pc,            \* where run_bounded_process is
  mode,          \* which pass: "first", "second" or "cleanup", or that an
                 \* exception left the group to itself: "abandoned"
  errors         \* containment errors so far

tree    == <<state, group, holders>>
streams == <<emitted, captured, reader, readerErrors>>
main    == <<pc, mode, errors>>
vars    == <<tree, streams, main>>

Init ==
  /\ state = [p \in Tree |-> IF p = Leader THEN "running" ELSE "unborn"]
  /\ group = {Leader}
  /\ holders = [s \in Streams |-> {Leader}]
  /\ emitted = [s \in Streams |-> 0] /\ captured = [s \in Streams |-> 0]
  /\ reader = [s \in Streams |-> "idle"] /\ readerErrors = {}
  /\ pc = "starting" /\ mode = "first" /\ errors = {}

GroupExists == \E p \in group : state[p] \in {"running", "dying", "zombie"}
Reaped      == [state EXCEPT ![Leader] = IF @ = "zombie" THEN "gone" ELSE @]

--------------------------------------------------------------------------------
(* The started tree.                                                       *)

Fork(p, k) ==
  /\ state[p] = "running" /\ state[k] = "unborn"
  /\ state' = [state EXCEPT ![k] = "running"]
  /\ group' = IF p \in group THEN group \cup {k} ELSE group
  /\ holders' = [s \in Streams |->
                   IF p \in holders[s] THEN holders[s] \cup {k} ELSE holders[s]]
  /\ UNCHANGED <<streams, main>>

\* setsid: a session leader, as the command is, cannot leave.
LeaveGroup(k) ==
  /\ k \in group \ {Leader} /\ state[k] = "running"
  /\ group' = group \ {k}
  /\ UNCHANGED <<state, holders, streams, main>>

ClosePipe(p, s) ==
  /\ state[p] = "running" /\ p \in holders[s]
  /\ holders' = [holders EXCEPT ![s] = @ \ {p}]
  /\ UNCHANGED <<state, group, streams, main>>

Emit(p, s) ==
  /\ state[p] = "running" /\ p \in holders[s] /\ reader[s] # "ended"
  /\ emitted[s] < MaxChunks
  /\ emitted' = [emitted EXCEPT ![s] = @ + 1]
  /\ UNCHANGED <<tree, captured, reader, readerErrors, main>>

\* Whether on its own, on TERM or on KILL; only the leader awaits a wait().
Exit(p) ==
  /\ state[p] \in {"running", "dying"}
  /\ state' = [state EXCEPT ![p] = IF p = Leader THEN "zombie" ELSE "gone"]
  /\ holders' = [s \in Streams |-> holders[s] \ {p}]
  /\ UNCHANGED <<group, streams, main>>

--------------------------------------------------------------------------------
(* _drain_stream: one thread per stream.                                   *)

\* Mutant: the empty read at end of file counts as a chunk.
Drain_EmptyRead(s) ==
  /\ reader[s] = "reading" /\ captured[s] <= emitted[s]
  /\ captured' = [captured EXCEPT ![s] = @ + 1]
  /\ UNCHANGED <<tree, emitted, reader, readerErrors, main>>

Drain(s) ==
  /\ reader[s] = "reading" /\ captured[s] < emitted[s]
  /\ captured' = [captured EXCEPT ![s] = @ + 1]
  /\ UNCHANGED <<tree, emitted, reader, readerErrors, main>>

\* Mutant: the reader stops at the leader's exit instead of at end of file.
EndOfFile_AtExit(s) ==
  /\ reader[s] = "reading" /\ captured[s] = emitted[s]
  /\ state[Leader] \in {"zombie", "gone"}
  /\ reader' = [reader EXCEPT ![s] = "ended"]
  /\ UNCHANGED <<tree, emitted, captured, readerErrors, main>>

EndOfFile(s) ==
  /\ reader[s] = "reading" /\ captured[s] = emitted[s] /\ holders[s] = {}
  /\ reader' = [reader EXCEPT ![s] = "ended"]
  /\ UNCHANGED <<tree, emitted, captured, readerErrors, main>>

\* The error is listed before the thread ends.
ReadFails(s) ==
  /\ reader[s] = "reading"
  /\ reader' = [reader EXCEPT ![s] = "ended"]
  /\ readerErrors' = readerErrors \cup {s}
  /\ UNCHANGED <<tree, emitted, captured, main>>

Draining == \E s \in Streams : reader[s] = "reading"

--------------------------------------------------------------------------------
(* run_bounded_process.                                                    *)

\* The threads are made and the try is entered: the command already runs.
Protect ==
  /\ pc = "starting"
  /\ pc' = "waiting"
  /\ UNCHANGED <<tree, streams, mode, errors>>

StartReader(s) ==
  /\ pc = "waiting" /\ reader[s] = "idle"
  /\ reader' = [reader EXCEPT ![s] = "reading"]
  /\ UNCHANGED <<tree, emitted, captured, readerErrors, main>>

\* process.wait returns and reaps the leader, or its timeout expires.
WaitEnds ==
  /\ pc = "waiting" /\ \A s \in Streams : reader[s] # "idle"
  /\ state' = Reaped
  /\ pc' = "terminating"
  /\ UNCHANGED <<group, holders, streams, mode, errors>>

\* killpg(TERM); ProcessLookupError when the group is gone.
Terminate ==
  /\ pc = "terminating"
  /\ pc' = IF GroupExists THEN "grace" ELSE "joining"
  /\ state' = IF GroupExists THEN state ELSE Reaped
  /\ UNCHANGED <<group, holders, streams, mode, errors>>

SignalFails ==
  /\ pc \in {"terminating", "killing"}
  /\ errors' = errors \cup {"signal"}
  /\ pc' = "joining"
  /\ UNCHANGED <<tree, streams, mode>>

\* Mutant: the grace period ends with the leader, not with its group.
GraceEnds_WithLeader ==
  /\ pc = "grace"
  /\ state' = Reaped
  /\ pc' = IF state'[Leader] = "gone" THEN "joining" ELSE "killing"
  /\ UNCHANGED <<group, holders, streams, mode, errors>>

\* _wait_for_process_group_exit reaps the leader, probes the group, sleeps.
Poll ==
  /\ pc = "grace" /\ state[Leader] = "zombie"
  /\ state' = Reaped
  /\ UNCHANGED <<group, holders, streams, main>>

GraceEnds ==
  /\ pc = "grace"
  /\ pc' = IF GroupExists THEN "killing" ELSE "joining"
  /\ UNCHANGED <<tree, streams, mode, errors>>

\* Mutant: only the leader is killed.
Kill_LeaderOnly ==
  /\ pc = "killing"
  /\ state' = IF state[Leader] = "running" THEN [state EXCEPT ![Leader] = "dying"]
              ELSE Reaped
  /\ pc' = IF GroupExists THEN "leaderwait" ELSE "joining"
  /\ UNCHANGED <<group, holders, streams, mode, errors>>

Kill ==
  /\ pc = "killing"
  /\ state' = IF GroupExists
                THEN [p \in Tree |-> IF p \in group /\ state[p] = "running"
                                     THEN "dying" ELSE state[p]]
                ELSE Reaped
  /\ pc' = IF GroupExists THEN "leaderwait" ELSE "joining"
  /\ UNCHANGED <<group, holders, streams, mode, errors>>

\* The leader, and only the leader, is awaited after KILL.
LeaderWaitEnds ==
  /\ pc = "leaderwait"
  /\ state' = Reaped
  /\ errors' = IF state'[Leader] = "gone" THEN errors ELSE errors \cup {"leader"}
  /\ pc' = "joining"
  /\ UNCHANGED <<group, holders, streams, mode>>

\* Mutant: the readers are joined without a timeout.
JoinEnds_Unbounded ==
  /\ pc = "joining" /\ ~Draining
  /\ pc' = IF mode = "cleanup" THEN "raised" ELSE "returned"
  /\ errors' = IF readerErrors # {} THEN errors \cup {"capture"} ELSE errors
  /\ UNCHANGED <<tree, streams, mode>>

\* The readers are joined, for a bounded time: if one still reads, the group
\* is terminated once more, and after that the pipes are given up.
JoinEnds ==
  /\ pc = "joining"
  /\ IF Draining /\ mode = "first"
       THEN pc' = "terminating" /\ mode' = "second" /\ UNCHANGED errors
       ELSE /\ pc' = IF mode = "cleanup" THEN "raised" ELSE "returned"
            /\ errors' = errors \cup (IF Draining THEN {"pipes"} ELSE {})
                                \cup (IF readerErrors # {} THEN {"capture"} ELSE {})
            /\ UNCHANGED mode
  /\ UNCHANGED <<tree, streams>>

\* An exception inside the try (a thread that cannot start, an interrupt):
\* the handler terminates the group and joins the readers before it raises.
Interrupt ==
  /\ pc \notin {"starting", "returned", "raised"} /\ mode \in {"first", "second"}
  /\ pc' = "terminating" /\ mode' = "cleanup" /\ errors' = {}
  /\ UNCHANGED <<tree, streams>>

\* An exception that nothing catches: before the try, or inside the handler.
\* It leaves the group to itself unless the handler is past the signals.
Abandon ==
  /\ pc = "starting" \/ (mode = "cleanup" /\ pc # "raised")
  /\ pc' = "raised"
  /\ mode' = IF pc = "joining" THEN mode ELSE "abandoned"
  /\ UNCHANGED <<tree, streams, errors>>

--------------------------------------------------------------------------------

Caller ==
  \/ Protect \/ \E s \in Streams : StartReader(s)
  \/ WaitEnds \/ Terminate \/ GraceEnds \/ Kill \/ LeaderWaitEnds \/ JoinEnds

Next ==
  \/ \E p \in Tree :
       \/ \E k \in Kids : Fork(p, k)
       \/ LeaveGroup(p) \/ Exit(p)
       \/ \E s \in Streams : ClosePipe(p, s) \/ Emit(p, s)
  \/ \E s \in Streams : Drain(s) \/ EndOfFile(s) \/ ReadFails(s)
  \/ Caller \/ Poll \/ SignalFails \/ Interrupt \/ Abandon

Spec == Init /\ [][Next]_vars

\* The caller's waits all have a timeout, so its next step always comes; the
\* tree and the readers owe nothing.
FairSpec == Spec /\ WF_vars(Caller)

--------------------------------------------------------------------------------
(* Properties.                                                             *)

\* Types of the tree, the streams and the caller.
TypeOK ==
  /\ state \in [Tree -> {"unborn", "running", "dying", "zombie", "gone"}]
  /\ group \subseteq Tree /\ Leader \in group
  /\ holders \in [Streams -> SUBSET Tree]
  /\ \A s \in Streams : captured[s] \in 0..emitted[s] /\ emitted[s] \in 0..MaxChunks
  /\ reader \in [Streams -> {"idle", "reading", "ended"}] /\ readerErrors \subseteq Streams
  /\ pc \in {"starting", "waiting", "terminating", "grace", "killing", "leaderwait",
             "joining", "returned", "raised"}
  /\ mode \in {"first", "second", "cleanup", "abandoned"}
  /\ errors \subseteq {"signal", "leader", "pipes", "capture"}

Clean == pc = "returned" /\ errors = {}

\* A result without containment error means that no process of the group
\* will ever run again, whatever the tree forked and when.
CleanIsContained == Clean => \A p \in group : state[p] # "running"

\* ... that everything the tree wrote is in the captured output, that nobody
\* can write more, ...
CleanIsCaptured ==
  Clean => \A s \in Streams : captured[s] = emitted[s] /\ holders[s] = {}

\* ... and that the command's exit status is known.
CleanIsReaped == Clean => state[Leader] = "gone"

\* An exception that the handler caught does not leave the command's group
\* running either, wherever in the try it came and whatever pass was under
\* way, unless the signals were refused or a second exception came before the
\* group was signalled to the end.  What comes before the try is not caught.
RaiseIsContained ==
  pc = "raised" /\ mode # "abandoned" /\ "signal" \notin errors
    => \A p \in group : state[p] # "running"

\* The call ends however the tree behaves.
CallEnds == <>(pc \in {"returned", "raised"})

================================================================================
