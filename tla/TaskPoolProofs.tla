---------------------------- MODULE TaskPoolProofs ----------------------------
(***************************************************************************)
(* Theorems about TaskPoolBuild, for any builders, readers, events,        *)
(* repetitions of the checks and faults: what is published is certified,   *)
(* and what a publisher synced stays, whole, through every power loss.     *)
(***************************************************************************)
EXTENDS TaskPoolBuild, TLAPS

Publishing == {"publish", "stage", "sync", "rename", "parent", "compare"}
Places == {"idle", "base", "reference", "refused"} \cup Publishing
Op == [at : Places, bundle : Bundle \cup {Nothing}, base : Seq(Outcomes),
       reference : Seq(Outcomes), synced : BOOLEAN]
Target == [bundle : Bundle, synced : {TRUE}]

\* Every event was in time and is decided, and what is accepted has its evidence.
Certified(bundle) ==
  \A e \in Events :
    /\ history[e] \notin {"late", "lateOutside"}
    /\ bundle[e].is # "candidate"
    /\ bundle[e].is = "accepted" => All(bundle[e].base, "fail") /\ All(bundle[e].reference, "pass")

\* A builder has a bundle, a frozen one once it publishes; it renames what it synced,
\* and until it syncs the parent nobody replaces what it renamed.
Builds(o) ==
  /\ IF o.at = "idle" THEN o = Idle ELSE o.bundle \in Bundle
  /\ o.at \in Publishing => o.bundle \in frozen
  /\ o.at = "rename" => o.synced = TRUE
  /\ o.at = "parent" => target # Absent /\ target.bundle = o.bundle

FrozenInv == frozen \subseteq Bundle /\ \A bundle \in frozen : Certified(bundle)
TargetInv == target # Absent => target \in Target /\ target.bundle \in frozen
KeptInv   ==
  \A bundle \in kept : entry /\ target # Absent /\ target.bundle = bundle /\ bundle \in frozen
ReaderInv == known \subseteq frozen /\ \A r \in Readers : reading[r] = Nothing \/ reading[r] \in frozen

PoolInv ==
  /\ history \in Histories /\ entry \in BOOLEAN /\ reading \in [Readers -> Bundle \cup {Nothing}]
  /\ op \in [Builders -> Op] /\ \A p \in Builders : Builds(op[p])
  /\ FrozenInv /\ TargetInv /\ KeptInv /\ ReaderInv

--------------------------------------------------------------------------------
(* What builders and readers keep.                                         *)

\* Nobody is idle without the idle place.
LEMMA IdleIsTyped == Idle \in Op /\ Idle.at = "idle" /\ Undecided \in Entries /\ Excluded \in Entries
<1>1. <<>> \in Seq(Outcomes)
  OBVIOUS
<1> QED
  BY <1>1 DEF Idle, Op, Places, Nothing, Undecided, Excluded, Entries

\* A step that gives one builder a sound state, and takes nothing away, keeps the rest.
LEMMA OneBuilderMoves ==
  ASSUME PoolInv, NEW p \in Builders, NEW o \in Op, Put(p, o),
         UNCHANGED <<history, reading>>, frozen \subseteq frozen', FrozenInv',
         entry' \in BOOLEAN, TargetInv', KeptInv', known' \subseteq frozen',
         target # Absent => target' = target,
         Builds(o)'
  PROVE  PoolInv'
<1>1. op' \in [Builders -> Op] /\ op'[p] = o /\ \A q \in Builders \ {p} : op'[q] = op[q]
  BY DEF PoolInv, Put
<1>2. ASSUME NEW q \in Builders PROVE Builds(op[q])'
  <2>1. CASE q = p
    BY <1>1, <2>1 DEF Builds
  <2>2. CASE q # p
    BY <1>1, <2>2 DEF PoolInv, Builds
  <2> QED
    BY <2>1, <2>2
<1>3. ReaderInv'
  BY DEF PoolInv, ReaderInv
<1> QED
  BY <1>1, <1>2, <1>3 DEF PoolInv

\* The same for the steps that touch the builder's own state only.
LEMMA QuietMove ==
  ASSUME PoolInv, NEW p \in Builders, NEW o \in Op, Put(p, o),
         UNCHANGED <<history, disk, reading, frozen, kept>>, known' \subseteq frozen,
         Builds(o)
  PROVE  PoolInv'
<1>1. FrozenInv' /\ TargetInv' /\ KeptInv' /\ entry' \in BOOLEAN
  BY DEF PoolInv, FrozenInv, TargetInv, KeptInv, Certified, disk
<1>2. Builds(o)'
  BY DEF Builds, disk
<1> QED
  BY <1>1, <1>2, OneBuilderMoves DEF disk

\* A builder that ends its call.
LEMMA LeaveKeeps ==
  ASSUME PoolInv, NEW p \in Builders, Leave(p),
         UNCHANGED <<history, disk, reading, frozen, kept>>, known' \subseteq frozen
  PROVE  PoolInv'
<1>1. Idle \in Op /\ Builds(Idle)
  BY IdleIsTyped DEF Builds, Publishing
<1> QED
  BY <1>1, QuietMove DEF Leave

\* A builder that moves on with what it has.
LEMMA GoKeeps ==
  ASSUME PoolInv, NEW p \in Builders, NEW at \in Places, Go(p, at),
         UNCHANGED <<history, disk, reading, frozen, kept>>, known' \subseteq frozen,
         op[p].at # "idle", at \in Publishing => op[p].at \in Publishing,
         at # "idle", at # "rename", at # "parent"
  PROVE  PoolInv'
<1>1. op[p] \in Op /\ Builds(op[p])
  BY DEF PoolInv
<1>2. [op[p] EXCEPT !.at = at] \in Op
  BY <1>1 DEF Op
<1>3. Builds([op[p] EXCEPT !.at = at])
  BY <1>1 DEF Builds, Op
<1> QED
  BY <1>2, <1>3, QuietMove DEF Go

\* A decision about the current event is an entry of the bundle.
LEMMA DecideKeeps ==
  ASSUME PoolInv, NEW p \in Builders, op[p].at \in {"base", "reference"},
         NEW is \in {"accepted", "rejected"}, NEW base \in Seq(Outcomes),
         NEW reference \in Seq(Outcomes), Decide(p, is, base, reference),
         UNCHANGED <<history, disk, reading, frozen, known, kept>>
  PROVE  PoolInv'
<1> DEFINE decided == [is |-> is, base |-> base, reference |-> reference]
           o == [op[p] EXCEPT !.at = "base", !.base = <<>>, !.reference = <<>>,
                              !.bundle[Current(p)] = decided]
<1>1. op[p] \in Op /\ Builds(op[p]) /\ op[p].bundle \in Bundle
  BY DEF PoolInv, Builds
<1>2. decided \in Entries /\ <<>> \in Seq(Outcomes)
  BY DEF Entries
<1>3. [op[p].bundle EXCEPT ![Current(p)] = decided] \in Bundle
  BY <1>1, <1>2 DEF Bundle
<1>4. o \in Op /\ o.at = "base" /\ o.bundle \in Bundle
  <2> HIDE DEF decided
  <2> QED
    BY <1>1, <1>2, <1>3 DEF Op, Places
<1>5. Builds(o)
  BY <1>4 DEF Builds, Publishing
<1>6. known' \subseteq frozen
  BY DEF PoolInv, ReaderInv
<1> QED
  BY <1>4, <1>5, <1>6, QuietMove DEF Decide

--------------------------------------------------------------------------------
(* The steps.                                                              *)

LEMMA CheckBaseKeeps ==
  ASSUME PoolInv, NEW p \in Builders, CheckBase(p)
  PROVE  PoolInv'
<1> USE DEF CheckBase
<1>0. op[p] \in Op /\ Builds(op[p]) /\ known \subseteq frozen /\ op[p].at = "base"
  BY DEF PoolInv, ReaderInv
<1>1. PICK outcome \in Outcomes :
        LET base == Append(op[p].base, outcome) IN
        CASE outcome = "setup" -> Leave(p)
          [] outcome = "fail"  -> Put(p, [op[p] EXCEPT !.at = "reference", !.base = base])
          [] OTHER             -> Decide(p, "rejected", base, op[p].reference)
  OBVIOUS
<1> DEFINE base == Append(op[p].base, outcome)
<1>2. base \in Seq(Outcomes) /\ op[p].reference \in Seq(Outcomes)
  BY <1>0 DEF Op
<1>3. CASE Leave(p)
  BY <1>0, <1>3, LeaveKeeps DEF disk
<1>4. CASE Put(p, [op[p] EXCEPT !.at = "reference", !.base = base])
  <2> DEFINE o == [op[p] EXCEPT !.at = "reference", !.base = base]
  <2>1. o \in Op /\ Builds(o)
    <3> HIDE DEF base
    <3> QED
      BY <1>0, <1>2 DEF Op, Places, Builds, Publishing
  <2> QED
    BY <1>0, <1>4, <2>1, QuietMove
<1>5. CASE Decide(p, "rejected", base, op[p].reference)
  BY <1>0, <1>2, <1>5, DecideKeeps
<1> QED
  BY <1>1, <1>3, <1>4, <1>5

LEMMA CheckReferenceKeeps ==
  ASSUME PoolInv, NEW p \in Builders, CheckReference(p)
  PROVE  PoolInv'
<1> USE DEF CheckReference
<1>0. op[p] \in Op /\ Builds(op[p]) /\ known \subseteq frozen /\ op[p].at = "reference"
  BY DEF PoolInv, ReaderInv
<1>1. PICK outcome \in Outcomes :
        LET reference == Append(op[p].reference, outcome) IN
        CASE outcome = "setup" -> Leave(p)
          [] outcome = "pass" /\ Len(reference) < Repeat ->
               Put(p, [op[p] EXCEPT !.at = "base", !.reference = reference])
          [] outcome = "pass" /\ Len(reference) = Repeat ->
               Decide(p, "accepted", op[p].base, reference)
          [] OTHER -> Decide(p, "rejected", op[p].base, reference)
  OBVIOUS
<1> DEFINE reference == Append(op[p].reference, outcome)
<1>2. reference \in Seq(Outcomes) /\ op[p].base \in Seq(Outcomes)
  BY <1>0 DEF Op
<1>3. CASE Leave(p)
  BY <1>0, <1>3, LeaveKeeps DEF disk
<1>4. CASE Put(p, [op[p] EXCEPT !.at = "base", !.reference = reference])
  <2> DEFINE o == [op[p] EXCEPT !.at = "base", !.reference = reference]
  <2>1. o \in Op /\ Builds(o)
    <3> HIDE DEF reference
    <3> QED
      BY <1>0, <1>2 DEF Op, Places, Builds, Publishing
  <2> QED
    BY <1>0, <1>4, <2>1, QuietMove
<1>5. ASSUME NEW is \in {"accepted", "rejected"}, Decide(p, is, op[p].base, reference)
      PROVE  PoolInv'
  BY <1>0, <1>2, <1>5, DecideKeeps
<1> QED
  BY <1>1, <1>3, <1>4, <1>5

\* Only a bundle that validates is frozen, and by then every event is decided.
LEMMA FreezeKeeps ==
  ASSUME PoolInv, NEW p \in Builders, Freeze(p)
  PROVE  PoolInv'
<1> USE DEF Freeze
<1>0. op[p] \in Op /\ Builds(op[p]) /\ known \subseteq frozen /\ op[p].at = "base" /\ op[p].bundle \in Bundle
  BY DEF PoolInv, ReaderInv, Builds
<1>1. CASE ~Validates(op[p].bundle)
  <2>1. Go(p, "refused") /\ "refused" \in Places \ Publishing
    BY <1>1 DEF Places, Publishing
  <2> QED
    BY <1>0, <1>1, <2>1, GoKeeps
<1>2. CASE Validates(op[p].bundle)
  <2>0. PICK o : o = [op[p] EXCEPT !.at = "publish"]
    OBVIOUS
  <2>1. frozen' = frozen \cup {op[p].bundle} /\ Put(p, o) /\ UNCHANGED <<history, disk, reading, known, kept>>
    BY <1>2, <2>0 DEF Go
  <2>2. Certified(op[p].bundle)
    BY <1>2 DEF Validates, Certified, Pending
  <2>3. o \in Op /\ Builds(o)'
    BY <1>0, <2>0, <2>1 DEF Op, Places, Builds, Publishing
  <2>4. FrozenInv'
    BY <1>0, <2>1, <2>2 DEF PoolInv, FrozenInv, Certified
  <2>5. TargetInv' /\ KeptInv'
    BY <2>1 DEF PoolInv, TargetInv, KeptInv, disk
  <2> QED
    BY <1>0, <2>1, <2>3, <2>4, <2>5, OneBuilderMoves DEF PoolInv, disk
<1> QED
  BY <1>1, <1>2

\* A directory that is there is not replaced; an absent one becomes a synced bundle.
LEMMA RenameKeeps ==
  ASSUME PoolInv, NEW p \in Builders, Rename(p)
  PROVE  PoolInv'
<1> USE DEF Rename
<1>0. op[p] \in Op /\ Builds(op[p]) /\ known \subseteq frozen /\ op[p].at = "rename"
      /\ op[p].bundle \in Bundle /\ op[p].bundle \in frozen /\ op[p].synced = TRUE
  BY DEF PoolInv, ReaderInv, Builds, Publishing
<1>1. CASE target # Absent
  <2>1. Go(p, "compare") /\ "compare" \in Places /\ "rename" \in Publishing
    BY <1>1 DEF Places, Publishing
  <2> QED
    BY <1>0, <1>1, <2>1, GoKeeps
<1>2. CASE target = Absent
  <2>0. PICK o : o = [op[p] EXCEPT !.at = "parent"]
    OBVIOUS
  <2>1. target' = [bundle |-> op[p].bundle, synced |-> op[p].synced] /\ entry' = FALSE /\ Put(p, o)
        /\ UNCHANGED <<history, reading, frozen, known, kept>>
    BY <1>2, <2>0 DEF Go
  <2>2. target' # Absent /\ target' \in Target /\ target'.bundle = op[p].bundle
    <3>1. target' \in [bundle : Bundle, synced : BOOLEAN] /\ target'.synced = TRUE
          /\ target'.bundle = op[p].bundle
      BY <1>0, <2>1
    <3>2. target' # Absent
      BY <3>1, BuildConstants
    <3> QED
      BY <3>1, <3>2 DEF Target
  <2>3. kept = {}
    BY <1>2 DEF PoolInv, KeptInv
  <2>4. o \in Op /\ Builds(o)'
    BY <1>0, <2>0, <2>1, <2>2 DEF Op, Places, Builds, Publishing
  <2>5. FrozenInv' /\ TargetInv' /\ KeptInv'
    BY <1>0, <2>1, <2>2, <2>3 DEF PoolInv, FrozenInv, TargetInv, KeptInv, Certified
  <2> QED
    BY <1>0, <1>2, <2>1, <2>4, <2>5, OneBuilderMoves
<1> QED
  BY <1>1, <1>2

\* What is kept is what the parent of which was synced.
LEMMA SyncParentKeeps ==
  ASSUME PoolInv, NEW p \in Builders, SyncParent(p)
  PROVE  PoolInv'
<1> USE DEF SyncParent
<1>0. op[p] \in Op /\ Builds(op[p]) /\ known \subseteq frozen /\ op[p].bundle \in frozen
      /\ target # Absent /\ target.bundle = op[p].bundle
  BY DEF PoolInv, ReaderInv, Builds, Publishing
<1>1. Put(p, Idle) /\ entry' = TRUE /\ kept' = kept \cup {op[p].bundle} /\ known' = known \cup {op[p].bundle}
      /\ UNCHANGED <<history, target, reading, frozen>>
  BY DEF Return, Leave
<1>2. Idle \in Op /\ Builds(Idle)'
  BY IdleIsTyped DEF Builds, Publishing
<1>3. FrozenInv' /\ TargetInv' /\ KeptInv'
  BY <1>0, <1>1 DEF PoolInv, FrozenInv, TargetInv, KeptInv, Certified
<1> QED
  BY <1>0, <1>1, <1>2, <1>3, OneBuilderMoves

\* The other steps of a publication.
LEMMA PublishKeeps ==
  ASSUME PoolInv, NEW p \in Builders,
         Probe(p) \/ Stage(p) \/ SyncStaged(p) \/ SyncParentFails(p) \/ Compare(p)
  PROVE  PoolInv'
<1>0. op[p] \in Op /\ Builds(op[p]) /\ known \subseteq frozen
  BY DEF PoolInv, ReaderInv
<1>1. Publishing \subseteq Places
  BY DEF Places
<1>2. CASE Probe(p) \/ Stage(p) \/ SyncParentFails(p)
  <2>1. /\ UNCHANGED <<history, disk, reading, frozen, known, kept>>
        /\ op[p].at \in Publishing
        /\ \E at \in {"stage", "compare", "sync"} : Go(p, at)
    BY <1>2 DEF Probe, Stage, SyncParentFails, Publishing
  <2>2. PICK at \in {"stage", "compare", "sync"} : Go(p, at)
    BY <2>1
  <2>3. at \in Publishing /\ at # "rename" /\ at # "parent" /\ op[p].at # "idle"
    BY <2>1 DEF Publishing
  <2> QED
    BY <1>0, <1>1, <2>1, <2>2, <2>3, GoKeeps
<1>3. CASE SyncStaged(p)
  <2> DEFINE o == [op[p] EXCEPT !.at = "rename", !.synced = TRUE]
  <2>1. Put(p, o) /\ UNCHANGED <<history, disk, reading, frozen, known, kept>> /\ op[p].at = "sync"
    BY <1>3 DEF SyncStaged
  <2>2. o \in Op /\ Builds(o)
    BY <1>0, <2>1 DEF Op, Places, Builds, Publishing
  <2> QED
    BY <1>0, <2>1, <2>2, QuietMove
<1>4. CASE Compare(p)
  <2>1. Leave(p) /\ UNCHANGED <<history, disk, reading, frozen, kept>> /\ op[p].bundle \in frozen
    BY <1>0, <1>4 DEF Compare, Return, Builds, Publishing
  <2>2. known' \subseteq frozen
    BY <1>0, <1>4, <2>1 DEF Compare, Return
  <2> QED
    BY <2>1, <2>2, LeaveKeeps
<1> QED
  BY <1>2, <1>3, <1>4

\* Beginning a build or a publication, giving one up, and being killed.
LEMMA CallKeeps ==
  ASSUME PoolInv, NEW p \in Builders, Build(p) \/ Republish(p) \/ Refused(p) \/ Kill(p)
  PROVE  PoolInv'
<1>0. op[p] \in Op /\ known \subseteq frozen
  BY DEF PoolInv, ReaderInv
<1>1. CASE Build(p)
  <2> DEFINE bundle == [e \in Events |-> IF IsCandidate(e) THEN Undecided ELSE Excluded]
             o == [Idle EXCEPT !.at = "base", !.bundle = bundle]
  <2>1. bundle \in Bundle
    BY IdleIsTyped DEF Bundle
  <2>2. o \in Op /\ Builds(o)
    <3> HIDE DEF bundle
    <3>1. o.at = "base" /\ o.bundle = bundle
      BY DEF Idle
    <3>2. o \in Op
      BY <2>1, IdleIsTyped DEF Op, Places, Idle
    <3> QED
      BY <2>1, <3>1, <3>2 DEF Builds, Publishing
  <2>3. Put(p, o) /\ UNCHANGED <<history, disk, reading, frozen, known, kept>>
    BY <1>1 DEF Build
  <2> QED
    BY <1>0, <2>2, <2>3, QuietMove
<1>2. CASE Republish(p)
  <2>1. PICK bundle \in frozen : Put(p, [Idle EXCEPT !.at = "publish", !.bundle = bundle])
    BY <1>2 DEF Republish
  <2> DEFINE o == [Idle EXCEPT !.at = "publish", !.bundle = bundle]
  <2>2. o.at = "publish" /\ o.bundle = bundle /\ bundle \in Bundle
    BY DEF Idle, PoolInv, FrozenInv
  <2>3. o \in Op
    BY <2>2, IdleIsTyped DEF Op, Places, Publishing, Idle
  <2>4. Builds(o)
    BY <2>2 DEF Builds
  <2> QED
    BY <1>0, <1>2, <2>1, <2>3, <2>4, QuietMove DEF Republish
<1>3. CASE Refused(p) \/ Kill(p)
  BY <1>0, <1>3, LeaveKeeps DEF Refused, Kill
<1> QED
  BY <1>1, <1>2, <1>3

\* A reader knows a bundle whose manifest it read and whose members it found.
LEMMA ReaderKeeps ==
  ASSUME PoolInv, NEW r \in Readers, OpenManifest(r) \/ OpenMembers(r)
  PROVE  PoolInv'
<1>1. /\ UNCHANGED <<history, disk, op, frozen, kept>> /\ Nothing \in Bundle \cup {Nothing}
      /\ \A q \in Readers : reading'[q] \in {reading[q], Nothing} \/ reading'[q] \in frozen
  <2>1. target # Absent => target.bundle \in frozen
    BY DEF PoolInv, TargetInv
  <2> QED
    BY <2>1 DEF OpenManifest, OpenMembers, PoolInv, disk
<1>2. reading' \in [Readers -> Bundle \cup {Nothing}]
  BY <1>1 DEF OpenManifest, OpenMembers, PoolInv, FrozenInv, TargetInv
<1>3. known' \subseteq frozen
  BY DEF OpenManifest, OpenMembers, PoolInv, TargetInv, ReaderInv
<1>4. \A p \in Builders : Builds(op[p])'
  BY <1>1 DEF PoolInv, Builds, disk
<1> QED
  BY <1>1, <1>2, <1>3, <1>4
     DEF PoolInv, FrozenInv, TargetInv, KeptInv, ReaderInv, Certified, disk

\* Power takes the directory only while its entry is not durable, and it is whole.
LEMMA PowerLossKeeps ==
  ASSUME PoolInv, PowerLoss
  PROVE  PoolInv'
<1> USE DEF PowerLoss
<1>1. target \in Target /\ target.synced = TRUE
  BY DEF PoolInv, TargetInv, Target
<1>2. \/ target' = target /\ entry' = TRUE
      \/ ~entry /\ target' = Absent /\ entry' = entry
  BY <1>1
<1>3. op' \in [Builders -> Op] /\ \A p \in Builders : Builds(op[p])'
  BY IdleIsTyped DEF Builds, Publishing
<1>4. FrozenInv' /\ TargetInv' /\ KeptInv' /\ ReaderInv'
  BY <1>2 DEF PoolInv, FrozenInv, TargetInv, KeptInv, ReaderInv, Certified
<1> QED
  BY <1>2, <1>3, <1>4 DEF PoolInv, Nothing

--------------------------------------------------------------------------------
(* The theorems.                                                           *)

LEMMA PoolInit == Init => PoolInv
<1> SUFFICES ASSUME Init PROVE PoolInv
  OBVIOUS
<1>1. op \in [Builders -> Op] /\ \A p \in Builders : Builds(op[p])
  BY IdleIsTyped DEF Init, Builds, Publishing
<1> QED
  BY <1>1 DEF Init, PoolInv, FrozenInv, TargetInv, KeptInv, ReaderInv, Nothing

LEMMA PoolNext == PoolInv /\ [Next]_vars => PoolInv'
<1> SUFFICES ASSUME PoolInv, [Next]_vars PROVE PoolInv'
  OBVIOUS
<1>1. CASE UNCHANGED vars
  <2>1. \A p \in Builders : Builds(op[p])'
    BY <1>1 DEF PoolInv, Builds, vars, disk
  <2> QED
    BY <1>1, <2>1 DEF PoolInv, FrozenInv, TargetInv, KeptInv, ReaderInv, Certified, vars, disk
<1>2. CASE PowerLoss
  BY <1>2, PowerLossKeeps
<1>3. ASSUME NEW p \in Builders,
             \/ Build(p) \/ Certify(p) \/ Republish(p) \/ Publish(p) \/ SyncParentFails(p) \/ Kill(p)
      PROVE  PoolInv'
  BY <1>3, CheckBaseKeeps, CheckReferenceKeeps, FreezeKeeps, RenameKeeps, SyncParentKeeps,
     PublishKeeps, CallKeeps DEF Certify, Publish
<1>4. ASSUME NEW r \in Readers, OpenManifest(r) \/ OpenMembers(r) PROVE PoolInv'
  BY <1>4, ReaderKeeps
<1> QED
  BY <1>1, <1>2, <1>3, <1>4 DEF Next

\* The invariant of building and publishing holds in every reachable state.
THEOREM PoolInvariant == Spec => []PoolInv
  BY PoolInit, PoolNext, PTL DEF Spec

\* Every reachable state of building and publishing is well typed.
THEOREM TypeInvariant == Spec => []TypeOK
<1>1. PoolInv => TypeOK
  <2> SUFFICES ASSUME PoolInv PROVE TypeOK
    OBVIOUS
  <2>1. \A p \in Builders : op[p] = Idle \/ op[p].bundle \in Bundle
    BY DEF PoolInv, Builds
  <2> QED
    BY <2>1 DEF PoolInv, TypeOK, FrozenInv, TargetInv, KeptInv, ReaderInv, Target
<1> QED
  BY <1>1, PoolInvariant, PTL

\* Whatever several builders, kills and power losses do, a published bundle holds only
\* decided events, none later than the pool, and every accepted one has the outcomes of
\* all its repeated checks.
THEOREM OnlyCertifiedIsPublished == Spec => []PublishedIsCertified
<1>1. PoolInv => PublishedIsCertified
  BY DEF PoolInv, TargetInv, FrozenInv, Certified, PublishedIsCertified
<1> QED
  BY <1>1, PoolInvariant, PTL

\* A publication that synced the parent directory is never undone, replaced or torn.
THEOREM SyncedPublicationStays == Spec => []KeptStays
<1>1. PoolInv => KeptStays
  BY DEF PoolInv, KeptInv, TargetInv, Target, KeptStays
<1> QED
  BY <1>1, PoolInvariant, PTL

================================================================================
