---------------------------- MODULE TaskPoolBuild ----------------------------
(***************************************************************************)
(* build_task_pool: a source history is filtered, every candidate is       *)
(* certified by repeated checks, the pool is frozen and validated, and its *)
(* bundle is staged, synced and renamed to its directory.  Certification   *)
(* and validation are separate code, and so are they here.                 *)
(*                                                                         *)
(* The model has one bundle directory: builders that repeat a build or     *)
(* whose bundles differ all meet in it.  Checks answer what they like.     *)
(* Builders are killed anywhere, directory fsyncs fail, power is lost.     *)
(***************************************************************************)
EXTENDS Naturals, Sequences, FiniteSets

CONSTANTS
  Builders, Readers,
  Events,      \* source events, numbered in the order of the source
  Histories,   \* the source histories considered, from Events to Kinds
  Repeat,      \* CertificationConfig.repeat_count
  MaxBuilds,   \* bound: builds begun
  MaxFaults,   \* bound: kills, failed directory fsyncs and power losses
  Absent

\* The filter's reasons to exclude an event are one here.  A late event names a time
\* after the pool's created_at.
Kinds == {"candidate", "late", "outside", "lateOutside"}
Outcomes == {"fail", "pass", "setup"}   \* an invalid check is neither wanted outcome
Entries == [is : {"candidate", "excluded", "accepted", "rejected"},
            base : Seq(Outcomes), reference : Seq(Outcomes)]
Bundle == [Events -> Entries]
ASSUME BuildConstants ==
  /\ Events \subseteq Nat /\ IsFiniteSet(Events)
  /\ Histories \subseteq [Events -> Kinds]
  /\ Repeat \in Nat \ {0} /\ MaxBuilds \in Nat /\ MaxFaults \in Nat
  /\ Absent \notin [bundle : Bundle, synced : BOOLEAN]

VARIABLES
  history,  \* the source history
  target,   \* the published directory
  entry,    \* its directory entry is durable
  op,       \* what each builder is doing
  reading,  \* the manifest each reader has read
  frozen,   \* bundles that were frozen, for later publication
  known,    \* bundles given to live callers by a publication or a reader
  kept,     \* bundles whose publication synced the target's parent
  builds, faults

vars == <<history, target, entry, op, reading, frozen, known, kept, builds, faults>>
disk == <<target, entry>>

Undecided == [is |-> "candidate", base |-> <<>>, reference |-> <<>>]
Excluded  == [is |-> "excluded", base |-> <<>>, reference |-> <<>>]
IsCandidate(e) == history[e] \in {"candidate", "late"}
Idle == [at |-> "idle", bundle |-> <<>>, base |-> <<>>, reference |-> <<>>, synced |-> FALSE]
Nothing == <<>>

Init ==
  /\ history \in Histories
  /\ target = Absent /\ entry = FALSE
  /\ op = [p \in Builders |-> Idle] /\ reading = [r \in Readers |-> Nothing]
  /\ frozen = {} /\ known = {} /\ kept = {} /\ builds = 0 /\ faults = 0

Put(p, o)   == op' = [op EXCEPT ![p] = o]
Go(p, at)   == Put(p, [op[p] EXCEPT !.at = at])
Leave(p)    == Put(p, Idle)

--------------------------------------------------------------------------------
(* Candidates and their certification                                      *)

\* filter_history_candidates: the first reason excludes, the rest are candidates.
Build(p) ==
  /\ op[p] = Idle /\ builds < MaxBuilds
  /\ builds' = builds + 1
  /\ Put(p, [Idle EXCEPT !.at = "base", !.bundle =
       [e \in Events |-> IF IsCandidate(e) THEN Undecided ELSE Excluded]])
  /\ UNCHANGED <<history, disk, reading, frozen, known, kept, faults>>

Pending(p) == {e \in Events : op[p].bundle[e].is = "candidate"}
Current(p) == CHOOSE e \in Pending(p) : \A d \in Pending(p) : e <= d
Decide(p, is, base, reference) ==
  Put(p, [op[p] EXCEPT !.at = "base", !.base = <<>>, !.reference = <<>>,
          !.bundle[Current(p)] = [is |-> is, base |-> base, reference |-> reference]])

\* One attempt checks the base, which must fail, ...
CheckBase(p) ==
  /\ op[p].at = "base" /\ Pending(p) # {}
  /\ \E outcome \in Outcomes :
       LET base == Append(op[p].base, outcome) IN
       CASE outcome = "setup" -> Leave(p)
         [] outcome = "fail"  -> Put(p, [op[p] EXCEPT !.at = "reference", !.base = base])
         [] OTHER             -> Decide(p, "rejected", base, op[p].reference)
  /\ UNCHANGED <<history, disk, reading, frozen, known, kept, builds, faults>>

\* ... and then the reference patch, which must pass, until both did so Repeat times.
CheckReference(p) ==
  /\ op[p].at = "reference"
  /\ \E outcome \in Outcomes :
       LET reference == Append(op[p].reference, outcome) IN
       CASE outcome = "setup" -> Leave(p)
         [] outcome = "pass" /\ Len(reference) < Repeat ->
              Put(p, [op[p] EXCEPT !.at = "base", !.reference = reference])
         [] outcome = "pass" /\ Len(reference) = Repeat ->
              Decide(p, "accepted", op[p].base, reference)
         [] OTHER -> Decide(p, "rejected", op[p].base, reference)
  /\ UNCHANGED <<history, disk, reading, frozen, known, kept, builds, faults>>

--------------------------------------------------------------------------------
(* Freezing and validation                                                 *)

All(outcomes, wanted) == Len(outcomes) = Repeat /\ \A i \in 1..Repeat : outcomes[i] = wanted

Validates_Untimed(bundle) ==
  \A e \in Events :
    bundle[e].is = "accepted" => All(bundle[e].base, "fail") /\ All(bundle[e].reference, "pass")

\* validate_task_pool_artifacts: the evidence of every event supports its disposition,
\* exactly the candidates have evidence, and nothing is later than created_at.
Validates(bundle) ==
  /\ Events # {}
  /\ \A e \in Events :
       /\ history[e] \notin {"late", "lateOutside"}
       /\ bundle[e].is = "accepted" => All(bundle[e].base, "fail") /\ All(bundle[e].reference, "pass")
       /\ (bundle[e].is = "excluded") <=> ~IsCandidate(e)

Freeze(p) ==
  /\ op[p].at = "base" /\ Pending(p) = {}
  /\ IF Validates(op[p].bundle)
     THEN Go(p, "publish") /\ frozen' = frozen \cup {op[p].bundle}
     ELSE Go(p, "refused") /\ UNCHANGED frozen
  /\ UNCHANGED <<history, disk, reading, known, kept, faults, builds>>

Refused(p) ==
  /\ op[p].at = "refused" /\ Leave(p)
  /\ UNCHANGED <<history, disk, reading, frozen, known, kept, builds, faults>>

--------------------------------------------------------------------------------
(* publish_task_pool_bundle                                                *)

\* A caller publishes again what was frozen before.
Republish(p) ==
  /\ op[p] = Idle
  /\ \E bundle \in frozen : Put(p, [Idle EXCEPT !.at = "publish", !.bundle = bundle])
  /\ UNCHANGED <<history, disk, reading, frozen, known, kept, builds, faults>>

Return(p) == Leave(p) /\ known' = known \cup {op[p].bundle}

Probe_LoadsFirst(p) ==
  /\ op[p].at = "publish"
  /\ IF target = Absent THEN Leave(p) ELSE Go(p, "compare")
  /\ UNCHANGED <<history, disk, reading, frozen, known, kept, builds, faults>>
Probe(p) ==
  /\ op[p].at = "publish"
  /\ Go(p, IF target = Absent THEN "stage" ELSE "compare")
  /\ UNCHANGED <<history, disk, reading, frozen, known, kept, builds, faults>>

\* The staged members are written, fsynced, reloaded and validated.
Stage(p) ==
  /\ op[p].at = "stage" /\ Go(p, "sync")
  /\ UNCHANGED <<history, disk, reading, frozen, known, kept, builds, faults>>
SyncStaged(p) ==
  /\ op[p].at = "sync" /\ Put(p, [op[p] EXCEPT !.at = "rename", !.synced = TRUE])
  /\ UNCHANGED <<history, disk, reading, frozen, known, kept, builds, faults>>

\* The rename fails when the target exists: it is a directory with members.
Rename(p) ==
  /\ op[p].at = "rename"
  /\ IF target = Absent
     THEN /\ target' = [bundle |-> op[p].bundle, synced |-> op[p].synced] /\ entry' = FALSE
          /\ Go(p, "parent")
     ELSE Go(p, "compare") /\ UNCHANGED disk
  /\ UNCHANGED <<history, reading, frozen, known, kept, faults, builds>>

SyncParent_Early(p) ==
  /\ op[p].at = "parent"
  /\ Return(p) /\ kept' = kept \cup {op[p].bundle}
  /\ UNCHANGED <<history, disk, reading, frozen, faults, builds>>
SyncParent(p) ==
  /\ op[p].at = "parent"
  /\ entry' = TRUE
  /\ Return(p) /\ kept' = kept \cup {op[p].bundle}
  /\ UNCHANGED <<history, target, reading, frozen, faults, builds>>

\* An OSError of the directory fsync is handled like one of the rename.
SyncParentFails(p) ==
  /\ op[p].at = "parent" /\ faults < MaxFaults
  /\ Go(p, "compare") /\ faults' = faults + 1
  /\ UNCHANGED <<history, disk, reading, frozen, known, kept, builds>>

Compare_Retries(p) ==
  /\ op[p].at = "compare"
  /\ Go(p, "publish")
  /\ UNCHANGED <<history, disk, reading, frozen, known, kept, builds, faults>>

\* _require_identical_published_bundle
Compare(p) ==
  /\ op[p].at = "compare"
  /\ IF target.bundle = op[p].bundle THEN Return(p) ELSE Leave(p) /\ UNCHANGED known
  /\ UNCHANGED <<history, disk, reading, frozen, kept, faults, builds>>

\* open_task_pool_bundle reads the manifest and then the members it names.
OpenManifest(r) ==
  /\ reading[r] = Nothing /\ target # Absent
  /\ reading' = [reading EXCEPT ![r] = target.bundle]
  /\ UNCHANGED <<history, disk, op, frozen, known, kept, faults, builds>>
OpenMembers(r) ==
  /\ reading[r] # Nothing
  /\ known' = IF target # Absent /\ target.bundle = reading[r]
              THEN known \cup {reading[r]} ELSE known
  /\ reading' = [reading EXCEPT ![r] = Nothing]
  /\ UNCHANGED <<history, disk, op, frozen, kept, faults, builds>>

--------------------------------------------------------------------------------
Kill(p) ==
  /\ op[p] # Idle /\ faults < MaxFaults
  /\ Leave(p) /\ faults' = faults + 1
  /\ UNCHANGED <<history, disk, reading, frozen, known, kept, builds>>

\* What is left: a durable entry with its synced members, or perhaps nothing.
PowerLoss ==
  /\ faults < MaxFaults /\ target # Absent
  /\ faults' = faults + 1
  /\ op' = [p \in Builders |-> Idle] /\ reading' = [r \in Readers |-> Nothing]
  /\ known' = {}
  /\ \/ /\ target' = IF target.synced THEN target ELSE [target EXCEPT !.bundle = Nothing]
        /\ entry' = TRUE
     \/ ~entry /\ target' = Absent /\ UNCHANGED entry
  /\ UNCHANGED <<history, frozen, kept, builds>>

Publish(p) ==
  \/ Probe(p) \/ Stage(p) \/ SyncStaged(p) \/ Rename(p) \/ SyncParent(p) \/ Compare(p)
Certify(p) == CheckBase(p) \/ CheckReference(p) \/ Freeze(p) \/ Refused(p)
Next ==
  \/ PowerLoss
  \/ \E p \in Builders :
       \/ Build(p) \/ Certify(p) \/ Republish(p) \/ Publish(p) \/ SyncParentFails(p) \/ Kill(p)
  \/ \E r \in Readers : OpenManifest(r) \/ OpenMembers(r)
Spec == Init /\ [][Next]_vars
\* Checks are bounded by their timeout, so a build goes on once it began, and so does a
\* publication; callers publish again what was frozen.
FairSpec ==
  Spec /\ \A p \in Builders : WF_vars(Certify(p) \/ Publish(p)) /\ SF_vars(Republish(p))

--------------------------------------------------------------------------------
(* Properties                                                              *)

TypeOK ==
  /\ history \in Histories /\ entry \in BOOLEAN
  /\ target = Absent \/ (target.bundle \in Bundle /\ target.synced \in BOOLEAN)
  /\ \A p \in Builders : op[p] = Idle \/ op[p].bundle \in Bundle
  /\ frozen \subseteq Bundle /\ known \subseteq Bundle /\ kept \subseteq frozen

\* Nothing undecided, uncertified or later than the pool is ever published.
PublishedIsCertified ==
  target # Absent =>
    /\ \A e \in Events : history[e] \notin {"late", "lateOutside"}
    /\ \A e \in Events : target.bundle[e].is # "candidate"
    /\ \A e \in Events : target.bundle[e].is = "accepted" =>
         All(target.bundle[e].base, "fail") /\ All(target.bundle[e].reference, "pass")

\* A bundle whose publisher synced the directory survives every power loss, whole.
KeptStays == \A bundle \in kept : target # Absent /\ target.bundle = bundle /\ target.synced

\* Publishing again and again, a frozen bundle, or one that was there first, is published.
FrozenGetsPublished == frozen # {} ~> [](target # Absent)

\* Nobody publishes for ever.
PublicationEnds == \A p \in Builders : op[p].at = "publish" ~> op[p].at = "idle"
================================================================================
