---------------------------- MODULE AcknowledgedLog ----------------------------
(***************************************************************************)
(* What the Result Store promises: a durable sequence of records that only *)
(* ever grows, in which every result_id occurs once, and from which every  *)
(* confirmed record can be read back.  How lines, locks, buffers and fsync *)
(* achieve it is ResultStore's business, which implements this module.     *)
(***************************************************************************)
EXTENDS Naturals, Sequences, SequencesExt

CONSTANTS Record, Id

VARIABLES stored, confirmedSet

Init == stored = <<>> /\ confirmedSet = {}

\* Records become durable at the end, never under an id already taken.
Grow ==
  /\ stored' \in Seq(Record)
  /\ IsStrictPrefix(stored, stored')
  /\ \A i, j \in DOMAIN stored' : Id[stored'[i]] = Id[stored'[j]] => i = j
  /\ UNCHANGED confirmedSet

\* A caller is told that records are kept: they are among the durable ones.
Confirm ==
  /\ confirmedSet \subseteq confirmedSet'
  /\ confirmedSet' \subseteq Range(stored)
  /\ UNCHANGED stored

Spec == Init /\ [][Grow \/ Confirm]_<<stored, confirmedSet>>
================================================================================
