---------------------------- MODULE ReplicateCampaign ----------------------------
(***************************************************************************)
(* The paid replicate campaign: operators run its scheduled cells one at a *)
(* time, each behind a durable reservation in the event log of PaidLedger; *)
(* the Result goes to the Result Store and a completion to the log.  A     *)
(* snapshot file holds the authority (per-call limit, amendments) and is   *)
(* rewritten by every load.  A call that cost too much, or a retained      *)
(* Agent failure, stops the campaign until somebody amends the authority.  *)
(*                                                                         *)
(* Operators may be killed anywhere and power may fail.  Only the Result   *)
(* Store session excludes another operator, and the ledger is read before  *)
(* it is taken.  The session is one exclusive holder and its append is     *)
(* durable at once (what AcknowledgedLog promises).                        *)
(***************************************************************************)
EXTENDS PaidLedger

CONSTANTS
  Operators,   \* processes that use the campaign
  N,           \* scheduled cells, numbered in schedule order
  Budget,      \* budget_usd
  Limit,       \* the per-call limit of the approved authority
  NewLimit,    \* the limit a cost amendment asks for
  Outcomes,    \* what a paid run may return: kind and cost
  MaxFaults,   \* bound: kills and power losses
  Nobody

Kinds == {"scoreable", "retainable", "unusable"}
ASSUME CampaignConstants ==
  /\ N \in Nat /\ Budget \in Nat /\ MaxFaults \in Nat
  /\ Limit \in 1..Budget /\ NewLimit \in (Limit + 1)..Budget
  /\ Outcomes \subseteq [kind : Kinds, cost : Nat]
  /\ Nobody \notin Operators

VARIABLES
  snapshot,    \* the authority sections of the snapshot file
  events,      \* the event log, its calls in PaidLedger's terms
  synced,      \* how many of its events were fsynced
  torn,        \* a power loss left part of a line: no load succeeds any more
  results,     \* the exact Results of the cells
  holder,      \* who holds the Result Store session
  op,          \* what each operator is doing
  paid,        \* history: the cost and the limit of every paid run of a cell
  overlapped,  \* history: two operations were active at once
  faults

vars == <<snapshot, events, synced, torn, results, holder, op, paid, overlapped, faults>>
files == <<snapshot, events, synced, torn>>

Cells  == 1..N
Nothing == [kind |-> "none", cost |-> 0]
NoLedger == [limit |-> 0, amend |-> 0, cont |-> 0]
\* authority_amendment and continuation_amendment name the call they are about.
Fresh == [limit |-> Limit, amend |-> 0, cont |-> 0]
Authority == [limit : {0, Limit, NewLimit}, amend : 0..N, cont : 0..N]

Idle == [at |-> "idle", job |-> "none", then |-> "done", seen |-> <<>>,
         authority |-> NoLedger, out |-> Nothing, call |-> 0, under |-> 0, spent |-> 0]

Init ==
  /\ snapshot = NoLedger /\ events = <<>> /\ synced = 0 /\ torn = FALSE
  /\ results = {} /\ holder = Nobody
  /\ op = [p \in Operators |-> Idle]
  /\ paid = [c \in Cells |-> <<>>] /\ overlapped = FALSE /\ faults = 0

--------------------------------------------------------------------------------
(* What an operator knows: the calls and the authority it loaded last.     *)

Known(p)     == Calls(op[p].seen)
Stored(c)    == {r \in results : r.cell = c}
Next1(p)     == Cardinality(DOMAIN Known(p)) + 1
InOrder(calls) == DOMAIN calls = 1..Cardinality(DOMAIN calls)

\* _validate_paid_result; costs are whole units, so no tolerance is needed.
PaidValid(out, limit, spent) ==
  out.kind = "scoreable" /\ out.cost <= limit /\ spent + out.cost <= Budget

\* A stored Result is the one its completion event describes.
Matches(call, r) == call.evidence /\ call.cost = r.out.cost

Valid_AnyState(calls, authority) ==
  /\ InOrder(calls)
  /\ \A r \in results : r.cell \in DOMAIN calls
  /\ \A c \in DOMAIN calls : Cardinality(Stored(c)) = 1

\* _validate_calls_and_results: nothing stopped or unfinished, one exact Result
\* per call, none beyond them, and both amendments used.
Valid(calls, authority) ==
  /\ InOrder(calls)
  /\ \A r \in results : r.cell \in DOMAIN calls
  /\ \A c \in DOMAIN calls :
       /\ calls[c].state = "completed"
       /\ \E r \in Stored(c) :
            /\ Stored(c) = {r} /\ Matches(calls[c], r)
            /\ IF authority.cont = c
               THEN r.out.kind = "retainable" /\ calls[c].by = "cont"
               ELSE PaidValid(r.out, authority.limit, 0)
            /\ authority.amend = c => calls[c].by = "amend"
  /\ {authority.amend, authority.cont} \subseteq DOMAIN calls \cup {0}

\* An amendment is about the last call, which stopped for its Result.
LastCall(calls) == Cardinality(DOMAIN calls)
StoppedForResult(calls) == LastCall(calls) > 0 /\ InOrder(calls) /\ calls[LastCall(calls)].error = "RuntimeError"
Resumed(calls, job) == [calls EXCEPT ![LastCall(calls)].state = "completed", ![LastCall(calls)].by = job]

\* It cost more than the limit it was paid under, and fits the new one.
CostStop(calls, authority) ==
  LET c == LastCall(calls)
      old == IF authority.amend = 0 THEN authority.limit ELSE Limit IN
  /\ StoppedForResult(calls)
  /\ calls[c].state = "stopped" \/ authority.amend # 0
  /\ \A d \in 1..(c - 1) : \A r \in Stored(d) : PaidValid(r.out, old, 0)
  /\ \A r \in Stored(c) : r.out.cost > old
  /\ Valid(Resumed(calls, "amend"), [authority EXCEPT !.limit = NewLimit, !.amend = c])

\* The Agent failed in a way that is kept as a Result.
AgentStop(calls, authority) ==
  /\ StoppedForResult(calls)
  /\ calls[LastCall(calls)].state = "stopped"
  /\ Valid(Resumed(calls, "cont"), [authority EXCEPT !.cont = LastCall(calls)])

Amendable(job, calls, authority) ==
  IF job = "amend" THEN CostStop(calls, authority) ELSE AgentStop(calls, authority)

--------------------------------------------------------------------------------
(* Moving on, giving up, and the steps of every load and append.           *)

Put(p, o) == op' = [op EXCEPT ![p] = o]
Leave(p)  == Put(p, Idle) /\ holder' = (IF holder = p THEN Nobody ELSE holder)
Move(p, at) == Put(p, [op[p] EXCEPT !.at = at]) /\ UNCHANGED holder
Proceed(p, o, at) ==
  IF at = "done" THEN Leave(p) ELSE Put(p, [o EXCEPT !.at = at]) /\ UNCHANGED holder
LoadThen(p, then) == Put(p, [op[p] EXCEPT !.at = "load", !.then = then]) /\ UNCHANGED holder
\* Append an event, load the ledger again, and go on at `then`.
Record(p, o, event, then) ==
  /\ events' = Append(events, event)
  /\ Put(p, [o EXCEPT !.at = "sync", !.then = then])
  /\ UNCHANGED <<snapshot, synced, torn, holder>>

\* initialize_replicate_campaign_ledger refuses existing files, then writes.
Initialize(p) ==
  /\ op[p].at = "create"
  /\ snapshot' = Fresh /\ Leave(p)
  /\ UNCHANGED <<events, synced, torn, results, paid, overlapped, faults>>

Begin(p, job) ==
  /\ op[p] = Idle
  /\ (job = "create") <=> (snapshot = NoLedger)
  /\ job = "create" => events = <<>>
  /\ Put(p, [Idle EXCEPT !.at = IF job = "create" THEN "create" ELSE "load", !.job = job,
                         !.then = IF job \in {"amend", "cont"} THEN "judge" ELSE "open"])
  /\ overlapped' = (overlapped \/ \E q \in Operators \ {p} : op[q] # Idle)
  /\ UNCHANGED <<files, results, holder, paid, faults>>

\* load_resource_ledger reads snapshot and log ...
Load(p) ==
  /\ op[p].at = "load"
  /\ IF torn \/ ~Folds(events)
     THEN Leave(p)
     ELSE Proceed(p, [op[p] EXCEPT !.seen = events, !.authority = snapshot],
                  IF events = <<>> THEN op[p].then ELSE "rebuild")
  /\ UNCHANGED <<snapshot, events, synced, torn, results, paid, overlapped, faults>>

Rebuild_Fresh(p) ==
  /\ op[p].at = "rebuild"
  /\ snapshot' = Fresh
  /\ Proceed(p, op[p], IF Spent(Known(p)) > Budget THEN "done" ELSE op[p].then)
  /\ UNCHANGED <<events, synced, torn, results, paid, overlapped, faults>>

\* ... and writes the snapshot it read back, with the totals of the fold; a spent
\* budget is an error of every load but the one that ends a call.
Rebuild(p) ==
  /\ op[p].at = "rebuild"
  /\ snapshot' = op[p].authority
  /\ Proceed(p, op[p], IF Spent(Known(p)) > Budget THEN "done" ELSE op[p].then)
  /\ UNCHANGED <<events, synced, torn, results, paid, overlapped, faults>>

SyncEvent(p) ==
  /\ op[p].at = "sync"
  /\ synced' = Len(events)
  /\ LoadThen(p, op[p].then)
  /\ UNCHANGED <<snapshot, events, torn, results, paid, overlapped, faults>>

--------------------------------------------------------------------------------
(* preflight and run_next_replicate_campaign_cell                          *)

Open(p) ==
  /\ op[p].at = "open" /\ holder = Nobody
  /\ holder' = p /\ Put(p, [op[p] EXCEPT !.at = "state"])
  /\ UNCHANGED <<snapshot, events, synced, torn, results, paid, overlapped, faults>>

\* _reconcile_started_call, when the ledger that was read has a started call.
Started(calls) == {c \in DOMAIN calls : calls[c].state = "started"}
Reconcile_Refused(p) ==
  /\ op[p].at = "state" /\ Started(Known(p)) # {}
  /\ Leave(p)
  /\ UNCHANGED <<files, results, paid, overlapped, faults>>

Reconcile(p) ==
  LET calls == Known(p)
      c == Cardinality(DOMAIN calls) IN
  /\ op[p].at = "state" /\ Started(calls) # {}
  /\ IF Started(calls) = {c} /\ InOrder(calls) /\ Cardinality(Stored(c)) = 1
     THEN LET out == (CHOOSE r \in Stored(c) : TRUE).out IN
          IF PaidValid(out, op[p].authority.limit, Spent(calls))
          THEN Record(p, op[p], Completion(c, "completed", out.cost, "", TRUE), "validate")
          ELSE Record(p, op[p], Completion(c, "stopped", out.cost, "RuntimeError", TRUE), "done")
     ELSE Leave(p) /\ UNCHANGED files
  /\ UNCHANGED <<results, paid, overlapped, faults>>

Allowed_CallsOnly(calls, authority) == Cardinality(DOMAIN calls) < N

\* _validate_calls_and_results and _ensure_call_allowed: the next missing cell is
\* reserved, and nothing else is.  The limit and the totals read before the reservation
\* stay with the call: _start_call discards what it loads.
Allowed(calls, authority) ==
  LET remaining == Budget - Spent(calls) IN
  Cardinality(DOMAIN calls) < N /\ remaining > 0 /\ remaining >= authority.limit
Claim(p) == [op[p] EXCEPT !.call = Next1(p), !.under = op[p].authority.limit, !.spent = Spent(Known(p))]
Reserve(p) ==
  /\ \/ op[p].at = "validate"
     \/ op[p].at = "state" /\ Started(Known(p)) = {}
  /\ IF op[p].job = "run" /\ Valid(Known(p), op[p].authority) /\ Allowed(Known(p), op[p].authority)
     THEN Record(p, Claim(p), Reservation(Next1(p)), "pay")
     ELSE Leave(p) /\ UNCHANGED files
  /\ UNCHANGED <<results, paid, overlapped, faults>>

\* The Agent runs; it may raise instead of returning something to store.
Run(p) ==
  /\ op[p].at = "pay"
  /\ \E out \in Outcomes \cup {Nothing} :
       /\ paid' = [paid EXCEPT ![op[p].call] = Append(@, [cost |-> out.cost, limit |-> op[p].under])]
       /\ IF out = Nothing
          THEN Record(p, op[p], Completion(op[p].call, "stopped", 0, "other", FALSE), "done")
          ELSE Put(p, [op[p] EXCEPT !.at = "store", !.out = out]) /\ UNCHANGED <<files, holder>>
  /\ UNCHANGED <<results, overlapped, faults>>

Store(p) ==
  /\ op[p].at = "store"
  /\ results' = results \cup {[cell |-> op[p].call, run |-> Len(paid[op[p].call]), out |-> op[p].out]}
  /\ Move(p, "check")
  /\ UNCHANGED <<files, paid, overlapped, faults>>

Finish_Unchecked(p) ==
  /\ op[p].at = "check"
  /\ Record(p, op[p], Completion(op[p].call, "completed", op[p].out.cost, "", TRUE), "done")
  /\ UNCHANGED <<results, paid, overlapped, faults>>

\* _validate_paid_result on the returned Result, by the ledger that was read before
\* the reservation, and the completion event.
Finish(p) ==
  /\ op[p].at = "check"
  /\ LET c == op[p].call
         out == op[p].out IN
     IF PaidValid(out, op[p].under, op[p].spent)
     THEN Record(p, op[p], Completion(c, "completed", out.cost, "", TRUE), "done")
     ELSE Record(p, op[p], Completion(c, "stopped", out.cost, "RuntimeError", TRUE), "done")
  /\ UNCHANGED <<results, paid, overlapped, faults>>

\* KeyboardInterrupt, or an error of the append, between the run and the completion:
\* the call is stopped with what the interrupted code knew of the Result.
Interrupt(p) ==
  LET c == op[p].call
      known == op[p].at = "check" IN
  /\ op[p].at \in {"store", "check"}
  /\ \/ UNCHANGED results
     \/ /\ op[p].at = "store"
        /\ results' = results \cup {[cell |-> c, run |-> Len(paid[c]), out |-> op[p].out]}
  /\ Record(p, op[p], Completion(c, "stopped", IF known THEN op[p].out.cost ELSE 0, "other", known), "done")
  /\ UNCHANGED <<paid, overlapped, faults>>

--------------------------------------------------------------------------------
(* Amendments: reauthorize_stopped_replicate_campaign_call (job "amend") and *)
(* continue_..._after_retained_agent_invalid (job "cont").                   *)

About(authority, job) == IF job = "amend" THEN authority.amend ELSE authority.cont

\* An earlier attempt got through: only the campaign state is checked again.
Confirmed(p) ==
  LET c == About(op[p].authority, op[p].job) IN
  /\ op[p].at = "judge"
  /\ c \in DOMAIN Known(p) /\ Known(p)[c].state = "completed"
  /\ IF Known(p)[c].by = op[p].job THEN Move(p, "open") ELSE Leave(p)
  /\ UNCHANGED <<files, results, paid, overlapped, faults>>

Judge_NoResume(p) ==
  /\ op[p].at = "judge" /\ holder = Nobody
  /\ IF About(op[p].authority, op[p].job) = 0 /\ Amendable(op[p].job, Known(p), op[p].authority)
     THEN Put(p, [op[p] EXCEPT !.at = "amend", !.call = Cardinality(DOMAIN Known(p))])
     ELSE Put(p, Idle)
  /\ UNCHANGED <<files, results, holder, paid, overlapped, faults>>

\* The stop is examined under a session that is closed before anything is written.
Judge(p) ==
  LET c == About(op[p].authority, op[p].job) IN
  /\ op[p].at = "judge" /\ holder = Nobody
  /\ c \in DOMAIN Known(p) => Known(p)[c].state # "completed"
  /\ IF c \in DOMAIN Known(p) \cup {0} /\ Amendable(op[p].job, Known(p), op[p].authority)
     THEN Put(p, [op[p] EXCEPT !.at = IF c = 0 THEN "amend" ELSE "mark",
                               !.call = IF c = 0 THEN Cardinality(DOMAIN Known(p)) ELSE c])
     ELSE Put(p, Idle)
  /\ UNCHANGED <<files, results, holder, paid, overlapped, faults>>

\* The new authority replaces the snapshot ...
Amend(p) ==
  /\ op[p].at = "amend"
  /\ snapshot' = IF op[p].job = "amend"
                 THEN [op[p].authority EXCEPT !.limit = NewLimit, !.amend = op[p].call]
                 ELSE [op[p].authority EXCEPT !.cont = op[p].call]
  /\ LoadThen(p, "mark")
  /\ UNCHANGED <<events, synced, torn, results, paid, overlapped, faults>>

\* ... and an event turns the stopped call into a completed one.
Mark(p) ==
  LET c == op[p].call IN
  /\ op[p].at = "mark"
  /\ IF c \in DOMAIN Known(p) /\ Known(p)[c].state = "stopped"
     THEN Record(p, op[p], Reauthorization(c, op[p].job), "open")
     ELSE /\ IF c \in DOMAIN Known(p) /\ Known(p)[c].state = "completed" /\ Known(p)[c].by = op[p].job
             THEN LoadThen(p, "open") ELSE Leave(p)
          /\ UNCHANGED files
  /\ UNCHANGED <<results, paid, overlapped, faults>>

--------------------------------------------------------------------------------
(* Faults                                                                  *)

\* The process dies, or an exception outside the guarded part ends the operation.
Kill(p) ==
  /\ op[p] # Idle /\ faults < MaxFaults
  /\ Leave(p) /\ faults' = faults + 1
  /\ UNCHANGED <<files, results, paid, overlapped>>

\* Of the events that were not fsynced some first ones are left, and perhaps a part
\* of the next one.
PowerLoss ==
  /\ faults < MaxFaults /\ synced < Len(events)
  /\ faults' = faults + 1
  /\ op' = [p \in Operators |-> Idle] /\ holder' = Nobody
  /\ \E kept \in synced..Len(events) :
       /\ events' = SubSeq(events, 1, kept) /\ synced' = kept
       /\ torn' \in {torn, torn \/ kept < Len(events)}
  /\ UNCHANGED <<snapshot, results, paid, overlapped>>

Step(p) ==
  \/ Initialize(p) \/ Load(p) \/ Rebuild(p) \/ SyncEvent(p) \/ Open(p) \/ Reconcile(p) \/ Reserve(p)
  \/ Run(p) \/ Store(p) \/ Finish(p) \/ Confirmed(p) \/ Judge(p) \/ Amend(p) \/ Mark(p)
Jobs == {"create", "preflight", "run", "amend", "cont"}
Next ==
  \/ PowerLoss
  \/ \E p \in Operators :
       Step(p) \/ Interrupt(p) \/ Kill(p) \/ \E job \in Jobs : Begin(p, job)
Spec == Init /\ [][Next]_vars
\* An operation that began goes on (the session serves a waiter again and again), and
\* every operator keeps calling the operations that move the campaign.
FairSpec ==
  /\ Spec
  /\ \A p \in Operators :
       SF_vars(Step(p)) /\ \A job \in {"create", "run", "amend"} : SF_vars(Begin(p, job))

--------------------------------------------------------------------------------
(* Properties                                                              *)

Locations == {"idle", "create", "load", "rebuild", "sync", "open", "state", "validate", "pay",
              "store", "check", "judge", "amend", "mark"}
Event ==
  [type : {"reservation"}, call : Cells]
  \cup [type : {"completion"}, call : Cells, state : {"completed", "stopped"}, cost : Nat,
        error : {"", "RuntimeError", "other"}, evidence : BOOLEAN]
  \cup [type : {"reauthorization"}, call : Cells, by : Jobs \cup {"none"}]
Operation ==
  [at : Locations, job : Jobs \cup {"none"},
   then : {"open", "judge", "validate", "done", "pay", "mark"}, seen : Seq(Event),
   authority : Authority, out : Outcomes \cup {Nothing}, call : 0..N,
   under : {0, Limit, NewLimit}, spent : Int]
TypeOK ==
  /\ snapshot \in Authority /\ torn \in BOOLEAN
  /\ events \in Seq(Event) /\ synced \in 0..Len(events)
  /\ results \subseteq [cell : Cells, run : Nat, out : Outcomes \cup {Nothing}] /\ IsFiniteSet(results)
  /\ holder \in Operators \cup {Nobody}
  /\ op \in [Operators -> Operation]
  /\ paid \in [Cells -> Seq([cost : Nat, limit : Nat])]
  /\ overlapped \in BOOLEAN /\ faults \in 0..MaxFaults

Readable == ~torn /\ Folds(events)

\* No cell is paid for twice, whatever operators overlap, die or are told to retry.
PaidOnce == \A c \in Cells : Len(paid[c]) <= 1

\* A paid cell has a reservation that no power loss can take back.
PaidIsReserved ==
  \A c \in Cells : paid[c] # <<>> =>
    \E i \in At(events, "reservation", c) : i <= synced

\* Cells are paid in schedule order, and none after a call that is not accepted.
NothingPaidPastAStop ==
  Readable => \A c \in Cells : paid[c] # <<>> =>
    \A d \in 1..(c - 1) : d \in Reserved(events) /\ Call(events, d).state = "completed"

\* An accepted call has its one Result, within the first limit, or reauthorized
\* itself, or within the limit that an amendment put in force.
AcceptedIsAuthorized ==
  Readable => \A c \in Reserved(events) : Call(events, c).state = "completed" =>
    \E r \in Stored(c) :
      /\ Stored(c) = {r} /\ Matches(Call(events, c), r)
      /\ \/ Call(events, c).by # ""
         \/ PaidValid(r.out, Limit, 0)
         \/ /\ PaidValid(r.out, NewLimit, 0)
            /\ snapshot.amend \in 1..c \/ \E d \in 1..(c - 1) : Call(events, d).by = "amend"

\* When a cell was paid, what was paid before left room for a whole call at the limit
\* it was paid under.
WithinBudget ==
  \A c \in Cells : paid[c] # <<>> =>
    MapThenSumSet(LAMBDA d : IF paid[d] = <<>> THEN 0 ELSE paid[d][1].cost, 1..(c - 1))
      + paid[c][1].limit <= Budget

\* While operators take turns, no step loses an amendment of the authority.
AuthorityStays ==
  [][~overlapped' => /\ snapshot.amend # 0 => snapshot'.amend = snapshot.amend
                     /\ snapshot.cont # 0 => snapshot'.cont = snapshot.cont]_vars

\* A Result whose completion was interrupted is settled by some later operation.
InterruptedCompletionSettles ==
  \A c \in Cells :
    Stored(c) # {} ~> (~Readable \/ (c \in Reserved(events) /\ Call(events, c).state # "started"))

\* An amendment interrupted between its two files takes effect when it is repeated.
AmendmentTakesEffect ==
  snapshot.amend # 0 ~> (~Readable \/ overlapped \/ Call(events, snapshot.amend).state = "completed")
================================================================================
