------------------------------ MODULE PaidLedger ------------------------------
(***************************************************************************)
(* The event log of a paid campaign and what its fold makes of it.  An     *)
(* event reserves a call, completes it (in state completed or stopped), or *)
(* reauthorizes a stopped call under an amendment.  The fold is written as *)
(* what it accepts and what it returns; it reads the log in order, and an  *)
(* event that does not fit what came before makes every load raise.        *)
(***************************************************************************)
EXTENDS Integers, Sequences, FiniteSets, FiniteSetsExt

Reservation(c) == [type |-> "reservation", call |-> c]
\* error is the stop_reason; without evidence the event names no Result.
Completion(c, state, cost, error, evidence) ==
  [type |-> "completion", call |-> c, state |-> state, cost |-> cost,
   error |-> error, evidence |-> evidence]
Reauthorization(c, by) == [type |-> "reauthorization", call |-> c, by |-> by]

At(events, type, c) == {i \in DOMAIN events : events[i].type = type /\ events[i].call = c}
Reserved(events) == {events[i].call : i \in {j \in DOMAIN events : events[j].type = "reservation"}}

\* The events of the same call that precede event i.
Earlier(events, type, i) == {j \in At(events, type, events[i].call) : j < i}

\* A fold that forgets to look for an earlier reservation.
Fits_Again(events, i) ==
  \/ events[i].type = "reservation"
  \/ /\ events[i].type = "completion"
     /\ Earlier(events, "reservation", i) # {} /\ Earlier(events, "completion", i) = {}
  \/ /\ events[i].type = "reauthorization" /\ Earlier(events, "reauthorization", i) = {}
     /\ \E j \in Earlier(events, "completion", i) : events[j].state = "stopped"

\* A call is reserved once, then completed once, and reauthorized once if it stopped.
Fits(events, i) ==
  \/ events[i].type = "reservation" /\ Earlier(events, "reservation", i) = {}
  \/ /\ events[i].type = "completion"
     /\ Earlier(events, "reservation", i) # {} /\ Earlier(events, "completion", i) = {}
  \/ /\ events[i].type = "reauthorization" /\ Earlier(events, "reauthorization", i) = {}
     /\ \E j \in Earlier(events, "completion", i) : events[j].state = "stopped"

\* Every event fits what precedes it.
Folds(events) == \A i \in DOMAIN events : Fits(events, i)

\* The call the fold builds from the events of c.
Call(events, c) ==
  IF At(events, "completion", c) = {}
  THEN [state |-> "started", cost |-> 0, error |-> "", evidence |-> FALSE, by |-> ""]
  ELSE LET done == events[CHOOSE i \in At(events, "completion", c) : TRUE]
           again == At(events, "reauthorization", c)
       IN [state    |-> IF again = {} THEN done.state ELSE "completed",
           cost     |-> done.cost,
           error    |-> done.error,
           evidence |-> done.evidence,
           by       |-> IF again = {} THEN "" ELSE events[CHOOSE i \in again : TRUE].by]

Calls(events) == [c \in Reserved(events) |-> Call(events, c)]
Spent(calls)  == MapThenSumSet(LAMBDA c : calls[c].cost, DOMAIN calls)
================================================================================
