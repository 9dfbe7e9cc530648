----------------------------- MODULE CampaignProofs -----------------------------
(***************************************************************************)
(* Theorems about ReplicateCampaign, for any operators, number of cells,   *)
(* budget, limits and outcomes of runs: no cell is paid twice, every paid  *)
(* cell has a reservation on disk, and none is paid past a call that is    *)
(* not accepted; operators that take turns lose no amendment; payments     *)
(* stay within the budget; and what is accepted was authorized.            *)
(***************************************************************************)
EXTENDS ReplicateCampaign, FiniteSetTheorems, WellFoundedInduction, TLAPS

\* Among the first k events one accepts the call c.
Accepted(log, c, k) ==
  \/ \E i \in At(log, "completion", c) : i <= k /\ log[i].state = "completed"
  \/ \E i \in At(log, "reauthorization", c) : i <= k

\* The reservation of c, and the acceptance of all calls before it, are on disk.
OnDisk(c) ==
  /\ \E i \in At(events, "reservation", c) : i <= synced
  /\ \A d \in 1..(c - 1) : Accepted(events, d, synced)

\* p has reserved a cell, or is about to know whether it has.
Reserving(p) == op[p].at \in {"sync", "load", "rebuild"} /\ op[p].then = "pay"
Paying(p) == op[p].at \in {"pay", "store", "check"}
InSession(p) ==
  \/ op[p].at \in {"state", "validate"} \/ Paying(p) \/ Reserving(p)
  \/ op[p].at \in {"sync", "load", "rebuild"} /\ op[p].then = "validate"

\* After a torn line nothing gets past its next load.
BeforeLoad(p) == op[p].at \in {"idle", "create"} \/ (op[p].at = "load" /\ op[p].then \in {"open", "judge"})
TornStops == torn => \A p \in Operators : BeforeLoad(p)

\* What an operator has read is how the log begins.
Prefix(p) ==
  /\ Len(op[p].seen) <= Len(events)
  /\ \A i \in 1..Len(op[p].seen) : op[p].seen[i] = events[i]
SeenIsPrefix == \A p \in Operators : Prefix(p)

\* Only the holder of the session reserves and pays.  Unless the log has become
\* unreadable, the cell it reserved was never paid; from its fsync on, the reservation
\* and what it relies on are on disk.
Keeps(p) ==
  /\ InSession(p) => holder = p
  /\ Reserving(p) \/ Paying(p) => op[p].call \in Cells
  /\ Reserving(p) /\ op[p].at # "rebuild" => ~Folds(events) \/ paid[op[p].call] = <<>>
  /\ (Reserving(p) /\ op[p].at = "rebuild") \/ op[p].at = "pay" => paid[op[p].call] = <<>>
  /\ Reserving(p) /\ op[p].at = "sync" =>
       /\ At(events, "reservation", op[p].call) # {}
       /\ \A d \in 1..(op[p].call - 1) : Accepted(events, d, Len(events))
  /\ (Reserving(p) /\ op[p].at # "sync") \/ op[p].at = "pay" => OnDisk(op[p].call)
Reservations == \A p \in Operators : Keeps(p)

PaidInv == \A c \in Cells : paid[c] # <<>> => Len(paid[c]) = 1 /\ OnDisk(c)

CampaignInv == TypeOK /\ TornStops /\ SeenIsPrefix /\ Reservations /\ PaidInv

--------------------------------------------------------------------------------
(* Facts about logs.                                                       *)

Grows == events' = events \/ \E e : events' = Append(events, e)

\* An event that does not fit keeps the log from folding, whatever follows it.
LEMMA FoldsPrefix ==
  ASSUME NEW log \in Seq(Event), NEW e \in Event, Folds(Append(log, e))
  PROVE  Folds(log)
<1> DEFINE new == Append(log, e)
<1>1. new \in Seq(Event) /\ Len(new) = Len(log) + 1 /\ DOMAIN log = 1..Len(log) /\ DOMAIN new = 1..Len(new)
      /\ \A i \in 1..Len(log) : new[i] = log[i]
  OBVIOUS
<1>2. \A i \in DOMAIN log : i \in DOMAIN new /\ new[i] = log[i]
  BY <1>1
<1>3. ASSUME NEW i \in DOMAIN log, NEW type
      PROVE  Earlier(new, type, i) = Earlier(log, type, i)
  BY <1>1, <1>2 DEF At, Earlier
<1>4. \A i \in DOMAIN log : Fits(new, i)
  BY <1>2 DEF Folds
<1>5. ASSUME NEW i \in DOMAIN log
      PROVE  Fits(log, i)
  <2>1. \A j \in Earlier(log, "completion", i) : new[j] = log[j]
    BY <1>2 DEF At, Earlier
  <2>2. new[i] = log[i] /\ Fits(new, i)
    BY <1>2, <1>4
  <2> HIDE DEF new
  <2> QED
    BY <1>3, <2>1, <2>2 DEF Fits
<1> QED
  BY <1>5 DEF Folds

\* Two reservations of one call do not fit.
LEMMA TwoReservations ==
  ASSUME NEW log \in Seq(Event), NEW c,
         NEW i \in At(log, "reservation", c), NEW j \in At(log, "reservation", c), i < j
  PROVE  ~Folds(log)
<1>1. i \in DOMAIN log /\ j \in DOMAIN log /\ log[j].type = "reservation" /\ log[j].call = c
  BY DEF At
<1>2. i \in Earlier(log, "reservation", j)
  BY <1>1 DEF Earlier
<1> QED
  BY <1>1, <1>2 DEF Folds, Fits

\* What a growing log keeps.
LEMMA LogGrows ==
  ASSUME TypeOK, TypeOK', Grows, synced <= synced'
  PROVE  /\ Len(events) <= Len(events')
         /\ \A i \in 1..Len(events) : events'[i] = events[i]
         /\ ~Folds(events) => ~Folds(events')
         /\ \A type, c : At(events, type, c) \subseteq At(events', type, c)
         /\ \A d, k : k \in Nat /\ Accepted(events, d, k) => \A m \in Nat : k <= m => Accepted(events', d, m)
         /\ \A c \in Cells : OnDisk(c) => OnDisk(c)'
<1>1. events \in Seq(Event) /\ events' \in Seq(Event) /\ synced \in Nat /\ synced' \in Nat
  BY DEF TypeOK
<1>2. /\ Len(events) <= Len(events')
      /\ \A i \in 1..Len(events) : events'[i] = events[i]
  BY <1>1 DEF Grows
<1>3. ~Folds(events) => ~Folds(events')
  <2>1. ASSUME NEW e, events' = Append(events, e)
        PROVE  e \in Event
    <3>1. e = events'[Len(events')] /\ Len(events') \in 1..Len(events')
      BY <1>1, <2>1
    <3> QED
      BY <1>1, <3>1
  <2> QED
    BY <1>1, <2>1, FoldsPrefix DEF Grows
<1>4. \A type, c : At(events, type, c) \subseteq At(events', type, c)
  BY <1>1, <1>2 DEF At
<1>5. ASSUME NEW d, NEW k \in Nat, Accepted(events, d, k), NEW m \in Nat, k <= m
      PROVE  Accepted(events', d, m)
  <2>1. ASSUME NEW i \in At(events, "completion", d), i <= k, events[i].state = "completed"
        PROVE  Accepted(events', d, m)
    BY <1>1, <1>2, <1>4, <1>5, <2>1 DEF At, Accepted
  <2>2. ASSUME NEW i \in At(events, "reauthorization", d), i <= k
        PROVE  Accepted(events', d, m)
    BY <1>1, <1>2, <1>4, <1>5, <2>2 DEF At, Accepted
  <2> QED
    BY <1>5, <2>1, <2>2 DEF Accepted
<1>6. ASSUME NEW c \in Cells, OnDisk(c)
      PROVE  OnDisk(c)'
  <2>1. \E i \in At(events', "reservation", c) : i <= synced'
    BY <1>1, <1>4, <1>6 DEF OnDisk, At
  <2>2. \A d \in 1..(c - 1) : Accepted(events', d, synced')
    BY <1>1, <1>5, <1>6 DEF OnDisk
  <2> QED
    BY <2>1, <2>2 DEF OnDisk
<1> QED
  BY <1>2, <1>3, <1>4, <1>5, <1>6

\* An event that was read is in the log.
LEMMA SeenBegins ==
  ASSUME TypeOK, SeenIsPrefix, NEW p \in Operators, NEW i \in DOMAIN op[p].seen
  PROVE  i \in DOMAIN events /\ events[i] = op[p].seen[i] /\ i <= Len(events)
<1>1. op[p].seen \in Seq(Event) /\ events \in Seq(Event)
  BY DEF TypeOK, Operation
<1>2. Len(op[p].seen) <= Len(events) /\ \A j \in 1..Len(op[p].seen) : op[p].seen[j] = events[j]
  BY DEF SeenIsPrefix, Prefix
<1> QED
  BY <1>1, <1>2

--------------------------------------------------------------------------------
(* Sums.  The recursion of MapThenSumSet is a CHOOSE; that something satisfies it is *)
(* shown by induction on the number of elements, over a set of numbers.              *)

\* What holds of 0, and of n + 1 if it holds of n, holds of every natural number.
LEMMA Numbers ==
  ASSUME NEW T \in SUBSET Nat, 0 \in T, \A n \in T : n + 1 \in T
  PROVE  T = Nat
<1> DEFINE U == Nat \ T
<1> SUFFICES ASSUME U # {} PROVE FALSE
  OBVIOUS
<1>1. PICK m \in U : \A n \in U : ~ (<<n, m>> \in OpToRel(<, Nat))
  BY NatLessThanWellFounded, WFMin
<1>2. m # 0 /\ m - 1 \in Nat /\ m - 1 < m
  OBVIOUS
<1>3. <<m - 1, m>> \in OpToRel(<, Nat)
  BY <1>2 DEF OpToRel
<1>4. m - 1 \in T
  BY <1>1, <1>2, <1>3
<1>5. (m - 1) + 1 \in T
  BY <1>4
<1> QED
  BY <1>2, <1>5

Sum(f, S) == MapThenSumSet(LAMBDA x : f[x], S)

\* The element that the sum of s takes first, and the function it is read from.
First(s) == CHOOSE x \in s : TRUE
Adds(f, S, h) == h = [s \in SUBSET S |-> IF s = {} THEN 0 ELSE f[First(s)] + h[s \ {First(s)}]]

\* The sum as MapThenSumSet defines it.
LEMMA SumIs ==
  ASSUME NEW f, NEW S
  PROVE Sum(f, S) = (CHOOSE h : Adds(f, S, h))[S]
  BY DEF Sum, MapThenSumSet, MapThenFoldSet, First, Adds

\* A set without its first element is smaller by one.
LEMMA Rest ==
  ASSUME NEW S, IsFiniteSet(S), NEW s \in SUBSET S
  PROVE  /\ Cardinality(s) \in Nat /\ Cardinality(s) <= Cardinality(S)
         /\ (s = {} <=> Cardinality(s) = 0)
         /\ s # {} => /\ First(s) \in S /\ s \ {First(s)} \in SUBSET S
                      /\ Cardinality(s \ {First(s)}) = Cardinality(s) - 1
<1>1. IsFiniteSet(s) /\ Cardinality(s) <= Cardinality(S)
  BY FS_Subset
<1>2. Cardinality(s) \in Nat /\ (s = {} <=> Cardinality(s) = 0)
  BY <1>1, FS_CardinalityType, FS_EmptySet
<1>3. s # {} => First(s) \in s
  BY DEF First
<1> QED
  BY <1>1, <1>2, <1>3, FS_RemoveElement

\* Up to n elements h adds the elements one by one.
AddsUpTo(f, S, h, n) ==
  \A s \in SUBSET S : Cardinality(s) <= n =>
    h[s] = IF s = {} THEN 0 ELSE f[First(s)] + h[s \ {First(s)}]

\* What adds up to n elements can be made to add one more.
LEMMA AddsMore ==
  ASSUME NEW S, IsFiniteSet(S), NEW f, \A x \in S : f[x] \in Int,
         NEW n \in Nat, NEW h \in [SUBSET S -> Int], AddsUpTo(f, S, h, n)
  PROVE  \E g \in [SUBSET S -> Int] : AddsUpTo(f, S, g, n + 1)
<1> DEFINE g == [s \in SUBSET S |-> IF Cardinality(s) <= n THEN h[s]
                                    ELSE f[First(s)] + h[s \ {First(s)}]]
<1>1. ASSUME NEW s \in SUBSET S
      PROVE  /\ Cardinality(s) \in Nat /\ (s = {} => Cardinality(s) <= n)
             /\ s # {} => /\ f[First(s)] \in Int /\ h[s \ {First(s)}] \in Int
                          /\ s \ {First(s)} \in SUBSET S
                          /\ Cardinality(s) <= n + 1 => Cardinality(s \ {First(s)}) <= n
  <2>1. /\ Cardinality(s) \in Nat /\ (s = {} <=> Cardinality(s) = 0)
        /\ s # {} => /\ First(s) \in S /\ s \ {First(s)} \in SUBSET S
                     /\ Cardinality(s \ {First(s)}) = Cardinality(s) - 1
    BY Rest
  <2>2. s # {} => f[First(s)] \in Int /\ h[s \ {First(s)}] \in Int
    BY <2>1
  <2>3. s = {} => Cardinality(s) <= n
    BY <2>1
  <2>4. s # {} => (Cardinality(s) <= n + 1 => Cardinality(s \ {First(s)}) <= n)
    BY <2>1
  <2> QED
    BY <2>1, <2>2, <2>3, <2>4
<1>2. g \in [SUBSET S -> Int]
  <2> SUFFICES ASSUME NEW s \in SUBSET S
               PROVE  (IF Cardinality(s) <= n THEN h[s] ELSE f[First(s)] + h[s \ {First(s)}]) \in Int
    OBVIOUS
  <2>1. CASE Cardinality(s) <= n
    BY <2>1
  <2>2. CASE ~(Cardinality(s) <= n)
    <3>1. f[First(s)] \in Int /\ h[s \ {First(s)}] \in Int
      BY <1>1, <2>2
    <3> QED
      BY <2>2, <3>1
  <2> QED
    BY <2>1, <2>2
<1>3. ASSUME NEW s \in SUBSET S, Cardinality(s) <= n + 1
      PROVE  g[s] = IF s = {} THEN 0 ELSE f[First(s)] + g[s \ {First(s)}]
  <2>1. CASE s = {}
    <3>1. Cardinality(s) <= n /\ h[s] = 0
      BY <1>1, <2>1 DEF AddsUpTo
    <3> QED
      BY <2>1, <3>1
  <2>2. CASE s # {}
    <3>1. s \ {First(s)} \in SUBSET S /\ Cardinality(s \ {First(s)}) <= n
      BY <1>1, <1>3, <2>2
    <3>2. g[s \ {First(s)}] = h[s \ {First(s)}]
      BY <3>1
    <3>3. Cardinality(s) <= n => h[s] = f[First(s)] + h[s \ {First(s)}]
      BY <2>2 DEF AddsUpTo
    <3>4. g[s] = f[First(s)] + h[s \ {First(s)}]
      BY <3>3
    <3> QED
      BY <2>2, <3>2, <3>4
  <2> QED
    BY <2>1, <2>2
<1> HIDE DEF g
<1>4. AddsUpTo(f, S, g, n + 1)
  BY <1>3 DEF AddsUpTo
<1> QED
  BY <1>2, <1>4

\* The definition defines something.
LEMMA SumExists ==
  ASSUME NEW S, IsFiniteSet(S), NEW f, \A x \in S : f[x] \in Int
  PROVE  \E h : Adds(f, S, h)
<1> DEFINE Some(n) == \E h \in [SUBSET S -> Int] : AddsUpTo(f, S, h, n)
<1>1. Some(0)
  <2>0. [s \in SUBSET S |-> 0] \in [SUBSET S -> Int]
    OBVIOUS
  <2>1. PICK h \in [SUBSET S -> Int] : h = [s \in SUBSET S |-> 0]
    BY <2>0, Zenon
  <2>2. ASSUME NEW s \in SUBSET S, Cardinality(s) <= 0
        PROVE  s = {} /\ h[s] = 0
    <3>1. Cardinality(s) \in Nat /\ (s = {} <=> Cardinality(s) = 0)
      BY Rest
    <3> QED
      BY <2>1, <2>2, <3>1
  <2>3. AddsUpTo(f, S, h, 0)
    BY <2>2 DEF AddsUpTo
  <2> QED
    BY <2>3
<1>2. \A n \in Nat : Some(n) => Some(n + 1)
  BY AddsMore
<1> HIDE DEF Some
<1>3. {n \in Nat : Some(n)} = Nat
  <2> DEFINE T == {n \in Nat : Some(n)}
  <2>1. T \in SUBSET Nat /\ 0 \in T /\ \A n \in T : n + 1 \in T
    BY <1>1, <1>2
  <2> HIDE DEF T
  <2>2. T = Nat
    BY <2>1, Numbers
  <2> QED
    BY <2>2 DEF T
<1>4. Some(Cardinality(S))
  BY <1>3, FS_CardinalityType
<1>5. PICK h \in [SUBSET S -> Int] : AddsUpTo(f, S, h, Cardinality(S))
  BY <1>4 DEF Some
<1>6. \A s \in SUBSET S : h[s] = IF s = {} THEN 0 ELSE f[First(s)] + h[s \ {First(s)}]
  BY <1>5, Rest DEF AddsUpTo
<1>7. Adds(f, S, h)
  BY <1>6 DEF Adds
<1> QED
  BY <1>7

\* The sum of integers is an integer.
LEMMA SumType ==
  ASSUME NEW S, IsFiniteSet(S), NEW f, \A x \in S : f[x] \in Int
  PROVE  Sum(f, S) \in Int
<1>1. PICK h : Adds(f, S, h) /\ Sum(f, S) = h[S]
  BY SumExists, SumIs
<1> DEFINE Typ(n) == \A s \in SUBSET S : Cardinality(s) <= n => h[s] \in Int
<1>2. \A s \in SUBSET S : h[s] = IF s = {} THEN 0 ELSE f[First(s)] + h[s \ {First(s)}]
  BY <1>1 DEF Adds
<1>3. ASSUME NEW s \in SUBSET S, s = {} \/ h[s \ {First(s)}] \in Int
      PROVE  h[s] \in Int
  <2>1. CASE s = {}
    <3>1. h[s] = 0
      BY <1>2, <2>1
    <3> QED
      BY <3>1
  <2>2. CASE s # {}
    <3>1. h[s] = f[First(s)] + h[s \ {First(s)}]
      BY <1>2, <2>2
    <3>2. f[First(s)] \in Int
      BY <2>2, Rest
    <3> QED
      BY <1>3, <2>2, <3>1, <3>2
  <2> QED
    BY <2>1, <2>2
<1>4. Typ(0)
  <2> SUFFICES ASSUME NEW s \in SUBSET S, Cardinality(s) <= 0 PROVE h[s] \in Int
    OBVIOUS
  <2>1. Cardinality(s) \in Nat /\ (s = {} <=> Cardinality(s) = 0)
    BY Rest
  <2>2. s = {}
    BY <2>1
  <2> QED
    BY <1>3, <2>2
<1>5. ASSUME NEW n \in Nat, Typ(n) PROVE Typ(n + 1)
  <2> SUFFICES ASSUME NEW s \in SUBSET S, Cardinality(s) <= n + 1, s # {} PROVE h[s] \in Int
    BY <1>3
  <2>1. s \ {First(s)} \in SUBSET S /\ Cardinality(s \ {First(s)}) <= n
    BY Rest
  <2>2. h[s \ {First(s)}] \in Int
    BY <1>5, <2>1
  <2> QED
    BY <1>3, <2>2
<1> HIDE DEF Typ
<1>6. {n \in Nat : Typ(n)} = Nat
  <2> DEFINE T == {n \in Nat : Typ(n)}
  <2>1. T \in SUBSET Nat /\ 0 \in T /\ \A n \in T : n + 1 \in T
    BY <1>4, <1>5
  <2> HIDE DEF T
  <2>2. T = Nat
    BY <2>1, Numbers
  <2> QED
    BY <2>2 DEF T
<1>7. Cardinality(S) \in Nat /\ Typ(Cardinality(S)) /\ S \in SUBSET S
  BY <1>6, FS_CardinalityType
<1> QED
  BY <1>1, <1>7 DEF Typ

\* A sum depends only on what is summed.
LEMMA SumOfEqual ==
  ASSUME NEW S, NEW f, NEW g, \A x \in S : f[x] = g[x]
  PROVE  Sum(f, S) = Sum(g, S)
<1>1. \A s \in SUBSET S : s # {} => f[First(s)] = g[First(s)]
  BY DEF First
<1>2. \A h : Adds(f, S, h) <=> Adds(g, S, h)
  BY <1>1 DEF Adds
<1>3. (CHOOSE h : Adds(f, S, h)) = (CHOOSE h : Adds(g, S, h))
  BY <1>2
<1> QED
  BY <1>3, SumIs

\* What the ledger's totals take.
LEMMA SpentSum ==
  ASSUME NEW calls
  PROVE  Spent(calls) = Sum([c \in DOMAIN calls |-> calls[c].cost], DOMAIN calls)
<1> DEFINE S == DOMAIN calls
           f == [c \in S |-> calls[c].cost]
           P(h) == h = [s \in SUBSET S |-> IF s = {} THEN 0 ELSE calls[First(s)].cost + h[s \ {First(s)}]]
<1>1. Spent(calls) = (CHOOSE h : P(h))[S]
  BY DEF Spent, MapThenSumSet, MapThenFoldSet, First
<1>2. \A s \in SUBSET S : s # {} => calls[First(s)].cost = f[First(s)]
  BY DEF First
<1> HIDE DEF f
<1>3. \A h : P(h) <=> Adds(f, S, h)
  BY <1>2 DEF Adds
<1>4. (CHOOSE h : P(h)) = (CHOOSE h : Adds(f, S, h))
  BY <1>3
<1>5. Sum(f, S) = (CHOOSE h : Adds(f, S, h))[S]
  BY SumIs
<1> HIDE DEF P
<1> QED
  BY <1>1, <1>4, <1>5 DEF f

--------------------------------------------------------------------------------
(* Type correctness.                                                       *)

\* The calls of a log are cells.
LEMMA KnownType ==
  ASSUME TypeOK, NEW p \in Operators
  PROVE  /\ DOMAIN Known(p) = Reserved(op[p].seen)
         /\ DOMAIN Known(p) \subseteq Cells
         /\ Cardinality(DOMAIN Known(p)) \in 0..N
<1>1. op[p].seen \in Seq(Event)
  BY DEF TypeOK, Operation
<1>2. DOMAIN Known(p) = Reserved(op[p].seen)
  BY DEF Known, Calls
<1>3. Reserved(op[p].seen) \subseteq Cells
  <2>1. \A i \in DOMAIN op[p].seen : op[p].seen[i] \in Event
    BY <1>1
  <2>2. \A e \in Event : e.call \in Cells
    BY DEF Event
  <2> QED
    BY <2>1, <2>2 DEF Reserved
<1>4. IsFiniteSet(Cells) /\ Cardinality(Cells) = N
  BY FS_Interval, CampaignConstants DEF Cells
<1>5. IsFiniteSet(Reserved(op[p].seen)) /\ Cardinality(Reserved(op[p].seen)) <= N
  BY <1>3, <1>4, FS_Subset
<1>6. Cardinality(Reserved(op[p].seen)) \in Nat
  BY <1>5, FS_CardinalityType
<1> QED
  BY <1>2, <1>3, <1>5, <1>6, CampaignConstants

\* What a log was paid is a number.
LEMMA SpentType ==
  ASSUME TypeOK, NEW p \in Operators
  PROVE  Spent(Known(p)) \in Int
<1> DEFINE calls == Known(p)
           f == [c \in DOMAIN calls |-> calls[c].cost]
<1>1. IsFiniteSet(DOMAIN calls)
  <2>1. IsFiniteSet(Cells)
    BY FS_Interval, CampaignConstants DEF Cells
  <2>2. DOMAIN Known(p) \subseteq Cells
    BY KnownType
  <2> QED
    BY <2>1, <2>2, FS_Subset
<1>2. \A c \in DOMAIN calls : calls[c].cost \in Int
  <2> SUFFICES ASSUME NEW c \in DOMAIN calls
               PROVE  Call(op[p].seen, c).cost \in Int
    BY DEF Known, Calls
  <2>1. op[p].seen \in Seq(Event)
    BY DEF TypeOK, Operation
  <2>2. CASE At(op[p].seen, "completion", c) = {}
    BY <2>2 DEF Call
  <2>3. CASE At(op[p].seen, "completion", c) # {}
    <3>1. PICK i : i = CHOOSE k \in At(op[p].seen, "completion", c) : TRUE
      OBVIOUS
    <3>2. i \in At(op[p].seen, "completion", c)
      BY <2>3, <3>1
    <3>3. op[p].seen[i] \in Event /\ op[p].seen[i].type = "completion"
      BY <2>1, <3>2 DEF At
    <3>4. op[p].seen[i].cost \in Nat
      <4>1. ASSUME NEW e \in Event, e.type = "completion"
            PROVE  e.cost \in Nat
        <5>1. e.type # "reservation" /\ e.type # "reauthorization"
          BY <4>1
        <5> QED
          BY <5>1 DEF Event
      <4> QED
        BY <3>3, <4>1
    <3> QED
      BY <2>3, <3>1, <3>4 DEF Call
  <2> QED
    BY <2>2, <2>3
<1>3. \A c \in DOMAIN calls : f[c] \in Int
  BY <1>2
<1> HIDE DEF calls, f
<1>4. Sum(f, DOMAIN calls) \in Int
  BY <1>1, <1>3, SumType
<1> QED
  BY <1>4, SpentSum DEF f, calls

\* What Record leaves is typed when its event and its operation are.
LEMMA RecordType ==
  ASSUME TypeOK, NEW p \in Operators, NEW o \in Operation, NEW e \in Event,
         NEW then \in {"open", "judge", "validate", "done", "pay", "mark"},
         Record(p, o, e, then)
  PROVE  /\ events' \in Seq(Event) /\ Len(events') = Len(events) + 1 /\ synced' \in 0..Len(events')
         /\ op' \in [Operators -> Operation]
         /\ snapshot' = snapshot /\ torn' = torn /\ holder' = holder /\ synced' = synced
<1>1. [o EXCEPT !.at = "sync", !.then = then] \in Operation
  BY DEF Operation, Locations
<1> QED
  BY <1>1 DEF Record, Put, TypeOK

\* An operator that does nothing is typed ...
LEMMA IdleType == Idle \in Operation
<1>1. <<>> \in Seq(Event)
  OBVIOUS
<1> QED
  BY <1>1, CampaignConstants DEF Idle, Operation, Locations, Jobs, Authority, NoLedger, Nothing

\* ... and so is one that leaves.
LEMMA LeaveType ==
  ASSUME TypeOK, NEW p \in Operators, Leave(p)
  PROVE  op' \in [Operators -> Operation] /\ holder' \in Operators \cup {Nobody}
  BY IdleType DEF Leave, Put, TypeOK

\* Everything an operator can do in one step.
Act(p) == Step(p) \/ Interrupt(p) \/ Kill(p) \/ \E job \in Jobs : Begin(p, job)

\* Every step preserves the types; that a paying operator has a cell comes from Reservations.
LEMMA TypeNext ==
  ASSUME TypeOK, Reservations, NEW p \in Operators, Act(p)
  PROVE  TypeOK'
<1> USE CampaignConstants
<1>a. /\ op[p] \in Operation /\ op \in [Operators -> Operation]
      /\ Fresh \in Authority /\ NoLedger \in Authority
  BY DEF TypeOK, Authority, Fresh, NoLedger
<1>b. Paying(p) \/ Reserving(p) => op[p].call \in Cells
  BY DEF Reservations, Keeps
<1>c. ASSUME NEW o \in Operation, Put(p, o)
      PROVE  op' \in [Operators -> Operation]
  BY <1>a, <1>c DEF Put
<1>d. ASSUME NEW at \in Locations \cup {"done"}, NEW o \in Operation, Proceed(p, o, at)
      PROVE  op' \in [Operators -> Operation] /\ holder' \in Operators \cup {Nobody}
  <2>1. CASE at = "done"
    BY <2>1, <1>d, LeaveType DEF Proceed
  <2>2. CASE at # "done"
    <3>1. [o EXCEPT !.at = at] \in Operation
      BY <2>2 DEF Operation
    <3> QED
      BY <3>1, <2>2, <1>c, <1>d DEF Proceed, TypeOK
  <2> QED
    BY <2>1, <2>2
<1>e. ASSUME NEW then \in {"open", "judge", "validate", "done", "pay", "mark"}, LoadThen(p, then)
      PROVE  op' \in [Operators -> Operation] /\ holder' = holder
  <2>1. [op[p] EXCEPT !.at = "load", !.then = then] \in Operation
    BY <1>a DEF Operation, Locations
  <2> QED
    BY <2>1, <1>c, <1>e DEF LoadThen
<1>f. ASSUME NEW at \in Locations, Move(p, at)
      PROVE  op' \in [Operators -> Operation] /\ holder' = holder
  <2>1. [op[p] EXCEPT !.at = at] \in Operation
    BY <1>a DEF Operation
  <2> QED
    BY <2>1, <1>c, <1>f DEF Move
<1>g. \A c \in Cells, state \in {"completed", "stopped"}, cost \in Nat,
         error \in {"", "RuntimeError", "other"}, known \in BOOLEAN :
        Completion(c, state, cost, error, known) \in Event
  BY DEF Completion, Event
<1>h. ASSUME NEW e \in Event, NEW then \in {"open", "validate", "done", "pay", "mark"}, Record(p, op[p], e, then)
      PROVE  /\ events' \in Seq(Event) /\ synced' \in 0..Len(events')
             /\ op' \in [Operators -> Operation]
             /\ snapshot' = snapshot /\ torn' = torn /\ holder' = holder
  BY <1>a, <1>h, RecordType
<1>1. CASE Initialize(p)
  BY <1>1, <1>a, LeaveType DEF Initialize, TypeOK
<1>2. CASE Load(p)
  <2>1. CASE torn \/ ~Folds(events)
    BY <1>2, <2>1, LeaveType DEF Load, TypeOK
  <2>2. CASE ~(torn \/ ~Folds(events))
    <3>1. [op[p] EXCEPT !.seen = events, !.authority = snapshot] \in Operation
      BY <1>a DEF TypeOK, Operation
    <3>2. op[p].then \in Locations \cup {"done"}
      BY <1>a DEF Operation, Locations
    <3> QED
      BY <1>2, <2>2, <3>1, <3>2, <1>d DEF Load, TypeOK, Locations
  <2> QED
    BY <2>1, <2>2
<1>3. CASE Rebuild(p)
  <2>1. op[p].then \in Locations \cup {"done"} /\ op[p].authority \in Authority
    BY <1>a DEF Operation, Locations
  <2> QED
    BY <1>3, <2>1, <1>a, <1>d DEF Rebuild, TypeOK
<1>4. CASE SyncEvent(p)
  <2>1. op' \in [Operators -> Operation] /\ holder' = holder
    BY <1>4, <1>a, <1>e DEF SyncEvent, LoadThen, Operation, Put, Locations
  <2> QED
    BY <1>4, <2>1 DEF SyncEvent, TypeOK
<1>5. CASE Open(p)
  <2>1. [op[p] EXCEPT !.at = "state"] \in Operation
    BY <1>a DEF Operation, Locations
  <2> QED
    BY <1>5, <2>1, <1>c DEF Open, TypeOK
<1>6. CASE Reconcile(p)
  <2> DEFINE calls == Known(p)
             c == Cardinality(DOMAIN calls)
             out == (CHOOSE r \in Stored(c) : TRUE).out
             Settled == Started(calls) = {c} /\ InOrder(calls) /\ Cardinality(Stored(c)) = 1
  <2>1. CASE Settled
    <3>1. c \in Cells
      BY <2>1, KnownType DEF Started
    <3>2. IsFiniteSet(Stored(c)) /\ Stored(c) # {}
      BY <2>1, FS_Subset, FS_EmptySet DEF Stored, TypeOK
    <3>3. out.cost \in Nat
      BY <3>2 DEF Stored, TypeOK, Nothing
    <3>4. /\ Completion(c, "completed", out.cost, "", TRUE) \in Event
          /\ Completion(c, "stopped", out.cost, "RuntimeError", TRUE) \in Event
      BY <3>1, <3>3, <1>g
    <3>5. \/ Record(p, op[p], Completion(c, "completed", out.cost, "", TRUE), "validate")
          \/ Record(p, op[p], Completion(c, "stopped", out.cost, "RuntimeError", TRUE), "done")
      BY <1>6, <2>1 DEF Reconcile
    <3>6. UNCHANGED <<results, paid, overlapped, faults>>
      BY <1>6 DEF Reconcile
    <3> HIDE DEF out, c, calls
    <3> QED
      BY <3>4, <3>5, <3>6, <1>h DEF TypeOK
  <2>2. CASE ~Settled
    <3>1. Leave(p) /\ UNCHANGED <<files, results, paid, overlapped, faults>>
      BY <1>6, <2>2 DEF Reconcile
    <3> QED
      BY <3>1, LeaveType DEF files, TypeOK
  <2> QED
    BY <2>1, <2>2
<1>7. CASE Reserve(p)
  <2> DEFINE c == Next1(p)
  <2>1. CASE Valid(Known(p), op[p].authority) /\ Allowed(Known(p), op[p].authority) /\ op[p].job = "run"
    <3>1. c \in Cells
      BY <2>1, KnownType DEF Allowed, Next1, Cells
    <3>2. Reservation(c) \in Event
      BY <3>1 DEF Reservation, Event
    <3>3. Claim(p) \in Operation
      <4>1. c \in 0..N
        BY <3>1 DEF Cells
      <4>2. op[p].authority.limit \in {0, Limit, NewLimit}
        BY <1>a DEF Operation, Authority
      <4>3. Spent(Known(p)) \in Int
        BY SpentType
      <4> HIDE DEF c
      <4> QED
        BY <4>1, <4>2, <4>3, <1>a DEF Claim, Operation, c
    <3>4. Record(p, Claim(p), Reservation(c), "pay") /\ UNCHANGED <<results, paid, overlapped, faults>>
      BY <1>7, <2>1 DEF Reserve
    <3> HIDE DEF c
    <3> QED
      BY <3>2, <3>3, <3>4, RecordType DEF TypeOK
  <2>2. CASE ~(Valid(Known(p), op[p].authority) /\ Allowed(Known(p), op[p].authority) /\ op[p].job = "run")
    <3>1. Leave(p) /\ UNCHANGED <<files, results, paid, overlapped, faults>>
      BY <1>7, <2>2 DEF Reserve
    <3> QED
      BY <3>1, LeaveType DEF files, TypeOK
  <2> QED
    BY <2>1, <2>2
<1>8. CASE Run(p)
  <2> DEFINE c == op[p].call
  <2>1. c \in Cells
    BY <1>8, <1>b DEF Run, Paying
  <2>2. PICK out \in Outcomes \cup {Nothing} :
          /\ paid' = [paid EXCEPT ![c] = Append(@, [cost |-> out.cost, limit |-> op[p].under])]
          /\ IF out = Nothing
             THEN Record(p, op[p], Completion(c, "stopped", 0, "other", FALSE), "done")
             ELSE Put(p, [op[p] EXCEPT !.at = "store", !.out = out]) /\ UNCHANGED <<files, holder>>
    BY <1>8 DEF Run
  <2>3. out.cost \in Nat /\ op[p].under \in Nat
    BY <1>a DEF Nothing, Operation
  <2>4. paid' \in [Cells -> Seq([cost : Nat, limit : Nat])]
    BY <2>1, <2>2, <2>3 DEF TypeOK
  <2>5. UNCHANGED <<results, overlapped, faults>>
    BY <1>8 DEF Run
  <2>6. CASE out = Nothing
    <3>1. Completion(c, "stopped", 0, "other", FALSE) \in Event
      BY <2>1, <1>g
    <3> QED
      BY <2>2, <2>4, <2>5, <2>6, <3>1, <1>h DEF TypeOK
  <2>7. CASE out # Nothing
    <3>1. [op[p] EXCEPT !.at = "store", !.out = out] \in Operation
      BY <1>a DEF Operation, Locations
    <3> QED
      BY <2>2, <2>4, <2>5, <2>7, <3>1, <1>c DEF TypeOK, files
  <2> QED
    BY <2>6, <2>7
<1>9. CASE Store(p)
  <2> DEFINE r == [cell |-> op[p].call, run |-> Len(paid[op[p].call]), out |-> op[p].out]
  <2>1. results' = results \cup {r} /\ Move(p, "check") /\ UNCHANGED <<files, paid, overlapped, faults>>
    BY <1>9 DEF Store
  <2>2. r \in [cell : Cells, run : Nat, out : Outcomes \cup {Nothing}]
    <3>1. op[p].call \in Cells
      BY <1>9, <1>b DEF Store, Paying
    <3> QED
      BY <3>1, <1>a DEF TypeOK, Operation
  <2>3. IsFiniteSet(results')
    BY <2>1, FS_AddElement DEF TypeOK
  <2>4. op' \in [Operators -> Operation] /\ holder' = holder
    BY <2>1, <1>f DEF Locations
  <2> HIDE DEF r
  <2> QED
    BY <2>1, <2>2, <2>3, <2>4 DEF TypeOK, files
<1>10. CASE Finish(p)
  <2> DEFINE c == op[p].call
             cost == op[p].out.cost
  <2>1. c \in Cells
    BY <1>10, <1>b DEF Finish, Paying
  <2>a. cost \in Nat
    BY <1>a DEF Operation, Nothing
  <2>2. /\ Completion(c, "completed", cost, "", TRUE) \in Event
        /\ Completion(c, "stopped", cost, "RuntimeError", TRUE) \in Event
    BY <2>1, <2>a, <1>g
  <2>3. \/ Record(p, op[p], Completion(c, "completed", cost, "", TRUE), "done")
        \/ Record(p, op[p], Completion(c, "stopped", cost, "RuntimeError", TRUE), "done")
    BY <1>10 DEF Finish
  <2>4. UNCHANGED <<results, paid, overlapped, faults>>
    BY <1>10 DEF Finish
  <2> HIDE DEF c, cost
  <2> QED
    BY <2>2, <2>3, <2>4, <1>h DEF TypeOK
<1>11. CASE Confirmed(p)
  <2>1. (Move(p, "open") \/ Leave(p)) /\ UNCHANGED <<files, results, paid, overlapped, faults>>
    BY <1>11 DEF Confirmed
  <2> QED
    BY <2>1, <1>f, LeaveType DEF files, Locations, TypeOK
<1>12. CASE Judge(p)
  <2> DEFINE c == About(op[p].authority, op[p].job)
  <2>1. c \in 0..N /\ Cardinality(DOMAIN Known(p)) \in 0..N
    BY <1>a, KnownType DEF About, Operation, Authority
  <2>2. UNCHANGED <<files, results, holder, paid, overlapped, faults>>
    BY <1>12 DEF Judge
  <2>3. CASE c \in DOMAIN Known(p) \cup {0} /\ Amendable(op[p].job, Known(p), op[p].authority)
    <3> DEFINE o == [op[p] EXCEPT !.at = IF c = 0 THEN "amend" ELSE "mark",
                                  !.call = IF c = 0 THEN Cardinality(DOMAIN Known(p)) ELSE c]
    <3>1. o \in Operation
      BY <2>1, <1>a DEF Operation, Locations
    <3>2. Put(p, o)
      BY <1>12, <2>3 DEF Judge
    <3> HIDE DEF o
    <3> QED
      BY <3>1, <3>2, <2>2, <1>c DEF files, TypeOK
  <2>4. CASE ~(c \in DOMAIN Known(p) \cup {0} /\ Amendable(op[p].job, Known(p), op[p].authority))
    <3>1. Put(p, Idle)
      BY <1>12, <2>4 DEF Judge
    <3>2. op' \in [Operators -> Operation]
      BY <3>1, <1>a, IdleType, <1>c
    <3> QED
      BY <3>2, <2>2 DEF files, TypeOK
  <2> QED
    BY <2>3, <2>4
<1>13. CASE Amend(p)
  <2>1. snapshot' \in Authority
    BY <1>13, <1>a DEF Amend, Operation, Authority
  <2>2. op' \in [Operators -> Operation] /\ holder' = holder
    BY <1>13, <1>e DEF Amend
  <2> QED
    BY <1>13, <2>1, <2>2 DEF Amend, TypeOK
<1>14. CASE Mark(p)
  <2> DEFINE c == op[p].call
  <2>1. UNCHANGED <<results, paid, overlapped, faults>>
    BY <1>14 DEF Mark
  <2>2. CASE c \in DOMAIN Known(p) /\ Known(p)[c].state = "stopped"
    <3>1. Reauthorization(c, op[p].job) \in Event
      BY <1>14, <2>2, <1>a, KnownType DEF Mark, Reauthorization, Event, Operation
    <3>2. Record(p, op[p], Reauthorization(c, op[p].job), "open")
      BY <1>14, <2>2 DEF Mark
    <3> QED
      BY <3>1, <3>2, <2>1, <1>h DEF TypeOK
  <2>3. CASE ~(c \in DOMAIN Known(p) /\ Known(p)[c].state = "stopped")
    <3>1. (LoadThen(p, "open") \/ Leave(p)) /\ UNCHANGED files
      BY <1>14, <2>3 DEF Mark
    <3> QED
      BY <3>1, <2>1, <1>e, LeaveType DEF files, TypeOK
  <2> QED
    BY <2>2, <2>3
<1>15. CASE Interrupt(p)
  <2> DEFINE c == op[p].call
             known == op[p].at = "check"
             e == Completion(c, "stopped", IF known THEN op[p].out.cost ELSE 0, "other", known)
             r == [cell |-> c, run |-> Len(paid[c]), out |-> op[p].out]
  <2>1. c \in Cells /\ op[p].out.cost \in Nat
    BY <1>15, <1>a, <1>b DEF Interrupt, Paying, Operation, Nothing
  <2>2. e \in Event
    BY <2>1, <1>g
  <2>3. r \in [cell : Cells, run : Nat, out : Outcomes \cup {Nothing}]
    BY <2>1, <1>a DEF TypeOK, Operation
  <2>4. results' = results \/ results' = results \cup {r}
    BY <1>15 DEF Interrupt
  <2>a. IsFiniteSet(results')
    <3> HIDE DEF r
    <3>1. IsFiniteSet(results)
      BY DEF TypeOK
    <3>2. IsFiniteSet(results \cup {r})
      BY <3>1, FS_AddElement
    <3> QED
      BY <2>4, <3>1, <3>2
  <2>5. results' \subseteq [cell : Cells, run : Nat, out : Outcomes \cup {Nothing}] /\ IsFiniteSet(results')
    <3> HIDE DEF r
    <3> QED
      BY <2>3, <2>4, <2>a DEF TypeOK
  <2>6. Record(p, op[p], e, "done") /\ UNCHANGED <<paid, overlapped, faults>>
    BY <1>15 DEF Interrupt
  <2> HIDE DEF e
  <2> QED
    BY <2>2, <2>5, <2>6, <1>h DEF TypeOK
<1>16. CASE Kill(p)
  BY <1>16, LeaveType DEF Kill, files, TypeOK
<1>17. CASE \E job \in Jobs : Begin(p, job)
  <2>1. PICK job \in Jobs : Begin(p, job)
    BY <1>17
  <2>2. PICK at \in Locations, then \in {"open", "judge"} :
          Put(p, [Idle EXCEPT !.at = at, !.job = job, !.then = then])
    BY <2>1 DEF Begin, Locations
  <2>3. [Idle EXCEPT !.at = at, !.job = job, !.then = then] \in Operation
    BY IdleType DEF Operation
  <2> QED
    BY <2>1, <2>2, <2>3, <1>c DEF Begin, files, TypeOK
<1> QED
  BY <1>1, <1>2, <1>3, <1>4, <1>5, <1>6, <1>7, <1>8, <1>9, <1>10, <1>11, <1>12, <1>13, <1>14,
     <1>15, <1>16, <1>17 DEF Act, Step

--------------------------------------------------------------------------------
(* What a step of one operator leaves to the others.                       *)

Frame(p) ==
  /\ Grows /\ synced <= synced' /\ torn' = torn
  /\ \A q \in Operators \ {p} : op'[q] = op[q]
  /\ \/ holder' = holder
     \/ holder = Nobody /\ holder' = p
     \/ holder = p /\ holder' = Nobody
  /\ paid' = paid \/ holder = p
  /\ op'[p].seen \in {op[p].seen, <<>>, events}

\* A step of p changes only p's operation, adds at most one event, and touches what
\* was paid only for the holder of the session.
LEMMA FrameHolds ==
  ASSUME TypeOK, Reservations, NEW p \in Operators, Act(p)
  PROVE  Frame(p)
<1>a. op \in [Operators -> Operation] /\ synced \in Nat /\ synced <= Len(events) /\ op[p] \in Operation
  BY DEF TypeOK
<1>b. ASSUME NEW o \in Operation, NEW e, NEW then, Record(p, o, e, then), o.seen = op[p].seen,
             paid' = paid \/ holder = p
      PROVE  Frame(p)
  BY <1>a, <1>b DEF Record, Put, Frame, Grows, Operation
<1>c. ASSUME NEW o, Put(p, o), UNCHANGED files, o.seen \in {op[p].seen, <<>>, events},
             \/ UNCHANGED holder
             \/ holder = Nobody /\ holder' = p
             \/ holder = p /\ holder' = Nobody,
             paid' = paid \/ holder = p
      PROVE  Frame(p)
  BY <1>a, <1>c DEF Put, Frame, Grows, files
<1>d. ASSUME Leave(p), UNCHANGED <<events, synced, torn>>, paid' = paid \/ holder = p
      PROVE  Frame(p)
  BY <1>a, <1>d DEF Leave, Put, Frame, Grows, Idle
<1>e. ASSUME NEW o \in Operation, NEW at, Proceed(p, o, at), UNCHANGED <<events, synced, torn>>, paid' = paid,
             o.seen \in {op[p].seen, events}
      PROVE  Frame(p)
  <2>1. CASE at = "done"
    BY <2>1, <1>d, <1>e DEF Proceed
  <2>2. CASE at # "done"
    BY <2>2, <1>a, <1>e DEF Proceed, Put, Frame, Grows, Operation
  <2> QED
    BY <2>1, <2>2
<1>f. ASSUME NEW then, LoadThen(p, then), UNCHANGED <<events, torn>>, paid' = paid, synced <= synced'
      PROVE  Frame(p)
  BY <1>a, <1>f DEF LoadThen, Put, Frame, Grows, Operation
<1>g. ASSUME NEW at, Move(p, at), UNCHANGED files, paid' = paid
      PROVE  Frame(p)
  BY <1>a, <1>g DEF Move, Put, Frame, Grows, Operation, files
<1>h. Paying(p) => holder = p
  BY DEF Reservations, Keeps, InSession
<1>1. CASE Initialize(p)
  BY <1>1, <1>d DEF Initialize
<1>2. CASE Load(p)
  <2>1. CASE torn \/ ~Folds(events)
    BY <1>2, <2>1, <1>d DEF Load
  <2>2. CASE ~(torn \/ ~Folds(events))
    <3>1. [op[p] EXCEPT !.seen = events, !.authority = snapshot] \in Operation
      BY <1>a DEF TypeOK, Operation
    <3>2. [op[p] EXCEPT !.seen = events, !.authority = snapshot].seen = events
      BY <1>a DEF Operation
    <3> QED
      BY <1>2, <2>2, <3>1, <3>2, <1>e DEF Load
  <2> QED
    BY <2>1, <2>2
<1>3. CASE Rebuild(p)
  BY <1>3, <1>a, <1>e DEF Rebuild
<1>4. CASE SyncEvent(p)
  BY <1>4, <1>a, <1>f DEF SyncEvent
<1>5. CASE Open(p)
  <2>1. [op[p] EXCEPT !.at = "state"].seen = op[p].seen
    BY <1>a DEF Operation
  <2> QED
    BY <1>5, <2>1, <1>c DEF Open, files
<1>6. CASE Reconcile(p)
  <2>1. \/ \E e, then : Record(p, op[p], e, then)
        \/ Leave(p) /\ UNCHANGED files
    BY <1>6 DEF Reconcile
  <2>2. paid' = paid
    BY <1>6 DEF Reconcile
  <2> QED
    BY <2>1, <2>2, <1>a, <1>b, <1>d DEF files
<1>7. CASE Reserve(p)
  <2>1. \/ Record(p, Claim(p), Reservation(Next1(p)), "pay")
        \/ Leave(p) /\ UNCHANGED files
    BY <1>7 DEF Reserve
  <2>2. CASE Record(p, Claim(p), Reservation(Next1(p)), "pay")
    BY <1>7, <2>2, <1>a DEF Reserve, Record, Claim, Put, Frame, Grows, Operation
  <2> QED
    BY <1>7, <2>1, <2>2, <1>d DEF Reserve, files
<1>8. CASE Run(p)
  <2>1. PICK out \in Outcomes \cup {Nothing} :
          IF out = Nothing
          THEN Record(p, op[p], Completion(op[p].call, "stopped", 0, "other", FALSE), "done")
          ELSE Put(p, [op[p] EXCEPT !.at = "store", !.out = out]) /\ UNCHANGED <<files, holder>>
    BY <1>8 DEF Run
  <2>2. holder = p
    BY <1>8, <1>h DEF Run, Paying
  <2>3. [op[p] EXCEPT !.at = "store", !.out = out].seen = op[p].seen
    BY <1>a DEF Operation
  <2> QED
    BY <2>1, <2>2, <2>3, <1>a, <1>b, <1>c
<1>9. CASE Store(p)
  BY <1>9, <1>g DEF Store
<1>10. CASE Finish(p)
  <2>1. \E e, then : Record(p, op[p], e, then)
    BY <1>10 DEF Finish
  <2> QED
    BY <1>10, <2>1, <1>a, <1>b DEF Finish
<1>11. CASE Confirmed(p)
  BY <1>11, <1>d, <1>g DEF Confirmed, files
<1>12. CASE Judge(p)
  <2>1. PICK o : Put(p, o) /\ o.seen \in {op[p].seen, <<>>}
    <3> DEFINE c == About(op[p].authority, op[p].job)
               o == [op[p] EXCEPT !.at = IF c = 0 THEN "amend" ELSE "mark",
                                  !.call = IF c = 0 THEN Cardinality(DOMAIN Known(p)) ELSE c]
    <3>1. o.seen = op[p].seen /\ Idle.seen = <<>>
      BY <1>a DEF Operation, Idle
    <3>2. Put(p, o) \/ Put(p, Idle)
      BY <1>12 DEF Judge
    <3> QED
      BY <3>1, <3>2
  <2> QED
    BY <1>12, <2>1, <1>c DEF Judge
<1>13. CASE Amend(p)
  BY <1>13, <1>a, <1>f DEF Amend
<1>14. CASE Mark(p)
  <2>1. \/ \E e : Record(p, op[p], e, "open")
        \/ (LoadThen(p, "open") \/ Leave(p)) /\ UNCHANGED files
    BY <1>14 DEF Mark
  <2>2. paid' = paid
    BY <1>14 DEF Mark
  <2> QED
    BY <2>1, <2>2, <1>a, <1>b, <1>d, <1>f DEF files
<1>15. CASE Interrupt(p)
  <2>1. \E e : Record(p, op[p], e, "done")
    BY <1>15 DEF Interrupt
  <2> QED
    BY <1>15, <2>1, <1>a, <1>b DEF Interrupt
<1>16. CASE Kill(p)
  BY <1>16, <1>d DEF Kill, files
<1>17. CASE \E job \in Jobs : Begin(p, job)
  <2>1. PICK job \in Jobs : Begin(p, job)
    BY <1>17
  <2>2. \A at, then : [Idle EXCEPT !.at = at, !.job = job, !.then = then].seen = <<>>
    BY DEF Idle
  <2> QED
    BY <2>1, <2>2, <1>c DEF Begin
<1> QED
  BY <1>1, <1>2, <1>3, <1>4, <1>5, <1>6, <1>7, <1>8, <1>9, <1>10, <1>11, <1>12, <1>13, <1>14,
     <1>15, <1>16, <1>17 DEF Act, Step


\* The others keep what Reservations and SeenIsPrefix say of them.
LEMMA OthersKeep ==
  ASSUME CampaignInv, TypeOK', NEW p \in Operators, Frame(p)
  PROVE  /\ \A q \in Operators \ {p} : Keeps(q)' /\ Prefix(q)'
         /\ Prefix(p)'
         /\ \A c \in Cells : OnDisk(c) => OnDisk(c)'
<1>1. Grows /\ synced <= synced'
  BY DEF Frame
<1>2. events \in Seq(Event) /\ events' \in Seq(Event) /\ op[p].seen \in Seq(Event)
  BY DEF CampaignInv, TypeOK, Operation
<1>3. \A c \in Cells : OnDisk(c) => OnDisk(c)'
  BY <1>1, LogGrows DEF CampaignInv
<1>4. /\ Len(events) <= Len(events')
      /\ \A i \in 1..Len(events) : events'[i] = events[i]
      /\ ~Folds(events) => ~Folds(events')
      /\ \A type, c : At(events, type, c) \subseteq At(events', type, c)
      /\ \A d : Accepted(events, d, Len(events)) => Accepted(events', d, Len(events'))
  BY <1>1, <1>2, LogGrows DEF CampaignInv
<1>5. ASSUME NEW q \in Operators \ {p}
      PROVE  Prefix(q)'
  <2>1. op'[q] = op[q] /\ Prefix(q) /\ op[q].seen \in Seq(Event)
    BY DEF Frame, CampaignInv, SeenIsPrefix, TypeOK, Operation
  <2> QED
    BY <1>2, <1>4, <2>1 DEF Prefix
<1>6. Prefix(p)'
  <2>1. Prefix(p) /\ op'[p].seen \in {op[p].seen, <<>>, events}
    BY DEF Frame, CampaignInv, SeenIsPrefix
  <2> QED
    BY <1>2, <1>4, <2>1 DEF Prefix
<1>7. ASSUME NEW q \in Operators \ {p}
      PROVE  Keeps(q)'
  <2>1. op'[q] = op[q] /\ Keeps(q)
    BY DEF Frame, CampaignInv, Reservations
  <2>2. /\ InSession(q)' <=> InSession(q)
        /\ Reserving(q)' <=> Reserving(q)
        /\ Paying(q)' <=> Paying(q)
    BY <2>1 DEF InSession, Reserving, Paying
  <2>3. InSession(q) => holder = q /\ holder' = q /\ paid' = paid
    BY <2>1, CampaignConstants DEF Frame, Keeps
  <2>4. Reserving(q) \/ Paying(q) => InSession(q) /\ op[q].call \in Cells
    BY <2>1 DEF Keeps, InSession
  <2>5. op[q].at = "pay" => Paying(q)
    BY DEF Paying
  <2>6. (Reserving(q) /\ op[q].at # "sync") \/ op[q].at = "pay" => OnDisk(op[q].call)'
    <3>1. (Reserving(q) /\ op[q].at # "sync") \/ op[q].at = "pay" => OnDisk(op[q].call) /\ op[q].call \in Cells
      BY <2>1, <2>4, <2>5 DEF Keeps
    <3>2. \A c \in Cells : OnDisk(c) => (\E i \in At(events', "reservation", c) : i <= synced')
                                      /\ \A d \in 1..(c - 1) : Accepted(events', d, synced')
      BY <1>3 DEF OnDisk
    <3> QED
      BY <2>1, <3>1, <3>2 DEF OnDisk
  <2> QED
    BY <1>4, <2>1, <2>2, <2>3, <2>4, <2>5, <2>6 DEF Keeps
<1> QED
  BY <1>3, <1>5, <1>6, <1>7

--------------------------------------------------------------------------------
(* What a step makes of the operator that takes it.                        *)

\* Outside the session nothing is promised.
LEMMA OutsideKeeps ==
  ASSUME NEW p \in Operators, ~InSession(p)'
  PROVE  Keeps(p)'
  BY DEF Keeps, InSession, Reserving, Paying

\* In the session, before the reservation and after the payment, little is.
LEMMA InsideKeeps ==
  ASSUME NEW p \in Operators, holder' = p, ~Reserving(p)', op'[p].at # "pay",
         Paying(p)' => op'[p].call \in Cells
  PROVE  Keeps(p)'
  BY DEF Keeps

\* After an append that reserves nothing.
LEMMA RecordKeeps ==
  ASSUME TypeOK, NEW p \in Operators, NEW e, NEW then \in {"open", "validate", "done"},
         Record(p, op[p], e, then), then = "validate" => holder = p
  PROVE  Keeps(p)'
<1>1. op'[p].at = "sync" /\ op'[p].then = then /\ holder' = holder
  BY DEF Record, Put, TypeOK, Operation
<1>2. CASE then = "validate"
  BY <1>1, <1>2, InsideKeeps DEF Reserving, Paying
<1>3. CASE then # "validate"
  BY <1>1, <1>3, OutsideKeeps DEF InSession, Reserving, Paying
<1> QED
  BY <1>2, <1>3

\* Whoever is idle again is outside.
LEMMA LeaveKeeps ==
  ASSUME TypeOK, NEW p \in Operators, Leave(p)
  PROVE  Keeps(p)' /\ op'[p] = Idle
<1>1. op'[p] = Idle
  BY DEF Leave, Put, TypeOK
<1> QED
  BY <1>1, OutsideKeeps DEF Idle, InSession, Reserving, Paying

\* A load goes on only with a log that folds; so a reservation that it reads was not paid.
LEMMA LoadKeeps ==
  ASSUME CampaignInv, TypeOK', NEW p \in Operators, Load(p)
  PROVE  Keeps(p)'
<1>1. CASE torn \/ ~Folds(events)
  BY <1>1, LeaveKeeps DEF Load, CampaignInv
<1>2. CASE ~(torn \/ ~Folds(events))
  <2> DEFINE o == [op[p] EXCEPT !.seen = events, !.authority = snapshot]
             at == IF events = <<>> THEN op[p].then ELSE "rebuild"
  <2>1. Proceed(p, o, at) /\ UNCHANGED <<events, synced, paid>>
    BY <1>2 DEF Load
  <2>2. CASE at = "done"
    BY <2>1, <2>2, LeaveKeeps DEF Proceed, CampaignInv
  <2>3. CASE at # "done"
    <3>1. op'[p] = [o EXCEPT !.at = at] /\ holder' = holder
      BY <2>1, <2>3 DEF Proceed, Put, CampaignInv, TypeOK
    <3>2. op'[p].at = at /\ op'[p].then = op[p].then /\ op'[p].call = op[p].call
      BY <3>1 DEF CampaignInv, TypeOK, Operation
    <3>3. op[p].at = "load" /\ Keeps(p)
      BY DEF Load, CampaignInv, Reservations
    <3>4. op[p].then \in {"open", "judge", "validate", "done", "pay", "mark"}
      BY DEF CampaignInv, TypeOK, Operation
    <3>5. CASE op[p].then = "pay"
      <4>1. /\ holder = p /\ op[p].call \in Cells /\ paid[op[p].call] = <<>> /\ OnDisk(op[p].call)
        BY <1>2, <3>3, <3>5 DEF Keeps, InSession, Reserving
      <4>2. OnDisk(op[p].call)'
        BY <2>1, <3>2, <4>1 DEF OnDisk
      <4> QED
        BY <2>1, <3>1, <3>2, <3>5, <4>1, <4>2 DEF Keeps, InSession, Reserving, Paying
    <3>6. CASE op[p].then = "validate"
      <4>1. holder = p
        BY <3>3, <3>6 DEF Keeps, InSession
      <4> QED
        BY <3>1, <3>2, <3>6, <4>1, InsideKeeps DEF Reserving, Paying
    <3>7. CASE op[p].then \in {"open", "judge", "done", "mark"}
      BY <3>2, <3>7, OutsideKeeps DEF InSession, Reserving, Paying
    <3> QED
      BY <3>4, <3>5, <3>6, <3>7
  <2> QED
    BY <2>2, <2>3
<1> QED
  BY <1>1, <1>2

LEMMA RebuildKeeps ==
  ASSUME CampaignInv, TypeOK', NEW p \in Operators, Rebuild(p)
  PROVE  Keeps(p)'
<1> DEFINE at == IF Spent(Known(p)) > Budget THEN "done" ELSE op[p].then
<1>1. Proceed(p, op[p], at) /\ UNCHANGED <<events, synced, paid>>
  BY DEF Rebuild
<1>2. CASE at = "done"
  BY <1>1, <1>2, LeaveKeeps DEF Proceed, CampaignInv
<1>3. CASE at # "done"
  <2>1. op'[p] = [op[p] EXCEPT !.at = at] /\ holder' = holder
    BY <1>1, <1>3 DEF Proceed, Put, CampaignInv, TypeOK
  <2>2. op'[p].at = op[p].then /\ op'[p].then = op[p].then /\ op'[p].call = op[p].call
    BY <1>3, <2>1 DEF CampaignInv, TypeOK, Operation
  <2>3. op[p].at = "rebuild" /\ Keeps(p)
    BY DEF Rebuild, CampaignInv, Reservations
  <2>4. op[p].then \in {"open", "judge", "validate", "done", "pay", "mark"}
    BY DEF CampaignInv, TypeOK, Operation
  <2>5. CASE op[p].then = "pay"
    <3>1. /\ holder = p /\ op[p].call \in Cells /\ paid[op[p].call] = <<>> /\ OnDisk(op[p].call)
      BY <2>3, <2>5 DEF Keeps, InSession, Reserving
    <3>2. OnDisk(op[p].call)'
      BY <1>1, <2>2, <3>1 DEF OnDisk
    <3> QED
      BY <1>1, <2>1, <2>2, <2>5, <3>1, <3>2 DEF Keeps, InSession, Reserving, Paying
  <2>6. CASE op[p].then = "validate"
    <3>1. holder = p
      BY <2>3, <2>6 DEF Keeps, InSession
    <3> QED
      BY <2>1, <2>2, <2>6, <3>1, InsideKeeps DEF Reserving, Paying
  <2>7. CASE op[p].then \in {"open", "judge", "done", "mark"}
    BY <2>2, <2>7, OutsideKeeps DEF InSession, Reserving, Paying
  <2> QED
    BY <2>4, <2>5, <2>6, <2>7
<1> QED
  BY <1>2, <1>3

\* The fsync puts the reservation on disk, and all that precedes it.
LEMMA SyncKeeps ==
  ASSUME CampaignInv, TypeOK', NEW p \in Operators, SyncEvent(p)
  PROVE  Keeps(p)'
<1>1. /\ op'[p] = [op[p] EXCEPT !.at = "load"] /\ holder' = holder /\ events' = events /\ paid' = paid
      /\ synced' = Len(events) /\ op[p].at = "sync"
  BY DEF SyncEvent, LoadThen, Put, CampaignInv, TypeOK, Operation
<1>2. op'[p].at = "load" /\ op'[p].then = op[p].then /\ op'[p].call = op[p].call
  BY <1>1 DEF CampaignInv, TypeOK, Operation
<1>3. op[p].then \in {"open", "judge", "validate", "done", "pay", "mark"} /\ Keeps(p)
  BY DEF CampaignInv, TypeOK, Operation, Reservations
<1>4. CASE op[p].then = "pay"
  <2>1. /\ holder = p /\ op[p].call \in Cells
        /\ ~Folds(events) \/ paid[op[p].call] = <<>>
        /\ At(events, "reservation", op[p].call) # {}
        /\ \A d \in 1..(op[p].call - 1) : Accepted(events, d, Len(events))
    BY <1>1, <1>3, <1>4 DEF Keeps, InSession, Reserving
  <2>2. \A i \in At(events, "reservation", op[p].call) : i <= Len(events)
    BY DEF At, CampaignInv, TypeOK
  <2>3. OnDisk(op[p].call)'
    BY <1>1, <1>2, <2>1, <2>2 DEF OnDisk
  <2> QED
    BY <1>1, <1>2, <1>4, <2>1, <2>3 DEF Keeps, InSession, Reserving, Paying
<1>5. CASE op[p].then = "validate"
  <2>1. holder = p
    BY <1>1, <1>3, <1>5 DEF Keeps, InSession
  <2> QED
    BY <1>1, <1>2, <1>5, <2>1, InsideKeeps DEF Reserving, Paying
<1>6. CASE op[p].then \in {"open", "judge", "done", "mark"}
  BY <1>2, <1>6, OutsideKeeps DEF InSession, Reserving, Paying
<1> QED
  BY <1>3, <1>4, <1>5, <1>6

\* The fold calls a call completed only if an event accepts it.
LEMMA CompletedIsAccepted ==
  ASSUME NEW log \in Seq(Event), NEW c, Call(log, c).state = "completed"
  PROVE  Accepted(log, c, Len(log))
<1>1. At(log, "completion", c) # {}
  BY DEF Call
<1> DEFINE i == CHOOSE j \in At(log, "completion", c) : TRUE
<1>2. i \in At(log, "completion", c) /\ i <= Len(log)
  BY <1>1 DEF At
<1>3. CASE At(log, "reauthorization", c) = {}
  <2>1. log[i].state = "completed"
    BY <1>1, <1>3 DEF Call
  <2> QED
    BY <1>2, <2>1 DEF Accepted
<1>4. CASE At(log, "reauthorization", c) # {}
  BY <1>4 DEF Accepted, At
<1> QED
  BY <1>3, <1>4

\* What an operator has read as completed is accepted by the log as it is now.
LEMMA SeenIsAccepted ==
  ASSUME CampaignInv, NEW p \in Operators, NEW c, Call(op[p].seen, c).state = "completed"
  PROVE  Accepted(events, c, Len(events))
<1> DEFINE seen == op[p].seen
<1>1. seen \in Seq(Event) /\ events \in Seq(Event) /\ Prefix(p)
  BY DEF CampaignInv, TypeOK, Operation, SeenIsPrefix
<1>2. Accepted(seen, c, Len(seen))
  BY <1>1, CompletedIsAccepted
<1>3. /\ Len(seen) <= Len(events) /\ \A i \in 1..Len(seen) : i \in 1..Len(events) /\ seen[i] = events[i]
  BY <1>1 DEF Prefix
<1>4. \A type : At(seen, type, c) \subseteq At(events, type, c)
  BY <1>1, <1>3 DEF At
<1>5. \A type : \A i \in At(seen, type, c) : i \in 1..Len(seen) /\ seen[i] = events[i] /\ i <= Len(events)
  BY <1>1, <1>3 DEF At
<1> HIDE DEF seen
<1> QED
  BY <1>2, <1>4, <1>5 DEF Accepted

\* A reservation comes after the acceptance of all earlier calls; if its cell was paid
\* before, the log does not fold any more.
LEMMA ReserveKeeps ==
  ASSUME CampaignInv, TypeOK', NEW p \in Operators, Reserve(p)
  PROVE  Keeps(p)'
<1> DEFINE c == Next1(p)
           Go == op[p].job = "run" /\ Valid(Known(p), op[p].authority) /\ Allowed(Known(p), op[p].authority)
<1>1. CASE ~Go
  BY <1>1, LeaveKeeps DEF Reserve, CampaignInv
<1>2. CASE Go
  <2>1. holder = p
    BY DEF Reserve, CampaignInv, Reservations, Keeps, InSession
  <2>2. Record(p, Claim(p), Reservation(c), "pay") /\ paid' = paid
    BY <1>2 DEF Reserve
  <2>3. /\ events' = Append(events, Reservation(c)) /\ holder' = p
        /\ op'[p].at = "sync" /\ op'[p].then = "pay" /\ op'[p].call = c
    BY <2>1, <2>2 DEF Record, Claim, Put, CampaignInv, TypeOK, Operation
  <2>4. Cardinality(DOMAIN Known(p)) \in 0..N /\ c = Cardinality(DOMAIN Known(p)) + 1 /\ c \in Cells
    BY <1>2, KnownType, CampaignConstants DEF CampaignInv, Next1, Allowed, Cells
  <2>5. events \in Seq(Event) /\ events' \in Seq(Event) /\ synced \in 0..Len(events)
    BY DEF CampaignInv, TypeOK
  <2>6. Len(events') = Len(events) + 1 /\ events'[Len(events')] = Reservation(c)
    BY <2>3, <2>5
  <2>7. Len(events') \in At(events', "reservation", c)
    BY <2>5, <2>6 DEF At, Reservation
  <2>8. ASSUME NEW d \in 1..(c - 1)
        PROVE  Accepted(events', d, Len(events'))
    <3>1. d \in DOMAIN Known(p) /\ Known(p)[d].state = "completed"
      BY <1>2, <2>4 DEF Valid, InOrder
    <3>2. Call(op[p].seen, d).state = "completed"
      BY <3>1 DEF Known, Calls
    <3>3. Accepted(events, d, Len(events))
      BY <3>2, SeenIsAccepted
    <3>4. Grows /\ synced <= synced'
      BY <2>2, <2>3, <2>5 DEF Grows, Record
    <3> HIDE DEF c
    <3> QED
      BY <2>5, <2>6, <3>3, <3>4, LogGrows DEF CampaignInv
  <2>9. ~Folds(events') \/ paid[c] = <<>>
    <3>1. SUFFICES ASSUME paid[c] # <<>>
                   PROVE  ~Folds(events')
      OBVIOUS
    <3>2. PICK i \in At(events, "reservation", c) : i <= synced
      BY <2>4, <3>1 DEF CampaignInv, PaidInv, OnDisk
    <3>3. i \in At(events', "reservation", c) /\ i < Len(events')
      BY <2>3, <2>5, <2>6, <3>2 DEF At
    <3> HIDE DEF c
    <3> QED
      BY <2>5, <2>7, <3>3, TwoReservations
  <2> HIDE DEF c
  <2> QED
    BY <2>2, <2>3, <2>4, <2>7, <2>8, <2>9 DEF Keeps, InSession, Reserving, Paying
<1> QED
  BY <1>1, <1>2

\* The run is paid while the cell was not, and its reservation is on disk.
LEMMA RunKeeps ==
  ASSUME CampaignInv, TypeOK', NEW p \in Operators, Run(p)
  PROVE  Keeps(p)' /\ PaidInv'
<1> DEFINE c == op[p].call
<1>1. op[p].at = "pay" /\ holder = p /\ c \in Cells /\ paid[c] = <<>> /\ OnDisk(c)
  BY DEF Run, CampaignInv, Reservations, Keeps, InSession, Paying
<1>2. PICK out \in Outcomes \cup {Nothing} :
        /\ paid' = [paid EXCEPT ![c] = Append(@, [cost |-> out.cost, limit |-> op[p].under])]
        /\ IF out = Nothing
           THEN Record(p, op[p], Completion(c, "stopped", 0, "other", FALSE), "done")
           ELSE Put(p, [op[p] EXCEPT !.at = "store", !.out = out]) /\ UNCHANGED <<files, holder>>
  BY DEF Run
<1>3. Keeps(p)'
  <2>1. CASE out = Nothing
    BY <1>2, <2>1, RecordKeeps DEF CampaignInv
  <2>2. CASE out # Nothing
    <3>0. op[p] \in Operation /\ op \in [Operators -> Operation]
      BY DEF CampaignInv, TypeOK
    <3>1. op'[p].at = "store" /\ op'[p].call = c /\ holder' = p
      BY <1>1, <1>2, <2>2, <3>0 DEF Put, Operation
    <3> QED
      BY <1>1, <3>1, InsideKeeps DEF Reserving
  <2> QED
    BY <2>1, <2>2
<1>4. \A d \in Cells : OnDisk(d) => OnDisk(d)'
  <2>1. Act(p) /\ Frame(p)
    BY FrameHolds DEF Act, Step, CampaignInv
  <2> QED
    BY <2>1, OthersKeep
<1>5. ASSUME NEW d \in Cells, paid'[d] # <<>>
      PROVE  Len(paid'[d]) = 1 /\ OnDisk(d)'
  <2>1. CASE d = c
    <3>1. Len(paid'[d]) = 1
      BY <1>1, <1>2, <2>1 DEF CampaignInv, TypeOK
    <3>2. OnDisk(d)
      BY <1>1, <2>1
    <3> HIDE DEF c
    <3> QED
      BY <1>4, <3>1, <3>2
  <2>2. CASE d # c
    <3>1. paid'[d] = paid[d]
      BY <1>2, <2>2 DEF CampaignInv, TypeOK
    <3> HIDE DEF c
    <3> QED
      BY <1>4, <1>5, <3>1 DEF CampaignInv, PaidInv
  <2> QED
    BY <2>1, <2>2
<1>6. PaidInv'
  BY <1>5 DEF PaidInv
<1> QED
  BY <1>3, <1>6

\* What every step makes of the operator that takes it.
LEMMA OwnKeeps ==
  ASSUME CampaignInv, TypeOK', NEW p \in Operators, Act(p)
  PROVE  Keeps(p)' /\ (torn => BeforeLoad(p)')
<1>a. /\ TypeOK /\ op[p] \in Operation /\ op \in [Operators -> Operation]
      /\ InSession(p) => holder = p
      /\ Paying(p) => op[p].call \in Cells
      /\ torn => BeforeLoad(p)
  BY DEF CampaignInv, TypeOK, Reservations, Keeps, TornStops
<1>b. ASSUME Leave(p)
      PROVE  Keeps(p)' /\ (torn => BeforeLoad(p)')
  BY <1>a, <1>b, LeaveKeeps DEF BeforeLoad, Idle
<1>c. ASSUME NEW e, NEW then \in {"open", "validate", "done"}, Record(p, op[p], e, then),
             then = "validate" => holder = p
      PROVE  Keeps(p)'
  BY <1>a, <1>c, RecordKeeps
<1>d. ASSUME NEW at \in {"open", "check", "amend", "mark", "idle", "state"}, op'[p].at = at,
             at \in {"check", "state"} => holder' = p /\ op'[p].call \in Cells
      PROVE  Keeps(p)'
  <2>1. CASE at \in {"check", "state"}
    BY <1>d, <2>1, InsideKeeps DEF Reserving
  <2>2. CASE at \notin {"check", "state"}
    BY <1>d, <2>2, OutsideKeeps DEF InSession, Reserving, Paying
  <2> QED
    BY <2>1, <2>2
<1>e. ASSUME NEW then \in {"open", "mark"}, LoadThen(p, then)
      PROVE  Keeps(p)'
  <2>1. op'[p].at = "load" /\ op'[p].then = then
    BY <1>a, <1>e DEF LoadThen, Put, Operation
  <2> QED
    BY <2>1, OutsideKeeps DEF InSession, Reserving, Paying
<1>1. CASE Initialize(p)
  BY <1>1, <1>b DEF Initialize
<1>2. CASE Load(p)
  BY <1>2, <1>b, LoadKeeps DEF Load
<1>3. CASE Rebuild(p)
  BY <1>3, <1>a, RebuildKeeps DEF Rebuild, BeforeLoad
<1>4. CASE SyncEvent(p)
  BY <1>4, <1>a, SyncKeeps DEF SyncEvent, BeforeLoad
<1>5. CASE Open(p)
  <2>1. op[p].at = "open" /\ op'[p].at = "state" /\ holder' = p
    BY <1>5, <1>a DEF Open, Put, Operation
  <2> QED
    BY <2>1, <1>a, InsideKeeps DEF BeforeLoad, Reserving, Paying
<1>6. CASE Reconcile(p)
  <2>1. op[p].at = "state" /\ holder = p
    BY <1>6, <1>a DEF Reconcile, InSession
  <2>2. \/ \E e : Record(p, op[p], e, "validate") \/ Record(p, op[p], e, "done")
        \/ Leave(p)
    BY <1>6 DEF Reconcile
  <2> QED
    BY <2>1, <2>2, <1>a, <1>b, <1>c DEF BeforeLoad
<1>7. CASE Reserve(p)
  BY <1>7, <1>a, ReserveKeeps DEF Reserve, BeforeLoad
<1>8. CASE Run(p)
  BY <1>8, <1>a, RunKeeps DEF Run, BeforeLoad
<1>9. CASE Store(p)
  <2>1. op[p].at = "store" /\ holder = p /\ op[p].call \in Cells
    BY <1>9, <1>a DEF Store, InSession, Paying
  <2>2. op'[p].at = "check" /\ op'[p].call = op[p].call /\ holder' = holder
    BY <1>9, <1>a DEF Store, Move, Put, Operation
  <2> QED
    BY <2>1, <2>2, <1>a, <1>d DEF BeforeLoad
<1>10. CASE Finish(p)
  <2>1. op[p].at = "check" /\ \E e : Record(p, op[p], e, "done")
    BY <1>10 DEF Finish
  <2> QED
    BY <2>1, <1>a, <1>c DEF BeforeLoad
<1>11. CASE Confirmed(p)
  <2>1. op[p].at = "judge" /\ (Move(p, "open") \/ Leave(p))
    BY <1>11 DEF Confirmed
  <2>2. Move(p, "open") => op'[p].at = "open"
    BY <1>a DEF Move, Put, Operation
  <2> QED
    BY <2>1, <2>2, <1>a, <1>b, <1>d DEF BeforeLoad
<1>12. CASE Judge(p)
  <2> DEFINE c == About(op[p].authority, op[p].job)
             o == [op[p] EXCEPT !.at = IF c = 0 THEN "amend" ELSE "mark",
                                !.call = IF c = 0 THEN Cardinality(DOMAIN Known(p)) ELSE c]
  <2>1. op[p].at = "judge" /\ (Put(p, o) \/ Put(p, Idle))
    BY <1>12 DEF Judge
  <2>2. o.at \in {"amend", "mark"} /\ Idle.at = "idle"
    BY <1>a DEF Idle, Operation
  <2> HIDE DEF o
  <2>3. op'[p].at \in {"amend", "mark", "idle"}
    BY <2>1, <2>2, <1>a DEF Put
  <2> QED
    BY <2>1, <2>3, <1>a, <1>d DEF BeforeLoad
<1>13. CASE Amend(p)
  BY <1>13, <1>a, <1>e DEF Amend, BeforeLoad
<1>14. CASE Mark(p)
  <2>1. \/ \E e : Record(p, op[p], e, "open")
        \/ LoadThen(p, "open") \/ Leave(p)
    BY <1>14 DEF Mark
  <2>2. op[p].at = "mark"
    BY <1>14 DEF Mark
  <2> QED
    BY <2>1, <2>2, <1>a, <1>b, <1>c, <1>e DEF BeforeLoad
<1>15. CASE Interrupt(p)
  <2>1. op[p].at \in {"store", "check"} /\ \E e : Record(p, op[p], e, "done")
    BY <1>15 DEF Interrupt
  <2> QED
    BY <2>1, <1>a, <1>c DEF BeforeLoad
<1>16. CASE Kill(p)
  BY <1>16, <1>b DEF Kill
<1>17. CASE \E job \in Jobs : Begin(p, job)
  <2>1. PICK job \in Jobs, at \in {"create", "load"}, then \in {"open", "judge"} :
          Put(p, [Idle EXCEPT !.at = at, !.job = job, !.then = then])
    BY <1>17 DEF Begin
  <2>2. op'[p].at = at /\ op'[p].then = then
    BY <2>1, <1>a DEF Put, Idle
  <2> QED
    BY <2>2, OutsideKeeps DEF BeforeLoad, InSession, Reserving, Paying
<1> QED
  BY <1>1, <1>2, <1>3, <1>4, <1>5, <1>6, <1>7, <1>8, <1>9, <1>10, <1>11, <1>12, <1>13, <1>14,
     <1>15, <1>16, <1>17 DEF Act, Step

--------------------------------------------------------------------------------
(* The invariant is inductive.                                             *)

LEMMA CampaignInit == Init => CampaignInv
<1> SUFFICES ASSUME Init
             PROVE  CampaignInv
  OBVIOUS
<1>1. <<>> \in Seq(Event) /\ Len(<<>>) = 0 /\ IsFiniteSet({}) /\ \A S : <<>> \in Seq(S)
  BY FS_EmptySet
<1>2. TypeOK
  <2>1. op \in [Operators -> Operation]
    BY IdleType DEF Init
  <2>2. paid \in [Cells -> Seq([cost : Nat, limit : Nat])]
    BY <1>1 DEF Init
  <2>3. snapshot \in Authority
    BY CampaignConstants DEF Init, Authority, NoLedger
  <2>4. results \subseteq [cell : Cells, run : Nat, out : Outcomes \cup {Nothing}] /\ IsFiniteSet(results)
    BY <1>1 DEF Init
  <2>5. events \in Seq(Event) /\ synced \in 0..Len(events)
    BY <1>1 DEF Init
  <2>6. torn \in BOOLEAN /\ holder \in Operators \cup {Nobody} /\ overlapped \in BOOLEAN /\ faults \in 0..MaxFaults
    <3>1. 0 \in 0..MaxFaults
      BY CampaignConstants
    <3> QED
      BY <3>1 DEF Init
  <2> QED
    BY <2>1, <2>2, <2>3, <2>4, <2>5, <2>6 DEF TypeOK
<1>3. TornStops /\ SeenIsPrefix /\ Reservations /\ PaidInv
  BY <1>1 DEF Init, TornStops, SeenIsPrefix, Prefix, Reservations, Keeps, InSession, Reserving, Paying, PaidInv, Idle
<1> QED
  BY <1>2, <1>3 DEF CampaignInv

\* A power loss takes only what was not fsynced, and everybody's work.
LEMMA PowerLossKeeps ==
  ASSUME CampaignInv, PowerLoss
  PROVE  CampaignInv'
<1>1. PICK kept \in synced..Len(events) :
        events' = SubSeq(events, 1, kept) /\ synced' = kept /\ torn' \in BOOLEAN
  BY DEF PowerLoss, CampaignInv, TypeOK
<1>2. events \in Seq(Event) /\ synced \in 0..Len(events)
  BY DEF CampaignInv, TypeOK
<1>3. /\ events' \in Seq(Event) /\ Len(events') = kept
      /\ \A i \in 1..kept : events'[i] = events[i]
  BY <1>1, <1>2
<1>4. op' = [p \in Operators |-> Idle] /\ holder' = Nobody
  BY DEF PowerLoss
<1>5. TypeOK'
  <2>1. op' \in [Operators -> Operation]
    BY <1>4, IdleType
  <2> QED
    BY <1>1, <1>3, <1>4, <2>1, CampaignConstants DEF PowerLoss, CampaignInv, TypeOK
<1>6. TornStops' /\ SeenIsPrefix' /\ Reservations'
  BY <1>3, <1>4 DEF TornStops, BeforeLoad, SeenIsPrefix, Prefix, Reservations, Keeps, InSession, Reserving, Paying, Idle
<1>7. \A type, c, i : i \in At(events, type, c) /\ i <= synced => i \in At(events', type, c) /\ i <= kept /\ events'[i] = events[i]
  BY <1>2, <1>3 DEF At
<1>8. ASSUME NEW d, Accepted(events, d, synced)
      PROVE  Accepted(events', d, kept)
  BY <1>7, <1>8 DEF Accepted
<1>9. ASSUME NEW c \in Cells, paid'[c] # <<>>
      PROVE  Len(paid'[c]) = 1 /\ OnDisk(c)'
  <2>1. paid' = paid
    BY DEF PowerLoss
  <2>2. Len(paid[c]) = 1 /\ OnDisk(c)
    BY <1>9, <2>1 DEF CampaignInv, PaidInv
  <2>3. \E i \in At(events', "reservation", c) : i <= synced'
    BY <1>1, <1>7, <2>2 DEF OnDisk
  <2>4. \A d \in 1..(c - 1) : Accepted(events', d, synced')
    BY <1>1, <1>8, <2>2 DEF OnDisk
  <2> QED
    BY <2>1, <2>2, <2>3, <2>4 DEF OnDisk
<1>10. PaidInv'
  BY <1>9 DEF PaidInv
<1> QED
  BY <1>5, <1>6, <1>10 DEF CampaignInv

\* Every step preserves the invariant.
LEMMA CampaignStep == CampaignInv /\ [Next]_vars => CampaignInv'
<1> SUFFICES ASSUME CampaignInv, [Next]_vars
             PROVE  CampaignInv'
  OBVIOUS
<1>1. CASE PowerLoss
  BY <1>1, PowerLossKeeps
<1>2. ASSUME NEW p \in Operators, Act(p)
      PROVE  CampaignInv'
  <2>1. TypeOK'
    BY <1>2, TypeNext DEF CampaignInv
  <2>2. Frame(p)
    BY <1>2, FrameHolds DEF CampaignInv
  <2>3. Keeps(p)' /\ (torn => BeforeLoad(p)')
    BY <1>2, <2>1, OwnKeeps
  <2>4. /\ \A q \in Operators \ {p} : Keeps(q)' /\ Prefix(q)'
        /\ Prefix(p)'
        /\ \A c \in Cells : OnDisk(c) => OnDisk(c)'
    BY <2>1, <2>2, OthersKeep
  <2>5. Reservations' /\ SeenIsPrefix'
    BY <2>3, <2>4 DEF Reservations, SeenIsPrefix
  <2>6. TornStops'
    BY <2>2, <2>3 DEF Frame, TornStops, BeforeLoad, CampaignInv
  <2>7. PaidInv'
    <3>1. CASE Run(p)
      BY <2>1, <3>1, RunKeeps
    <3>2. CASE ~Run(p)
      <4>1. paid' = paid
        BY <1>2, <3>2 DEF Act, Step, Initialize, Load, Rebuild, SyncEvent, Open, Reconcile, Reserve, Store,
           Finish, Confirmed, Judge, Amend, Mark, Interrupt, Kill, Begin
      <4> QED
        BY <2>4, <4>1 DEF CampaignInv, PaidInv
    <3> QED
      BY <3>1, <3>2
  <2> QED
    BY <2>1, <2>5, <2>6, <2>7 DEF CampaignInv
<1>3. CASE UNCHANGED vars
  BY <1>3 DEF vars, CampaignInv, TypeOK, TornStops, BeforeLoad, SeenIsPrefix, Prefix, Reservations, Keeps,
     InSession, Reserving, Paying, PaidInv, OnDisk
<1> QED
  BY <1>1, <1>2, <1>3 DEF Next, Act

\* The invariant holds in every behaviour.
THEOREM CampaignInvariant == Spec => []CampaignInv
<1> QED
  BY CampaignInit, CampaignStep, PTL DEF Spec

\* The snapshot, the event log and every operator's place keep their types.
THEOREM TypeInvariant == Spec => []TypeOK
<1>1. CampaignInv => TypeOK
  BY DEF CampaignInv
<1> QED
  BY <1>1, CampaignInvariant, PTL

\* run_next_replicate_campaign_cell pays no cell twice, whatever operators overlap or
\* die, wherever power fails, and however amendments are repeated.
THEOREM NoCellIsPaidTwice == Spec => []PaidOnce
<1>1. CampaignInv => PaidOnce
  <2> SUFFICES ASSUME CampaignInv, NEW c \in Cells
               PROVE  Len(paid[c]) <= 1
    BY DEF PaidOnce
  <2>0. Len(<<>>) = 0
    OBVIOUS
  <2>1. CASE paid[c] = <<>>
    BY <2>0, <2>1
  <2>2. CASE paid[c] # <<>>
    <3>1. Len(paid[c]) = 1
      BY <2>2 DEF CampaignInv, PaidInv
    <3> QED
      BY <3>1
  <2> QED
    BY <2>1, <2>2
<1> QED
  BY <1>1, CampaignInvariant, PTL

\* A paid run follows a reservation event that no power loss takes back.
THEOREM PaidRunsAreReserved == Spec => []PaidIsReserved
<1>1. CampaignInv => PaidIsReserved
  BY DEF CampaignInv, PaidInv, OnDisk, PaidIsReserved
<1> QED
  BY <1>1, CampaignInvariant, PTL

\* In a log that folds, what accepts a call leaves it completed.
LEMMA AcceptedIsCompleted ==
  ASSUME NEW log \in Seq(Event), NEW c \in Cells, NEW k \in Nat, Folds(log), Accepted(log, c, k)
  PROVE  c \in Reserved(log) /\ Call(log, c).state = "completed"
<1>1. \A i \in DOMAIN log : Fits(log, i)
  BY DEF Folds
<1>2. ASSUME NEW i \in At(log, "completion", c)
      PROVE  At(log, "reservation", c) # {}
  <2>1. i \in DOMAIN log /\ log[i].type = "completion" /\ log[i].call = c
    BY DEF At
  <2> QED
    BY <1>1, <2>1 DEF Fits, Earlier
<1>3. ASSUME NEW i \in At(log, "reauthorization", c)
      PROVE  At(log, "completion", c) # {}
  <2>1. i \in DOMAIN log /\ log[i].type = "reauthorization" /\ log[i].call = c
    BY DEF At
  <2> QED
    BY <1>1, <2>1 DEF Fits, Earlier
<1>4. At(log, "completion", c) # {}
  BY <1>3 DEF Accepted
<1>5. c \in Reserved(log)
  BY <1>2, <1>4 DEF At, Reserved
<1>6. ASSUME NEW i \in At(log, "completion", c), NEW j \in At(log, "completion", c), i < j
      PROVE  FALSE
  <2>1. j \in DOMAIN log /\ log[j].type = "completion" /\ log[j].call = c
    BY DEF At
  <2>2. i \in Earlier(log, "completion", j)
    BY <1>6, <2>1 DEF Earlier
  <2> QED
    BY <1>1, <2>1, <2>2 DEF Fits
<1>7. CASE At(log, "reauthorization", c) = {}
  <2>1. PICK i \in At(log, "completion", c) : log[i].state = "completed"
    BY <1>7 DEF Accepted
  <2>2. \A j \in At(log, "completion", c) : j = i
    <3>1. \A j \in At(log, "completion", c) : j \in Int
      BY DEF At
    <3> QED
      BY <1>6, <3>1
  <2>3. (CHOOSE j \in At(log, "completion", c) : TRUE) = i
    BY <2>2
  <2> QED
    BY <1>4, <1>5, <1>7, <2>1, <2>3 DEF Call
<1>8. CASE At(log, "reauthorization", c) # {}
  BY <1>4, <1>5, <1>8 DEF Call
<1> QED
  BY <1>7, <1>8

\* Cells are paid in schedule order, and none after a call that stopped and that no
\* amendment accepted.
THEOREM PaymentStopsAtAStop == Spec => []NothingPaidPastAStop
<1>1. CampaignInv => NothingPaidPastAStop
  <2> SUFFICES ASSUME CampaignInv, Readable, NEW c \in Cells, paid[c] # <<>>, NEW d \in 1..(c - 1)
               PROVE  d \in Reserved(events) /\ Call(events, d).state = "completed"
    BY DEF NothingPaidPastAStop
  <2>1. Accepted(events, d, synced) /\ d \in Cells /\ synced \in Nat /\ events \in Seq(Event)
    BY CampaignConstants DEF CampaignInv, TypeOK, PaidInv, OnDisk, Cells
  <2> QED
    BY <2>1, AcceptedIsCompleted DEF Readable
<1> QED
  BY <1>1, CampaignInvariant, PTL

--------------------------------------------------------------------------------
(* Operators that take turns lose no amendment.                            *)

\* What p holds of the authority is what the snapshot file says; a ledger is created
\* where there is none, and an amendment is written where there is none of its kind.
Current(p) ==
  /\ op[p].at = "create" => snapshot = NoLedger
  /\ op[p].at \in {"rebuild", "judge", "amend"} => op[p].authority = snapshot
  /\ op[p].at = "amend" => About(snapshot, op[p].job) = 0
OneAtATime == \A p, q \in Operators : op[p] # Idle /\ op[q] # Idle => p = q
TurnInv == ~overlapped => OneAtATime /\ \A p \in Operators : Current(p)

\* A step of an operator in turn finds the others idle and leaves them so.
LEMMA TurnFrame ==
  ASSUME CampaignInv, TurnInv, NEW p \in Operators, Act(p), ~overlapped'
  PROVE  /\ ~overlapped /\ Current(p)
         /\ \A q \in Operators \ {p} : op[q] = Idle /\ op'[q] = Idle
<1>1. Frame(p)
  BY FrameHolds DEF CampaignInv
<1>2. ~overlapped
  <2>1. CASE \E job \in Jobs : Begin(p, job)
    BY <2>1 DEF Begin
  <2>2. CASE Step(p)
    <3>1. overlapped' = overlapped
      BY <2>2 DEF Step, Initialize, Load, Rebuild, SyncEvent, Open, Reconcile, Reserve, Run, Store,
         Finish, Confirmed, Judge, Amend, Mark
    <3> QED
      BY <3>1
  <2>3. CASE Interrupt(p) \/ Kill(p)
    <3>1. overlapped' = overlapped
      BY <2>3 DEF Interrupt, Kill
    <3> QED
      BY <3>1
  <2> QED
    BY <2>1, <2>2, <2>3 DEF Act
<1>3. \A q \in Operators \ {p} : op[q] = Idle
  <2>1. CASE \E job \in Jobs : Begin(p, job)
    BY <2>1 DEF Begin
  <2>2. CASE ~ \E job \in Jobs : Begin(p, job)
    <3>1. Idle.at = "idle"
      BY DEF Idle
    <3>2. ASSUME Step(p) PROVE op[p] # Idle
      <4>1. op[p].at # "idle"
        BY <3>2 DEF Step, Initialize, Load, Rebuild, SyncEvent, Open, Reconcile, Reserve, Run, Store,
           Finish, Confirmed, Judge, Amend, Mark
      <4> QED
        BY <3>1, <4>1
    <3>3. ASSUME Interrupt(p) \/ Kill(p) PROVE op[p] # Idle
      BY <3>1, <3>3 DEF Interrupt, Kill
    <3>4. op[p] # Idle
      BY <2>2, <3>2, <3>3 DEF Act
    <3> QED
      BY <1>2, <3>4 DEF TurnInv, OneAtATime
  <2> QED
    BY <2>1, <2>2
<1> QED
  BY <1>1, <1>2, <1>3 DEF TurnInv, Frame

\* A step that leaves the snapshot as it is, and the operator where nothing is promised.
LEMMA ElsewhereIsCurrent ==
  ASSUME NEW p \in Operators, op'[p].at \notin {"create", "rebuild", "judge", "amend"}
  PROVE  Current(p)'
  BY DEF Current

\* What each step does to the authority: only Amend changes what a ledger says, and
\* only where it said nothing.
LEMMA TurnKeeps ==
  ASSUME CampaignInv, TurnInv, NEW p \in Operators, Act(p), ~overlapped'
  PROVE  /\ Current(p)'
         /\ snapshot.amend # 0 => snapshot'.amend = snapshot.amend
         /\ snapshot.cont # 0 => snapshot'.cont = snapshot.cont
<1> DEFINE Same == /\ snapshot.amend # 0 => snapshot'.amend = snapshot.amend
                   /\ snapshot.cont # 0 => snapshot'.cont = snapshot.cont
<1>a. /\ op[p] \in Operation /\ op \in [Operators -> Operation] /\ snapshot \in Authority
      /\ Current(p)
  BY TurnFrame DEF CampaignInv, TypeOK
<1>b. ASSUME Leave(p)
      PROVE  Current(p)'
  BY <1>a, <1>b, ElsewhereIsCurrent DEF Leave, Put, Idle
<1>c. ASSUME NEW o \in Operation, NEW e, NEW then, Record(p, o, e, then)
      PROVE  Current(p)' /\ snapshot' = snapshot
  <2>1. op'[p].at = "sync"
    BY <1>a, <1>c DEF Record, Put, Operation
  <2> QED
    BY <1>c, <2>1, ElsewhereIsCurrent DEF Record
<1>d. ASSUME NEW then, LoadThen(p, then)
      PROVE  Current(p)'
  <2>1. op'[p].at = "load"
    BY <1>a, <1>d DEF LoadThen, Put, Operation
  <2> QED
    BY <2>1, ElsewhereIsCurrent
<1>e. op[p].then \in {"open", "judge", "validate", "done", "pay", "mark"}
  BY <1>a DEF Operation
<1>1. CASE Initialize(p)
  <2>1. snapshot = NoLedger /\ Leave(p)
    BY <1>1, <1>a DEF Initialize, Current
  <2> QED
    BY <2>1, <1>b DEF NoLedger
<1>2. CASE Load(p)
  <2>1. CASE torn \/ ~Folds(events)
    BY <1>2, <2>1, <1>b DEF Load
  <2>2. CASE ~(torn \/ ~Folds(events))
    <3> DEFINE o == [op[p] EXCEPT !.seen = events, !.authority = snapshot]
               at == IF events = <<>> THEN op[p].then ELSE "rebuild"
    <3>1. Proceed(p, o, at) /\ snapshot' = snapshot
      BY <1>2, <2>2 DEF Load
    <3>2. CASE at = "done"
      BY <3>1, <3>2, <1>b DEF Proceed
    <3>3. CASE at # "done"
      <4>1. op'[p] = [o EXCEPT !.at = at]
        BY <3>1, <3>3, <1>a DEF Proceed, Put
      <4>2. op'[p].at = at /\ op'[p].authority = snapshot
        BY <4>1, <1>a DEF Operation
      <4>3. at \notin {"create", "amend"}
        BY <1>e
      <4> QED
        BY <3>1, <4>2, <4>3 DEF Current
    <3> QED
      BY <3>2, <3>3
  <2> QED
    BY <2>1, <2>2
<1>3. CASE Rebuild(p)
  <2> DEFINE at == IF Spent(Known(p)) > Budget THEN "done" ELSE op[p].then
  <2>1. Proceed(p, op[p], at) /\ snapshot' = snapshot
    BY <1>3, <1>a DEF Rebuild, Current
  <2>2. CASE at = "done"
    BY <2>1, <2>2, <1>b DEF Proceed
  <2>3. CASE at # "done"
    <3>1. op'[p].at = op[p].then /\ op'[p].authority = op[p].authority
      BY <2>1, <2>3, <1>a DEF Proceed, Put, Operation
    <3>2. op[p].authority = snapshot
      BY <1>3, <1>a DEF Rebuild, Current
    <3> QED
      BY <2>1, <3>1, <3>2, <1>e DEF Current
  <2> QED
    BY <2>1, <2>2, <2>3
<1>4. CASE SyncEvent(p)
  BY <1>4, <1>d DEF SyncEvent
<1>5. CASE Open(p)
  <2>1. op'[p].at = "state" /\ snapshot' = snapshot
    BY <1>5, <1>a DEF Open, Put, Operation
  <2> QED
    BY <2>1, ElsewhereIsCurrent
<1>6. CASE Reconcile(p)
  <2>1. \/ \E e : Record(p, op[p], e, "validate") \/ Record(p, op[p], e, "done")
        \/ Leave(p) /\ UNCHANGED files
    BY <1>6 DEF Reconcile
  <2> QED
    BY <2>1, <1>a, <1>b, <1>c DEF files
<1>7. CASE Reserve(p)
  <2>1. \/ \E e, then : Record(p, Claim(p), e, then)
        \/ Leave(p) /\ UNCHANGED files
    BY <1>7 DEF Reserve
  <2>2. CASE \E e, then : Record(p, Claim(p), e, then)
    <3>1. op'[p].at = "sync" /\ snapshot' = snapshot
      BY <2>2, <1>a DEF Record, Claim, Put, Operation
    <3> QED
      BY <3>1, ElsewhereIsCurrent
  <2> QED
    BY <2>1, <2>2, <1>b DEF files
<1>8. CASE Run(p)
  <2>1. PICK out \in Outcomes \cup {Nothing} :
          IF out = Nothing
          THEN Record(p, op[p], Completion(op[p].call, "stopped", 0, "other", FALSE), "done")
          ELSE Put(p, [op[p] EXCEPT !.at = "store", !.out = out]) /\ UNCHANGED <<files, holder>>
    BY <1>8 DEF Run
  <2>2. CASE out # Nothing
    <3>1. op'[p].at = "store" /\ snapshot' = snapshot
      BY <2>1, <2>2, <1>a DEF Put, Operation, files
    <3> QED
      BY <3>1, ElsewhereIsCurrent
  <2> QED
    BY <2>1, <2>2, <1>a, <1>c
<1>9. CASE Store(p)
  <2>1. op'[p].at = "check" /\ snapshot' = snapshot
    BY <1>9, <1>a DEF Store, Move, Put, Operation, files
  <2> QED
    BY <2>1, ElsewhereIsCurrent
<1>10. CASE Finish(p)
  <2>1. \E e : Record(p, op[p], e, "done")
    BY <1>10 DEF Finish
  <2> QED
    BY <2>1, <1>a, <1>c
<1>11. CASE Confirmed(p)
  <2>1. Move(p, "open") => op'[p].at = "open"
    BY <1>a DEF Move, Put, Operation
  <2>2. snapshot' = snapshot /\ (Move(p, "open") \/ Leave(p))
    BY <1>11 DEF Confirmed, files
  <2> QED
    BY <2>1, <2>2, <1>b, ElsewhereIsCurrent
<1>12. CASE Judge(p)
  <2> DEFINE c == About(op[p].authority, op[p].job)
             n == IF c = 0 THEN Cardinality(DOMAIN Known(p)) ELSE c
             o == [op[p] EXCEPT !.at = IF c = 0 THEN "amend" ELSE "mark", !.call = n]
  <2>1. op[p].at = "judge" /\ snapshot' = snapshot /\ (Put(p, o) \/ Put(p, Idle))
    BY <1>12 DEF Judge, files
  <2>2. op[p].authority = snapshot
    BY <2>1, <1>a DEF Current
  <2>3. CASE Put(p, Idle)
    <3>1. op'[p].at = "idle"
      BY <2>3, <1>a DEF Put, Idle
    <3> QED
      BY <2>1, <3>1, ElsewhereIsCurrent
  <2>4. CASE Put(p, o)
    <3>1. /\ op'[p].at = (IF c = 0 THEN "amend" ELSE "mark")
          /\ op'[p].authority = op[p].authority /\ op'[p].job = op[p].job
      <4> HIDE DEF n
      <4> QED
        BY <2>4, <1>a DEF Put, Operation
    <3> QED
      BY <2>1, <2>2, <3>1 DEF Current
  <2> QED
    BY <2>1, <2>3, <2>4
<1>13. CASE Amend(p)
  <2>1. op[p].authority = snapshot /\ About(snapshot, op[p].job) = 0
    BY <1>13, <1>a DEF Amend, Current
  <2>2. snapshot' = IF op[p].job = "amend"
                    THEN [snapshot EXCEPT !.limit = NewLimit, !.amend = op[p].call]
                    ELSE [snapshot EXCEPT !.cont = op[p].call]
    BY <1>13, <2>1 DEF Amend
  <2>3. Same
    BY <2>1, <2>2, <1>a DEF Authority, About
  <2> QED
    BY <1>13, <2>3, <1>d DEF Amend
<1>14. CASE Mark(p)
  <2>1. \/ \E e : Record(p, op[p], e, "open")
        \/ (LoadThen(p, "open") \/ Leave(p)) /\ UNCHANGED files
    BY <1>14 DEF Mark
  <2> QED
    BY <2>1, <1>a, <1>b, <1>c, <1>d DEF files
<1>15. CASE Interrupt(p)
  <2>1. \E e : Record(p, op[p], e, "done")
    BY <1>15 DEF Interrupt
  <2> QED
    BY <2>1, <1>a, <1>c
<1>16. CASE Kill(p)
  BY <1>16, <1>b DEF Kill, files
<1>17. CASE \E job \in Jobs : Begin(p, job)
  <2>1. PICK job \in Jobs : Begin(p, job)
    BY <1>17
  <2>2. PICK then : Put(p, [Idle EXCEPT !.at = IF job = "create" THEN "create" ELSE "load", !.job = job, !.then = then])
    BY <2>1 DEF Begin
  <2>3. op'[p].at = IF job = "create" THEN "create" ELSE "load"
    BY <2>2, <1>a DEF Put, Idle
  <2>4. snapshot' = snapshot /\ (job = "create" => snapshot = NoLedger)
    BY <2>1 DEF Begin, files
  <2> QED
    BY <2>3, <2>4 DEF Current
<1> QED
  BY <1>1, <1>2, <1>3, <1>4, <1>5, <1>6, <1>7, <1>8, <1>9, <1>10, <1>11, <1>12, <1>13, <1>14,
     <1>15, <1>16, <1>17 DEF Act, Step

LEMMA TurnInit == Init => TurnInv
  BY DEF Init, TurnInv, OneAtATime, Current, Idle

LEMMA TurnStep == CampaignInv /\ TurnInv /\ [Next]_vars => TurnInv'
<1> SUFFICES ASSUME CampaignInv, TurnInv, [Next]_vars, ~overlapped'
             PROVE  OneAtATime' /\ \A p \in Operators : Current(p)'
  BY DEF TurnInv
<1>1. CASE PowerLoss
  <2>1. \A p \in Operators : op'[p] = Idle
    BY <1>1 DEF PowerLoss
  <2> QED
    BY <2>1, ElsewhereIsCurrent DEF OneAtATime, Idle
<1>2. ASSUME NEW p \in Operators, Act(p)
      PROVE  OneAtATime' /\ \A q \in Operators : Current(q)'
  <2>1. \A q \in Operators \ {p} : op'[q] = Idle
    BY <1>2, TurnFrame
  <2>2. \A q \in Operators \ {p} : Current(q)'
    BY <2>1, ElsewhereIsCurrent DEF Idle
  <2>3. Current(p)'
    BY <1>2, TurnKeeps
  <2> QED
    BY <2>1, <2>2, <2>3 DEF OneAtATime
<1>3. CASE UNCHANGED vars
  BY <1>3 DEF vars, TurnInv, OneAtATime, Current
<1> QED
  BY <1>1, <1>2, <1>3 DEF Next, Act

\* While operators take turns, no amendment of the authority that is in the snapshot
\* file is lost, whoever dies between the two files and wherever power fails.
THEOREM AmendmentsStay == Spec => AuthorityStays
<1>1. Spec => [](CampaignInv /\ TurnInv)
  <2>1. CampaignInv /\ TurnInv /\ [Next]_vars => CampaignInv' /\ TurnInv'
    BY CampaignStep, TurnStep
  <2> QED
    BY <2>1, CampaignInit, TurnInit, PTL DEF Spec
<1>2. ASSUME CampaignInv, TurnInv, Next
      PROVE  ~overlapped' => /\ snapshot.amend # 0 => snapshot'.amend = snapshot.amend
                             /\ snapshot.cont # 0 => snapshot'.cont = snapshot.cont
  <2>1. CASE PowerLoss
    BY <2>1 DEF PowerLoss
  <2>2. ASSUME NEW p \in Operators, Act(p), ~overlapped'
        PROVE  /\ snapshot.amend # 0 => snapshot'.amend = snapshot.amend
               /\ snapshot.cont # 0 => snapshot'.cont = snapshot.cont
    BY <1>2, <2>2, TurnKeeps
  <2> QED
    BY <1>2, <2>1, <2>2 DEF Next, Act
<1>3. CampaignInv /\ TurnInv /\ [Next]_vars =>
        [~overlapped' => /\ snapshot.amend # 0 => snapshot'.amend = snapshot.amend
                         /\ snapshot.cont # 0 => snapshot'.cont = snapshot.cont]_vars
  BY <1>2
<1> QED
  BY <1>1, <1>3, PTL DEF Spec, AuthorityStays

--------------------------------------------------------------------------------
(* A ledger that was loaded has a limit.                                   *)

Limited(p) ==
  /\ op[p].at \notin {"idle", "create"} => snapshot.limit # 0
  /\ op[p].at \notin {"idle", "create", "load"} => op[p].authority.limit # 0
SnapshotLimited == snapshot = NoLedger \/ snapshot.limit # 0
LimitInv == SnapshotLimited /\ \A p \in Operators : Limited(p)

\* The limits are three.
LEMMA Limits ==
  ASSUME TypeOK, NEW p \in Operators
  PROVE  /\ 0 # Limit /\ Limit < NewLimit /\ Limit \in Nat /\ NewLimit \in Nat /\ Budget \in Nat
         /\ op[p].authority.limit \in {0, Limit, NewLimit} /\ snapshot.limit \in {0, Limit, NewLimit}
<1>1. op[p].authority \in Authority /\ snapshot \in Authority
  BY DEF TypeOK, Operation
<1>2. \A a \in Authority : a.limit \in {0, Limit, NewLimit}
  BY DEF Authority
<1> QED
  BY <1>1, <1>2, CampaignConstants

\* Results stay; only the holder of the session adds one.
LEMMA ResultsStay ==
  ASSUME CampaignInv, NEW p \in Operators, Act(p)
  PROVE  /\ results \subseteq results'
         /\ results' = results \/ holder = p
<1>1. Paying(p) => holder = p
  BY DEF CampaignInv, Reservations, Keeps, InSession
<1>2. results \subseteq results' /\ (results' = results \/ holder = p)
  <2>1. CASE Store(p) \/ Interrupt(p)
    <3>1. Paying(p)
      BY <2>1 DEF Store, Interrupt, Paying
    <3>2. results \subseteq results'
      BY <2>1 DEF Store, Interrupt
    <3> QED
      BY <1>1, <3>1, <3>2
  <2>2. CASE ~(Store(p) \/ Interrupt(p))
    <3>1. results' = results
      BY <2>2 DEF Act, Step, Initialize, Load, Rebuild, SyncEvent, Open, Reconcile, Reserve, Run,
         Finish, Confirmed, Judge, Amend, Mark, Kill, Begin
    <3> QED
      BY <3>1
  <2> QED
    BY <2>1, <2>2
<1> QED
  BY <1>2

\* What a step makes of the limits of the operator that takes it, and of the snapshot's.
LEMMA LimitKeeps ==
  ASSUME CampaignInv, LimitInv, NEW p \in Operators, Act(p)
  PROVE  /\ SnapshotLimited' /\ Limited(p)'
         /\ snapshot.limit # 0 => snapshot'.limit # 0
<1>a. /\ TypeOK /\ op[p] \in Operation /\ op \in [Operators -> Operation] /\ snapshot \in Authority
      /\ op[p].authority \in Authority
      /\ SnapshotLimited /\ Limited(p)
      /\ op[p].then \in {"open", "judge", "validate", "done", "pay", "mark"}
  BY DEF CampaignInv, TypeOK, LimitInv, Operation
<1>b. /\ 0 # Limit /\ 0 # NewLimit /\ Limit # NewLimit
      /\ op[p].authority.limit \in {0, Limit, NewLimit} /\ snapshot.limit \in {0, Limit, NewLimit}
  BY <1>a, Limits
<1>c. ASSUME snapshot' = snapshot
      PROVE  SnapshotLimited' /\ (snapshot.limit # 0 => snapshot'.limit # 0)
  BY <1>a, <1>c DEF SnapshotLimited
<1>d. ASSUME Leave(p)
      PROVE  Limited(p)'
  <2>1. op'[p].at = "idle" /\ op'[p].authority.limit = 0
    BY <1>a, <1>d DEF Leave, Put, Idle, NoLedger
  <2> QED
    BY <1>b, <2>1 DEF Limited
<1>e. ASSUME op[p].at \notin {"idle", "create", "load"}, op'[p].authority = op[p].authority,
             op'[p].at # "amend", snapshot'.limit # 0
      PROVE  Limited(p)'
  BY <1>a, <1>e DEF Limited
<1>f. op[p].at \notin {"idle", "create"} => snapshot.limit # 0
  BY <1>a DEF Limited
<1>g. ASSUME NEW e, NEW then, Record(p, op[p], e, then), op[p].at \notin {"idle", "create", "load"}
      PROVE  Limited(p)' /\ SnapshotLimited' /\ (snapshot.limit # 0 => snapshot'.limit # 0)
  <2>1. op'[p].at = "sync" /\ op'[p].authority = op[p].authority /\ snapshot' = snapshot
    BY <1>a, <1>g DEF Record, Put, Operation
  <2> QED
    BY <2>1, <1>c, <1>e, <1>f, <1>g
<1>h. ASSUME NEW then, LoadThen(p, then), op[p].at \notin {"idle", "create", "load"}, snapshot'.limit # 0
      PROVE  Limited(p)'
  <2>1. op'[p].at = "load" /\ op'[p].authority = op[p].authority
    BY <1>a, <1>h DEF LoadThen, Put, Operation
  <2> QED
    BY <2>1, <1>e, <1>h
<1>1. CASE Initialize(p)
  <2>1. snapshot' = Fresh /\ Fresh.limit = Limit /\ Leave(p)
    BY <1>1 DEF Initialize, Fresh
  <2> QED
    BY <2>1, <1>b, <1>d DEF SnapshotLimited
<1>2. CASE Load(p)
  <2>1. CASE torn \/ ~Folds(events)
    BY <1>2, <2>1, <1>c, <1>d DEF Load
  <2>2. CASE ~(torn \/ ~Folds(events))
    <3> DEFINE o == [op[p] EXCEPT !.seen = events, !.authority = snapshot]
               at == IF events = <<>> THEN op[p].then ELSE "rebuild"
    <3>1. Proceed(p, o, at) /\ snapshot' = snapshot /\ op[p].at = "load"
      BY <1>2, <2>2 DEF Load
    <3>2. CASE at = "done"
      BY <3>1, <3>2, <1>c, <1>d DEF Proceed
    <3>3. CASE at # "done"
      <4>1. op'[p] = [o EXCEPT !.at = at]
        BY <3>1, <3>3, <1>a DEF Proceed, Put
      <4>2. op'[p].at = at /\ op'[p].authority = snapshot
        BY <4>1, <1>a DEF Operation
      <4>3. at \notin {"amend"}
        BY <1>a
      <4> HIDE DEF at, o
      <4>4. Limited(p)'
        BY <3>1, <4>2, <4>3, <1>a, <1>f DEF Limited, SnapshotLimited
      <4> QED
        BY <3>1, <4>4, <1>c
    <3> QED
      BY <3>2, <3>3
  <2> QED
    BY <2>1, <2>2
<1>3. CASE Rebuild(p)
  <2> DEFINE at == IF Spent(Known(p)) > Budget THEN "done" ELSE op[p].then
  <2>1. Proceed(p, op[p], at) /\ snapshot' = op[p].authority /\ op[p].at = "rebuild"
    BY <1>3, <1>a DEF Rebuild
  <2>2. snapshot'.limit # 0 /\ SnapshotLimited'
    BY <2>1, <1>a DEF Limited, SnapshotLimited
  <2>3. CASE at = "done"
    BY <2>1, <2>2, <2>3, <1>d DEF Proceed
  <2>4. CASE at # "done"
    <3>1. op'[p].at = op[p].then /\ op'[p].authority = op[p].authority
      BY <2>1, <2>4, <1>a DEF Proceed, Put, Operation
    <3> QED
      BY <2>1, <2>2, <3>1, <1>a, <1>e
  <2> QED
    BY <2>3, <2>4
<1>4. CASE SyncEvent(p)
  <2>1. op[p].at = "sync" /\ snapshot' = snapshot /\ LoadThen(p, op[p].then)
    BY <1>4 DEF SyncEvent
  <2> QED
    BY <2>1, <1>c, <1>f, <1>h
<1>5. CASE Open(p)
  <2>1. op[p].at = "open" /\ op'[p].at = "state" /\ op'[p].authority = op[p].authority /\ snapshot' = snapshot
    BY <1>5, <1>a DEF Open, Put, Operation
  <2> QED
    BY <2>1, <1>c, <1>e, <1>f
<1>6. CASE Reconcile(p)
  <2>1. \/ \E e : Record(p, op[p], e, "validate") \/ Record(p, op[p], e, "done")
        \/ Leave(p) /\ UNCHANGED files
    BY <1>6 DEF Reconcile
  <2>2. op[p].at = "state"
    BY <1>6 DEF Reconcile
  <2> QED
    BY <2>1, <2>2, <1>c, <1>d, <1>g DEF files
<1>7. CASE Reserve(p)
  <2>1. \/ \E e, then : Record(p, Claim(p), e, then)
        \/ Leave(p) /\ UNCHANGED files
    BY <1>7 DEF Reserve
  <2>2. CASE \E e, then : Record(p, Claim(p), e, then)
    <3>1. op'[p].at = "sync" /\ op'[p].authority = op[p].authority /\ snapshot' = snapshot
      BY <2>2, <1>a DEF Record, Claim, Put, Operation
    <3>2. op[p].at \in {"state", "validate"}
      BY <1>7 DEF Reserve
    <3> QED
      BY <3>1, <3>2, <1>c, <1>e, <1>f
  <2> QED
    BY <2>1, <2>2, <1>c, <1>d DEF files
<1>8. CASE Run(p)
  <2>1. PICK out \in Outcomes \cup {Nothing} :
          IF out = Nothing
          THEN Record(p, op[p], Completion(op[p].call, "stopped", 0, "other", FALSE), "done")
          ELSE Put(p, [op[p] EXCEPT !.at = "store", !.out = out]) /\ UNCHANGED <<files, holder>>
    BY <1>8 DEF Run
  <2>2. op[p].at = "pay"
    BY <1>8 DEF Run
  <2>3. CASE out # Nothing
    <3>1. op'[p].at = "store" /\ op'[p].authority = op[p].authority /\ snapshot' = snapshot
      BY <2>1, <2>3, <1>a DEF Put, Operation, files
    <3> QED
      BY <2>2, <3>1, <1>c, <1>e, <1>f
  <2> QED
    BY <2>1, <2>2, <2>3, <1>g
<1>9. CASE Store(p)
  <2>1. /\ op[p].at = "store" /\ op'[p].at = "check" /\ op'[p].authority = op[p].authority
        /\ snapshot' = snapshot
    BY <1>9, <1>a DEF Store, Move, Put, Operation, files
  <2> QED
    BY <2>1, <1>c, <1>e, <1>f
<1>10. CASE Finish(p)
  <2>1. op[p].at = "check" /\ \E e : Record(p, op[p], e, "done")
    BY <1>10 DEF Finish
  <2> QED
    BY <2>1, <1>g
<1>11. CASE Confirmed(p)
  <2>1. op[p].at = "judge" /\ snapshot' = snapshot /\ (Move(p, "open") \/ Leave(p))
    BY <1>11 DEF Confirmed, files
  <2>2. Move(p, "open") => op'[p].at = "open" /\ op'[p].authority = op[p].authority
    BY <1>a DEF Move, Put, Operation
  <2> QED
    BY <2>1, <2>2, <1>c, <1>d, <1>e, <1>f
<1>12. CASE Judge(p)
  <2> DEFINE c == About(op[p].authority, op[p].job)
             n == IF c = 0 THEN Cardinality(DOMAIN Known(p)) ELSE c
             o == [op[p] EXCEPT !.at = IF c = 0 THEN "amend" ELSE "mark", !.call = n]
  <2>1. op[p].at = "judge" /\ snapshot' = snapshot
    BY <1>12 DEF Judge, files
  <2>2. Put(p, Idle) \/ (Put(p, o) /\ Amendable(op[p].job, Known(p), op[p].authority))
    BY <1>12 DEF Judge
  <2>3. CASE Put(p, Idle)
    <3>1. op'[p].at = "idle" /\ op'[p].authority.limit = 0
      BY <2>3, <1>a DEF Put, Idle, NoLedger
    <3> QED
      BY <2>1, <3>1, <1>b, <1>c DEF Limited
  <2>4. CASE Put(p, o) /\ Amendable(op[p].job, Known(p), op[p].authority)
    <3>1. op'[p].authority = op[p].authority /\ op'[p].job = op[p].job
      <4> HIDE DEF n
      <4> QED
        BY <2>4, <1>a DEF Put, Operation
    <3>2. op[p].authority.limit # 0
      BY <2>1, <1>a DEF Limited
    <3> QED
      BY <2>1, <3>1, <3>2, <1>a, <1>c, <1>f DEF Limited
  <2> QED
    BY <2>2, <2>3, <2>4
<1>13. CASE Amend(p)
  <2>1. /\ op[p].at = "amend" /\ LoadThen(p, "mark")
        /\ snapshot' = IF op[p].job = "amend"
                       THEN [op[p].authority EXCEPT !.limit = NewLimit, !.amend = op[p].call]
                       ELSE [op[p].authority EXCEPT !.cont = op[p].call]
    BY <1>13 DEF Amend
  <2>2. snapshot'.limit = IF op[p].job = "amend" THEN NewLimit ELSE op[p].authority.limit
    BY <2>1, <1>a DEF Authority
  <2>3. op[p].authority.limit # 0
    BY <2>1, <1>a DEF Limited
  <2>4. snapshot'.limit # 0 /\ SnapshotLimited'
    BY <2>2, <2>3, <1>a, <1>b DEF SnapshotLimited
  <2> QED
    BY <2>1, <2>4, <1>h
<1>14. CASE Mark(p)
  <2>1. \/ \E e : Record(p, op[p], e, "open")
        \/ (LoadThen(p, "open") \/ Leave(p)) /\ UNCHANGED files
    BY <1>14 DEF Mark
  <2>2. op[p].at = "mark"
    BY <1>14 DEF Mark
  <2> QED
    BY <2>1, <2>2, <1>c, <1>d, <1>f, <1>g, <1>h DEF files
<1>15. CASE Interrupt(p)
  <2>1. op[p].at \in {"store", "check"} /\ \E e : Record(p, op[p], e, "done")
    BY <1>15 DEF Interrupt
  <2> QED
    BY <2>1, <1>g
<1>16. CASE Kill(p)
  BY <1>16, <1>c, <1>d DEF Kill, files
<1>17. CASE \E job \in Jobs : Begin(p, job)
  <2>1. PICK job \in Jobs : Begin(p, job)
    BY <1>17
  <2>2. PICK then : Put(p, [Idle EXCEPT !.at = IF job = "create" THEN "create" ELSE "load", !.job = job, !.then = then])
    BY <2>1 DEF Begin
  <2>3. op'[p].at = (IF job = "create" THEN "create" ELSE "load") /\ op'[p].authority.limit = 0
    BY <2>2, <1>a DEF Put, Idle, NoLedger
  <2>4. snapshot' = snapshot /\ (job # "create" => snapshot # NoLedger)
    BY <2>1 DEF Begin, files
  <2>5. Limited(p)'
    BY <2>3, <2>4, <1>a, <1>b DEF Limited, SnapshotLimited
  <2> QED
    BY <2>4, <2>5, <1>c
<1> QED
  BY <1>1, <1>2, <1>3, <1>4, <1>5, <1>6, <1>7, <1>8, <1>9, <1>10, <1>11, <1>12, <1>13, <1>14,
     <1>15, <1>16, <1>17 DEF Act, Step

LEMMA LimitInit == Init => LimitInv
  BY DEF Init, LimitInv, SnapshotLimited, Limited, Idle, NoLedger

LEMMA LimitStep == CampaignInv /\ LimitInv /\ [Next]_vars => LimitInv'
<1> SUFFICES ASSUME CampaignInv, LimitInv, [Next]_vars
             PROVE  LimitInv'
  OBVIOUS
<1>1. CASE PowerLoss
  <2>1. \A p \in Operators : op'[p] = Idle
    BY <1>1 DEF PowerLoss
  <2>2. Idle.at = "idle" /\ Idle.authority.limit = 0 /\ 0 # NewLimit
    BY CampaignConstants DEF Idle, NoLedger
  <2>3. \A p \in Operators : Limited(p)'
    BY <2>1, <2>2 DEF Limited
  <2>4. snapshot' = snapshot /\ results' = results
    BY <1>1 DEF PowerLoss
  <2> QED
    BY <2>3, <2>4 DEF LimitInv, SnapshotLimited
<1>2. ASSUME NEW p \in Operators, Act(p)
      PROVE  LimitInv'
  <2>1. Frame(p)
    BY <1>2, FrameHolds DEF CampaignInv
  <2>2. SnapshotLimited' /\ Limited(p)' /\ (snapshot.limit # 0 => snapshot'.limit # 0)
    BY <1>2, LimitKeeps
  <2>3. ASSUME NEW q \in Operators \ {p}
        PROVE  Limited(q)'
    <3>1. op'[q] = op[q] /\ Limited(q)
      BY <2>1 DEF Frame, LimitInv
    <3> QED
      BY <2>2, <3>1 DEF Limited
  <2> QED
    BY <2>2, <2>3 DEF LimitInv
<1>3. CASE UNCHANGED vars
  BY <1>3 DEF vars, LimitInv, SnapshotLimited, Limited
<1> QED
  BY <1>1, <1>2, <1>3 DEF Next, Act

--------------------------------------------------------------------------------
(* What was paid, what is stored and what the log says agree.              *)

\* A cell with a Result was paid what the Result says it cost.
ResultsPaid == \A r \in results : paid[r.cell] # <<>> /\ paid[r.cell][1].cost = r.out.cost
\* Only a paid cell has an event after its reservation.
EventsPaid == \A i \in DOMAIN events : events[i].type # "reservation" => paid[events[i].call] # <<>>
\* What is about to be stored is what was just paid.
PaidFor(p) ==
  /\ op[p].at \in {"store", "check"} => paid[op[p].call] # <<>>
  /\ op[p].at = "store" => paid[op[p].call][1].cost = op[p].out.cost
RecordInv == ResultsPaid /\ EventsPaid /\ \A p \in Operators : PaidFor(p)

\* The ways into the steps that pay and store.
LEMMA WaysToPay ==
  ASSUME CampaignInv, NEW p \in Operators, Act(p)
  PROVE  /\ op'[p].at = "store" => Run(p)
         /\ op'[p].at = "check" => Store(p)
         /\ Reserving(p)' \/ op'[p].at = "pay" =>
              \/ Reserve(p)
              \/ Reserving(p) /\ op'[p].call = op[p].call /\ paid' = paid /\ results' = results
<1> DEFINE Elsewhere == op'[p].at \notin {"store", "check", "pay"} /\ ~Reserving(p)'
           Goal == /\ op'[p].at = "store" => Run(p)
                   /\ op'[p].at = "check" => Store(p)
                   /\ Reserving(p)' \/ op'[p].at = "pay" =>
                        \/ Reserve(p)
                        \/ Reserving(p) /\ op'[p].call = op[p].call /\ paid' = paid /\ results' = results
<1>a. /\ op[p] \in Operation /\ op \in [Operators -> Operation]
      /\ op[p].then \in {"open", "judge", "validate", "done", "pay", "mark"}
  BY DEF CampaignInv, TypeOK, Operation
<1>b. ASSUME Leave(p)
      PROVE  Elsewhere
  BY <1>a, <1>b DEF Leave, Put, Idle, Reserving
<1>c. ASSUME NEW e, NEW then \in {"open", "validate", "done", "mark"}, Record(p, op[p], e, then)
      PROVE  Elsewhere
  <2>1. op'[p].at = "sync" /\ op'[p].then = then
    BY <1>a, <1>c DEF Record, Put, Operation
  <2> QED
    BY <2>1 DEF Reserving
<1>d. ASSUME NEW then \in {"open", "mark"}, LoadThen(p, then)
      PROVE  Elsewhere
  <2>1. op'[p].at = "load" /\ op'[p].then = then
    BY <1>a, <1>d DEF LoadThen, Put, Operation
  <2> QED
    BY <2>1 DEF Reserving
<1>e. Elsewhere => Goal
  OBVIOUS
<1>f. ASSUME op[p].at \in {"sync", "load", "rebuild"}, op'[p].then = op[p].then, op'[p].call = op[p].call,
             op'[p].at \in {"load", "rebuild", op[p].then}, paid' = paid, results' = results
      PROVE  Goal
  BY <1>a, <1>f DEF Reserving
<1>1. CASE Initialize(p)
  BY <1>1, <1>b, <1>e DEF Initialize
<1>2. CASE Load(p)
  <2>1. CASE torn \/ ~Folds(events)
    BY <1>2, <2>1, <1>b, <1>e DEF Load
  <2>2. CASE ~(torn \/ ~Folds(events))
    <3> DEFINE o == [op[p] EXCEPT !.seen = events, !.authority = snapshot]
               at == IF events = <<>> THEN op[p].then ELSE "rebuild"
    <3>1. Proceed(p, o, at) /\ op[p].at = "load" /\ paid' = paid /\ results' = results
      BY <1>2, <2>2 DEF Load
    <3>2. CASE at = "done"
      BY <3>1, <3>2, <1>b, <1>e DEF Proceed
    <3>3. CASE at # "done"
      <4>1. op'[p] = [o EXCEPT !.at = at]
        BY <3>1, <3>3, <1>a DEF Proceed, Put
      <4>2. op'[p].at = at /\ op'[p].then = op[p].then /\ op'[p].call = op[p].call
        BY <4>1, <1>a DEF Operation
      <4> QED
        BY <3>1, <4>2, <1>f
    <3> QED
      BY <3>2, <3>3
  <2> QED
    BY <2>1, <2>2
<1>3. CASE Rebuild(p)
  <2> DEFINE at == IF Spent(Known(p)) > Budget THEN "done" ELSE op[p].then
  <2>1. Proceed(p, op[p], at) /\ op[p].at = "rebuild" /\ paid' = paid /\ results' = results
    BY <1>3 DEF Rebuild
  <2>2. CASE at = "done"
    BY <2>1, <2>2, <1>b, <1>e DEF Proceed
  <2>3. CASE at # "done"
    <3>1. op'[p].at = op[p].then /\ op'[p].then = op[p].then /\ op'[p].call = op[p].call
      BY <2>1, <2>3, <1>a DEF Proceed, Put, Operation
    <3> QED
      BY <2>1, <3>1, <1>f
  <2> QED
    BY <2>2, <2>3
<1>4. CASE SyncEvent(p)
  <2>1. /\ op[p].at = "sync" /\ paid' = paid /\ results' = results
        /\ op'[p].at = "load" /\ op'[p].then = op[p].then /\ op'[p].call = op[p].call
    BY <1>4, <1>a DEF SyncEvent, LoadThen, Put, Operation
  <2> QED
    BY <2>1, <1>f
<1>5. CASE Open(p)
  <2>1. op'[p].at = "state"
    BY <1>5, <1>a DEF Open, Put, Operation
  <2> QED
    BY <2>1, <1>e DEF Reserving
<1>6. CASE Reconcile(p)
  <2>1. \/ \E e : Record(p, op[p], e, "validate") \/ Record(p, op[p], e, "done")
        \/ Leave(p)
    BY <1>6 DEF Reconcile
  <2> QED
    BY <2>1, <1>b, <1>c, <1>e
<1>7. CASE Reserve(p)
  <2>1. \/ \E e, then : Record(p, Claim(p), e, then)
        \/ Leave(p)
    BY <1>7 DEF Reserve
  <2>2. CASE \E e, then : Record(p, Claim(p), e, then)
    <3>1. op'[p].at = "sync"
      BY <2>2, <1>a DEF Record, Claim, Put, Operation
    <3> QED
      BY <3>1, <1>7
  <2> QED
    BY <2>1, <2>2, <1>b, <1>e
<1>8. CASE Run(p)
  <2>1. PICK out \in Outcomes \cup {Nothing} :
          IF out = Nothing
          THEN Record(p, op[p], Completion(op[p].call, "stopped", 0, "other", FALSE), "done")
          ELSE Put(p, [op[p] EXCEPT !.at = "store", !.out = out]) /\ UNCHANGED <<files, holder>>
    BY <1>8 DEF Run
  <2>2. CASE out # Nothing
    <3>1. op'[p].at = "store"
      BY <2>1, <2>2, <1>a DEF Put, Operation
    <3> QED
      BY <3>1, <1>8 DEF Reserving
  <2> QED
    BY <2>1, <2>2, <1>c, <1>e
<1>9. CASE Store(p)
  <2>1. op'[p].at = "check"
    BY <1>9, <1>a DEF Store, Move, Put, Operation
  <2> QED
    BY <2>1, <1>9 DEF Reserving
<1>10. CASE Finish(p)
  <2>1. \E e : Record(p, op[p], e, "done")
    BY <1>10 DEF Finish
  <2> QED
    BY <2>1, <1>c, <1>e
<1>11. CASE Confirmed(p)
  <2>1. Move(p, "open") => op'[p].at = "open"
    BY <1>a DEF Move, Put, Operation
  <2>2. Move(p, "open") => Elsewhere
    BY <2>1 DEF Reserving
  <2> QED
    BY <1>11, <2>2, <1>b, <1>e DEF Confirmed
<1>12. CASE Judge(p)
  <2> DEFINE c == About(op[p].authority, op[p].job)
             n == IF c = 0 THEN Cardinality(DOMAIN Known(p)) ELSE c
             at == IF c = 0 THEN "amend" ELSE "mark"
             o == [op[p] EXCEPT !.at = at, !.call = n]
  <2>1. Put(p, o) \/ Put(p, Idle)
    BY <1>12 DEF Judge
  <2>2. o.at \in {"amend", "mark"} /\ Idle.at = "idle"
    <3> HIDE DEF n
    <3> QED
      BY <1>a DEF Idle, Operation
  <2> HIDE DEF o
  <2>3. op'[p].at \in {"amend", "mark", "idle"}
    BY <2>1, <2>2, <1>a DEF Put
  <2> QED
    BY <2>3, <1>e DEF Reserving
<1>13. CASE Amend(p)
  BY <1>13, <1>d, <1>e DEF Amend
<1>14. CASE Mark(p)
  <2>1. \/ \E e : Record(p, op[p], e, "open")
        \/ LoadThen(p, "open") \/ Leave(p)
    BY <1>14 DEF Mark
  <2> QED
    BY <2>1, <1>b, <1>c, <1>d, <1>e
<1>15. CASE Interrupt(p)
  <2>1. \E e : Record(p, op[p], e, "done")
    BY <1>15 DEF Interrupt
  <2> QED
    BY <2>1, <1>c, <1>e
<1>16. CASE Kill(p)
  BY <1>16, <1>b, <1>e DEF Kill
<1>17. CASE \E job \in Jobs : Begin(p, job)
  <2>1. PICK job \in Jobs, at \in {"create", "load"}, then \in {"open", "judge"} :
          Put(p, [Idle EXCEPT !.at = at, !.job = job, !.then = then])
    BY <1>17 DEF Begin
  <2>2. op'[p].at = at /\ op'[p].then = then
    BY <2>1, <1>a DEF Put, Idle
  <2> QED
    BY <2>2, <1>e DEF Reserving
<1> QED
  BY <1>1, <1>2, <1>3, <1>4, <1>5, <1>6, <1>7, <1>8, <1>9, <1>10, <1>11, <1>12, <1>13, <1>14,
     <1>15, <1>16, <1>17 DEF Act, Step

\* What a reserved cell is paid under stays as it was at the reservation.
LEMMA UnderStays ==
  ASSUME CampaignInv, NEW p \in Operators, Act(p), Reserving(p)' \/ Paying(p)'
  PROVE  \/ Reserve(p)
         \/ /\ Reserving(p) \/ Paying(p)
            /\ op'[p].call = op[p].call /\ op'[p].under = op[p].under
<1>a. op[p] \in Operation /\ op \in [Operators -> Operation]
  BY DEF CampaignInv, TypeOK
<1>1. CASE Run(p)
  <2>1. op[p].at = "pay"
    BY <1>1 DEF Run
  <2>2. PICK out : \/ \E e : Record(p, op[p], e, "done")
                  \/ Put(p, [op[p] EXCEPT !.at = "store", !.out = out])
    BY <1>1 DEF Run
  <2>3. op'[p].call = op[p].call /\ op'[p].under = op[p].under
    BY <1>a, <2>2 DEF Record, Put, Operation
  <2> QED
    BY <2>1, <2>3 DEF Paying
<1>2. CASE Store(p)
  <2>1. op[p].at = "store" /\ op'[p].call = op[p].call /\ op'[p].under = op[p].under
    BY <1>2, <1>a DEF Store, Move, Put, Operation
  <2> QED
    BY <2>1 DEF Paying
<1>3. CASE Reserving(p) /\ op'[p].call = op[p].call
  <2>1. Load(p) \/ Rebuild(p) \/ SyncEvent(p) \/ Kill(p)
    <3>1. op[p].at \in {"sync", "load", "rebuild"} /\ op[p] # Idle
      BY <1>3 DEF Reserving, Idle
    <3> QED
      BY <3>1 DEF Act, Step, Initialize, Open, Reconcile, Reserve, Run, Store, Finish, Confirmed, Judge,
         Amend, Mark, Interrupt, Begin
  <2>2. op'[p] # Idle
    <3>1. Idle.at = "idle"
      BY DEF Idle
    <3> QED
      BY <3>1 DEF Reserving, Paying
  <2>3. ~Leave(p)
    BY <1>a, <2>2 DEF Leave, Put
  <2>4. \/ Put(p, [op[p] EXCEPT !.seen = events, !.authority = snapshot, !.at = op'[p].at])
        \/ \E at, then : Put(p, [op[p] EXCEPT !.at = at]) \/ Put(p, [op[p] EXCEPT !.at = at, !.then = then])
    <3>1. CASE Load(p)
      <4>1. \E at : Put(p, [[op[p] EXCEPT !.seen = events, !.authority = snapshot] EXCEPT !.at = at])
        BY <2>3, <3>1 DEF Load, Proceed
      <4>2. PICK at : Put(p, [[op[p] EXCEPT !.seen = events, !.authority = snapshot] EXCEPT !.at = at])
        BY <4>1
      <4>3. op'[p].at = at
        BY <1>a, <4>2 DEF Put, Operation
      <4> QED
        BY <1>a, <4>2, <4>3 DEF Put, Operation
    <3>2. CASE Rebuild(p)
      BY <2>3, <3>2 DEF Rebuild, Proceed
    <3>3. CASE SyncEvent(p)
      BY <3>3 DEF SyncEvent, LoadThen
    <3>4. CASE Kill(p)
      BY <2>3, <3>4 DEF Kill
    <3> QED
      BY <2>1, <3>1, <3>2, <3>3, <3>4
  <2>5. op'[p].under = op[p].under
    BY <1>a, <2>4 DEF Put, Operation
  <2> QED
    BY <1>3, <2>5
<1> QED
  BY <1>1, <1>2, <1>3, WaysToPay DEF Paying

\* What is paid stays paid; only Run pays, the cell that its operator reserved.
LEMMA PaidStays ==
  ASSUME CampaignInv, NEW p \in Operators, Act(p)
  PROVE  /\ \A c \in Cells : paid[c] # <<>> => paid'[c] # <<>> /\ paid'[c][1] = paid[c][1]
         /\ paid' = paid \/ Run(p)
         /\ Run(p) => /\ op[p].at = "pay" /\ op[p].call \in Cells /\ paid[op[p].call] = <<>>
                      /\ paid'[op[p].call] # <<>> /\ paid'[op[p].call][1].limit = op[p].under
                      /\ \A c \in Cells : c # op[p].call => paid'[c] = paid[c]
                      /\ op'[p].at = "store" => /\ op'[p].call = op[p].call
                                                /\ paid'[op[p].call][1].cost = op'[p].out.cost
<1>1. paid' = paid \/ Run(p)
  BY DEF Act, Step, Initialize, Load, Rebuild, SyncEvent, Open, Reconcile, Reserve, Store,
     Finish, Confirmed, Judge, Amend, Mark, Interrupt, Kill, Begin
<1>2. ASSUME Run(p)
      PROVE  /\ op[p].at = "pay" /\ op[p].call \in Cells /\ paid[op[p].call] = <<>>
             /\ paid'[op[p].call] # <<>> /\ paid'[op[p].call][1].limit = op[p].under
             /\ \A c \in Cells : c # op[p].call => paid'[c] = paid[c]
             /\ op'[p].at = "store" => /\ op'[p].call = op[p].call
                                       /\ paid'[op[p].call][1].cost = op'[p].out.cost
  <2> DEFINE c == op[p].call
  <2>1. op[p].at = "pay" /\ c \in Cells /\ paid[c] = <<>>
    BY <1>2 DEF Run, CampaignInv, Reservations, Keeps, Paying
  <2>2. PICK out \in Outcomes \cup {Nothing} :
          /\ paid' = [paid EXCEPT ![c] = Append(@, [cost |-> out.cost, limit |-> op[p].under])]
          /\ IF out = Nothing
             THEN Record(p, op[p], Completion(c, "stopped", 0, "other", FALSE), "done")
             ELSE Put(p, [op[p] EXCEPT !.at = "store", !.out = out]) /\ UNCHANGED <<files, holder>>
    BY <1>2 DEF Run
  <2>3. op \in [Operators -> Operation] /\ paid \in [Cells -> Seq([cost : Nat, limit : Nat])]
    BY DEF CampaignInv, TypeOK
  <2>4. paid'[c] = <<[cost |-> out.cost, limit |-> op[p].under]>>
    BY <2>1, <2>2, <2>3
  <2>5. \A d \in Cells : d # c => paid'[d] = paid[d]
    BY <2>2, <2>3
  <2>6. paid'[c] # <<>> /\ paid'[c][1].cost = out.cost /\ paid'[c][1].limit = op[p].under
    BY <2>4
  <2>7. op'[p].at = "store" => op'[p].call = c /\ op'[p].out = out
    <3>1. CASE out = Nothing
      <4>1. op'[p].at = "sync"
        BY <2>2, <2>3, <3>1 DEF Record, Put, Operation
      <4> QED
        BY <4>1
    <3>2. CASE out # Nothing
      BY <2>2, <2>3, <3>2 DEF Put, Operation
    <3> QED
      BY <3>1, <3>2
  <2> QED
    BY <2>1, <2>5, <2>6, <2>7
<1>3. ASSUME NEW c \in Cells, paid[c] # <<>>
      PROVE  paid'[c] # <<>> /\ paid'[c][1] = paid[c][1]
  <2>1. paid'[c] = paid[c]
    BY <1>1, <1>2, <1>3
  <2> QED
    BY <1>3, <2>1
<1> QED
  BY <1>1, <1>2, <1>3

\* An event other than a reservation is about a cell that is paid when it is written.
LEMMA EventPaid ==
  ASSUME CampaignInv, RecordInv, NEW p \in Operators, Act(p)
  PROVE  \/ events' = events
         \/ \E e : events' = Append(events, e) /\ (e.type = "reservation" \/ paid'[e.call] # <<>>)
<1>a. \A c \in Cells : paid[c] # <<>> => paid'[c] # <<>>
  BY PaidStays
<1>b. /\ Paying(p) => op[p].call \in Cells
      /\ op[p].at \in {"store", "check"} => paid[op[p].call] # <<>>
  BY DEF CampaignInv, Reservations, Keeps, RecordInv, PaidFor
<1>c. \A c, state, cost, error, known :
        LET e == Completion(c, state, cost, error, known) IN e.type = "completion" /\ e.call = c
  BY DEF Completion
<1>1. CASE Reconcile(p)
  <2> DEFINE c == Cardinality(DOMAIN Known(p))
  <2>1. CASE Cardinality(Stored(c)) = 1
    <3>1. IsFiniteSet(Stored(c)) /\ Stored(c) # {}
      BY <2>1, FS_Subset, FS_EmptySet DEF Stored, CampaignInv, TypeOK
    <3>2. PICK r \in results : r.cell = c
      BY <3>1 DEF Stored
    <3>3. c \in Cells /\ paid[c] # <<>>
      BY <3>2 DEF CampaignInv, TypeOK, RecordInv, ResultsPaid
    <3>4. \/ \E state, cost, error, known : events' = Append(events, Completion(c, state, cost, error, known))
          \/ events' = events
      BY <1>1, <2>1 DEF Reconcile, Record, files
    <3> HIDE DEF c
    <3> QED
      BY <3>3, <3>4, <1>a, <1>c
  <2>2. CASE Cardinality(Stored(c)) # 1
    BY <1>1, <2>2 DEF Reconcile, files
  <2> QED
    BY <2>1, <2>2
<1>2. CASE Reserve(p)
  <2>1. \/ events' = Append(events, Reservation(Next1(p)))
        \/ events' = events
    BY <1>2 DEF Reserve, Record, files
  <2> QED
    BY <2>1 DEF Reservation
<1>3. CASE Run(p)
  <2>1. \/ events' = Append(events, Completion(op[p].call, "stopped", 0, "other", FALSE))
        \/ events' = events
    BY <1>3 DEF Run, Record, files
  <2>2. paid'[op[p].call] # <<>>
    BY <1>3, PaidStays
  <2>3. Completion(op[p].call, "stopped", 0, "other", FALSE).call = op[p].call
    BY DEF Completion
  <2> QED
    BY <2>1, <2>2, <2>3
<1>4. CASE Finish(p) \/ Interrupt(p)
  <2>1. \E state, cost, error, known :
           events' = Append(events, Completion(op[p].call, state, cost, error, known))
    <3>1. CASE Finish(p)
      BY <3>1 DEF Finish, Record
    <3>2. CASE Interrupt(p)
      BY <3>2 DEF Interrupt, Record
    <3> QED
      BY <1>4, <3>1, <3>2
  <2>2. op[p].at \in {"store", "check"}
    BY <1>4 DEF Finish, Interrupt
  <2> QED
    BY <2>1, <2>2, <1>a, <1>b, <1>c DEF Paying
<1>5. CASE Mark(p)
  <2> DEFINE c == op[p].call
             seen == op[p].seen
  <2>1. CASE c \in DOMAIN Known(p) /\ Known(p)[c].state = "stopped"
    <3>1. c \in Cells /\ Call(seen, c).state = "stopped"
      BY <2>1, KnownType DEF CampaignInv, Known, Calls
    <3>2. At(seen, "completion", c) # {}
      BY <3>1 DEF Call
    <3>3. PICK i \in DOMAIN seen : seen[i].type = "completion" /\ seen[i].call = c
      BY <3>2 DEF At
    <3>4. i \in DOMAIN events /\ events[i] = seen[i]
      BY <3>3, SeenBegins DEF CampaignInv
    <3>5. paid[c] # <<>>
      BY <3>3, <3>4 DEF RecordInv, EventsPaid
    <3>6. events' = Append(events, Reauthorization(c, op[p].job))
      BY <1>5, <2>1 DEF Mark, Record
    <3>7. Reauthorization(c, op[p].job).call = c
      BY DEF Reauthorization
    <3> HIDE DEF c
    <3> QED
      BY <3>1, <3>5, <3>6, <3>7, <1>a
  <2>2. CASE ~(c \in DOMAIN Known(p) /\ Known(p)[c].state = "stopped")
    BY <1>5, <2>2 DEF Mark, files
  <2> QED
    BY <2>1, <2>2
<1>6. CASE ~(Reconcile(p) \/ Reserve(p) \/ Run(p) \/ Finish(p) \/ Interrupt(p) \/ Mark(p))
  <2>1. events' = events
    BY <1>6 DEF Act, Step, Initialize, Load, Rebuild, SyncEvent, Open, Store,
       Confirmed, Judge, Amend, Kill, Begin, files
  <2> QED
    BY <2>1
<1> QED
  BY <1>1, <1>2, <1>3, <1>4, <1>5, <1>6

LEMMA RecordInit == Init => RecordInv
  BY DEF Init, RecordInv, ResultsPaid, EventsPaid, PaidFor, Idle

LEMMA RecordStep == CampaignInv /\ RecordInv /\ [Next]_vars => RecordInv'
<1> SUFFICES ASSUME CampaignInv, RecordInv, [Next]_vars
             PROVE  RecordInv'
  OBVIOUS
<1>1. CASE PowerLoss
  <2>1. paid' = paid /\ results' = results /\ \A p \in Operators : op'[p] = Idle
    BY <1>1 DEF PowerLoss
  <2>2. ResultsPaid'
    BY <2>1 DEF RecordInv, ResultsPaid
  <2>3. PICK kept \in synced..Len(events) : events' = SubSeq(events, 1, kept)
    BY <1>1 DEF PowerLoss
  <2>4. events \in Seq(Event) /\ synced \in 0..Len(events)
    BY DEF CampaignInv, TypeOK
  <2>5. \A i \in DOMAIN events' : i \in DOMAIN events /\ events'[i] = events[i]
    BY <2>3, <2>4
  <2>6. EventsPaid'
    BY <2>1, <2>5 DEF RecordInv, EventsPaid
  <2>7. \A p \in Operators : PaidFor(p)'
    BY <2>1 DEF PaidFor, Idle
  <2> QED
    BY <2>2, <2>6, <2>7 DEF RecordInv
<1>2. ASSUME NEW p \in Operators, Act(p)
      PROVE  RecordInv'
  <2>1. Frame(p)
    BY <1>2, FrameHolds DEF CampaignInv
  <2>2. \A c \in Cells : paid[c] # <<>> => paid'[c] # <<>> /\ paid'[c][1] = paid[c][1]
    BY <1>2, PaidStays
  <2>3. ResultsPaid'
    <3> SUFFICES ASSUME NEW r \in results'
                 PROVE  paid'[r.cell] # <<>> /\ paid'[r.cell][1].cost = r.out.cost
      BY DEF ResultsPaid
    <3>1. CASE r \in results
      <4>1. r.cell \in Cells /\ paid[r.cell] # <<>> /\ paid[r.cell][1].cost = r.out.cost
        BY <3>1 DEF CampaignInv, TypeOK, RecordInv, ResultsPaid
      <4> QED
        BY <4>1, <2>2
    <3>2. CASE r \notin results
      <4>1. Store(p) \/ Interrupt(p)
        BY <1>2, <3>2 DEF Act, Step, Initialize, Load, Rebuild, SyncEvent, Open, Reconcile, Reserve, Run,
           Finish, Confirmed, Judge, Amend, Mark, Kill, Begin
      <4>2. op[p].at = "store" /\ r = [cell |-> op[p].call, run |-> Len(paid[op[p].call]), out |-> op[p].out]
        BY <3>2, <4>1 DEF Store, Interrupt
      <4>3. op[p].call \in Cells /\ paid[op[p].call] # <<>> /\ paid[op[p].call][1].cost = op[p].out.cost
        BY <4>2 DEF CampaignInv, Reservations, Keeps, Paying, RecordInv, PaidFor
      <4>4. r.cell = op[p].call /\ r.out = op[p].out
        BY <4>2
      <4> QED
        BY <4>3, <4>4, <2>2
    <3> QED
      BY <3>1, <3>2
  <2>4. EventsPaid'
    <3>1. events \in Seq(Event) /\ \A i \in DOMAIN events : events[i].call \in Cells
      <4>1. \A e \in Event : e.call \in Cells
        BY DEF Event
      <4> QED
        BY <4>1 DEF CampaignInv, TypeOK
    <3>2. \A i \in DOMAIN events : events[i].type # "reservation" => paid'[events[i].call] # <<>>
      BY <2>2, <3>1 DEF RecordInv, EventsPaid
    <3>3. CASE events' = events
      BY <3>2, <3>3 DEF EventsPaid
    <3>4. ASSUME NEW e, events' = Append(events, e), e.type = "reservation" \/ paid'[e.call] # <<>>
          PROVE  EventsPaid'
      <4>1. \A i \in DOMAIN events' : (i \in DOMAIN events /\ events'[i] = events[i]) \/ events'[i] = e
        BY <3>1, <3>4
      <4> QED
        BY <3>2, <3>4, <4>1 DEF EventsPaid
    <3> QED
      BY <1>2, <3>3, <3>4, EventPaid
  <2>5. PaidFor(p)'
    <3>1. CASE op'[p].at = "store"
      <4>1. Run(p)
        BY <1>2, <3>1, WaysToPay
      <4>2. paid'[op[p].call] # <<>> /\ op'[p].call = op[p].call /\ paid'[op[p].call][1].cost = op'[p].out.cost
        BY <1>2, <3>1, <4>1, PaidStays
      <4> QED
        BY <4>2 DEF PaidFor
    <3>2. CASE op'[p].at = "check"
      <4>1. Store(p)
        BY <1>2, <3>2, WaysToPay
      <4>2. op[p].at = "store" /\ op'[p].call = op[p].call
        BY <4>1 DEF Store, Move, Put, CampaignInv, TypeOK, Operation
      <4>3. op[p].call \in Cells /\ paid[op[p].call] # <<>>
        BY <4>2 DEF CampaignInv, Reservations, Keeps, Paying, RecordInv, PaidFor
      <4> QED
        BY <2>2, <3>2, <4>2, <4>3 DEF PaidFor
    <3> QED
      BY <3>1, <3>2 DEF PaidFor
  <2>6. ASSUME NEW q \in Operators \ {p}
        PROVE  PaidFor(q)'
    <3>1. op'[q] = op[q] /\ PaidFor(q) /\ (Paying(q) => op[q].call \in Cells)
      BY <2>1 DEF Frame, RecordInv, CampaignInv, Reservations, Keeps
    <3> QED
      BY <2>2, <3>1 DEF PaidFor, Paying
  <2> QED
    BY <2>3, <2>4, <2>5, <2>6 DEF RecordInv
<1>3. CASE UNCHANGED vars
  BY <1>3 DEF vars, RecordInv, ResultsPaid, EventsPaid, PaidFor
<1> QED
  BY <1>1, <1>2, <1>3 DEF Next, Act

--------------------------------------------------------------------------------
(* The budget.                                                             *)

\* What the cells before c were paid.
PaidCosts == [d \in Cells |-> IF paid[d] = <<>> THEN 0 ELSE paid[d][1].cost]
Before(c) == Sum(PaidCosts, 1..(c - 1))

\* A reserved cell fits the budget at the limit it was reserved under.
Affords(p) == Reserving(p) \/ op[p].at = "pay" => Before(op[p].call) + op[p].under <= Budget
Budgeted == \A c \in Cells : paid[c] # <<>> => Before(c) + paid[c][1].limit <= Budget
SpendInv == Budgeted /\ \A p \in Operators : Affords(p)

\* The sum that WithinBudget takes, and the one that the ledger's totals take.
LEMMA PaidSum ==
  ASSUME NEW c \in Cells
  PROVE  MapThenSumSet(LAMBDA d : IF paid[d] = <<>> THEN 0 ELSE paid[d][1].cost, 1..(c - 1)) = Before(c)
<1> DEFINE S == 1..(c - 1)
           P(h) == h = [s \in SUBSET S |->
                          IF s = {} THEN 0
                          ELSE (IF paid[First(s)] = <<>> THEN 0 ELSE paid[First(s)][1].cost) + h[s \ {First(s)}]]
<1>1. MapThenSumSet(LAMBDA d : IF paid[d] = <<>> THEN 0 ELSE paid[d][1].cost, S) = (CHOOSE h : P(h))[S]
  BY DEF MapThenSumSet, MapThenFoldSet, First
<1>2. \A s \in SUBSET S : s # {} =>
        (IF paid[First(s)] = <<>> THEN 0 ELSE paid[First(s)][1].cost) = PaidCosts[First(s)]
  <2>1. \A s \in SUBSET S : s # {} => First(s) \in S
    BY DEF First
  <2>2. S \subseteq Cells
    BY CampaignConstants DEF Cells
  <2> QED
    BY <2>1, <2>2 DEF PaidCosts
<1>3. \A h : P(h) <=> Adds(PaidCosts, S, h)
  BY <1>2 DEF Adds
<1>4. (CHOOSE h : P(h)) = (CHOOSE h : Adds(PaidCosts, S, h))
  BY <1>3
<1>5. Before(c) = (CHOOSE h : Adds(PaidCosts, S, h))[S]
  BY SumIs DEF Before
<1> HIDE DEF P, S
<1> QED
  BY <1>1, <1>4, <1>5 DEF S

\* It is a number, and later payments of other cells do not change it.
LEMMA BeforeType ==
  ASSUME CampaignInv, NEW c \in Cells
  PROVE  Before(c) \in Int
<1>1. IsFiniteSet(1..(c - 1)) /\ 1..(c - 1) \subseteq Cells
  BY FS_Interval, CampaignConstants DEF Cells
<1>2. \A d \in 1..(c - 1) : PaidCosts[d] \in Int
  <2> SUFFICES ASSUME NEW d \in Cells
               PROVE  PaidCosts[d] \in Int
    BY <1>1
  <2>1. paid[d] \in Seq([cost : Nat, limit : Nat])
    BY DEF CampaignInv, TypeOK
  <2>2. paid[d] # <<>> => paid[d][1] \in [cost : Nat, limit : Nat]
    <3>1. \A R : \A s \in Seq(R) : s # <<>> => s[1] \in R
      OBVIOUS
    <3> QED
      BY <2>1, <3>1
  <2> QED
    BY <2>2 DEF PaidCosts
<1> QED
  BY <1>1, <1>2, SumType DEF Before

LEMMA BeforeStays ==
  ASSUME NEW c \in Cells, \A d \in Cells : d < c => paid'[d] = paid[d]
  PROVE  Before(c)' = Before(c)
<1>1. \A d \in 1..(c - 1) : d \in Cells /\ paid'[d] = paid[d]
  BY CampaignConstants DEF Cells
<1>2. \A d \in 1..(c - 1) : PaidCosts[d] = PaidCosts'[d]
  BY <1>1 DEF PaidCosts
<1>3. Sum(PaidCosts, 1..(c - 1)) = Sum(PaidCosts', 1..(c - 1))
  BY <1>2, SumOfEqual
<1> QED
  BY <1>3 DEF Before

\* What the ledger's totals say was paid is what was paid: a reservation leaves room
\* for a call at the limit.
LEMMA ReserveAffords ==
  ASSUME CampaignInv, RecordInv, NEW p \in Operators, Reserve(p),
         Valid(Known(p), op[p].authority), Allowed(Known(p), op[p].authority)
  PROVE  Next1(p) \in Cells /\ Before(Next1(p)) + op[p].authority.limit <= Budget
<1> DEFINE calls == Known(p)
           c == Next1(p)
           limit == op[p].authority.limit
<1>1. c \in Cells /\ DOMAIN calls = 1..(c - 1)
  BY KnownType, CampaignConstants DEF CampaignInv, Next1, Allowed, Valid, InOrder, Cells
<1>2. ASSUME NEW d \in DOMAIN calls
      PROVE  calls[d].cost = PaidCosts[d]
  <2>1. PICK r \in Stored(d) : calls[d].cost = r.out.cost
    BY DEF Valid, Matches
  <2>2. r \in results /\ r.cell = d /\ d \in Cells
    BY <2>1 DEF Stored, CampaignInv, TypeOK
  <2>3. paid[d] # <<>> /\ paid[d][1].cost = r.out.cost
    BY <2>2 DEF RecordInv, ResultsPaid
  <2> QED
    BY <2>1, <2>2, <2>3 DEF PaidCosts
<1>3. Spent(calls) = Before(c)
  <2> DEFINE f == [d \in DOMAIN calls |-> calls[d].cost]
  <2>1. \A d \in DOMAIN calls : f[d] = PaidCosts[d]
    BY <1>2
  <2> HIDE DEF f, calls, c
  <2>2. Sum(f, DOMAIN calls) = Sum(PaidCosts, DOMAIN calls)
    BY <2>1, SumOfEqual
  <2>3. Spent(calls) = Sum(f, DOMAIN calls)
    BY SpentSum DEF f
  <2> QED
    BY <1>1, <2>2, <2>3 DEF Before
<1>4. Before(c) \in Int
  BY <1>1, BeforeType
<1>5. limit \in {0, Limit, NewLimit} /\ {0, Limit, NewLimit} \subseteq Int /\ Budget \in Int
  BY CampaignConstants DEF CampaignInv, TypeOK, Operation, Authority
<1>6. Budget - Before(c) >= limit
  BY <1>3 DEF Allowed
<1> HIDE DEF c, limit
<1>7. Before(c) + limit <= Budget
  BY <1>4, <1>5, <1>6
<1> QED
  BY <1>1, <1>7 DEF c, limit

\* What the step makes of the operator that takes it.
LEMMA AffordsKeeps ==
  ASSUME CampaignInv, RecordInv, SpendInv, NEW p \in Operators, Act(p)
  PROVE  Affords(p)'
<1> SUFFICES ASSUME Reserving(p)' \/ op'[p].at = "pay", NEW c, c = op'[p].call
             PROVE  Before(c)' + op'[p].under <= Budget
  BY DEF Affords, Before
<1>1. CASE Reserve(p)
  <2>1. paid' = paid
    BY <1>1 DEF Reserve
  <2>2. CASE op[p].job = "run" /\ Valid(Known(p), op[p].authority) /\ Allowed(Known(p), op[p].authority)
    <3>1. Record(p, Claim(p), Reservation(Next1(p)), "pay")
      BY <1>1, <2>2 DEF Reserve
    <3>2. c = Next1(p) /\ op'[p].under = op[p].authority.limit
      BY <3>1 DEF Record, Claim, Put, CampaignInv, TypeOK, Operation
    <3>3. c \in Cells /\ Before(c) + op[p].authority.limit <= Budget
      BY <1>1, <2>2, <3>2, ReserveAffords
    <3>4. Before(c)' = Before(c)
      BY <2>1, <3>3, BeforeStays
    <3> QED
      BY <3>2, <3>3, <3>4
  <2>3. CASE ~(op[p].job = "run" /\ Valid(Known(p), op[p].authority) /\ Allowed(Known(p), op[p].authority))
    <3>1. op'[p] = Idle
      BY <1>1, <2>3, LeaveKeeps DEF Reserve, CampaignInv
    <3> QED
      BY <3>1 DEF Idle, Reserving
  <2> QED
    BY <2>2, <2>3
<1>2. CASE ~Reserve(p)
  <2>1. Reserving(p) /\ op'[p].call = op[p].call /\ paid' = paid
    BY <1>2, WaysToPay
  <2>2. op'[p].under = op[p].under
    BY <1>2, UnderStays DEF Paying
  <2>3. c = op[p].call /\ c \in Cells
    BY <2>1 DEF CampaignInv, Reservations, Keeps
  <2>4. Before(c) + op[p].under <= Budget
    BY <2>1, <2>3 DEF SpendInv, Affords
  <2>5. Before(c)' = Before(c)
    BY <2>1, <2>3, BeforeStays
  <2> QED
    BY <2>2, <2>4, <2>5
<1> QED
  BY <1>1, <1>2

\* A cell is paid with room for its limit, and no cell after it was paid before.
LEMMA BudgetedKeeps ==
  ASSUME CampaignInv, CampaignInv', RecordInv, SpendInv, NEW p \in Operators, Act(p)
  PROVE  Budgeted'
<1>1. CASE paid' = paid
  <2>1. \A c \in Cells : Before(c)' = Before(c)
    BY <1>1, BeforeStays
  <2> QED
    BY <1>1, <2>1 DEF SpendInv, Budgeted
<1>2. CASE Run(p)
  <2> SUFFICES ASSUME NEW c \in Cells, paid'[c] # <<>>
               PROVE  Before(c)' + paid'[c][1].limit <= Budget
    BY DEF Budgeted
  <2>1. PICK b \in Cells : b = op[p].call
    BY <1>2, PaidStays
  <2>2. /\ op[p].at = "pay" /\ paid[b] = <<>> /\ paid'[b][1].limit = op[p].under
        /\ \A d \in Cells : d # b => paid'[d] = paid[d]
    BY <1>2, <2>1, PaidStays
  <2>3. Cells \subseteq Int
    BY DEF Cells
  <2>4. CASE c = b
    <3>1. Before(b)' = Before(b)
      BY <2>2, <2>3, BeforeStays
    <3>2. Before(b) + op[p].under <= Budget
      BY <2>1, <2>2 DEF SpendInv, Affords
    <3> QED
      BY <2>2, <2>4, <3>1, <3>2
  <2>5. CASE c # b
    <3>1. paid'[c] = paid[c] /\ paid[c] # <<>>
      BY <2>2, <2>5
    <3>2. ~(b < c)
      <4> SUFFICES ASSUME b < c
                   PROVE  FALSE
        OBVIOUS
      <4>1. b \in 1..(c - 1)
        BY <2>3 DEF Cells
      <4>2. Accepted(events, b, synced)
        BY <3>1, <4>1 DEF CampaignInv, PaidInv, OnDisk
      <4>3. PICK i \in DOMAIN events : events[i].type # "reservation" /\ events[i].call = b
        BY <4>2 DEF Accepted, At
      <4>4. paid[b] # <<>>
        BY <4>3 DEF RecordInv, EventsPaid
      <4> QED
        BY <2>2, <4>4
    <3>3. \A d \in Cells : d < c => paid'[d] = paid[d]
      BY <2>2, <3>2
    <3>4. Before(c)' = Before(c)
      BY <3>3, BeforeStays
    <3> QED
      BY <3>1, <3>4 DEF SpendInv, Budgeted
  <2> QED
    BY <2>4, <2>5
<1> QED
  BY <1>1, <1>2, PaidStays

LEMMA SpendInit == Init => SpendInv
  BY DEF Init, SpendInv, Budgeted, Affords, Reserving, Idle

LEMMA SpendStep ==
  CampaignInv /\ CampaignInv' /\ RecordInv /\ SpendInv /\ [Next]_vars => SpendInv'
<1> SUFFICES ASSUME CampaignInv, CampaignInv', RecordInv, SpendInv, [Next]_vars
             PROVE  SpendInv'
  OBVIOUS
<1>a. ASSUME paid' = paid
      PROVE  \A c \in Cells : Before(c)' = Before(c)
  BY <1>a, BeforeStays
<1>1. CASE PowerLoss
  <2>1. paid' = paid /\ \A p \in Operators : op'[p] = Idle
    BY <1>1 DEF PowerLoss
  <2>2. Budgeted'
    BY <2>1, <1>a DEF SpendInv, Budgeted
  <2>3. \A p \in Operators : Affords(p)'
    BY <2>1 DEF Affords, Reserving, Idle
  <2> QED
    BY <2>2, <2>3 DEF SpendInv
<1>2. ASSUME NEW p \in Operators, Act(p)
      PROVE  SpendInv'
  <2>1. Frame(p)
    BY <1>2, FrameHolds DEF CampaignInv
  <2>2. ASSUME NEW q \in Operators \ {p}
        PROVE  Affords(q)'
    <3>1. op'[q] = op[q]
      BY <2>1 DEF Frame
    <3> SUFFICES ASSUME Reserving(q) \/ op[q].at = "pay", NEW c, c = op[q].call
                 PROVE  Before(c)' + op[q].under <= Budget
      BY <3>1 DEF Affords, Before, Reserving
    <3>2. holder = q /\ c \in Cells
      BY DEF CampaignInv, Reservations, Keeps, InSession, Paying
    <3>3. paid' = paid
      BY <1>2, <2>1, <3>2, CampaignConstants DEF Frame
    <3>4. Before(c)' = Before(c)
      BY <1>a, <3>2, <3>3
    <3>5. Before(c) + op[q].under <= Budget
      BY DEF SpendInv, Affords
    <3> QED
      BY <3>4, <3>5
  <2>3. Affords(p)' /\ Budgeted'
    BY <1>2, AffordsKeeps, BudgetedKeeps
  <2> QED
    BY <2>2, <2>3 DEF SpendInv
<1>3. CASE UNCHANGED vars
  <2>1. op' = op /\ results' = results /\ paid' = paid
    BY <1>3 DEF vars
  <2>2. Budgeted'
    BY <2>1, <1>a DEF SpendInv, Budgeted
  <2>3. ASSUME NEW p \in Operators
        PROVE  Affords(p)'
    <3>1. Affords(p)
      BY DEF SpendInv
    <3> QED
      BY <2>1, <3>1 DEF Affords, Reserving, Before, PaidCosts
  <2> QED
    BY <2>2, <2>3 DEF SpendInv
<1> QED
  BY <1>1, <1>2, <1>3 DEF Next, Act

\* When a cell is paid, what was paid before it leaves room for a whole call at the
\* limit it is paid under: whatever operators overlap or die, although the limit and
\* the totals are those that were read before the session was taken.
THEOREM PaymentsStayWithinBudget == Spec => []WithinBudget
<1>1. Spec => [](CampaignInv /\ RecordInv /\ SpendInv)
  <2>1. CampaignInv /\ RecordInv /\ SpendInv /\ [Next]_vars => CampaignInv' /\ RecordInv' /\ SpendInv'
    BY CampaignStep, RecordStep, SpendStep
  <2> QED
    BY <2>1, CampaignInit, RecordInit, SpendInit, PTL DEF Spec
<1>2. SpendInv => WithinBudget
  BY PaidSum DEF SpendInv, Budgeted, WithinBudget
<1> QED
  BY <1>1, <1>2, PTL

--------------------------------------------------------------------------------
(* Accepted calls are authorized.                                          *)

\* The first completion event of a call.
Earliest(c, i) == i \in At(events, "completion", c) /\ \A j \in At(events, "completion", c) : i <= j
StopsFirst(c) == \E i \in DOMAIN events : Earliest(c, i) /\ events[i].state = "stopped"

\* Its one Result is usable and cost more than the first limit.
Overspent(c) == \E r \in results : Stored(c) = {r} /\ r.out.kind = "scoreable" /\ r.out.cost > Limit

\* Among the first k events its first completion stopped it for its one Result, which
\* is an Agent failure unless it is a cost amendment that goes on.
Settled(c, by, k) ==
  \E i \in DOMAIN events :
    /\ i <= k /\ Earliest(c, i) /\ events[i].state = "stopped" /\ events[i].evidence
    /\ \E r \in results : /\ Stored(c) = {r} /\ events[i].cost = r.out.cost
                          /\ by # "amend" => r.out.kind = "retainable"

\* Among the first k events is a cost amendment of a call before c.
AmendedBefore(c, k) ==
  \E j \in DOMAIN events : /\ j <= k /\ events[j].type = "reauthorization"
                           /\ events[j].by = "amend" /\ events[j].call < c

\* A power loss took the stop of c, but not the amendment that answers it.  Everybody
\* holds that amendment, and nobody gets past c.
Loaded(p) == op[p].at \notin {"idle", "create", "load"}
Lost(c) ==
  /\ snapshot.amend = c
  /\ \A p \in Operators : op[p].at # "create" /\ (Loaded(p) => op[p].authority.amend = c)
  /\ \A d \in Cells : d > c => paid[d] = <<>>
  /\ \A p \in Operators : Reserving(p) \/ op[p].at = "pay" => op[p].call <= c

\* The higher limit comes with the amendment of a call that cost more than the first.
Explained(a) ==
  /\ a.limit = NewLimit <=> a.amend # 0
  /\ a.amend # 0 => Overspent(a.amend) /\ (StopsFirst(a.amend) \/ Lost(a.amend))

\* A cell has one Result, which the operator that paid for it stored.
SingleResults ==
  /\ \A r \in results : Stored(r.cell) = {r}
  /\ \A p \in Operators : op[p].at = "store" => Stored(op[p].call) = {}
  /\ \A p \in Operators : op[p].at = "check" =>
       \E r \in results : Stored(op[p].call) = {r} /\ r.out = op[p].out
SeenFolds == \A p \in Operators : Folds(op[p].seen)
ReauthorizedInv ==
  \A j \in DOMAIN events : events[j].type = "reauthorization" =>
    Settled(events[j].call, events[j].by, j - 1)

\* An operator that is about to amend or to mark a call has seen why.
Marking(p) == op[p].at \in {"amend", "mark"} \/ (op[p].at \in {"sync", "load", "rebuild"} /\ op[p].then = "mark")
Marked(p) ==
  /\ Marking(p) => op[p].call \in Cells /\ Settled(op[p].call, op[p].job, Len(events))
  /\ op[p].at = "amend" /\ op[p].job = "amend" => Overspent(op[p].call) /\ op[p].authority.amend = 0
ExplainedInv == Explained(snapshot) /\ \A p \in Operators : Loaded(p) => Explained(op[p].authority)

\* A cell is reserved under the higher limit only after the amendment of an earlier one.
PaysUnder(p) ==
  Reserving(p) \/ Paying(p) =>
    (op[p].under = NewLimit => AmendedBefore(op[p].call, Len(events)))

FoldsTo(k) == \A j \in 1..k : Fits(events, j)
Allows(c, out, k) ==
  \/ PaidValid(out, Limit, 0)
  \/ PaidValid(out, NewLimit, 0) /\ (AmendedBefore(c, k) \/ Lost(c))
CompletedInv ==
  \A i \in DOMAIN events : events[i].type = "completion" /\ events[i].state = "completed" /\ FoldsTo(i) =>
    /\ events[i].evidence
    /\ \E r \in results : /\ Stored(events[i].call) = {r} /\ events[i].cost = r.out.cost
                          /\ Allows(events[i].call, r.out, i - 1)

AuthorizedInv ==
  /\ SingleResults /\ SeenFolds /\ ReauthorizedInv /\ ExplainedInv /\ CompletedInv
  /\ \A p \in Operators : Marked(p) /\ PaysUnder(p)

--------------------------------------------------------------------------------
(* Facts about logs that fold.                                             *)

\* What fits depends on what precedes it.
LEMMA FitsAlike ==
  ASSUME NEW log \in Seq(Event), NEW new \in Seq(Event), NEW k \in Nat, k <= Len(log), k <= Len(new),
         \A i \in 1..k : new[i] = log[i],
         NEW i \in 1..k
  PROVE  Fits(new, i) <=> Fits(log, i)
<1>1. i \in DOMAIN log /\ i \in DOMAIN new /\ new[i] = log[i]
  OBVIOUS
<1>2. ASSUME NEW type PROVE Earlier(new, type, i) = Earlier(log, type, i)
  <2>1. \A j : j \in DOMAIN log /\ j < i <=> j \in DOMAIN new /\ j < i
    OBVIOUS
  <2>2. \A j : j \in DOMAIN log /\ j < i => new[j] = log[j]
    OBVIOUS
  <2> QED
    BY <1>1, <2>1, <2>2 DEF At, Earlier
<1>3. \A j \in Earlier(log, "completion", i) : new[j] = log[j]
  <2>1. \A j \in Earlier(log, "completion", i) : j \in DOMAIN log /\ j < i
    BY DEF Earlier, At
  <2> QED
    BY <2>1
<1> QED
  BY <1>1, <1>2, <1>3 DEF Fits

\* A call has one completion and one reauthorization at most, the latter after the former.
LEMMA OnceEach ==
  ASSUME NEW log \in Seq(Event), Folds(log), NEW c
  PROVE  /\ \A i, j \in At(log, "completion", c) : i = j
         /\ \A i, j \in At(log, "reauthorization", c) : i = j
         /\ At(log, "reauthorization", c) # {} => At(log, "completion", c) # {}
<1>1. \A i \in DOMAIN log : Fits(log, i) /\ i \in Nat
  BY DEF Folds
<1>2. ASSUME NEW type \in {"completion", "reauthorization"},
             NEW i \in At(log, type, c), NEW j \in At(log, type, c), i < j
      PROVE  FALSE
  <2>1. j \in DOMAIN log /\ log[j].type = type /\ log[j].call = c
    BY DEF At
  <2>2. i \in Earlier(log, type, j)
    BY <1>2, <2>1 DEF Earlier
  <2> QED
    BY <1>1, <2>1, <2>2 DEF Fits
<1>3. \A type : \A i \in At(log, type, c) : i \in Nat
  BY DEF At
<1>4. ASSUME NEW j \in At(log, "reauthorization", c)
      PROVE  At(log, "completion", c) # {}
  <2>1. j \in DOMAIN log /\ log[j].type = "reauthorization" /\ log[j].call = c
    BY DEF At
  <2> QED
    BY <1>1, <2>1 DEF Fits, Earlier
<1> QED
  BY <1>2, <1>3, <1>4

\* What an operator has read of a call comes first in the log.
LEMMA SeenIsEarliest ==
  ASSUME CampaignInv, NEW p \in Operators, Folds(op[p].seen), NEW c,
         NEW i \in At(op[p].seen, "completion", c)
  PROVE  Earliest(c, i) /\ i \in DOMAIN events /\ events[i] = op[p].seen[i]
<1> DEFINE seen == op[p].seen
<1>1. seen \in Seq(Event) /\ events \in Seq(Event) /\ Prefix(p)
  BY DEF CampaignInv, TypeOK, Operation, SeenIsPrefix
<1>2. Len(seen) <= Len(events) /\ \A j \in 1..Len(seen) : seen[j] = events[j]
  BY <1>1 DEF Prefix
<1>3. i \in 1..Len(seen) /\ seen[i].type = "completion" /\ seen[i].call = c
  BY <1>1 DEF At
<1>4. i \in DOMAIN events /\ events[i] = seen[i]
  BY <1>1, <1>2, <1>3
<1>5. ASSUME NEW j \in At(events, "completion", c), j < i
      PROVE  FALSE
  <2>1. j \in 1..Len(seen) /\ seen[j] = events[j]
    BY <1>1, <1>2, <1>3, <1>5 DEF At
  <2>2. j \in At(seen, "completion", c)
    BY <1>1, <2>1 DEF At
  <2>3. \A a, b \in At(seen, "completion", c) : a = b
    BY <1>1, OnceEach
  <2> QED
    BY <1>3, <1>5, <2>2, <2>3
<1>6. \A j \in At(events, "completion", c) : j \in Int
  BY <1>1 DEF At
<1>7. i \in At(events, "completion", c)
  BY <1>3, <1>4 DEF At
<1> QED
  BY <1>3, <1>4, <1>5, <1>6, <1>7 DEF Earliest

\* An acceptance of a call that stopped first is a reauthorization, in a log that folds.
LEMMA AcceptedAgain ==
  ASSUME CampaignInv, Folds(events), NEW c, NEW k \in Nat, StopsFirst(c), Accepted(events, c, k)
  PROVE  \E j \in At(events, "reauthorization", c) : j <= k
<1>1. PICK i \in DOMAIN events : Earliest(c, i) /\ events[i].state = "stopped"
  BY DEF StopsFirst
<1>2. \A j \in At(events, "completion", c) : j = i
  BY <1>1, OnceEach DEF Earliest, CampaignInv, TypeOK
<1> QED
  BY <1>1, <1>2 DEF Accepted

--------------------------------------------------------------------------------
(* Where a step takes its operator.                                        *)

Where(p) ==
  \/ op'[p].at \in {"state", "open"}
  \/ op'[p].at = "sync" /\ op'[p].then \in {"open", "validate", "done"}
  \/ Reserve(p) /\ op'[p].at = "sync" /\ op'[p].then = "pay"
  \/ Rebuild(p) /\ op'[p].at = op[p].then /\ op'[p].then = op[p].then /\ op[p].at = "rebuild"
  \/ op[p].at = "sync" /\ op'[p].at = "load" /\ op'[p].then = op[p].then
  \/ op[p].at = "amend" /\ op'[p].at = "load" /\ op'[p].then = "mark"
  \/ op'[p].at = "load" /\ op'[p].then = "open"
  \/ Run(p) /\ op'[p].at = "store"
  \/ Store(p) /\ op'[p].at = "check"
  \/ Judge(p) /\ op'[p].at \in {"amend", "mark"}

GoesOn(p) ==
  /\ Loaded(p) /\ Where(p)
  /\ op'[p].job = op[p].job /\ op'[p].seen = op[p].seen /\ op'[p].authority = op[p].authority
  /\ op'[p].call = op[p].call \/ Reserve(p) \/ Judge(p)
Starts(p) ==
  /\ op[p] = Idle /\ op'[p].seen = <<>> /\ op'[p].then \in {"open", "judge"}
  /\ \/ op'[p].at = "load"
     \/ op'[p].at = "create" /\ snapshot = NoLedger
Loads(p) ==
  /\ Load(p) /\ op[p].at = "load" /\ Folds(events)
  /\ op'[p].seen = events /\ op'[p].authority = snapshot
  /\ op'[p].call = op[p].call /\ op'[p].job = op[p].job /\ op'[p].then = op[p].then
  /\ op'[p].at \in {"rebuild", op[p].then}
Turns(p) == op'[p] = Idle \/ Starts(p) \/ Loads(p) \/ GoesOn(p)

\* Every step of an operator leaves, starts, loads or goes on.
LEMMA StepTurns ==
  ASSUME CampaignInv, NEW p \in Operators, Act(p)
  PROVE  Turns(p)
<1>a. op[p] \in Operation /\ op \in [Operators -> Operation]
  BY DEF CampaignInv, TypeOK
<1>b. ASSUME Leave(p) PROVE Turns(p)
  BY <1>a, <1>b DEF Leave, Put, Turns
<1>c. ASSUME NEW e, NEW then \in {"open", "validate", "done"}, Record(p, op[p], e, then), Loaded(p)
      PROVE  Turns(p)
  <2>1. op'[p] = [op[p] EXCEPT !.at = "sync", !.then = then]
    BY <1>a, <1>c DEF Record, Put
  <2>2. /\ op'[p].at = "sync" /\ op'[p].then = then /\ op'[p].job = op[p].job
        /\ op'[p].seen = op[p].seen /\ op'[p].authority = op[p].authority /\ op'[p].call = op[p].call
    BY <1>a, <2>1 DEF Operation
  <2> QED
    BY <1>c, <2>2 DEF Turns, GoesOn, Where
<1>d. ASSUME NEW then, LoadThen(p, then), Loaded(p),
             \/ op[p].at = "sync" /\ then = op[p].then
             \/ op[p].at = "amend" /\ then = "mark"
             \/ then = "open"
      PROVE  Turns(p)
  <2>1. op'[p] = [op[p] EXCEPT !.at = "load", !.then = then]
    BY <1>a, <1>d DEF LoadThen, Put
  <2>2. /\ op'[p].at = "load" /\ op'[p].then = then /\ op'[p].job = op[p].job
        /\ op'[p].seen = op[p].seen /\ op'[p].authority = op[p].authority /\ op'[p].call = op[p].call
    BY <1>a, <2>1 DEF Operation
  <2> QED
    BY <1>d, <2>2 DEF Turns, GoesOn, Where
<1>1. CASE Initialize(p)
  BY <1>1, <1>b DEF Initialize
<1>2. CASE Load(p)
  <2>1. CASE torn \/ ~Folds(events)
    BY <1>2, <2>1, <1>b DEF Load
  <2>2. CASE ~(torn \/ ~Folds(events))
    <3> DEFINE o == [op[p] EXCEPT !.seen = events, !.authority = snapshot]
               at == IF events = <<>> THEN op[p].then ELSE "rebuild"
    <3>1. Proceed(p, o, at) /\ op[p].at = "load"
      BY <1>2, <2>2 DEF Load
    <3>2. CASE at = "done"
      BY <3>1, <3>2, <1>b DEF Proceed
    <3>3. CASE at # "done"
      <4>1. op'[p] = [o EXCEPT !.at = at]
        BY <1>a, <3>1, <3>3 DEF Proceed, Put
      <4>2. op'[p] = [op[p] EXCEPT !.seen = events, !.authority = snapshot, !.at = at]
        BY <1>a, <4>1 DEF Operation
      <4>3. at \in {"rebuild", op[p].then}
        OBVIOUS
      <4> HIDE DEF at
      <4>4. /\ op'[p].at = at /\ op'[p].then = op[p].then /\ op'[p].job = op[p].job
            /\ op'[p].seen = events /\ op'[p].authority = snapshot /\ op'[p].call = op[p].call
        BY <1>a, <4>2 DEF Operation
      <4> QED
        BY <1>2, <2>2, <3>1, <4>3, <4>4 DEF Turns, Loads
    <3> QED
      BY <3>2, <3>3
  <2> QED
    BY <2>1, <2>2
<1>3. CASE Rebuild(p)
  <2> DEFINE at == IF Spent(Known(p)) > Budget THEN "done" ELSE op[p].then
  <2>1. Proceed(p, op[p], at) /\ op[p].at = "rebuild"
    BY <1>3 DEF Rebuild
  <2>2. CASE at = "done"
    BY <2>1, <2>2, <1>b DEF Proceed
  <2>3. CASE at # "done"
    <3>1. op'[p] = [op[p] EXCEPT !.at = op[p].then]
      BY <1>a, <2>1, <2>3 DEF Proceed, Put
    <3>2. /\ op'[p].at = op[p].then /\ op'[p].then = op[p].then /\ op'[p].job = op[p].job
          /\ op'[p].seen = op[p].seen /\ op'[p].authority = op[p].authority /\ op'[p].call = op[p].call
      BY <1>a, <3>1 DEF Operation
    <3> QED
      BY <1>3, <2>1, <3>2 DEF Turns, GoesOn, Where, Loaded
  <2> QED
    BY <2>2, <2>3
<1>4. CASE SyncEvent(p)
  BY <1>4, <1>d DEF SyncEvent, Loaded
<1>5. CASE Open(p)
  <2>1. op'[p] = [op[p] EXCEPT !.at = "state"] /\ op[p].at = "open"
    BY <1>5, <1>a DEF Open, Put
  <2>2. /\ op'[p].at = "state" /\ op'[p].job = op[p].job
        /\ op'[p].seen = op[p].seen /\ op'[p].authority = op[p].authority /\ op'[p].call = op[p].call
    BY <1>a, <2>1 DEF Operation
  <2> QED
    BY <2>1, <2>2 DEF Turns, GoesOn, Where, Loaded
<1>6. CASE Reconcile(p)
  <2>1. Loaded(p)
    BY <1>6 DEF Reconcile, Loaded
  <2>2. \/ Leave(p) \/ \E e : Record(p, op[p], e, "validate") \/ Record(p, op[p], e, "done")
    BY <1>6 DEF Reconcile
  <2> QED
    BY <1>b, <1>c, <2>1, <2>2
<1>7. CASE Reserve(p)
  <2>1. CASE Leave(p)
    BY <1>b, <2>1
  <2>2. CASE ~Leave(p)
    <3>1. Record(p, Claim(p), Reservation(Next1(p)), "pay") /\ Loaded(p)
      BY <1>7, <2>2 DEF Reserve, Loaded
    <3>2. op'[p] = [Claim(p) EXCEPT !.at = "sync", !.then = "pay"]
      BY <1>a, <3>1 DEF Record, Put
    <3>3. /\ op'[p].at = "sync" /\ op'[p].then = "pay" /\ op'[p].job = op[p].job
          /\ op'[p].seen = op[p].seen /\ op'[p].authority = op[p].authority
      BY <1>a, <3>2 DEF Claim, Operation
    <3> QED
      BY <1>7, <3>1, <3>3 DEF Turns, GoesOn, Where
  <2> QED
    BY <2>1, <2>2
<1>8. CASE Run(p)
  <2>1. Loaded(p)
    BY <1>8 DEF Run, Loaded
  <2>2. \/ \E e : Record(p, op[p], e, "done")
        \/ \E out : op'[p] = [op[p] EXCEPT !.at = "store", !.out = out]
    BY <1>8, <1>a DEF Run, Put
  <2>3. ASSUME NEW out, op'[p] = [op[p] EXCEPT !.at = "store", !.out = out]
        PROVE  Turns(p)
    <3>1. /\ op'[p].at = "store" /\ op'[p].job = op[p].job
          /\ op'[p].seen = op[p].seen /\ op'[p].authority = op[p].authority /\ op'[p].call = op[p].call
      BY <1>a, <2>3 DEF Operation
    <3> QED
      BY <1>8, <2>1, <3>1 DEF Turns, GoesOn, Where
  <2> QED
    BY <1>c, <2>1, <2>2, <2>3
<1>9. CASE Store(p)
  <2>1. op'[p] = [op[p] EXCEPT !.at = "check"] /\ Loaded(p)
    BY <1>9, <1>a DEF Store, Move, Put, Loaded
  <2>2. /\ op'[p].at = "check" /\ op'[p].job = op[p].job
        /\ op'[p].seen = op[p].seen /\ op'[p].authority = op[p].authority /\ op'[p].call = op[p].call
    BY <1>a, <2>1 DEF Operation
  <2> QED
    BY <1>9, <2>1, <2>2 DEF Turns, GoesOn, Where
<1>10. CASE Finish(p)
  <2>1. Loaded(p) /\ \E e : Record(p, op[p], e, "done")
    BY <1>10 DEF Finish, Loaded
  <2> QED
    BY <1>c, <2>1
<1>11. CASE Confirmed(p)
  <2>1. Loaded(p)
    BY <1>11 DEF Confirmed, Loaded
  <2>2. CASE Leave(p)
    BY <1>b, <2>2
  <2>3. CASE Move(p, "open")
    <3>1. op'[p] = [op[p] EXCEPT !.at = "open"]
      BY <2>3, <1>a DEF Move, Put
    <3>2. /\ op'[p].at = "open" /\ op'[p].job = op[p].job
          /\ op'[p].seen = op[p].seen /\ op'[p].authority = op[p].authority /\ op'[p].call = op[p].call
      BY <1>a, <3>1 DEF Operation
    <3> QED
      BY <2>1, <3>2 DEF Turns, GoesOn, Where
  <2> QED
    BY <1>11, <2>2, <2>3 DEF Confirmed
<1>12. CASE Judge(p)
  <2>1. Loaded(p)
    BY <1>12 DEF Judge, Loaded
  <2>2. \/ op'[p] = Idle
        \/ \E at \in {"amend", "mark"} : \E n : op'[p] = [op[p] EXCEPT !.at = at, !.call = n]
    <3> DEFINE c == About(op[p].authority, op[p].job)
    <3>1. \/ Put(p, Idle)
          \/ Put(p, [op[p] EXCEPT !.at = IF c = 0 THEN "amend" ELSE "mark",
                                  !.call = IF c = 0 THEN Cardinality(DOMAIN Known(p)) ELSE c])
      BY <1>12 DEF Judge
    <3>2. PICK at \in {"amend", "mark"} : at = IF c = 0 THEN "amend" ELSE "mark"
      OBVIOUS
    <3>3. PICK n : n = IF c = 0 THEN Cardinality(DOMAIN Known(p)) ELSE c
      OBVIOUS
    <3> QED
      BY <1>a, <3>1, <3>2, <3>3 DEF Put
  <2>3. ASSUME NEW at \in {"amend", "mark"}, NEW c, op'[p] = [op[p] EXCEPT !.at = at, !.call = c]
        PROVE  Turns(p)
    <3>1. /\ op'[p].at = at /\ op'[p].job = op[p].job
          /\ op'[p].seen = op[p].seen /\ op'[p].authority = op[p].authority
      BY <1>a, <2>3 DEF Operation
    <3> QED
      BY <1>12, <2>1, <3>1 DEF Turns, GoesOn, Where
  <2> QED
    BY <2>2, <2>3 DEF Turns
<1>13. CASE Amend(p)
  BY <1>13, <1>d DEF Amend, Loaded
<1>14. CASE Mark(p)
  <2>1. Loaded(p)
    BY <1>14 DEF Mark, Loaded
  <2>2. Leave(p) \/ LoadThen(p, "open") \/ \E e : Record(p, op[p], e, "open")
    BY <1>14 DEF Mark
  <2> QED
    BY <1>b, <1>c, <1>d, <2>1, <2>2
<1>15. CASE Interrupt(p)
  <2>1. Loaded(p) /\ \E e : Record(p, op[p], e, "done")
    BY <1>15 DEF Interrupt, Loaded
  <2> QED
    BY <1>c, <2>1
<1>16. CASE Kill(p)
  BY <1>16, <1>b DEF Kill
<1>17. CASE \E job \in Jobs : Begin(p, job)
  <2>1. PICK job \in Jobs : Begin(p, job)
    BY <1>17
  <2>2. PICK at, then : /\ at = IF job = "create" THEN "create" ELSE "load"
                        /\ then = IF job \in {"amend", "cont"} THEN "judge" ELSE "open"
    OBVIOUS
  <2>3. op[p] = Idle /\ op'[p] = [Idle EXCEPT !.at = at, !.job = job, !.then = then]
    BY <1>a, <2>1, <2>2 DEF Begin, Put
  <2>4. op'[p].at = at /\ op'[p].then = then /\ op'[p].seen = <<>>
    BY <2>3 DEF Idle
  <2>5. at = "create" => snapshot = NoLedger
    BY <2>1, <2>2 DEF Begin
  <2> QED
    BY <2>2, <2>3, <2>4, <2>5 DEF Turns, Starts
<1> QED
  BY <1>1, <1>2, <1>3, <1>4, <1>5, <1>6, <1>7, <1>8, <1>9, <1>10, <1>11, <1>12, <1>13, <1>14,
     <1>15, <1>16, <1>17 DEF Act, Step

--------------------------------------------------------------------------------
(* What lasts.                                                             *)

\* How the log and the Results change.
LEMMA Additions ==
  ASSUME CampaignInv, TypeOK', NEW p \in Operators, Act(p)
  PROVE  /\ events \in Seq(Event) /\ events' \in Seq(Event) /\ Len(events) <= Len(events')
         /\ \A i \in DOMAIN events : i \in DOMAIN events' /\ events'[i] = events[i] /\ i \in 1..Len(events)
         /\ \A i \in DOMAIN events' : i \in DOMAIN events \/ (i = Len(events) + 1 /\ events' # events)
         /\ results \subseteq results'
         /\ \A r \in results' : r \in results \/
              /\ op[p].at = "store" /\ holder = p
              /\ r = [cell |-> op[p].call, run |-> Len(paid[op[p].call]), out |-> op[p].out]
         /\ \A q \in Operators \ {p} : op'[q] = op[q]
<1>1. Frame(p) /\ events \in Seq(Event) /\ events' \in Seq(Event)
  BY FrameHolds DEF CampaignInv, TypeOK
<1>2. /\ Len(events) <= Len(events')
      /\ \A i \in DOMAIN events : i \in DOMAIN events' /\ events'[i] = events[i] /\ i \in 1..Len(events)
      /\ \A i \in DOMAIN events' : i \in DOMAIN events \/ (i = Len(events) + 1 /\ events' # events)
  BY <1>1 DEF Frame, Grows
<1>3. ASSUME NEW r \in results', r \notin results
      PROVE  /\ op[p].at = "store" /\ holder = p
             /\ r = [cell |-> op[p].call, run |-> Len(paid[op[p].call]), out |-> op[p].out]
  <2>1. Store(p) \/ Interrupt(p)
    BY <1>3 DEF Act, Step, Initialize, Load, Rebuild, SyncEvent, Open, Reconcile, Reserve, Run,
       Finish, Confirmed, Judge, Amend, Mark, Kill, Begin
  <2>2. op[p].at = "store" /\ r = [cell |-> op[p].call, run |-> Len(paid[op[p].call]), out |-> op[p].out]
    BY <1>3, <2>1 DEF Store, Interrupt
  <2> QED
    BY <2>2 DEF CampaignInv, Reservations, Keeps, InSession, Paying
<1> QED
  BY <1>1, <1>2, <1>3, ResultsStay DEF Frame

\* A cell that has its one Result gets no other.
LEMMA StoredStays ==
  ASSUME CampaignInv, TypeOK', SingleResults, NEW p \in Operators, Act(p)
  PROVE  \A r \in results : \A c : Stored(c) = {r} => r \in results' /\ Stored(c)' = {r}
<1> SUFFICES ASSUME NEW r \in results, NEW c, Stored(c) = {r}
             PROVE  r \in results' /\ Stored(c)' = {r}
  OBVIOUS
<1>1. \A s \in results' : s.cell = c => s \in results
  <2> SUFFICES ASSUME NEW s \in results', s.cell = c, s \notin results PROVE FALSE
    OBVIOUS
  <2>1. op[p].at = "store" /\ s = [cell |-> op[p].call, run |-> Len(paid[op[p].call]), out |-> op[p].out]
    BY Additions
  <2>2. op[p].call = c
    BY <2>1
  <2> QED
    BY <2>1, <2>2 DEF SingleResults
<1>2. results \subseteq results'
  BY Additions
<1> QED
  BY <1>1, <1>2 DEF Stored

\* What the log and the Results say of a call they go on saying.
LEMMA Lasting ==
  ASSUME CampaignInv, TypeOK', SingleResults, NEW p \in Operators, Act(p)
  PROVE  /\ \A c, i : Earliest(c, i) => Earliest(c, i)'
         /\ \A c : StopsFirst(c) => StopsFirst(c)'
         /\ \A c : Overspent(c) => Overspent(c)'
         /\ \A c, by, k : Settled(c, by, k) => Settled(c, by, k)'
         /\ \A c, k : AmendedBefore(c, k) => AmendedBefore(c, k)'
<1>a. /\ events \in Seq(Event) /\ events' \in Seq(Event)
      /\ \A i \in DOMAIN events : i \in DOMAIN events' /\ events'[i] = events[i] /\ i \in 1..Len(events)
      /\ \A i \in DOMAIN events' : i \in DOMAIN events \/ i = Len(events) + 1
  BY Additions
<1>b. \A r \in results : \A c : Stored(c) = {r} => r \in results' /\ Stored(c)' = {r}
  BY StoredStays
<1>1. ASSUME NEW c, NEW i, Earliest(c, i) PROVE Earliest(c, i)'
  <2>1. i \in At(events, "completion", c) /\ \A j \in At(events, "completion", c) : i <= j
    BY <1>1 DEF Earliest
  <2>2. i \in At(events', "completion", c) /\ i \in Nat /\ i <= Len(events)
    BY <1>a, <2>1 DEF At
  <2>3. ASSUME NEW j \in At(events', "completion", c) PROVE i <= j
    <3>1. j \in At(events, "completion", c) \/ j = Len(events) + 1
      BY <1>a DEF At
    <3> QED
      BY <1>a, <2>1, <2>2, <3>1
  <2> QED
    BY <2>2, <2>3 DEF Earliest
<1>2. ASSUME NEW c, StopsFirst(c) PROVE StopsFirst(c)'
  <2>1. PICK i \in DOMAIN events : Earliest(c, i) /\ events[i].state = "stopped"
    BY <1>2 DEF StopsFirst
  <2> QED
    BY <1>a, <1>1, <2>1 DEF StopsFirst
<1>3. ASSUME NEW c, Overspent(c) PROVE Overspent(c)'
  BY <1>b, <1>3 DEF Overspent
<1>4. ASSUME NEW c, NEW by, NEW k, Settled(c, by, k) PROVE Settled(c, by, k)'
  <2>1. PICK i \in DOMAIN events, r \in results :
          /\ i <= k /\ Earliest(c, i) /\ events[i].state = "stopped" /\ events[i].evidence
          /\ Stored(c) = {r} /\ events[i].cost = r.out.cost
          /\ by # "amend" => r.out.kind = "retainable"
    BY <1>4 DEF Settled
  <2>2. i \in DOMAIN events' /\ events'[i] = events[i] /\ Earliest(c, i)'
    BY <1>a, <1>1, <2>1
  <2>3. r \in results' /\ Stored(c)' = {r}
    BY <1>b, <2>1
  <2> QED
    BY <2>1, <2>2, <2>3 DEF Settled
<1>5. ASSUME NEW c, NEW k, AmendedBefore(c, k) PROVE AmendedBefore(c, k)'
  BY <1>a, <1>5 DEF AmendedBefore
<1> QED
  BY <1>1, <1>2, <1>3, <1>4, <1>5

\* One Result for each cell, stored by the operator that paid for it.
LEMMA SingleKeeps ==
  ASSUME CampaignInv, TypeOK', RecordInv, SingleResults, NEW p \in Operators, Act(p)
  PROVE  SingleResults'
<1>a. op[p] \in Operation /\ op \in [Operators -> Operation] /\ Nobody \notin Operators
  BY CampaignConstants DEF CampaignInv, TypeOK
<1>b. \A r \in results : \A c : Stored(c) = {r} => r \in results' /\ Stored(c)' = {r}
  BY StoredStays
<1>c. \A r \in results' : r \in results \/
        /\ op[p].at = "store" /\ holder = p
        /\ r = [cell |-> op[p].call, run |-> Len(paid[op[p].call]), out |-> op[p].out]
  BY Additions
<1>d. \A q \in Operators \ {p} : op'[q] = op[q]
  BY Additions
<1>1. ASSUME NEW r \in results' PROVE {s \in results' : s.cell = r.cell} = {r}
  <2>1. CASE r \in results
    <3>1. Stored(r.cell) = {r}
      BY <2>1 DEF SingleResults
    <3>2. PICK c : c = r.cell
      OBVIOUS
    <3>3. Stored(c)' = {r}
      BY <1>b, <2>1, <3>1, <3>2
    <3> QED
      BY <3>2, <3>3 DEF Stored
  <2>2. CASE r \notin results
    <3>1. op[p].at = "store" /\ r = [cell |-> op[p].call, run |-> Len(paid[op[p].call]), out |-> op[p].out]
      BY <2>2, <1>c
    <3>2. r.cell = op[p].call /\ Stored(op[p].call) = {}
      BY <3>1 DEF SingleResults
    <3>3. \A s \in results' : s.cell = r.cell => s = r
      BY <1>c, <3>1, <3>2 DEF Stored
    <3> QED
      BY <3>3
  <2> QED
    BY <2>1, <2>2
<1>2. ASSUME NEW q \in Operators, op'[q].at = "store"
      PROVE  \A s \in results' : s.cell # op'[q].call
  <2>1. CASE q = p
    <3>1. Run(p)
      BY <1>2, <2>1, WaysToPay
    <3>2. op[p].at = "pay" /\ op[p].call \in Cells /\ paid[op[p].call] = <<>> /\ op'[p].call = op[p].call
      BY <1>2, <2>1, <3>1, PaidStays
    <3>3. results' = results
      BY <3>1 DEF Run
    <3>4. \A r \in results : r.cell # op[p].call
      BY <3>2 DEF RecordInv, ResultsPaid
    <3> QED
      BY <2>1, <3>2, <3>3, <3>4
  <2>2. CASE q # p
    <3>1. op'[q] = op[q] /\ op[q].at = "store"
      BY <1>2, <1>d, <2>2
    <3>2. holder = q
      BY <3>1 DEF CampaignInv, Reservations, Keeps, InSession, Paying
    <3>3. \A s \in results' : s \in results
      BY <1>c, <2>2, <3>2
    <3>4. Stored(op[q].call) = {}
      BY <3>1 DEF SingleResults
    <3> QED
      BY <3>1, <3>3, <3>4 DEF Stored
  <2> QED
    BY <2>1, <2>2
<1>3. ASSUME NEW q \in Operators, op'[q].at = "check"
      PROVE  \E r \in results' : {s \in results' : s.cell = op'[q].call} = {r} /\ r.out = op'[q].out
  <2>1. CASE q = p
    <3>1. Store(p)
      BY <1>3, <2>1, WaysToPay
    <3>2. op'[p] = [op[p] EXCEPT !.at = "check"]
      BY <1>a, <3>1 DEF Store, Move, Put
    <3>3. op'[p].call = op[p].call /\ op'[p].out = op[p].out
      BY <1>a, <3>2 DEF Operation
    <3>4. PICK r : r = [cell |-> op[p].call, run |-> Len(paid[op[p].call]), out |-> op[p].out]
      OBVIOUS
    <3>5. r \in results' /\ r.cell = op[p].call /\ r.out = op[p].out
      BY <3>1, <3>4 DEF Store
    <3>6. {s \in results' : s.cell = r.cell} = {r}
      BY <1>1, <3>5
    <3> QED
      BY <2>1, <3>3, <3>5, <3>6
  <2>2. CASE q # p
    <3>1. op'[q] = op[q] /\ op[q].at = "check"
      BY <1>3, <1>d, <2>2
    <3>2. PICK r \in results : Stored(op[q].call) = {r} /\ r.out = op[q].out
      BY <3>1 DEF SingleResults
    <3>3. PICK c : c = op[q].call
      OBVIOUS
    <3>4. r \in results' /\ Stored(c)' = {r}
      BY <1>b, <3>2, <3>3
    <3>5. {s \in results' : s.cell = c} = {r}
      BY <3>4 DEF Stored
    <3> QED
      BY <3>1, <3>2, <3>3, <3>4, <3>5
  <2> QED
    BY <2>1, <2>2
<1>4. \A r \in results' : {s \in results' : s.cell = r.cell} = {r}
  BY <1>1
<1>5. \A q \in Operators : op'[q].at = "store" => {s \in results' : s.cell = op'[q].call} = {}
  BY <1>2
<1>6. \A q \in Operators : op'[q].at = "check" =>
        \E r \in results' : {s \in results' : s.cell = op'[q].call} = {r} /\ r.out = op'[q].out
  BY <1>3
<1> QED
  BY <1>4, <1>5, <1>6 DEF SingleResults, Stored

\* What an operator has read folds.
LEMMA SeenKeeps ==
  ASSUME CampaignInv, TypeOK', SeenFolds, NEW p \in Operators, Act(p)
  PROVE  SeenFolds'
<1>1. Folds(<<>>)
  BY DEF Folds
<1>2. Folds(op'[p].seen)
  <2>1. Idle.seen = <<>>
    BY DEF Idle
  <2> QED
    BY <1>1, <2>1, StepTurns DEF Turns, Starts, Loads, GoesOn, SeenFolds
<1> QED
  BY <1>2, Additions DEF SeenFolds

--------------------------------------------------------------------------------
(* The events that may be added.                                           *)

Returned(p, e) ==
  /\ op[p].at = "check" /\ e = Completion(op[p].call, "completed", op[p].out.cost, "", TRUE)
  /\ op[p].out.kind = "scoreable" /\ op[p].out.cost <= op[p].under
Reconciled(p, e) ==
  /\ op[p].at = "state" /\ InOrder(Known(p)) /\ Started(Known(p)) = {LastCall(Known(p))}
  /\ \E r \in results :
       /\ Stored(LastCall(Known(p))) = {r}
       /\ e = Completion(LastCall(Known(p)), "completed", r.out.cost, "", TRUE)
       /\ r.out.kind = "scoreable" /\ r.out.cost <= op[p].authority.limit
Remarked(p, e) == op[p].at = "mark" /\ e = Reauthorization(op[p].call, op[p].job)
MayAdd(p, e) ==
  \/ e.type = "reservation"
  \/ e.type = "completion" /\ e.state = "stopped"
  \/ Returned(p, e) \/ Reconciled(p, e) \/ Remarked(p, e)

\* A step adds no event or one of these.
LEMMA NewEvent ==
  ASSUME CampaignInv, NEW p \in Operators, Act(p)
  PROVE  events' = events \/ \E e : events' = Append(events, e) /\ MayAdd(p, e)
<1>a. \A c, cost, error, known : MayAdd(p, Completion(c, "stopped", cost, error, known))
  BY DEF Completion, MayAdd
<1>1. CASE Reconcile(p)
  <2> DEFINE c == LastCall(Known(p))
             out == (CHOOSE r \in Stored(c) : TRUE).out
  <2>1. CASE Started(Known(p)) = {c} /\ InOrder(Known(p)) /\ Cardinality(Stored(c)) = 1
    <3>1. PICK r \in results : Stored(c) = {r}
      <4>1. IsFiniteSet(Stored(c))
        BY FS_Subset DEF Stored, CampaignInv, TypeOK
      <4>2. \E r : Stored(c) = {r}
        <5> HIDE DEF c
        <5> QED
          BY <2>1, <4>1, FS_Singleton
      <4> QED
        BY <4>2 DEF Stored
    <3>2. out = r.out
      BY <3>1
    <3>3. CASE PaidValid(out, op[p].authority.limit, Spent(Known(p)))
      <4>1. events' = Append(events, Completion(c, "completed", out.cost, "", TRUE)) /\ op[p].at = "state"
        BY <1>1, <2>1, <3>3 DEF Reconcile, Record, LastCall
      <4>2. r.out.kind = "scoreable" /\ r.out.cost <= op[p].authority.limit
        BY <3>2, <3>3 DEF PaidValid
      <4>3. Reconciled(p, Completion(c, "completed", out.cost, "", TRUE))
        BY <2>1, <3>1, <3>2, <4>1, <4>2 DEF Reconciled
      <4> QED
        BY <4>1, <4>3 DEF MayAdd
    <3>4. CASE ~PaidValid(out, op[p].authority.limit, Spent(Known(p)))
      <4>1. events' = Append(events, Completion(c, "stopped", out.cost, "RuntimeError", TRUE))
        BY <1>1, <2>1, <3>4 DEF Reconcile, Record, LastCall
      <4> QED
        BY <1>a, <4>1
    <3> QED
      BY <3>3, <3>4
  <2>2. CASE ~(Started(Known(p)) = {c} /\ InOrder(Known(p)) /\ Cardinality(Stored(c)) = 1)
    BY <1>1, <2>2 DEF Reconcile, files, LastCall
  <2> QED
    BY <2>1, <2>2
<1>2. CASE Reserve(p)
  <2>1. events' = Append(events, Reservation(Next1(p))) \/ events' = events
    BY <1>2 DEF Reserve, Record, files
  <2> QED
    BY <2>1 DEF Reservation, MayAdd
<1>3. CASE Run(p)
  <2>1. \/ events' = Append(events, Completion(op[p].call, "stopped", 0, "other", FALSE))
        \/ events' = events
    BY <1>3 DEF Run, Record, files
  <2> QED
    BY <1>a, <2>1
<1>4. CASE Finish(p)
  <2>1. CASE PaidValid(op[p].out, op[p].under, op[p].spent)
    <3>1. events' = Append(events, Completion(op[p].call, "completed", op[p].out.cost, "", TRUE)) /\ op[p].at = "check"
      BY <1>4, <2>1 DEF Finish, Record
    <3> QED
      BY <2>1, <3>1 DEF MayAdd, Returned, PaidValid
  <2>2. CASE ~PaidValid(op[p].out, op[p].under, op[p].spent)
    <3>1. events' = Append(events, Completion(op[p].call, "stopped", op[p].out.cost, "RuntimeError", TRUE))
      BY <1>4, <2>2 DEF Finish, Record
    <3> QED
      BY <1>a, <3>1
  <2> QED
    BY <2>1, <2>2
<1>5. CASE Interrupt(p)
  <2>1. \E cost, known : events' = Append(events, Completion(op[p].call, "stopped", cost, "other", known))
    BY <1>5 DEF Interrupt, Record
  <2> QED
    BY <1>a, <2>1
<1>6. CASE Mark(p)
  <2>1. op[p].at = "mark" /\ (events' = events \/ events' = Append(events, Reauthorization(op[p].call, op[p].job)))
    BY <1>6 DEF Mark, Record, files
  <2> QED
    BY <2>1 DEF MayAdd, Remarked
<1>7. CASE ~(Reconcile(p) \/ Reserve(p) \/ Run(p) \/ Finish(p) \/ Interrupt(p) \/ Mark(p))
  <2>1. events' = events
    BY <1>7 DEF Act, Step, Initialize, Load, Rebuild, SyncEvent, Open, Store,
       Confirmed, Judge, Amend, Kill, Begin, files
  <2> QED
    BY <2>1
<1> QED
  BY <1>1, <1>2, <1>3, <1>4, <1>5, <1>6, <1>7

\* A reauthorization answers a stop for its Result.
LEMMA ReauthorizedKeeps ==
  ASSUME CampaignInv, TypeOK', SingleResults, ReauthorizedInv, NEW p \in Operators, Act(p), Marked(p)
  PROVE  ReauthorizedInv'
<1>a. events \in Seq(Event) /\ \A i \in DOMAIN events : events'[i] = events[i] /\ i \in 1..Len(events)
  BY Additions
<1>b. \A j \in DOMAIN events' : j \in DOMAIN events \/ (j = Len(events) + 1 /\ events' # events)
  BY Additions
<1>c. \A c, by, k : Settled(c, by, k) => Settled(c, by, k)'
  BY Lasting
<1>2. ASSUME NEW j \in DOMAIN events', NEW c, NEW by, events'[j].type = "reauthorization",
             events'[j].call = c, events'[j].by = by
      PROVE  Settled(c, by, j - 1)
  <2>1. CASE j \in DOMAIN events
    BY <1>2, <1>a, <2>1 DEF ReauthorizedInv
  <2>2. CASE j \notin DOMAIN events
    <3>1. j = Len(events) + 1 /\ events' # events
      BY <1>b, <2>2
    <3>2. PICK e : events' = Append(events, e) /\ MayAdd(p, e)
      BY <3>1, NewEvent
    <3>3. events'[j] = e
      BY <1>a, <3>1, <3>2
    <3>4. op[p].at = "mark" /\ e = Reauthorization(op[p].call, op[p].job)
      <4>1. e.type = "reauthorization"
        BY <1>2, <3>3
      <4>2. \A c1, cost, error : Completion(c1, "completed", cost, error, TRUE).type = "completion"
        BY DEF Completion
      <4>3. ~Returned(p, e) /\ ~Reconciled(p, e)
        BY <4>1, <4>2 DEF Returned, Reconciled
      <4> QED
        BY <3>2, <4>1, <4>3 DEF MayAdd, Remarked
    <3>5. c = op[p].call /\ by = op[p].job
      BY <1>2, <3>3, <3>4 DEF Reauthorization
    <3>6. Settled(op[p].call, op[p].job, Len(events))
      BY <3>4 DEF Marked, Marking
    <3>7. j - 1 = Len(events)
      BY <1>a, <3>1
    <3> QED
      BY <3>5, <3>6, <3>7
  <2> QED
    BY <2>1, <2>2
<1>3. \A j \in DOMAIN events' : \A c, by :
         events'[j].type = "reauthorization" /\ events'[j].call = c /\ events'[j].by = by => Settled(c, by, j - 1)'
  BY <1>2, <1>c
<1> QED
  BY <1>3 DEF ReauthorizedInv, Settled, Earliest, Stored

--------------------------------------------------------------------------------
(* What is known at an amendment.                                          *)

\* A call that stopped for a Result has a completion that says so.
LEMMA StoppedCall ==
  ASSUME NEW log \in Seq(Event), NEW c, Call(log, c).error = "RuntimeError", Call(log, c).state # "completed"
  PROVE  \E i \in At(log, "completion", c) :
           /\ log[i].state = "stopped"
           /\ Call(log, c).evidence = log[i].evidence /\ Call(log, c).cost = log[i].cost
<1>1. At(log, "completion", c) # {}
  BY DEF Call
<1>2. PICK i \in At(log, "completion", c) : i = CHOOSE k \in At(log, "completion", c) : TRUE
  BY <1>1
<1>3. At(log, "reauthorization", c) = {}
  BY <1>1 DEF Call
<1>4. /\ Call(log, c).state = log[i].state
      /\ Call(log, c).evidence = log[i].evidence /\ Call(log, c).cost = log[i].cost
  BY <1>1, <1>2, <1>3 DEF Call
<1>5. log[i].state \in {"completed", "stopped"}
  <2>1. log[i] \in Event /\ log[i].type = "completion"
    BY DEF At
  <2> QED
    BY <2>1 DEF Event
<1> QED
  BY <1>4, <1>5

\* An operator that is about to amend or to mark has seen the stop and its Result.
LEMMA JudgeSees ==
  ASSUME CampaignInv, LimitInv, SeenFolds, ExplainedInv, NEW p \in Operators, Judge(p),
         op'[p].at \in {"amend", "mark"}
  PROVE  /\ op'[p].call \in Cells
         /\ \A c : c = op'[p].call => Settled(c, op[p].job, Len(events))
         /\ op'[p].job = op[p].job /\ op'[p].authority = op[p].authority
         /\ op'[p].at = "amend" /\ op[p].job = "amend" =>
              op[p].authority.amend = 0 /\ \A c : c = op'[p].call => Overspent(c)
<1>a. op[p] \in Operation /\ op \in [Operators -> Operation] /\ events \in Seq(Event) /\ op[p].seen \in Seq(Event)
  BY DEF CampaignInv, TypeOK, Operation
<1> DEFINE calls == Known(p)
           a == op[p].authority
           L == LastCall(calls)
           about == About(a, op[p].job)
           again == Resumed(calls, IF op[p].job = "amend" THEN "amend" ELSE "cont")
           b == IF op[p].job = "amend" THEN [a EXCEPT !.limit = NewLimit, !.amend = L] ELSE [a EXCEPT !.cont = L]
<1>1. /\ op[p].at = "judge"
      /\ about \in DOMAIN calls => calls[about].state # "completed"
      /\ about \in DOMAIN calls \cup {0} /\ Amendable(op[p].job, calls, a)
      /\ op'[p] = [op[p] EXCEPT !.at = IF about = 0 THEN "amend" ELSE "mark",
                                !.call = IF about = 0 THEN L ELSE about]
  <2>1. op'[p] # Idle
    BY DEF Idle
  <2> QED
    BY <1>a, <2>1 DEF Judge, Put, LastCall
<1>2. /\ op'[p].at = "amend" => about = 0
      /\ op'[p].call = IF about = 0 THEN L ELSE about
      /\ op'[p].job = op[p].job /\ op'[p].authority = a
  <2> HIDE DEF about, L, a
  <2>1. PICK at, c : at = (IF about = 0 THEN "amend" ELSE "mark") /\ c = IF about = 0 THEN L ELSE about
    OBVIOUS
  <2>2. op'[p] = [op[p] EXCEPT !.at = at, !.call = c]
    BY <1>1, <2>1
  <2>3. op'[p].at = at /\ op'[p].call = c /\ op'[p].job = op[p].job /\ op'[p].authority = op[p].authority
    BY <1>a, <2>2 DEF Operation
  <2> QED
    BY <2>1, <2>3 DEF a
<1>3. /\ L > 0 /\ InOrder(calls) /\ calls[L].error = "RuntimeError" /\ Valid(again, b)
      /\ op[p].job = "amend" => calls[L].state = "stopped" \/ a.amend # 0
      /\ op[p].job # "amend" => calls[L].state = "stopped"
      /\ op[p].job = "amend" /\ a.amend = 0 => \A r \in Stored(L) : r.out.cost > a.limit
  BY <1>1 DEF Amendable, CostStop, AgentStop, StoppedForResult
<1>4. L \in DOMAIN calls /\ L \in Cells /\ DOMAIN calls \subseteq Cells
  <2>1. L \in 0..N /\ DOMAIN calls \subseteq Cells
    BY KnownType DEF LastCall, CampaignInv
  <2> QED
    BY <1>3, <2>1 DEF InOrder, LastCall
<1>5. /\ DOMAIN again = DOMAIN calls
      /\ \A d \in DOMAIN calls : d # L => again[d] = calls[d]
      /\ again[L].evidence = calls[L].evidence /\ again[L].cost = calls[L].cost
      /\ op[p].job = "amend" => again[L].by = "amend"
  <2>1. calls[L] = Call(op[p].seen, L)
    BY <1>4 DEF Known, Calls
  <2>2. PICK by : by = IF op[p].job = "amend" THEN "amend" ELSE "cont"
    OBVIOUS
  <2>3. \A e : LET f == [Call(op[p].seen, L) EXCEPT !.state = "completed", !.by = e] IN
          /\ f.evidence = Call(op[p].seen, L).evidence /\ f.cost = Call(op[p].seen, L).cost /\ f.by = e
    BY DEF Call
  <2>4. again = [calls EXCEPT ![L].state = "completed", ![L].by = by]
    BY <2>2 DEF Resumed
  <2> HIDE DEF calls, L, again
  <2>5. again[L] = [Call(op[p].seen, L) EXCEPT !.state = "completed", !.by = by]
    BY <1>4, <2>1, <2>4
  <2>6. DOMAIN again = DOMAIN calls /\ \A d \in DOMAIN calls : d # L => again[d] = calls[d]
    BY <2>4
  <2> QED
    BY <2>1, <2>2, <2>3, <2>5, <2>6
<1>6. /\ \A d \in DOMAIN calls : d # L => calls[d].state = "completed"
      /\ \E r \in Stored(L) : /\ Stored(L) = {r} /\ Matches(again[L], r)
                              /\ IF b.cont = L THEN r.out.kind = "retainable" /\ again[L].by = "cont"
                                 ELSE PaidValid(r.out, b.limit, 0)
  <2> HIDE DEF calls, L, again, b
  <2> QED
    BY <1>3, <1>4, <1>5 DEF Valid
<1>7. PICK r \in results : /\ Stored(L) = {r} /\ Matches(again[L], r)
                           /\ IF b.cont = L THEN r.out.kind = "retainable" /\ again[L].by = "cont"
                              ELSE r.out.kind = "scoreable"
  BY <1>6 DEF PaidValid, Stored
<1>8. op'[p].call = L /\ calls[L].state # "completed"
  <2>1. CASE about = 0
    <3>1. op[p].job = "amend" => a.amend = 0
      BY <2>1 DEF About
    <3>2. calls[L].state = "stopped"
      BY <1>3, <3>1
    <3> QED
      BY <1>2, <2>1, <3>2
  <2>2. CASE about # 0
    <3>1. about \in DOMAIN calls /\ calls[about].state # "completed"
      BY <1>1, <2>2
    <3>2. about = L
      BY <1>6, <3>1
    <3> QED
      BY <1>2, <2>2, <3>1, <3>2
  <2> QED
    BY <2>1, <2>2
<1>9. PICK i \in At(op[p].seen, "completion", L) :
        op[p].seen[i].state = "stopped" /\ op[p].seen[i].evidence /\ op[p].seen[i].cost = r.out.cost
  <2>1. calls[L] = Call(op[p].seen, L)
    BY <1>4 DEF Known, Calls
  <2>2. again[L].evidence /\ again[L].cost = r.out.cost
    BY <1>7 DEF Matches
  <2>3. Call(op[p].seen, L).evidence /\ Call(op[p].seen, L).cost = r.out.cost
    BY <1>5, <2>1, <2>2
  <2> HIDE DEF calls, L
  <2>4. Call(op[p].seen, L).error = "RuntimeError" /\ Call(op[p].seen, L).state # "completed"
    BY <1>3, <1>8, <2>1
  <2> QED
    BY <1>a, <2>3, <2>4, StoppedCall
<1>10. Folds(op[p].seen)
  BY DEF SeenFolds
<1>11. Earliest(L, i) /\ i \in DOMAIN events /\ events[i] = op[p].seen[i]
  <2> HIDE DEF L
  <2> QED
    BY <1>10, SeenIsEarliest
<1>12. op[p].job # "amend" => r.out.kind = "retainable"
  <2>1. op[p].job # "amend" => b.cont = L
    BY <1>a DEF Operation, Authority
  <2> QED
    BY <1>7, <2>1
<1>13. i <= Len(events)
  BY <1>a, <1>11
<1>14. Settled(L, op[p].job, Len(events))
  <2> HIDE DEF L
  <2> QED
    BY <1>7, <1>9, <1>11, <1>12, <1>13 DEF Settled
<1>15. ASSUME op'[p].at = "amend", op[p].job = "amend"
       PROVE  a.amend = 0 /\ Overspent(L)
  <2>1. a.amend = 0
    BY <1>2, <1>15 DEF About
  <2>2. a.limit = Limit
    <3>1. Explained(a) /\ a.limit # 0
      BY <1>1 DEF ExplainedInv, Loaded, LimitInv, Limited
    <3>2. a.limit # NewLimit
      BY <2>1, <3>1 DEF Explained
    <3> QED
      BY <3>1, <3>2, Limits DEF CampaignInv
  <2>3. r.out.cost > Limit
    BY <1>3, <1>7, <1>15, <2>1, <2>2
  <2>4. r.out.kind = "scoreable"
    BY <1>5, <1>7, <1>15
  <2> HIDE DEF L
  <2> QED
    BY <1>7, <2>1, <2>3, <2>4 DEF Overspent
<1> HIDE DEF L, a
<1> QED
  BY <1>2, <1>4, <1>8, <1>14, <1>15 DEF a

\* The stop that is about to be answered stays settled.
LEMMA MarkedKeeps ==
  ASSUME CampaignInv, TypeOK', LimitInv, SingleResults, SeenFolds, ExplainedInv,
         \A q \in Operators : Marked(q), NEW p \in Operators, Act(p)
  PROVE  \A q \in Operators : Marked(q)'
<1>a. \A q \in Operators \ {p} : op'[q] = op[q]
  BY Additions
<1>b. /\ \A c : Overspent(c) => Overspent(c)'
      /\ \A c, by, k : Settled(c, by, k) => Settled(c, by, k)'
  BY Lasting
<1>c. /\ events \in Seq(Event) /\ events' \in Seq(Event) /\ Len(events) <= Len(events')
  BY Additions
<1>d. op[p] \in Operation /\ op[p].then \in {"open", "judge", "validate", "done", "pay", "mark"}
  BY DEF CampaignInv, TypeOK, Operation
<1>1. \A c, by : Settled(c, by, Len(events)) => Settled(c, by, Len(events))'
  <2> SUFFICES ASSUME NEW c, NEW by, Settled(c, by, Len(events)) PROVE Settled(c, by, Len(events))'
    OBVIOUS
  <2>1. PICK k : k = Len(events)
    OBVIOUS
  <2>2. Settled(c, by, k)'
    BY <1>b, <2>1
  <2>3. \A i \in DOMAIN events' : i <= k => i <= Len(events')
    BY <1>c, <2>1
  <2> QED
    BY <2>2, <2>3 DEF Settled
<1>2. ASSUME Marking(p)', ~(Judge(p) /\ op'[p].at \in {"amend", "mark"})
      PROVE  Marking(p) /\ op'[p].call = op[p].call /\ op'[p].job = op[p].job /\ op'[p].at # "amend"
  <2>a. op'[p].at \in {"amend", "mark"} \/ (op'[p].at \in {"sync", "load", "rebuild"} /\ op'[p].then = "mark")
    BY <1>2 DEF Marking
  <2>1. op'[p] # Idle /\ ~Starts(p)
    <3>1. Idle.at = "idle"
      BY DEF Idle
    <3>2. op'[p] # Idle
      BY <2>a, <3>1
    <3> QED
      BY <2>a, <3>2 DEF Starts
  <2>2. CASE Loads(p)
    <3>1. /\ op[p].at = "load" /\ op'[p].call = op[p].call /\ op'[p].job = op[p].job /\ op'[p].then = op[p].then
          /\ op'[p].at \in {"rebuild", op[p].then}
      BY <2>2 DEF Loads
    <3>2. op[p].then = "mark" /\ op'[p].at # "amend"
      BY <1>d, <2>a, <3>1
    <3> QED
      BY <3>1, <3>2 DEF Marking
  <2>3. CASE GoesOn(p)
    <3>1. Where(p) /\ op'[p].job = op[p].job /\ (op'[p].call = op[p].call \/ Reserve(p) \/ Judge(p))
      BY <2>3 DEF GoesOn
    <3>2. \/ op[p].at = "rebuild" /\ op'[p].at = op[p].then /\ op[p].then = "mark"
          \/ op[p].at = "sync" /\ op'[p].at = "load" /\ op[p].then = "mark"
          \/ op[p].at = "amend" /\ op'[p].at = "load"
      BY <1>d, <1>2, <2>a, <3>1 DEF Where
    <3>3. ~Reserve(p) /\ ~Judge(p)
      BY <3>2 DEF Reserve, Judge
    <3> QED
      BY <3>1, <3>2, <3>3 DEF Marking
  <2> QED
    BY <2>1, <2>2, <2>3, StepTurns DEF Turns
<1>3. ASSUME NEW q \in Operators, NEW c, NEW by, Marking(q)', c = op'[q].call, by = op'[q].job
      PROVE  c \in Cells /\ Settled(c, by, Len(events))'
  <2>1. CASE q # p
    <3>1. Marking(q) /\ c = op[q].call /\ by = op[q].job
      BY <1>3, <1>a, <2>1 DEF Marking
    <3>2. op[q].call \in Cells /\ Settled(op[q].call, op[q].job, Len(events))
      BY <3>1 DEF Marked
    <3>3. c \in Cells /\ Settled(c, by, Len(events))
      BY <3>1, <3>2
    <3> QED
      BY <1>1, <3>3
  <2>2. CASE q = p /\ ~(Judge(p) /\ op'[p].at \in {"amend", "mark"})
    <3>a. Marking(p) /\ op'[p].call = op[p].call /\ op'[p].job = op[p].job
      BY <1>2, <1>3, <2>2
    <3>1. op[p].call \in Cells /\ Settled(op[p].call, op[p].job, Len(events))
      BY <3>a DEF Marked
    <3>2. c \in Cells /\ Settled(c, by, Len(events))
      BY <1>3, <2>2, <3>a, <3>1
    <3> QED
      BY <1>1, <3>2
  <2>3. CASE q = p /\ Judge(p) /\ op'[p].at \in {"amend", "mark"}
    <3>1. c \in Cells /\ Settled(c, by, Len(events))
      <4>1. /\ op'[p].call \in Cells
            /\ \A d : d = op'[p].call => Settled(d, op[p].job, Len(events))
            /\ op'[p].job = op[p].job
        BY <2>3, JudgeSees
      <4> QED
        BY <1>3, <2>3, <4>1
    <3> QED
      BY <1>1, <3>1
  <2> QED
    BY <2>1, <2>2, <2>3
<1>4. ASSUME NEW q \in Operators, NEW c, op'[q].at = "amend", op'[q].job = "amend", c = op'[q].call
      PROVE  Overspent(c)' /\ op'[q].authority.amend = 0
  <2>1. CASE q # p
    <3>1. op'[q] = op[q]
      BY <1>a, <2>1
    <3>2. Overspent(op[q].call) /\ op[q].authority.amend = 0
      BY <1>4, <3>1 DEF Marked
    <3>3. Overspent(c)
      BY <1>4, <3>1, <3>2
    <3> QED
      BY <1>b, <3>1, <3>2, <3>3
  <2>2. CASE q = p
    <3>1. Judge(p) /\ op'[p].at = "amend"
      BY <1>2, <1>4, <2>2 DEF Marking
    <3>2. op'[p].job = op[p].job /\ op'[p].authority = op[p].authority
      BY <3>1, JudgeSees
    <3>3. op[p].authority.amend = 0 /\ \A d : d = op'[p].call => Overspent(d)
      BY <1>4, <2>2, <3>1, <3>2, JudgeSees
    <3>4. Overspent(c)
      BY <1>4, <2>2, <3>3
    <3> QED
      BY <1>b, <2>2, <3>2, <3>3, <3>4
  <2> QED
    BY <2>1, <2>2
<1>5. \A q \in Operators : \A c, by : Marking(q)' /\ c = op'[q].call /\ by = op'[q].job =>
        c \in Cells /\ Settled(c, by, Len(events))'
  BY <1>3
<1>6. \A q \in Operators : \A c : op'[q].at = "amend" /\ op'[q].job = "amend" /\ c = op'[q].call =>
        Overspent(c)' /\ op'[q].authority.amend = 0
  BY <1>4
<1> SUFFICES ASSUME NEW q \in Operators PROVE Marked(q)'
  OBVIOUS
<1>7. Marking(q)' => (op[q].call \in Cells /\ Settled(op[q].call, op[q].job, Len(events)))'
  BY <1>5 DEF Settled, Earliest, Stored
<1>8. op'[q].at = "amend" /\ op'[q].job = "amend" => (Overspent(op[q].call) /\ op[q].authority.amend = 0)'
  BY <1>6 DEF Overspent, Stored
<1> QED
  BY <1>7, <1>8 DEF Marked

--------------------------------------------------------------------------------
(* The amendment that is in force, and the call it is about.               *)

\* A reauthorized call was stopped first.
LEMMA ReauthorizedStops ==
  ASSUME ReauthorizedInv, NEW c, NEW j \in At(events, "reauthorization", c)
  PROVE  StopsFirst(c) /\ Settled(c, events[j].by, j - 1)
<1>1. j \in DOMAIN events /\ events[j].type = "reauthorization" /\ events[j].call = c
  BY DEF At
<1>2. Settled(c, events[j].by, j - 1)
  BY <1>1 DEF ReauthorizedInv
<1> QED
  BY <1>2 DEF Settled, StopsFirst

\* After a stop was lost, nobody gets past its call, unless it stopped again.
LEMMA LostStays ==
  ASSUME CampaignInv, TypeOK', ReauthorizedInv, NEW p \in Operators, Act(p), Marked(p),
         NEW c \in Cells, Lost(c)
  PROVE  Lost(c)' \/ StopsFirst(c)
<1>a. \A q \in Operators \ {p} : op'[q] = op[q]
  BY Additions
<1>b. op[p] \in Operation /\ op[p].authority \in Authority /\ c \in Nat /\ c # 0
  <2>1. op[p] \in Operation
    BY DEF CampaignInv, TypeOK
  <2>2. op[p].authority \in Authority
    BY <2>1 DEF Operation
  <2>3. c \in Nat /\ c # 0
    BY CampaignConstants DEF Cells
  <2> QED
    BY <2>1, <2>2, <2>3
<1>c. /\ snapshot.amend = c
      /\ \A q \in Operators : op[q].at # "create" /\ (Loaded(q) => op[q].authority.amend = c)
      /\ \A d \in Cells : d > c => paid[d] = <<>>
      /\ \A q \in Operators : Reserving(q) \/ op[q].at = "pay" => op[q].call <= c
  BY DEF Lost
<1>1. snapshot'.amend = c
  <2>1. CASE Initialize(p)
    BY <2>1, <1>c DEF Initialize
  <2>2. CASE Rebuild(p)
    BY <2>2, <1>c DEF Rebuild, Loaded
  <2>3. CASE Amend(p)
    <3>1. op[p].at = "amend" /\ op[p].authority.amend = c
      BY <2>3, <1>c DEF Amend, Loaded
    <3>2. op[p].job # "amend"
      BY <3>1, <1>b DEF Marked
    <3>3. snapshot' = [op[p].authority EXCEPT !.cont = op[p].call]
      BY <2>3, <3>2 DEF Amend
    <3> QED
      BY <1>b, <3>1, <3>3 DEF Authority
  <2>4. CASE ~(Initialize(p) \/ Rebuild(p) \/ Amend(p))
    <3>1. snapshot' = snapshot
      BY <2>4 DEF Act, Step, Load, SyncEvent, Open, Reconcile, Reserve, Run, Store,
         Finish, Confirmed, Judge, Mark, Interrupt, Kill, Begin, Record, files
    <3> QED
      BY <3>1, <1>c
  <2> QED
    BY <2>1, <2>2, <2>3, <2>4
<1>2. op'[p].at # "create" /\ (Loaded(p)' => op'[p].authority.amend = c)
  <2>1. CASE op'[p] = Idle
    BY <2>1 DEF Idle, Loaded
  <2>2. CASE Starts(p)
    BY <2>2, <1>b, <1>c DEF Starts, Loaded, NoLedger
  <2>3. CASE Loads(p)
    <3>1. op[p].then # "create"
      BY <1>b DEF Operation
    <3> QED
      BY <2>3, <3>1, <1>c DEF Loads
  <2>4. CASE GoesOn(p)
    <3>1. op[p].then # "create"
      BY <1>b DEF Operation
    <3>2. op'[p].at # "create"
      BY <2>4, <3>1 DEF GoesOn, Where
    <3> QED
      BY <2>4, <3>2, <1>c DEF GoesOn
  <2> QED
    BY <2>1, <2>2, <2>3, <2>4, StepTurns DEF Turns
<1>3. \A d \in Cells : d > c => paid'[d] = <<>>
  <2>1. CASE paid' = paid
    BY <1>c, <2>1
  <2>2. CASE Run(p)
    <3>1. op[p].at = "pay" /\ op[p].call \in Cells /\ \A d \in Cells : d # op[p].call => paid'[d] = paid[d]
      BY <2>2, PaidStays
    <3>2. op[p].call <= c
      BY <1>c, <3>1
    <3>3. \A d \in Cells : d > c => d # op[p].call
      BY <3>1, <3>2, <1>b DEF Cells
    <3> QED
      BY <1>c, <3>1, <3>3
  <2> QED
    BY <2>1, <2>2, PaidStays
<1>4. StopsFirst(c) \/ (Reserving(p)' \/ op'[p].at = "pay" => op'[p].call <= c)
  <2>1. CASE Reserve(p) /\ (Reserving(p)' \/ op'[p].at = "pay")
    <3>1. op'[p] # Idle
      BY <2>1 DEF Idle, Reserving
    <3>2. Valid(Known(p), op[p].authority) /\ op[p].at \in {"validate", "state"}
      <4>1. ~Leave(p)
        BY <3>1, LeaveKeeps DEF CampaignInv
      <4> QED
        BY <2>1, <4>1 DEF Reserve
    <3>3. op[p].authority.amend = c
      BY <1>c, <3>2 DEF Loaded
    <3>4. c \in DOMAIN Known(p) /\ Known(p)[c].by = "amend"
      BY <1>b, <3>2, <3>3 DEF Valid
    <3>5. Call(op[p].seen, c).by = "amend"
      BY <3>4 DEF Known, Calls
    <3>6. PICK j : j \in At(op[p].seen, "reauthorization", c)
      BY <3>5 DEF Call
    <3>7. j \in At(events, "reauthorization", c)
      <4>1. op[p].seen \in Seq(Event) /\ events \in Seq(Event) /\ Prefix(p)
        BY <1>b DEF CampaignInv, SeenIsPrefix, TypeOK, Operation
      <4>2. j \in 1..Len(op[p].seen) /\ op[p].seen[j] = events[j] /\ j \in DOMAIN events
        BY <3>6, <4>1 DEF At, Prefix
      <4> QED
        BY <3>6, <4>2 DEF At
    <3> QED
      BY <3>7, ReauthorizedStops
  <2>2. CASE ~(Reserve(p) /\ (Reserving(p)' \/ op'[p].at = "pay"))
    BY <1>c, <2>2, WaysToPay
  <2> QED
    BY <2>1, <2>2
<1> SUFFICES ASSUME ~StopsFirst(c) PROVE Lost(c)'
  OBVIOUS
<1>5. \A q \in Operators : op'[q].at # "create" /\ (Loaded(q)' => op'[q].authority.amend = c)
  BY <1>a, <1>c, <1>2 DEF Loaded
<1>6. \A q \in Operators : Reserving(q)' \/ op'[q].at = "pay" => op'[q].call <= c
  BY <1>a, <1>c, <1>4 DEF Reserving
<1> QED
  BY <1>1, <1>3, <1>5, <1>6 DEF Lost

\* What explains an authority goes on explaining it.
LEMMA ExplainedStays ==
  ASSUME CampaignInv, TypeOK', SingleResults, ReauthorizedInv, NEW p \in Operators, Act(p), Marked(p),
         NEW a \in Authority, Explained(a)
  PROVE  Explained(a)'
<1>1. CASE a.amend = 0
  BY <1>1 DEF Explained
<1>2. CASE a.amend # 0
  <2>1. PICK c \in Cells : c = a.amend
    BY <1>2, CampaignConstants DEF Authority, Cells
  <2>2. Overspent(c) /\ (StopsFirst(c) \/ Lost(c)) /\ (a.limit = NewLimit <=> a.amend # 0)
    BY <1>2, <2>1 DEF Explained
  <2>3. Overspent(c)' /\ (StopsFirst(c) => StopsFirst(c)')
    BY <2>2, Lasting
  <2>4. Lost(c) => Lost(c)' \/ StopsFirst(c)
    BY LostStays
  <2> QED
    BY <2>1, <2>2, <2>3, <2>4 DEF Explained
<1> QED
  BY <1>1, <1>2

\* Nobody writes or holds an authority that nothing explains.
LEMMA ExplainedKeeps ==
  ASSUME CampaignInv, TypeOK', SingleResults, ReauthorizedInv, ExplainedInv,
         NEW p \in Operators, Act(p), Marked(p)
  PROVE  ExplainedInv'
<1>a. /\ op[p] \in Operation /\ op[p].authority \in Authority /\ snapshot' \in Authority /\ snapshot \in Authority
      /\ \A q \in Operators : op'[q].authority \in Authority
  <2>1. op[p] \in Operation /\ snapshot \in Authority
    BY DEF CampaignInv, TypeOK
  <2>2. snapshot' \in Authority /\ \A q \in Operators : op'[q] \in Operation
    BY DEF TypeOK
  <2> QED
    BY <2>1, <2>2 DEF Operation
<1>b. Limit # NewLimit
  BY Limits DEF CampaignInv
<1>1. ASSUME NEW a, a = snapshot' PROVE Explained(a)
  <2>1. CASE Initialize(p)
    BY <1>1, <1>b, <2>1 DEF Initialize, Fresh, Explained
  <2>2. CASE Rebuild(p)
    <3>1. op[p].at = "rebuild" /\ a = op[p].authority
      BY <1>1, <2>2 DEF Rebuild
    <3>2. Explained(op[p].authority)
      BY <3>1 DEF ExplainedInv, Loaded
    <3> QED
      BY <3>1, <3>2
  <2>3. CASE Amend(p)
    <3>1. op[p].at = "amend" /\ Explained(op[p].authority)
      BY <2>3 DEF Amend, ExplainedInv, Loaded
    <3>2. CASE op[p].job = "amend"
      <4>1. a = [op[p].authority EXCEPT !.limit = NewLimit, !.amend = op[p].call]
        BY <1>1, <2>3, <3>2 DEF Amend
      <4>2. a.limit = NewLimit /\ a.amend = op[p].call
        BY <1>a, <4>1 DEF Authority
      <4>3. op[p].call \in Cells /\ Settled(op[p].call, op[p].job, Len(events)) /\ Overspent(op[p].call)
        BY <3>1, <3>2 DEF Marked, Marking
      <4>4. StopsFirst(op[p].call) /\ op[p].call # 0
        BY <4>3, CampaignConstants DEF Settled, StopsFirst, Cells
      <4> QED
        BY <4>2, <4>3, <4>4 DEF Explained
    <3>3. CASE op[p].job # "amend"
      <4>1. a = [op[p].authority EXCEPT !.cont = op[p].call]
        BY <1>1, <2>3, <3>3 DEF Amend
      <4>2. a.limit = op[p].authority.limit /\ a.amend = op[p].authority.amend
        BY <1>a, <4>1 DEF Authority
      <4> QED
        BY <3>1, <4>2 DEF Explained
    <3> QED
      BY <3>2, <3>3
  <2>4. CASE ~(Initialize(p) \/ Rebuild(p) \/ Amend(p))
    <3>1. snapshot' = snapshot
      BY <2>4 DEF Act, Step, Load, SyncEvent, Open, Reconcile, Reserve, Run, Store,
         Finish, Confirmed, Judge, Mark, Interrupt, Kill, Begin, Record, files
    <3> QED
      BY <1>1, <3>1 DEF ExplainedInv
  <2> QED
    BY <2>1, <2>2, <2>3, <2>4
<1>2. ASSUME NEW q \in Operators, NEW a, Loaded(q)', a = op'[q].authority PROVE Explained(a)
  <2>1. CASE q # p
    <3>1. op'[q] = op[q]
      BY <2>1, Additions
    <3>2. Loaded(q) /\ a = op[q].authority
      BY <1>2, <3>1 DEF Loaded
    <3> QED
      BY <3>2 DEF ExplainedInv
  <2>2. CASE q = p
    <3>1. op'[p] # Idle /\ ~Starts(p)
      <4>1. Idle.at = "idle"
        BY DEF Idle
      <4> QED
        BY <1>2, <2>2, <4>1 DEF Loaded, Starts
    <3>2. CASE Loads(p)
      BY <1>2, <2>2, <3>2 DEF Loads, ExplainedInv
    <3>3. CASE GoesOn(p)
      BY <1>2, <2>2, <3>3 DEF GoesOn, ExplainedInv
    <3> QED
      BY <3>1, <3>2, <3>3, StepTurns DEF Turns
  <2> QED
    BY <2>1, <2>2
<1>3. \A a : a = snapshot' => Explained(a)'
  BY <1>1, <1>a, ExplainedStays
<1>4. \A q \in Operators : \A a : Loaded(q)' /\ a = op'[q].authority => Explained(a)'
  BY <1>2, <1>a, ExplainedStays
<1>5. Explained(snapshot)'
  BY <1>3 DEF Explained, Overspent, StopsFirst, Earliest, Lost, Stored, Loaded, Reserving
<1>6. \A q \in Operators : Loaded(q)' => Explained(op[q].authority)'
  BY <1>4 DEF Explained, Overspent, StopsFirst, Earliest, Lost, Stored, Loaded, Reserving
<1> QED
  BY <1>5, <1>6 DEF ExplainedInv

--------------------------------------------------------------------------------
(* The higher limit is used after the amendment of an earlier call.        *)

\* An earlier call that cost too much was accepted by a cost amendment.
LEMMA WhyAmended ==
  ASSUME CampaignInv, ReauthorizedInv, Folds(events), NEW a \in Cells, NEW c \in Cells, a < c,
         OnDisk(c), Overspent(a), StopsFirst(a)
  PROVE  AmendedBefore(c, Len(events))
<1>1. a \in 1..(c - 1) /\ synced \in Nat /\ synced <= Len(events) /\ events \in Seq(Event)
  BY DEF Cells, CampaignInv, TypeOK
<1>2. Accepted(events, a, synced)
  BY <1>1 DEF OnDisk
<1>3. PICK j \in At(events, "reauthorization", a) : j <= synced
  BY <1>1, <1>2, AcceptedAgain
<1>4. Settled(a, events[j].by, j - 1)
  BY ReauthorizedStops
<1>5. events[j].by = "amend"
  <2>1. PICK r \in results : Stored(a) = {r} /\ (events[j].by # "amend" => r.out.kind = "retainable")
    BY <1>4 DEF Settled
  <2>2. PICK s \in results : Stored(a) = {s} /\ s.out.kind = "scoreable"
    BY DEF Overspent
  <2>3. r = s
    BY <2>1, <2>2
  <2> QED
    BY <2>1, <2>2, <2>3
<1>6. j \in DOMAIN events /\ events[j].type = "reauthorization" /\ events[j].call = a
  BY DEF At
<1>7. j <= Len(events)
  BY <1>1, <1>6
<1> QED
  BY <1>5, <1>6, <1>7 DEF AmendedBefore

\* A reservation under the higher limit comes after the event of its amendment.
LEMMA ReservePaysUnder ==
  ASSUME CampaignInv, ExplainedInv, NEW p \in Operators, Reserve(p),
         Valid(Known(p), op[p].authority), op[p].authority.limit = NewLimit, Next1(p) \in Cells
  PROVE  AmendedBefore(Next1(p), Len(events))
<1> DEFINE seen == op[p].seen
<1>1. PICK a : a = op[p].authority.amend
  OBVIOUS
<1>2. Loaded(p)
  BY DEF Reserve, Loaded
<1>3. a # 0
  BY <1>1, <1>2 DEF ExplainedInv, Explained
<1>4. a \in DOMAIN Known(p) /\ Known(p)[a].by = "amend"
  BY <1>1, <1>3 DEF Valid
<1>5. a < Next1(p)
  BY <1>4, KnownType, CampaignConstants DEF CampaignInv, Valid, InOrder, Next1
<1>6. Call(seen, a).by = "amend"
  BY <1>4 DEF Known, Calls
<1>7. PICK j \in At(seen, "reauthorization", a) : seen[j].by = "amend"
  BY <1>6 DEF Call
<1>8. j \in DOMAIN seen /\ seen[j].type = "reauthorization" /\ seen[j].call = a
  BY <1>7 DEF At
<1>9. j \in DOMAIN events /\ events[j] = seen[j] /\ j <= Len(events)
  BY <1>8, SeenBegins DEF CampaignInv
<1> QED
  BY <1>5, <1>7, <1>8, <1>9 DEF AmendedBefore

\* Payments under the higher limit come after an amendment.
LEMMA PaysUnderKeeps ==
  ASSUME CampaignInv, TypeOK', SingleResults, ExplainedInv,
         \A q \in Operators : PaysUnder(q), NEW p \in Operators, Act(p)
  PROVE  \A q \in Operators : PaysUnder(q)'
<1>a. \A q \in Operators \ {p} : op'[q] = op[q]
  BY Additions
<1>b. /\ events \in Seq(Event) /\ events' \in Seq(Event) /\ Len(events) <= Len(events')
  BY Additions
<1>1. \A c : AmendedBefore(c, Len(events)) => AmendedBefore(c, Len(events))'
  <2> SUFFICES ASSUME NEW c, AmendedBefore(c, Len(events)) PROVE AmendedBefore(c, Len(events))'
    OBVIOUS
  <2>1. PICK k : k = Len(events)
    OBVIOUS
  <2>2. AmendedBefore(c, k)'
    BY <2>1, Lasting
  <2>3. \A i \in DOMAIN events' : i <= k => i <= Len(events')
    BY <1>b, <2>1
  <2> QED
    BY <2>2, <2>3 DEF AmendedBefore
<1> DEFINE Pays(q) == Reserving(q) \/ Paying(q)
<1>2. ASSUME NEW q \in Operators, NEW c, Pays(q)', op'[q].under = NewLimit, c = op'[q].call
      PROVE  AmendedBefore(c, Len(events))
  <2>1. CASE q # p
    <3>1. op'[q] = op[q]
      BY <1>a, <2>1
    <3>2. AmendedBefore(op[q].call, Len(events))
      BY <1>2, <3>1 DEF PaysUnder, Paying, Reserving
    <3> QED
      BY <1>2, <3>1, <3>2
  <2>2. CASE q = p /\ Reserve(p)
    <3>1. CASE op[p].job = "run" /\ Valid(Known(p), op[p].authority) /\ Allowed(Known(p), op[p].authority)
      <4>1. Record(p, Claim(p), Reservation(Next1(p)), "pay")
        BY <2>2, <3>1 DEF Reserve
      <4>2. op'[p].call = Next1(p) /\ op'[p].under = op[p].authority.limit
        BY <4>1 DEF Record, Claim, Put, CampaignInv, TypeOK, Operation
      <4>3. Next1(p) \in Cells
        BY <3>1, KnownType, CampaignConstants DEF CampaignInv, Next1, Allowed, Cells
      <4> QED
        BY <1>2, <2>2, <3>1, <4>2, <4>3, ReservePaysUnder
    <3>2. CASE ~(op[p].job = "run" /\ Valid(Known(p), op[p].authority) /\ Allowed(Known(p), op[p].authority))
      <4>1. op'[p] = Idle
        BY <2>2, <3>2, LeaveKeeps DEF Reserve, CampaignInv
      <4> QED
        BY <1>2, <2>2, <4>1 DEF Idle, Reserving, Paying
    <3> QED
      BY <3>1, <3>2
  <2>3. CASE q = p /\ ~Reserve(p)
    <3>1. Pays(p) /\ op'[p].call = op[p].call /\ op'[p].under = op[p].under
      BY <1>2, <2>3, UnderStays
    <3>2. AmendedBefore(op[p].call, Len(events))
      BY <1>2, <2>3, <3>1 DEF PaysUnder
    <3> QED
      BY <1>2, <2>3, <3>1, <3>2
  <2> QED
    BY <2>1, <2>2, <2>3
<1>3. \A q \in Operators : \A c : Pays(q)' /\ op'[q].under = NewLimit /\ c = op'[q].call =>
        AmendedBefore(c, Len(events))'
  BY <1>1, <1>2
<1> QED
  BY <1>3 DEF PaysUnder, AmendedBefore

--------------------------------------------------------------------------------
(* What is accepted was authorized.                                        *)

\* A cost under a limit in force fits its budget.
LEMMA WithinLimit ==
  ASSUME CampaignInv, NEW limit \in {0, Limit, NewLimit}, NEW r \in results,
         r.out.kind = "scoreable", r.out.cost <= limit
  PROVE  \/ PaidValid(r.out, Limit, 0)
         \/ limit = NewLimit /\ PaidValid(r.out, NewLimit, 0)
<1>1. r.out.cost \in Nat
  BY CampaignConstants DEF CampaignInv, TypeOK, Nothing
<1>2. Limit <= Budget /\ NewLimit <= Budget /\ Limit \in Nat /\ NewLimit \in Nat /\ Budget \in Nat
  BY CampaignConstants
<1> QED
  BY <1>1, <1>2 DEF PaidValid

\* What a completed event of a returned run rests on.
LEMMA ReturnedAllowed ==
  ASSUME CampaignInv, SingleResults, NEW p \in Operators, PaysUnder(p), NEW e, Returned(p, e)
  PROVE  \E r \in results : Stored(e.call) = {r} /\ e.cost = r.out.cost /\ Allows(e.call, r.out, Len(events))
<1>1. op[p].at = "check" /\ e.call = op[p].call /\ e.cost = op[p].out.cost
  BY DEF Returned, Completion
<1>2. PICK r \in results : Stored(op[p].call) = {r} /\ r.out = op[p].out
  BY <1>1 DEF SingleResults
<1>3. r.out.kind = "scoreable" /\ r.out.cost <= op[p].under
  BY <1>2 DEF Returned
<1>4. op[p].under = NewLimit => AmendedBefore(op[p].call, Len(events))
  BY <1>1 DEF PaysUnder, Paying
<1>5. op[p].under \in {0, Limit, NewLimit}
  BY DEF CampaignInv, TypeOK, Operation
<1>6. Allows(op[p].call, r.out, Len(events))
  BY <1>3, <1>4, <1>5, WithinLimit DEF Allows
<1> QED
  BY <1>1, <1>2, <1>6

\* What a completed event of a reconciled run rests on.
LEMMA ReconciledAllowed ==
  ASSUME CampaignInv, RecordInv, ReauthorizedInv, ExplainedInv, NEW p \in Operators, NEW e, Reconciled(p, e),
         Folds(events), At(events, "completion", e.call) = {}
  PROVE  /\ e.call \in Cells
         /\ \E r \in results : Stored(e.call) = {r} /\ e.cost = r.out.cost /\ Allows(e.call, r.out, Len(events))
<1>1. PICK c : c = LastCall(Known(p))
  OBVIOUS
<1>2. c \in Cells
  <2>1. c \in Started(Known(p))
    BY <1>1 DEF Reconciled
  <2>2. c \in DOMAIN Known(p)
    BY <2>1 DEF Started
  <2> QED
    BY <2>2, KnownType DEF CampaignInv
<1>3. PICK r \in results :
        /\ Stored(c) = {r} /\ e = Completion(c, "completed", r.out.cost, "", TRUE)
        /\ r.out.kind = "scoreable" /\ r.out.cost <= op[p].authority.limit
  BY <1>1 DEF Reconciled
<1>4. e.call = c /\ e.cost = r.out.cost
  BY <1>3 DEF Completion
<1>5. r.cell = c /\ paid[c] # <<>> /\ OnDisk(c)
  <2>1. r.cell = c
    BY <1>3 DEF Stored
  <2> QED
    BY <1>2, <2>1 DEF RecordInv, ResultsPaid, CampaignInv, PaidInv
<1>6. ASSUME op[p].authority.limit = NewLimit
      PROVE  AmendedBefore(c, Len(events)) \/ Lost(c)
  <2>1. Explained(op[p].authority)
    BY DEF Reconciled, ExplainedInv, Loaded
  <2>2. op[p].authority.amend \in 0..N
    BY DEF CampaignInv, TypeOK, Operation, Authority
  <2>3. PICK a \in Cells : Overspent(a) /\ (StopsFirst(a) \/ Lost(a))
    BY <1>6, <2>1, <2>2, CampaignConstants DEF Explained, Cells
  <2>4. paid[a] # <<>>
    <3>1. PICK s \in results : Stored(a) = {s}
      BY <2>3 DEF Overspent
    <3>2. s.cell = a
      BY <3>1 DEF Stored
    <3> QED
      BY <3>2 DEF RecordInv, ResultsPaid
  <2>5. CASE a < c
    <3>1. StopsFirst(a)
      BY <1>2, <1>5, <2>3, <2>5 DEF Lost, Cells
    <3> QED
      BY <1>2, <1>5, <2>3, <2>5, <3>1, WhyAmended
  <2>6. CASE a = c
    <3>1. ~StopsFirst(c)
      BY <1>4 DEF StopsFirst, Earliest
    <3> QED
      BY <2>3, <2>6, <3>1
  <2>7. CASE a > c
    <3>1. OnDisk(a) /\ c \in 1..(a - 1)
      BY <1>2, <2>4, <2>7 DEF CampaignInv, PaidInv, Cells
    <3>2. Accepted(events, c, synced)
      BY <3>1 DEF OnDisk
    <3>3. At(events, "reauthorization", c) # {}
      BY <1>4, <3>2 DEF Accepted
    <3>4. events \in Seq(Event)
      BY DEF CampaignInv, TypeOK
    <3> QED
      BY <1>4, <3>3, <3>4, OnceEach
  <2> QED
    BY <1>2, <2>5, <2>6, <2>7 DEF Cells
<1>7. op[p].authority.limit \in {0, Limit, NewLimit}
  BY Limits DEF CampaignInv
<1>8. Allows(c, r.out, Len(events))
  BY <1>3, <1>6, <1>7, WithinLimit DEF Allows
<1> QED
  BY <1>2, <1>3, <1>4, <1>8

\* A completed event that fits is the first one of its call.
LEMMA CompletesFirst ==
  ASSUME events \in Seq(Event), NEW i \in DOMAIN events, events[i].type = "completion",
         events[i].state = "completed", FoldsTo(i)
  PROVE  ~StopsFirst(events[i].call)
<1> SUFFICES ASSUME NEW k \in DOMAIN events, Earliest(events[i].call, k), events[k].state = "stopped"
             PROVE  FALSE
  BY DEF StopsFirst
<1>1. i \in At(events, "completion", events[i].call) /\ k \in At(events, "completion", events[i].call)
  BY DEF At, Earliest
<1>2. k <= i /\ k # i
  BY <1>1 DEF Earliest
<1>3. k \in Earlier(events, "completion", i)
  BY <1>1, <1>2 DEF Earlier
<1>4. Fits(events, i)
  BY DEF FoldsTo
<1> QED
  BY <1>3, <1>4 DEF Fits

\* What allowed a call goes on allowing it.
LEMMA AllowedStays ==
  ASSUME CampaignInv, TypeOK', SingleResults, ReauthorizedInv, NEW p \in Operators, Act(p), Marked(p),
         NEW c \in Cells, NEW out, NEW k, Allows(c, out, k), ~StopsFirst(c)
  PROVE  Allows(c, out, k)'
<1>1. AmendedBefore(c, k) => AmendedBefore(c, k)'
  BY Lasting
<1>2. Lost(c) => Lost(c)'
  BY LostStays
<1> QED
  BY <1>1, <1>2 DEF Allows, PaidValid

\* Completed events are authorized after every step.
LEMMA CompletedKeeps ==
  ASSUME CampaignInv, TypeOK', RecordInv, SingleResults, ReauthorizedInv, ExplainedInv, CompletedInv,
         NEW p \in Operators, Act(p), Marked(p), PaysUnder(p)
  PROVE  CompletedInv'
<1>a. /\ events \in Seq(Event) /\ events' \in Seq(Event) /\ Len(events) <= Len(events')
      /\ \A i \in DOMAIN events : i \in DOMAIN events' /\ events'[i] = events[i] /\ i \in 1..Len(events)
  BY Additions
<1>b. \A i \in DOMAIN events' : i \in DOMAIN events \/ (i = Len(events) + 1 /\ events' # events)
  BY Additions
<1>c. \A r \in results : \A c : Stored(c) = {r} => r \in results' /\ Stored(c)' = {r}
  BY StoredStays
<1>d. ASSUME NEW i \in DOMAIN events', FoldsTo(i)', NEW k \in 1..Len(events), k <= i
      PROVE  Fits(events, k)
  <2>1. Fits(events', k)
    BY <1>a, <1>d DEF FoldsTo
  <2>2. \A j \in 1..Len(events) : events'[j] = events[j]
    BY <1>a
  <2> QED
    BY <1>a, <2>1, <2>2, FitsAlike
<1>1. ASSUME NEW i \in DOMAIN events', NEW c, events'[i].type = "completion", events'[i].state = "completed",
             events'[i].call = c, FoldsTo(i)'
      PROVE  /\ events'[i].evidence /\ c \in Cells
             /\ \E r \in results : Stored(c) = {r} /\ events'[i].cost = r.out.cost /\ Allows(c, r.out, i - 1)
             /\ ~StopsFirst(c)
  <2>1. c \in Cells
    <3>1. events'[i] \in Event
      BY <1>a
    <3> QED
      BY <1>1, <3>1 DEF Event
  <2>2. CASE i \in DOMAIN events
    <3>1. events[i] = events'[i] /\ i \in 1..Len(events)
      BY <1>a, <2>2
    <3>2. FoldsTo(i)
      BY <1>1, <1>d, <3>1 DEF FoldsTo
    <3>3. /\ events[i].evidence
          /\ \E r \in results : /\ Stored(events[i].call) = {r} /\ events[i].cost = r.out.cost
                                /\ Allows(events[i].call, r.out, i - 1)
      BY <1>1, <2>2, <3>1, <3>2 DEF CompletedInv
    <3>4. ~StopsFirst(events[i].call)
      BY <1>1, <1>a, <2>2, <3>1, <3>2, CompletesFirst
    <3>5. events[i].call = c
      BY <1>1, <3>1
    <3> QED
      BY <2>1, <3>1, <3>3, <3>4, <3>5
  <2>3. CASE i \notin DOMAIN events
    <3>1. i = Len(events) + 1 /\ events' # events /\ i - 1 = Len(events)
      BY <1>a, <1>b, <2>3
    <3>2. PICK e : events' = Append(events, e) /\ MayAdd(p, e)
      BY <3>1, NewEvent
    <3>3. events'[i] = e
      <4>1. events \in Seq(Event)
        BY <1>a
      <4>2. Append(events, e)[Len(events) + 1] = e
        BY <4>1
      <4> QED
        BY <3>1, <3>2, <4>2
    <3>4. Returned(p, e) \/ Reconciled(p, e)
      <4>1. e.type = "completion" /\ e.state = "completed"
        BY <1>1, <3>3
      <4>2. Reauthorization(op[p].call, op[p].job).type = "reauthorization"
        BY DEF Reauthorization
      <4> QED
        BY <3>2, <4>1, <4>2 DEF MayAdd, Remarked
    <3>5. e.evidence /\ e.call = c
      <4>1. \A d, cost : Completion(d, "completed", cost, "", TRUE).evidence = TRUE
        BY DEF Completion
      <4>2. e.evidence = TRUE
        BY <3>4, <4>1 DEF Returned, Reconciled
      <4> QED
        BY <1>1, <3>3, <4>2
    <3>6. Folds(events)
      <4>1. \A k \in DOMAIN events : k \in 1..Len(events) /\ k <= i
        BY <1>a, <3>1
      <4> QED
        BY <1>1, <1>d, <4>1 DEF Folds
    <3>7. At(events, "completion", c) = {}
      <4>1. Fits(events', i)
        BY <1>1, <1>a, <3>1 DEF FoldsTo
      <4>2. Earlier(events', "completion", i) = {}
        BY <1>1, <4>1 DEF Fits
      <4>3. \A j \in At(events, "completion", c) : j \in Earlier(events', "completion", i)
        BY <1>1, <1>a, <3>1 DEF At, Earlier
      <4> QED
        BY <4>2, <4>3
    <3>8. ~StopsFirst(c)
      BY <3>7 DEF StopsFirst, Earliest
    <3>9. \E r \in results : Stored(c) = {r} /\ e.cost = r.out.cost /\ Allows(c, r.out, Len(events))
      BY <3>4, <3>5, <3>6, <3>7, ReturnedAllowed, ReconciledAllowed
    <3> QED
      BY <2>1, <3>1, <3>3, <3>5, <3>8, <3>9
  <2> QED
    BY <2>2, <2>3
<1>2. ASSUME NEW i \in DOMAIN events', NEW c, events'[i].type = "completion", events'[i].state = "completed",
             events'[i].call = c, FoldsTo(i)'
      PROVE  /\ events'[i].evidence
             /\ \E r \in results' : /\ {s \in results' : s.cell = c} = {r} /\ events'[i].cost = r.out.cost
                                    /\ Allows(c, r.out, i - 1)'
  <2>1. PICK r \in results : Stored(c) = {r} /\ events'[i].cost = r.out.cost /\ Allows(c, r.out, i - 1)
    BY <1>1, <1>2
  <2>2. c \in Cells /\ ~StopsFirst(c) /\ events'[i].evidence
    BY <1>1, <1>2
  <2>3. \A out, k : Allows(c, out, k) => Allows(c, out, k)'
    BY <2>2, AllowedStays
  <2>4. r \in results' /\ Stored(c)' = {r}
    BY <1>c, <2>1
  <2>5. Allows(c, r.out, i - 1)'
    BY <2>1, <2>3
  <2> QED
    BY <2>1, <2>2, <2>4, <2>5 DEF Stored
<1>3. \A i \in DOMAIN events' : \A c :
        /\ events'[i].type = "completion" /\ events'[i].state = "completed"
        /\ events'[i].call = c /\ FoldsTo(i)'
        => /\ events'[i].evidence
           /\ \E r \in results' : /\ {s \in results' : s.cell = c} = {r} /\ events'[i].cost = r.out.cost
                                  /\ Allows(c, r.out, i - 1)'
  BY <1>2
<1> QED
  BY <1>3 DEF CompletedInv, Stored, Allows, AmendedBefore, Lost, Loaded, Reserving

LEMMA AuthorizedInit == Init => AuthorizedInv
<1> SUFFICES ASSUME Init PROVE AuthorizedInv
  OBVIOUS
<1>1. /\ snapshot = NoLedger /\ events = <<>> /\ results = {}
      /\ \A p \in Operators : op[p].at = "idle" /\ op[p].seen = <<>>
  BY DEF Init, Idle
<1>2. SingleResults
  BY <1>1 DEF SingleResults
<1>3. SeenFolds /\ ReauthorizedInv /\ CompletedInv
  BY <1>1 DEF SeenFolds, Folds, ReauthorizedInv, CompletedInv
<1>4. NewLimit # 0 /\ snapshot.limit = 0 /\ snapshot.amend = 0
  BY <1>1, CampaignConstants DEF NoLedger
<1>5. ExplainedInv
  BY <1>1, <1>4 DEF ExplainedInv, Explained, Loaded
<1>6. \A p \in Operators : Marked(p) /\ PaysUnder(p)
  BY <1>1 DEF Marked, Marking, PaysUnder, Paying, Reserving
<1> QED
  BY <1>2, <1>3, <1>5, <1>6 DEF AuthorizedInv

\* A power loss takes unsynced events: a stop among them is lost, with all that relies on it.
LEMMA AuthorizedPowerLoss ==
  ASSUME CampaignInv, AuthorizedInv, PowerLoss
  PROVE  AuthorizedInv'
<1>1. PICK kept \in synced..Len(events) : events' = SubSeq(events, 1, kept) /\ synced' = kept
  BY DEF PowerLoss
<1>2. events \in Seq(Event) /\ synced \in Nat /\ synced <= Len(events) /\ kept \in Nat /\ kept <= Len(events)
      /\ synced <= kept
  BY <1>1 DEF CampaignInv, TypeOK
<1>3. /\ events' \in Seq(Event) /\ Len(events') = kept /\ DOMAIN events' = 1..kept
      /\ \A i \in 1..kept : events'[i] = events[i] /\ i \in DOMAIN events
  BY <1>1, <1>2
<1>4. /\ snapshot' = snapshot /\ results' = results /\ paid' = paid
      /\ \A p \in Operators : op'[p].at = "idle" /\ op'[p].seen = <<>>
  BY DEF PowerLoss, Idle
<1>5. ASSUME NEW c, NEW i, Earliest(c, i), i <= kept PROVE i \in DOMAIN events' /\ Earliest(c, i)'
  <2>1. \A j : j \in At(events', "completion", c) => j \in At(events, "completion", c)
    BY <1>3 DEF At
  <2>2. i \in DOMAIN events /\ i \in 1..kept
    BY <1>2, <1>5 DEF Earliest, At
  <2>3. i \in At(events', "completion", c)
    BY <1>3, <1>5, <2>2 DEF Earliest, At
  <2> QED
    BY <1>3, <1>5, <2>1, <2>2, <2>3 DEF Earliest
<1>6. SingleResults' /\ SeenFolds'
  <2>1. SingleResults
    BY DEF AuthorizedInv
  <2>2. \A r \in results : {s \in results : s.cell = r.cell} = {r}
    BY <2>1 DEF SingleResults, Stored
  <2> QED
    BY <1>4, <2>2 DEF SingleResults, Stored, SeenFolds, Folds
<1>7. ReauthorizedInv'
  <2>1. ASSUME NEW j \in DOMAIN events', NEW c, NEW by, events'[j].type = "reauthorization",
               events'[j].call = c, events'[j].by = by
        PROVE  Settled(c, by, j - 1)'
    <3>1. j \in DOMAIN events /\ events[j] = events'[j] /\ j \in 1..kept
      BY <1>3
    <3>2. Settled(c, by, j - 1)
      BY <2>1, <3>1 DEF AuthorizedInv, ReauthorizedInv
    <3>3. PICK i \in DOMAIN events, r \in results :
            /\ i <= j - 1 /\ Earliest(c, i) /\ events[i].state = "stopped" /\ events[i].evidence
            /\ Stored(c) = {r} /\ events[i].cost = r.out.cost
            /\ by # "amend" => r.out.kind = "retainable"
      BY <3>2 DEF Settled
    <3>4. i <= kept
      BY <1>2, <3>1, <3>3
    <3>5. i \in DOMAIN events' /\ Earliest(c, i)' /\ events'[i] = events[i]
      BY <1>3, <1>5, <3>3, <3>4
    <3>6. r \in results' /\ Stored(c)' = {r}
      BY <1>4, <3>3 DEF Stored
    <3> QED
      BY <3>3, <3>5, <3>6 DEF Settled
  <2>2. \A j \in DOMAIN events' : \A c, by :
          events'[j].type = "reauthorization" /\ events'[j].call = c /\ events'[j].by = by => Settled(c, by, j - 1)'
    BY <2>1
  <2> QED
    BY <2>2 DEF ReauthorizedInv, Settled, Earliest, Stored
<1>8. ASSUME NEW c, Lost(c) PROVE Lost(c)'
  BY <1>4, <1>8 DEF Lost, Loaded, Reserving
<1>9. ASSUME NEW c \in Cells, snapshot.amend = c, StopsFirst(c) PROVE StopsFirst(c)' \/ Lost(c)'
  <2>1. PICK i \in DOMAIN events : Earliest(c, i) /\ events[i].state = "stopped"
    BY <1>9 DEF StopsFirst
  <2>2. CASE i <= kept
    <3>1. i \in DOMAIN events' /\ Earliest(c, i)' /\ events'[i] = events[i]
      BY <1>3, <1>5, <2>1, <2>2
    <3> QED
      BY <2>1, <3>1 DEF StopsFirst
  <2>3. CASE ~(i <= kept)
    <3>1. ASSUME NEW d \in Cells, d > c, paid[d] # <<>> PROVE FALSE
      <4>1. OnDisk(d) /\ c \in 1..(d - 1)
        BY <3>1 DEF CampaignInv, PaidInv, Cells
      <4>2. Accepted(events, c, synced)
        BY <4>1 DEF OnDisk
      <4>3. CASE \E j \in At(events, "completion", c) : j <= synced
        <5>1. PICK j \in At(events, "completion", c) : j <= synced
          BY <4>3
        <5>2. i <= j /\ j \in Nat /\ i \in Nat
          BY <1>2, <2>1, <5>1 DEF Earliest, At
        <5> QED
          BY <1>2, <2>3, <5>1, <5>2
      <4>4. CASE \E j \in At(events, "reauthorization", c) : j <= synced
        <5>1. PICK j \in At(events, "reauthorization", c) : j <= synced
          BY <4>4
        <5>2. Settled(c, events[j].by, j - 1)
          BY <5>1, ReauthorizedStops DEF AuthorizedInv
        <5>3. PICK k \in DOMAIN events : k <= j - 1 /\ Earliest(c, k)
          BY <5>2 DEF Settled
        <5>4. i <= k /\ k \in Nat /\ i \in Nat /\ j \in Nat
          BY <1>2, <2>1, <5>1, <5>3 DEF Earliest, At
        <5> QED
          BY <1>2, <2>3, <5>1, <5>3, <5>4
      <4> QED
        BY <4>2, <4>3, <4>4 DEF Accepted
    <3>2. \A d \in Cells : d > c => paid'[d] = <<>>
      BY <1>4, <3>1
    <3> QED
      BY <1>4, <1>9, <3>2 DEF Lost, Loaded, Reserving
  <2> QED
    BY <2>2, <2>3
<1>10. ExplainedInv'
  <2>1. Explained(snapshot) /\ snapshot \in Authority
    BY DEF AuthorizedInv, ExplainedInv, CampaignInv, TypeOK
  <2>2. ASSUME NEW c, c = snapshot.amend, c # 0
        PROVE  Overspent(c)' /\ (StopsFirst(c)' \/ Lost(c)')
    <3>1. Overspent(c) /\ (StopsFirst(c) \/ Lost(c))
      BY <2>1, <2>2 DEF Explained
    <3>2. c \in Cells
      BY <2>1, <2>2, CampaignConstants DEF Authority, Cells
    <3>3. Overspent(c)'
      BY <1>4, <3>1 DEF Overspent, Stored
    <3> QED
      BY <1>8, <1>9, <2>2, <3>1, <3>2, <3>3
  <2>3. Explained(snapshot)'
    <3>1. PICK c : c = snapshot.amend
      OBVIOUS
    <3>2. snapshot'.amend = c /\ snapshot'.limit = snapshot.limit
      BY <1>4, <3>1
    <3>3. snapshot.limit = NewLimit <=> c # 0
      BY <2>1, <3>1 DEF Explained
    <3>4. c # 0 => Overspent(c)' /\ (StopsFirst(c)' \/ Lost(c)')
      BY <2>2, <3>1
    <3> QED
      BY <3>2, <3>3, <3>4 DEF Explained, Overspent, StopsFirst, Earliest, Lost, Stored, Loaded, Reserving
  <2> QED
    BY <1>4, <2>3 DEF ExplainedInv, Loaded
<1>11. CompletedInv'
  <2>1. ASSUME NEW i \in DOMAIN events', NEW c, events'[i].type = "completion", events'[i].state = "completed",
               events'[i].call = c, FoldsTo(i)'
        PROVE  /\ events'[i].evidence
               /\ \E r \in results' : /\ {s \in results' : s.cell = c} = {r} /\ events'[i].cost = r.out.cost
                                      /\ Allows(c, r.out, i - 1)'
    <3>1. i \in DOMAIN events /\ events[i] = events'[i] /\ i \in 1..kept
      BY <1>3
    <3>2. FoldsTo(i)
      <4>1. \A j \in 1..kept : Fits(events', j) <=> Fits(events, j)
        <5>1. \A j \in 1..kept : events'[j] = events[j]
          BY <1>3
        <5> QED
          BY <1>2, <1>3, <5>1, FitsAlike
      <4>2. \A j \in 1..i : j \in 1..kept
        BY <1>2, <3>1
      <4> QED
        BY <2>1, <4>1, <4>2 DEF FoldsTo
    <3>3. /\ events[i].evidence
          /\ \E r \in results : /\ Stored(events[i].call) = {r} /\ events[i].cost = r.out.cost
                                /\ Allows(events[i].call, r.out, i - 1)
      BY <2>1, <3>1, <3>2 DEF AuthorizedInv, CompletedInv
    <3>4. PICK r \in results : Stored(c) = {r} /\ events[i].cost = r.out.cost /\ Allows(c, r.out, i - 1)
      BY <2>1, <3>1, <3>3
    <3>5. AmendedBefore(c, i - 1) => AmendedBefore(c, i - 1)'
      <4> SUFFICES ASSUME NEW j \in DOMAIN events, j <= i - 1, events[j].type = "reauthorization",
                          events[j].by = "amend", events[j].call < c
                   PROVE  AmendedBefore(c, i - 1)'
        BY DEF AmendedBefore
      <4>1. j \in 1..kept
        BY <1>2, <3>1
      <4> QED
        BY <1>3, <4>1 DEF AmendedBefore
    <3>6. Allows(c, r.out, i - 1)'
      BY <1>8, <3>4, <3>5 DEF Allows, PaidValid
    <3> QED
      BY <1>4, <3>1, <3>3, <3>4, <3>6 DEF Stored
  <2>2. \A i \in DOMAIN events' : \A c :
          /\ events'[i].type = "completion" /\ events'[i].state = "completed"
          /\ events'[i].call = c /\ FoldsTo(i)'
          => /\ events'[i].evidence
             /\ \E r \in results' : /\ {s \in results' : s.cell = c} = {r} /\ events'[i].cost = r.out.cost
                                    /\ Allows(c, r.out, i - 1)'
    BY <2>1
  <2> QED
    BY <2>2 DEF CompletedInv, Stored, Allows, AmendedBefore, Lost, Loaded, Reserving
<1>12. \A p \in Operators : Marked(p)' /\ PaysUnder(p)'
  BY <1>4 DEF Marked, Marking, PaysUnder, Paying, Reserving
<1> QED
  BY <1>6, <1>7, <1>10, <1>11, <1>12 DEF AuthorizedInv

LEMMA AuthorizedStep ==
  CampaignInv /\ CampaignInv' /\ LimitInv /\ RecordInv /\ AuthorizedInv /\ [Next]_vars => AuthorizedInv'
<1> SUFFICES ASSUME CampaignInv, CampaignInv', LimitInv, RecordInv, AuthorizedInv, [Next]_vars
             PROVE  AuthorizedInv'
  OBVIOUS
<1>a. /\ SingleResults /\ SeenFolds /\ ReauthorizedInv /\ ExplainedInv /\ CompletedInv
      /\ \A p \in Operators : Marked(p)
      /\ \A p \in Operators : PaysUnder(p)
  BY DEF AuthorizedInv
<1>1. CASE PowerLoss
  BY <1>1, AuthorizedPowerLoss
<1>2. ASSUME NEW p \in Operators, Act(p)
      PROVE  AuthorizedInv'
  <2>1. TypeOK' /\ Marked(p) /\ PaysUnder(p)
    BY <1>a DEF CampaignInv
  <2>2. SingleResults'
    BY <1>2, <1>a, <2>1, SingleKeeps
  <2>3. SeenFolds'
    BY <1>2, <1>a, <2>1, SeenKeeps
  <2>4. ReauthorizedInv'
    BY <1>2, <1>a, <2>1, ReauthorizedKeeps
  <2>5. ExplainedInv'
    BY <1>2, <1>a, <2>1, ExplainedKeeps
  <2>6. CompletedInv'
    BY <1>2, <1>a, <2>1, CompletedKeeps
  <2>7. \A q \in Operators : Marked(q)'
    BY <1>2, <1>a, <2>1, MarkedKeeps
  <2>8. \A q \in Operators : PaysUnder(q)'
    BY <1>2, <1>a, <2>1, PaysUnderKeeps
  <2> QED
    BY <2>2, <2>3, <2>4, <2>5, <2>6, <2>7, <2>8 DEF AuthorizedInv
<1>3. CASE UNCHANGED vars
  <2>1. snapshot' = snapshot /\ events' = events /\ results' = results /\ paid' = paid /\ op' = op
    BY <1>3 DEF vars
  <2>2. SingleResults' /\ SeenFolds' /\ ReauthorizedInv'
    BY <1>a, <2>1 DEF SingleResults, SeenFolds, ReauthorizedInv, Settled, Earliest, Stored
  <2>3. ExplainedInv'
    BY <1>a, <2>1 DEF ExplainedInv, Explained, Overspent, StopsFirst, Earliest, Lost, Stored, Loaded, Reserving
  <2>4. CompletedInv'
    BY <1>a, <2>1 DEF CompletedInv, FoldsTo, Stored, Allows, AmendedBefore, Lost, Loaded, Reserving
  <2>5. \A p \in Operators : Marked(p)'
    BY <1>a, <2>1 DEF Marked, Marking, Settled, Earliest, Stored, Overspent
  <2>6. \A p \in Operators : PaysUnder(p)'
    BY <1>a, <2>1 DEF PaysUnder, Paying, Reserving, AmendedBefore
  <2> QED
    BY <2>2, <2>3, <2>4, <2>5, <2>6 DEF AuthorizedInv
<1> QED
  BY <1>1, <1>2, <1>3 DEF Next, Act

\* What the fold makes of a call of which the log has a completion.
LEMMA CallIs ==
  ASSUME NEW log \in Seq(Event), Folds(log), NEW c, NEW i \in At(log, "completion", c)
  PROVE  /\ Call(log, c).evidence = log[i].evidence /\ Call(log, c).cost = log[i].cost
         /\ At(log, "reauthorization", c) = {} => Call(log, c).state = log[i].state
         /\ \A j \in At(log, "reauthorization", c) : Call(log, c).by = log[j].by
<1>1. (CHOOSE k \in At(log, "completion", c) : TRUE) = i
  BY OnceEach
<1>2. \A j \in At(log, "reauthorization", c) : (CHOOSE k \in At(log, "reauthorization", c) : TRUE) = j
  BY OnceEach
<1> QED
  BY <1>1, <1>2 DEF Call

\* An accepted call has its one Result, within the first limit, or it was reauthorized
\* itself, or it is within the limit that the amendment of an earlier call put in force:
\* whatever operators overlap or die, and although an amendment is two files of which
\* a power loss may take the one and leave the other.
THEOREM AcceptedCallsAreAuthorized == Spec => []AcceptedIsAuthorized
<1>1. Spec => [](CampaignInv /\ LimitInv /\ RecordInv /\ AuthorizedInv)
  <2>1. /\ CampaignInv /\ LimitInv /\ RecordInv /\ AuthorizedInv /\ [Next]_vars
        => CampaignInv' /\ LimitInv' /\ RecordInv' /\ AuthorizedInv'
    BY CampaignStep, LimitStep, RecordStep, AuthorizedStep
  <2> QED
    BY <2>1, CampaignInit, LimitInit, RecordInit, AuthorizedInit, PTL DEF Spec
<1>2. CampaignInv /\ AuthorizedInv => AcceptedIsAuthorized
  <2> SUFFICES ASSUME CampaignInv, AuthorizedInv, Folds(events),
                      NEW c \in Reserved(events), Call(events, c).state = "completed"
               PROVE  \E r \in Stored(c) :
                        /\ Stored(c) = {r} /\ Matches(Call(events, c), r)
                        /\ \/ Call(events, c).by # ""
                           \/ PaidValid(r.out, Limit, 0)
                           \/ /\ PaidValid(r.out, NewLimit, 0)
                              /\ snapshot.amend \in 1..c \/ \E d \in 1..(c - 1) : Call(events, d).by = "amend"
    BY DEF AcceptedIsAuthorized, Readable
  <2>a. events \in Seq(Event)
    BY DEF CampaignInv, TypeOK
  <2>b. c \in Cells
    <3>1. \A e \in Event : e.call \in Cells
      BY DEF Event
    <3> QED
      BY <2>a, <3>1 DEF Reserved
  <2>1. PICK i \in At(events, "completion", c) : TRUE
    BY DEF Call
  <2>2. i \in DOMAIN events /\ events[i].type = "completion" /\ events[i].call = c
    BY <2>1 DEF At
  <2>3. /\ Call(events, c).evidence = events[i].evidence /\ Call(events, c).cost = events[i].cost
        /\ At(events, "reauthorization", c) = {} => events[i].state = "completed"
        /\ \A j \in At(events, "reauthorization", c) : Call(events, c).by = events[j].by
    BY <2>a, <2>1, CallIs
  <2>4. CASE At(events, "reauthorization", c) = {}
    <3>1. FoldsTo(i)
      BY <2>a, <2>2 DEF FoldsTo, Folds
    <3>2. /\ events[i].evidence
          /\ \E r \in results : Stored(c) = {r} /\ events[i].cost = r.out.cost /\ Allows(c, r.out, i - 1)
      BY <2>2, <2>3, <2>4, <3>1 DEF AuthorizedInv, CompletedInv
    <3>3. PICK r \in results : Stored(c) = {r} /\ events[i].cost = r.out.cost /\ Allows(c, r.out, i - 1)
      BY <3>2
    <3>4. Matches(Call(events, c), r)
      BY <2>3, <3>2, <3>3 DEF Matches
    <3>5. Lost(c) => snapshot.amend \in 1..c
      BY <2>b DEF Lost, Cells
    <3>6. AmendedBefore(c, i - 1) => \E d \in 1..(c - 1) : Call(events, d).by = "amend"
      <4> SUFFICES ASSUME NEW j \in DOMAIN events, events[j].type = "reauthorization", events[j].by = "amend",
                          events[j].call < c
                   PROVE  \E d \in 1..(c - 1) : Call(events, d).by = "amend"
        BY DEF AmendedBefore
      <4>1. PICK d : d = events[j].call
        OBVIOUS
      <4>2. d \in Cells
        <5>1. events[j] \in Event
          BY <2>a
        <5> QED
          BY <4>1, <5>1 DEF Event
      <4>3. d \in 1..(c - 1)
        BY <2>b, <4>1, <4>2 DEF Cells
      <4>4. j \in At(events, "reauthorization", d)
        BY <4>1 DEF At
      <4>5. PICK k \in At(events, "completion", d) : TRUE
        BY <2>a, <4>4, OnceEach
      <4>6. Call(events, d).by = "amend"
        BY <2>a, <4>4, <4>5, CallIs
      <4> QED
        BY <4>3, <4>6
    <3>7. r \in Stored(c)
      BY <3>3
    <3> QED
      BY <3>3, <3>4, <3>5, <3>6, <3>7 DEF Allows
  <2>5. ASSUME NEW j \in At(events, "reauthorization", c)
        PROVE  \E r \in Stored(c) : Stored(c) = {r} /\ Matches(Call(events, c), r) /\ Call(events, c).by # ""
    <3>1. Settled(c, events[j].by, j - 1)
      BY ReauthorizedStops DEF AuthorizedInv
    <3>2. PICK k \in DOMAIN events, r \in results :
            Earliest(c, k) /\ events[k].evidence /\ Stored(c) = {r} /\ events[k].cost = r.out.cost
      BY <3>1 DEF Settled
    <3>3. k = i
      BY <2>a, <2>1, <3>2, OnceEach DEF Earliest
    <3>4. Matches(Call(events, c), r) /\ r \in Stored(c)
      BY <2>3, <3>2, <3>3 DEF Matches
    <3>5. Call(events, c).by # ""
      <4>1. events[j] \in Event /\ events[j].type = "reauthorization"
        BY <2>a DEF At
      <4>2. events[j].by # ""
        BY <4>1 DEF Event, Jobs
      <4> QED
        BY <2>3, <4>2
    <3> QED
      BY <3>2, <3>4, <3>5
  <2> QED
    BY <2>4, <2>5
<1> QED
  BY <1>1, <1>2, PTL
================================================================================
