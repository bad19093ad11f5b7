------------------------ MODULE BatchingClientProofs ------------------------
(***************************************************************************)
(* What BatchingClient guarantees for every set of addresses, values,      *)
(* batches and raw callers, and every limit of the planner: a unit has one *)
(* write path per table, its caches believe what is true, a batch that     *)
(* succeeds has reached the device and left the gaps of its spans alone,   *)
(* and so the batches of a unit are what UnitWrites promises.              *)
(*                                                                         *)
(* Only the last part depends on the plan that planWrites makes: up to it  *)
(* a transaction is any set of addresses.                                  *)
(***************************************************************************)
EXTENDS BatchingClient, PlanProofs, TLAPS

-----------------------------------------------------------------------------
(* The inductive invariant.                                                *)

\* A flight whose transactions are `todo`.
FlightOf(t, todo) ==
    [phase : {"idle", "reading", "writing", "taken", "done"},
     writes : Beliefs(t), written : Beliefs(t), todo : {todo},
     values : Beliefs(t), seen : Nat]

RawOf ==
    [phase : {"idle", "waits", "calls"}, table : Tables, address : Addresses \cup {0},
     value : Values]

\* TypeOK without the bounds and without the plans.
Typed ==
    /\ DOMAIN device = Tables /\ DOMAIN held = Tables /\ DOMAIN flight = Tables
    /\ \A t \in Tables : device[t] \in Contents(t) /\ held[t] \in Beliefs(t)
    /\ \A t \in Tables : flight[t] \in FlightOf(t, flight[t].todo)
    /\ generation \in [Tables -> Nat]
    /\ raw \in [RawCallers -> RawOf]

\* A raw call on the wire has the write lock of the unit.
LockKept == \A r \in RawCallers : raw[r].phase = "calls" => holder = r

PathKept == \A r \in RawCallers : raw[r].phase = "calls" => ~Open(raw[r].table)

\* The build of a declaration is in line, or has the lock, once, and ends with it.
BuildOnce ==
    /\ queue \in Seq(RawCallers \cup {Build})
    /\ holder = Build =>
          declared = "creating" /\ \A i \in DOMAIN queue : queue[i] # Build
    /\ \A i \in DOMAIN queue : queue[i] = Build =>
          declared = "creating" /\ \A j \in DOMAIN queue : queue[j] = Build => i = j

\* Nothing is believed or sent before the unit is declared.
OnlyWhenOpen ==
    ~closed => \A t \in Tables : held[t] # NoWrites(t) \/ Active(t) => Open(t)

\* After an invalidation nothing is believed until a later transaction is observed.
SeenBefore ==
    \A t \in Tables : Active(t) =>
        /\ flight[t].seen <= generation[t]
        /\ flight[t].seen # generation[t] => held[t] = NoWrites(t)

Excused == doubt # "none" \/ notice \/ closed

\* What the device took is what it holds when the answer may be observed.
TakenIsThere ==
    \A t \in Tables : flight[t].phase = "taken" =>
        \A a \in AddressesOf(t) :
            flight[t].values[a] # Unknown /\ flight[t].seen = generation[t] =>
                device[t][a] = flight[t].values[a] \/ Excused

PathInv == Typed /\ LockKept /\ PathKept /\ BuildOnce
CacheInv == PathInv /\ OnlyWhenOpen /\ SeenBefore /\ TakenIsThere /\ CacheIsTrue

-----------------------------------------------------------------------------
(* Lemmas about the operators of the model.                                *)

LEMMA NoWritesType == \A t \in Tables : NoWrites(t) \in Beliefs(t)
BY DEF NoWrites, Beliefs

LEMMA PartType ==
    ASSUME NEW t \in Tables, NEW writes \in Beliefs(t), NEW S
    PROVE  Part(t, writes, S) \in Beliefs(t)
BY DEF Part, Beliefs

LEMMA ProposedType ==
    ASSUME NEW b \in Batches
    PROVE  b.table \in Tables /\ Proposed(b.table, b.writes) \in Beliefs(b.table)
BY RequestAssumption DEF Proposed, Beliefs

\* An acknowledgement is observed entirely or not at all.
LEMMA ObserveType ==
    ASSUME NEW t \in Tables, held[t] \in Beliefs(t), NEW values \in Beliefs(t), NEW seen
    PROVE  /\ observe(t, values, seen) \in Beliefs(t)
           /\ seen # generation[t] => observe(t, values, seen) = held[t]
BY DEF observe, Beliefs

\* The device changes where the transaction has a value, and nowhere else.
LEMMA WrittenType ==
    ASSUME Typed, NEW t \in Tables, NEW values \in Beliefs(t)
    PROVE  /\ DOMAIN Written(t, values) = Tables
           /\ \A u \in Tables : Written(t, values)[u] \in Contents(u)
           /\ \A u \in Tables \ {t} : Written(t, values)[u] = device[u]
           /\ \A a \in AddressesOf(t) :
                 Written(t, values)[t][a] =
                    IF values[a] # Unknown THEN values[a] ELSE device[t][a]
BY DEF Typed, Written, Contents, Beliefs

LEMMA FillGapsType ==
    ASSUME Typed, NEW t \in Tables
    PROVE  fillGaps(t) \in Beliefs(t)
BY DEF Typed, FlightOf, fillGaps, Contents, Beliefs

LEMMA IdleType ==
    ASSUME NEW t \in Tables
    PROVE  Idle(t) \in FlightOf(t, Idle(t).todo) /\ Idle(t).phase = "idle"
BY NoWritesType DEF Idle, FlightOf

\* A step goes out with the generation that it reads, or the batch is done.
LEMMA IssueStepType ==
    ASSUME Typed, NEW t \in Tables, NEW writes \in Beliefs(t), NEW written \in Beliefs(t),
           NEW todo, NEW beliefs \in Beliefs(t)
    PROVE  LET f == issueStep(t, writes, written, todo, beliefs)
           IN  /\ f \in FlightOf(t, f.todo)
               /\ f.phase \in {"done", "reading", "writing"}
               /\ f.phase # "done" => f.seen = generation[t]
<1>1. CASE todo = <<>>
  BY <1>1, NoWritesType DEF issueStep, Idle, FlightOf
<1>2. CASE todo # <<>>
  <2> DEFINE known == knownStates(t, Head(todo), written, beliefs)
  <2>1. known \in Beliefs(t)
    BY DEF knownStates, Beliefs
  <2>2. generation[t] \in Nat
    BY DEF Typed
  <2> HIDE DEF known
  <2>3. issueStep(t, writes, written, todo, beliefs) =
           [phase |-> IF HasUnknownGap(Head(todo), known) THEN "reading" ELSE "writing",
            writes |-> writes, written |-> written, todo |-> todo, values |-> known,
            seen |-> generation[t]]
    BY <1>2 DEF issueStep, known
  <2>4. QED
    BY <2>1, <2>2, <2>3 DEF FlightOf
<1>3. QED
  BY <1>1, <1>2

-----------------------------------------------------------------------------
(* Types.                                                                  *)

\* A flight that only changes its phase keeps its type.
LEMMA PhaseType ==
    ASSUME Typed, NEW t \in Tables,
           NEW phase \in {"idle", "reading", "writing", "taken", "done"}
    PROVE  LET f == [flight[t] EXCEPT !.phase = phase]
           IN  /\ f \in FlightOf(t, f.todo) /\ f.phase = phase
               /\ f.values = flight[t].values /\ f.seen = flight[t].seen
BY DEF Typed, FlightOf

\* The flight of one table is replaced by one of its type.
LEMMA FlightReplaced ==
    ASSUME Typed, NEW t \in Tables, NEW f, f \in FlightOf(t, f.todo),
           flight' = [flight EXCEPT ![t] = f]
    PROVE  /\ DOMAIN flight' = Tables
           /\ \A u \in Tables : flight'[u] \in FlightOf(u, flight'[u].todo)
           /\ flight'[t] = f /\ \A u \in Tables \ {t} : flight'[u] = flight[u]
BY DEF Typed

LEMMA InvalidateType ==
    ASSUME Typed, invalidate
    PROVE  /\ DOMAIN held' = Tables /\ \A t \in Tables : held'[t] = NoWrites(t)
           /\ \A t \in Tables : held'[t] \in Beliefs(t)
           /\ generation' \in [Tables -> Nat]
           /\ \A t \in Tables : generation'[t] = generation[t] + 1
BY NoWritesType DEF Typed, invalidate

LEMMA IssueType ==
    ASSUME Typed, NEW t \in Tables, NEW writes \in Beliefs(t), NEW forced,
           issueWrites(t, writes, forced)
    PROVE  /\ DOMAIN flight' = Tables
           /\ \A u \in Tables : flight'[u] \in FlightOf(u, flight'[u].todo)
           /\ \A u \in Tables \ {t} : flight'[u] = flight[u]
           /\ flight'[t].phase \in {"done", "reading", "writing"}
           /\ flight'[t].phase # "done" => flight'[t].seen = generation[t]
<1> DEFINE S == chosen(t, writes, filter(t, writes, forced))
           f == issueStep(t, writes, Part(t, writes, S), Plan(t, S), held[t])
<1>1. flight' = [flight EXCEPT ![t] = f]
  BY DEF issueWrites
<1>2. /\ f \in FlightOf(t, f.todo) /\ f.phase \in {"done", "reading", "writing"}
      /\ f.phase # "done" => f.seen = generation[t]
  <2>1. held[t] \in Beliefs(t) /\ Part(t, writes, S) \in Beliefs(t)
    BY PartType DEF Typed
  <2> HIDE DEF S
  <2>2. QED
    BY <2>1, IssueStepType
<1> HIDE DEF f
<1>3. QED
  BY <1>1, <1>2, FlightReplaced

LEMMA AcknowledgeType ==
    ASSUME Typed, NEW t \in Tables, WriteAcknowledged(t)
    PROVE  /\ DOMAIN flight' = Tables /\ DOMAIN held' = Tables
           /\ \A u \in Tables : flight'[u] \in FlightOf(u, flight'[u].todo)
           /\ \A u \in Tables : held'[u] \in Beliefs(u)
           /\ \A u \in Tables \ {t} : flight'[u] = flight[u] /\ held'[u] = held[u]
           /\ held'[t] = observe(t, flight[t].values, flight[t].seen)
           /\ flight'[t].phase \in {"done", "reading", "writing"}
           /\ flight'[t].phase # "done" => flight'[t].seen = generation[t]
<1> DEFINE f == issueStep(t, flight[t].writes, flight[t].written, Tail(flight[t].todo), held'[t])
<1>1. flight[t] \in FlightOf(t, flight[t].todo) /\ held[t] \in Beliefs(t)
  BY DEF Typed
<1>2. flight[t].writes \in Beliefs(t) /\ flight[t].written \in Beliefs(t)
      /\ flight[t].values \in Beliefs(t)
  BY <1>1 DEF FlightOf
<1>3. held' = [held EXCEPT ![t] = observe(t, flight[t].values, flight[t].seen)]
  BY DEF WriteAcknowledged
<1>4. observe(t, flight[t].values, flight[t].seen) \in Beliefs(t)
  BY <1>1, <1>2, ObserveType
<1>5. /\ DOMAIN held' = Tables /\ \A u \in Tables : held'[u] \in Beliefs(u)
      /\ \A u \in Tables \ {t} : held'[u] = held[u]
      /\ held'[t] = observe(t, flight[t].values, flight[t].seen)
  BY <1>3, <1>4 DEF Typed
<1>6. flight' = [flight EXCEPT ![t] = f]
  BY DEF WriteAcknowledged
<1>7. /\ f \in FlightOf(t, f.todo) /\ f.phase \in {"done", "reading", "writing"}
      /\ f.phase # "done" => f.seen = generation[t]
  BY <1>2, <1>5, IssueStepType
<1> HIDE DEF f
<1>8. QED
  BY <1>5, <1>6, <1>7, FlightReplaced

-----------------------------------------------------------------------------
(* The batch of a table, the device and the link.                          *)

\* These steps leave the declaration, the raw writes and the write lock alone.
LEMMA PathUntouched ==
    ASSUME PathInv, Typed', UNCHANGED <<registry, raw, lock>>
    PROVE  PathInv' /\ \A t \in Tables : Open(t)' <=> Open(t)
BY DEF PathInv, LockKept, PathKept, BuildOnce, Open, registry, lock

LEMMA IssueStep ==
    ASSUME CacheInv, NEW t \in Tables, NEW writes \in Beliefs(t), NEW forced,
           issueWrites(t, writes, forced)
    PROVE  CacheInv'
<1>1. Typed /\ PathInv
  BY DEF CacheInv, PathInv
<1>2. /\ DOMAIN flight' = Tables
      /\ \A u \in Tables : flight'[u] \in FlightOf(u, flight'[u].todo)
      /\ \A u \in Tables \ {t} : flight'[u] = flight[u]
      /\ flight'[t].phase \in {"done", "reading", "writing"}
      /\ flight'[t].phase # "done" => flight'[t].seen = generation[t]
  BY <1>1, IssueType
<1>3. UNCHANGED <<device, doubt, cache, notice, registry, raw, lock>> /\ Open(t) /\ ~Active(t)
  BY DEF issueWrites, Open
<1>4. Typed'
  BY <1>1, <1>2, <1>3 DEF Typed, cache
<1>5. PathInv' /\ \A u \in Tables : Open(u)' <=> Open(u)
  BY <1>1, <1>3, <1>4, PathUntouched
<1>6. OnlyWhenOpen'
  BY <1>2, <1>3, <1>5 DEF CacheInv, OnlyWhenOpen, Active, cache, registry
<1>7. SeenBefore'
  BY <1>1, <1>2, <1>3 DEF CacheInv, SeenBefore, Active, cache, Typed
<1>8. TakenIsThere'
  BY <1>2, <1>3 DEF CacheInv, TakenIsThere, Excused, cache, registry
<1>9. CacheIsTrue'
  BY <1>2, <1>3 DEF CacheInv, CacheIsTrue, Believed, OnTheWire, Active, cache, registry
<1>10. QED
  BY <1>5, <1>6, <1>7, <1>8, <1>9 DEF CacheInv

LEMMA GapsReadStep ==
    ASSUME CacheInv, NEW t \in Tables, GapsRead(t)
    PROVE  CacheInv'
<1> DEFINE f == [flight[t] EXCEPT !.phase = "writing", !.values = fillGaps(t)]
<1>1. Typed /\ PathInv
  BY DEF CacheInv, PathInv
<1>2. flight[t].phase = "reading" /\ UNCHANGED <<world, cache, notice, registry, raw, lock>>
  BY DEF GapsRead
<1>3. flight' = [flight EXCEPT ![t] = f]
  BY DEF GapsRead
<1>4. /\ f \in FlightOf(t, f.todo) /\ f.phase = "writing" /\ f.seen = flight[t].seen
  BY <1>1, FillGapsType DEF Typed, FlightOf
<1> HIDE DEF f
<1>5. /\ DOMAIN flight' = Tables
      /\ \A u \in Tables : flight'[u] \in FlightOf(u, flight'[u].todo)
      /\ flight'[t] = f /\ \A u \in Tables \ {t} : flight'[u] = flight[u]
  BY <1>1, <1>3, <1>4, FlightReplaced
<1>6. Typed'
  BY <1>1, <1>2, <1>5 DEF Typed, cache, world
<1>7. PathInv' /\ \A u \in Tables : Open(u)' <=> Open(u)
  BY <1>1, <1>2, <1>6, PathUntouched
<1>8. OnlyWhenOpen' /\ SeenBefore'
  BY <1>2, <1>4, <1>5, <1>7 DEF CacheInv, OnlyWhenOpen, SeenBefore, Active, cache, registry
<1>9. TakenIsThere'
  BY <1>2, <1>4, <1>5 DEF CacheInv, TakenIsThere, Excused, cache, registry, world
<1>10. CacheIsTrue'
  BY <1>2, <1>4, <1>5
     DEF CacheInv, CacheIsTrue, Believed, OnTheWire, cache, registry, world
<1>11. QED
  BY <1>7, <1>8, <1>9, <1>10 DEF CacheInv

LEMMA TakesStep ==
    ASSUME CacheInv, NEW t \in Tables, DeviceTakes(t)
    PROVE  CacheInv'
<1> DEFINE f == [flight[t] EXCEPT !.phase = "taken"]
<1>1. Typed /\ PathInv
  BY DEF CacheInv, PathInv
<1>2. /\ flight[t].phase = "writing" /\ device' = Written(t, flight[t].values)
      /\ UNCHANGED <<doubt, harmed, cache, notice, registry, raw, lock>>
  BY DEF DeviceTakes
<1>3. flight' = [flight EXCEPT ![t] = f]
  BY DEF DeviceTakes
<1>4. /\ f \in FlightOf(t, f.todo) /\ f.phase = "taken"
      /\ f.values = flight[t].values /\ f.seen = flight[t].seen
  BY <1>1, PhaseType
<1> HIDE DEF f
<1>5. /\ DOMAIN flight' = Tables
      /\ \A u \in Tables : flight'[u] \in FlightOf(u, flight'[u].todo)
      /\ flight'[t] = f /\ \A u \in Tables \ {t} : flight'[u] = flight[u]
  BY <1>1, <1>3, <1>4, FlightReplaced
<1>6. flight[t].values \in Beliefs(t)
  BY <1>1 DEF Typed, FlightOf
<1>7. /\ DOMAIN device' = Tables /\ \A u \in Tables : device'[u] \in Contents(u)
      /\ \A u \in Tables \ {t} : device'[u] = device[u]
      /\ \A a \in AddressesOf(t) :
            device'[t][a] =
               IF flight[t].values[a] # Unknown THEN flight[t].values[a] ELSE device[t][a]
  BY <1>1, <1>2, <1>6, WrittenType
<1>8. Typed'
  BY <1>1, <1>2, <1>5, <1>7 DEF Typed, cache
<1>9. PathInv' /\ \A u \in Tables : Open(u)' <=> Open(u)
  BY <1>1, <1>2, <1>8, PathUntouched
<1>10. OnlyWhenOpen' /\ SeenBefore'
  BY <1>2, <1>4, <1>5, <1>9 DEF CacheInv, OnlyWhenOpen, SeenBefore, Active, cache, registry
<1>11. TakenIsThere'
  BY <1>2, <1>4, <1>5, <1>7 DEF CacheInv, TakenIsThere, Excused, cache, registry
<1>12. CacheIsTrue'
  BY <1>2, <1>4, <1>5, <1>7
     DEF CacheInv, CacheIsTrue, Believed, OnTheWire, cache, registry
<1>13. QED
  BY <1>9, <1>10, <1>11, <1>12 DEF CacheInv

\* An answer that is older than an invalidation leaves the cache empty; any other
\* records what the device took.
LEMMA AcknowledgeStep ==
    ASSUME CacheInv, NEW t \in Tables, WriteAcknowledged(t)
    PROVE  CacheInv'
<1>1. Typed /\ PathInv
  BY DEF CacheInv, PathInv
<1>2. /\ flight[t].phase = "taken"
      /\ UNCHANGED <<world, generation, notice, registry, raw, lock>>
  BY DEF WriteAcknowledged
<1>3. /\ DOMAIN flight' = Tables /\ DOMAIN held' = Tables
      /\ \A u \in Tables : flight'[u] \in FlightOf(u, flight'[u].todo)
      /\ \A u \in Tables : held'[u] \in Beliefs(u)
      /\ \A u \in Tables \ {t} : flight'[u] = flight[u] /\ held'[u] = held[u]
      /\ held'[t] = observe(t, flight[t].values, flight[t].seen)
      /\ flight'[t].phase \in {"done", "reading", "writing"}
      /\ flight'[t].phase # "done" => flight'[t].seen = generation[t]
  BY <1>1, AcknowledgeType
<1>4. Typed'
  BY <1>1, <1>2, <1>3 DEF Typed, world
<1>5. PathInv' /\ \A u \in Tables : Open(u)' <=> Open(u)
  BY <1>1, <1>2, <1>4, PathUntouched
<1>6. OnlyWhenOpen'
  <2>1. ~closed => Open(t)
    BY <1>2 DEF CacheInv, OnlyWhenOpen, Active
  <2>2. QED
    BY <1>2, <1>3, <1>5, <2>1 DEF CacheInv, OnlyWhenOpen, Active, registry
<1>7. SeenBefore'
  BY <1>1, <1>2, <1>3 DEF CacheInv, SeenBefore, Active, Typed
<1>8. TakenIsThere'
  BY <1>2, <1>3 DEF CacheInv, TakenIsThere, Excused, registry, world
<1>9. CacheIsTrue'
  <2>1. SUFFICES ASSUME NEW u \in Tables, NEW a \in AddressesOf(u),
                        ~Excused, ~OnTheWire(u, a)'
                 PROVE  Believed(u, a)'
    BY <1>2 DEF CacheIsTrue, Excused, registry, world
  <2>2. CASE u # t
    BY <1>2, <1>3, <2>1, <2>2
       DEF CacheInv, CacheIsTrue, Excused, Believed, OnTheWire, registry, world
  <2>3. CASE u = t /\ flight[t].seen # generation[t]
    <3>1. held[t] = NoWrites(t)
      BY <1>2, <2>3 DEF CacheInv, SeenBefore, Active
    <3>2. held'[t] = held[t]
      BY <1>3, <2>3, <1>1, ObserveType DEF Typed, FlightOf
    <3>3. QED
      BY <2>3, <3>1, <3>2 DEF Believed, NoWrites
  <2>4. CASE u = t /\ flight[t].seen = generation[t]
    <3>1. held'[t][a] = IF flight[t].values[a] # Unknown THEN flight[t].values[a]
                        ELSE held[t][a]
      BY <1>3, <2>4 DEF observe
    <3>2. CASE flight[t].values[a] # Unknown
      BY <1>2, <2>1, <2>4, <3>1, <3>2 DEF CacheInv, TakenIsThere, Believed, world
    <3>3. CASE flight[t].values[a] = Unknown
      BY <1>2, <2>1, <2>4, <3>1, <3>3
         DEF CacheInv, CacheIsTrue, Excused, OnTheWire, Believed, world
    <3>4. QED
      BY <3>2, <3>3
  <2>5. QED
    BY <2>2, <2>3, <2>4
<1>10. QED
  BY <1>5, <1>6, <1>7, <1>8, <1>9 DEF CacheInv

LEMMA RetryStep ==
    ASSUME CacheInv, NEW t \in Tables, AttemptFails(t)
    PROVE  CacheInv'
<1> DEFINE phase == IF flight[t].phase = "taken" THEN "writing" ELSE flight[t].phase
           f == [flight[t] EXCEPT !.phase = phase]
<1>1. Typed /\ PathInv /\ Active(t)
  BY DEF CacheInv, PathInv, AttemptFails
<1>2. UNCHANGED <<device, doubt, harmed, cache, notice, registry, raw, lock>>
  BY DEF AttemptFails, world
<1>3. flight' = [flight EXCEPT ![t] = f]
  BY DEF AttemptFails
<1>4. /\ f \in FlightOf(t, f.todo) /\ f.phase = phase
      /\ f.values = flight[t].values /\ f.seen = flight[t].seen
  <2>1. phase \in {"idle", "reading", "writing", "taken", "done"}
    BY <1>1 DEF Active
  <2> HIDE DEF phase
  <2>2. QED
    BY <1>1, <2>1, PhaseType
<1>5. f.phase \in {"reading", "writing"} /\ (f.phase = "reading" <=> flight[t].phase = "reading")
  BY <1>1, <1>4 DEF Active
<1> HIDE DEF f
<1>6. /\ DOMAIN flight' = Tables
      /\ \A u \in Tables : flight'[u] \in FlightOf(u, flight'[u].todo)
      /\ flight'[t] = f /\ \A u \in Tables \ {t} : flight'[u] = flight[u]
  BY <1>1, <1>3, <1>4, FlightReplaced
<1>7. Typed'
  BY <1>1, <1>2, <1>6 DEF Typed, cache
<1>8. PathInv' /\ \A u \in Tables : Open(u)' <=> Open(u)
  BY <1>1, <1>2, <1>7, PathUntouched
<1>9. OnlyWhenOpen' /\ SeenBefore'
  BY <1>1, <1>2, <1>4, <1>5, <1>6, <1>8 DEF CacheInv, OnlyWhenOpen, SeenBefore, Active, cache, registry
<1>10. TakenIsThere'
  BY <1>2, <1>5, <1>6 DEF CacheInv, TakenIsThere, Excused, cache, registry
<1>11. CacheIsTrue'
  BY <1>1, <1>2, <1>4, <1>5, <1>6
     DEF CacheInv, CacheIsTrue, Believed, OnTheWire, Active, cache, registry
<1>12. QED
  BY <1>8, <1>9, <1>10, <1>11 DEF CacheInv

\* What forgets both caches: nothing is believed, and no answer on its way is observed.
LEMMA Forgotten ==
    ASSUME CacheInv, invalidate, Typed', UNCHANGED <<device, registry, raw, lock>>,
           \A u \in Tables : flight'[u] = flight[u] \/ ~Active(u)'
    PROVE  CacheInv'
<1>1. Typed /\ PathInv
  BY DEF CacheInv, PathInv
<1>2. /\ \A t \in Tables : held'[t] = NoWrites(t)
      /\ \A t \in Tables : generation'[t] = generation[t] + 1
  BY <1>1, InvalidateType
<1>3. PathInv' /\ \A u \in Tables : Open(u)' <=> Open(u)
  BY <1>1, PathUntouched
<1>4. OnlyWhenOpen'
  BY <1>2, <1>3 DEF CacheInv, OnlyWhenOpen, Active, registry
<1>5. \A t \in Tables : Active(t)' => flight'[t].seen <= generation[t]
  BY DEF CacheInv, SeenBefore, Active
<1>6. \A t \in Tables : generation[t] \in Nat /\ flight'[t].seen \in Nat
  BY <1>1 DEF Typed, FlightOf
<1>7. SeenBefore'
  BY <1>2, <1>5, <1>6 DEF SeenBefore, Active
<1>8. TakenIsThere'
  BY <1>2, <1>5, <1>6 DEF TakenIsThere, Active
<1>9. CacheIsTrue'
  BY <1>2 DEF CacheIsTrue, Believed, NoWrites
<1>10. QED
  BY <1>3, <1>4, <1>7, <1>8, <1>9 DEF CacheInv

\* A flight that ends without an answer.
LEMMA IdleFlight ==
    ASSUME Typed, NEW t \in Tables, flight' = [flight EXCEPT ![t] = Idle(t)]
    PROVE  /\ DOMAIN flight' = Tables
           /\ \A u \in Tables : flight'[u] \in FlightOf(u, flight'[u].todo)
           /\ flight'[t].phase = "idle" /\ \A u \in Tables \ {t} : flight'[u] = flight[u]
<1>1. Idle(t) \in FlightOf(t, Idle(t).todo) /\ Idle(t).phase = "idle"
  BY IdleType
<1>2. QED
  BY <1>1, FlightReplaced

LEMMA FailStep ==
    ASSUME CacheInv, NEW t \in Tables, WriteFails(t)
    PROVE  CacheInv'
<1>1. Typed /\ invalidate /\ UNCHANGED <<device, harmed, notice, registry, raw, lock>>
  BY DEF CacheInv, PathInv, WriteFails
<1>2. flight' = [flight EXCEPT ![t] = Idle(t)]
  BY DEF WriteFails
<1>3. /\ DOMAIN flight' = Tables
      /\ \A u \in Tables : flight'[u] \in FlightOf(u, flight'[u].todo)
      /\ flight'[t].phase = "idle" /\ \A u \in Tables \ {t} : flight'[u] = flight[u]
  BY <1>1, <1>2, IdleFlight
<1>4. Typed'
  BY <1>1, <1>3, InvalidateType DEF Typed
<1>5. \A u \in Tables : flight'[u] = flight[u] \/ ~Active(u)'
  BY <1>3 DEF Active
<1>6. QED
  BY <1>1, <1>4, <1>5, Forgotten

LEMMA WatchStep ==
    ASSUME CacheInv, watchLink
    PROVE  CacheInv'
<1>1. /\ Typed /\ invalidate
      /\ UNCHANGED <<device, harmed, flight, registry, raw, lock>>
  BY DEF CacheInv, PathInv, watchLink
<1>2. Typed'
  BY <1>1, InvalidateType DEF Typed
<1>3. QED
  BY <1>1, <1>2, Forgotten

LEMMA InterruptStep ==
    ASSUME CacheInv, NEW t \in Tables, WriteInterrupted(t)
    PROVE  CacheInv'
<1>1. Typed /\ PathInv
  BY DEF CacheInv, PathInv
<1>2. doubt' # "none" /\ UNCHANGED <<harmed, cache, notice, registry, raw, lock>>
  BY DEF WriteInterrupted
<1>3. device' = device \/ device' = Written(t, flight[t].values)
  BY DEF WriteInterrupted
<1>4. flight' = [flight EXCEPT ![t] = Idle(t)]
  BY DEF WriteInterrupted
<1>5. /\ DOMAIN flight' = Tables
      /\ \A u \in Tables : flight'[u] \in FlightOf(u, flight'[u].todo)
      /\ flight'[t].phase = "idle" /\ \A u \in Tables \ {t} : flight'[u] = flight[u]
  BY <1>1, <1>4, IdleFlight
<1>6. DOMAIN device' = Tables /\ \A u \in Tables : device'[u] \in Contents(u)
  <2>1. flight[t].values \in Beliefs(t)
    BY <1>1 DEF Typed, FlightOf
  <2>2. QED
    BY <1>1, <1>3, <2>1, WrittenType DEF Typed
<1>7. Typed'
  BY <1>1, <1>2, <1>5, <1>6 DEF Typed, cache
<1>8. PathInv' /\ \A u \in Tables : Open(u)' <=> Open(u)
  BY <1>1, <1>2, <1>7, PathUntouched
<1>9. OnlyWhenOpen' /\ SeenBefore'
  BY <1>2, <1>5, <1>8 DEF CacheInv, OnlyWhenOpen, SeenBefore, Active, cache, registry
<1>10. TakenIsThere' /\ CacheIsTrue'
  BY <1>2 DEF TakenIsThere, Excused, CacheIsTrue
<1>11. QED
  BY <1>8, <1>9, <1>10 DEF CacheInv

\* A power cycle, and a change of the link that the watcher has still to see.
LEMMA LossStep ==
    ASSUME CacheInv, PowerCycle \/ LinkLost
    PROVE  CacheInv'
<1>1. Typed /\ PathInv
  BY DEF CacheInv, PathInv
<1>2. /\ doubt' # "none" \/ notice'
      /\ UNCHANGED <<cache, flight, registry, raw, lock>>
  BY DEF PowerCycle, LinkLost
<1>3. DOMAIN device' = Tables /\ \A u \in Tables : device'[u] \in Contents(u)
  <2>1. CASE PowerCycle
    BY <2>1, ValueAssumption DEF PowerCycle, Contents
  <2>2. CASE LinkLost
    BY <1>1, <2>2 DEF LinkLost, Typed
  <2>3. QED
    BY <2>1, <2>2
<1>4. Typed'
  BY <1>1, <1>2, <1>3 DEF Typed, cache
<1>5. PathInv' /\ \A u \in Tables : Open(u)' <=> Open(u)
  BY <1>1, <1>2, <1>4, PathUntouched
<1>6. OnlyWhenOpen' /\ SeenBefore'
  BY <1>2, <1>5 DEF CacheInv, OnlyWhenOpen, SeenBefore, Active, cache, registry
<1>7. TakenIsThere' /\ CacheIsTrue'
  BY <1>2 DEF TakenIsThere, Excused, CacheIsTrue
<1>8. QED
  BY <1>5, <1>6, <1>7 DEF CacheInv

-----------------------------------------------------------------------------
(* The write lock.                                                         *)

\* A fiber takes the lock or a place in the line; a fiber whose turn it is leaves it.
LEMMA LineType ==
    ASSUME NEW F, queue \in Seq(F), NEW f \in F
    PROVE  /\ Acquire(f) =>
                 \/ holder = Free /\ holder' = f /\ queue = <<>> /\ UNCHANGED queue
                 \/ /\ UNCHANGED holder /\ queue' \in Seq(F)
                    /\ DOMAIN queue' = DOMAIN queue \cup {Len(queue) + 1}
                    /\ Len(queue) + 1 \notin DOMAIN queue
                    /\ queue'[Len(queue) + 1] = f
                    /\ \A i \in DOMAIN queue : queue'[i] = queue[i]
           /\ NextInLine(f) /\ queue' = Tail(queue) =>
                 /\ queue' \in Seq(F) /\ 1 \in DOMAIN queue /\ queue[1] = f
                 /\ \A i \in DOMAIN queue' :
                       i \in Nat /\ i + 1 \in DOMAIN queue /\ i # 0 /\ queue'[i] = queue[i + 1]
<1>1. ASSUME queue' = Append(queue, f)
      PROVE  /\ queue' \in Seq(F)
             /\ DOMAIN queue' = DOMAIN queue \cup {Len(queue) + 1}
             /\ Len(queue) + 1 \notin DOMAIN queue
             /\ queue'[Len(queue) + 1] = f
             /\ \A i \in DOMAIN queue : queue'[i] = queue[i]
  <2>1. /\ queue' \in Seq(F) /\ Len(queue') = Len(queue) + 1 /\ Len(queue) \in Nat
        /\ DOMAIN queue = 1..Len(queue) /\ DOMAIN queue' = 1..Len(queue')
    BY <1>1
  <2>2. \A i \in 1..Len(queue) + 1 :
           queue'[i] = IF i = Len(queue) + 1 THEN f ELSE queue[i]
    BY <1>1, <2>1
  <2>3. QED
    BY <2>1, <2>2
<1>2. ASSUME queue # <<>>, queue' = Tail(queue)
      PROVE  /\ queue' \in Seq(F) /\ 1 \in DOMAIN queue /\ queue[1] = Head(queue)
             /\ \A i \in DOMAIN queue' :
                   i \in Nat /\ i + 1 \in DOMAIN queue /\ i # 0 /\ queue'[i] = queue[i + 1]
  <2>1. /\ queue' \in Seq(F) /\ Len(queue') = Len(queue) - 1 /\ Len(queue) \in Nat \ {0}
        /\ DOMAIN queue = 1..Len(queue) /\ DOMAIN queue' = 1..Len(queue')
    BY <1>2
  <2>2. \A i \in 1..Len(queue') : queue'[i] = queue[i + 1]
    BY <1>2, <2>1
  <2>3. QED
    BY <2>1, <2>2
<1>3. QED
  BY <1>1, <1>2 DEF Acquire, LockIsFree, NextInLine

\* A step that neither declares the unit nor builds keeps the build where it is.
LEMMA BuildUntouched ==
    ASSUME BuildOnce, UNCHANGED declared, NEW r \in RawCallers,
           \/ Acquire(r)
           \/ NextInLine(r) /\ queue' = Tail(queue) /\ holder' \in {r, holder}
           \/ holder' = Free /\ UNCHANGED queue
    PROVE  BuildOnce'
<1> DEFINE F == RawCallers \cup {Build}
<1>1. queue \in Seq(F) /\ r \in F /\ r # Build
  BY FiberAssumption DEF BuildOnce
<1>2. CASE Acquire(r)
  BY <1>1, <1>2, LineType, FiberAssumption DEF BuildOnce
<1>3. CASE NextInLine(r) /\ queue' = Tail(queue) /\ holder' \in {r, holder}
  <2>1. holder' # Build
    BY <1>1, <1>3, FiberAssumption DEF NextInLine
  <2>2. /\ queue' \in Seq(F)
        /\ \A i \in DOMAIN queue' :
              i \in Nat /\ i + 1 \in DOMAIN queue /\ queue'[i] = queue[i + 1]
    BY <1>1, <1>3, LineType
  <2>3. QED
    BY <2>1, <2>2 DEF BuildOnce
<1>4. CASE holder' = Free /\ UNCHANGED queue
  BY <1>4, FiberAssumption DEF BuildOnce
<1>5. QED
  BY <1>2, <1>3, <1>4

-----------------------------------------------------------------------------
(* The declaration and the raw writes.                                     *)

\* These steps leave what the caches and the batches know alone.
LEMMA CacheUntouched ==
    ASSUME CacheInv, PathInv', UNCHANGED <<world, cache, flight, notice>>,
           closed => closed', ~closed => \A t \in Tables : Open(t) => Open(t)'
    PROVE  CacheInv'
<1>1. OnlyWhenOpen' /\ SeenBefore'
  BY DEF CacheInv, OnlyWhenOpen, SeenBefore, Active, cache, registry
<1>2. TakenIsThere' /\ CacheIsTrue'
  BY DEF CacheInv, TakenIsThere, CacheIsTrue, Excused, OnTheWire, Believed, cache, world
<1>3. QED
  BY <1>1, <1>2 DEF CacheInv

\* The declaration, up to and including the build under the write lock.
LEMMA DeclareStep ==
    ASSUME CacheInv,
           withBatchingClient \/ BuildStarts \/ BuildGetsLock \/ BuildSucceeds \/ BuildFails
    PROVE  CacheInv'
<1>1. Typed /\ LockKept /\ PathKept /\ BuildOnce
  BY DEF CacheInv, PathInv
<1>2. UNCHANGED <<world, cache, flight, notice, closed, raw>>
  BY DEF withBatchingClient, BuildStarts, BuildGetsLock, BuildSucceeds, BuildFails, registry
<1>3. Typed'
  BY <1>1, <1>2 DEF Typed, world, cache
<1>4. CASE withBatchingClient
  <2>1. \A t \in Tables : ~Open(t) /\ ~Open(t)'
    BY <1>4 DEF withBatchingClient, Open
  <2>2. LockKept' /\ PathKept'
    BY <1>1, <1>2, <1>4, <2>1 DEF withBatchingClient, LockKept, PathKept, Typed, RawOf, lock
  <2>3. BuildOnce'
    BY <1>1, <1>4 DEF withBatchingClient, BuildOnce, lock
  <2>4. QED
    BY <1>2, <1>3, <2>1, <2>2, <2>3, CacheUntouched DEF PathInv
<1>5. CASE BuildStarts \/ BuildGetsLock
  <2>1. UNCHANGED registry /\ \A t \in Tables : Open(t)' <=> Open(t)
    BY <1>5 DEF BuildStarts, BuildGetsLock, Open, registry
  <2>2. holder = Free \/ UNCHANGED holder
    BY <1>5 DEF BuildStarts, BuildGetsLock, Acquire, LockIsFree, NextInLine
  <2>3. LockKept' /\ PathKept'
    BY <1>1, <1>2, <2>1, <2>2, FiberAssumption DEF LockKept, PathKept, Typed, RawOf
  <2>4. BuildOnce'
    <3> DEFINE F == RawCallers \cup {Build}
    <3>1. queue \in Seq(F) /\ Build \in F
      BY <1>1 DEF BuildOnce
    <3>2. CASE BuildStarts
      <4>1. /\ declared = "creating" /\ declared' = "creating" /\ holder # Build
            /\ \A i \in DOMAIN queue : queue[i] # Build
            /\ Acquire(Build)
        BY <3>2 DEF BuildStarts, registry
      <4>2. QED
        BY <3>1, <4>1, LineType DEF BuildOnce
    <3>3. CASE BuildGetsLock
      <4>1. /\ NextInLine(Build) /\ holder' = Build /\ queue' = Tail(queue)
            /\ UNCHANGED declared
        BY <3>3 DEF BuildGetsLock, registry
      <4>2. /\ queue' \in Seq(F) /\ 1 \in DOMAIN queue /\ queue[1] = Build
            /\ \A i \in DOMAIN queue' :
                  i \in Nat /\ i # 0 /\ i + 1 \in DOMAIN queue /\ queue'[i] = queue[i + 1]
        BY <3>1, <4>1, LineType
      <4>3. declared = "creating" /\ \A j \in DOMAIN queue : queue[j] = Build => 1 = j
        BY <1>1, <4>2 DEF BuildOnce
      <4>4. \A i \in DOMAIN queue' : queue'[i] # Build
        BY <4>2, <4>3
      <4>5. QED
        BY <4>1, <4>2, <4>3, <4>4 DEF BuildOnce
    <3>4. QED
      BY <1>5, <3>2, <3>3
  <2>5. QED
    BY <1>2, <1>3, <2>1, <2>3, <2>4, CacheUntouched DEF PathInv
<1>6. CASE BuildSucceeds \/ BuildFails
  <2>1. holder = Build /\ holder' = Free /\ UNCHANGED queue
    BY <1>6 DEF BuildSucceeds, BuildFails
  <2>2. \A r \in RawCallers : raw[r].phase # "calls"
    BY <1>1, <2>1, FiberAssumption DEF LockKept
  <2>3. LockKept' /\ PathKept'
    BY <1>2, <2>2 DEF LockKept, PathKept
  <2>4. BuildOnce'
    BY <1>1, <1>2, <2>1, FiberAssumption DEF BuildOnce
  <2>5. ~closed => \A t \in Tables : ~Open(t)
    BY <1>1, <2>1 DEF BuildOnce, Open
  <2>6. QED
    BY <1>2, <1>3, <2>3, <2>4, <2>5, CacheUntouched DEF PathInv
<1>7. QED
  BY <1>4, <1>5, <1>6

\* A fiber that gives up leaves its place in the line.
LEMMA Removed ==
    ASSUME NEW F, NEW q \in Seq(F), NEW i \in DOMAIN q
    PROVE  /\ RemoveAt(q, i) \in Seq(F)
           /\ \A j \in DOMAIN RemoveAt(q, i) :
                 \E k \in DOMAIN q : k # i /\ RemoveAt(q, i)[j] = q[k]
<1> DEFINE before == SubSeq(q, 1, i - 1)
           after == SubSeq(q, i + 1, Len(q))
           r == before \o after
<1>1. i \in 1..Len(q) /\ Len(q) \in Nat /\ DOMAIN q = 1..Len(q)
  BY LenProperties
<1>2. /\ before \in Seq(F) /\ Len(before) = i - 1
      /\ \A j \in 1..i - 1 : before[j] = q[j]
  BY <1>1
<1>3. /\ after \in Seq(F) /\ Len(after) = Len(q) - i
      /\ \A j \in 1..Len(q) - i : after[j] = q[i + j]
  BY <1>1
<1> HIDE DEF before, after
<1>4. /\ r \in Seq(F) /\ Len(r) = Len(before) + Len(after)
      /\ \A j \in 1..Len(before) + Len(after) :
            r[j] = IF j <= Len(before) THEN before[j] ELSE after[j - Len(before)]
  BY <1>2, <1>3, ConcatProperties
<1> HIDE DEF r
<1>5. Len(r) = Len(q) - 1 /\ DOMAIN r = 1..Len(q) - 1
  BY <1>1, <1>2, <1>3, <1>4
<1>6. ASSUME NEW j \in 1..Len(q) - 1
      PROVE  \E k \in 1..Len(q) : k # i /\ r[j] = q[k]
  <2>1. CASE j <= i - 1
    <3>1. r[j] = before[j] /\ before[j] = q[j] /\ j # i /\ j \in 1..Len(q)
      BY <1>1, <1>2, <1>3, <1>4, <2>1
    <3> QED
      BY <3>1
  <2>2. CASE j > i - 1
    <3>1. j - (i - 1) \in 1..Len(q) - i /\ i + (j - (i - 1)) = j + 1
      BY <1>1, <2>2
    <3>2. j + 1 \in 1..Len(q) /\ j + 1 # i
      BY <1>1, <2>2
    <3>3. r[j] = after[j - (i - 1)]
      BY <1>1, <1>2, <1>3, <1>4, <2>2
    <3>4. after[j - (i - 1)] = q[j + 1]
      BY <1>3, <3>1
    <3> QED
      BY <3>2, <3>3, <3>4
  <2> QED
    BY <1>1, <2>1, <2>2
<1>7. RemoveAt(q, i) = r
  BY DEF RemoveAt, before, after, r
<1> QED
  BY <1>1, <1>4, <1>5, <1>6, <1>7

\* The build is in no place of the line once the scope is closed.
LEMMA BuildLeaves ==
    ASSUME BuildOnce, Close
    PROVE  BuildOnce'
<1> DEFINE F == RawCallers \cup {Build}
<1>1. queue \in Seq(F) /\ holder' # Build
  BY FiberAssumption DEF BuildOnce, Close
<1>2. CASE (\A i \in DOMAIN queue : queue[i] # Build) /\ UNCHANGED queue
  BY <1>1, <1>2 DEF BuildOnce
<1>3. ASSUME NEW i \in DOMAIN queue, queue[i] = Build, queue' = RemoveAt(queue, i)
      PROVE  BuildOnce'
  <2>1. queue' \in Seq(F) /\ \A j \in DOMAIN queue' : queue'[j] # Build
    BY <1>1, <1>3, Removed DEF BuildOnce
  <2> QED
    BY <1>1, <2>1 DEF BuildOnce
<1> QED
  BY <1>2, <1>3 DEF Close

\* The scope closes: what was sent and not answered is forgotten.
LEMMA CloseStep ==
    ASSUME CacheInv, Close
    PROVE  CacheInv'
<1>1. Typed /\ LockKept /\ PathKept
  BY DEF CacheInv, PathInv
<1>2. closed' = TRUE /\ UNCHANGED <<world, cache, notice, raw>>
  BY DEF Close
<1>3. \A t \in Tables : Open(t)' => Open(t)
  BY DEF Close, Open
<1>4. flight' = [t \in Tables |-> IF Active(t) THEN Idle(t) ELSE flight[t]]
  BY DEF Close
<1>5. \A t \in Tables : flight'[t] \in FlightOf(t, flight'[t].todo) /\ ~Active(t)'
  <2> SUFFICES ASSUME NEW t \in Tables
               PROVE  flight'[t] \in FlightOf(t, flight'[t].todo) /\ ~Active(t)'
    OBVIOUS
  <2>1. CASE Active(t)
    <3>1. flight'[t] = Idle(t)
      BY <1>4, <2>1
    <3>2. QED
      BY <3>1, IdleType DEF Active
  <2>2. CASE ~Active(t)
    <3>1. flight'[t] = flight[t]
      BY <1>4, <2>2
    <3>2. QED
      BY <1>1, <2>2, <3>1 DEF Active, Typed
  <2>3. QED
    BY <2>1, <2>2
<1>6. Typed'
  BY <1>1, <1>2, <1>4, <1>5 DEF Typed, world, cache
<1>7. LockKept' /\ PathKept'
  <2>1. holder' = holder \/ holder = Build
    BY DEF Close
  <2>2. QED
    BY <1>1, <1>2, <1>3, <2>1, FiberAssumption DEF LockKept, PathKept, Typed, RawOf
<1>8. BuildOnce' /\ OnlyWhenOpen'
  BY <1>2, BuildLeaves DEF CacheInv, PathInv, OnlyWhenOpen
<1>9. SeenBefore'
  BY <1>5 DEF SeenBefore
<1>10. TakenIsThere' /\ CacheIsTrue'
  BY <1>2 DEF TakenIsThere, CacheIsTrue, Excused
<1>11. QED
  BY <1>6, <1>7, <1>8, <1>9, <1>10 DEF CacheInv, PathInv

\* A raw write arrives, is refused or is sent.
LEMMA RawStep ==
    ASSUME CacheInv, NEW r \in RawCallers,
           (\E w \in RawWrites : RawBegins(r, w)) \/ RawRefused(r) \/ RawStarts(r)
    PROVE  CacheInv'
<1>1. Typed /\ LockKept /\ PathKept /\ BuildOnce
  BY DEF CacheInv, PathInv
<1>2. UNCHANGED <<world, cache, flight, notice, registry>>
  BY DEF RawBegins, RawRefused, RawStarts
<1>3. \A t \in Tables : (Open(t)' <=> Open(t)) /\ (Open(t) => Guarded(t))
  BY <1>2 DEF Open, Guarded, registry
<1>4. BuildOnce'
  <2>1. \/ Acquire(r)
        \/ NextInLine(r) /\ queue' = Tail(queue) /\ holder' \in {r, holder}
    BY DEF RawBegins, RawRefused, RawStarts
  <2>2. QED
    BY <1>1, <1>2, <2>1, BuildUntouched DEF registry
<1> DEFINE Moved ==
             /\ raw' \in [RawCallers -> RawOf]
             /\ \A q \in RawCallers \ {r} : raw'[q] = raw[q]
             /\ raw'[r].phase = "calls" =>
                   holder = Free /\ holder' = r /\ ~Guarded(raw'[r].table)
             /\ raw'[r].phase # "calls" => UNCHANGED holder
<1>5. Moved
  <2>1. ASSUME NEW w \in RawWrites, RawBegins(r, w)
        PROVE  Moved
    <3> DEFINE p == IF LockIsFree THEN "calls" ELSE "waits"
    <3>1. /\ raw' = [raw EXCEPT ![r] = RawWrite(p, w)]
          /\ ~(LockIsFree /\ Guarded(w.table))
          /\ LockIsFree => holder = Free /\ holder' = r
          /\ ~LockIsFree => UNCHANGED holder
      BY <2>1 DEF RawBegins, Acquire, LockIsFree
    <3>2. /\ RawWrite(p, w) \in RawOf /\ RawWrite(p, w).phase = p
          /\ RawWrite(p, w).table = w.table
      <4>1. w.table \in Tables /\ w.address \in Addresses /\ w.value \in Values
        BY RequestAssumption DEF Addresses, AddressesOf
      <4>2. QED
        BY <4>1 DEF RawWrite, RawOf
    <3>3. p = "calls" <=> LockIsFree
      OBVIOUS
    <3> HIDE DEF p
    <3>4. QED
      BY <1>1, <3>1, <3>2, <3>3 DEF Typed
  <2>2. ASSUME RawRefused(r)
        PROVE  Moved
    <3>1. NoRaw \in RawOf /\ NoRaw.phase = "idle"
      BY ValueAssumption DEF NoRaw, RawOf, Tables
    <3>2. raw' = [raw EXCEPT ![r] = NoRaw] /\ UNCHANGED holder
      BY <2>2 DEF RawRefused
    <3>3. QED
      BY <1>1, <3>1, <3>2 DEF Typed
  <2>3. ASSUME RawStarts(r)
        PROVE  Moved
    <3>1. /\ raw' = [raw EXCEPT ![r].phase = "calls"] /\ holder = Free /\ holder' = r
          /\ ~Guarded(raw[r].table)
      BY <2>3 DEF RawStarts, NextInLine
    <3>2. raw'[r] \in RawOf /\ raw'[r].phase = "calls" /\ raw'[r].table = raw[r].table
      BY <1>1, <3>1 DEF Typed, RawOf
    <3>3. QED
      BY <1>1, <3>1, <3>2 DEF Typed
  <2>4. QED
    BY <2>1, <2>2, <2>3
<1>6. Typed'
  BY <1>1, <1>2, <1>5 DEF Typed, world, cache
<1>7. LockKept' /\ PathKept'
  <2>1. raw'[r].phase = "calls" => \A q \in RawCallers : raw[q].phase # "calls"
    BY <1>1, <1>5, FiberAssumption DEF LockKept
  <2>2. LockKept'
    BY <1>1, <1>5, <2>1 DEF LockKept
  <2>3. PathKept'
    <3> SUFFICES ASSUME NEW q \in RawCallers, (raw[q].phase = "calls")'
                 PROVE  (~Open(raw[q].table))'
      BY DEF PathKept
    <3>1. raw'[q].table \in Tables
      BY <1>5 DEF RawOf
    <3>2. ~Open(raw'[q].table)
      BY <1>1, <1>3, <1>5, <3>1 DEF PathKept
    <3>3. QED
      BY <1>2, <3>2 DEF Open, registry
  <2>4. QED
    BY <2>2, <2>3
<1>8. QED
  BY <1>2, <1>3, <1>4, <1>6, <1>7, CacheUntouched DEF PathInv, registry

\* What a raw write changed is in a table that no cache believes anything of.
LEMMA RawEndStep ==
    ASSUME CacheInv, NEW r \in RawCallers, RawEnds(r)
    PROVE  CacheInv'
<1> DEFINE x == raw[r].table
<1>1. Typed /\ LockKept /\ PathKept /\ BuildOnce
  BY DEF CacheInv, PathInv
<1>2. /\ raw[r].phase = "calls" /\ raw' = [raw EXCEPT ![r] = NoRaw]
      /\ holder' = Free /\ UNCHANGED queue
      /\ UNCHANGED <<doubt, harmed, cache, flight, notice, registry>>
  BY DEF RawEnds
<1>3. /\ DOMAIN device' = Tables /\ \A t \in Tables : device'[t] \in Contents(t)
      /\ \A t \in Tables \ {x} : device'[t] = device[t]
  <2>1. CASE device' = device
    BY <1>1, <2>1 DEF Typed
  <2>2. CASE device' = [device EXCEPT ![x][raw[r].address] = raw[r].value]
    <3>1. raw[r].value \in Values
      BY <1>1 DEF Typed, RawOf
    <3>2. QED
      BY <1>1, <2>2, <3>1 DEF Typed, Contents
  <2>3. QED
    BY <2>1, <2>2 DEF RawEnds
<1>4. /\ raw' \in [RawCallers -> RawOf] /\ raw'[r].phase # "calls"
      /\ \A q \in RawCallers \ {r} : raw'[q] = raw[q]
  <2>1. NoRaw \in RawOf /\ NoRaw.phase = "idle"
    BY ValueAssumption DEF NoRaw, RawOf, Tables
  <2>2. QED
    BY <1>1, <1>2, <2>1 DEF Typed
<1>5. Typed'
  BY <1>1, <1>2, <1>3, <1>4 DEF Typed, cache
<1>6. \A q \in RawCallers : raw'[q].phase # "calls"
  BY <1>1, <1>2, <1>4 DEF LockKept
<1>7. LockKept' /\ PathKept'
  BY <1>6 DEF LockKept, PathKept
<1>8. BuildOnce'
  BY <1>1, <1>2, BuildUntouched DEF registry
<1>9. OnlyWhenOpen' /\ SeenBefore'
  BY <1>2 DEF CacheInv, OnlyWhenOpen, SeenBefore, Active, Open, cache, registry
<1>10. closed \/ (held[x] = NoWrites(x) /\ ~Active(x))
  <2>1. x \in Tables /\ ~Open(x)
    BY <1>1, <1>2 DEF PathKept, Typed, RawOf
  <2>2. QED
    BY <2>1 DEF CacheInv, OnlyWhenOpen
<1> HIDE DEF x
<1>11. TakenIsThere'
  BY <1>2, <1>3, <1>10 DEF CacheInv, TakenIsThere, Excused, Active, cache, registry
<1>12. CacheIsTrue'
  <2> SUFFICES ASSUME NEW t \in Tables, NEW a \in AddressesOf(t), ~closed
               PROVE  Believed(t, a)' \/ OnTheWire(t, a)' \/ Excused'
    BY <1>2 DEF CacheIsTrue, Excused, registry
  <2>1. CASE t = x
    BY <1>2, <1>10, <2>1 DEF Believed, NoWrites, cache
  <2>2. CASE t # x
    BY <1>2, <1>3, <2>2
       DEF CacheInv, CacheIsTrue, Believed, OnTheWire, Excused, cache, registry
  <2>3. QED
    BY <2>1, <2>2
<1>13. QED
  BY <1>5, <1>7, <1>8, <1>9, <1>11, <1>12 DEF CacheInv, PathInv

-----------------------------------------------------------------------------
(* The theorems.                                                           *)

LEMMA InitInv == Init => CacheInv
<1> SUFFICES ASSUME Init PROVE CacheInv
  OBVIOUS
<1>1. Typed
  <2>1. \A t \in Tables : Idle(t) \in FlightOf(t, Idle(t).todo)
    BY IdleType
  <2>2. NoRaw \in RawOf
    BY ValueAssumption DEF NoRaw, RawOf, Tables
  <2>3. \A t \in Tables : device[t] \in Contents(t)
    BY ValueAssumption DEF Init, Contents
  <2>4. QED
    BY <2>1, <2>2, <2>3, NoWritesType DEF Init, Typed
<1>2. \A t \in Tables : ~Active(t) /\ flight[t].phase # "taken" /\ held[t] = NoWrites(t)
  BY IdleType DEF Init, Active
<1>3. \A r \in RawCallers : raw[r].phase # "calls"
  BY DEF Init, NoRaw
<1>4. BuildOnce
  BY FiberAssumption DEF Init, BuildOnce
<1>5. OnlyWhenOpen /\ SeenBefore /\ TakenIsThere
  BY <1>2 DEF OnlyWhenOpen, SeenBefore, TakenIsThere
<1>6. CacheIsTrue
  BY <1>2 DEF CacheIsTrue, Believed, NoWrites
<1>7. QED
  BY <1>1, <1>3, <1>4, <1>5, <1>6 DEF CacheInv, PathInv, LockKept, PathKept

LEMMA StutterStep ==
    ASSUME CacheInv, UNCHANGED vars
    PROVE  CacheInv'
<1>1. /\ UNCHANGED <<world, cache, flight, notice, registry, raw, lock>>
      /\ UNCHANGED closed /\ Typed
  BY DEF vars, registry, CacheInv, PathInv
<1>2. Typed'
  BY <1>1 DEF Typed, world, cache
<1>3. PathInv' /\ \A t \in Tables : Open(t)' <=> Open(t)
  BY <1>1, <1>2, PathUntouched DEF CacheInv
<1>4. QED
  BY <1>1, <1>3, CacheUntouched

LEMMA NextInv == CacheInv /\ [Next]_vars => CacheInv'
<1> SUFFICES ASSUME CacheInv, [Next]_vars PROVE CacheInv'
  OBVIOUS
<1>1. ASSUME NEW t \in Tables, NEW b \in Batches,
             b.table = t, issueWrites(t, Proposed(t, b.writes), b.forced)
      PROVE  CacheInv'
  <2>1. Proposed(t, b.writes) \in Beliefs(t)
    BY <1>1, ProposedType
  <2>2. QED
    BY <1>1, <2>1, IssueStep
<1>2. ASSUME NEW t \in Tables,
             BatchSteps(t) \/ AttemptFails(t) \/ WriteInterrupted(t)
      PROVE  CacheInv'
  BY <1>2, GapsReadStep, TakesStep, AcknowledgeStep, FailStep, RetryStep, InterruptStep
     DEF BatchSteps
<1>3. CASE PowerCycle \/ LinkLost \/ watchLink
  BY <1>3, LossStep, WatchStep
<1>4. CASE \/ withBatchingClient \/ BuildStarts \/ BuildGetsLock \/ BuildSucceeds
           \/ BuildFails \/ Close
  BY <1>4, DeclareStep, CloseStep
<1>5. ASSUME NEW r \in RawCallers,
             \/ \E w \in RawWrites : RawBegins(r, w)
             \/ RawRefused(r) \/ RawStarts(r) \/ RawEnds(r)
      PROVE  CacheInv'
  BY <1>5, RawStep, RawEndStep
<1>6. CASE UNCHANGED vars
  BY <1>6, StutterStep
<1>7. QED
  BY <1>1, <1>2, <1>3, <1>4, <1>5, <1>6 DEF Next

\* The invariant of the write lock, the declaration, the batches and the caches
\* holds in every behaviour.
THEOREM CachesAreKept == Spec => []CacheInv
BY InitInv, NextInv, PTL DEF Spec

\* "drops a write whose value the device already holds": what a write cache believes
\* is on the device, unless the device lost it in a way that no transaction or link
\* change has told, or the request that changes it is on the wire
\* (createEncodedCache, issueWrites, watchLink and guardRawWrites).
THEOREM CachesAreTrue == Spec => []CacheIsTrue
<1>1. CacheInv => CacheIsTrue
  BY DEF CacheInv
<1>2. QED
  BY <1>1, CachesAreKept, PTL

\* A unit has one write path per table: no raw write is on the wire while a batch of
\* its table can be, however the declaration, the raw calls and the close interleave
\* (guardRawWrites and the build of withBatchingClient, under the write lock).
THEOREM OnePathPerTable == Spec => []OneWritePath
<1>1. CacheInv => OneWritePath
  BY DEF CacheInv, PathInv, PathKept, Open, OneWritePath, Typed, RawOf, Tables
<1>2. QED
  BY <1>1, CachesAreKept, PTL

-----------------------------------------------------------------------------
(* The batches: what is sent follows the plan and reaches the device.      *)

FlagsTyped ==
    /\ notice \in BOOLEAN /\ doubt \in {"none", "unseen", "interrupted"}
    /\ harmed \in [Tables -> BOOLEAN]
    /\ declared \in {"no", "creating", "yes"} /\ coilUnit \in BOOLEAN /\ closed \in BOOLEAN
    /\ coilUnit => declared # "no"
    /\ holder \in RawCallers \cup {Build, Free}

\* Both caches are forgotten together, and a change of the link that the watcher has
\* still to see leaves room for it.
GenerationsAgree ==
    /\ generation["registers"] = generation["coils"]
    /\ \A t \in Tables :
          generation[t] <= IF notice THEN MaxGeneration ELSE MaxGeneration + 1

TodoTyped(t) ==
    /\ flight[t].todo \in Seq(SUBSET AddressesOf(t))
    /\ flight[t].seen <= generation[t]

\* A transaction writes what the batch says wherever its plan took it from the batch.
OnPlan(t) ==
    Active(t) =>
        /\ flight[t].todo # <<>>
        /\ \A a \in AddressesOf(t) :
              /\ flight[t].written[a] # Unknown => flight[t].written[a] = flight[t].writes[a]
              /\ flight[t].values[a] # Unknown => a \in Head(flight[t].todo)
              /\ a \in Head(flight[t].todo) /\ flight[t].written[a] # Unknown =>
                    flight[t].values[a] = flight[t].written[a]

\* Until the device loses state: what is proposed for an address is there or still to
\* be sent, what a span writes in a gap is there, and so is what the cache believes.
OnItsWay(t) ==
    Active(t) /\ ~harmed[t] =>
        \A a \in AddressesOf(t) :
            /\ flight[t].writes[a] # Unknown =>
                  \/ device[t][a] = flight[t].writes[a]
                  \/ /\ flight[t].written[a] # Unknown
                     /\ \E i \in DOMAIN flight[t].todo : a \in flight[t].todo[i]
            /\ flight[t].written[a] = Unknown /\ flight[t].values[a] # Unknown =>
                  flight[t].values[a] = device[t][a]
            /\ Believed(t, a) \/ OnTheWire(t, a)
            /\ flight[t].phase = "taken" /\ flight[t].values[a] # Unknown =>
                  device[t][a] = flight[t].values[a]

Reached(t) ==
    flight[t].phase = "done" /\ ~harmed[t] =>
        \A a \in AddressesOf(t) :
            flight[t].writes[a] # Unknown => device[t][a] = flight[t].writes[a]

\* A raw write can change the table only before its first batch.
BegunWhenOpen(t) == flight[t].phase # "idle" => Open(t)

BatchOf(t) == TodoTyped(t) /\ OnPlan(t) /\ OnItsWay(t) /\ Reached(t) /\ BegunWhenOpen(t)

BatchInv == CacheInv /\ FlagsTyped /\ GenerationsAgree /\ \A t \in Tables : BatchOf(t)

-----------------------------------------------------------------------------
(* The plan of a batch.                                                    *)

LEMMA LimitedTo ==
    ASSUME NEW A, NEW B, NEW q \in Seq(A), \A k \in 1..Len(q) : q[k] \in B
    PROVE  q \in Seq(B)
<1>1. Len(q) \in Nat /\ DOMAIN q = 1..Len(q) /\ q \in [1..Len(q) -> A]
  BY LenProperties
<1>2. q \in [1..Len(q) -> B]
  BY <1>1
<1> QED
  BY <1>1, <1>2

\* A span of the coils writes only coils, and one of the registers only what the batch
\* has: it spans no gap.
LEMMA PlanFacts ==
    ASSUME NEW t \in Tables, NEW S, S \subseteq AddressesOf(t)
    PROVE  /\ Plan(t, S) \in Seq(SUBSET AddressesOf(t))
           /\ \A a \in S : \E k \in DOMAIN Plan(t, S) : a \in Plan(t, S)[k]
<1> DEFINE plan == Plan(t, S)
<1>1. AddressesOf(t) \subseteq Nat /\ IsFiniteSet(AddressesOf(t))
  BY AddressAssumption DEF AddressesOf
<1>2. S \subseteq Nat /\ IsFiniteSet(S)
  BY <1>1, FS_Subset
<1>3. GapOf(t) \in Nat /\ Limit \in Nat \ {0} /\ MinRun \in Nat
  BY BoundAssumption DEF GapOf
<1>4. PlanFor(S, Limit, GapOf(t), plan)
  BY <1>2, <1>3, PlansAreSound DEF Plan
<1> HIDE DEF plan
<1>5. ASSUME NEW k \in 1..Len(plan)
      PROVE  plan[k] \in SUBSET AddressesOf(t)
  <2>1. SpanOf(S, Limit, GapOf(t), plan[k])
    BY <1>4 DEF PlanFor
  <2>2. PICK lo, hi \in S : plan[k] = lo..hi /\ (GapOf(t) = 0 => plan[k] \subseteq S)
    BY <2>1 DEF SpanOf
  <2>3. CASE t = "registers"
    BY <2>2, <2>3 DEF GapOf
  <2>4. CASE t # "registers"
    BY <2>2, <2>4, AddressAssumption DEF AddressesOf
  <2> QED
    BY <2>3, <2>4
<1>6. plan \in Seq(SUBSET Nat) /\ DOMAIN plan = 1..Len(plan)
  BY <1>4 DEF PlanFor
<1>7. plan \in Seq(SUBSET AddressesOf(t))
  BY <1>5, <1>6, LimitedTo
<1>8. \A a \in S : \E k \in DOMAIN plan : a \in plan[k]
  BY <1>4, <1>6 DEF PlanFor
<1> QED
  BY <1>7, <1>8 DEF plan

\* What a batch leaves out of its plan is what the cache believes already.
LEMMA ChosenFacts ==
    ASSUME NEW t \in Tables, NEW writes \in Beliefs(t), NEW forced, held[t] \in Beliefs(t)
    PROVE  LET S == chosen(t, writes, filter(t, writes, forced))
           IN  /\ S \subseteq AddressesOf(t) /\ \A a \in S : writes[a] # Unknown
               /\ \A a \in AddressesOf(t) :
                     writes[a] # Unknown => a \in S \/ held[t][a] = writes[a]
<1> DEFINE whole == {a \in AddressesOf(t) : writes[a] # Unknown}
           pending == filter(t, writes, forced)
<1>1. chosen(t, writes, pending) \in {whole, pending}
  BY DEF chosen
<1>2. /\ pending \subseteq whole
      /\ \A a \in whole : a \in pending \/ held[t][a] = writes[a]
  BY DEF filter
<1> QED
  BY <1>1, <1>2

-----------------------------------------------------------------------------
(* The steps of a batch.                                                   *)

\* The transactions `todo` go out, or the batch is done.
LEMMA StepGoesOut ==
    ASSUME Typed, NEW t \in Tables, NEW writes \in Beliefs(t), NEW written \in Beliefs(t),
           NEW todo \in Seq(SUBSET AddressesOf(t)), NEW beliefs \in Beliefs(t),
           flight'[t] = issueStep(t, writes, written, todo, beliefs),
           held'[t] = beliefs, UNCHANGED generation, Open(t)',
           \A a \in AddressesOf(t) : written[a] # Unknown => written[a] = writes[a],
           ~harmed'[t] => \A a \in AddressesOf(t) :
               /\ beliefs[a] = Unknown \/ beliefs[a] = device'[t][a]
               /\ writes[a] # Unknown =>
                     \/ device'[t][a] = writes[a]
                     \/ written[a] # Unknown /\ \E i \in DOMAIN todo : a \in todo[i]
    PROVE  BatchOf(t)'
<1>1. generation[t] \in Nat /\ BegunWhenOpen(t)'
  BY DEF Typed, BegunWhenOpen
<1>2. CASE todo = <<>>
  <2>1. flight'[t] = [Idle(t) EXCEPT !.phase = "done", !.writes = writes]
    BY <1>2 DEF issueStep
  <2>2. /\ flight'[t].phase = "done" /\ flight'[t].writes = writes
        /\ flight'[t].todo = <<>> /\ flight'[t].seen = 0
    BY <2>1 DEF Idle
  <2>3. TodoTyped(t)'
    BY <1>1, <2>2 DEF TodoTyped
  <2>4. OnPlan(t)' /\ OnItsWay(t)'
    BY <2>2 DEF OnPlan, OnItsWay, Active
  <2>5. Reached(t)'
    BY <1>2, <2>2 DEF Reached
  <2> QED
    BY <1>1, <2>3, <2>4, <2>5 DEF BatchOf
<1>3. CASE todo # <<>>
  <2> DEFINE known == knownStates(t, Head(todo), written, beliefs)
  <2>1. \A a \in AddressesOf(t) :
           known[a] = IF a \notin Head(todo) THEN Unknown
                      ELSE IF written[a] # Unknown THEN written[a] ELSE beliefs[a]
    BY DEF knownStates
  <2> HIDE DEF known
  <2>2. flight'[t] =
           [phase |-> IF HasUnknownGap(Head(todo), known) THEN "reading" ELSE "writing",
            writes |-> writes, written |-> written, todo |-> todo, values |-> known,
            seen |-> generation[t]]
    BY <1>3 DEF issueStep, known
  <2>3. /\ flight'[t].phase \in {"reading", "writing"} /\ flight'[t].writes = writes
        /\ flight'[t].written = written /\ flight'[t].todo = todo
        /\ flight'[t].values = known /\ flight'[t].seen = generation[t]
    BY <2>2
  <2>4. TodoTyped(t)' /\ Reached(t)'
    BY <1>1, <2>3 DEF TodoTyped, Reached
  <2>5. OnPlan(t)'
    BY <1>3, <2>1, <2>3 DEF OnPlan
  <2>6. OnItsWay(t)'
    <3> SUFFICES ASSUME ~harmed'[t], NEW a \in AddressesOf(t)
                 PROVE  /\ writes[a] # Unknown =>
                              \/ device'[t][a] = writes[a]
                              \/ written[a] # Unknown /\ \E i \in DOMAIN todo : a \in todo[i]
                        /\ written[a] = Unknown /\ known[a] # Unknown => known[a] = device'[t][a]
                        /\ Believed(t, a)'
      BY <2>3 DEF OnItsWay
    <3>1. beliefs[a] = Unknown \/ beliefs[a] = device'[t][a]
      OBVIOUS
    <3> QED
      BY <2>1, <3>1 DEF Believed
  <2> QED
    BY <1>1, <2>4, <2>5, <2>6 DEF BatchOf
<1> QED
  BY <1>2, <1>3

LEMMA BatchIssued ==
    ASSUME CacheInv, FlagsTyped, NEW t \in Tables, BatchOf(t),
           NEW writes \in Beliefs(t), NEW forced, issueWrites(t, writes, forced)
    PROVE  BatchOf(t)'
<1> DEFINE S == chosen(t, writes, filter(t, writes, forced))
           written == Part(t, writes, S)
           todo == Plan(t, S)
<1>1. /\ Typed /\ Open(t) /\ Open(t)' /\ ~closed /\ ~Active(t)
      /\ UNCHANGED <<device, doubt, held, generation, notice>>
  BY DEF CacheInv, PathInv, issueWrites, Open, cache, registry
<1>2. flight'[t] = issueStep(t, writes, written, todo, held[t])
  BY <1>1 DEF issueWrites, Typed
<1>3. held[t] \in Beliefs(t)
  BY <1>1 DEF Typed
<1>4. /\ S \subseteq AddressesOf(t) /\ \A a \in S : writes[a] # Unknown
      /\ \A a \in AddressesOf(t) : writes[a] # Unknown => a \in S \/ held[t][a] = writes[a]
  BY <1>3, ChosenFacts
<1> HIDE DEF S
<1>5. written \in Beliefs(t) /\ \A a \in AddressesOf(t) :
                                   written[a] = IF a \in S THEN writes[a] ELSE Unknown
  BY PartType DEF Part
<1>6. todo \in Seq(SUBSET AddressesOf(t)) /\ \A a \in S : \E i \in DOMAIN todo : a \in todo[i]
  BY <1>4, PlanFacts
<1> HIDE DEF written, todo
<1>7. ASSUME ~harmed'[t], NEW a \in AddressesOf(t)
      PROVE  /\ held[t][a] = Unknown \/ held[t][a] = device'[t][a]
             /\ writes[a] # Unknown =>
                   \/ device'[t][a] = writes[a]
                   \/ written[a] # Unknown /\ \E i \in DOMAIN todo : a \in todo[i]
  <2>1. harmed' = [harmed EXCEPT ![t] = doubt # "none" \/ notice]
    BY DEF issueWrites
  <2>2. doubt = "none" /\ ~notice
    BY <1>7, <2>1 DEF FlagsTyped
  <2>3. ~OnTheWire(t, a)
    BY <1>1 DEF OnTheWire, Active
  <2>4. Believed(t, a)
    BY <1>1, <2>2, <2>3 DEF CacheInv, CacheIsTrue
  <2> QED
    BY <1>1, <1>4, <1>5, <1>6, <2>4 DEF Believed
<1>8. \A a \in AddressesOf(t) : written[a] # Unknown => written[a] = writes[a]
  BY <1>5
<1>9. ~harmed'[t] => \A a \in AddressesOf(t) :
         /\ held[t][a] = Unknown \/ held[t][a] = device'[t][a]
         /\ writes[a] # Unknown =>
               \/ device'[t][a] = writes[a]
               \/ written[a] # Unknown /\ \E i \in DOMAIN todo : a \in todo[i]
  BY <1>7
<1>10. held'[t] = held[t] /\ UNCHANGED generation
  BY <1>1
<1> QED
  BY <1>1, <1>2, <1>3, <1>5, <1>6, <1>8, <1>9, <1>10, StepGoesOut

LEMMA BatchReads ==
    ASSUME Typed, NEW t \in Tables, BatchOf(t), GapsRead(t)
    PROVE  BatchOf(t)'
<1> DEFINE f == flight[t]
           values == fillGaps(t)
<1>1. /\ f.phase = "reading" /\ UNCHANGED <<device, held, generation, harmed, declared, coilUnit>>
  BY DEF GapsRead, world, cache, registry
<1>2. /\ flight'[t].phase = "writing" /\ flight'[t].values = values
      /\ flight'[t].writes = f.writes /\ flight'[t].written = f.written
      /\ flight'[t].todo = f.todo /\ flight'[t].seen = f.seen
  BY DEF GapsRead, Typed, FlightOf
<1>3. \A a \in AddressesOf(t) :
         values[a] = IF a \in Head(f.todo) /\ f.values[a] = Unknown THEN device[t][a]
                     ELSE f.values[a]
  BY DEF fillGaps
<1> HIDE DEF values
<1>4. TodoTyped(t)' /\ BegunWhenOpen(t)' /\ Reached(t)'
  BY <1>1, <1>2 DEF BatchOf, TodoTyped, BegunWhenOpen, Open, Reached
<1>5. OnPlan(t)'
  BY <1>1, <1>2, <1>3 DEF BatchOf, OnPlan, Active
<1>6. OnItsWay(t)'
  BY <1>1, <1>2, <1>3 DEF BatchOf, OnItsWay, OnPlan, Active, Believed, OnTheWire
<1> QED
  BY <1>4, <1>5, <1>6 DEF BatchOf

LEMMA BatchTaken ==
    ASSUME Typed, NEW t \in Tables, BatchOf(t), DeviceTakes(t)
    PROVE  BatchOf(t)'
<1> DEFINE f == flight[t]
<1>1. /\ f.phase = "writing" /\ UNCHANGED <<held, generation, harmed, declared, coilUnit>>
      /\ device' = Written(t, f.values) /\ f.values \in Beliefs(t)
  BY DEF DeviceTakes, cache, registry, Typed, FlightOf
<1>2. /\ flight'[t].phase = "taken" /\ flight'[t].values = f.values
      /\ flight'[t].writes = f.writes /\ flight'[t].written = f.written
      /\ flight'[t].todo = f.todo /\ flight'[t].seen = f.seen
  BY DEF DeviceTakes, Typed, FlightOf
<1>3. \A a \in AddressesOf(t) :
         device'[t][a] = IF f.values[a] # Unknown THEN f.values[a] ELSE device[t][a]
  BY <1>1, WrittenType
<1>4. TodoTyped(t)' /\ BegunWhenOpen(t)' /\ Reached(t)' /\ OnPlan(t)'
  BY <1>1, <1>2 DEF BatchOf, TodoTyped, BegunWhenOpen, Open, Reached, OnPlan, Active
<1>5. ASSUME ~harmed[t], NEW a \in AddressesOf(t)
      PROVE  /\ f.writes[a] # Unknown =>
                   \/ device'[t][a] = f.writes[a]
                   \/ f.written[a] # Unknown /\ \E i \in DOMAIN f.todo : a \in f.todo[i]
             /\ f.values[a] # Unknown => device'[t][a] = f.values[a]
             /\ f.values[a] = Unknown => Believed(t, a)'
  <2>1. /\ f.writes[a] # Unknown =>
              \/ device[t][a] = f.writes[a]
              \/ f.written[a] # Unknown /\ \E i \in DOMAIN f.todo : a \in f.todo[i]
        /\ f.written[a] = Unknown /\ f.values[a] # Unknown => f.values[a] = device[t][a]
        /\ Believed(t, a) \/ OnTheWire(t, a)
    BY <1>1, <1>5 DEF BatchOf, OnItsWay, Active
  <2>2. /\ f.written[a] # Unknown => f.written[a] = f.writes[a]
        /\ f.values[a] # Unknown => a \in Head(f.todo)
        /\ a \in Head(f.todo) /\ f.written[a] # Unknown => f.values[a] = f.written[a]
    BY <1>1 DEF BatchOf, OnPlan, Active
  <2> QED
    BY <1>1, <1>3, <2>1, <2>2 DEF Believed, OnTheWire
<1>6. OnItsWay(t)'
  BY <1>1, <1>2, <1>5 DEF OnItsWay, OnTheWire
<1> QED
  BY <1>4, <1>6 DEF BatchOf

LEMMA BatchAcknowledged ==
    ASSUME CacheInv, NEW t \in Tables, BatchOf(t), WriteAcknowledged(t)
    PROVE  BatchOf(t)'
<1> DEFINE f == flight[t]
           todo == Tail(f.todo)
           beliefs == observe(t, f.values, f.seen)
<1>1. Typed /\ f.phase = "taken" /\ Active(t)
  BY DEF CacheInv, PathInv, WriteAcknowledged, Active
<1>2. f.writes \in Beliefs(t) /\ f.written \in Beliefs(t) /\ f.values \in Beliefs(t)
  BY <1>1 DEF Typed, FlightOf
<1>3. /\ UNCHANGED <<device, harmed, generation, declared, coilUnit>>
      /\ held'[t] = beliefs /\ beliefs \in Beliefs(t)
      /\ flight'[t] = issueStep(t, f.writes, f.written, todo, beliefs)
  <2>1. held[t] \in Beliefs(t) /\ DOMAIN held = Tables /\ DOMAIN flight = Tables
    BY <1>1 DEF Typed
  <2>2. beliefs \in Beliefs(t)
    BY <1>2, <2>1, ObserveType
  <2> QED
    BY <2>1, <2>2 DEF WriteAcknowledged, world, registry
<1>4. Open(t)'
  BY <1>1, <1>3 DEF BatchOf, BegunWhenOpen, Open
<1>5. /\ f.todo \in Seq(SUBSET AddressesOf(t)) /\ f.todo # <<>>
      /\ \A a \in AddressesOf(t) :
            /\ f.written[a] # Unknown => f.written[a] = f.writes[a]
            /\ a \in Head(f.todo) /\ f.written[a] # Unknown => f.values[a] = f.written[a]
  BY <1>1 DEF BatchOf, TodoTyped, OnPlan
<1>6. /\ todo \in Seq(SUBSET AddressesOf(t))
      /\ \A i \in DOMAIN f.todo :
            f.todo[i] = Head(f.todo) \/ \E j \in DOMAIN todo : todo[j] = f.todo[i]
  <2>1. /\ todo \in Seq(SUBSET AddressesOf(t)) /\ Len(f.todo) \in Nat
        /\ Len(todo) = Len(f.todo) - 1 /\ DOMAIN todo = 1..Len(todo)
        /\ DOMAIN f.todo = 1..Len(f.todo) /\ Head(f.todo) = f.todo[1]
        /\ \A j \in 1..Len(todo) : todo[j] = f.todo[j + 1]
    BY <1>5
  <2>2. ASSUME NEW i \in 1..Len(f.todo), i # 1
        PROVE  i - 1 \in 1..Len(todo) /\ todo[i - 1] = f.todo[i]
    <3>1. i - 1 \in 1..Len(todo) /\ (i - 1) + 1 = i
      BY <2>1, <2>2
    <3> QED
      BY <2>1, <3>1
  <2> QED
    BY <2>1, <2>2
<1> HIDE DEF todo, beliefs
<1>7. ASSUME ~harmed'[t], NEW a \in AddressesOf(t)
      PROVE  /\ beliefs[a] = Unknown \/ beliefs[a] = device'[t][a]
             /\ f.writes[a] # Unknown =>
                   \/ device'[t][a] = f.writes[a]
                   \/ f.written[a] # Unknown /\ \E i \in DOMAIN todo : a \in todo[i]
  <2>1. /\ f.writes[a] # Unknown =>
              \/ device[t][a] = f.writes[a]
              \/ f.written[a] # Unknown /\ \E i \in DOMAIN f.todo : a \in f.todo[i]
        /\ Believed(t, a) \/ OnTheWire(t, a)
        /\ f.values[a] # Unknown => device[t][a] = f.values[a]
    BY <1>1, <1>3, <1>7 DEF BatchOf, OnItsWay
  <2>2. beliefs[a] = Unknown \/ beliefs[a] = device[t][a]
    <3>1. CASE f.seen = generation[t]
      BY <2>1, <3>1 DEF beliefs, observe, Believed, OnTheWire
    <3>2. CASE f.seen # generation[t]
      <4>1. held[t] = NoWrites(t)
        BY <1>1, <3>2 DEF CacheInv, SeenBefore
      <4>2. beliefs = held[t]
        BY <1>1, <1>2, <3>2, ObserveType DEF Typed, beliefs
      <4> QED
        BY <4>1, <4>2 DEF NoWrites
    <3> QED
      BY <3>1, <3>2
  <2>3. ASSUME f.written[a] # Unknown, NEW i \in DOMAIN f.todo, a \in f.todo[i]
        PROVE  device[t][a] = f.writes[a] \/ \E j \in DOMAIN todo : a \in todo[j]
    <3>1. CASE f.todo[i] = Head(f.todo)
      BY <1>5, <2>1, <2>3, <3>1
    <3>2. CASE \E j \in DOMAIN todo : todo[j] = f.todo[i]
      BY <2>3, <3>2
    <3> QED
      BY <1>6, <3>1, <3>2
  <2> QED
    BY <1>3, <2>1, <2>2, <2>3
<1>8. \A a \in AddressesOf(t) : f.written[a] # Unknown => f.written[a] = f.writes[a]
  BY <1>5
<1>9. ~harmed'[t] => \A a \in AddressesOf(t) :
         /\ beliefs[a] = Unknown \/ beliefs[a] = device'[t][a]
         /\ f.writes[a] # Unknown =>
               \/ device'[t][a] = f.writes[a]
               \/ f.written[a] # Unknown /\ \E i \in DOMAIN todo : a \in todo[i]
  BY <1>7
<1>10. todo \in Seq(SUBSET AddressesOf(t))
  BY <1>6
<1> QED
  BY <1>1, <1>2, <1>3, <1>4, <1>8, <1>9, <1>10, StepGoesOut

LEMMA BatchRetried ==
    ASSUME Typed, NEW t \in Tables, BatchOf(t), AttemptFails(t)
    PROVE  BatchOf(t)'
<1> DEFINE f == flight[t]
<1>1. /\ Active(t) /\ UNCHANGED <<device, held, generation, harmed, declared, coilUnit>>
  BY DEF AttemptFails, world, cache, registry
<1>2. /\ flight'[t].phase = IF f.phase = "taken" THEN "writing" ELSE f.phase
      /\ flight'[t].values = f.values
      /\ flight'[t].writes = f.writes /\ flight'[t].written = f.written
      /\ flight'[t].todo = f.todo /\ flight'[t].seen = f.seen
  BY DEF AttemptFails, Typed, FlightOf
<1>3. TodoTyped(t)' /\ BegunWhenOpen(t)' /\ Reached(t)' /\ OnPlan(t)'
  BY <1>1, <1>2 DEF BatchOf, TodoTyped, BegunWhenOpen, Open, Reached, OnPlan, Active
<1>4. OnItsWay(t)'
  BY <1>1, <1>2 DEF BatchOf, OnItsWay, Active, Believed, OnTheWire
<1> QED
  BY <1>3, <1>4 DEF BatchOf

\* A batch that fails, is interrupted or is closed.
LEMMA BatchEnds ==
    ASSUME NEW t \in Tables, flight'[t] = Idle(t), generation'[t] \in Nat
    PROVE  BatchOf(t)'
<1>1. /\ flight'[t].phase = "idle" /\ flight'[t].todo = <<>> /\ flight'[t].seen = 0
  BY DEF Idle
<1> QED
  BY <1>1 DEF BatchOf, TodoTyped, OnPlan, OnItsWay, Reached, BegunWhenOpen, Active

\* A step of somebody else leaves the device alone where the batch writes, or harms it,
\* and takes no belief but by an invalidation.
LEMMA BatchUntouched ==
    ASSUME Typed, NEW t \in Tables, BatchOf(t), flight'[t] = flight[t],
           generation'[t] \in Nat, generation'[t] >= generation[t],
           harmed[t] => harmed'[t],
           device'[t] = device[t] \/ harmed'[t] \/ flight[t].phase = "idle",
           held'[t] = held[t] \/ held'[t] = NoWrites(t),
           Open(t) => Open(t)'
    PROVE  BatchOf(t)'
<1>1. generation[t] \in Nat /\ flight[t].seen \in Nat
  BY DEF Typed, FlightOf
<1>2. TodoTyped(t)' /\ BegunWhenOpen(t)' /\ OnPlan(t)' /\ Reached(t)'
  BY <1>1 DEF BatchOf, TodoTyped, BegunWhenOpen, OnPlan, Reached, Active
<1>3. OnItsWay(t)'
  <2> SUFFICES ASSUME Active(t), ~harmed'[t] PROVE OnItsWay(t)'
    BY DEF OnItsWay, Active
  <2>1. ~harmed[t] /\ device'[t] = device[t]
    BY DEF Active
  <2>2. \A a \in AddressesOf(t) : Believed(t, a) => Believed(t, a)'
    BY <2>1 DEF Believed, NoWrites
  <2>3. \A a \in AddressesOf(t) : OnTheWire(t, a) => OnTheWire(t, a)'
    BY DEF OnTheWire
  <2> QED
    BY <2>1, <2>2, <2>3 DEF BatchOf, OnItsWay
<1> QED
  BY <1>2, <1>3 DEF BatchOf

-----------------------------------------------------------------------------
(* Every step keeps the invariant of the batches.                          *)

LEMMA FlagsStep ==
    ASSUME Typed, FlagsTyped, [Next]_vars
    PROVE  FlagsTyped'
<1> USE DEF FlagsTyped
<1>1. ASSUME NEW t \in Tables, NEW b \in Batches,
             issueWrites(t, Proposed(t, b.writes), b.forced)
      PROVE  FlagsTyped'
  BY <1>1 DEF issueWrites, registry, lock
<1>2. ASSUME NEW t \in Tables, BatchSteps(t) \/ AttemptFails(t)
      PROVE  FlagsTyped'
  BY <1>2 DEF BatchSteps, GapsRead, DeviceTakes, WriteAcknowledged, WriteFails, AttemptFails,
              world, registry, lock
<1>3. ASSUME NEW t \in Tables, WriteInterrupted(t)
      PROVE  FlagsTyped'
  BY <1>3 DEF WriteInterrupted, registry, lock
<1>4. CASE PowerCycle \/ LinkLost \/ watchLink
  <2>1. UNCHANGED <<declared, coilUnit, closed, holder>>
    BY <1>4 DEF PowerCycle, LinkLost, watchLink, registry, lock
  <2>2. notice' \in BOOLEAN /\ doubt' \in {"none", "unseen"} /\ harmed' \in [Tables -> BOOLEAN]
    BY <1>4 DEF PowerCycle, LinkLost, watchLink
  <2> QED
    BY <2>1, <2>2
<1>5. CASE withBatchingClient
  BY <1>5 DEF withBatchingClient, world, lock
<1>6. CASE BuildStarts \/ BuildGetsLock
  BY <1>6 DEF BuildStarts, BuildGetsLock, Acquire, world, registry
<1>7. CASE BuildSucceeds \/ BuildFails
  BY <1>7 DEF BuildSucceeds, BuildFails, world
<1>8. CASE Close
  BY <1>8 DEF Close, world
<1>9. ASSUME NEW r \in RawCallers, NEW w \in RawWrites, RawBegins(r, w)
      PROVE  FlagsTyped'
  BY <1>9 DEF RawBegins, Acquire, world, registry
<1>10. ASSUME NEW r \in RawCallers, RawRefused(r) \/ RawStarts(r) \/ RawEnds(r)
       PROVE  FlagsTyped'
  BY <1>10 DEF RawRefused, RawStarts, RawEnds, world, registry
<1>11. CASE UNCHANGED vars
  BY <1>11 DEF vars, world, registry, lock
<1> QED
  BY <1>1, <1>2, <1>3, <1>4, <1>5, <1>6, <1>7, <1>8, <1>9, <1>10, <1>11 DEF Next

LEMMA GenerationsStep ==
    ASSUME Typed, GenerationsAgree, [Next]_vars
    PROVE  GenerationsAgree'
<1>1. \A t \in Tables : generation[t] \in Nat
  BY DEF Typed
<1>2. ASSUME UNCHANGED <<generation, notice>>
      PROVE  GenerationsAgree'
  BY <1>2 DEF GenerationsAgree
<1>3. ASSUME NEW t \in Tables, WriteFails(t)
      PROVE  GenerationsAgree'
  <2>1. generation[t] < MaxGeneration /\ UNCHANGED notice
        /\ \A u \in Tables : generation'[u] = generation[u] + 1
    BY <1>3, InvalidateType DEF WriteFails
  <2>2. \A u \in Tables : generation[u] = generation[t]
    BY DEF GenerationsAgree, Tables
  <2>3. \A u \in Tables : generation'[u] <= MaxGeneration
    BY <1>1, <2>1, <2>2, BoundAssumption
  <2> QED
    BY <1>1, <2>1, <2>3, BoundAssumption DEF GenerationsAgree, Tables
<1>4. CASE LinkLost
  BY <1>1, <1>4, BoundAssumption DEF LinkLost, GenerationsAgree, cache
<1>5. CASE watchLink
  <2>1. notice /\ ~notice' /\ \A u \in Tables : generation'[u] = generation[u] + 1
    BY <1>5, InvalidateType DEF watchLink
  <2>2. \A u \in Tables : generation[u] <= MaxGeneration
    BY <2>1 DEF GenerationsAgree
  <2> QED
    BY <1>1, <2>1, <2>2, BoundAssumption DEF GenerationsAgree, Tables
<1>6. ASSUME NEW t \in Tables, NEW b \in Batches,
             issueWrites(t, Proposed(t, b.writes), b.forced)
      PROVE  GenerationsAgree'
  BY <1>2, <1>6 DEF issueWrites, cache
<1>7. ASSUME NEW t \in Tables,
             BatchSteps(t) \/ AttemptFails(t) \/ WriteInterrupted(t)
      PROVE  GenerationsAgree'
  BY <1>2, <1>3, <1>7 DEF BatchSteps, GapsRead, DeviceTakes, WriteAcknowledged, AttemptFails,
                          WriteInterrupted, cache
<1>8. CASE PowerCycle
  BY <1>2, <1>8 DEF PowerCycle, cache
<1>9. CASE \/ withBatchingClient \/ BuildStarts \/ BuildGetsLock \/ BuildSucceeds
           \/ BuildFails \/ Close
  BY <1>2, <1>9 DEF withBatchingClient, BuildStarts, BuildGetsLock, BuildSucceeds, BuildFails,
                    Close, cache
<1>10. ASSUME NEW r \in RawCallers,
              \/ \E w \in RawWrites : RawBegins(r, w)
              \/ RawRefused(r) \/ RawStarts(r) \/ RawEnds(r)
       PROVE  GenerationsAgree'
  BY <1>2, <1>10 DEF RawBegins, RawRefused, RawStarts, RawEnds, cache
<1>11. CASE UNCHANGED vars
  BY <1>2, <1>11 DEF vars, cache
<1> QED
  BY <1>4, <1>5, <1>6, <1>7, <1>8, <1>9, <1>10, <1>11 DEF Next

\* The declaration never closes a table that is open.
LEMMA StaysOpen ==
    ASSUME PathInv, [Next]_vars, NEW t \in Tables, Open(t)
    PROVE  Open(t)'
<1>1. declared = "yes" /\ (t = "coils" => coilUnit) /\ holder # Build
  BY DEF Open, PathInv, BuildOnce
<1>2. UNCHANGED <<declared, coilUnit>>
  BY <1>1 DEF Next, issueWrites, BatchSteps, GapsRead, DeviceTakes, WriteAcknowledged,
              WriteFails, AttemptFails, WriteInterrupted, PowerCycle, LinkLost, watchLink,
              withBatchingClient, BuildStarts, BuildGetsLock, BuildSucceeds, BuildFails, Close,
              RawBegins, RawRefused, RawStarts, RawEnds, vars, registry
<1> QED
  BY <1>1, <1>2 DEF Open

\* A step of the other table.
LEMMA OtherTable ==
    ASSUME BatchInv, [Next]_vars, CacheInv', NEW t \in Tables, NEW u \in Tables \ {t},
           \/ \E writes \in Beliefs(u) : \E forced : issueWrites(u, writes, forced)
           \/ BatchSteps(u) \/ AttemptFails(u) \/ WriteInterrupted(u)
    PROVE  BatchOf(t)'
<1>1. /\ Typed /\ FlagsTyped /\ BatchOf(t) /\ Typed' /\ (Open(t) => Open(t)')
  BY StaysOpen DEF BatchInv, CacheInv, PathInv
<1>2. generation[t] \in Nat /\ generation'[t] \in Nat
  BY <1>1 DEF Typed
<1>3. flight'[t] = flight[t] /\ harmed'[t] = harmed[t]
  BY <1>1 DEF issueWrites, BatchSteps, GapsRead, DeviceTakes, WriteAcknowledged, WriteFails,
              AttemptFails, WriteInterrupted, Typed, FlagsTyped, world
<1>4. device'[t] = device[t]
  <2>1. device' = device \/ device' = Written(u, flight[u].values)
    BY DEF issueWrites, BatchSteps, GapsRead, DeviceTakes, WriteAcknowledged, WriteFails,
           AttemptFails, WriteInterrupted, world
  <2>2. flight[u].values \in Beliefs(u)
    BY <1>1 DEF Typed, FlightOf
  <2> QED
    BY <1>1, <2>1, <2>2, WrittenType
<1>5. /\ held'[t] = held[t] \/ held'[t] = NoWrites(t)
      /\ generation'[t] = generation[t] \/ generation'[t] = generation[t] + 1
  <2>1. CASE invalidate
    BY <1>1, <2>1, InvalidateType
  <2>2. CASE UNCHANGED cache
    BY <2>2 DEF cache
  <2>3. CASE WriteAcknowledged(u)
    BY <1>1, <2>3 DEF WriteAcknowledged, Typed
  <2> QED
    BY <2>1, <2>2, <2>3 DEF issueWrites, BatchSteps, GapsRead, DeviceTakes, WriteFails,
                            AttemptFails, WriteInterrupted
<1> QED
  BY <1>1, <1>2, <1>3, <1>4, <1>5, BatchUntouched

LEMMA BatchStep ==
    ASSUME BatchInv, [Next]_vars, CacheInv', NEW t \in Tables
    PROVE  BatchOf(t)'
<1>1. /\ CacheInv /\ Typed /\ FlagsTyped /\ BatchOf(t) /\ Typed' /\ (Open(t) => Open(t)')
  BY StaysOpen DEF BatchInv, CacheInv, PathInv
<1>2. generation[t] \in Nat /\ generation'[t] \in Nat
  BY <1>1 DEF Typed
<1>3. ASSUME UNCHANGED <<device, harmed, held, generation, flight>>
      PROVE  BatchOf(t)'
  BY <1>1, <1>2, <1>3, BatchUntouched
<1>4. ASSUME NEW u \in Tables, NEW b \in Batches,
             b.table = u, issueWrites(u, Proposed(u, b.writes), b.forced)
      PROVE  BatchOf(t)'
  <2>1. Proposed(u, b.writes) \in Beliefs(u)
    BY <1>4, ProposedType
  <2>2. CASE u = t
    BY <1>1, <1>4, <2>1, <2>2, BatchIssued
  <2>3. CASE u # t
    BY <1>4, <2>1, <2>3, OtherTable
  <2> QED
    BY <2>2, <2>3
<1>5. ASSUME NEW u \in Tables, BatchSteps(u) \/ AttemptFails(u) \/ WriteInterrupted(u)
      PROVE  BatchOf(t)'
  <2>1. CASE u # t
    BY <1>5, <2>1, OtherTable
  <2>2. CASE u = t /\ (WriteFails(t) \/ WriteInterrupted(t))
    <3>1. flight'[t] = Idle(t)
      BY <1>1, <2>2 DEF WriteFails, WriteInterrupted, Typed
    <3> QED
      BY <1>2, <3>1, BatchEnds
  <2>3. CASE u = t /\ ~(WriteFails(t) \/ WriteInterrupted(t))
    BY <1>1, <1>5, <2>3, BatchReads, BatchTaken, BatchAcknowledged, BatchRetried DEF BatchSteps
  <2> QED
    BY <2>1, <2>2, <2>3
<1>6. CASE PowerCycle
  <2>1. harmed'[t] /\ UNCHANGED <<held, generation, flight>>
    BY <1>6 DEF PowerCycle, cache
  <2> QED
    BY <1>1, <1>2, <2>1, BatchUntouched
<1>7. CASE LinkLost
  BY <1>3, <1>7 DEF LinkLost, cache
<1>8. CASE watchLink
  <2>1. invalidate /\ UNCHANGED <<device, harmed, flight>>
    BY <1>8 DEF watchLink
  <2>2. held'[t] = NoWrites(t) /\ generation'[t] = generation[t] + 1
    BY <1>1, <2>1, InvalidateType
  <2> QED
    BY <1>1, <1>2, <2>1, <2>2, BatchUntouched
<1>9. CASE withBatchingClient \/ BuildStarts \/ BuildGetsLock \/ BuildSucceeds \/ BuildFails
  BY <1>3, <1>9 DEF withBatchingClient, BuildStarts, BuildGetsLock, BuildSucceeds, BuildFails,
                    world, cache
<1>10. CASE Close
  <2>1. UNCHANGED <<device, harmed, held, generation>>
        /\ flight'[t] = IF Active(t) THEN Idle(t) ELSE flight[t]
    BY <1>10 DEF Close, world, cache
  <2>2. CASE Active(t)
    BY <1>2, <2>1, <2>2, BatchEnds
  <2>3. CASE ~Active(t)
    BY <1>1, <1>2, <2>1, <2>3, BatchUntouched
  <2> QED
    BY <2>2, <2>3
<1>11. ASSUME NEW r \in RawCallers,
              (\E w \in RawWrites : RawBegins(r, w)) \/ RawRefused(r) \/ RawStarts(r)
       PROVE  BatchOf(t)'
  BY <1>3, <1>11 DEF RawBegins, RawRefused, RawStarts, world, cache
<1>12. ASSUME NEW r \in RawCallers, RawEnds(r)
       PROVE  BatchOf(t)'
  <2>1. /\ raw[r].phase = "calls" /\ UNCHANGED <<harmed, held, generation, flight>>
        /\ device' \in {device, [device EXCEPT ![raw[r].table][raw[r].address] = raw[r].value]}
    BY <1>12 DEF RawEnds, cache
  <2>2. CASE raw[r].table = t
    <3>1. flight[t].phase = "idle"
      BY <1>1, <2>1, <2>2 DEF CacheInv, PathInv, PathKept, BatchOf, BegunWhenOpen
    <3> QED
      BY <1>1, <1>2, <2>1, <3>1, BatchUntouched
  <2>3. CASE raw[r].table # t
    <3>1. device'[t] = device[t]
      BY <1>1, <2>1, <2>3 DEF Typed
    <3> QED
      BY <1>1, <1>2, <2>1, <3>1, BatchUntouched
  <2> QED
    BY <2>2, <2>3
<1>13. CASE UNCHANGED vars
  BY <1>3, <1>13 DEF vars, world, cache
<1> QED
  BY <1>4, <1>5, <1>6, <1>7, <1>8, <1>9, <1>10, <1>11, <1>12, <1>13 DEF Next

LEMMA BatchStart == Init => BatchInv
<1> SUFFICES ASSUME Init PROVE BatchInv
  OBVIOUS
<1>1. FlagsTyped
  BY DEF Init, FlagsTyped
<1>2. GenerationsAgree
  BY BoundAssumption DEF Init, GenerationsAgree, Tables
<1>3. ASSUME NEW t \in Tables PROVE BatchOf(t)
  <2>1. /\ flight[t].phase = "idle" /\ flight[t].todo = <<>> /\ flight[t].seen = 0
        /\ generation[t] = 0
    BY DEF Init, Idle
  <2> QED
    BY <2>1 DEF BatchOf, TodoTyped, OnPlan, OnItsWay, Reached, BegunWhenOpen, Active
<1> QED
  BY <1>1, <1>2, <1>3, InitInv DEF BatchInv

LEMMA BatchesAreKept == Spec => []BatchInv
<1>1. BatchInv /\ [Next]_vars => BatchInv'
  <2> SUFFICES ASSUME BatchInv, [Next]_vars PROVE BatchInv'
    OBVIOUS
  <2>1. CacheInv' /\ Typed
    BY NextInv DEF BatchInv, CacheInv, PathInv
  <2>2. FlagsTyped' /\ GenerationsAgree'
    BY <2>1, FlagsStep, GenerationsStep DEF BatchInv
  <2>3. \A t \in Tables : BatchOf(t)'
    BY <2>1, BatchStep
  <2> QED
    BY <2>1, <2>2, <2>3 DEF BatchInv
<1> QED
  BY <1>1, BatchStart, PTL DEF Spec

\* Every variable keeps its type: the batches go on only with transactions of their
\* table, and the caches are never forgotten more often than the bounds allow.
THEOREM TypesAreKept == Spec => []TypeOK
<1>1. BatchInv => TypeOK
  <2> SUFFICES ASSUME BatchInv PROVE TypeOK
    OBVIOUS
  <2>1. /\ Typed /\ BuildOnce /\ FlagsTyped /\ GenerationsAgree
        /\ \A t \in Tables : TodoTyped(t)
    BY DEF BatchInv, CacheInv, PathInv, BatchOf
  <2>2. \A t \in Tables : generation[t] \in 0..MaxGeneration + 1
    BY <2>1, BoundAssumption DEF Typed, GenerationsAgree
  <2>3. ASSUME NEW t \in Tables PROVE flight[t] \in Flight(t)
    <3>1. flight[t].seen \in 0..MaxGeneration + 1
      <4>1. flight[t].seen \in Nat /\ flight[t].seen <= generation[t]
        BY <2>1 DEF TodoTyped, Typed, FlightOf
      <4> QED
        BY <4>1, <2>2, BoundAssumption
    <3> QED
      BY <2>1, <3>1 DEF Flight, FlightOf, Typed, TodoTyped
  <2>4. generation \in [Tables -> 0..MaxGeneration + 1]
    BY <2>1, <2>2 DEF Typed
  <2> QED
    BY <2>1, <2>3, <2>4 DEF TypeOK, Typed, RawOf, FlagsTyped, BuildOnce
<1> QED
  BY <1>1, BatchesAreKept, PTL

\* After a batch that succeeded the device holds what was proposed for each address,
\* also for those that the cache suppressed and those that a span wrote in a gap
\* (filter, knownStates, fillGaps and observe of issueWrites).
THEOREM BatchesReachTheDevice == Spec => []BatchReachesDevice
<1>1. BatchInv => BatchReachesDevice
  BY DEF BatchInv, BatchOf, Reached, BatchReachesDevice
<1> QED
  BY <1>1, BatchesAreKept, PTL

\* A coil that only lies in a gap keeps its state: the span writes what it holds.
GapsKeepTheirState ==
    flight["coils"].phase = "writing" /\ ~harmed["coils"] =>
        \A a \in Coils :
            flight["coils"].written[a] = Unknown /\ flight["coils"].values[a] # Unknown
                => flight["coils"].values[a] = device["coils"][a]

\* A coil that only lies in a gap keeps its state: what the span writes there, from the
\* cache or from an FC01 read, is what the device holds when it takes the span.
THEOREM GapsAreKept == Spec => []GapsKeepTheirState
<1>1. BatchInv => GapsKeepTheirState
  BY DEF BatchInv, BatchOf, OnItsWay, Active, GapsKeepTheirState, Tables, AddressesOf
<1> QED
  BY <1>1, BatchesAreKept, PTL

-----------------------------------------------------------------------------
(* What a unit promises: UnitWrites.                                       *)

\* The device has its two tables and nothing else.
DeviceMapped == device = [t \in Tables |-> device[t]]

\* The promise speaks of the same addresses and the same writes.
LEMMA UnitContents ==
    ASSUME NEW t \in Tables
    PROVE  /\ Unit!Addresses(t) = AddressesOf(t)
           /\ Unit!Writes(t) = Beliefs(t)
           /\ Unit!NoBatch(t) = [phase |-> "idle", writes |-> NoWrites(t)]
BY DEF Unit!Addresses, Unit!Writes, Unit!NoBatch, Beliefs, NoWrites

\* What a unit shows of a flight.
LEMMA Shown ==
    ASSUME Typed, NEW t \in Tables
    PROVE  /\ Unit!Running(t) <=> Active(t)
           /\ flight[t] = Idle(t) => AsAsked(t) = Unit!NoBatch(t)
           /\ AsAsked(t).writes = flight[t].writes
BY UnitContents DEF Typed, FlightOf, Unit!Running, AsAsked, Active, Idle

\* A step of one table changes one batch.
LEMMA OneBatch ==
    ASSUME NEW t \in Tables, \A u \in Tables \ {t} : flight'[u] = flight[u]
    PROVE  [u \in Tables |-> AsAsked(u)]' = [[u \in Tables |-> AsAsked(u)] EXCEPT ![t] = AsAsked(t)']
<1>1. \A u \in Tables \ {t} : AsAsked(u)' = AsAsked(u)
  BY DEF AsAsked, Active
<1> QED
  BY <1>1

\* A batch that begins is shown as it was asked for, and when its cache suppresses all of
\* it, the device has it.
LEMMA UnitBegins ==
    ASSUME BatchInv, BatchInv', NEW t \in Tables, NEW writes \in Beliefs(t), NEW forced,
           issueWrites(t, writes, forced)
    PROVE  Unit!Begin(t)
<1> DEFINE S == chosen(t, writes, filter(t, writes, forced))
           written == Part(t, writes, S)
           f == issueStep(t, writes, written, Plan(t, S), held[t])
<1>1. /\ Typed /\ FlagsTyped /\ Reached(t)' /\ FlagsTyped'
      /\ Open(t) /\ ~closed /\ ~Active(t)
      /\ UNCHANGED <<device, doubt, notice, declared, coilUnit, closed>>
      /\ flight' = [flight EXCEPT ![t] = f]
      /\ harmed' = [harmed EXCEPT ![t] = doubt # "none" \/ notice]
  BY DEF BatchInv, BatchOf, CacheInv, PathInv, issueWrites, Open, registry
<1>2. held[t] \in Beliefs(t) /\ written \in Beliefs(t)
  BY <1>1, PartType DEF Typed
<1>3. f.phase \in {"done", "reading", "writing"} /\ f.writes = writes
  <2>1. f.phase \in {"done", "reading", "writing"}
    BY <1>1, <1>2, IssueStepType
  <2>2. f.writes = writes
    BY DEF issueStep, Idle
  <2> QED
    BY <2>1, <2>2
<1> HIDE DEF f
<1>4. flight'[t] = f
  BY <1>1 DEF Typed
<1>5. AsAsked(t)' = [phase |-> IF f.phase = "done" THEN "done" ELSE "running", writes |-> writes]
  BY <1>3, <1>4 DEF AsAsked, Active
<1>6. [u \in Tables |-> AsAsked(u)]' = [[u \in Tables |-> AsAsked(u)] EXCEPT ![t] = AsAsked(t)']
  BY <1>1, OneBatch DEF Typed
<1>7. /\ AsAsked(t)' \in [phase : {"running", "done"}, writes : Beliefs(t)]
      /\ AsAsked(t)'.writes = writes
      /\ AsAsked(t)'.phase = "done" => f.phase = "done"
  BY <1>5
<1>8. ASSUME AsAsked(t)'.phase = "done", doubt = "none" /\ ~notice
      PROVE  \A a \in AddressesOf(t) : writes[a] # Unknown => device[t][a] = writes[a]
  <2>1. ~harmed'[t]
    BY <1>1, <1>8 DEF FlagsTyped
  <2> QED
    BY <1>1, <1>3, <1>4, <1>7, <1>8, <2>1 DEF Reached
<1>9. harmed' = [harmed EXCEPT ![t] = ~(doubt = "none" /\ ~notice)]
  BY <1>1 DEF FlagsTyped
<1>10. UNCHANGED <<device, {u \in Tables : Open(u)}, closed, doubt = "none" /\ ~notice>>
  BY <1>1 DEF Open
<1> QED
  BY <1>1, <1>6, <1>7, <1>8, <1>9, <1>10, UnitContents, Shown
     DEF Unit!Begin, Unit!Only, Unit!Reached

\* What the device takes of a batch is what was asked for, as long as no loss harms it.
LEMMA UnitTakes ==
    ASSUME BatchInv, NEW t \in Tables, flight[t].phase = "writing",
           device' = Written(t, flight[t].values)
    PROVE  Unit!Takes(t)
<1> DEFINE values == flight[t].values
<1>1. Typed /\ Active(t) /\ OnPlan(t) /\ OnItsWay(t) /\ values \in Beliefs(t)
  BY DEF BatchInv, BatchOf, CacheInv, PathInv, Typed, FlightOf, Active
<1>2. /\ DOMAIN device = Tables /\ DOMAIN device' = Tables
      /\ device'[t] \in Contents(t) /\ \A u \in Tables \ {t} : device'[u] = device[u]
      /\ \A a \in AddressesOf(t) :
            device'[t][a] = IF values[a] # Unknown THEN values[a] ELSE device[t][a]
  BY <1>1, WrittenType DEF Typed
<1>3. device' = [device EXCEPT ![t] = device'[t]]
  BY <1>2, <1>1 DEF Written
<1>4. ASSUME NEW a \in AddressesOf(t), ~harmed[t]
      PROVE  device'[t][a] \in {device[t][a], flight[t].writes[a]}
  <2>1. CASE values[a] = Unknown
    BY <1>2, <2>1
  <2>2. CASE values[a] # Unknown /\ flight[t].written[a] = Unknown
    BY <1>1, <1>2, <1>4, <2>2 DEF OnItsWay
  <2>3. CASE values[a] # Unknown /\ flight[t].written[a] # Unknown
    BY <1>1, <1>2, <2>3 DEF OnPlan
  <2> QED
    BY <2>1, <2>2, <2>3
<1> QED
  BY <1>1, <1>2, <1>3, <1>4, UnitContents, Shown DEF Unit!Takes, Unit!Only, Contents

\* Nothing is taken.
LEMMA UnitTakesNothing ==
    ASSUME Typed, DeviceMapped, NEW t \in Tables, UNCHANGED device
    PROVE  Unit!Takes(t)
<1>1. device' = [device EXCEPT ![t] = device'[t]]
  BY DEF Typed, DeviceMapped
<1> QED
  BY <1>1, UnitContents DEF Typed, Contents, Unit!Takes, Unit!Only

\* A batch that goes on with its plan, or ends it.
LEMMA UnitGoesOn ==
    ASSUME BatchInv, BatchInv', NEW t \in Tables,
           \/ GapsRead(t) \/ DeviceTakes(t) \/ WriteAcknowledged(t) \/ AttemptFails(t)
    PROVE  Unit!Succeed(t) \/ Unit!Deliver(t) \/ UNCHANGED Unit!vars
<1>1. /\ Typed /\ Typed' /\ Active(t) /\ Reached(t)'
      /\ UNCHANGED <<doubt, harmed, notice, declared, coilUnit, closed>>
  BY DEF BatchInv, BatchOf, CacheInv, PathInv, GapsRead, DeviceTakes, WriteAcknowledged,
         AttemptFails, Active, world, registry
<1>2. UNCHANGED <<{u \in Tables : Open(u)}, closed, doubt = "none" /\ ~notice, harmed>>
  BY <1>1 DEF Open
<1>3. /\ flight'[t].writes = flight[t].writes
      /\ Active(t)' \/ flight'[t].phase = "done"
      /\ \A u \in Tables \ {t} : flight'[u] = flight[u]
  <2>1. CASE GapsRead(t)
    BY <1>1, <2>1 DEF GapsRead, Typed, FlightOf, Active
  <2>2. CASE DeviceTakes(t)
    BY <1>1, <2>2 DEF DeviceTakes, Typed, FlightOf, Active
  <2>3. CASE AttemptFails(t)
    BY <1>1, <2>3 DEF AttemptFails, Typed, FlightOf, Active
  <2>4. CASE WriteAcknowledged(t)
    <3> DEFINE f == issueStep(t, flight[t].writes, flight[t].written,
                              Tail(flight[t].todo), held'[t])
    <3>1. flight' = [flight EXCEPT ![t] = f]
      BY <2>4 DEF WriteAcknowledged
    <3>2. f.phase \in {"done", "reading", "writing"}
      BY <1>1, IssueStepType DEF Typed, FlightOf
    <3>3. f.writes = flight[t].writes
      BY DEF issueStep, Idle
    <3> HIDE DEF f
    <3>4. flight'[t] = f
      BY <1>1, <3>1 DEF Typed
    <3> QED
      BY <1>1, <3>1, <3>2, <3>3, <3>4 DEF Typed, Active
  <2> QED
    BY <2>1, <2>2, <2>3, <2>4
<1>4. [u \in Tables |-> AsAsked(u)]' = [[u \in Tables |-> AsAsked(u)] EXCEPT ![t] = AsAsked(t)']
  BY <1>1, <1>3, OneBatch
<1>5. CASE DeviceTakes(t)
  <2>0. flight'[t].phase = "taken"
    BY <1>1, <1>5 DEF DeviceTakes, Typed, FlightOf
  <2>1. AsAsked(t)' = AsAsked(t)
    BY <1>1, <1>3, <2>0 DEF AsAsked, Active
  <2>2. UNCHANGED [u \in Tables |-> AsAsked(u)]
    BY <1>4, <2>1
  <2>3. Unit!Takes(t)
    BY <1>5, UnitTakes DEF DeviceTakes
  <2> QED
    BY <1>1, <1>2, <2>2, <2>3, Shown DEF Unit!Deliver
<1>6. CASE ~DeviceTakes(t)
  <2>1. UNCHANGED device
    BY <1>6 DEF GapsRead, WriteAcknowledged, AttemptFails, world
  <2>2. CASE Active(t)'
    <3>1. AsAsked(t)' = AsAsked(t)
      BY <1>1, <1>3, <2>2 DEF AsAsked
    <3>2. UNCHANGED [u \in Tables |-> AsAsked(u)]
      BY <1>4, <3>1
    <3> QED
      BY <1>2, <2>1, <3>2 DEF Unit!vars
  <2>3. CASE ~Active(t)'
    <3>1. /\ flight'[t].phase = "done"
          /\ AsAsked(t)' = [AsAsked(t) EXCEPT !.phase = "done"]
      BY <1>3, <2>3 DEF AsAsked
    <3>2. [u \in Tables |-> AsAsked(u)]' = [[u \in Tables |-> AsAsked(u)] EXCEPT ![t].phase = "done"]
      BY <1>4, <3>1
    <3>3. harmed[t] \/ \A a \in AddressesOf(t) :
             AsAsked(t).writes[a] # Unknown => device[t][a] = AsAsked(t).writes[a]
      BY <1>1, <1>3, <2>1, <3>1, Shown DEF Reached
    <3> QED
      BY <1>1, <1>2, <2>1, <3>2, <3>3, Shown, UnitContents DEF Unit!Succeed, Unit!Reached
  <2> QED
    BY <2>2, <2>3
<1> QED
  BY <1>5, <1>6

\* A batch that ends without its answer.
LEMMA UnitEnds ==
    ASSUME BatchInv, DeviceMapped, NEW t \in Tables, WriteFails(t) \/ WriteInterrupted(t)
    PROVE  Unit!Fail(t) \/ Unit!Abandon(t)
<1>1. /\ Typed /\ FlagsTyped /\ Active(t) /\ flight' = [flight EXCEPT ![t] = Idle(t)]
      /\ UNCHANGED <<harmed, notice, declared, coilUnit, closed>>
  BY DEF BatchInv, CacheInv, PathInv, WriteFails, WriteInterrupted, registry
<1>2. UNCHANGED <<{u \in Tables : Open(u)}, closed, harmed>>
  BY <1>1 DEF Open
<1>3. flight'[t] = Idle(t)
  BY <1>1 DEF Typed
<1>4. AsAsked(t)' = Unit!NoBatch(t)
  BY <1>3, UnitContents DEF AsAsked, Active, Idle
<1>5. [u \in Tables |-> AsAsked(u)]' = [[u \in Tables |-> AsAsked(u)] EXCEPT ![t] = Unit!NoBatch(t)]
  BY <1>1, <1>4, OneBatch DEF Typed
<1>6. CASE WriteFails(t)
  <2>1. device' = device /\ doubt' = "none" /\ notice' = notice
    BY <1>1, <1>6 DEF WriteFails
  <2>2. (doubt = "none" /\ ~notice)' \in {doubt = "none" /\ ~notice, TRUE}
    BY <1>1, <2>1 DEF FlagsTyped
  <2> QED
    BY <1>1, <1>2, <1>5, <2>1, <2>2, Shown DEF Unit!Fail
<1>7. CASE WriteInterrupted(t)
  <2>1. /\ device' \in {device} \cup IF flight[t].phase = "writing"
                                     THEN {Written(t, flight[t].values)} ELSE {}
        /\ doubt' = IF doubt = "none" THEN "interrupted" ELSE doubt
    BY <1>7 DEF WriteInterrupted
  <2>2. Unit!Takes(t)
    <3>1. CASE device' = device
      BY <1>1, <3>1, UnitTakesNothing
    <3>2. CASE device' # device
      BY <2>1, <3>2, UnitTakes
    <3> QED
      BY <3>1, <3>2
  <2>3. (doubt = "none" /\ ~notice)' = FALSE
    BY <2>1
  <2> QED
    BY <1>1, <1>2, <1>5, <2>2, <2>3, Shown DEF Unit!Abandon
<1> QED
  BY <1>6, <1>7

\* The close interrupts the batches of both tables.
LEMMA UnitCloses ==
    ASSUME BatchInv, Close
    PROVE  Unit!Close
<1>1. /\ Typed /\ closed' = TRUE /\ UNCHANGED <<device, harmed, doubt, notice>>
      /\ flight' = [t \in Tables |-> IF Active(t) THEN Idle(t) ELSE flight[t]]
  BY DEF BatchInv, CacheInv, PathInv, Close, world
<1>2. \A t \in Tables : Open(t)' = Open(t)
  BY DEF Close, Open
<1>3. ASSUME NEW t \in Tables
      PROVE  AsAsked(t)' = IF Unit!Running(t) THEN Unit!NoBatch(t) ELSE AsAsked(t)
  <2>1. CASE Active(t)
    BY <1>1, <2>1, Shown, UnitContents DEF AsAsked, Active, Idle
  <2>2. CASE ~Active(t)
    <3>1. flight'[t] = flight[t]
      BY <1>1, <2>2
    <3> QED
      BY <1>1, <2>2, <3>1, Shown DEF AsAsked, Active
  <2> QED
    BY <2>1, <2>2
<1>4. [t \in Tables |-> AsAsked(t)]' =
         [t \in Tables |-> IF Unit!Running(t) THEN Unit!NoBatch(t) ELSE [u \in Tables |-> AsAsked(u)][t]]
  BY <1>3
<1>5. UNCHANGED <<device, {t \in Tables : Open(t)}, doubt = "none" /\ ~notice, harmed>>
  BY <1>1, <1>2
<1> QED
  BY <1>1, <1>4, <1>5 DEF Unit!Close

\* A raw write is not on the wire of a table that has batches.
LEMMA UnitWrittenDirectly ==
    ASSUME BatchInv, DeviceMapped, NEW r \in RawCallers, RawEnds(r)
    PROVE  (\E t \in Tables : Unit!WriteDirectly(t)) \/ UNCHANGED Unit!vars
<1> DEFINE t == raw[r].table
           a == raw[r].address
<1>1. /\ Typed /\ t \in Tables /\ raw[r].value \in Values /\ ~Open(t)
      /\ device' \in {device, [device EXCEPT ![t][a] = raw[r].value]}
      /\ UNCHANGED <<flight, harmed, doubt, notice, declared, coilUnit, closed>>
  BY DEF BatchInv, CacheInv, PathInv, PathKept, Typed, RawOf, RawEnds, registry
<1>2. \A u \in Tables : AsAsked(u)' = AsAsked(u)
  BY <1>1 DEF AsAsked, Active
<1>3. UNCHANGED <<[u \in Tables |-> AsAsked(u)], {u \in Tables : Open(u)}, closed,
                  doubt = "none" /\ ~notice, harmed>>
  BY <1>1, <1>2 DEF Open
<1>4. CASE device' = device
  BY <1>3, <1>4 DEF Unit!vars
<1>5. CASE device' # device
  <2>1. device' = [device EXCEPT ![t][a] = raw[r].value]
    BY <1>1, <1>5
  <2>2. a \in AddressesOf(t)
    BY <1>1, <1>5, <2>1 DEF Typed, Contents, DeviceMapped
  <2> QED
    BY <1>1, <1>3, <2>1, <2>2, UnitContents DEF Unit!WriteDirectly
<1> QED
  BY <1>4, <1>5

\* Every step changes one table, all of both, or nothing.
LEMMA DeviceStaysMapped ==
    ASSUME Typed, Typed', DeviceMapped, [Next]_vars
    PROVE  DeviceMapped'
<1>1. ASSUME NEW t \in Tables, NEW contents, device' = [device EXCEPT ![t] = contents]
      PROVE  DeviceMapped'
  BY <1>1 DEF Typed, DeviceMapped
<1>2. ASSUME UNCHANGED device PROVE DeviceMapped'
  BY <1>2 DEF DeviceMapped
<1>3. CASE PowerCycle
  BY <1>3 DEF PowerCycle, DeviceMapped
<1>4. ASSUME NEW t \in Tables, DeviceTakes(t) \/ WriteInterrupted(t)
      PROVE  DeviceMapped'
  BY <1>1, <1>2, <1>4 DEF DeviceTakes, WriteInterrupted, Written
<1>5. ASSUME NEW r \in RawCallers, RawEnds(r)
      PROVE  DeviceMapped'
  BY <1>1, <1>2, <1>5 DEF RawEnds, Typed, RawOf
<1> QED
  BY <1>2, <1>3, <1>4, <1>5
     DEF Next, issueWrites, BatchSteps, GapsRead, WriteAcknowledged, WriteFails, AttemptFails,
         LinkLost, watchLink, withBatchingClient, BuildStarts, BuildGetsLock, BuildSucceeds,
         BuildFails, Close, RawBegins, RawRefused, RawStarts, vars, world

\* The inductive invariant of the refinement.
UnitInv == BatchInv /\ DeviceMapped

\* A step of the batching client is one of its promise, or none.
LEMMA UnitRefines ==
    ASSUME UnitInv, BatchInv', [Next]_vars
    PROVE  [Unit!Next]_(Unit!vars)
<1>1. BatchInv /\ DeviceMapped /\ Typed /\ FlagsTyped /\ FlagsTyped' /\ PathInv
  BY DEF UnitInv, BatchInv, CacheInv, PathInv
<1>2. ASSUME UNCHANGED flight
      PROVE  UNCHANGED [t \in Tables |-> AsAsked(t)]
  BY <1>2 DEF AsAsked, Active
<1>3. {t \in Tables : Open(t)} \subseteq {t \in Tables : Open(t)}'
  BY <1>1, StaysOpen
<1>4. ASSUME UNCHANGED <<device, flight, harmed, doubt, notice, closed>>
      PROVE  Unit!Own
  <2>1. {t \in Tables : Open(t)}' \subseteq Tables
    OBVIOUS
  <2> QED
    BY <1>2, <1>3, <1>4, <2>1 DEF Unit!Own
<1>5. ASSUME NEW t \in Tables, NEW b \in Batches,
             b.table = t, issueWrites(t, Proposed(t, b.writes), b.forced)
      PROVE  Unit!Next
  BY <1>1, <1>5, ProposedType, UnitBegins DEF Unit!Next
<1>6. ASSUME NEW t \in Tables,
             GapsRead(t) \/ DeviceTakes(t) \/ WriteAcknowledged(t) \/ AttemptFails(t)
      PROVE  [Unit!Next]_(Unit!vars)
  BY <1>1, <1>6, UnitGoesOn DEF Unit!Next
<1>7. ASSUME NEW t \in Tables, WriteFails(t) \/ WriteInterrupted(t)
      PROVE  Unit!Next
  BY <1>1, <1>7, UnitEnds DEF Unit!Next
<1>8. CASE PowerCycle
  <2>1. /\ device' = [t \in Tables |-> [a \in AddressesOf(t) |-> PowerOn]]
        /\ (doubt = "none" /\ ~notice)' = FALSE
        /\ harmed' = [t \in Tables |-> TRUE]
        /\ UNCHANGED <<flight, closed, {t \in Tables : Open(t)}>>
    BY <1>8 DEF PowerCycle, registry, Open
  <2> QED
    BY <1>2, <2>1 DEF Unit!PowerCycle, Unit!Next
<1>9. CASE LinkLost \/ watchLink
  <2>1. /\ UNCHANGED <<device, flight, closed, harmed, {t \in Tables : Open(t)}>>
        /\ (doubt = "none" /\ ~notice)' \in BOOLEAN
    BY <1>9 DEF LinkLost, watchLink, registry, Open
  <2> QED
    BY <1>2, <2>1 DEF Unit!News, Unit!Next
<1>10. CASE withBatchingClient \/ BuildStarts \/ BuildGetsLock \/ BuildSucceeds \/ BuildFails
  BY <1>4, <1>10 DEF withBatchingClient, BuildStarts, BuildGetsLock, BuildSucceeds, BuildFails,
                     world, registry, Unit!Next
<1>11. CASE Close
  BY <1>1, <1>11, UnitCloses DEF Unit!Next
<1>12. ASSUME NEW r \in RawCallers,
              (\E w \in RawWrites : RawBegins(r, w)) \/ RawRefused(r) \/ RawStarts(r)
       PROVE  Unit!Next
  BY <1>4, <1>12 DEF RawBegins, RawRefused, RawStarts, world, registry, Unit!Next
<1>13. ASSUME NEW r \in RawCallers, RawEnds(r)
       PROVE  [Unit!Next]_(Unit!vars)
  BY <1>1, <1>13, UnitWrittenDirectly DEF Unit!Next
<1>14. CASE UNCHANGED vars
  BY <1>4, <1>14 DEF vars, world, registry, Unit!Next
<1> QED
  BY <1>5, <1>6, <1>7, <1>8, <1>9, <1>10, <1>11, <1>12, <1>13, <1>14 DEF Next, BatchSteps

\* Whatever the caches suppress, the plans join or widen, and the retries repeat: the
\* batches of a unit go to its device as they were asked for, a success means that all
\* of it is there, and a table that has batches is written by them alone.
THEOREM BatchesImplementUnitWrites == Spec => ImplementsUnitWrites
<1>1. Init => UnitInv /\ Unit!Init
  <2> SUFFICES ASSUME Init PROVE UnitInv /\ Unit!Init
    OBVIOUS
  <2>1. DeviceMapped
    BY DEF Init, DeviceMapped
  <2>2. \A t \in Tables : AsAsked(t) = Unit!NoBatch(t)
    BY UnitContents DEF Init, AsAsked, Active, Idle
  <2>3. {t \in Tables : Open(t)} = {}
    BY DEF Init, Open
  <2> QED
    BY <2>1, <2>2, <2>3, BatchStart DEF Init, UnitInv, Unit!Init
<1>2. UnitInv /\ [Next]_vars /\ BatchInv' => UnitInv'
  BY DeviceStaysMapped DEF UnitInv, BatchInv, CacheInv, PathInv
<1>3. UnitInv /\ [Next]_vars /\ BatchInv' => [Unit!Next]_(Unit!vars)
  BY UnitRefines
<1> QED
  BY <1>1, <1>2, <1>3, BatchesAreKept, PTL DEF Spec, ImplementsUnitWrites, Unit!Spec

=============================================================================
