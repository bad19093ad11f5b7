--------------------------- MODULE BatchingClient ---------------------------
(***************************************************************************)
(* The write path of one unit behind createBatchingRegistry of             *)
(* src/src/batching-client.ts: the batches that the write debouncers of    *)
(* its registers and its coils issue, the two write caches                 *)
(* (createEncodedCache of register-cache.ts), the fiber that watches the   *)
(* link, the declaration of the unit, and the raw writes of callers that   *)
(* go around it.                                                           *)
(*                                                                         *)
(* A debouncer has one batch in flight at a time (flushLock), so a table   *)
(* has at most one.  The registers and the coils of a unit share the       *)
(* device, the declaration, the write lock and invalidateUnit.             *)
(*                                                                         *)
(* The device is external: it takes a request before it answers, and it    *)
(* can lose its state at any time.  What this process learns of that is a  *)
(* transaction that fails, or a change of the connection state.            *)
(***************************************************************************)
EXTENDS Integers, Sequences, FiniteSets, ReadPlan

CONSTANTS
    Registers,      \* register addresses, a finite set of naturals: they have 16 bits
    Coils,          \* coil addresses: those between two of them are coils too
    Values,         \* the encoded values
    PowerOn,        \* the value of every address after a power cycle
    Limit,          \* maxRegistersPerWrite, maxCoilsPerWrite
    MinRun,         \* minRunLength
    MaxGap,         \* maxGap of the coils
    ReadLimit,      \* maxCoilsPerRead
    Batches,        \* the writes that a batch may carry, and which are forced
    RawCallers,     \* fibers that use a raw client of the unit
    RawWrites,      \* what they may write
    Retries,        \* the client carries a retry policy
    Interrupts,     \* callers of a window of zero are interrupted
    MaxGeneration,  \* bound: invalidations
    Unknown,        \* no cached value, or no proposed value
    Build,          \* the fiber that builds the client
    Free            \* nobody holds the write lock

Tables == {"registers", "coils"}
AddressesOf(t) == IF t = "registers" THEN Registers ELSE Coils
Addresses == Registers \cup Coils
GapOf(t) == IF t = "registers" THEN 0 ELSE MaxGap

ASSUME AddressAssumption ==
    /\ Registers \subseteq Nat /\ IsFiniteSet(Registers)
    /\ Coils \subseteq Nat /\ IsFiniteSet(Coils)
    /\ \A a, b \in Coils : a..b \subseteq Coils
ASSUME ValueAssumption == PowerOn \in Values /\ Unknown \notin Values
ASSUME BoundAssumption ==
    /\ Limit \in Nat \ {0} /\ MinRun \in Nat \ {0} /\ MaxGap \in Nat
    /\ ReadLimit \in Nat \ {0}
    /\ MaxGeneration \in Nat
    /\ Retries \in BOOLEAN /\ Interrupts \in BOOLEAN
ASSUME RequestAssumption ==
    /\ \A b \in Batches :
          /\ b.table \in Tables /\ b.writes # <<>>
          /\ DOMAIN b.writes \subseteq AddressesOf(b.table)
          /\ \A a \in DOMAIN b.writes : b.writes[a] \in Values
          /\ b.forced \subseteq DOMAIN b.writes
    /\ \A w \in RawWrites :
          w.table \in Tables /\ w.address \in AddressesOf(w.table) /\ w.value \in Values
ASSUME FiberAssumption ==
    Build \notin RawCallers /\ Free \notin RawCallers /\ Build # Free

VARIABLES
    device,      \* the state of the device
    held,        \* the caches: the values believed to be on the device
    generation,  \* generationOf(unit) of each cache
    flight,      \* the batch of each table
    notice,      \* a change away from Connected waits for the link watcher
    doubt,       \* history: since the caches were forgotten, the device had a power
                 \* cycle ("unseen"), or may have taken the write of an interrupted
                 \* caller ("interrupted")
    harmed,      \* history: the device lost state since the batch of a table began
    declared,    \* "no", "creating" or "yes": the maps creating and clients
    coilUnit,    \* coilUnits has the unit
    closed,      \* the scope of the registry is closed
    raw,         \* the raw write of each raw caller
    holder, queue \* the write lock of the unit

world == <<device, doubt, harmed>>
cache == <<held, generation>>
registry == <<declared, coilUnit, closed>>
lock == <<holder, queue>>
vars == <<world, cache, flight, notice, registry, raw, lock>>

NoWrites(t) == [a \in AddressesOf(t) |-> Unknown]
Proposed(t, writes) ==
    [a \in AddressesOf(t) |-> IF a \in DOMAIN writes THEN writes[a] ELSE Unknown]
Contents(t) == [AddressesOf(t) -> Values]
Beliefs(t) == [AddressesOf(t) -> Values \cup {Unknown}]

\* A batch.  `phase` is where issueWrites waits: for the reads of a gap, for the
\* device, or for its answer.  `writes` is the batch, `written` the part of it in the
\* chosen plan, `todo` the transactions left, `values` what the first of them writes,
\* `seen` the generation read before it.
Flight(t) ==
    [phase : {"idle", "reading", "writing", "taken", "done"},
     writes : Beliefs(t), written : Beliefs(t), todo : Seq(SUBSET AddressesOf(t)),
     values : Beliefs(t), seen : 0..MaxGeneration + 1]
Idle(t) == [phase |-> "idle", writes |-> NoWrites(t), written |-> NoWrites(t),
            todo |-> <<>>, values |-> NoWrites(t), seen |-> 0]
Active(t) == flight[t].phase \in {"reading", "writing", "taken"}

\* A raw write, and where its caller waits.
RawWrite(phase, w) ==
    [phase |-> phase, table |-> w.table, address |-> w.address, value |-> w.value]
NoRaw == [phase |-> "idle", table |-> "coils", address |-> 0, value |-> PowerOn]

-----------------------------------------------------------------------------
Init ==
    /\ device = [t \in Tables |-> [a \in AddressesOf(t) |-> PowerOn]]
    /\ held = [t \in Tables |-> NoWrites(t)]
    /\ generation = [t \in Tables |-> 0]
    /\ flight = [t \in Tables |-> Idle(t)]
    /\ notice = FALSE /\ doubt = "none"
    /\ harmed = [t \in Tables |-> FALSE]
    /\ declared = "no" /\ coilUnit = FALSE /\ closed = FALSE
    /\ raw = [r \in RawCallers |-> NoRaw]
    /\ holder = Free /\ queue = <<>>

-----------------------------------------------------------------------------
(* The caches.                                                             *)

\* Mutant: an address that the cache knows is suppressed, whatever its value.
filter_AnyKnown(t, writes, forced) ==
    {a \in AddressesOf(t) :
        writes[a] # Unknown /\ (a \in forced \/ held[t][a] = Unknown)}

\* What is sent: the forced writes, and those that change the believed value.
filter(t, writes, forced) ==
    {a \in AddressesOf(t) :
        writes[a] # Unknown /\ (a \in forced \/ held[t][a] # writes[a])}

\* Mutant: an acknowledgement is recorded after an invalidation too.
observe_AnyGeneration(t, values, seen) ==
    [a \in AddressesOf(t) |-> IF values[a] # Unknown THEN values[a] ELSE held[t][a]]

\* observe for every address of a transaction, unless the unit was invalidated
\* since the generation `seen`.
observe(t, values, seen) ==
    [a \in AddressesOf(t) |->
        IF values[a] # Unknown /\ seen = generation[t] THEN values[a] ELSE held[t][a]]

\* invalidateUnit, and the link watcher: both caches are forgotten.
invalidate ==
    /\ held' = [t \in Tables |-> NoWrites(t)]
    /\ generation' = [t \in Tables |-> generation[t] + 1]

-----------------------------------------------------------------------------
(* The batch of a table.                                                   *)

Plan(t, S) == planWrites(S, Limit, MinRun, GapOf(t))

\* The writes of a batch to the addresses S.
Part(t, writes, S) == [a \in AddressesOf(t) |-> IF a \in S THEN writes[a] ELSE Unknown]

\* knownStates: what the transaction `span` of a plan for `written` writes, as far as
\* the plan and the cache know it.
knownStates(t, span, written, beliefs) ==
    [a \in AddressesOf(t) |->
        IF a \notin span THEN Unknown
        ELSE IF written[a] # Unknown THEN written[a] ELSE beliefs[a]]

HasUnknownGap(span, known) == \E a \in span : known[a] = Unknown

\* The FC01 reads of the unknown gaps of a transaction.  A read may cover coils
\* that are known, and none is longer than the limit.
planGapReads(span, known) ==
    buildReadPlan({a \in span : known[a] = Unknown}, ReadLimit, Cardinality(span))

\* Transactions of a plan for S, the reads that its gaps need included.
costOf(t, S, writes) ==
    LET steps == Plan(t, S)
        gapReads(span) ==
            planGapReads(span, knownStates(t, span, Part(t, writes, S), held[t]))
    IN  Len(steps)
            + Cardinality(UNION {{i} \X DOMAIN gapReads(steps[i]) : i \in DOMAIN steps})

\* The whole batch is written when that takes fewer transactions.
chosen(t, writes, pending) ==
    LET whole == {a \in AddressesOf(t) : writes[a] # Unknown}
    IN  IF costOf(t, whole, writes) < costOf(t, pending, writes) THEN whole ELSE pending

\* The transactions `todo` are left.  The next one reads the generation, and its
\* unknown gaps, before it writes.
issueStep(t, writes, written, todo, beliefs) ==
    IF todo = <<>> THEN [Idle(t) EXCEPT !.phase = "done", !.writes = writes]
    ELSE LET known == knownStates(t, Head(todo), written, beliefs)
         IN  [phase |-> IF HasUnknownGap(Head(todo), known) THEN "reading" ELSE "writing",
              writes |-> writes, written |-> written, todo |-> todo, values |-> known,
              seen |-> generation[t]]

\* issueWrites, called by the debouncer of a declared client.
issueWrites(t, writes, forced) ==
    /\ declared = "yes" /\ ~closed /\ (t = "coils" => coilUnit) /\ ~Active(t)
    /\ LET S == chosen(t, writes, filter(t, writes, forced))
       IN  flight' = [flight EXCEPT ![t] =
                        issueStep(t, writes, Part(t, writes, S), Plan(t, S), held[t])]
    /\ harmed' = [harmed EXCEPT ![t] = doubt # "none" \/ notice]
    /\ UNCHANGED <<device, doubt, cache, notice, registry, raw, lock>>

\* Mutant: a gap that the cache does not know is switched off.
fillGaps_Off(t) ==
    [a \in AddressesOf(t) |->
        IF a \in Head(flight[t].todo) /\ flight[t].values[a] = Unknown
        THEN PowerOn ELSE flight[t].values[a]]

\* The FC01 reads of the gaps.  What the cache knew was taken before them.
fillGaps(t) ==
    [a \in AddressesOf(t) |->
        IF a \in Head(flight[t].todo) /\ flight[t].values[a] = Unknown
        THEN device[t][a] ELSE flight[t].values[a]]

GapsRead(t) ==
    /\ flight[t].phase = "reading"
    /\ flight' = [flight EXCEPT ![t].phase = "writing", ![t].values = fillGaps(t)]
    /\ UNCHANGED <<world, cache, notice, registry, raw, lock>>

\* What the device holds after a transaction with these values.
Written(t, values) ==
    [device EXCEPT ![t] = [a \in AddressesOf(t) |->
                             IF values[a] # Unknown THEN values[a] ELSE @[a]]]

DeviceTakes(t) ==
    /\ flight[t].phase = "writing"
    /\ device' = Written(t, flight[t].values)
    /\ flight' = [flight EXCEPT ![t].phase = "taken"]
    /\ UNCHANGED <<doubt, harmed, cache, notice, registry, raw, lock>>

\* The answer arrives: the transaction is observed, and the next one goes out.
WriteAcknowledged(t) ==
    /\ flight[t].phase = "taken"
    /\ held' = [held EXCEPT ![t] = observe(t, flight[t].values, flight[t].seen)]
    /\ flight' = [flight EXCEPT ![t] =
                    issueStep(t, flight[t].writes, flight[t].written,
                              Tail(flight[t].todo), held'[t])]
    /\ UNCHANGED <<world, generation, notice, registry, raw, lock>>

\* An attempt fails and the retry policy of the client makes another one: the batch
\* does not learn of it, nor of the power cycle that may have been the reason.
AttemptFails(t) ==
    /\ Retries /\ Active(t)
    /\ flight' = [flight EXCEPT ![t].phase = IF @ = "taken" THEN "writing" ELSE @]
    /\ UNCHANGED <<world, cache, notice, registry, raw, lock>>

\* A transaction fails for good, or a read of its gaps: the rest is not issued.
WriteFails(t) ==
    /\ Active(t) /\ generation[t] < MaxGeneration
    /\ flight' = [flight EXCEPT ![t] = Idle(t)]
    /\ invalidate /\ doubt' = "none"
    /\ UNCHANGED <<device, harmed, notice, registry, raw, lock>>

\* With a window of zero the batch runs in the fiber of its caller.  The native
\* call goes on: the device takes it before any later one, or never.
WriteInterrupted(t) ==
    /\ Interrupts /\ Active(t)
    /\ flight' = [flight EXCEPT ![t] = Idle(t)]
    /\ device' \in {device} \cup IF flight[t].phase = "writing"
                                 THEN {Written(t, flight[t].values)} ELSE {}
    /\ doubt' = IF doubt = "none" THEN "interrupted" ELSE doubt
    /\ UNCHANGED <<harmed, cache, notice, registry, raw, lock>>

-----------------------------------------------------------------------------
(* The device and the link.                                                *)

PowerCycle ==
    /\ device' = [t \in Tables |-> [a \in AddressesOf(t) |-> PowerOn]]
    /\ doubt' = "unseen" /\ harmed' = [t \in Tables |-> TRUE]
    /\ UNCHANGED <<cache, flight, notice, registry, raw, lock>>

\* connectionState leaves Connected; the watcher will see it.
LinkLost ==
    /\ ~notice /\ ~closed /\ \A t \in Tables : generation[t] < MaxGeneration
    /\ notice' = TRUE /\ doubt' = "none"
    /\ UNCHANGED <<device, harmed, cache, flight, registry, raw, lock>>

watchLink ==
    /\ notice /\ ~closed /\ notice' = FALSE
    /\ invalidate /\ doubt' = "none"
    /\ UNCHANGED <<device, harmed, flight, registry, raw, lock>>

-----------------------------------------------------------------------------
(* The declaration of the unit.                                            *)

\* The write lock is taken at once, or granted in the order of arrival.
LockIsFree == holder = Free /\ queue = <<>>
Acquire(f) ==
    IF LockIsFree THEN holder' = f /\ UNCHANGED queue
    ELSE queue' = Append(queue, f) /\ UNCHANGED holder
NextInLine(f) == holder = Free /\ queue # <<>> /\ Head(queue) = f

\* withBatchingClient: the election, and the fork of the build.
withBatchingClient ==
    /\ declared = "no" /\ ~closed
    /\ declared' = "creating"
    /\ coilUnit' \in BOOLEAN
    /\ UNCHANGED <<world, cache, flight, notice, closed, raw, lock>>

\* The build starts, and takes the write lock or waits for it.
BuildStarts ==
    /\ declared = "creating" /\ holder # Build /\ \A i \in DOMAIN queue : queue[i] # Build
    /\ Acquire(Build)
    /\ UNCHANGED <<world, cache, flight, notice, registry, raw>>

BuildGetsLock ==
    /\ NextInLine(Build)
    /\ holder' = Build /\ queue' = Tail(queue)
    /\ UNCHANGED <<world, cache, flight, notice, registry, raw>>

BuildSucceeds ==
    /\ holder = Build
    /\ declared' = "yes" /\ holder' = Free
    /\ UNCHANGED <<world, cache, flight, notice, coilUnit, closed, raw, queue>>

\* Mutant: the unit still counts as one with coil batching.
BuildFails_KeepsCoilUnit ==
    /\ holder = Build
    /\ declared' = "no" /\ holder' = Free
    /\ UNCHANGED <<world, cache, flight, notice, coilUnit, closed, raw, queue>>

\* Mutant: the declaration stays in `creating`.
BuildFails_LeavesCreating ==
    /\ holder = Build
    /\ coilUnit' = FALSE /\ holder' = Free
    /\ UNCHANGED <<world, cache, flight, notice, declared, closed, raw, queue>>

\* The raw client cannot be had: the transport does not open.
BuildFails ==
    /\ holder = Build
    /\ declared' = "no" /\ coilUnit' = FALSE /\ holder' = Free
    /\ UNCHANGED <<world, cache, flight, notice, closed, raw, queue>>

\* The scope of the registry closes: the build, the flushes and the watcher are
\* interrupted, and a pending declaration fails.
Close ==
    /\ ~closed /\ closed' = TRUE
    /\ IF declared = "creating" THEN declared' = "no" /\ coilUnit' = FALSE
       ELSE UNCHANGED <<declared, coilUnit>>
    /\ \/ (\A i \in DOMAIN queue : queue[i] # Build) /\ UNCHANGED queue
       \/ \E i \in DOMAIN queue : queue[i] = Build /\ queue' = RemoveAt(queue, i)
    /\ holder' = IF holder = Build THEN Free ELSE holder
    /\ flight' = [t \in Tables |-> IF Active(t) THEN Idle(t) ELSE flight[t]]
    /\ UNCHANGED <<world, cache, notice, raw>>

-----------------------------------------------------------------------------
(* Raw writes: guardRawWrites.                                             *)

Guarded(t) == IF t = "coils" THEN coilUnit ELSE declared # "no"

\* A raw write that finds the lock free is refused or sent at once.
RawBegins(r, w) ==
    /\ raw[r].phase = "idle" /\ ~(LockIsFree /\ Guarded(w.table))
    /\ raw' = [raw EXCEPT ![r] = RawWrite(IF LockIsFree THEN "calls" ELSE "waits", w)]
    /\ Acquire(r)
    /\ UNCHANGED <<world, cache, flight, notice, registry>>

\* Mutant: a write that is refused keeps the write lock.
RawRefused_KeepsLock(r) ==
    /\ NextInLine(r) /\ Guarded(raw[r].table)
    /\ queue' = Tail(queue) /\ holder' = r
    /\ raw' = [raw EXCEPT ![r] = NoRaw]
    /\ UNCHANGED <<world, cache, flight, notice, registry>>

RawRefused(r) ==
    /\ NextInLine(r) /\ Guarded(raw[r].table)
    /\ queue' = Tail(queue)
    /\ raw' = [raw EXCEPT ![r] = NoRaw]
    /\ UNCHANGED <<world, cache, flight, notice, registry, holder>>

\* Mutant: the guard is not consulted once the write has the lock.
RawStarts_Unguarded(r) ==
    /\ NextInLine(r)
    /\ holder' = r /\ queue' = Tail(queue)
    /\ raw' = [raw EXCEPT ![r].phase = "calls"]
    /\ UNCHANGED <<world, cache, flight, notice, registry>>

RawStarts(r) ==
    /\ NextInLine(r) /\ ~Guarded(raw[r].table)
    /\ holder' = r /\ queue' = Tail(queue)
    /\ raw' = [raw EXCEPT ![r].phase = "calls"]
    /\ UNCHANGED <<world, cache, flight, notice, registry>>

\* The raw write ends, and whether it failed or not the device may have taken it.
RawEnds(r) ==
    /\ raw[r].phase = "calls"
    /\ device' \in {device,
                    [device EXCEPT ![raw[r].table][raw[r].address] = raw[r].value]}
    /\ raw' = [raw EXCEPT ![r] = NoRaw]
    /\ holder' = Free
    /\ UNCHANGED <<doubt, harmed, cache, flight, notice, registry, queue>>

-----------------------------------------------------------------------------
BatchSteps(t) ==
    GapsRead(t) \/ DeviceTakes(t) \/ WriteAcknowledged(t) \/ WriteFails(t)

Next ==
    \/ \E t \in Tables :
          \/ \E b \in Batches :
                b.table = t /\ issueWrites(t, Proposed(t, b.writes), b.forced)
          \/ BatchSteps(t) \/ AttemptFails(t) \/ WriteInterrupted(t)
    \/ PowerCycle \/ LinkLost \/ watchLink
    \/ withBatchingClient \/ BuildStarts \/ BuildGetsLock \/ BuildSucceeds \/ BuildFails \/ Close
    \/ \E r \in RawCallers :
          \/ \E w \in RawWrites : RawBegins(r, w)
          \/ RawRefused(r) \/ RawStarts(r) \/ RawEnds(r)

Spec == Init /\ [][Next]_vars

\* The fibers go on, and every native call ends: it has a response limit.
Fairness ==
    /\ \A t \in Tables : WF_vars(BatchSteps(t))
    /\ WF_vars(watchLink)
    /\ WF_vars(BuildStarts) /\ WF_vars(BuildGetsLock)
    /\ WF_vars(BuildSucceeds \/ BuildFails)
    /\ \A r \in RawCallers :
          WF_vars(RawRefused(r)) /\ WF_vars(RawStarts(r)) /\ WF_vars(RawEnds(r))

FairSpec == Spec /\ Fairness

-----------------------------------------------------------------------------
(* Properties.                                                             *)

TypeOK ==
    /\ \A t \in Tables : device[t] \in Contents(t) /\ held[t] \in Beliefs(t)
    /\ generation \in [Tables -> 0..MaxGeneration + 1]
    /\ \A t \in Tables : flight[t] \in Flight(t)
    /\ notice \in BOOLEAN /\ doubt \in {"none", "unseen", "interrupted"}
    /\ harmed \in [Tables -> BOOLEAN]
    /\ declared \in {"no", "creating", "yes"} /\ coilUnit \in BOOLEAN /\ closed \in BOOLEAN
    /\ coilUnit => declared # "no"
    /\ raw \in [RawCallers -> [phase : {"idle", "waits", "calls"}, table : Tables,
                               address : Addresses \cup {0}, value : Values]]
    /\ holder \in RawCallers \cup {Build, Free} /\ queue \in Seq(RawCallers \cup {Build})

\* A request of this table is with the device.
OnTheWire(t, a) == flight[t].phase \in {"writing", "taken"} /\ flight[t].values[a] # Unknown

Believed(t, a) == held[t][a] = Unknown \/ held[t][a] = device[t][a]

\* "the device already holds the value": what a cache believes is on the device,
\* unless the device lost it and nothing that failed or ended since could tell,
\* or the request that changes it is on the wire.
CacheIsTrue ==
    \A t \in Tables : \A a \in AddressesOf(t) :
        Believed(t, a) \/ OnTheWire(t, a) \/ doubt # "none" \/ notice \/ closed

\* "drops a write whose value the device already holds", also after a caller was
\* interrupted while its write was with the device: once the batches have ended, only
\* a power cycle can make the caches wrong.
InterruptionIsNoticed ==
    (\A t \in Tables : ~Active(t)) /\ doubt # "unseen" /\ ~notice /\ ~closed =>
        \A t \in Tables : \A a \in AddressesOf(t) : Believed(t, a)

\* After a batch that succeeded the device holds every value that was proposed,
\* those that were suppressed included, until it is told otherwise or loses it.
BatchReachesDevice ==
    \A t \in Tables : flight[t].phase = "done" /\ ~harmed[t] =>
        \A a \in AddressesOf(t) :
            flight[t].writes[a] # Unknown => device[t][a] = flight[t].writes[a]

\* A unit has one write path per table: no raw write is on the wire while a batch
\* can be, however the declaration and the raw call interleave.
OneWritePath ==
    \A r \in RawCallers :
        raw[r].phase = "calls" =>
            IF raw[r].table = "coils" THEN ~(declared = "yes" /\ coilUnit)
            ELSE declared # "yes"

\* Nobody waits for ever at the write lock of a unit: a declaration is settled for its
\* caller and for everyone who waits for it, and every raw write ends, refused or not.
WriteLockSettles ==
    /\ declared = "creating" ~> declared # "creating"
    /\ \A r \in RawCallers : raw[r].phase # "idle" ~> raw[r].phase = "idle"

\* The batches of a table have a write path.
Open(t) == declared = "yes" /\ (t = "coils" => coilUnit)

\* A batch without its plan, and without what it waits for.
AsAsked(t) ==
    [phase |-> IF Active(t) THEN "running" ELSE flight[t].phase, writes |-> flight[t].writes]

Unit == INSTANCE UnitWrites WITH
            Nothing <- Unknown,
            Start <- [t \in Tables |-> [a \in AddressesOf(t) |-> PowerOn]],
            batch <- [t \in Tables |-> AsAsked(t)],
            owned <- {t \in Tables : Open(t)},
            trusted <- (doubt = "none" /\ ~notice)

\* The caches, the plans and the reads of the gaps are invisible: each batch goes to
\* the device as it was asked for and changes nothing else, it succeeds only when
\* all of it is there, what was suppressed included, and a table that has batches is
\* written by them alone.
ImplementsUnitWrites == Unit!Spec

=============================================================================
