# effect-modbus-rs: verification project

This directory holds TLA+ models of the concurrent core of `effect-modbus-rs`, an Effect (TypeScript)
layer over the native Modbus binding `modbus-rs`. The library decides when requests go to a bus, in
which order, through which connection, and which of them need not be sent at all. It does so with
fibers, semaphores, deferreds and timers, and its promises have to survive interruption, timeouts,
failing transactions, power cycles of the device and the close of a scope. That is what the models
are about.

Paths such as `write-debouncer.ts:461` are relative to `src/src/`; those that begin with `tools/` or `README` are relative to `src/`.

## 1. The system

### Components

| Component | Source | State | Operations | Model |
| --- | --- | --- | --- | --- |
| Write debouncer | `write-debouncer.ts` | `held`, `timer`, `openedAtMs`, `lastArrivalMs`, `flushLock`, the waiters with their `remaining` | `writeAll`, `writeAllNow`, `flush`, timer flush, full-run flush, finalizer | `WriteDebouncer`, `OrderedWrites` |
| Transport | `shared-transport.ts` | `transport`, `clientSet`, `connectionState`, `opening`, `reconnecting`, `nativeLock`, `closed`, limits | operations, `withClient`, `reconnect`, `setRequestTimeout`, `clearRequestTimeout`, `close` | `Transport` |
| Supervisor | `connection.ts` | its place in the loop | claim, attempt, back off, publish, sleep, probe | `Transport`, `MockTransport` |
| Client resilience | `modbus-client.ts` | none | guard, operation, report, retry | `Transport`, `BatchingClient`, `MockTransport` |
| Batching registry | `batching-client.ts` | `clients`, `creating`, `coilUnits`, `writeLocks`, shared and supplied caches, the link watcher | `withBatchingClient`, `batchingClient`, `guardRawWrites`, close | `BatchingClient`, `RegistryCaches` |
| Register and coil batches | `batching-client.ts`, `coil-batching.ts` | the batch in flight | `issueWrites`, `fillGaps`, `issueStep` | `BatchingClient`, `UnitWrites` |
| Write caches | `register-cache.ts`, `coil-cache.ts` | `held`, generations | `filter`, `observe`, `invalidate` | `BatchingClient`, `RegistryCaches` |
| Write planners | `register-plan.ts`, `coil-plan.ts` | none | `planWrites`, `planCoilWrites` | `WritePlan`, `TransactionPlans` |
| Read planner | `register-plan.ts`, `coil-plan.ts` | none | `buildReadPlan`, `locate`, `planReads`, `planCoilReads` | `ReadPlan`, `TransactionPlans` |
| Read debouncer | `read-debouncer.ts` | `collected`, `timer`, the batches that are fetched | `readAll`, `readAllNow`, `flush`, timer flush, finalizer | `ReadDebouncer` |
| Retry policies | `retry.ts` | none | `createRetryPolicy`, the presets, `retryModbus` | `RetryPolicy` |
| Mock transport | `mocks.ts` | devices in memory, state, `closed`, `touchedUnits` | the operations, fault hooks, `reconnect`, close | `MockTransport` |
| Services | `*TransportService.ts` | none | `make` | constants of `Transport` |
| Servers, gateway | `*Server*.ts`, `TcpGatewayService.ts` | the finalizers of a layer | bind, serve, shutdown | `ServerLayer` |
| Serial ports | `serial-port-path.ts`, `WasmSerialPort.ts` | `directory`, `alias` | resolve, make the alias, remove it | `SerialPortPath` |
| Errors, spans | `errors.ts`, `span-attributes.ts` | none | `toModbusError` | `Errors` |
| Lint plugin | `tools/oxlint/anti-slop/` | none | the rules | `TypeAliases`, `DictionaryTypes` |

### How they interact

- A caller writes through a batching client. Its write debouncer collects writes of several callers
  and calls `flush`, which is `issueWrites` of the register or coil batches. `flushLock` keeps one
  flush on the wire; each caller waits on a deferred of its own.
- A caller reads through a read debouncer, which collects readers for a fixed window, plans one set of
  spans for all of them, and hands each its registers. Nothing serialises its fetches.
- `issueWrites` asks the write cache which writes change anything, plans the transactions, sends
  them through a client of the transport, and records each acknowledgement in the cache. A failure
  forgets both caches of the unit.
- The client of the transport runs *guard, operation, failure report* per attempt, with the retry
  policy outside. On a serial line `nativeLock` is taken around each attempt.
- The failure report moves `connectionState` away from `Connected` and forks one supervisor. The
  registry's link watcher sees that change later, in a fiber of its own, and forgets every cache.
- The caches of a registry belong to its transport, unless a caller supplies one, which may serve several
  transports; a watcher forgets what its own link may have changed and nothing else.
- A serial service opens its port through `serialPortPathScoped`, and closes the transport before the alias is removed.
- `toModbusError` turns a native error into the tag by which a retry policy, and the failure report, decide.
- A raw client of the same unit shares the device with the batching client. `guardRawWrites` refuses
  its writes under the write lock of the unit once the unit is declared, and the build of a
  batching client takes the same lock.

### What is hard

| Behaviour | Where |
| --- | --- |
| shared state read before a wait and used after it | `closed` around every open and reconnect; the cache generation around every transaction; the timer identity in `flushPending` |
| results nobody waits for | a native connect that lands after its waiters timed out, or after the close |
| partial progress | a group spread over several flushes; a batch that fails between two steps |
| interruption | a bounded serial call drains, an unbounded one goes on in a worker and its handle is dropped; a window of zero runs the batch in the caller's fiber |
| time | two deadlines per batch (window and hold limit), connect limits, the sleep of an open circuit |
| an environment with a will of its own | devices that lose their state, links that change, native calls that never settle |
| two counters behind one number | the generation of a unit is the unit's plus the bus's; retry budgets nest and multiply |
| names that mean something else elsewhere | substitution and scopes in the type resolution of the lint rules |
| lock order | the write lock of a unit is held while the build opens the transport, which takes `nativeLock` |

`PROJECT.json` lists each of these as a hazard at its line, with the properties that would break.

## 2. Modules

    OrderedWrites         what a write debouncer promises
    WriteDebouncer        the write debouncer                       WriteDebouncerProofs
    WriteDebouncerOrder   EXTENDS WriteDebouncer, and implements    WriteDebouncerOrderProofs
                          OrderedWrites
    Transport             transport, supervisor, serial lock        TransportProofs
    WritePlan             the two write planners      <-- EXTENDS -- ReadPlan
    ReadPlan              the read planner, locate    <-- EXTENDS -- ReadDebouncer, BatchingClient, TransactionPlans
                                                                    PlanProofs
    ReadDebouncer         the read debouncer                        ReadDebouncerProofs    EXTENDS PlanProofs
    UnitWrites            what the batches of a unit promise
    BatchingClient        registry, caches, batches, raw guard,     BatchingClientProofs   EXTENDS PlanProofs
                          and implements UnitWrites
    RegistryCaches        caches of several units and transports    (in ServicesProofs)
    RetryPolicy           policies and presets        <-- EXTENDS -- Errors, MockTransport
    MockTransport         devices, attempts, supervisor, close
    ServerLayer           the seven server layers
    SerialPortPath        the path of a serial port
    Services              EXTENDS RegistryCaches, and has           ServicesProofs
                          MockTransport, ServerLayer and SerialPortPath beside it
    TransactionPlans      the four planners with options and values
    Errors                native errors to ModbusError
    Algorithms            EXTENDS TransactionPlans and Errors:      AlgorithmsProofs       EXTENDS PlanProofs
                          one function, one input, its output
    TypeAliases           resolution of types         <-- EXTENDS -- DictionaryTypes
    DictionaryTypes       dictionaries and targets that widen
    MC<module>            instances for TLC, one .cfg per run
    MCTypeAliases         small programs, and the rules on one type of one of them
    MCAlgorithms          EXTENDS Algorithms, and has MCTypeAliases beside it

A fiber runs without a yield from one wait to the next (a lock, a deferred, a sleep, a native
promise), so an action of a model goes from one wait to the next, and interleaving happens between
actions. Operators that start like a definition and add a suffix (`report_Unclaimed`,
`supersede_DropsBypass`) are mutants: the same definition with a plausible bug, each of them used to see that
a property notices it.

### WriteDebouncer

`createWriteDebouncer`. `held` is the map of held writes; an entry keeps its value, its bypass flag, the
set of its waiter slots and its age. `batch` is what the running flush took. `timer` is the current timer:
its id, whether its fiber still sleeps, and the ticks left. `queue` and `running` are `flushLock`: the jobs are
timer flushes, full-run flushes, flushes of everything, and direct calls. `scope` runs
from open over closing to closed, so that a flush on the wire, a flush in the line and a sleeping timer
are interrupted one by one before `Finalize`.

The code keeps the times of the first and the last arrival; the model keeps their ages, which
`Tick` increments up to the limits that matter. `newest` and `device` are history: which caller
wrote an address last, and whose value the device took last. The value of a write is the caller that wrote it.

`OrderedWrites` says what callers may rely on: a register only moves forward in the order in which its
writes were asked for, and a call is told of a success when each of its registers has reached its value or a newer one.
Failures are free. It knows neither windows nor batches nor locks. `WriteDebouncerOrder` adds two history
variables, how many calls have asked and when each of them did, and maps the rest by name: `device`, `status` and
`group` are the variables of `WriteDebouncer`. A flush that succeeds, fails in part or is interrupted is a `Deliver`; a
timer, the lock and a tick are stutters.

### Transport

`createTransportScoped` with the supervisor. A handle is a model value: `transport` is the
current one, `client` the one the cached client of the unit was made by, `live` those that hold a
native connection, `closes` those that detached work is closing. A caller is a fiber with a
place `pc`; `wire` holds those whose native call is pending, `detached` those whose attempt runs in a
worker. `holder` and `queue` are `nativeLock`.

`modbus-rs` is external: an open, a reconnect and a call may succeed, fail or stay pending, and a call on
a closed handle does not succeed. A retry of an operation is a new call. One unit is
enough: `clientSet` is only ever filled and cleared, and never moves a client between units.

### WritePlan and BatchingClient

`WritePlan` says which addresses each transaction of a plan writes. The register planner is the coil planner
with a gap of zero.

`BatchingClient` is one unit: its register and coil tables, one batch in flight per table (that is
what `flushLock` of the debouncer gives), the two caches, the watcher, the
declaration and the raw writes. `flight[t]` goes through `reading` (the FC01 reads of a gap), `writing` (sent,
not taken), `taken` (not acknowledged) and `done`. `seen` is the generation read before the step,
and `written` the part of the batch that the chosen plan writes: what the filter left out and the plan took along is not in it.

- One unit, so `generation` is the sum of the unit and the bus counter that the code compares.
- The FC01 reads of one gap are one step. `costOf` counts each of them, planned with the read limit (`planGapReads`).
- The device takes requests in the order in which they were sent, so whether an interrupted native call still
  reaches it can be decided when the interruption happens.
- The raw guard is inside the retry of the raw client: a retried raw write is a new one here.
- `Close` is one step: the registry's scope and the scopes of its debouncers close together.
- `doubt` and `harmed` are history. `doubt` remembers that the device lost state, or that a caller was interrupted
  with a write on the wire, and that nothing this process could see has happened since; `harmed[t]` that the state
  was lost during the batch of a table.
- Not in the model: `cache: false`, caches that a caller supplies, reads, and interruption of raw writes.

`UnitWrites` says what the users of a unit may rely on, with no cache, no plan, no gap and no lock in it. A batch takes some
addresses to their values and changes nothing else; it succeeds when all of them are there, at once if they were before; a table that has
batches is written by nobody else. A loss of state ends that for the batches under way (`harmed`), and for the next ones until
somebody has told of it (`trusted`). `BatchingClient` implements it: `AsAsked` is what is left of a
flight when its plan and its waits are not looked at, a table is `owned` when it is `Open`, and `trusted` is that `doubt` is "none" and no
change of the link waits for the watcher. `DeviceTakes` is a `Deliver`, the last `WriteAcknowledged` a `Succeed`, a batch that the filter leaves
empty a `Begin` that is done; the reads of gaps, retries, the lock and the build before it succeeds are stutters.

### RegistryCaches

The other side of the caches: several units and transports, and what is shared between them. A belief is the number of times its
link had been lost when the write went out, since which value it was does not matter here. A cache is its
table and its owner, a transport or the caller who supplied it. `generationOf` is the sum of the
count of a unit and the count of the bus, as in the code. `watchLink` is the step of the watcher for one state other than
`Connected`; `notices` are those it has not seen. A declaration is the end of a build that succeeded (its lock and
its failure are in `BatchingClient`). `believed` is history: the beliefs that no invalidation, of the unit or of its bus, has put in doubt.

### ReadPlan and ReadDebouncer

`ReadPlan` is `buildReadPlan`: the grouping loop of the write planners, where every group becomes a span. `locate` is
the bisection of the code, counted from one.

`ReadDebouncer` is `createReadDebouncer`. `collected` has the waiters of each address; a waiter is a slot, as in
`WriteDebouncer`. `timer` has the ticks that are left; `flushes` counts the flushes that were forked and have not
started, which need no identity since each takes everything. `flights` are the batches that are being fetched, any
number at once, with the plan and the responses so far. A window of zero puts the batch of a caller in its own fiber, `owner`.
`window` is chosen by `Init`, so one run has both kinds.

The value of a register is its address and the `version` of the device it was read in. `asOf` is history: the
version when a caller asked. `fetch` is that of the batching clients, one span after the other.
A timer that is replaced is interrupted while it sleeps, so no stale timer ever runs: the identity check
in `flushPending` has nothing left to do, and the model has no stale timers.

### RetryPolicy and MockTransport

`RetryPolicy` is `retry.ts` as functions on option records: which tags are retried, with which curve, and whether the
schedule goes on. Durations are milliseconds; jitter, which scales a delay, is left out.

`MockTransport` is `createMockTransportScoped`. An attempt is two steps: guard, fault hook and operation, between which
nothing yields, and the report of its outcome. `calls` holds where each caller is; a call has the policy of
its client, and the callers may put a `retryModbus` of their own around it (`outer`), which starts the inner budget anew.
`supervisors` is a sequence since a closed circuit may be claimed again while an older supervisor
sleeps. The tables are maps with the highest address, as in `buildCoils` and `buildRegisters`; an address inside
the range that nobody defined reads as off.

### ServerLayer and SerialPortPath

A layer of `ServerLayer` is what it leaves to its scope, oldest first: the native ones leave the shutdown, the
browser's the request loop and then the shutdown. `SerialPortPath` has one step for each `await` of the
function that `serialPortPathScoped` returns; the opens of one transport share one flight, so at most one is pending, and it is
detached, so it goes on after the close. `Replug` changes what the configured link names at any time.

### TransactionPlans, Errors, Algorithms, TypeAliases, DictionaryTypes

Pure functions. `Algorithms` gives them to TLC and to the prover: a behaviour chooses a function and an input and computes the
output, so that a property of the output is an invariant. Its constants are the inputs, which are assumed to have the shape that the
types of the code give them and no more; what a planner refuses is among them. `TransactionPlans` adds to the two planners what their callers see: defaults, range checks, the value of
the last write, the 16 bits of a register. `Errors` is `toModbusError`, with the text of an error as its code and the
sequence of exception markers in it.

`TypeAliases` is the type resolution of the lint plugin. A type knows the ancestors of its place, `path`, which is all
that the code asks of a syntax tree. A rule is the kind of type it looks for and what it looks into on the way. `DictionaryTypes`
has the functions of the file of that name. `MCTypeAliases` writes the same programs out: each reference is
replaced by what its nearest binder declares, arguments first, and rules are then read off the result.

## 3. Runs

| Run | Instance | Asks |
| --- | --- | --- |
| `write_debouncer` | two callers, addresses 1, 2, 4, groups that fill a run, repeat an address, or span two runs; window 2, hold 3 | are waiters accounted for, does the hold limit stay armed, does a timer end a window that is not its own, and is `OrderedWrites` implemented |
| `write_debouncer_live` | no full runs, callers call again and again, with a window and without one | is every call answered |
| `transport` | supervised TCP, two callers of all kinds, connect limits | handles, shared connects, by which handle callers are served, the circuit, answers |
| `transport_serial` | serial, three handles, limits changed at run time, symmetric | one request on the line; limits follow the handle |
| `reads` | two callers, addresses 1, 3, 4, 7 with gap 1 and limit 3, windows 0 and 2 | who is answered, when, and with which values |
| `batching` | one register, four coils with gap 1, one raw caller, retries and interruption | what the caches believe, what batches deliver, one write path per table, and is `UnitWrites` implemented |
| `services` | a mock with two callers, nested retries and faults; a server layer; a serial path with three devices and two directories; two transports with two units and shared and supplied caches | attempts and answers, the circuit, what a scope releases, which device is opened, what the caches of a bus believe |
| `algorithms` | every set of six addresses, edges of every range, all markers and codes, presets with overrides; beside it, programs of `MCTypeAliases`: a use and one or two aliases in nested scopes, with parameters, defaults and binders | do the functions agree with a reference; do rules judge a type as they would with every alias written out |

Four more runs end in a counterexample, see below.

Why the bounds are enough:

- Two callers are what interleaving needs: every hazard is between a caller and another caller, a timer, a
  supervisor or the close. In `write_debouncer` each caller calls once (`Repeat = FALSE`), since newer
  writes come from the other one; `MaxQueue` bounds the line of `flushLock` to as many jobs
  as there are callers; the live runs let the callers repeat with a line of one.
- In `services` the four parts share nothing, so a behaviour is one of them. The mock has one unit that exists
  and one that does not, a table with a gap, an exchange that reads out of range; one retry inside and one outside make four
  attempts, and a second supervisor can be claimed while the first sleeps. Unit 1 shares the caches of its transport or uses a
  supplied one there, unit 2 is on the same transport or on the other one, so both kinds of invalidation meet a neighbour's write;
  one loss of one link and one failed write of each unit put the two counters of a generation out of step. Two directories are one that is replaced and one that is late.
- In `algorithms` six addresses give runs up to twice a limit of three, a rest of every length, and gaps up to four; the
  reference tries every plan. TLC also evaluates `ReadsAreFound`, which `PlanProofs` proves for all sets, over these.
  In the programs aliases use at most one other alias, which the block of the use, a type parameter or an `infer` may shadow.
- Group `<<1, 2>>` completes a run of `Limit` 2, `<<1, 1>>` lists one waiter twice, `<<2, 4>>` leaves a write behind.
- Window 2 and hold 3 make the deadlines of the window and of the hold limit different ticks, and a second
  arrival can come while the first write has less hold left than a window; the live runs use 1 and 2.
- One supervisor slot is a bound on the fibers alive at once. It makes a second claim impossible, so
  `transport` shows what one supervisor does; that there can be two is the run `transport_two_supervisors`.
- One handle is enough for TCP, where a handle is never replaced. A serial line with interruption uses three: the
  current one, one being closed, and one whose reconnect is pending.
- In `reads` a plan has up to three spans, one of them over a gap, and a batch of one caller can be fetched while the
  next collects; one change of the device tells values from before and after a call apart; a second flush that waits would find nothing.
- Coil 2 is a gap between 1 and 3; after all four coils are set, clearing 1 and 4 costs less as a whole than filtered; one write of a batch is forced.
  A gap of this instance is one coil, so one read fills it whatever the read limit; the proofs have any limit.
- `MaxGeneration` 1 allows an invalidation while another transaction is in flight, plus one by the
  watcher; a third would compare two numbers that differ already.

`CHECK_DEADLOCK FALSE` everywhere: callers need not call, and after a close the system rests.

### Fairness

Fibers that can go on do go on, sleeps end, and a native *call* ends, because the services give every call a
response limit. Nothing makes a caller call, fail or close, and a native *open or reconnect* may stay
pending for ever: the code says it cannot be cancelled. A scope that has stopped its fibers runs its finalizers, so the transport of
a closing service is closed at last; that is how a circuit ends whose supervisor ended with the scope. In the debouncer the clock has strong fairness: it does not
stop because calls come and go. `transport` adds `HealingSpec`, the assumption that a device comes back: a
reconnect tried again and again succeeds while the supervisor waits. It is used for `CircuitCloses`, and
`EveryCallerAnswered` holds in the same run by the connect limit. `MockTransport` assumes the same of its hook for `CircuitRecovers`.
`WriteLockSettles` needs that the build's open and a raw call return.

### Where the code and its words differ

Four runs end in a counterexample of a sentence of the repository.

| Run | Sentence | What happens |
| --- | --- | --- |
| `write_debouncer_starves` | "Longest total hold" (`write-debouncer.ts:63`) | arrivals that complete runs cancel the overdue timer flush and schedule a new one behind the full-run flush, again and again; a write outside the runs stays |
| `transport_two_supervisors` | "One supervisor serves each transport" (`README.md:508`) | `reconnect()` publishes `Connected` while the supervisor backs off; the next failure claims again |
| `batching_interrupted` | "drops a write whose value the device already holds" (`batching-client.ts:143`) | `tapError` does not see an interruption; the device took the write and the cache keeps the value before it |
| `planner_fewest` | "the fewest transactions that cover them" (`register-plan.ts:201`) | a run is cut at the limit and its rest can be shorter than `minRunLength`: with a limit of 4 and 3, six adjacent registers take three transactions, where 3 + 3 takes two |

More were met and have no run of their own.

- Transport. `close()` does not end the supervisor, whose next attempt fails on the closed transport and which then publishes `Down`,
  although "`Disconnected`: never opened, or closed" (`connection.ts:19`). On a serial line an operation waits for
  `nativeLock` behind a native reconnect, before its guard and its limit, although `shared-transport.ts:64` speaks of a "time
  limit for each operation that waits for an open or reconnect". On a serial line without a response limit, a call that is interrupted
  while the transport is still opening has no handle that could be closed, and goes on when the open lands, although
  "interruption closes its handle instead of waiting indefinitely" (`README.md:554`). An interruption that drops a
  handle lets the next call open a new one while the native reconnect of the old one is pending, although "one
  transport has at most one pending native connect" (`shared-transport.ts:75`). When that late reconnect lands, the handle that
  was dropped is open again with nobody to close it, and `Connected` is published. The same interruption, between the
  landing of an open and the worker that goes on with it, can leave the unit's client in `clientSet` bound to the dropped handle.
  Both need a serial line whose response limit was cleared.
- Caches. "A failed transaction and a reconnect both mean the state of the device is unknown" (`register-cache.ts:78`), but a retry
  is below the batch, which never learns of the attempt that failed (`AttemptFails`): a power cycle that only such an attempt met
  leaves the caches as they were. A supplied cache keeps its beliefs when the transport that served a unit closes, and two
  transports that serve the same unit identifier through one cache share its beliefs; each address is keyed by unit only.
- Retries. Jitter scales a delay after its cap, so a delay can be longer than `maxDelay`. Under `persistent`, ten fast failures are
  over before its five minutes are.
- Scopes. "Scope close removes the alias" (`README.md:565`), and it does; but an alias directory that is made after the close, or replaced
  because its link could not be made, stays on disk, so `ScopesReleaseWhatTheyHold` leaves those two out. A server
  whose bind settles after the build of its layer was interrupted stays bound, and is left out too.
- Mocks. "The mock has no closed flag" (`mocks.ts:439`), but `transportClosed` is one.
- Lint rules. The arguments of an alias are resolved under the guard of that alias, so in `Id<Id<unknown>>` the inner one is
  not opened, although types are matched "after resolving visible aliases and substituting their type parameters". A default of
  a type parameter may see a parameter that is already replaced, so `P<B, A>` of an alias with swapped names resolves both to the same
  type. `G<T> = Record<string, T>` used as `F<T> = G<Readonly<T>>` makes the classification of dictionaries recurse without end, since the
  argument refers to the parameter it replaces. A function type parameter wins over an alias of a nearer block.
  The programs of `MCTypeAliases` avoid the first by `OpensEachOnce` and the others by parameter names that are all different, so
  `RulesSeeThroughAliases` says nothing of them.

## 4. Proofs

### WriteDebouncerProofs

It proves, for every set of callers and addresses, every window, hold limit, run limit and
bound of the line:

| Theorem | States |
| --- | --- |
| `TypeCorrect` | `Spec => []TypeOK` |
| `BoundedHold` | `Spec => []HoldIsBounded`: every held write has a timer within its limit, or a flush of everything in line |
| `NobodyIsStranded` | `Spec => []NobodyStranded` |
| `RemainingCounts` | `Spec => []RemainingIsExact`: `remaining` is the number of open slots of a waiting caller |
| `SettledCallersLeave` | `Spec => []SettledHasNothingLeft` |
| `BypassIsKept` | `Spec => []BypassSticks` |
| `TimersTakeWhenDue` | `Spec => TimerTakesWhenDue`: the flush of a timer takes the batch only when a window or a hold limit has ended |

The assumptions are those of `WriteDebouncer` about its constants, which TLC evaluates in each run.

The argument has three layers. The type invariant comes first, with one step per action in `StepType`.

`HoldIsBounded` is not inductive. An arrival and a partial flush compute the new deadline from `openedAge`, so
`HoldInv` adds `OpenedIsOldest`: no held write is older than the age of the batch, which is undefined only when
nothing is held. And a flush in the line is only a way out if its turn leaves nothing half taken, so it adds
`LockIsFree`: without an owner of `flushLock` no batch is in flight.

`TimerTakesWhenDue` is about the identity check in `flushPending`: a timer that has fired and waits for `flushLock` is replaced by
the next arrival, and must not take that arrival's batch. The step that takes it knows only that the timer is the current one, so
`DueInv` carries what is due from the arrival that set the timer: while it sleeps, the rest of its delay ends no earlier than the window or
the hold limit (`SleeperIsDue`); of those in the line at most one is the current one, and it is due (`WaitingTimerIsDue`,
`RunningTimerIsDue`). `OpenedIsHeld` says that the age from which a deadline is computed is that of a write still held.

The other four rest on `AccountInv`. Its parts say that a flight has a fiber that will settle it
(`FlushHasFiber`), that a slot listed at an address is a place of its caller's group with that address
(`EntriesMatch`), that held and flying slots are disjoint (`SlotsApart`), that an idle caller has nothing left
(`IdleAtZero`), that a direct caller has one place in the line and no other slots (`DirectAlone`), and the four
properties themselves. `RemainingIsExact` alone cannot be inductive, since taking a batch moves slots from one map to
the other, a supersede moves them from one entry to the next, and a failure removes those of some callers and keeps
the entries that others wait on. `CallSlots`, `HoldSlots` and `DroppedSlots` say what those operations do to the set of
slots; the cardinalities come from `FiniteSetTheorems`.

### WriteDebouncerOrderProofs

It proves, for every set of callers and addresses, every window, hold limit and run limit:

| Theorem | States |
| --- | --- |
| `DebouncerImplementsOrderedWrites` | `OrderSpec => ImplementsOrderedWrites`: registers move forward in the order in which writes were asked for, and a success means that every register of the caller holds its value or a newer one |

The premise is `~Repeat`, which the run `write_debouncer` has too: a call slot is used once. The number of slots is free,
so this bounds nothing; a slot that is used again would take its old number away from the register that still has its value.

The invariant `OrderInv` compares the positions of calls wherever they are. A held entry is newer than one of the same
register in flight (`HeldAfterBatch`), both are newer than the register (`Newer`), and no entry is older than a caller that
waits on it; so a flush that arrives, in part or in whole, moves registers forward only, and what is held afterwards is still
newer. The direct callers of a window of zero have no entries: `LineOrdered` makes the line for `flushLock` the order in which
they asked, behind what is in flight, and `FirstInLine` carries that over to the moment between getting the lock and sending.
`OneMode` keeps the two ways apart. `Covered` follows one register of one waiting caller from the batch to the bus:
it is in an entry, in the line, or there already. Together with `SettledHasNothingLeft` it gives the success clause: a call
that is told of a success has no entry and no place left, so its registers are there. That is where this proof rests on
`AccountInv` of the one before.

### TransportProofs

It proves, for every set of callers, supervisors and handles, on TCP and on a serial line, with a supervisor and without one:

| Theorem | States |
| --- | --- |
| `TypeCorrect` | `Spec => []TypeOK` |
| `LimitFollowsHandle` | `Spec => []LimitIsOfHandle` |
| `OpenCircuitIsSupervised` | `Spec => []CircuitHasSupervisor` |
| `LineCarriesOne` | `Spec => []OneOnTheLine` |
| `HandlesStayOwned` | `~(Serial /\ RuntimeLimits)` implies `Spec => []HandlesAreOwned` |
| `OneConnect` | `~(Serial /\ RuntimeLimits)` implies `Spec => []OnePendingConnect` |
| `ServedByTheHandle` | `~(Serial /\ RuntimeLimits)` implies `Spec => SuccessIsByTheHandle`: who goes to the wire, or is told of success, does so by the transport's own open handle |

The condition of the last three is what `OnePendingConnect` needs to be true: a serial line whose limit is cleared at run
time lets an interruption drop a handle whose reconnect is pending, and the next call opens a new one beside it (section 3). Under it
no work is ever detached, and `HandleInv` is inductive: nobody opens while there is a handle, and the handle that is
reconnected is the current one, so a connect that settles late is either the transport's own or is closed by the one that waited.
The run `transport` is within the condition.

`ServedByTheHandle` is about what a caller carries over a wait. `ServeInv` says it for each place: behind a reconnect or on the wire it is the
current handle, behind an open it is that or, if the transport was closed meanwhile, an orphan (`CarriesHandle`); the cached client is made by
the current handle or is gone; and while the transport is open its handle is, and nothing is being closed (`OpenHasHandle`). So the
second look at `closed` after an open is what keeps the orphan from the wire. A call that was on the wire when the close
came may still be answered, as in the code.

`OneOnTheLine` needs no condition. `LineInv` says where a fiber of a serial line must have `nativeLock`: from the end of
its open to the end of its native call, also when the caller was interrupted and the call goes on in a worker.
So the lock, and not the caller, is what orders the wire; a reconnect holds it as `Work`.

`CircuitHasSupervisor` and `LimitIsOfHandle` are inductive with the types. The first holds since a report publishes `Reconnecting`
in the step that claims the supervisor, and no supervisor ends while the state is one that the guard refuses. The second
holds since everything that replaces the handle, and everything that sets a limit, does both halves in one step.

### PlanProofs

| Theorem | States |
| --- | --- |
| `PlansAreSound` | the plan of any finite set of addresses covers it with spans that are sorted and apart, each from one of the addresses to another, within the limit, and without a gap if none is allowed |
| `ReadsAreFound` | `FindsAll`: `locate` finds each address in the span that reads it, at its place there |

Both are about loops, the grouping of `planWrites` and the bisection of `locate`, for every set, limit, `minRun` and gap. The
induction theorems of the library take an operator, which the provers used cannot instantiate. So the two algorithms are
recursive *functions*, and the induction is over a set: `StrongInduction` says that a set of naturals that has a
number whenever it has the smaller ones is `Nat`. It is applied to the set of all `n` such that every rest of `n` addresses has a plan
(`PlanFor`), and of all `n` such that every part of the plan of length `n` in which the address lies is searched well.
`RoundsExist` and `StepsExist` show that the `CHOOSE` behind each recursive function has a solution, built up the same way.
`Apart` is what the bisection needs of the planner, and it is kept when a group goes in front of the plan of the rest.

### AlgorithmsProofs

It proves, for every input of the right shape:

| Theorem | States |
| --- | --- |
| `PlansWriteTheLatestHolds` | `Spec => []PlansWriteTheLatest`: an accepted plan does what its writes did one by one |
| `PlansAreShortestHolds` | `Spec => []PlansAreShortest`: no plan within the limit and the gap needs fewer transactions |
| `OnlyTransientErrorsAreRetriedHolds` | `Spec => []OnlyTransientErrorsAreRetried` |
| `PresetsKeepTheirTuningHolds` | `Spec => []PresetsKeepTheirTuning` |
| `DelaysFollowTheCurveHolds` | `Spec => []DelaysFollowTheCurve` |

The assumptions are those of `Algorithms`, which TLC evaluates: a write has an integer address and value, an option of a planner is an
integer or absent, a native error has one of the codes and a sequence of markers, and a preset is given numbers, or nothing, where the code wants
numbers. Factors are whole numbers. That matters for `DelaysFollowTheCurve` alone: the code caps the power, the property each
product, and the two agree since a factor of at least one never takes a delay back below a ceiling that it has reached, and
a factor of zero takes every delay to zero. With a factor between zero and one, which the type of the option allows, they could differ.

The state has no history, so the inductive invariant, `Computed`, only says which function made the output. The rest of each proof is
about that function.

`PlansWriteTheLatest` uses the lemmas of `PlanProofs`: since the steps of a plan are apart, each address is written by one of
them at most (`TouchedOnce`), with the latest of its values.

`PlansAreShortest` compares a greedy plan with the reference `Fewest`, which tries every first group. `Costs` is the
equation of that reference, and `CostsExist` solves it. Two lemmas carry the argument. `RestCostsNoMore`: the end of a sorted set costs no more
than the whole, since the first group of the whole, cut down to that end, is a first group of it or empty. `WidestIsCheapest`: so
nothing is better than the widest first group, which leaves an end of what every other one leaves. `FirstGroupIsWidest` says that the
loop of the planners takes just that group, and `RoundsMatchCosts` adds the rounds up. With a shortest run above two a
group is sent one by one, the step from a group to one transaction fails, and `planner_fewest` shows by how much.

`DelaysFollowTheCurve` has two recursive functions, the power in `delayFor` and the delays computed one from the other; `PowersExist`,
`PowersAgree` and `CurvesIs` solve and compare them. `PresetsAreTyped` says that a preset with any overrides resolves each
delay to numbers, and `CeilingOnce` that cutting each delay is the same as cutting the last.

### BatchingClientProofs

It proves, for every set of addresses, values, batches, raw callers and raw writes, and every limit:

| Theorem | States |
| --- | --- |
| `TypesAreKept` | `Spec => []TypeOK` |
| `CachesAreTrue` | `Spec => []CacheIsTrue`: what a cache believes is on the device, unless the device lost it unseen or the request that changes it is on the wire |
| `OnePathPerTable` | `Spec => []OneWritePath` |
| `BatchesReachTheDevice` | `Spec => []BatchReachesDevice`: a batch that succeeds has left on the device what was asked for, what the filter left out included |
| `GapsAreKept` | `Spec => []GapsKeepTheirState`: a span leaves the coils in its gaps as the device has them |
| `BatchesImplementUnitWrites` | `Spec => ImplementsUnitWrites`: batches go to the device as they were asked for and change nothing else, and a table that has batches is written by them alone |
| `CachesAreKept` | `Spec => []CacheInv`, the inductive invariant behind the second and third |

The assumptions are those of `BatchingClient` about its constants: both tables are finite, as 16-bit addresses are, and the coils are
one range, so that a span over a gap stays inside the table. `CacheInv` assumes nothing of the planner:
up to it a transaction is any set of addresses. The others use `PlansAreSound`.

`OneWritePath` needs more than itself. Only the build makes a table open, and it ends under the write lock, so
the invariant says that a raw call on the wire is the holder of that lock (`LockKept`), and that the build is in
the line or has the lock at most once and only while the unit is being declared (`BuildOnce`): a build that came
twice could open the unit a second time, after a failure had let a raw write through. `PathKept` states the
property for the table of the call.

`CacheIsTrue` rests on three facts about order. `TakenIsThere`: a transaction that was taken, with no invalidation
since, is what the device holds when it is acknowledged; nothing else writes to the table, since a table has one
batch and its raw calls are refused. `SeenBefore`: a flight that is older than an invalidation finds its cache empty, because
whatever could fill it is that flight itself, and `observe` drops it. `OnlyWhenOpen`: a table that is not open
has no beliefs and no batch, so a raw write cannot make a belief false. `Typed` is `TypeOK` without the bound on
generations and without the plans.

`BatchInv` follows a batch from its plan to the device. `OnPlan`: the transaction at the head carries the value of the batch wherever the plan took
the address from it. `OnItsWay`: until the device loses its state, each value is there or in a transaction to come, and what fills a
gap is what the device holds; `Reached` is what is left of it when no transaction is. An address that the filter left out is there
because the cache is true, which is where `CacheInv` comes in: a belief can be used only while its table is open
(`BegunWhenOpen`), and then no raw call changes the device under it. A failed step ends the batch, a retried one goes out again
with the same values, and an invalidation in the middle empties the cache but takes nothing from what the batch still carries. `PlanFacts` ties
this to the plan: whichever of the two plans is chosen covers the writes it was made for.

The refinement adds little to `BatchInv`: only that the device is the function of its two tables (`DeviceMapped`). Each action has a lemma that
names what it is in `UnitWrites`. `UnitTakes` uses `OnPlan` for the addresses of the batch and `OnItsWay` for the gaps, so an
unharmed transaction changes nothing that was not asked for. `UnitBegins` and `UnitGoesOn` read `Reached` in the state after the step, which is why
a success that the filter alone gives is one. `UnitWrittenDirectly` uses `PathKept`, and `StaysOpen` says that a table does not go back.

### ReadDebouncerProofs

It proves, for every set of callers and addresses, every window, and any number of flushes, fetches and changes of the device:

| Theorem | States |
| --- | --- |
| `WindowIsKept` | `Spec => []WindowIsFixed`: while the scope is open, a timer runs exactly when a reader of the window is collected, and ends one window after the first of them came |
| `AnswersStayWhole` | `Spec => []AnswersAreWhole`: a caller that is answered has the value of each of its addresses |
| `AnswersStayFresh` | `Spec => []AnswersAreFresh`: none of them was read before it asked |

The assumptions are those of `ReadDebouncer` about its constants; that the addresses are finitely many is their 16 bits. The last two
use `ReadsAreFound` of `PlanProofs`, as the lemma `PlanFinds`: the place where `settle` looks is the one that the plan gave the address.

`WindowIsFixed` becomes inductive as `Ticking`, which adds the types. A `readAllNow` collects without a timer and waits for the flush that it
forked, so what is collected may have none; and a close stops the timer. The
answers rest on `ReadInv`. `Whole`: a caller with one waiter in a batch has all of its waiters there, and its call slot is not taken for another
call. So the settlement of a batch is all that a caller ever waits for, also when a window of zero puts a batch of one
caller beside one that is collected. `Timely`: a response is at least as young as each caller that waits for it, since
a batch is closed to arrivals before its first request goes out. `FlightOK` adds that a batch is read by the plan of exactly
the addresses somebody waits for; with that lemma and the check of the length of every response, the place where `settle` looks is one
that the device filled.

### ServicesProofs: the caches

It proves, for every set of transports and units, every way to declare them, and any number of losses, failures and writes on
the wire:

| Theorem | States |
| --- | --- |
| `BeliefsStayCurrent` | `Spec => []BeliefsAreCurrent`: a cache believes what was written since the last loss of its unit's link, or the watcher has a loss to see; and it lost no other belief |

The assumption is that of `RegistryCaches` about its constants: the values that stand for nothing are none of those they stand beside, no
transport has the name of a caller, and a declaration names a transport and a way to cache each table.

The number an acknowledgement compares is a sum of two counters, and one cache may serve units of several links, so the invariant
has to say what each invalidation reaches. `Wired`: the watcher of a unit's transport knows every cache of the unit, and runs while the
scope is open. `OwnUnits`: of a supplied cache it knows only units it serves. Together they make its sight of a loss raise the sum of
exactly the units of its link. Then `FlightsCounted` is inductive: an invalidation overtook a write exactly when the sum has
moved on, so `observe` neither records a doubtful answer nor drops one that nothing contradicts. `FlightsCurrent` says of the writes that
are not in doubt what the property says of beliefs, since an acknowledgement turns one into the other; `BeliefsPlaced` keeps beliefs in the caches
of declared units, so that a declaration, which changes what `ServedBy` means, finds none.

### ServicesProofs: mock, servers and serial path

It proves, for every set of callers, definitions of devices, operations, policies, errors, serial devices and directories:

| Theorem | States |
| --- | --- |
| `AttemptsStayBounded` | `ServicesSpec => []AttemptsAreBounded` |
| `OperationsStayWhole` | `ServicesSpec => OperationsAreWhole` |
| `ScopesReleaseAll` | `ServicesSpec => []ScopesReleaseWhatTheyHold`: servers are shut down but for those of an interrupted bind, and the alias is removed but for directories that are late or were replaced |
| `OpensReachTheLink` | `ServicesSpec => OpensFollowTheLink` |

The assumptions are those of `Services`, which TLC evaluates: a policy has a number of retries, an operation that writes has
values that its table can hold, and no temporary directory has the path of the configured link.

`AttemptsAreBounded` counts three things at once. `WithinRounds` bounds the attempts by the rounds before this one, each worth a whole
inner budget, and the attempts of this round; a retry adds one to one of the two only when its policy still allows it, whatever the error is.
The actions of the mock follow from what one attempt is (`AttemptIs`): only an attempt of its own takes a call from trying to reporting
(`ReachedByAttempt`), and what it does to the device is `Whole`, proved of each kind of operation from what `Stored` changes.
`ServerInv` says which finalizers can be left while a server is bound, and `SerialInv` that an alias is a link to the configured path
in a directory whose path is short, and that what is on disk was made.

### Only model-checked

- Liveness, which is out of reach of the provers used: `EveryCallSettles`, `EveryReaderAnswered`, `EveryCallerAnswered`,
  `CircuitCloses`, `CircuitRecovers`, `WriteLockSettles`.
- `RulesSeeThroughAliases`. What a rule resolves is a recursion over types, written with recursive operators, which the prover
  does not take: `TypeAliases`, `DictionaryTypes` and `MCTypeAliases` are for TLC only.
- The four sentences of section 3 that a run refutes.

## 5. Not modelled

- Wire formats and the whole of `modbus-rs`: external, with every outcome its promises may have.
- Spans, logging, wording of errors; encodings of cached values; jitter.
- Interruption of a raw write, whose native call would have to outlive its fiber.
- `touchedUnits` and `pendingRequests` of the transport, which are only reported to its user.
- The reads of coils and registers through a batching client are those of `ReadDebouncer`, and are not composed with its writes.
- `WasmSerialPort.ts`, one prompt of the browser, and `index.ts`, which re-exports.
- Of the lint plugin: the rules about the flow of values (`no-known-value-widening`, `no-widen-then-assert`), the rules that match one
  syntax node, and the reports.
- Examples, build files and the browser demonstration.

## 6. Plan

1. Done: the debouncers, the transport, the batching client and its caches, the planners, policies, mock, layers, serial path, and
   the type resolution of the lint rules; the proofs of every safety property that the runs check but the one of the lint rules, and the
   refinements of `OrderedWrites` and `UnitWrites` with their proofs.
2. The caches of `RegistryCaches` as an implementation of a promise for several units, as `UnitWrites` is for one.
3. Raw writes that are interrupted; `BatchingClient` over `WriteDebouncer`.
