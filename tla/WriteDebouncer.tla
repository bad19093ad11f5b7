--------------------------- MODULE WriteDebouncer ---------------------------
(***************************************************************************)
(* createWriteDebouncer of src/src/write-debouncer.ts: writes that arrive  *)
(* one by one are held per address, superseded by newer writes to the same *)
(* address, and flushed as one batch when their window or their hold limit *)
(* ends, when a caller asks for it, or when a run of addresses is full.    *)
(*                                                                         *)
(* What runs concurrently: the callers, the timer fiber, the forked flush  *)
(* fibers, and the fiber that closes the scope.  `lock` makes each of      *)
(* enqueue, take and dropFailed one step; `flushLock` is a FIFO semaphore  *)
(* and is modelled by `queue` (fibers that wait for it) and `running` (the *)
(* fiber that has it).                                                     *)
(*                                                                         *)
(* A value is abstracted to the call that wrote it.  A waiter is a slot    *)
(* <<call, i>> per entry it is listed in, so an address that occurs twice  *)
(* in a group is two slots.  Time is kept as ages (now - arrivedAtMs), so  *)
(* the clock needs no bound: an age stops growing at the largest value     *)
(* that the code can tell apart.                                           *)
(***************************************************************************)
EXTENDS Integers, Sequences, FiniteSets

CONSTANTS
    Calls,          \* calls of write, writeAll, writeNow and writeAllNow
    Addresses,      \* register addresses, a set of naturals
    Groups,         \* the address sequences that a call may carry
    MaxGroup,       \* length of the longest of them
    Window,         \* windowMs, in ticks
    MaxHold,        \* maxHoldMs, in ticks
    FlushFullRuns,  \* flushFullRuns
    Limit,          \* maxRegistersPerWrite
    MaxQueue,       \* bound: fibers that wait for flushLock when a call arrives
    Repeat,         \* whether a finished call slot is used by a new call
    NoCall,         \* no call
    NoEntry         \* no held entry

ASSUME TimingAssumption ==
    /\ Window \in Nat /\ MaxHold \in Nat /\ Limit \in Nat \ {0}
    /\ MaxQueue \in Nat /\ MaxGroup \in Nat \ {0}
    /\ FlushFullRuns \in BOOLEAN /\ Repeat \in BOOLEAN

ASSUME RequestAssumption ==
    /\ Addresses \subseteq Nat
    /\ Groups \subseteq Seq(Addresses)
    /\ \A g \in Groups : Len(g) \in 1..MaxGroup

ASSUME NoCallAssumption == NoCall \notin Calls

VARIABLES
    held,       \* the batch that collects: an Entry per held address
    batch,      \* the entries that options.flush is issuing
    timer,      \* the current window timer; id 0 when there is none
    openedAge,  \* now - openedAtMs, or Undefined
    lastAge,    \* now - lastArrivalMs, or Undefined
    queue,      \* fibers that wait for flushLock, in order
    running,    \* the fiber that has flushLock, or NoJob
    scope,      \* "open", "closing" (its fibers are interrupted) or "closed"
    status,     \* what each call has been told
    remaining,  \* Waiter.remaining of each call
    group,      \* the addresses of each call
    forced,     \* whether each call asked for bypassCache
    newest,     \* history: the last call that asked to write each address
    device      \* the call whose value each register holds

vars == <<held, batch, timer, openedAge, lastAge, queue, running, scope,
          status, remaining, group, forced, newest, device>>

timing == <<timer, openedAge, lastAge>>
calls == <<status, remaining, group, forced>>

-----------------------------------------------------------------------------

Undefined == -1
Slots == Calls \X (1..MaxGroup)

\* HeldWrite.  `writer` stands for its write and its attributes.
Entry == [writer : Calls, bypass : BOOLEAN, age : 0..MaxHold,
          waiters : SUBSET Slots]

Batches == [Addresses -> Entry \cup {NoEntry}]
Nothing == [a \in Addresses |-> NoEntry]
HeldIn(b) == {a \in Addresses : b[a] # NoEntry}
WaitersIn(b) == UNION {b[a].waiters : a \in HeldIn(b)}

\* A timer fiber still sleeps while `asleep`.  Every TimerState has a new id in
\* the code; an id that no fiber carries any more is used again here.
TimerIds == 1..3
Timers == [id : 0..3, left : 0..Window, asleep : BOOLEAN]
NoTimer == [id |-> 0, left |-> 0, asleep |-> FALSE]

\* A fiber that runs flushPending: for a timer, for `flush` and writeNow
\* ("all"), for full runs only ("full"), or a caller of issueDirectly
\* ("direct").  An interrupted one keeps its place as "dead" and does nothing.
Kinds == {"timer", "all", "full", "direct", "dead", "none"}
Jobs == {job \in [kind : Kinds, id : 0..3, call : Calls \cup {NoCall}] :
            job.kind = "direct" => job.id = 0 /\ job.call \in Calls}
Job(kind) == [kind |-> kind, id |-> 0, call |-> NoCall]
NoJob == Job("none")
TimerJob(i) == [kind |-> "timer", id |-> i, call |-> NoCall]
DirectJob(c) == [kind |-> "direct", id |-> 0, call |-> c]
InScope(job) == job.kind \in {"timer", "all", "full"}

ASSUME NoEntryAssumption == NoEntry \notin Entry

Smaller(x, y) == IF x < y THEN x ELSE y
AtLeastZero(x) == IF x < 0 THEN 0 ELSE x

-----------------------------------------------------------------------------
(* Runs of contiguous addresses.                                           *)

\* The addresses of `set` that are joined to a by held addresses only.
RunOf(set, a) == {b \in set : (a..b) \cup (b..a) \subseteq set}

completesRun(set, a) == Cardinality(RunOf(set, a)) >= Limit

\* A run is cut into chunks of Limit from its lowest address; these are the
\* addresses of the chunks that are full.
fullRunAddresses(set) ==
    {a \in set :
        LET run == RunOf(set, a)
            position == Cardinality({b \in run : b < a})
        IN  position < (Cardinality(run) \div Limit) * Limit}

-----------------------------------------------------------------------------
Init ==
    /\ held = Nothing /\ batch = Nothing
    /\ timer = NoTimer /\ openedAge = Undefined /\ lastAge = Undefined
    /\ queue = <<>> /\ running = NoJob /\ scope = "open"
    /\ status = [c \in Calls |-> "idle"]
    /\ remaining = [c \in Calls |-> 0]
    /\ group = [c \in Calls |-> <<>>]
    /\ forced = [c \in Calls |-> FALSE]
    /\ newest = [a \in Addresses |-> NoCall]
    /\ device = [a \in Addresses |-> NoCall]

-----------------------------------------------------------------------------
(* The timer.                                                              *)

\* interruptUnsafe on the fiber of the current timer, when it waits in line.
Cancelled(q) ==
    [i \in DOMAIN q |-> IF q[i].kind = "timer" /\ q[i].id = timer.id
                        THEN Job("dead") ELSE q[i]]

\* Mutant: the delay is one tick too long.
NewTimer_OneTickLate(delay) ==
    [id |-> CHOOSE i \in TimerIds : i # timer.id /\ i # running.id,
     left |-> delay + 1, asleep |-> scope = "open"]

\* scheduleTimer.  A fiber forked into a closed scope is interrupted at once.
NewTimer(delay) ==
    [id |-> CHOOSE i \in TimerIds : i # timer.id /\ i # running.id,
     left |-> delay, asleep |-> scope = "open"]

OldestAge(h) ==
    CHOOSE x \in 0..MaxHold : /\ \E a \in HeldIn(h) : h[a].age = x
                              /\ \A a \in HeldIn(h) : h[a].age <= x

\* Mutant: the hold limit starts again with every partial flush.
rescheduleRemaining_RestartsHold(h) ==
    /\ queue' = Cancelled(queue)
    /\ IF HeldIn(h) = {}
       THEN timer' = NoTimer /\ openedAge' = Undefined
       ELSE openedAge' = 0 /\ timer' = NewTimer(Window)
    /\ UNCHANGED lastAge

rescheduleRemaining(h) ==
    /\ queue' = Cancelled(queue)
    /\ IF HeldIn(h) = {}
       THEN timer' = NoTimer /\ openedAge' = Undefined
       ELSE LET oldest == OldestAge(h)
                ofWindow == IF lastAge = Undefined THEN Window ELSE Window - lastAge
            IN  /\ openedAge' = oldest
                /\ timer' = NewTimer(AtLeastZero(Smaller(ofWindow, MaxHold - oldest)))
    /\ UNCHANGED lastAge

TimerFires ==
    /\ timer.asleep /\ timer.left = 0
    /\ timer' = [timer EXCEPT !.asleep = FALSE]
    /\ queue' = Append(queue, TimerJob(timer.id))
    /\ UNCHANGED <<held, batch, openedAge, lastAge, running, scope, calls,
                   newest, device>>

Older(age, cap) == IF age = Undefined THEN Undefined ELSE Smaller(age + 1, cap)

\* Time passes only when no timer is due and no fiber can go on: the event loop
\* runs what is ready before it lets a later timer expire.
Tick ==
    /\ ~(timer.asleep /\ timer.left = 0)
    /\ IF running = NoJob THEN queue = <<>> ELSE batch # Nothing
    /\ held' = [a \in Addresses |->
                  IF held[a] = NoEntry THEN NoEntry
                  ELSE [held[a] EXCEPT !.age = Smaller(@ + 1, MaxHold)]]
    /\ timer' = [timer EXCEPT !.left = IF timer.asleep THEN @ - 1 ELSE @]
    /\ openedAge' = Older(openedAge, MaxHold)
    /\ lastAge' = Older(lastAge, Window)
    /\ UNCHANGED <<batch, queue, running, scope, calls, newest, device>>

-----------------------------------------------------------------------------
(* Arrivals.                                                               *)

\* Mutant: the newer write takes the place of the older callers too.
supersede_ForgetsWaiters(superseded, c, bypass, slots) ==
    [writer |-> c,
     bypass |-> bypass \/ (superseded # NoEntry /\ superseded.bypass),
     age |-> IF superseded = NoEntry THEN 0 ELSE superseded.age,
     waiters |-> slots]

\* Mutant: the newer write brings its own bypass flag.
supersede_DropsBypass(superseded, c, bypass, slots) ==
    [writer |-> c, bypass |-> bypass,
     age |-> IF superseded = NoEntry THEN 0 ELSE superseded.age,
     waiters |-> IF superseded = NoEntry THEN slots ELSE superseded.waiters \cup slots]

\* Mutant: the write that came first keeps its value.
supersede_KeepsFirst(superseded, c, bypass, slots) ==
    IF superseded = NoEntry
    THEN [writer |-> c, bypass |-> bypass, age |-> 0, waiters |-> slots]
    ELSE [superseded EXCEPT !.bypass = @ \/ bypass, !.waiters = @ \cup slots]

supersede(superseded, c, bypass, slots) ==
    IF superseded = NoEntry
    THEN [writer |-> c, bypass |-> bypass, age |-> 0, waiters |-> slots]
    ELSE [writer |-> c,
          bypass |-> bypass \/ superseded.bypass,
          age |-> superseded.age,
          waiters |-> superseded.waiters \cup slots]

SlotsAt(c, g, a) == {<<c, i>> : i \in {j \in DOMAIN g : g[j] = a}}

\* A call starts.  Its addresses and its flag are inputs.
Begin(c, g, bypass) ==
    /\ status[c] = "idle" /\ Len(queue) < MaxQueue
    /\ status' = [status EXCEPT ![c] = "waiting"]
    /\ group' = [group EXCEPT ![c] = g]
    /\ forced' = [forced EXCEPT ![c] = bypass]
    /\ newest' = [a \in Addresses |->
                    IF \E i \in DOMAIN g : g[i] = a THEN c ELSE newest[a]]

\* Mutant: remaining counts addresses, not entries.
Hold_CountsAddresses(c, g, bypass) ==
    /\ held' = [a \in Addresses |->
                  IF \E i \in DOMAIN g : g[i] = a
                  THEN supersede(held[a], c, bypass, SlotsAt(c, g, a))
                  ELSE held[a]]
    /\ remaining' = [remaining EXCEPT ![c] = Cardinality({g[i] : i \in DOMAIN g})]
    /\ openedAge' = IF openedAge = Undefined THEN 0 ELSE openedAge

Hold(c, g, bypass) ==
    /\ held' = [a \in Addresses |->
                  IF \E i \in DOMAIN g : g[i] = a
                  THEN supersede(held[a], c, bypass, SlotsAt(c, g, a))
                  ELSE held[a]]
    /\ remaining' = [remaining EXCEPT ![c] = Len(g)]
    /\ openedAge' = IF openedAge = Undefined THEN 0 ELSE openedAge

\* write and writeAll: enqueue with a restarted timer, then wait.
writeAll(c, g, bypass) ==
    /\ Window > 0 /\ scope # "closed"
    /\ Begin(c, g, bypass)
    /\ Hold(c, g, bypass)
    /\ lastAge' = 0
    /\ timer' = NewTimer(AtLeastZero(Smaller(Window, MaxHold - openedAge')))
    /\ LET full == /\ FlushFullRuns /\ scope = "open"
                   /\ \E i \in DOMAIN g : completesRun(HeldIn(held'), g[i])
       IN  queue' = IF full THEN Append(Cancelled(queue), Job("full"))
                    ELSE Cancelled(queue)
    /\ UNCHANGED <<batch, running, scope, device>>

\* writeNow and writeAllNow: enqueue without a timer, then fork a flush.
writeAllNow(c, g, bypass) ==
    /\ Window > 0 /\ scope # "closed"
    /\ Begin(c, g, bypass)
    /\ Hold(c, g, bypass)
    /\ queue' = IF scope = "open" THEN Append(queue, Job("all")) ELSE queue
    /\ UNCHANGED <<batch, timer, lastAge, running, scope, device>>

\* A window of zero: the caller's own fiber waits for flushLock.
issueDirectly(c, g, bypass) ==
    /\ Window = 0 /\ scope # "closed"
    /\ Begin(c, g, bypass)
    /\ queue' = Append(queue, DirectJob(c))
    /\ UNCHANGED <<held, batch, timing, running, scope, remaining, device>>

\* ensureOpen: the scope is closed, nothing is held.
RejectClosed(c) ==
    /\ status[c] = "idle" /\ scope = "closed"
    /\ status' = [status EXCEPT ![c] = "failed"]
    /\ UNCHANGED <<held, batch, timing, queue, running, scope, remaining,
                   group, forced, newest, device>>

flush ==
    /\ scope = "open" /\ Len(queue) < MaxQueue
    /\ queue' = Append(queue, Job("all"))
    /\ UNCHANGED <<held, batch, timing, running, scope, calls, newest, device>>

\* The caller has its answer and may call again.  Values nobody will ask about
\* are forgotten.
Return(c) ==
    /\ Repeat /\ status[c] \in {"succeeded", "failed"}
    /\ status' = [status EXCEPT ![c] = "idle"]
    /\ remaining' = [remaining EXCEPT ![c] = 0]
    /\ group' = [group EXCEPT ![c] = <<>>]
    /\ forced' = [forced EXCEPT ![c] = FALSE]
    /\ newest' = [a \in Addresses |-> IF newest[a] = c THEN NoCall ELSE newest[a]]
    /\ device' = [a \in Addresses |-> IF device[a] = c THEN NoCall ELSE device[a]]
    /\ UNCHANGED <<held, batch, timing, queue, running, scope>>

-----------------------------------------------------------------------------
(* Flushes.                                                                *)

\* flushLock goes to the fiber that waits longest.
GrantFlushLock ==
    /\ running = NoJob /\ queue # <<>>
    /\ running' = IF Head(queue).kind = "dead" THEN NoJob ELSE Head(queue)
    /\ queue' = Tail(queue)
    /\ UNCHANGED <<held, batch, timing, scope, calls, newest, device>>

\* takeAll.  A flush that no timer started also stops the current timer.
takeAll ==
    /\ batch' = held /\ held' = Nothing
    /\ timer' = NoTimer /\ openedAge' = Undefined /\ lastAge' = Undefined
    /\ queue' = IF running.kind = "timer" THEN queue ELSE Cancelled(queue)
    /\ running' = IF HeldIn(held) = {} THEN NoJob ELSE running

takeFullRuns ==
    LET full == fullRunAddresses(HeldIn(held))
        rest == [a \in Addresses |-> IF a \in full THEN NoEntry ELSE held[a]]
    IN  IF full = {}
        THEN running' = NoJob /\ UNCHANGED <<held, batch, timing, queue>>
        ELSE /\ batch' = [a \in Addresses |-> IF a \in full THEN held[a] ELSE NoEntry]
             /\ held' = rest
             /\ rescheduleRemaining(rest)
             /\ UNCHANGED running

\* Mutant: a timer's flush does not ask whether its timer is still the current one.
TakeBatch_AnyTimer ==
    /\ InScope(running) /\ batch = Nothing
    /\ \/ running.kind # "full" /\ takeAll
       \/ running.kind = "full" /\ takeFullRuns
    /\ UNCHANGED <<scope, calls, newest, device>>

\* The first half of flushPending, under lock.
TakeBatch ==
    /\ InScope(running) /\ batch = Nothing
    /\ \/ /\ running.kind = "timer" /\ running.id # timer.id
          /\ running' = NoJob
          /\ UNCHANGED <<held, batch, timing, queue>>
       \/ /\ running.kind = "timer" => running.id = timer.id
          /\ running.kind # "full"
          /\ takeAll
       \/ running.kind = "full" /\ takeFullRuns
    /\ UNCHANGED <<scope, calls, newest, device>>

\* issueDirectly calls options.flush with its own group and nothing else.
TakeDirect ==
    /\ running.kind = "direct" /\ batch = Nothing
    /\ LET c == running.call
       IN  /\ batch' = [a \in Addresses |->
                          IF \E i \in DOMAIN group[c] : group[c][i] = a
                          THEN supersede(NoEntry, c, forced[c], SlotsAt(c, group[c], a))
                          ELSE NoEntry]
           /\ remaining' = [remaining EXCEPT ![c] = Len(group[c])]
    /\ UNCHANGED <<held, timing, queue, running, scope, status, group, forced,
                   newest, device>>

\* Mutant: the other writes of a failed caller stay in the batch.
dropFailed_KeepsAll(failed) == held

\* dropFailed: the entries that only failed callers wait for leave the batch.
dropFailed(failed) ==
    [a \in Addresses |->
       IF held[a] = NoEntry THEN NoEntry
       ELSE LET waiters == {s \in held[a].waiters : s[1] \notin failed}
            IN  IF waiters = {} THEN NoEntry
                ELSE [held[a] EXCEPT !.waiters = waiters]]

BatchCalls == {s[1] : s \in WaitersIn(batch)}
Listed(c) == {s \in WaitersIn(batch) : s[1] = c}

\* Mutant: only a successful flush completes its waiters.
Settle_IgnoresFailure(success) ==
    LET left == [c \in Calls |-> remaining[c] - Cardinality(Listed(c))]
    IN  /\ remaining' = left
        /\ status' = [c \in Calls |->
                        IF c \notin BatchCalls \/ left[c] > 0 \/ ~success
                        THEN status[c] ELSE "succeeded"]
        /\ batch' = Nothing /\ running' = NoJob

\* settle, and the release of flushLock.
Settle(success) ==
    LET left == [c \in Calls |-> remaining[c] - Cardinality(Listed(c))]
    IN  /\ remaining' = left
        /\ status' = [c \in Calls |->
                        IF c \notin BatchCalls \/ status[c] # "waiting" THEN status[c]
                        ELSE IF ~success THEN "failed"
                        ELSE IF left[c] > 0 THEN status[c] ELSE "succeeded"]
        /\ batch' = Nothing /\ running' = NoJob

FlushSucceeds ==
    /\ batch # Nothing
    /\ Settle(TRUE)
    /\ device' = [a \in Addresses |->
                    IF batch[a] = NoEntry THEN device[a] ELSE batch[a].writer]
    /\ UNCHANGED <<held, timing, queue, scope, group, forced, newest>>

\* options.flush fails, or the close of the scope interrupts it.  Any part of
\* the batch may have reached the device.
FlushFails ==
    /\ batch # Nothing
    /\ Settle(FALSE)
    /\ \E reached \in SUBSET HeldIn(batch) :
          device' = [a \in Addresses |->
                       IF a \in reached THEN batch[a].writer ELSE device[a]]
    /\ LET rest == dropFailed(BatchCalls)
       IN  /\ held' = rest
           /\ IF HeldIn(rest) = HeldIn(held)
              THEN UNCHANGED <<timing, queue>>
              ELSE rescheduleRemaining(rest)
    /\ UNCHANGED <<scope, group, forced, newest>>

\* Mutant: the interrupted caller is removed from the line, and not told.
InterruptDirect_Silent(c) ==
    /\ \E i \in DOMAIN queue :
          /\ queue[i] = DirectJob(c)
          /\ queue' = [queue EXCEPT ![i] = Job("dead")]
    /\ UNCHANGED <<held, batch, timing, running, scope, calls, newest, device>>

\* A caller of issueDirectly is interrupted while it waits for flushLock.  One
\* that is interrupted later ends like FlushFails.
InterruptDirect(c) ==
    /\ \E i \in DOMAIN queue :
          /\ queue[i] = DirectJob(c)
          /\ queue' = [queue EXCEPT ![i] = Job("dead")]
    /\ status' = [status EXCEPT ![c] = "failed"]
    /\ UNCHANGED <<held, batch, timing, running, scope, remaining, group,
                   forced, newest, device>>

-----------------------------------------------------------------------------
(* The close of the scope: first the fibers forked into it are interrupted *)
(* one by one, and then the finalizer of the debouncer runs.               *)

Close ==
    /\ scope = "open" /\ scope' = "closing"
    /\ UNCHANGED <<held, batch, timing, queue, running, calls, newest, device>>

CloseInterruptsTimer ==
    /\ scope = "closing" /\ timer.asleep
    /\ timer' = [timer EXCEPT !.asleep = FALSE]
    /\ UNCHANGED <<held, batch, openedAge, lastAge, queue, running, scope,
                   calls, newest, device>>

CloseInterruptsWaiting ==
    /\ scope = "closing"
    /\ \E i \in DOMAIN queue :
          /\ InScope(queue[i])
          /\ queue' = [queue EXCEPT ![i] = Job("dead")]
    /\ UNCHANGED <<held, batch, timing, running, scope, calls, newest, device>>

Finalize ==
    /\ scope = "closing" /\ ~timer.asleep /\ ~InScope(running)
    /\ \A i \in DOMAIN queue : ~InScope(queue[i])
    /\ scope' = "closed"
    /\ held' = Nothing /\ openedAge' = Undefined /\ lastAge' = Undefined
    /\ status' = [c \in Calls |->
                    IF status[c] = "waiting" /\ \E s \in WaitersIn(held) : s[1] = c
                    THEN "failed" ELSE status[c]]
    /\ UNCHANGED <<batch, timer, queue, running, remaining, group, forced,
                   newest, device>>

-----------------------------------------------------------------------------
Arrive(c) ==
    \E g \in Groups, bypass \in BOOLEAN :
        \/ writeAll(c, g, bypass)
        \/ writeAllNow(c, g, bypass)
        \/ issueDirectly(c, g, bypass)

Next ==
    \/ \E c \in Calls : Arrive(c) \/ RejectClosed(c) \/ Return(c) \/ InterruptDirect(c)
    \/ flush
    \/ TimerFires \/ Tick
    \/ GrantFlushLock \/ TakeBatch \/ TakeDirect
    \/ FlushSucceeds \/ FlushFails
    \/ Close \/ CloseInterruptsTimer \/ CloseInterruptsWaiting \/ Finalize

Spec == Init /\ [][Next]_vars

\* Fibers that can go on do go on, timers fire, and options.flush ends: every
\* request below it has a timeout.  The clock does not stop while calls come and
\* go (SF of Tick).  Nobody has to call, to fail or to close.
Fairness ==
    /\ WF_vars(TimerFires) /\ SF_vars(Tick)
    /\ WF_vars(GrantFlushLock) /\ WF_vars(TakeBatch) /\ WF_vars(TakeDirect)
    /\ WF_vars(FlushSucceeds \/ FlushFails)
    /\ WF_vars(CloseInterruptsTimer) /\ WF_vars(CloseInterruptsWaiting)
    /\ WF_vars(Finalize)

FairSpec == Spec /\ Fairness

-----------------------------------------------------------------------------
(* Properties.                                                             *)

TypeOK ==
    /\ held \in Batches /\ batch \in Batches
    /\ timer \in Timers
    /\ openedAge \in {Undefined} \cup 0..MaxHold
    /\ lastAge \in {Undefined} \cup 0..Window
    /\ queue \in Seq(Jobs) /\ running \in Jobs
    /\ scope \in {"open", "closing", "closed"}
    /\ status \in [Calls -> {"idle", "waiting", "succeeded", "failed"}]
    /\ remaining \in [Calls -> Int]
    /\ group \in [Calls -> Groups \cup {<<>>}]
    /\ forced \in [Calls -> BOOLEAN]
    /\ newest \in [Addresses -> Calls \cup {NoCall}]
    /\ device \in [Addresses -> Calls \cup {NoCall}]

OpenSlots(c) == {s \in WaitersIn(held) \cup WaitersIn(batch) : s[1] = c}
DirectPending(c) ==
    \/ running = DirectJob(c)
    \/ \E i \in DOMAIN queue : queue[i] = DirectJob(c)

\* A caller that waits has a write on its way: it never waits for a flush that
\* nobody will make, whatever part of its group earlier flushes took.
NobodyStranded ==
    \A c \in Calls :
        status[c] = "waiting" => OpenSlots(c) # {} \/ DirectPending(c)

\* Waiter.remaining counts exactly the entries, held or in flight, that list a
\* caller that still waits, a duplicate address once per occurrence.
RemainingIsExact ==
    \A c \in Calls :
        status[c] = "waiting" => remaining[c] = Cardinality(OpenSlots(c))

\* A caller that has its answer has nothing left to send: after a failure its
\* other writes do not reach the bus, and after a success there are none.
SettledHasNothingLeft ==
    \A c \in Calls : status[c] # "waiting" => OpenSlots(c) = {}

TakesEverything(job) ==
    job.kind = "all" \/ (job.kind = "timer" /\ job.id = timer.id)

\* Every held write has a way to the bus: a timer that expires before the hold
\* limit of the write ends, or a fiber in line that will take the whole batch.
HoldIsBounded ==
    scope = "open" =>
        \A a \in HeldIn(held) :
            \/ timer.asleep /\ held[a].age + timer.left <= MaxHold
            \/ batch = Nothing /\ TakesEverything(running)
            \/ \E i \in DOMAIN queue : TakesEverything(queue[i])

HasAged(b, age) == \E a \in HeldIn(b) : b[a].age >= age

\* A timer takes the batch only when it is due: a window after the last arrival, or
\* when a write of the batch was held for maxHold.  The timer of an earlier arrival,
\* already in line when the new one came, does not end the new one's window.  Writes
\* that came by writeNow only have a window of their own.
TimerTakesWhenDue ==
    [][running.kind = "timer" /\ batch' # batch /\ batch' # Nothing =>
          \/ lastAge = Window \/ HasAged(held, MaxHold)
          \/ lastAge = Undefined /\ HasAged(held, Window)]_vars

\* A bypass survives every newer write to the address: while a caller that
\* asked for it waits on an entry, the entry is sent past the cache.
BypassSticks ==
    \A b \in {held, batch} : \A a \in HeldIn(b) : \A s \in b[a].waiters :
        forced[s[1]] => b[a].bypass

\* Every call gets an answer.
EveryCallSettles ==
    \A c \in Calls : status[c] = "waiting" ~> status[c] # "waiting"

\* "Longest total hold": a write that was held for maxHold leaves the batch
\* after the flushes in front of it.
HoldLimitEnds ==
    \A a \in Addresses :
        (held[a] # NoEntry /\ held[a].age = MaxHold) ~> (held[a] = NoEntry)

=============================================================================
