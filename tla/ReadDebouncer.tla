---------------------------- MODULE ReadDebouncer ---------------------------
(***************************************************************************)
(* createReadDebouncer of src/src/read-debouncer.ts: reads that arrive one *)
(* by one are collected for a window that starts with the first of them,   *)
(* read as one plan of spans, and handed out.                              *)
(*                                                                         *)
(* What runs concurrently: the callers, the timer fiber, the forked        *)
(* flushes, and the fiber that closes the scope.  The lock covers what     *)
(* enqueues and what takes a batch, without a wait inside, so each is one  *)
(* step.  A batch is fetched without the lock: several can be on the wire. *)
(*                                                                         *)
(* A waiter (a Deferred) is a slot <<caller, i>>, the i-th address of its  *)
(* group.  The device is external: the value it returns for an address is  *)
(* the address and the version of the state it was read from.              *)
(***************************************************************************)
EXTENDS Integers, Sequences, FiniteSets, ReadPlan

CONSTANTS
    Callers,        \* fibers that read
    Addresses,      \* register addresses, a finite set of naturals: they have 16 bits
    Groups,         \* the address sequences that a call may carry
    MaxGroup,       \* length of the longest of them
    Windows,        \* the windows a debouncer may be made with, in ticks
    MaxPerRead,     \* maxRegistersPerRead
    MaxGap,         \* maxGap
    MaxVersion,     \* bound: changes of the device
    MaxFlushes,     \* bound: forked flushes that have not started
    Nobody          \* not a caller

ASSUME TimingAssumption ==
    /\ Windows \subseteq Nat
    /\ MaxPerRead \in Nat \ {0} /\ MaxGap \in Nat
    /\ MaxVersion \in Nat /\ MaxFlushes \in Nat /\ MaxGroup \in Nat \ {0}

ASSUME RequestAssumption ==
    /\ Addresses \subseteq Nat /\ IsFiniteSet(Addresses)
    /\ Groups \subseteq Seq(Addresses)
    /\ \A g \in Groups : Len(g) \in 1..MaxGroup
    /\ Nobody \notin Callers

VARIABLES
    window,     \* windowMs; zero disables the debouncer
    collected,  \* the waiters of each collected address
    timer,      \* ticks until the current timer fires, or NoTimer, or DeadTimer
    age,        \* history: ticks since the first reader that wants the window
    flushes,    \* forked flushes that have not started
    flights,    \* the batches that are being fetched
    scope,      \* "open", "closing" (its fibers are interrupted) or "closed"
    status,     \* what each caller has been told
    group,      \* the addresses of each caller
    answer,     \* the values each caller was given
    version,    \* the state of the device
    asOf        \* history: the version when each caller asked

calls == <<status, group, answer, asOf>>
vars == <<window, collected, timer, age, flushes, flights, scope, calls, version>>

NoTimer == -1
DeadTimer == -2     \* the fiber was interrupted, and the timer is still set
Undefined == -1

Slots == Callers \X (1..MaxGroup)
Nothing == [a \in Addresses |-> {}]
CollectedIn(b) == {a \in Addresses : b[a] # {}}
WaitersIn(b) == UNION {b[a] : a \in Addresses}
CallersIn(b) == {s[1] : s \in WaitersIn(b)}

\* What no value read from the device is.
Missing == [address |-> -1, version |-> -1]

\* A batch that is being fetched: by the fiber of its caller (issueDirectly), or by
\* one of the scope.  A response has the registers of its span in one version of the
\* device, as many of them as its length.
Flight(owner, entries) ==
    [owner |-> owner, entries |-> entries,
     spans |-> buildReadPlan(CollectedIn(entries), MaxPerRead, MaxGap),
     responses |-> <<>>]
InScope(f) == f.owner = Nobody

Init ==
    /\ window \in Windows
    /\ collected = Nothing /\ timer = NoTimer /\ age = Undefined
    /\ flushes = 0 /\ flights = {} /\ scope = "open"
    /\ status = [c \in Callers |-> "idle"]
    /\ group = [c \in Callers |-> <<>>]
    /\ answer = [c \in Callers |-> <<>>]
    /\ version = 0 /\ asOf = [c \in Callers |-> 0]

-----------------------------------------------------------------------------
(* The callers.                                                            *)

\* The waiters of a group: one for each of its addresses, in its order.
Waiters(c, g) == [a \in Addresses |-> {<<c, i>> : i \in {j \in DOMAIN g : g[j] = a}}]

\* enqueue: the waiters join those of the same address.
Collect(b, new) == [a \in Addresses |-> b[a] \cup new[a]]

Asks(c, g) ==
    /\ status[c] = "idle"
    /\ status' = [status EXCEPT ![c] = "waiting"]
    /\ group' = [group EXCEPT ![c] = g]
    /\ asOf' = [asOf EXCEPT ![c] = version]
    /\ UNCHANGED answer

\* The window opens on the arrival that starts a batch and is not restarted.  A fiber
\* that is forked into a closing scope is interrupted at once.
startTimer ==
    timer' = IF timer # NoTimer THEN timer
             ELSE IF scope = "open" THEN window ELSE DeadTimer

\* Mutant: a read joins a fetch that already covers its addresses.
readAll_JoinsFetch(c, g) ==
    /\ window > 0 /\ scope # "closed" /\ Asks(c, g)
    /\ \E f \in flights :
          /\ CollectedIn(Waiters(c, g)) \subseteq CollectedIn(f.entries)
          /\ flights' = (flights \ {f})
                            \cup {[f EXCEPT !.entries = Collect(@, Waiters(c, g))]}
    /\ UNCHANGED <<window, collected, timer, age, flushes, scope, version>>

\* read, readAll: collected for the window.
readAll(c, g) ==
    /\ window > 0 /\ scope # "closed" /\ Asks(c, g)
    /\ collected' = Collect(collected, Waiters(c, g))
    /\ startTimer
    /\ age' = IF age = Undefined THEN 0 ELSE age
    /\ UNCHANGED <<window, flushes, flights, scope, version>>

\* A flush is forked into the scope; it has not started.
forkFlush ==
    /\ flushes < MaxFlushes
    /\ flushes' = IF scope = "open" THEN flushes + 1 ELSE flushes

\* readNow, readAllNow: collected with the others, and read at once.
readAllNow(c, g) ==
    /\ window > 0 /\ scope # "closed" /\ Asks(c, g)
    /\ collected' = Collect(collected, Waiters(c, g))
    /\ forkFlush
    /\ UNCHANGED <<window, timer, age, flights, scope, version>>

flush ==
    /\ scope # "closed" /\ forkFlush
    /\ UNCHANGED <<window, collected, timer, age, flights, scope, calls, version>>

\* A window of zero: each group is planned and read in the fiber of its caller.
issueDirectly(c, g) ==
    /\ window = 0 /\ scope # "closed" /\ Asks(c, g)
    /\ flights' = flights \cup {Flight(c, Waiters(c, g))}
    /\ UNCHANGED <<window, collected, timer, age, flushes, scope, version>>

\* ensureOpen.
RejectClosed(c) ==
    /\ status[c] = "idle" /\ scope = "closed"
    /\ status' = [status EXCEPT ![c] = "failed"]
    /\ UNCHANGED <<window, collected, timer, age, flushes, flights, scope,
                   group, answer, asOf, version>>

\* A caller is interrupted while it waits.  Its waiters stay, and the batch goes on;
\* a direct read ends with its caller.
ReaderInterrupted(c) ==
    /\ status[c] = "waiting"
    /\ status' = [status EXCEPT ![c] = "interrupted"]
    /\ flights' = {f \in flights : f.owner # c}
    /\ UNCHANGED <<window, collected, timer, age, flushes, scope,
                   group, answer, asOf, version>>

\* The fiber of a call that has its answer calls again.
Return(c) ==
    /\ status[c] \in {"answered", "failed", "interrupted"}
    /\ c \notin CallersIn(collected) /\ \A f \in flights : c \notin CallersIn(f.entries)
    /\ status' = [status EXCEPT ![c] = "idle"]
    /\ group' = [group EXCEPT ![c] = <<>>] /\ answer' = [answer EXCEPT ![c] = <<>>]
    /\ asOf' = [asOf EXCEPT ![c] = 0]
    /\ UNCHANGED <<window, collected, timer, age, flushes, flights, scope, version>>

-----------------------------------------------------------------------------
(* The flush.                                                              *)

\* The clock goes on until the timer is due.
Tick ==
    /\ timer > 0
    /\ timer' = timer - 1 /\ age' = age + 1
    /\ UNCHANGED <<window, collected, flushes, flights, scope, calls, version>>

\* Mutant: the timer of the batch that is taken stays for the next one.
TakeBatch_KeepsTimer ==
    /\ collected' = Nothing /\ timer' = timer /\ age' = Undefined
    /\ flights' = IF collected = Nothing THEN flights
                  ELSE flights \cup {Flight(Nobody, collected)}

\* What flushPending does under the lock, and the interruption of the timer that it
\* replaces: that one still sleeps, since a timer that has fired is not set any more.
TakeBatch ==
    /\ collected' = Nothing /\ timer' = NoTimer /\ age' = Undefined
    /\ flights' = IF collected = Nothing THEN flights
                  ELSE flights \cup {Flight(Nobody, collected)}

TimerFires ==
    /\ timer = 0
    /\ TakeBatch
    /\ UNCHANGED <<window, flushes, scope, calls, version>>

FlushStarts ==
    /\ flushes > 0 /\ flushes' = flushes - 1
    /\ TakeBatch
    /\ UNCHANGED <<window, scope, calls, version>>

\* fetch reads the spans one after the other.  A response can be short.
SpanRead(f) ==
    /\ Len(f.responses) < Len(f.spans)
    /\ LET quantity == Cardinality(f.spans[Len(f.responses) + 1])
       IN  \E length \in {quantity - 1, quantity} :
              flights' = (flights \ {f})
                 \cup {[f EXCEPT !.responses =
                           Append(@, [version |-> version, length |-> length])]}
    /\ UNCHANGED <<window, collected, timer, age, flushes, scope, calls, version>>

\* Each response holds the quantity of its span.
WellFormed(f) ==
    /\ Len(f.responses) = Len(f.spans)
    /\ \A i \in DOMAIN f.responses : f.responses[i].length = Cardinality(f.spans[i])

valueOf(f, a) ==
    LET location == locate(f.spans, a)
        response == f.responses[location.span]
    IN  IF location = NotFound \/ location.offset > response.length THEN Missing
        ELSE [address |-> Lowest(f.spans[location.span]) + location.offset - 1,
              version |-> response.version]

\* A batch ends: each caller of it that still waits has its values, or the failure.
Settle(f, success) ==
    LET told == {c \in CallersIn(f.entries) : status[c] = "waiting"}
    IN  /\ status' = [c \in Callers |->
                         IF c \notin told THEN status[c]
                         ELSE IF success THEN "answered" ELSE "failed"]
        /\ answer' = [c \in Callers |->
                         IF c \in told /\ success
                         THEN [i \in DOMAIN group[c] |-> valueOf(f, group[c][i])]
                         ELSE answer[c]]
        /\ flights' = flights \ {f}
        /\ UNCHANGED <<group, asOf>>

ReadsEnd(f) ==
    /\ Len(f.responses) = Len(f.spans)
    /\ Settle(f, WellFormed(f))
    /\ UNCHANGED <<window, collected, timer, age, flushes, scope, version>>

\* A span fails; no reader of the batch has a value.
FetchFails(f) ==
    /\ Len(f.responses) < Len(f.spans)
    /\ Settle(f, FALSE)
    /\ UNCHANGED <<window, collected, timer, age, flushes, scope, version>>

\* The registers of the device change.
DeviceChanges ==
    /\ version < MaxVersion /\ version' = version + 1
    /\ UNCHANGED <<window, collected, timer, age, flushes, flights, scope, calls>>

-----------------------------------------------------------------------------
(* The close of the scope: first the fibers forked into it are interrupted *)
(* one by one, and then the finalizer of the debouncer runs.               *)

Close ==
    /\ scope = "open" /\ scope' = "closing"
    /\ UNCHANGED <<window, collected, timer, age, flushes, flights, calls, version>>

CloseInterruptsTimer ==
    /\ scope = "closing" /\ timer >= 0 /\ timer' = DeadTimer
    /\ UNCHANGED <<window, collected, age, flushes, flights, scope, calls, version>>

CloseInterruptsFlush ==
    /\ scope = "closing" /\ flushes > 0 /\ flushes' = flushes - 1
    /\ UNCHANGED <<window, collected, timer, age, flights, scope, calls, version>>

CloseInterruptsFetch(f) ==
    /\ scope = "closing" /\ InScope(f)
    /\ Settle(f, FALSE)
    /\ UNCHANGED <<window, collected, timer, age, flushes, scope, version>>

\* Mutant: what is collected is dropped and nobody is told.
Finalize_Silent ==
    /\ scope = "closing" /\ timer < 0 /\ flushes = 0 /\ \A f \in flights : ~InScope(f)
    /\ scope' = "closed" /\ collected' = Nothing
    /\ UNCHANGED <<window, timer, age, flushes, flights, calls, version>>

Finalize ==
    /\ scope = "closing" /\ timer < 0 /\ flushes = 0 /\ \A f \in flights : ~InScope(f)
    /\ scope' = "closed" /\ collected' = Nothing
    /\ status' = [c \in Callers |->
                     IF status[c] = "waiting" /\ c \in CallersIn(collected)
                     THEN "failed" ELSE status[c]]
    /\ UNCHANGED <<window, timer, age, flushes, flights, group, answer, asOf, version>>

-----------------------------------------------------------------------------
Arrive(c) ==
    \E g \in Groups : readAll(c, g) \/ readAllNow(c, g) \/ issueDirectly(c, g)

FetchSteps(f) == SpanRead(f) \/ ReadsEnd(f) \/ FetchFails(f)

Next ==
    \/ \E c \in Callers :
          Arrive(c) \/ RejectClosed(c) \/ ReaderInterrupted(c) \/ Return(c)
    \/ flush
    \/ Tick \/ TimerFires \/ FlushStarts \/ DeviceChanges
    \/ \E f \in flights : FetchSteps(f) \/ CloseInterruptsFetch(f)
    \/ Close \/ CloseInterruptsTimer \/ CloseInterruptsFlush \/ Finalize

Spec == Init /\ [][Next]_vars

\* Fibers that can go on do go on, timers fire, and every fetch ends, since every
\* request below it has a timeout.  Nobody has to call, to fail or to close.
Fairness ==
    /\ WF_vars(Tick) /\ WF_vars(TimerFires) /\ WF_vars(FlushStarts)
    /\ \A c \in Callers :
          WF_vars(\E f \in flights : c \in CallersIn(f.entries) /\ FetchSteps(f))
    /\ WF_vars(CloseInterruptsTimer) /\ WF_vars(CloseInterruptsFlush)
    /\ WF_vars(\E f \in flights : CloseInterruptsFetch(f))
    /\ WF_vars(Finalize)

FairSpec == Spec /\ Fairness

-----------------------------------------------------------------------------
(* Properties.                                                             *)

\* "The first arrival starts the window.  Later arrivals do not restart it": while a
\* reader of the window is collected, a timer runs that ends one window after the first
\* of them came.  While none is, no timer runs: the one of a batch that was flushed early
\* does not end the next window before its time.  A readAllNow is collected without a
\* timer: it waits for the flush that it forked.
WindowIsFixed ==
    scope = "open" =>
        IF age = Undefined THEN timer = NoTimer
        ELSE timer >= 0 /\ timer + age = window

\* A caller that is answered has the value of each address it asked for, in its order,
\* however many batches, spans and gaps lie between: a short or missing response
\* reaches nobody as a value.
AnswersAreWhole ==
    \A c \in Callers : status[c] = "answered" =>
        /\ Len(answer[c]) = Len(group[c])
        /\ \A i \in DOMAIN group[c] : answer[c][i].address = group[c][i]

\* The device held the value after the caller asked: no reader is served by a fetch
\* that was on its way before.
AnswersAreFresh ==
    \A c \in Callers : status[c] = "answered" =>
        \A i \in DOMAIN answer[c] : answer[c][i].version >= asOf[c]

\* Every reader is told: its values, a failure, or the close of the scope.
EveryReaderAnswered ==
    \A c \in Callers : status[c] = "waiting" ~> status[c] # "waiting"

=============================================================================
