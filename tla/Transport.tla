----------------------------- MODULE Transport -----------------------------
(***************************************************************************)
(* createTransportScoped of src/src/shared-transport.ts with the           *)
(* supervisor of connection.ts and the resilience of modbus-client.ts: a   *)
(* handle that opens lazily, one native connect at a time, a connection    *)
(* state, a reconnect supervisor with a circuit guard, the lock of a       *)
(* serial line, and the close.                                             *)
(*                                                                         *)
(* The callers are the fibers that call an operation of a client,          *)
(* withClient, or reconnect.  A fiber runs without a yield between two     *)
(* waits (for the lock, a shared open or reconnect, a native promise, or a *)
(* timer), so an action goes from one wait to the next.  A retry of an     *)
(* operation repeats the whole attempt: it is a new call here, and the     *)
(* number of attempts is left open.                                        *)
(*                                                                         *)
(* modbus-rs is external: a native call, open or reconnect succeeds, fails *)
(* or stays pending, and a call on a closed handle does not succeed.       *)
(***************************************************************************)
EXTENDS Integers, Sequences, FiniteSets, SequencesExt

CONSTANTS
    Callers,       \* fibers that use the transport
    Kinds,         \* what they call: subset of AllKinds
    Supervisors,   \* bound: supervisor fibers that can be alive at once
    Handles,       \* bound: native handles that can be in use at once
    Supervised,    \* options.reconnect is given
    Serial,        \* config.serializeRequests
    TimedConnect,  \* options.connectTimeout is given
    RuntimeLimits, \* setRequestTimeout and clearRequestTimeout are called
    NoHandle,      \* no handle
    Free,          \* nobody holds nativeLock
    Work           \* the shared reconnect work, as a fiber

AllKinds == {"operation", "withClient", "reconnect"}

ASSUME OptionAssumption ==
    /\ Kinds \subseteq AllKinds
    /\ Supervised \in BOOLEAN /\ Serial \in BOOLEAN
    /\ TimedConnect \in BOOLEAN /\ RuntimeLimits \in BOOLEAN

ASSUME FiberAssumption ==
    NoHandle \notin Handles /\ Free \notin Callers /\ Work \notin Callers /\ Free # Work

VARIABLES
    transport,     \* the current handle, or NoHandle
    client,        \* clientSet: the handle the cached client of the unit was made by
    live,          \* native: the handles that hold a connection
    unlimited,     \* native: the handles without a response limit
    cleared,       \* nativeLimit = undefined and requestLimitOverride = null
    opening,       \* a shared open is in flight
    reconnecting,  \* the handle whose shared reconnect is in flight, or NoHandle
    state,         \* the tag of connectionState
    closing,       \* "no", "closing" (t.close() is pending), "closed" or "failed"
    serving,       \* serviceScope is open
    closes,        \* handles that detached work is closing
    sup,           \* the supervisor fibers
    pc, kind,      \* where each caller waits, and what it called
    target,        \* the handle that a caller got or calls
    wire,          \* callers whose native call is pending
    detached,      \* callers whose attempt runs in a worker of its own
    interrupted,   \* those of them that were interrupted
    holder, queue  \* nativeLock

handles == <<transport, client, live, unlimited, cleared>>
flights == <<opening, reconnecting>>
lifecycle == <<closing, serving, closes>>
calls == <<pc, kind, target, wire, detached, interrupted>>
lock == <<holder, queue>>
vars == <<handles, flights, state, lifecycle, sup, calls, lock>>

States == {"Disconnected", "Connected", "Reconnecting", "Down"}
Answers == {"idle", "ok", "failed"}
Places == Answers \cup {"starts", "opens", "opened", "reconnects", "reconnected", "calls"}
SupervisorPlaces ==
    {"none", "attempts", "waits", "succeeded", "failed", "backs off", "sleeps"}
closed == closing # "no"

-----------------------------------------------------------------------------
Init ==
    /\ transport = NoHandle /\ client = NoHandle
    /\ live = {} /\ unlimited = {} /\ cleared = FALSE
    /\ opening = FALSE /\ reconnecting = NoHandle
    /\ state = "Disconnected"
    /\ closing = "no" /\ serving = TRUE /\ closes = {}
    /\ sup = [s \in Supervisors |-> "none"]
    /\ pc = [c \in Callers |-> "idle"]
    /\ kind = [c \in Callers |-> "operation"]
    /\ target = [c \in Callers |-> NoHandle]
    /\ wire = {} /\ detached = {} /\ interrupted = {}
    /\ holder = Free /\ queue = <<>>

-----------------------------------------------------------------------------
(* How a caller ends.                                                      *)

\* Mutant: the end of a worker is not noted.
Ends_KeepsInterrupted(c, answer) ==
    /\ pc' = [pc EXCEPT ![c] = IF c \in interrupted THEN "failed" ELSE answer]
    /\ target' = [target EXCEPT ![c] = NoHandle]
    /\ detached' = detached \ {c} /\ UNCHANGED interrupted
    /\ holder' = IF holder = c THEN Free ELSE holder

\* The caller has its answer and gives nativeLock back.  A worker whose caller
\* was interrupted answers nobody.
Ends(c, answer) ==
    /\ pc' = [pc EXCEPT ![c] = IF c \in interrupted THEN "failed" ELSE answer]
    /\ target' = [target EXCEPT ![c] = NoHandle]
    /\ detached' = detached \ {c} /\ interrupted' = interrupted \ {c}
    /\ holder' = IF holder = c THEN Free ELSE holder

\* claimReconnect.  A fiber forked into a closed scope is interrupted at once.
claimReconnect ==
    /\ state' = "Reconnecting"
    /\ \/ serving /\ \E s \in Supervisors :
             sup[s] = "none" /\ sup' = [sup EXCEPT ![s] = "attempts"]
       \/ ~serving /\ UNCHANGED sup

Reportable(c, triggers) ==
    kind[c] = "operation" /\ ~closed /\ triggers /\ state = "Connected"

\* Mutant: a failure is reported although the circuit is open already.
report_Unclaimed(c, triggers) ==
    \/ Reportable(c, triggers) /\ ~Supervised /\ state' = "Down" /\ UNCHANGED sup
    \/ Reportable(c, triggers) /\ Supervised /\ state' = "Reconnecting" /\ UNCHANGED sup
    \/ ~Reportable(c, triggers) /\ UNCHANGED <<state, sup>>

\* report: what the failure of an operation does to the connection state.
report(c, triggers) ==
    \/ Reportable(c, triggers) /\ ~Supervised /\ state' = "Down" /\ UNCHANGED sup
    \/ Reportable(c, triggers) /\ Supervised /\ claimReconnect
    \/ ~Reportable(c, triggers) /\ UNCHANGED <<state, sup>>

Fails(c) ==
    /\ \E triggers \in BOOLEAN : report(c, triggers)
    /\ Ends(c, "failed")

-----------------------------------------------------------------------------
(* Callers.                                                                *)

\* A call starts.  Operations and withClient of a serial line take nativeLock.
Begin(c) ==
    /\ pc[c] \in Answers /\ c \notin wire
    /\ \E k \in Kinds :
          /\ kind' = [kind EXCEPT ![c] = k]
          /\ queue' = IF Serial /\ k # "reconnect" THEN Append(queue, c) ELSE queue
    /\ pc' = [pc EXCEPT ![c] = "starts"]
    /\ UNCHANGED <<handles, flights, state, lifecycle, sup, target, wire, detached,
                   interrupted, holder>>

\* The lock is granted in the order of arrival.
Locks(c) == Serial /\ kind[c] # "reconnect"
Granted(c) ==
    \/ ~Locks(c) /\ UNCHANGED lock
    \/ /\ Locks(c) /\ holder = Free /\ queue # <<>> /\ Head(queue) = c
       /\ holder' = c /\ queue' = Tail(queue)

\* The guard of a supervised transport; a refusal gives the lock back at once.
Refuses(c) ==
    /\ kind[c] = "operation" /\ Supervised /\ transport # NoHandle
    /\ state \in {"Reconnecting", "Down"}

\* resolveClient with the handle t, and the native call of an operation.
Calls(c, t) ==
    /\ client' = IF client = NoHandle THEN t ELSE client
    /\ pc' = [pc EXCEPT ![c] = "calls"]
    /\ target' = [target EXCEPT ![c] = client']
    /\ wire' = wire \cup {c}

Rejected(c) ==
    /\ pc[c] = "starts" /\ (Refuses(c) \/ closed)
    /\ \/ ~Locks(c) /\ UNCHANGED lock
       \/ /\ Locks(c) /\ holder = Free /\ queue # <<>> /\ Head(queue) = c
          /\ queue' = Tail(queue) /\ UNCHANGED holder
    /\ pc' = [pc EXCEPT ![c] = "failed"]
    /\ UNCHANGED <<handles, flights, state, lifecycle, sup, kind, target, wire,
                   detached, interrupted>>

\* The transport is open: the call uses its handle.
Attempt(c) ==
    /\ pc[c] = "starts" /\ kind[c] = "operation" /\ ~closed /\ ~Refuses(c)
    /\ transport # NoHandle
    /\ Granted(c)
    /\ Calls(c, transport)
    /\ detached' = IF Serial /\ cleared THEN detached \cup {c} ELSE detached
    /\ UNCHANGED <<transport, live, unlimited, cleared, flights, state, lifecycle,
                   sup, kind, interrupted>>

GetClient(c) ==
    /\ pc[c] = "starts" /\ kind[c] = "withClient" /\ ~closed /\ transport # NoHandle
    /\ \/ ~Serial /\ UNCHANGED lock
       \/ /\ Serial /\ holder = Free /\ queue # <<>> /\ Head(queue) = c
          /\ queue' = Tail(queue) /\ UNCHANGED holder
    /\ client' = IF client = NoHandle THEN transport ELSE client
    /\ pc' = [pc EXCEPT ![c] = "ok"]
    /\ UNCHANGED <<transport, live, unlimited, cleared, flights, state, lifecycle, sup,
                   kind, target, wire, detached, interrupted>>

\* ensureOpen without a handle: the caller starts the shared open, or joins it.
EnsureOpen(c) ==
    /\ pc[c] = "starts" /\ ~closed /\ ~Refuses(c) /\ transport = NoHandle
    /\ Granted(c)
    /\ pc' = [pc EXCEPT ![c] = "opens"]
    /\ opening' = TRUE
    /\ detached' = IF Serial /\ cleared /\ kind[c] = "operation"
                   THEN detached \cup {c} ELSE detached
    /\ UNCHANGED <<handles, reconnecting, state, lifecycle, sup, kind, target, wire,
                   interrupted>>

\* The shared reconnect, started or joined.  Its work waits for nativeLock.
JoinReconnect ==
    IF reconnecting # NoHandle THEN UNCHANGED <<reconnecting, queue>>
    ELSE /\ reconnecting' = transport
         /\ queue' = IF Serial THEN Append(queue, Work) ELSE queue

\* reconnect of a transport that has a handle.
Reconnect(c) ==
    /\ pc[c] = "starts" /\ kind[c] = "reconnect" /\ ~closed /\ transport # NoHandle
    /\ JoinReconnect
    /\ pc' = [pc EXCEPT ![c] = "reconnects"]
    /\ UNCHANGED <<handles, opening, state, lifecycle, sup, kind, target, wire,
                   detached, interrupted, holder>>

\* A waiter of the shared open goes on; NoHandle says that it failed.
OpenFailed(c) ==
    /\ pc[c] = "opened" /\ (target[c] = NoHandle \/ closed)
    /\ Fails(c)
    /\ UNCHANGED <<handles, flights, lifecycle, kind, wire, queue>>

\* Mutant: the caller does not look at `closed` again after it waited.
Opened_Unchecked(c) ==
    /\ pc[c] = "opened" /\ target[c] # NoHandle
    /\ \/ kind[c] = "operation" /\ Calls(c, target[c]) /\ UNCHANGED <<detached, interrupted, holder>>
       \/ /\ kind[c] # "operation" /\ Ends(c, "ok") /\ UNCHANGED wire
          /\ client' = IF kind[c] = "withClient" /\ client = NoHandle
                       THEN target[c] ELSE client
    /\ UNCHANGED <<transport, live, unlimited, cleared, flights, state, lifecycle, sup,
                   kind, queue>>

Opened(c) ==
    /\ pc[c] = "opened" /\ target[c] # NoHandle /\ ~closed
    /\ \/ kind[c] = "operation" /\ Calls(c, target[c]) /\ UNCHANGED <<detached, interrupted, holder>>
       \/ /\ kind[c] # "operation" /\ Ends(c, "ok") /\ UNCHANGED wire
          /\ client' = IF kind[c] = "withClient" /\ client = NoHandle
                       THEN target[c] ELSE client
    /\ UNCHANGED <<transport, live, unlimited, cleared, flights, state, lifecycle, sup,
                   kind, queue>>

Reconnected(c) ==
    /\ pc[c] = "reconnected"
    /\ \/ closed /\ Ends(c, "failed") /\ UNCHANGED state
       \/ ~closed /\ Ends(c, "ok") /\ state' = "Connected"
    /\ UNCHANGED <<handles, flights, lifecycle, sup, kind, wire, queue>>

\* Mutant: a caller that gives up takes the handle away.
ConnectTimesOut_DropsHandle(c) ==
    /\ TimedConnect /\ pc[c] \in {"opens", "reconnects"}
    /\ Fails(c) /\ transport' = NoHandle
    /\ UNCHANGED <<client, live, unlimited, cleared, flights, lifecycle, kind, wire, queue>>

\* Mutant: the wait for a shared open has no limit.
ConnectTimesOut_ReconnectsOnly(c) ==
    /\ TimedConnect /\ pc[c] = "reconnects"
    /\ Fails(c)
    /\ UNCHANGED <<handles, flights, lifecycle, kind, wire, queue>>

\* limitConnect: the waiter gives up, the shared work goes on.
ConnectTimesOut(c) ==
    /\ TimedConnect /\ pc[c] \in {"opens", "reconnects"}
    /\ Fails(c)
    /\ UNCHANGED <<handles, flights, lifecycle, kind, wire, queue>>

\* The native call returns.  Without a supervisor a success closes the circuit.
CallReturns(c) ==
    /\ c \in wire /\ wire' = wire \ {c}
    /\ IF pc[c] # "calls" THEN UNCHANGED <<pc, target, detached, interrupted, holder, state>>
       ELSE /\ target[c] \in live
            /\ Ends(c, "ok")
            /\ state' = IF ~Supervised /\ state = "Down" THEN "Connected" ELSE state
    /\ UNCHANGED <<handles, flights, lifecycle, sup, kind, queue>>

CallFails(c) ==
    /\ c \in wire /\ pc[c] = "calls" /\ wire' = wire \ {c}
    /\ Fails(c)
    /\ UNCHANGED <<handles, flights, lifecycle, kind, queue>>

-----------------------------------------------------------------------------
(* Interruption of a caller.  The native call goes on.                     *)

\* Past the lock, a serial operation is not interruptible.
Interruptible(c) ==
    \/ pc[c] = "starts"
    \/ pc[c] \notin Answers /\ ~(Serial /\ kind[c] = "operation")

Interrupt(c) ==
    /\ Interruptible(c)
    /\ \/ (\A i \in DOMAIN queue : queue[i] # c) /\ UNCHANGED queue
       \/ \E i \in DOMAIN queue : queue[i] = c /\ queue' = RemoveAt(queue, i)
    /\ Ends(c, "failed")
    /\ UNCHANGED <<handles, flights, state, lifecycle, sup, kind, wire>>

\* Mutant: the lock is free before the worker has ended.
InterruptDetached_ReleasesLock(c) ==
    /\ c \in detached \ interrupted
    /\ interrupted' = interrupted \cup {c}
    /\ transport' = NoHandle /\ client' = NoHandle
    /\ closes' = IF transport = NoHandle THEN closes ELSE closes \cup {transport}
    /\ state' = "Disconnected" /\ holder' = Free
    /\ UNCHANGED <<live, unlimited, cleared, flights, closing, serving, sup, pc, kind,
                   target, wire, detached, queue>>

\* invalidateNative: the response is not bounded, so the handle is closed.  The
\* worker still holds the lock, and goes on from where it is.
InterruptDetached(c) ==
    /\ c \in detached \ interrupted
    /\ interrupted' = interrupted \cup {c}
    /\ transport' = NoHandle /\ client' = NoHandle
    /\ closes' = IF transport = NoHandle THEN closes ELSE closes \cup {transport}
    /\ state' = "Disconnected"
    /\ UNCHANGED <<live, unlimited, cleared, flights, closing, serving, sup, pc, kind,
                   target, wire, detached, lock>>

-----------------------------------------------------------------------------
(* The shared open and the shared reconnect run detached from every caller. *)

OpenWaiters == {c \in Callers : pc[c] = "opens"}
ReconnectWaiters == {c \in Callers : pc[c] = "reconnects"}

Resume(waiters, at, t) ==
    /\ pc' = [c \in Callers |-> IF c \in waiters THEN at ELSE pc[c]]
    /\ target' = [c \in Callers |-> IF c \in waiters THEN t ELSE target[c]]

\* A handle that nobody knows any more is a new one again.
New(t) ==
    /\ t \notin live \cup closes \cup {transport, client, reconnecting}
    /\ \A c \in Callers : target[c] # t

\* Mutant: the limits set at run time are not applied to a new handle.
OpenLands_ForgetsLimit(t) ==
    /\ opening /\ New(t) /\ opening' = FALSE /\ live' = live \cup {t}
    /\ unlimited' = unlimited \ {t}
    /\ \/ closed /\ closes' = closes \cup {t} /\ UNCHANGED <<transport, state>>
       \/ ~closed /\ transport' = t /\ state' = "Connected" /\ UNCHANGED closes
    /\ Resume(OpenWaiters, "opened", t)
    /\ UNCHANGED <<client, cleared, reconnecting, closing, serving, sup, kind, wire,
                   detached, interrupted, lock>>

\* openTransport.  After the close, closeOrphan.
OpenLands(t) ==
    /\ opening /\ New(t) /\ opening' = FALSE /\ live' = live \cup {t}
    /\ \/ /\ closed /\ closes' = closes \cup {t}
          /\ unlimited' = unlimited \ {t} /\ UNCHANGED <<transport, state>>
       \/ /\ ~closed /\ transport' = t /\ state' = "Connected"
          /\ unlimited' = IF cleared THEN unlimited \cup {t} ELSE unlimited \ {t}
          /\ UNCHANGED closes
    /\ Resume(OpenWaiters, "opened", t)
    /\ UNCHANGED <<client, cleared, reconnecting, closing, serving, sup, kind, wire,
                   detached, interrupted, lock>>

OpenFails ==
    /\ opening /\ opening' = FALSE
    /\ Resume(OpenWaiters, "opened", NoHandle)
    /\ UNCHANGED <<handles, reconnecting, state, lifecycle, sup, kind, wire, detached,
                   interrupted, lock>>

\* The reconnect work of a serial line gets nativeLock.
GrantReconnect ==
    /\ holder = Free /\ queue # <<>> /\ Head(queue) = Work
    /\ holder' = Work /\ queue' = Tail(queue)
    /\ UNCHANGED <<handles, flights, state, lifecycle, sup, calls>>

NativeReconnect == reconnecting # NoHandle /\ (Serial => holder = Work)

SupervisorsGo(at) == [s \in Supervisors |-> IF sup[s] = "waits" THEN at ELSE sup[s]]

\* Mutant: a reconnect that lands after the close is left open.
ReconnectLands_Kept ==
    /\ NativeReconnect
    /\ reconnecting' = NoHandle /\ live' = live \cup {reconnecting}
    /\ state' = IF state = "Down" THEN "Connected" ELSE state
    /\ Resume(ReconnectWaiters, "reconnected", reconnecting)
    /\ sup' = SupervisorsGo("succeeded")
    /\ holder' = IF holder = Work THEN Free ELSE holder
    /\ UNCHANGED <<transport, client, unlimited, cleared, opening, closing, serving,
                   closes, kind, wire, detached, interrupted, queue>>

\* The native reconnect succeeds.  It can be later than every waiter's limit.
ReconnectLands ==
    /\ NativeReconnect
    /\ reconnecting' = NoHandle /\ live' = live \cup {reconnecting}
    /\ \/ closed /\ closes' = closes \cup {reconnecting} /\ UNCHANGED state
       \/ /\ ~closed /\ UNCHANGED closes
          /\ state' = IF state = "Down" THEN "Connected" ELSE state
    /\ Resume(ReconnectWaiters, "reconnected", reconnecting)
    /\ sup' = SupervisorsGo("succeeded")
    /\ holder' = IF holder = Work THEN Free ELSE holder
    /\ UNCHANGED <<transport, client, unlimited, cleared, opening, closing, serving,
                   kind, wire, detached, interrupted, queue>>

ReconnectFails ==
    /\ NativeReconnect
    /\ reconnecting' = NoHandle
    /\ Resume(ReconnectWaiters, "failed", NoHandle)
    /\ sup' = SupervisorsGo("failed")
    /\ holder' = IF holder = Work THEN Free ELSE holder
    /\ UNCHANGED <<handles, opening, state, lifecycle, kind, wire, detached,
                   interrupted, queue>>

\* Detached work has closed a handle.
HandleCloses(t) ==
    /\ t \in closes /\ closes' = closes \ {t} /\ live' = live \ {t}
    /\ UNCHANGED <<transport, client, unlimited, cleared, flights, state, closing,
                   serving, sup, calls, lock>>

-----------------------------------------------------------------------------
(* superviseReconnect.                                                     *)

\* reconnectOnce fails at once on a closed transport, or without a handle.
SupervisorAttempts(s) ==
    /\ sup[s] = "attempts"
    /\ \/ (closed \/ transport = NoHandle) /\ sup' = [sup EXCEPT ![s] = "failed"]
          /\ UNCHANGED <<reconnecting, queue>>
       \/ ~closed /\ transport # NoHandle /\ sup' = [sup EXCEPT ![s] = "waits"]
          /\ JoinReconnect
    /\ UNCHANGED <<handles, opening, state, lifecycle, calls, holder>>

SupervisorTimesOut(s) ==
    /\ TimedConnect /\ sup[s] = "waits"
    /\ sup' = [sup EXCEPT ![s] = "failed"]
    /\ UNCHANGED <<handles, flights, state, lifecycle, calls, lock>>

SupervisorSucceeds(s) ==
    /\ sup[s] = "succeeded"
    /\ state' = "Connected" /\ sup' = [sup EXCEPT ![s] = "none"]
    /\ UNCHANGED <<handles, flights, lifecycle, calls, lock>>

\* The retry policy goes on after a delay, or is exhausted.
SupervisorFails(s) ==
    /\ sup[s] = "failed"
    /\ \/ sup' = [sup EXCEPT ![s] = "backs off"] /\ UNCHANGED state
       \/ sup' = [sup EXCEPT ![s] = "sleeps"] /\ state' = "Down"
    /\ UNCHANGED <<handles, flights, lifecycle, calls, lock>>

SupervisorRetries(s) ==
    /\ sup[s] = "backs off" /\ sup' = [sup EXCEPT ![s] = "attempts"]
    /\ UNCHANGED <<handles, flights, state, lifecycle, calls, lock>>

\* Mutant: the supervisor ends after its first round.
SupervisorProbes_GivesUp(s) ==
    /\ sup[s] = "sleeps" /\ sup' = [sup EXCEPT ![s] = "none"]
    /\ UNCHANGED <<handles, flights, state, lifecycle, calls, lock>>

\* resetAfter has passed: probe again, if the link is still down.
SupervisorProbes(s) ==
    /\ sup[s] = "sleeps"
    /\ \/ /\ state = "Down" /\ state' = "Reconnecting"
          /\ sup' = [sup EXCEPT ![s] = "attempts"]
       \/ state # "Down" /\ sup' = [sup EXCEPT ![s] = "none"] /\ UNCHANGED state
    /\ UNCHANGED <<handles, flights, lifecycle, calls, lock>>

-----------------------------------------------------------------------------
(* Limits, and the close.                                                  *)

clearRequestTimeout ==
    /\ RuntimeLimits /\ transport # NoHandle /\ ~closed
    /\ cleared' = TRUE /\ unlimited' = unlimited \cup {transport}
    /\ UNCHANGED <<transport, client, live, flights, state, lifecycle, sup, calls, lock>>

setRequestTimeout ==
    /\ RuntimeLimits /\ transport # NoHandle /\ ~closed
    /\ cleared' = FALSE /\ unlimited' = unlimited \ {transport}
    /\ UNCHANGED <<transport, client, live, flights, state, lifecycle, sup, calls, lock>>

\* closeTransport, by close() or by the finalizer of serviceScope.
closeTransport ==
    /\ ~closed
    /\ \/ transport = NoHandle /\ closing' = "closed" /\ state' = "Disconnected"
       \/ transport # NoHandle /\ closing' = "closing" /\ UNCHANGED state
    /\ UNCHANGED <<handles, flights, serving, closes, sup, calls, lock>>

\* t.close() settles.  An operation that was interrupted meanwhile can have
\* taken the handle away.
CloseSettles ==
    /\ closing = "closing"
    /\ \/ closing' = "closed" /\ state' = "Disconnected" /\ live' = live \ {transport}
       \/ closing' = "failed" /\ UNCHANGED <<state, live>>
    /\ UNCHANGED <<transport, client, unlimited, cleared, flights, serving, closes,
                   sup, calls, lock>>

\* serviceScope closes: its fibers, the supervisors, are interrupted before its
\* finalizer calls closeTransport.
ServiceStops ==
    /\ serving /\ serving' = FALSE
    /\ sup' = [s \in Supervisors |-> "none"]
    /\ UNCHANGED <<handles, flights, state, closing, closes, calls, lock>>

-----------------------------------------------------------------------------
CallerSteps(c) ==
    \/ Rejected(c) \/ Attempt(c) \/ GetClient(c) \/ EnsureOpen(c) \/ Reconnect(c)
    \/ OpenFailed(c) \/ Opened(c) \/ Reconnected(c)

SupervisorSteps(s) ==
    \/ SupervisorAttempts(s) \/ SupervisorTimesOut(s) \/ SupervisorSucceeds(s)
    \/ SupervisorFails(s) \/ SupervisorRetries(s) \/ SupervisorProbes(s)

Next ==
    \/ \E c \in Callers :
          \/ Begin(c) \/ CallerSteps(c) \/ ConnectTimesOut(c)
          \/ CallReturns(c) \/ CallFails(c) \/ Interrupt(c) \/ InterruptDetached(c)
    \/ \E s \in Supervisors : SupervisorSteps(s)
    \/ \E t \in Handles : OpenLands(t) \/ HandleCloses(t)
    \/ OpenFails \/ GrantReconnect \/ ReconnectLands \/ ReconnectFails
    \/ clearRequestTimeout \/ setRequestTimeout
    \/ closeTransport \/ CloseSettles \/ ServiceStops

Spec == Init /\ [][Next]_vars

\* Fibers that can go on do go on, sleeps and limits end, and a native call is
\* answered or fails within its response limit.  A scope that has stopped its fibers
\* runs its finalizer.  A native open or reconnect can stay pending for ever.
Fairness ==
    /\ \A c \in Callers :
          /\ WF_vars(CallerSteps(c)) /\ WF_vars(ConnectTimesOut(c))
          /\ WF_vars(CallReturns(c) \/ CallFails(c))
    /\ \A s \in Supervisors : WF_vars(SupervisorSteps(s))
    /\ WF_vars(GrantReconnect)
    /\ WF_vars(~serving /\ closeTransport)

FairSpec == Spec /\ Fairness

\* The device is back: a reconnect that the supervisor makes again and again
\* succeeds at last while the supervisor waits for it.
HealingSpec ==
    /\ FairSpec
    /\ SF_vars(ReconnectLands /\ \E s \in Supervisors : sup[s] = "waits")
    /\ WF_vars(ReconnectLands \/ ReconnectFails)

-----------------------------------------------------------------------------
(* Properties.                                                             *)

TypeOK ==
    /\ transport \in Handles \cup {NoHandle} /\ client \in Handles \cup {NoHandle}
    /\ live \subseteq Handles /\ unlimited \subseteq Handles /\ cleared \in BOOLEAN
    /\ opening \in BOOLEAN /\ reconnecting \in Handles \cup {NoHandle}
    /\ state \in States
    /\ closing \in {"no", "closing", "closed", "failed"} /\ serving \in BOOLEAN
    /\ closes \subseteq Handles
    /\ sup \in [Supervisors -> SupervisorPlaces]
    /\ pc \in [Callers -> Places]
    /\ kind \in [Callers -> AllKinds]
    /\ target \in [Callers -> Handles \cup {NoHandle}]
    /\ wire \subseteq Callers /\ detached \subseteq Callers /\ interrupted \subseteq detached
    /\ holder \in Callers \cup {Free, Work} /\ queue \in Seq(Callers \cup {Work})

\* No native handle is left open: it is the current one of a transport that is
\* not closed, or detached work is closing it.
HandlesAreOwned ==
    \A t \in live : t \in closes \/ (t = transport /\ closing # "closed")

\* "one transport has at most one pending native connect".
OnePendingConnect == ~(opening /\ NativeReconnect)

\* A circuit that is open has a supervisor that will close it, and one that says
\* Reconnecting has a supervisor that is not asleep.
CircuitHasSupervisor ==
    Supervised /\ serving =>
        /\ state = "Reconnecting" =>
              \E s \in Supervisors : sup[s] \notin {"none", "sleeps"}
        /\ state = "Down" => \E s \in Supervisors : sup[s] # "none"

\* The response limit that the wrapper goes by is that of the current handle,
\* also after the handle was replaced.
LimitIsOfHandle == transport # NoHandle => (transport \in unlimited <=> cleared)

\* A serial line carries one request, or one reconnect, at a time, whatever
\* callers are interrupted.
OneOnTheLine ==
    Serial => Cardinality(wire) + (IF NativeReconnect THEN 1 ELSE 0) <= 1

\* Who goes on to the wire, or is told of success, does so by the handle that the
\* transport has, and that handle is open: never by an orphan that an open left
\* after the close, nor by a handle that was closed.  Only a call that was on the
\* wire when the close came can still be answered.
SuccessIsByTheHandle ==
    [][\A c \in Callers :
          pc'[c] # pc[c] /\ pc'[c] \in {"ok", "calls"} =>
              /\ transport \in live /\ {target[c], target'[c]} \subseteq {transport, NoHandle}
              /\ closed => pc[c] = "calls"]_vars

\* "One supervisor serves each transport".
OneSupervisor == Cardinality({s \in Supervisors : sup[s] # "none"}) <= 1

\* Every caller is answered, even when the native connect never settles.
EveryCallerAnswered ==
    \A c \in Callers : pc[c] \notin Answers ~> pc[c] \in Answers

\* An open circuit closes again when the device comes back, or the transport closes,
\* also one whose supervisor ended with the service scope.
CircuitCloses ==
    state \in {"Reconnecting", "Down"} ~> state \in {"Connected", "Disconnected"} \/ closed

=============================================================================
