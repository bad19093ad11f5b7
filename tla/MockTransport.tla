---------------------------- MODULE MockTransport ----------------------------
(***************************************************************************)
(* The mock transport of src/src/mocks.ts with the client resilience of    *)
(* src/src/modbus-client.ts: devices kept in memory, callers whose         *)
(* operations are guarded, retried and reported, a reconnect supervisor,   *)
(* and the closing of the scope.                                           *)
(*                                                                         *)
(* An attempt of an operation is two steps: the guard and the operation,   *)
(* which nothing asynchronous separates, and the report of its outcome.    *)
(* The hooks `fault` and `reconnectFault` are the test's: they return any  *)
(* error of Faults or none.                                                *)
(***************************************************************************)
EXTENDS RetryPolicy, Sequences, SequencesExt

CONSTANTS
    Callers,            \* fibers that call operations
    Definitions,        \* the SlaveDeviceDefinition entries, a sequence
    UnitIds,            \* the unit identifiers that callers ask for
    Operations,         \* the operations that each of them calls
    ClientPolicies,     \* retry of withClient: a policy or Undefined
    TransportOptions,   \* the options a transport may be opened with, and the policy
                        \* of the retryModbus that its callers put around a call
    Faults,             \* the errors that the hooks return
    MaxSupervisors      \* bound: supervisors alive at once

VARIABLES
    options,        \* [supervised, triggers, policy, retry, outer]
    devices,        \* deviceStates: unit |-> its four tables
    state,          \* connectionState: [kind, attempt]
    closed,
    scope,          \* "open", "closing" or "closed"
    touchedUnits,
    calls,          \* one call of each caller
    supervisors     \* the forked supervisors, oldest first

vars == <<options, devices, state, closed, scope, touchedUnits, calls, supervisors>>

None == Error("none", 0)
InvalidArgument == Error("ModbusInvalidArgumentError", 0)
NotConnected == Error("ModbusNotConnectedError", 0)
CircuitOpen == Error("ModbusCircuitOpenError", 0)

-----------------------------------------------------------------------------
(* A device: sparse tables, each with the highest address it was given.    *)

\* Where the last of the entries is that name an address.
LastEntries(entries) ==
    [a \in {e.address : e \in ToSet(entries)} |->
       SelectLastInSeq(entries, LAMBDA e : e.address = a)]

maxAddress(entries) ==
    FoldLeft(LAMBDA max, e : IF e.address > max THEN e.address ELSE max, -1, entries)

\* A table of definitions: a repeated address keeps its last default.
buildTable(entries) ==
    LET last == LastEntries(entries)
    IN  [map |-> [a \in DOMAIN last |-> entries[last[a]].default],
         maxAddress |-> maxAddress(entries)]

deviceState(definition) ==
    [coils |-> buildTable(definition.coils),
     discreteInputs |-> buildTable(definition.discreteInputs),
     holdingRegisters |-> buildTable(definition.holdingRegisters),
     inputRegisters |-> buildTable(definition.inputRegisters)]

\* A repeated unit keeps its last definition.
deviceStates ==
    [u \in {d.unitId : d \in ToSet(Definitions)} |->
       deviceState(Definitions[SelectLastInSeq(Definitions, LAMBDA d : d.unitId = u)])]

Within(table, address, quantity) == address + quantity <= table.maxAddress + 1

Off(name) == IF name \in {"coils", "discreteInputs"} THEN FALSE ELSE 0

\* What an address holds; one that nobody defined or wrote reads as off.
Reading(device, name, a) ==
    LET map == device[name].map
    IN  IF a \in DOMAIN map THEN map[a] ELSE Off(name)

Values(device, name, address, quantity) ==
    [i \in 1..quantity |-> Reading(device, name, address + i - 1)]

Stored(device, name, address, values) ==
    LET map == device[name].map
        covered == address..(address + Len(values) - 1)
    IN  [device EXCEPT ![name].map =
           [a \in covered \cup DOMAIN map |->
              IF a \in covered THEN values[a - address + 1] ELSE map[a]]]

Refuses(device, error) == [device |-> device, error |-> error, answer |-> <<>>]
Answers(device, answer) == [device |-> device, error |-> None, answer |-> answer]

read(device, op) ==
    IF Within(device[op.table], op.address, op.quantity)
    THEN Answers(device, Values(device, op.table, op.address, op.quantity))
    ELSE Refuses(device, InvalidArgument)

write(device, op) ==
    IF Within(device[op.table], op.address, Len(op.values))
    THEN Answers(Stored(device, op.table, op.address, op.values), <<>>)
    ELSE Refuses(device, InvalidArgument)

\* Mutant: the registers are written before the range that is read is checked.
readWriteMultipleRegisters_WritesFirst(device, op) ==
    LET stored == Stored(device, "holdingRegisters", op.writeAddress, op.values)
    IN  IF ~Within(device.holdingRegisters, op.writeAddress, Len(op.values))
        THEN Refuses(device, InvalidArgument)
        ELSE IF ~Within(device.holdingRegisters, op.address, op.quantity)
        THEN Refuses(stored, InvalidArgument)
        ELSE Answers(stored, Values(stored, "holdingRegisters", op.address, op.quantity))

\* FC23: both ranges are checked before anything is written.
readWriteMultipleRegisters(device, op) ==
    LET stored == Stored(device, "holdingRegisters", op.writeAddress, op.values)
    IN  IF /\ Within(device.holdingRegisters, op.writeAddress, Len(op.values))
           /\ Within(device.holdingRegisters, op.address, op.quantity)
        THEN Answers(stored, Values(stored, "holdingRegisters", op.address, op.quantity))
        ELSE Refuses(device, InvalidArgument)

\* The operations of makeMockModbusClient by kind; the ones it does not support
\* refuse, and the diagnostic ones answer a constant.
perform(device, op) ==
    CASE op.kind = "read" -> read(device, op)
      [] op.kind = "write" -> write(device, op)
      [] op.kind = "readWrite" -> readWriteMultipleRegisters(device, op)
      [] op.kind = "diagnostic" -> Answers(device, <<>>)
      [] op.kind = "unsupported" -> Refuses(device, InvalidArgument)

-----------------------------------------------------------------------------
(* The connection.                                                         *)

Disconnected == [kind |-> "Disconnected", attempt |-> 0]
Connected == [kind |-> "Connected", attempt |-> 0]
Reconnecting(attempt) == [kind |-> "Reconnecting", attempt |-> attempt]
Down == [kind |-> "Down", attempt |-> 0]

FirstAttempt == [phase |-> "attempt", attempt |-> 1]
Ended == [phase |-> "ended", attempt |-> 0]

\* guardCircuit: only a supervised link refuses.
CircuitIsOpen == options.supervised /\ state.kind \in {"Reconnecting", "Down"}

\* The error with which the guard refuses an attempt, or None: a closed transport,
\* then an open circuit, then the fault that the test injects.
guard(call, fault) ==
    IF closed THEN NotConnected
    ELSE IF CircuitIsOpen THEN CircuitOpen
    ELSE fault

\* reconnectOnce: the error of one attempt to reconnect, or None.
reconnectOnce(fault) == IF closed THEN NotConnected ELSE fault

\* A fiber forked into a scope that no longer is open ends at once.
Fork == IF scope = "open" THEN Append(supervisors, FirstAttempt) ELSE supervisors

\* Supervisor s goes on as `next`.
Continue(s, next) ==
    IF next = Ended THEN RemoveAt(supervisors, s) ELSE ReplaceAt(supervisors, s, next)

\* The report of a failure: ignored once closed or for an error that is no trigger,
\* it marks an unsupervised link as down and claims the reconnect of a supervised one.
report(error) ==
    IF closed \/ error.tag \notin options.triggers \/ state.kind # "Connected"
    THEN UNCHANGED <<state, supervisors>>
    ELSE IF ~options.supervised
    THEN state' = Down /\ UNCHANGED supervisors
    ELSE /\ Len(supervisors) < MaxSupervisors
         /\ state' = Reconnecting(0)
         /\ supervisors' = Fork

\* A success restores an unsupervised link.
onSuccess ==
    /\ state' = IF ~options.supervised /\ state.kind = "Down" THEN Connected ELSE state
    /\ UNCHANGED supervisors

-----------------------------------------------------------------------------
(* The callers.                                                            *)

\* What the call has come to; the caller may call again.
Ends(error) == [phase |-> "idle", error |-> error]

\* A call that is to make an attempt: attempt `inner` of round `round`.
Trying(unit, op, policy, inner, round, attempts) ==
    [phase |-> "trying", unit |-> unit, op |-> op, policy |-> policy,
     inner |-> inner, round |-> round, attempts |-> attempts]

Again(call, inner, round) ==
    Trying(call.unit, call.op, call.policy, inner, round, call.attempts)

\* The attempt was made, and its outcome has to be reported.
Attempted(call, outcome) ==
    [phase |-> "reporting", unit |-> call.unit, op |-> call.op, policy |-> call.policy,
     inner |-> call.inner, round |-> call.round, attempts |-> call.attempts + 1,
     error |-> outcome.error, answer |-> outcome.answer]

Init ==
    /\ options \in TransportOptions
    /\ devices = deviceStates
    /\ state = Connected
    /\ closed = FALSE
    /\ scope = "open"
    /\ touchedUnits = {}
    /\ calls = [c \in Callers |-> Ends(None)]
    /\ supervisors = <<>>

\* withClient and a call of one operation of the client, inside retryModbus or not.
Call(c, unit, op, retry) ==
    /\ calls[c].phase = "idle"
    /\ IF closed
       THEN /\ calls' = [calls EXCEPT ![c] = Ends(NotConnected)]
            /\ UNCHANGED touchedUnits
       ELSE IF unit \notin DOMAIN devices
       THEN /\ calls' = [calls EXCEPT ![c] = Ends(InvalidArgument)]
            /\ UNCHANGED touchedUnits
       ELSE /\ touchedUnits' = touchedUnits \cup {unit}
            /\ calls' = [calls EXCEPT ![c] =
                           Trying(unit, op, OrDefault(retry, options.retry), 1, 1, 0)]
    /\ UNCHANGED <<options, devices, state, closed, scope, supervisors>>

\* The guard and the operation of one attempt, after whatever delay preceded it.
Attempt(c, fault) ==
    LET call == calls[c]
        refused == guard(call, fault)
        outcome == IF refused # None THEN Refuses(devices[call.unit], refused)
                   ELSE perform(devices[call.unit], call.op)
    IN  /\ call.phase = "trying"
        /\ devices' = [devices EXCEPT ![call.unit] = outcome.device]
        /\ calls' = [calls EXCEPT ![c] = Attempted(call, outcome)]
        /\ UNCHANGED <<options, state, closed, scope, touchedUnits, supervisors>>

Retries(policy, error, attempt) ==
    policy # Undefined /\ Continues(policy, error, attempt, 0)

\* Mutant: a change of error starts the count again.
Retry_PerError(call) ==
    LET spent == IF call.error.tag = "ModbusTimeoutError" THEN call.inner ELSE 1
    IN  IF Retries(call.policy, call.error, spent)
        THEN Again(call, call.inner + 1, call.round)
        ELSE IF Retries(options.outer, call.error, call.round)
        THEN Again(call, 1, call.round + 1)
        ELSE Ends(call.error)

\* What a failed attempt becomes: another one under the policy of the client, a new
\* round of the whole call under the policy around it, or the failure of the call.
Retry(call) ==
    IF Retries(call.policy, call.error, call.inner)
    THEN Again(call, call.inner + 1, call.round)
    ELSE IF Retries(options.outer, call.error, call.round)
    THEN Again(call, 1, call.round + 1)
    ELSE Ends(call.error)

Report(c) ==
    LET call == calls[c]
    IN  /\ call.phase = "reporting"
        /\ IF call.error = None
           THEN /\ onSuccess
                /\ calls' = [calls EXCEPT ![c] = Ends(None)]
           ELSE /\ report(call.error)
                /\ calls' = [calls EXCEPT ![c] = Retry(call)]
        /\ UNCHANGED <<options, devices, closed, scope, touchedUnits>>

\* The caller is interrupted while its retry waits.
Interrupt(c) ==
    /\ calls[c].phase = "trying"
    /\ calls[c].attempts > 0
    /\ calls' = [calls EXCEPT ![c] = Ends(None)]
    /\ UNCHANGED <<options, devices, state, closed, scope, touchedUnits, supervisors>>

-----------------------------------------------------------------------------
(* The supervisors and the application's own reconnect.                    *)

Reconnect(fault) ==
    /\ reconnectOnce(fault) = None
    /\ state' = Connected
    /\ UNCHANGED <<options, devices, closed, scope, touchedUnits, calls, supervisors>>

\* Mutant: the supervisor ends with its round.
AfterRound_GivesUp(error, attempt) ==
    IF Retries(options.policy, error, attempt)
    THEN [phase |-> "attempt", attempt |-> attempt + 1]
    ELSE Ended

\* A supervisor after a failed attempt: the next attempt of the round, or a rest.
AfterRound(error, attempt) ==
    IF Retries(options.policy, error, attempt)
    THEN [phase |-> "attempt", attempt |-> attempt + 1]
    ELSE [phase |-> "resting", attempt |-> 0]

\* One attempt of a supervisor, after whatever delay preceded it.  A failure counts in
\* Reconnecting; the last one of a round takes the link down, whatever its state is.
Supervise(s, fault) ==
    LET error == reconnectOnce(fault)
        next == AfterRound(error, supervisors[s].attempt)
    IN  /\ supervisors[s].phase = "attempt"
        /\ supervisors' = Continue(s, IF error = None THEN Ended ELSE next)
        /\ state' = IF error = None THEN Connected
                    ELSE IF next.phase # "attempt" THEN Down
                    ELSE IF state.kind = "Reconnecting" THEN Reconnecting(state.attempt + 1)
                    ELSE state
        /\ UNCHANGED <<options, devices, closed, scope, touchedUnits, calls>>

\* After its rest a supervisor begins a round, unless the link is no longer down.
Probe(s) ==
    /\ supervisors[s].phase = "resting"
    /\ IF state.kind = "Down"
       THEN /\ state' = Reconnecting(0)
            /\ supervisors' = Continue(s, FirstAttempt)
       ELSE /\ supervisors' = Continue(s, Ended)
            /\ UNCHANGED state
    /\ UNCHANGED <<options, devices, closed, scope, touchedUnits, calls>>

\* The scope closes: it interrupts the supervisors first, forked as they were after
\* the finalizer that closes the transport was added.
CloseScope ==
    /\ scope = "open"
    /\ scope' = "closing"
    /\ supervisors' = <<>>
    /\ UNCHANGED <<options, devices, state, closed, touchedUnits, calls>>

CloseTransport ==
    /\ scope = "closing"
    /\ scope' = "closed"
    /\ closed' = TRUE
    /\ state' = Disconnected
    /\ UNCHANGED <<options, devices, touchedUnits, calls, supervisors>>

-----------------------------------------------------------------------------
HookReturns == Faults \cup {None}

Serve(c) ==
    \/ \E unit \in UnitIds, op \in Operations[c], retry \in ClientPolicies :
          Call(c, unit, op, retry)
    \/ \E fault \in HookReturns : Attempt(c, fault)
    \/ Report(c)
    \/ Interrupt(c)

Oversee ==
    \E s \in DOMAIN supervisors :
        \/ \E fault \in HookReturns : Supervise(s, fault)
        \/ Probe(s)

Next ==
    \/ \E c \in Callers : Serve(c)
    \/ Oversee
    \/ \E fault \in HookReturns : Reconnect(fault)
    \/ CloseScope
    \/ CloseTransport

\* The timers of a supervisor fire, a scope that closes runs its finalizers, and a link
\* that is tried again and again comes back.
Fairness ==
    /\ WF_vars(Oversee)
    /\ WF_vars(CloseTransport)
    /\ SF_vars(\E s \in DOMAIN supervisors : Supervise(s, None))

Spec == Init /\ [][Next]_vars /\ Fairness

-----------------------------------------------------------------------------
(* Properties.                                                             *)

Reached(c) == calls[c].phase = "trying" /\ calls'[c].phase = "reporting"

Budget(policy) == IF policy = Undefined THEN 1 ELSE policy.maxRetries + 1

\* A call makes at most as many attempts as its policies allow together, whatever
\* mixture of errors it meets: `createRetryPolicy` says that the budget is shared by
\* the kinds of error, `retryModbus` that nested budgets multiply.
AttemptsAreBounded ==
    \A c \in Callers :
        calls[c].phase = "reporting" =>
            calls[c].attempts <= Budget(calls[c].policy) * Budget(options.outer)

Covered(op) ==
    IF op.kind = "readWrite" THEN {op.writeAddress + i - 1 : i \in DOMAIN op.values}
    ELSE IF op.kind = "write" THEN {op.address + i - 1 : i \in DOMAIN op.values}
    ELSE {}

TableNames == {"coils", "discreteInputs", "holdingRegisters", "inputRegisters"}

\* A failed attempt leaves every table as it was, also when only one of its two
\* ranges was wrong; one that succeeds changes the range it names and nothing else,
\* and a read beside a write answers what the device holds after it.
OperationsAreWhole ==
    [][\A c \in Callers : Reached(c) =>
         LET op == calls[c].op
             unit == calls[c].unit
             succeeds == calls'[c].error = None
         IN  /\ \A u \in DOMAIN devices, t \in TableNames :
                  \A a \in DOMAIN devices'[u][t].map :
                      Reading(devices'[u], t, a) # Reading(devices[u], t, a)
                      => succeeds /\ u = unit /\ a \in Covered(op) /\ t = op.table
             /\ succeeds /\ op.kind \in {"read", "readWrite"} =>
                  calls'[c].answer
                      = Values(devices'[unit], op.table, op.address, op.quantity)]_vars

\* A supervised link that goes down comes up again, when a reconnect that is tried
\* again and again succeeds at last, or its transport is closed.
CircuitRecovers ==
    CircuitIsOpen ~> state.kind \in {"Connected", "Disconnected"}

=============================================================================
