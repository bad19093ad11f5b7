----------------------------- MODULE Algorithms -----------------------------
(***************************************************************************)
(* The pure functions of the library: one behaviour chooses one function   *)
(* and one input, and computes its output.  The properties compare the     *)
(* output with a reference definition, so that what a function computes is *)
(* an invariant.                                                           *)
(*                                                                         *)
(* The inputs are parameters: any of the right shape, those that a planner *)
(* refuses included.                                                       *)
(***************************************************************************)
EXTENDS TransactionPlans, Errors

CONSTANTS
    WriteCalls,         \* calls of planWrites: a sequence of writes and the options
    CoilWriteCalls,     \* calls of planCoilWrites
    ReadCalls,          \* calls of planReads: a sequence of addresses and the options
    CoilReadCalls,      \* calls of planCoilReads
    NativeErrors,       \* errors of the native binding
    Overrides           \* the options that a caller gives to a preset

PlanOptions == [limit : Int \cup {Absent}, minRun : Int \cup {Absent}, gap : Int \cup {Absent}]

ASSUME WritesAreTyped ==
    WriteCalls \cup CoilWriteCalls
        \subseteq [writes : Seq([address : Int, value : Int]), options : PlanOptions]
ASSUME ReadsAreTyped ==
    ReadCalls \cup CoilReadCalls \subseteq [group : Seq(Int), options : PlanOptions]
ASSUME ErrorsAreTyped == NativeErrors \subseteq [code : ModbusErrorCode, markers : Seq(Nat)]
ASSUME OverridesAreTyped == \A overrides \in Overrides : IsPolicyOptions(overrides)

VARIABLES function, input, output

vars == <<function, input, output>>

Init == function = "idle" /\ input = <<>> /\ output = <<>>

Compute(name, argument, result) ==
    /\ function = "idle"
    /\ function' = name /\ input' = argument /\ output' = result

-----------------------------------------------------------------------------
PlanWrites ==
    \E call \in WriteCalls :
        Compute("planWrites", call, planRegisterWrites(call.writes, call.options))

PlanCoilWrites ==
    \E call \in CoilWriteCalls :
        Compute("planCoilWrites", call, planCoilWrites(call.writes, call.options))

PlanReads ==
    \E call \in ReadCalls : Compute("planReads", call, planReads(call.group, call.options))

PlanCoilReads ==
    \E call \in CoilReadCalls :
        Compute("planCoilReads", call, planCoilReads(call.group, call.options))

Classify ==
    \E native \in NativeErrors : Compute("toModbusError", native, toModbusError(native))

\* A preset with overrides, next to the same preset without.
ResolvePolicy ==
    \E overrides \in Overrides :
        \/ Compute("none", overrides, <<none(NoOptions), none(overrides)>>)
        \/ Compute("serial", overrides, <<serial(NoOptions), serial(overrides)>>)
        \/ Compute("tcp", overrides, <<tcp(NoOptions), tcp(overrides)>>)
        \/ Compute("persistent", overrides, <<persistent(NoOptions), persistent(overrides)>>)

Next == PlanWrites \/ PlanCoilWrites \/ PlanReads \/ PlanCoilReads \/ Classify \/ ResolvePolicy

Spec == Init /\ [][Next]_vars

-----------------------------------------------------------------------------
(* Properties.                                                             *)

WritePlanned == function \in {"planWrites", "planCoilWrites"} /\ ~output.thrown
ReadPlanned == function \in {"planReads", "planCoilReads"} /\ ~output.thrown

Encoded(value) == IF function = "planWrites" THEN value % 65536 ELSE value
WrittenAt(a) == {i \in DOMAIN input.writes : input.writes[i].address = a}

\* A plan does what its writes did one by one: whatever the device holds before,
\* every address that was written ends with the 16 bits of its last write, and
\* every other address, the gaps between coils included, with what it held.
PlansWriteTheLatest ==
    WritePlanned =>
        LET touched == UNION {output.steps[i].span : i \in DOMAIN output.steps}
            image == [a \in touched \cup AddressesOf(input.writes) |-> -a]
        IN  Issue(image, output.steps) =
                [a \in DOMAIN image |->
                    IF WrittenAt(a) = {} THEN image[a]
                    ELSE Encoded(input.writes[Highest(WrittenAt(a))].value)]

\* planWrites takes no gap.
GapOf(options) == IF function = "planWrites" THEN 0 ELSE OrElse(options.gap, 0)
LimitOf(options) ==
    OrElse(options.limit,
           CASE function = "planWrites" -> 123 [] function = "planReads" -> 125
             [] function = "planCoilWrites" -> 1968 [] function = "planCoilReads" -> 2000)
Asked == IF WritePlanned THEN AddressesOf(input.writes) ELSE Range(input.group)
Spans ==
    IF WritePlanned THEN [i \in DOMAIN output.steps |-> output.steps[i].span] ELSE output.steps

\* "The fewest transactions that cover them": no plan within the limits needs
\* fewer, as long as a run of two is long enough for one transaction.
PlansAreShortest ==
    ReadPlanned \/ (WritePlanned /\ input.options.minRun \in {Absent, 1, 2}) =>
        /\ \A i \in DOMAIN Spans :
              /\ Spans[i] # {} /\ Cardinality(Spans[i]) <= LimitOf(input.options)
              /\ Spans[i] \subseteq 0..MAX_REGISTER_ADDRESS
              /\ i > 1 => Highest(Spans[i - 1]) < Lowest(Spans[i])
        /\ Asked \subseteq UNION Range(Spans)
        /\ Len(Spans) = Fewest(Asked, LimitOf(input.options), 1, GapOf(input.options))

\* A native error is retried by a preset only when it can go away by itself: an
\* argument error, an error of an unknown kind and an exception response that the
\* device will repeat fail at once, even when the message carries other codes.
OnlyTransientErrorsAreRetried ==
    function = "toModbusError" =>
        \A policy \in {none(NoOptions), serial(NoOptions), tcp(NoOptions), persistent(NoOptions)} :
            isRetryable(policy, output) <=>
                \/ input.code \in {"TIMEOUT", "TRANSPORT", "CONNECTION_CLOSED"}
                \/ /\ input.code = "EXCEPTION" /\ input.markers # <<>>
                   /\ input.markers[1] \in {5, 6, 10, 11}

Presets == {"none", "serial", "tcp", "persistent"}

\* Tuning one error of a preset leaves the others as the preset has them: what is
\* retried, and along which curve.
PresetsKeepTheirTuning ==
    function \in Presets =>
        LET preset == output[1]
            tuned == output[2]
        IN  /\ \A tag \in ModbusErrorTag \ DOMAIN input.errors :
                  /\ tag \in tuned.retryable <=> tag \in preset.retryable
                  /\ input.curve = NoOverrides => tuned.delays[tag] = preset.delays[tag]
            /\ input.maxRetries = Undefined => tuned.maxRetries = preset.maxRetries
            /\ input.maxElapsed = Undefined => tuned.maxElapsed = preset.maxElapsed

\* The delays of a call that keeps failing, each computed from the one before it.
Curves(curve, length) ==
    LET ceiling(delay) == IF delay < curve.maxDelay THEN delay ELSE curve.maxDelay
        wait[n \in 1..length] ==
            ceiling(IF n = 1 THEN curve.baseDelay ELSE wait[n - 1] * curve.factor)
    IN  wait

\* The first retry waits for the base delay of its error, and every further one `factor`
\* times as long as the one before it, up to the ceiling.
DelaysFollowTheCurve ==
    function \in Presets =>
        \A policy \in Range(output) : \A tag \in policy.retryable :
            [n \in 1..policy.maxRetries |-> DelayAfter(policy, Error(tag, 6), n)]
                = Curves(policy.delays[tag], policy.maxRetries)

\* "Packs register writes into the fewest transactions that cover them": whatever
\* the shortest run that the caller wants in one transaction.
FewestTransactions ==
    function = "planWrites" /\ WritePlanned =>
        Len(Spans) = Fewest(Asked, LimitOf(input.options), OrElse(input.options.minRun, 2), 0)

=============================================================================
