---------------------------- MODULE RetryPolicy ----------------------------
(***************************************************************************)
(* The policies of src/src/retry.ts as functions of their options: which   *)
(* errors are retried, after which delay, and for how long, with the four  *)
(* presets.  A policy is what createRetryPolicy resolves its options to.   *)
(*                                                                         *)
(* Durations are milliseconds.  Jitter, which scales a delay by a random   *)
(* factor, is left out: here a delay is what jitter scales.                *)
(***************************************************************************)
EXTENDS Integers, FiniteSets

CONSTANT Undefined      \* an option that is not given

ModbusErrorTag ==
    {"ModbusTimeoutError", "ModbusTransportError", "ModbusConnectionClosedError",
     "ModbusExceptionError", "ModbusInvalidArgumentError", "ModbusNotConnectedError",
     "ModbusCircuitOpenError", "ModbusInternalError"}

\* A ModbusError: its tag and, for an exception response, its code.
Error(tag, exception) == [tag |-> tag, exception |-> exception]

retryableExceptionCodes == {5, 6, 10, 11}

\* A request that went out and may work later, or one the circuit refused.
defaultRetryableTags ==
    {"ModbusTimeoutError", "ModbusTransportError", "ModbusConnectionClosedError",
     "ModbusExceptionError", "ModbusCircuitOpenError"}

Curve(base, factor, max) == [baseDelay |-> base, factor |-> factor, maxDelay |-> max]
defaultCurve == Curve(100, 2, 5000)
NoOverrides == Curve(Undefined, Undefined, Undefined)

\* One entry of `errors`: `false`, `true`, or `true` with a curve of its own.
Never == [retry |-> FALSE, curve |-> NoOverrides]
Always == [retry |-> TRUE, curve |-> NoOverrides]
WithCurve(curve) == [retry |-> TRUE, curve |-> curve]

\* `errors` has the tags it names in its domain.
NoErrors == [tag \in {} |-> Always]
NoOptions == [maxRetries |-> Undefined, maxElapsed |-> Undefined,
              curve |-> NoOverrides, errors |-> NoErrors,
              retryableExceptions |-> Undefined]

\* What a caller may give: durations, whole factors, and entries for some of the tags.
RetryDelayOptions ==
    [baseDelay : Nat \cup {Undefined}, factor : Nat \cup {Undefined},
     maxDelay : Nat \cup {Undefined}]
IsPolicyOptions(options) ==
    /\ options.maxRetries \in Nat \cup {Undefined}
    /\ options.maxElapsed \in Nat \cup {Undefined}
    /\ options.curve \in RetryDelayOptions
    /\ DOMAIN options.errors \subseteq ModbusErrorTag
    /\ options.errors \in
           [DOMAIN options.errors -> [retry : BOOLEAN, curve : RetryDelayOptions]]
    /\ options.retryableExceptions \in {Undefined} \cup SUBSET Nat

OrDefault(option, default) == IF option = Undefined THEN default ELSE option

-----------------------------------------------------------------------------
resolveRetryableTags(options) ==
    {tag \in ModbusErrorTag :
        IF tag \in DOMAIN options.errors THEN options.errors[tag].retry
        ELSE tag \in defaultRetryableTags}

\* The fields of a curve that are given, over those of the fallback.
resolveCurve(overrides, fallback) ==
    [field \in DOMAIN fallback |-> OrDefault(overrides[field], fallback[field])]

resolveDelays(options) ==
    LET policyCurve == resolveCurve(options.curve, defaultCurve)
    IN  [tag \in ModbusErrorTag |->
           resolveCurve(IF tag \in DOMAIN options.errors
                        THEN options.errors[tag].curve ELSE NoOverrides, policyCurve)]

\* Mutant: `errors` is replaced like every other key.
mergeOptions_ReplacesErrors(base, overrides) ==
    [maxRetries |-> OrDefault(overrides.maxRetries, base.maxRetries),
     maxElapsed |-> OrDefault(overrides.maxElapsed, base.maxElapsed),
     curve |-> resolveCurve(overrides.curve, base.curve),
     errors |-> IF overrides.errors = NoErrors THEN base.errors ELSE overrides.errors,
     retryableExceptions |->
        OrDefault(overrides.retryableExceptions, base.retryableExceptions)]

\* A preset with the options of its caller: `errors` is merged by tag, and every
\* other key that the caller gives replaces the one of the preset.
mergeOptions(base, overrides) ==
    [maxRetries |-> OrDefault(overrides.maxRetries, base.maxRetries),
     maxElapsed |-> OrDefault(overrides.maxElapsed, base.maxElapsed),
     curve |-> resolveCurve(overrides.curve, base.curve),
     errors |-> [tag \in DOMAIN overrides.errors \cup DOMAIN base.errors |->
                    IF tag \in DOMAIN overrides.errors THEN overrides.errors[tag]
                    ELSE base.errors[tag]],
     retryableExceptions |->
        OrDefault(overrides.retryableExceptions, base.retryableExceptions)]

createRetryPolicy(options) ==
    [maxRetries |-> OrDefault(options.maxRetries, 3),
     maxElapsed |-> options.maxElapsed,
     retryable |-> resolveRetryableTags(options),
     exceptions |-> OrDefault(options.retryableExceptions, retryableExceptionCodes),
     delays |-> resolveDelays(options)]

isRetryable(policy, error) ==
    /\ error.tag \in policy.retryable
    /\ error.tag = "ModbusExceptionError" => error.exception \in policy.exceptions

\* `factor ** n`.
Power(factor, n) ==
    LET power[i \in 0..n] == IF i = 0 THEN 1 ELSE factor * power[i - 1]
    IN  power[n]

\* The delay before retry `retryIndex`, counted from zero, without its jitter.
delayFor(policy, error, retryIndex) ==
    LET curve == policy.delays[error.tag]
        delay == curve.baseDelay * Power(curve.factor, retryIndex)
    IN  IF delay < curve.maxDelay THEN delay ELSE curve.maxDelay

\* Mutant: the attempt that the schedule counts from one is taken for the retry.
DelayAfter_OneBased(policy, error, attempt) == delayFor(policy, error, attempt)

\* The delay after attempt `attempt` failed, counted from one as the schedule does.
DelayAfter(policy, error, attempt) == delayFor(policy, error, attempt - 1)

\* Whether the schedule goes on after attempt `attempt`, counted from one, failed.
Continues(policy, error, attempt, elapsed) ==
    /\ isRetryable(policy, error)
    /\ attempt <= policy.maxRetries
    /\ policy.maxElapsed # Undefined => elapsed < policy.maxElapsed

-----------------------------------------------------------------------------
(* RetryPolicies.                                                          *)

Minutes(n) == n * 60000

none(overrides) ==
    createRetryPolicy(mergeOptions([NoOptions EXCEPT !.maxRetries = 0], overrides))

serial(overrides) ==
    createRetryPolicy(mergeOptions(
        [NoOptions EXCEPT
            !.maxRetries = 3, !.curve = Curve(50, 2, 1000),
            !.errors = [tag \in {"ModbusTimeoutError"} |->
                WithCurve(Curve(100, Undefined, Undefined))]], overrides))

tcp(overrides) ==
    createRetryPolicy(mergeOptions(
        [NoOptions EXCEPT
            !.maxRetries = 4, !.curve = Curve(100, 2, 5000),
            !.errors = [tag \in {"ModbusConnectionClosedError"} |->
                WithCurve(Curve(250, Undefined, 10000))]], overrides))

persistent(overrides) ==
    createRetryPolicy(mergeOptions(
        [NoOptions EXCEPT
            !.maxRetries = 10, !.curve = Curve(250, 2, 30000),
            !.maxElapsed = Minutes(5)], overrides))

=============================================================================
