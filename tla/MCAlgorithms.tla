---------------------------- MODULE MCAlgorithms ----------------------------
(***************************************************************************)
(* Small sets of inputs for Algorithms, and the programs of MCTypeAliases  *)
(* beside them: a behaviour computes one output, or judges one program.    *)
(***************************************************************************)
EXTENDS Algorithms

VARIABLES judged, program, verdict

lintVars == <<judged, program, verdict>>

Lint == INSTANCE MCTypeAliases

MCInit == Init /\ Lint!Init

MCNext ==
    \/ ~judged /\ Next /\ UNCHANGED lintVars
    \/ function = "idle" /\ Lint!Next /\ UNCHANGED vars

MCSpec == MCInit /\ [][MCNext]_<<vars, lintVars>>

\* A rule of the lint plugin judges a type as it would with every alias written out
\* (type-alias-resolution.ts, dictionary-types.ts).
RulesSeeThroughAliases == Lint!RulesSeeThroughAliases

-----------------------------------------------------------------------------
(* The inputs.                                                             *)

\* Six addresses make runs of every length up to twice the limit and gaps of every
\* width up to four.
SmallAddresses == 1..6

Write(a, v) == [address |-> a, value |-> v]
InOrder(S) == SetToSortSeq(S, <)

\* Every set of addresses once, with values that tell the addresses apart.
SpreadWrites(Value(_)) ==
    {[i \in 1..Cardinality(S) |-> Write(InOrder(S)[i], Value(InOrder(S)[i]))] :
        S \in SUBSET SmallAddresses}

\* Three writes to two addresses in any order, with a value each.
RepeatedWrites(Value(_)) ==
    {[i \in 1..3 |-> Write(at[i], Value(i))] : at \in [1..3 -> {2, 3}]}

EdgeWrites(addresses, values) ==
    {<<Write(a, v)>> : a \in addresses, v \in values}
        \cup {<<Write(MAX_REGISTER_ADDRESS, 1), Write(MAX_REGISTER_ADDRESS - 1, 1)>>}

Edges == {-1, 0, 1, MAX_REGISTER_ADDRESS, MAX_REGISTER_ADDRESS + 1}

RegisterWrites ==
    SpreadWrites(LAMBDA a : a * 11) \cup RepeatedWrites(LAMBDA i : -i)
        \cup EdgeWrites(Edges, {MIN_REGISTER_VALUE - 1, MIN_REGISTER_VALUE, -1,
                                MAX_REGISTER_VALUE, MAX_REGISTER_VALUE + 1})
CoilWrites ==
    SpreadWrites(LAMBDA a : a % 2) \cup RepeatedWrites(LAMBDA i : i % 2)
        \cup EdgeWrites(Edges, {0, 1, 2})

Groups ==
    {InOrder(S) : S \in SUBSET SmallAddresses}
        \cup [1..3 -> {2, 4}] \cup {<<a>> : a \in Edges}

Options(limits, minRuns, gaps) == [limit : limits, minRun : minRuns, gap : gaps]

MCWriteCalls ==
    [writes : RegisterWrites,
     options : Options({Absent, 0, 1, 3, 4, 124}, {Absent, 0, 1, 3}, {Absent})]

MCCoilWriteCalls ==
    [writes : CoilWrites,
     options : Options({Absent, 3, 1969}, {Absent, 1, 3}, {Absent, -1, 1, 2})]

MCReadCalls ==
    [group : Groups, options : Options({Absent, 1, 3, 126}, {Absent}, {Absent, 1, 2})]

MCCoilReadCalls ==
    [group : Groups, options : Options({Absent, 2, 2001}, {Absent}, {-1, 0, 3})]

\* Native errors with no marker, one, and two.
MCNativeErrors ==
    [code : ModbusErrorCode, markers : {<<>>} \cup {<<n>> : n \in 0..12} \cup {<<2, 6>>, <<6, 2>>}]

MCOverrides ==
    [maxRetries : {Undefined, 6}, maxElapsed : {Undefined},
     curve : {NoOverrides, Curve(1000, Undefined, Undefined), Curve(Undefined, Undefined, 300)},
     errors : {NoErrors, "ModbusTransportError" :> Never, "ModbusTimeoutError" :> Always,
               "ModbusTimeoutError" :> WithCurve(Curve(Undefined, 3, Undefined)),
               "ModbusInternalError" :> WithCurve(Curve(10, Undefined, Undefined))},
     retryableExceptions : {Undefined, {6}}]

\* What PlanProofs proves of the read planner, on small sets.
ASSUME ReadsAreFound ==
    \A S \in SUBSET SmallAddresses : \A limit \in 1..4, gap \in 0..3 : FindsAll(S, limit, gap)

=============================================================================
