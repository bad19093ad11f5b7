-------------------------- MODULE TransactionPlans --------------------------
(***************************************************************************)
(* The four planners as their callers see them: planWrites and planReads   *)
(* of register-plan.ts, planCoilWrites and planCoilReads of coil-plan.ts.  *)
(* Options are resolved, arguments are checked, values are encoded, and a  *)
(* value that is written twice is the later one.                           *)
(*                                                                         *)
(* WritePlan and ReadPlan say which addresses share a transaction; here    *)
(* they get their values.  An option that the caller leaves out is Absent. *)
(* A coil is 0 or 1, and any other number stands for what is not boolean.  *)
(***************************************************************************)
EXTENDS ReadPlan

CONSTANT Absent     \* an option that is not given

MODBUS_MAX_WRITE_REGISTERS == 123
MODBUS_MAX_READ_REGISTERS == 125
MODBUS_MAX_WRITE_COILS == 1968
MODBUS_MAX_READ_COILS == 2000
MAX_REGISTER_ADDRESS == 65535
MAX_REGISTER_VALUE == 65535
MIN_REGISTER_VALUE == -32768

OrElse(option, default) == IF option = Absent THEN default ELSE option

-----------------------------------------------------------------------------
(* Argument checks: each throws a RangeError where it is FALSE.            *)

assertTransactionLimit(value, maximum) == value \in 1..maximum
assertPositiveInteger(value) == value \in Nat \ {0}
assertMaxGap(value) == value \in Nat
assertAddress(address) == address \in 0..MAX_REGISTER_ADDRESS
assertCoilValue(value) == value \in {0, 1}
assertRegisterValue(value) == value \in MIN_REGISTER_VALUE..MAX_REGISTER_VALUE

\* The 16 bits of a value, `value & 0xffff`.
encodeRegisterValue(value) == value % (MAX_REGISTER_VALUE + 1)

-----------------------------------------------------------------------------
(* Plans.                                                                  *)

RangeError == [thrown |-> TRUE, steps |-> <<>>]
Planned(steps) == [thrown |-> FALSE, steps |-> steps]

AddressesOf(writes) == {writes[i].address : i \in DOMAIN writes}

\* Mutant: the write that came first wins.
latest_First(writes, address) ==
    LET first == CHOOSE i \in DOMAIN writes :
                    /\ writes[i].address = address
                    /\ \A j \in DOMAIN writes : writes[j].address = address => i <= j
    IN  writes[first].value

\* The value of the last write to an address.
latest(writes, address) ==
    LET last == CHOOSE i \in DOMAIN writes :
                    /\ writes[i].address = address
                    /\ \A j \in DOMAIN writes : writes[j].address = address => j <= i
    IN  writes[last].value

\* A step holds the values of the addresses that were asked for.  An address of
\* the span that is not among them is a gap, and its caller fills it.
Step(writes, span, minRun) ==
    LET asked == span \cap AddressesOf(writes)
    IN  [kind |-> IF Cardinality(asked) >= minRun THEN "multiple" ELSE "single",
         span |-> span,
         values |-> [a \in asked |-> latest(writes, a)]]

Steps(writes, limit, minRun, gap) ==
    LET spans == planWrites(AddressesOf(writes), limit, minRun, gap)
    IN  [i \in DOMAIN spans |-> Step(writes, spans[i], minRun)]

planRegisterWrites(writes, options) ==
    LET limit == OrElse(options.limit, MODBUS_MAX_WRITE_REGISTERS)
        minRun == OrElse(options.minRun, 2)
        encoded == [i \in DOMAIN writes |->
                      [writes[i] EXCEPT !.value = encodeRegisterValue(@)]]
    IN  IF /\ assertTransactionLimit(limit, MODBUS_MAX_WRITE_REGISTERS)
           /\ assertPositiveInteger(minRun)
           /\ \A i \in DOMAIN writes : /\ assertAddress(writes[i].address)
                                       /\ assertRegisterValue(writes[i].value)
        THEN Planned(Steps(encoded, limit, minRun, 0))
        ELSE RangeError

planCoilWrites(writes, options) ==
    LET limit == OrElse(options.limit, MODBUS_MAX_WRITE_COILS)
        minRun == OrElse(options.minRun, 2)
        gap == OrElse(options.gap, 0)
    IN  IF /\ assertTransactionLimit(limit, MODBUS_MAX_WRITE_COILS)
           /\ assertPositiveInteger(minRun) /\ assertMaxGap(gap)
           /\ \A i \in DOMAIN writes : /\ assertAddress(writes[i].address)
                                       /\ assertCoilValue(writes[i].value)
        THEN Planned(Steps(writes, limit, minRun, gap))
        ELSE RangeError

\* planReads and planCoilReads, which differ in the limit of their transaction.
planSpans(addresses, options, maximum) ==
    LET limit == OrElse(options.limit, maximum)
        gap == OrElse(options.gap, 0)
    IN  IF /\ assertTransactionLimit(limit, maximum) /\ assertMaxGap(gap)
           /\ \A i \in DOMAIN addresses : assertAddress(addresses[i])
        THEN Planned(buildReadPlan(Range(addresses), limit, gap))
        ELSE RangeError

planReads(addresses, options) == planSpans(addresses, options, MODBUS_MAX_READ_REGISTERS)
planCoilReads(addresses, options) == planSpans(addresses, options, MODBUS_MAX_READ_COILS)

-----------------------------------------------------------------------------
(* Reference definitions.                                                  *)

\* What a device holds after the steps: gaps keep the state they are filled with.
Issue(image, steps) ==
    [a \in DOMAIN image |->
       LET at == {i \in DOMAIN steps : a \in steps[i].span}
       IN  IF at = {} THEN image[a]
           ELSE LET step == steps[Highest(at)]
                IN  IF a \in DOMAIN step.values THEN step.values[a] ELSE image[a]]

\* The groups that may start a plan of S: its lowest addresses up to some address,
\* within the limit and with no gap that is too wide, or one address alone.
Openings(S, limit, minRun, gap) ==
    {group \in {{a \in S : a <= top} : top \in S} :
        \/ Cardinality(group) = 1
        \/ /\ Cardinality(group) >= minRun
           /\ Highest(group) - Lowest(group) + 1 <= limit
           /\ \A a \in group \ {Lowest(group)} : \E b \in group : b < a /\ a - b - 1 <= gap}

\* The fewest transactions that cover S, by trying every plan.
Fewest(S, limit, minRun, gap) ==
    LET cost[rest \in SUBSET S] ==
            IF rest = {} THEN 0
            ELSE 1 + Lowest({cost[rest \ group] :
                               group \in Openings(rest, limit, minRun, gap)})
    IN  cost[S]

=============================================================================
