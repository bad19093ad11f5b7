-------------------------- MODULE AlgorithmsProofs --------------------------
(***************************************************************************)
(* What the pure functions compute, for every input of the right shape.    *)
(* The only state is an input and its output, so the inductive invariant   *)
(* says which function made the output; the rest of each proof is about    *)
(* that function.                                                          *)
(***************************************************************************)
EXTENDS Algorithms, PlanProofs

-----------------------------------------------------------------------------
(* The machine.                                                            *)

Writes == [address : Int, value : Int]

PresetOf(name, options) ==
    CASE name = "none" -> none(options) [] name = "serial" -> serial(options)
      [] name = "tcp" -> tcp(options) [] name = "persistent" -> persistent(options)

\* The output is that of the function for the input.
Computed ==
    \/ function = "idle"
    \/ /\ function = "planWrites" /\ input \in WriteCalls
       /\ output = planRegisterWrites(input.writes, input.options)
    \/ /\ function = "planCoilWrites" /\ input \in CoilWriteCalls
       /\ output = planCoilWrites(input.writes, input.options)
    \/ /\ function = "planReads" /\ input \in ReadCalls
       /\ output = planReads(input.group, input.options)
    \/ /\ function = "planCoilReads" /\ input \in CoilReadCalls
       /\ output = planCoilReads(input.group, input.options)
    \/ /\ function = "toModbusError" /\ input \in NativeErrors
       /\ output = toModbusError(input)
    \/ /\ function \in Presets /\ input \in Overrides
       /\ output = <<PresetOf(function, NoOptions), PresetOf(function, input)>>

LEMMA ComputedHolds == Spec => []Computed
<1>1. Init => Computed
  BY DEF Init, Computed
<1>2. Computed /\ [Next]_vars => Computed'
  <2> SUFFICES ASSUME Computed, [Next]_vars PROVE Computed'
    OBVIOUS
  <2>1. CASE PlanWrites
    BY <2>1 DEF PlanWrites, Compute, Computed
  <2>2. CASE PlanCoilWrites
    BY <2>2 DEF PlanCoilWrites, Compute, Computed
  <2>3. CASE PlanReads
    BY <2>3 DEF PlanReads, Compute, Computed
  <2>4. CASE PlanCoilReads
    BY <2>4 DEF PlanCoilReads, Compute, Computed
  <2>5. CASE Classify
    BY <2>5 DEF Classify, Compute, Computed
  <2>6. CASE ResolvePolicy
    <3>1. PICK overrides \in Overrides :
            \/ Compute("none", overrides, <<none(NoOptions), none(overrides)>>)
            \/ Compute("serial", overrides, <<serial(NoOptions), serial(overrides)>>)
            \/ Compute("tcp", overrides, <<tcp(NoOptions), tcp(overrides)>>)
            \/ Compute("persistent", overrides, <<persistent(NoOptions), persistent(overrides)>>)
      BY <2>6 DEF ResolvePolicy
    <3>2. function' \in Presets /\ input' = overrides
          /\ output' = <<PresetOf(function', NoOptions), PresetOf(function', overrides)>>
      BY <3>1 DEF Compute, Presets, PresetOf
    <3> QED
      BY <3>2 DEF Computed
  <2>7. CASE UNCHANGED vars
    BY <2>7 DEF vars, Computed
  <2> QED
    BY <2>1, <2>2, <2>3, <2>4, <2>5, <2>6, <2>7 DEF Next
<1> QED
  BY <1>1, <1>2, PTL DEF Spec

-----------------------------------------------------------------------------
(* What a write plan writes.                                               *)

LEMMA AddressesAreNatural == MAX_REGISTER_ADDRESS \in Nat /\ 0..MAX_REGISTER_ADDRESS \subseteq Nat
BY DEF MAX_REGISTER_ADDRESS

LEMMA WritesOfPlan ==
    ASSUME NEW writes \in Seq(Writes)
    PROVE  IsFiniteSet(AddressesOf(writes))
<1> DEFINE at == [i \in DOMAIN writes |-> writes[i].address]
<1>1. IsFiniteSet(DOMAIN writes)
  BY LenProperties, FS_Interval
<1>2. at \in Surjection(DOMAIN writes, AddressesOf(writes))
  BY DEF AddressesOf, Surjection
<1> QED
  BY <1>1, <1>2, FS_Surjection

\* The last write to an address.
LEMMA LatestIs ==
    ASSUME NEW writes \in Seq(Writes), NEW a \in AddressesOf(writes)
    PROVE  LET at == {i \in DOMAIN writes : writes[i].address = a}
           IN  Highest(at) \in at /\ latest(writes, a) = writes[Highest(at)].value
<1> DEFINE at == {i \in DOMAIN writes : writes[i].address = a}
           last == Highest(at)
<1>1. DOMAIN writes = 1..Len(writes) /\ Len(writes) \in Nat
  BY LenProperties
<1>2. at \subseteq Nat /\ at # {} /\ IsFiniteSet(at)
  <2>1. at \in SUBSET (1..Len(writes)) /\ at # {}
    BY <1>1 DEF AddressesOf
  <2>2. IsFiniteSet(1..Len(writes))
    BY <1>1, FS_Interval
  <2> QED
    BY <2>1, <2>2, FS_Subset
<1>3. last \in at /\ \A b \in at : b <= last
  BY <1>2, HighestIs
<1>4. \A i \in DOMAIN writes :
        writes[i].address = a /\ (\A j \in DOMAIN writes : writes[j].address = a => j <= i)
            <=> i = last
  <2>1. \A j \in DOMAIN writes : writes[j].address = a <=> j \in at
    OBVIOUS
  <2>2. at \subseteq DOMAIN writes
    OBVIOUS
  <2> HIDE DEF at, last
  <2>3. \A i \in at : i \in Nat /\ last \in Nat /\ i <= last
    BY <1>2, <1>3
  <2>4. \A i \in at : (\A j \in at : j <= i) <=> i = last
    BY <1>3, <2>3
  <2> QED
    BY <1>3, <2>1, <2>2, <2>4
<1>5. latest(writes, a) = writes[last].value
  BY <1>3, <1>4 DEF latest
<1> QED
  BY <1>3, <1>5

\* The steps of a plan write the last value to every address that is written, and
\* leave every other one as it is.
LEMMA StepsWriteTheLatest ==
    ASSUME NEW writes \in Seq(Writes), AddressesOf(writes) \subseteq Nat,
           NEW limit \in Nat \ {0}, NEW gap \in Nat, NEW minRun, NEW image
    PROVE  Issue(image, Steps(writes, limit, minRun, gap))
             = [a \in DOMAIN image |-> IF a \in AddressesOf(writes) THEN latest(writes, a)
                                       ELSE image[a]]
<1> DEFINE S == AddressesOf(writes)
           spans == planWrites(S, limit, minRun, gap)
           steps == Steps(writes, limit, minRun, gap)
<1>1. PlanFor(S, limit, gap, spans)
  BY WritesOfPlan, PlansAreSound
<1>2. /\ spans \in Seq(SUBSET Nat) /\ DOMAIN spans = 1..Len(spans) /\ Len(spans) \in Nat
      /\ \A a \in S : \E k \in 1..Len(spans) : a \in spans[k]
      /\ \A j, k \in 1..Len(spans) : j < k => \A x \in spans[j], y \in spans[k] : x < y
  BY <1>1, LenProperties DEF PlanFor, Apart
<1>3. /\ DOMAIN steps = 1..Len(spans)
      /\ \A k \in 1..Len(spans) :
            /\ steps[k].span = spans[k]
            /\ steps[k].values = [a \in spans[k] \cap S |-> latest(writes, a)]
  BY <1>2 DEF Steps, Step
<1> HIDE DEF steps, spans
<1> DEFINE at(a) == {i \in DOMAIN steps : a \in steps[i].span}
           written(a) == LET step == steps[Highest(at(a))]
                         IN  IF a \in DOMAIN step.values THEN step.values[a] ELSE image[a]
<1>4. ASSUME NEW a, NEW k \in at(a)
      PROVE  Highest(at(a)) = k /\ k \in 1..Len(spans) /\ a \in spans[k]
  <2>1. k \in 1..Len(spans) /\ a \in spans[k]
    BY <1>3
  <2>2. \A j \in at(a) : j \in 1..Len(spans) /\ a \in spans[j]
    BY <1>3
  <2>3. \A j \in 1..Len(spans) : spans[j] \subseteq Nat
    BY <1>2
  <2>4. ASSUME NEW j \in at(a) PROVE j = k
    <3>1. ~(j < k) /\ ~(k < j)
      <4>1. j < k => a < a
        BY <1>2, <2>1, <2>2
      <4>2. k < j => a < a
        BY <1>2, <2>1, <2>2
      <4>3. a \in Nat
        BY <2>1, <2>3
      <4> QED
        BY <4>1, <4>2, <4>3
    <3> QED
      BY <1>2, <2>1, <2>2, <3>1
  <2>5. at(a) = {k}
    BY <2>4
  <2>6. Highest({k}) = k
    BY <1>2, <2>1 DEF Highest
  <2> QED
    BY <2>1, <2>5, <2>6
<1>5. ASSUME NEW a \in DOMAIN image
      PROVE  (IF at(a) = {} THEN image[a] ELSE written(a))
               = IF a \in S THEN latest(writes, a) ELSE image[a]
  <2>1. CASE at(a) = {}
    <3>1. a \notin S
      BY <1>2, <1>3, <2>1
    <3> QED
      BY <2>1, <3>1
  <2>2. CASE at(a) # {}
    <3>1. PICK k \in at(a) : TRUE
      BY <2>2
    <3>2. Highest(at(a)) = k /\ k \in 1..Len(spans) /\ a \in spans[k]
      BY <1>4, <3>1
    <3>3. steps[k].values = [b \in spans[k] \cap S |-> latest(writes, b)]
      BY <1>3, <3>2
    <3>4. DOMAIN steps[k].values = spans[k] \cap S
      BY <3>3
    <3>5. a \in S => steps[k].values[a] = latest(writes, a)
      BY <3>2, <3>3
    <3>6. written(a) = IF a \in S THEN latest(writes, a) ELSE image[a]
      BY <3>2, <3>4, <3>5
    <3> QED
      BY <2>2, <3>6
  <2> QED
    BY <2>1, <2>2
<1>6. Issue(image, steps) = [a \in DOMAIN image |-> IF at(a) = {} THEN image[a] ELSE written(a)]
  BY DEF Issue
<1> HIDE DEF at, written, S
<1>7. Issue(image, steps)
        = [a \in DOMAIN image |-> IF a \in S THEN latest(writes, a) ELSE image[a]]
  BY <1>5, <1>6
<1> QED
  BY <1>7 DEF steps, S

\* What a planner accepts.
Accepted(writes, limit, minRun, gap) ==
    /\ writes \in Seq(Writes) /\ AddressesOf(writes) \subseteq 0..MAX_REGISTER_ADDRESS
    /\ limit \in Nat \ {0} /\ minRun \in Nat \ {0} /\ gap \in Nat

\* A write plan that is not refused is the steps of its writes, each with the bits
\* that go to the device.
LEMMA WritePlanIs ==
    ASSUME Computed, WritePlanned
    PROVE  /\ Accepted(input.writes, LimitOf(input.options),
                       OrElse(input.options.minRun, 2), GapOf(input.options))
           /\ \E bits \in Seq(Writes) :
                 /\ AddressesOf(bits) = AddressesOf(input.writes)
                 /\ \A a \in AddressesOf(input.writes) :
                       latest(bits, a) = Encoded(latest(input.writes, a))
                 /\ output.steps = Steps(bits, LimitOf(input.options),
                                         OrElse(input.options.minRun, 2), GapOf(input.options))
<1> DEFINE limit == LimitOf(input.options)
           minRun == OrElse(input.options.minRun, 2)
           writes == input.writes
<1>1. CASE function = "planWrites"
  <2> DEFINE bits == [i \in DOMAIN writes |->
                        [writes[i] EXCEPT !.value = encodeRegisterValue(@)]]
  <2>1. input \in WriteCalls /\ output = planRegisterWrites(writes, input.options)
    BY <1>1 DEF Computed, Presets
  <2>2. writes \in Seq(Writes)
    BY <2>1, WritesAreTyped DEF Writes
  <2>3. ~output.thrown
    BY DEF WritePlanned
  <2>4. limit = OrElse(input.options.limit, MODBUS_MAX_WRITE_REGISTERS)
    BY <1>1 DEF LimitOf, MODBUS_MAX_WRITE_REGISTERS
  <2> DEFINE accepted == /\ assertTransactionLimit(limit, MODBUS_MAX_WRITE_REGISTERS)
                         /\ assertPositiveInteger(minRun)
                         /\ \A i \in DOMAIN writes : /\ assertAddress(writes[i].address)
                                                     /\ assertRegisterValue(writes[i].value)
             plan == Planned(Steps(bits, limit, minRun, 0))
  <2>5. /\ limit \in 1..123 /\ minRun \in Nat \ {0}
        /\ \A i \in DOMAIN writes : writes[i].address \in 0..MAX_REGISTER_ADDRESS
        /\ output = plan
    <3>1. output = IF accepted THEN plan ELSE RangeError
      BY <2>1, <2>4 DEF planRegisterWrites
    <3> HIDE DEF plan, limit, minRun
    <3>2. RangeError.thrown = TRUE
      BY DEF RangeError
    <3>3. accepted /\ output = plan
      BY <2>3, <3>1, <3>2
    <3> QED
      BY <3>3 DEF assertTransactionLimit, assertPositiveInteger, assertAddress,
                  MODBUS_MAX_WRITE_REGISTERS
  <2>6. output.steps = Steps(bits, limit, minRun, GapOf(input.options)) /\ GapOf(input.options) = 0
    BY <1>1, <2>5 DEF Planned, GapOf
  <2>7. DOMAIN writes = 1..Len(writes) /\ Len(writes) \in Nat
    BY <2>2, LenProperties
  <2>8. /\ DOMAIN bits = DOMAIN writes
        /\ \A i \in DOMAIN writes : /\ bits[i].address = writes[i].address
                                    /\ bits[i].value = writes[i].value % 65536
                                    /\ bits[i] \in Writes
    <3>1. ASSUME NEW i \in DOMAIN writes
          PROVE  /\ bits[i].address = writes[i].address
                 /\ bits[i].value = writes[i].value % 65536
                 /\ bits[i] \in Writes
      <4>1. writes[i] \in Writes
        BY <2>2, <2>7
      <4>2. writes[i].value % 65536 \in Int
        BY <4>1 DEF Writes
      <4>3. bits[i] = [writes[i] EXCEPT !.value = writes[i].value % 65536]
        BY DEF encodeRegisterValue, MAX_REGISTER_VALUE
      <4> QED
        BY <4>1, <4>2, <4>3 DEF Writes
    <3>2. DOMAIN bits = DOMAIN writes
      OBVIOUS
    <3> HIDE DEF bits
    <3> QED
      BY <3>1, <3>2
  <2> HIDE DEF bits
  <2>9. bits \in Seq(Writes)
    <3>1. bits \in [1..Len(writes) -> Writes]
      <4>1. bits = [i \in DOMAIN writes |-> bits[i]]
        BY DEF bits
      <4> QED
        BY <2>7, <2>8, <4>1
    <3> QED
      BY <2>7, <3>1
  <2>10. AddressesOf(bits) = AddressesOf(writes)
    BY <2>8 DEF AddressesOf
  <2>11. ASSUME NEW a \in AddressesOf(writes)
         PROVE  latest(bits, a) = Encoded(latest(writes, a))
    <3> DEFINE at == {i \in DOMAIN writes : writes[i].address = a}
               bitsAt == {i \in DOMAIN bits : bits[i].address = a}
    <3>1. Highest(at) \in at /\ latest(writes, a) = writes[Highest(at)].value
      BY <2>2, LatestIs
    <3>2. latest(bits, a) = bits[Highest(bitsAt)].value
      BY <2>9, <2>10, LatestIs
    <3>3. at = bitsAt
      BY <2>8
    <3>4. at \subseteq DOMAIN writes
      OBVIOUS
    <3> HIDE DEF at, bitsAt
    <3> QED
      BY <1>1, <2>8, <3>1, <3>2, <3>3, <3>4 DEF Encoded
  <2>12. AddressesOf(writes) \subseteq 0..MAX_REGISTER_ADDRESS
    BY <2>5 DEF AddressesOf
  <2>13. Accepted(writes, limit, minRun, GapOf(input.options))
    <3> HIDE DEF limit, minRun
    <3> QED
      BY <2>2, <2>5, <2>6, <2>12 DEF Accepted
  <2> QED
    BY <2>6, <2>9, <2>10, <2>11, <2>13
<1>2. CASE function = "planCoilWrites"
  <2>1. input \in CoilWriteCalls /\ output = planCoilWrites(writes, input.options)
    BY <1>2 DEF Computed, Presets
  <2>2. writes \in Seq(Writes)
    BY <2>1, WritesAreTyped DEF Writes
  <2>3. ~output.thrown
    BY DEF WritePlanned
  <2>4. /\ limit = OrElse(input.options.limit, MODBUS_MAX_WRITE_COILS)
        /\ GapOf(input.options) = OrElse(input.options.gap, 0)
    BY <1>2 DEF LimitOf, GapOf, MODBUS_MAX_WRITE_COILS
  <2> DEFINE gap == GapOf(input.options)
             accepted == /\ assertTransactionLimit(limit, MODBUS_MAX_WRITE_COILS)
                         /\ assertPositiveInteger(minRun) /\ assertMaxGap(gap)
                         /\ \A i \in DOMAIN writes : /\ assertAddress(writes[i].address)
                                                     /\ assertCoilValue(writes[i].value)
             plan == Planned(Steps(writes, limit, minRun, gap))
  <2>5. /\ limit \in 1..1968 /\ minRun \in Nat \ {0} /\ gap \in Nat
        /\ \A i \in DOMAIN writes : writes[i].address \in 0..MAX_REGISTER_ADDRESS
        /\ output = plan
    <3>1. output = IF accepted THEN plan ELSE RangeError
      BY <2>1, <2>4 DEF planCoilWrites
    <3> HIDE DEF plan, limit, minRun, gap
    <3>2. RangeError.thrown = TRUE
      BY DEF RangeError
    <3>3. accepted /\ output = plan
      BY <2>3, <3>1, <3>2
    <3> QED
      BY <3>3 DEF assertTransactionLimit, assertPositiveInteger, assertMaxGap, assertAddress,
                  MODBUS_MAX_WRITE_COILS
  <2>6. output.steps = Steps(writes, limit, minRun, GapOf(input.options))
    <3> HIDE DEF accepted, limit, minRun, gap, writes
    <3>1. output = Planned(Steps(writes, limit, minRun, gap))
      BY <2>5
    <3>2. output.steps = Steps(writes, limit, minRun, gap)
      BY <3>1 DEF Planned
    <3> QED
      BY <3>2 DEF gap
  <2>7. AddressesOf(writes) \subseteq 0..MAX_REGISTER_ADDRESS
    <3> HIDE DEF accepted, plan, limit, minRun, gap, writes
    <3>1. \A i \in DOMAIN writes : writes[i].address \in 0..MAX_REGISTER_ADDRESS
      BY <2>5
    <3> QED
      BY <3>1 DEF AddressesOf
  <2>8. \A a : latest(writes, a) = Encoded(latest(writes, a))
    BY <1>2 DEF Encoded
  <2>9. Accepted(writes, limit, minRun, gap)
    <3> HIDE DEF limit, minRun, gap
    <3> QED
      BY <2>2, <2>5, <2>7 DEF Accepted
  <2> QED
    BY <2>2, <2>6, <2>8, <2>9
<1> QED
  BY <1>1, <1>2 DEF WritePlanned

\* PlansWriteTheLatest: planWrites and planCoilWrites lose no write, mix up no two
\* and disturb no other address, for every batch, limit, shortest run and gap.
THEOREM PlansWriteTheLatestHolds == Spec => []PlansWriteTheLatest
<1>1. ASSUME Computed, WritePlanned PROVE PlansWriteTheLatest
  <2> DEFINE touched == UNION {output.steps[i].span : i \in DOMAIN output.steps}
             image == [a \in touched \cup AddressesOf(input.writes) |-> -a]
             writes == input.writes
             limit == LimitOf(input.options)
             minRun == OrElse(input.options.minRun, 2)
             gap == GapOf(input.options)
             wanted(a) == IF WrittenAt(a) = {} THEN image[a]
                          ELSE Encoded(writes[Highest(WrittenAt(a))].value)
  <2>1. PICK bits \in Seq(Writes) :
          /\ AddressesOf(bits) = AddressesOf(writes)
          /\ \A a \in AddressesOf(writes) : latest(bits, a) = Encoded(latest(writes, a))
          /\ output.steps = Steps(bits, limit, minRun, gap)
    BY <1>1, WritePlanIs
  <2>2. /\ limit \in Nat \ {0} /\ gap \in Nat
        /\ writes \in Seq(Writes) /\ AddressesOf(writes) \subseteq Nat
    <3>1. Accepted(writes, limit, minRun, gap)
      BY <1>1, WritePlanIs
    <3> HIDE DEF writes, limit, minRun, gap
    <3> QED
      BY <3>1, AddressesAreNatural DEF Accepted
  <2> HIDE DEF image, limit, minRun, gap
  <2>3. Issue(image, output.steps)
          = [a \in DOMAIN image |-> IF a \in AddressesOf(bits) THEN latest(bits, a) ELSE image[a]]
    BY <2>1, <2>2, StepsWriteTheLatest
  <2>4. ASSUME NEW a
        PROVE  (IF a \in AddressesOf(bits) THEN latest(bits, a) ELSE image[a]) = wanted(a)
    <3>1. CASE a \in AddressesOf(writes)
      <4>1. WrittenAt(a) # {} /\ latest(writes, a) = writes[Highest(WrittenAt(a))].value
        BY <2>2, <3>1, LatestIs DEF WrittenAt
      <4> QED
        BY <2>1, <3>1, <4>1
    <3>2. CASE a \notin AddressesOf(writes)
      <4>1. WrittenAt(a) = {}
        BY <3>2 DEF WrittenAt, AddressesOf
      <4> QED
        BY <2>1, <3>2, <4>1
    <3> QED
      BY <3>1, <3>2
  <2> HIDE DEF wanted
  <2>5. Issue(image, output.steps) = [a \in DOMAIN image |-> wanted(a)]
    BY <2>3, <2>4
  <2> QED
    BY <2>5 DEF PlansWriteTheLatest, image, wanted
<1>2. Computed => PlansWriteTheLatest
  BY <1>1 DEF PlansWriteTheLatest
<1> QED
  BY <1>2, ComputedHolds, PTL


-----------------------------------------------------------------------------
(* The fewest transactions.                                                *)

\* A group of S that one transaction may take first: no address of S lies below or
\* between its own, it fits, and no gap in it is too wide.
IsOpening(S, limit, gap, group) ==
    /\ group \subseteq S /\ group # {}
    /\ \A a \in group : \A b \in S \ group : a < b
    /\ \A a, b \in group : b - a < limit
    /\ \A a, d \in group : d < a => \E b \in group : b < a /\ a - b - 1 <= gap

LEMMA OpeningsAre ==
    ASSUME NEW S, S \subseteq Nat, IsFiniteSet(S), NEW limit \in Nat \ {0}, NEW gap \in Nat, NEW group
    PROVE  group \in Openings(S, limit, 1, gap) <=> IsOpening(S, limit, gap, group)
<1> DEFINE lo == Lowest(group)
           hi == Highest(group)
<1>1. ASSUME group \subseteq S, group # {}
      PROVE  /\ IsFiniteSet(group) /\ Cardinality(group) \in Nat /\ Cardinality(group) >= 1
             /\ lo \in group /\ hi \in group /\ lo \in Nat /\ hi \in Nat
             /\ \A a \in group : a \in Nat /\ lo <= a /\ a <= hi
  <2>1. IsFiniteSet(group) /\ group \subseteq Nat
    BY <1>1, FS_Subset
  <2>2. Cardinality(group) \in Nat /\ Cardinality(group) # 0
    BY <1>1, <2>1, FS_CardinalityType, FS_EmptySet
  <2>3. lo \in group /\ \A a \in group : lo <= a
    BY <1>1, <2>1, LowestIs
  <2>4. hi \in group /\ \A a \in group : a <= hi
    BY <1>1, <2>1, HighestIs
  <2> HIDE DEF lo, hi
  <2>5. lo \in Nat /\ hi \in Nat /\ \A a \in group : a \in Nat
    BY <2>1, <2>3, <2>4
  <2> QED
    BY <2>1, <2>2, <2>3, <2>4, <2>5
<1>2. ASSUME group \in Openings(S, limit, 1, gap) PROVE IsOpening(S, limit, gap, group)
  <2>1. PICK top \in S : group = {a \in S : a <= top}
    BY <1>2 DEF Openings
  <2>2. group \subseteq S /\ top \in group /\ \A a \in group : \A b \in S \ group : a < b
    BY <2>1
  <2>3. \/ Cardinality(group) = 1
        \/ /\ hi - lo + 1 <= limit
           /\ \A a \in group \ {lo} : \E b \in group : b < a /\ a - b - 1 <= gap
    BY <1>2 DEF Openings
  <2>4. CASE Cardinality(group) = 1
    <3>1. PICK x : group = {x}
      BY <1>1, <2>2, <2>4, FS_Singleton
    <3>2. x \in Nat
      BY <2>2, <3>1
    <3>3. \A a, b \in group : b - a < limit /\ ~(b < a)
      BY <3>1, <3>2
    <3> QED
      BY <2>2, <3>3 DEF IsOpening
  <2>5. CASE /\ hi - lo + 1 <= limit
             /\ \A a \in group \ {lo} : \E b \in group : b < a /\ a - b - 1 <= gap
    <3>1. /\ lo \in Nat /\ hi \in Nat
          /\ \A a \in group : a \in Nat /\ lo <= a /\ a <= hi
      BY <1>1, <2>2
    <3> HIDE DEF lo, hi
    <3>2. \A a, b \in group : b - a < limit
      BY <2>5, <3>1
    <3>3. ASSUME NEW a \in group, NEW d \in group, d < a PROVE a # lo
      BY <3>1, <3>3
    <3>4. \A a, d \in group : d < a => \E b \in group : b < a /\ a - b - 1 <= gap
      BY <2>5, <3>3
    <3> QED
      BY <2>2, <3>2, <3>4 DEF IsOpening
  <2> QED
    BY <2>3, <2>4, <2>5
<1>3. ASSUME IsOpening(S, limit, gap, group) PROVE group \in Openings(S, limit, 1, gap)
  <2>1. /\ group \subseteq S /\ group # {}
        /\ \A a \in group : \A b \in S \ group : a < b
        /\ \A a, b \in group : b - a < limit
        /\ \A a, d \in group : d < a => \E b \in group : b < a /\ a - b - 1 <= gap
    BY <1>3 DEF IsOpening
  <2>2. /\ Cardinality(group) >= 1 /\ lo \in group /\ hi \in group /\ lo \in Nat /\ hi \in Nat
        /\ \A a \in group : a \in Nat /\ lo <= a /\ a <= hi
    BY <1>1, <2>1
  <2> HIDE DEF lo, hi
  <2>3. group = {a \in S : a <= hi}
    <3>1. \A a \in S : a <= hi => a \in group
      BY <2>1, <2>2
    <3> QED
      BY <2>1, <2>2, <3>1
  <2>4. hi - lo + 1 <= limit
    BY <2>1, <2>2
  <2>5. \A a \in group \ {lo} : \E b \in group : b < a /\ a - b - 1 <= gap
    <3> TAKE a \in group \ {lo}
    <3>1. lo < a
      BY <2>2
    <3> QED
      BY <2>1, <2>2, <3>1
  <2>6. hi \in S
    BY <2>1, <2>2
  <2> QED
    BY <2>2, <2>3, <2>4, <2>5, <2>6 DEF Openings, lo, hi
<1> QED
  BY <1>2, <1>3

\* The group that the planner takes is an opening, and it holds every other one.
LEMMA FirstGroupIsWidest ==
    ASSUME NEW S, S \subseteq Nat, S # {}, NEW limit \in Nat \ {0}, NEW gap \in Nat
    PROVE  /\ IsOpening(S, limit, gap, FirstGroup(S, limit, gap))
           /\ \A group : IsOpening(S, limit, gap, group) => group \subseteq FirstGroup(S, limit, gap)
<1> DEFINE start == Lowest(S)
           first == FirstGroup(S, limit, gap)
<1>1. start \in S /\ start \in Nat /\ \A b \in S : start <= b /\ b \in Nat
  BY LowestIs
<1> HIDE DEF start
<1>2. first = {a \in S : /\ a - start + 1 <= limit
                         /\ \A b \in S : start < b /\ b <= a => \E c \in S : c < b /\ b - c - 1 <= gap}
  BY DEF FirstGroup, start
<1>3. /\ first \subseteq S /\ first # {}
      /\ \A a \in first : \A b \in S \ first : a < b
      /\ \A a, b \in first : b - a < limit
  BY FirstGroupIs
<1> HIDE DEF first
<1>4. ASSUME NEW a \in first, NEW d \in first, d < a
      PROVE  \E b \in first : b < a /\ a - b - 1 <= gap
  <2>1. a \in S /\ a \in Nat /\ d \in Nat /\ start < a
    BY <1>1, <1>3, <1>4
  <2>2. PICK c \in S : c < a /\ a - c - 1 <= gap
    BY <1>2, <2>1
  <2>3. c \in first
    <3>1. c \notin first => a < c
      BY <1>3
    <3>2. c \in Nat
      BY <1>1
    <3> QED
      BY <2>1, <2>2, <3>1, <3>2
  <2> QED
    BY <2>2, <2>3
<1>5. ASSUME NEW group, IsOpening(S, limit, gap, group), NEW a \in group
      PROVE  a \in first
  <2>1. /\ group \subseteq S
        /\ \A x \in group : \A y \in S \ group : x < y
        /\ \A x, y \in group : y - x < limit
        /\ \A x, d \in group : d < x => \E y \in group : y < x /\ x - y - 1 <= gap
    BY <1>5 DEF IsOpening
  <2>2. a \in S /\ a \in Nat
    BY <1>1, <2>1
  <2>3. ASSUME NEW b \in S, b <= a PROVE b \in group
    <3>1. b \notin group => a < b
      BY <2>1
    <3>2. b \in Nat
      BY <1>1
    <3> QED
      BY <2>2, <2>3, <3>1, <3>2
  <2>4. start \in group
    BY <1>1, <2>2, <2>3
  <2>5. a - start < limit
    BY <2>1, <2>4
  <2>6. ASSUME NEW b \in S, start < b, b <= a PROVE \E c \in S : c < b /\ b - c - 1 <= gap
    <3>1. b \in group
      BY <2>3, <2>6
    <3>2. PICK c \in group : c < b /\ b - c - 1 <= gap
      BY <2>1, <2>4, <2>6, <3>1
    <3> QED
      BY <2>1, <3>2
  <2>7. a - start + 1 <= limit
    BY <1>1, <2>2, <2>5
  <2> QED
    BY <1>2, <2>2, <2>6, <2>7
<1> QED
  BY <1>3, <1>4, <1>5 DEF IsOpening, first

\* T is what is left of S from some address on.
IsRest(T, S) == T \subseteq S /\ \A a \in S \ T : \A b \in T : a < b

\* What a group leaves of S it also leaves of a rest of S that it reaches into.
LEMMA OpeningOfRest ==
    ASSUME NEW S, S \subseteq Nat, NEW limit \in Nat \ {0}, NEW gap \in Nat,
           NEW group, IsOpening(S, limit, gap, group), NEW T, IsRest(T, S),
           NEW t \in T, t \in group
    PROVE  IsOpening(T, limit, gap, T \cap group) /\ S \ group \subseteq T
<1>1. /\ group \subseteq S /\ T \subseteq S
      /\ \A a \in group : \A b \in S \ group : a < b
      /\ \A a, b \in group : b - a < limit
      /\ \A a, d \in group : d < a => \E b \in group : b < a /\ a - b - 1 <= gap
      /\ \A a \in S \ T : \A b \in T : a < b
  BY DEF IsOpening, IsRest
<1>2. \A a \in S : a \in Nat
  OBVIOUS
<1>3. ASSUME NEW a \in T \cap group, NEW d \in T \cap group, d < a
      PROVE  \E b \in T \cap group : b < a /\ a - b - 1 <= gap
  <2>1. PICK b \in group : b < a /\ a - b - 1 <= gap
    BY <1>1, <1>3
  <2>2. CASE b \in T
    BY <2>1, <2>2
  <2>3. CASE b \notin T
    <3>1. b < d
      BY <1>1, <2>3
    <3>2. a \in Nat /\ b \in Nat /\ d \in Nat
      BY <1>1, <1>2
    <3>3. a - d - 1 <= gap
      BY <2>1, <3>1, <3>2
    <3> QED
      BY <1>3, <3>3
  <2> QED
    BY <2>2, <2>3
<1>4. \A a \in T \cap group : \A b \in T \ (T \cap group) : a < b
  BY <1>1
<1>5. \A a, b \in T \cap group : b - a < limit
  BY <1>1
<1>6. IsOpening(T, limit, gap, T \cap group)
  BY <1>3, <1>4, <1>5 DEF IsOpening
<1>7. ASSUME NEW x \in S \ group PROVE x \in T
  <2>1. t < x /\ (x \notin T => x < t)
    BY <1>1, <1>7
  <2>2. t \in Nat /\ x \in Nat
    BY <1>1, <1>2
  <2> QED
    BY <2>1, <2>2
<1> QED
  BY <1>6, <1>7

\* One step of Fewest, when f is the cost of what is left.
Cost(rest, limit, gap, f) ==
    IF rest = {} THEN 0
    ELSE 1 + Lowest({f[rest \ group] : group \in Openings(rest, limit, 1, gap)})

Costs(S, limit, gap, f) == f = [rest \in SUBSET S |-> Cost(rest, limit, gap, f)]

\* What is left is smaller.
LEMMA LeftIsSmaller ==
    ASSUME NEW S, S \subseteq Nat, IsFiniteSet(S), NEW limit \in Nat \ {0}, NEW gap \in Nat,
           NEW group \in Openings(S, limit, 1, gap)
    PROVE  /\ S \ group \subseteq S /\ IsFiniteSet(S \ group)
           /\ Cardinality(S \ group) \in Nat /\ Cardinality(S \ group) < Cardinality(S)
<1>1. group \subseteq S /\ group # {}
  BY OpeningsAre DEF IsOpening
<1>2. S \ group \in SUBSET S /\ S \ group # S
  BY <1>1
<1>3. /\ IsFiniteSet(S \ group) /\ Cardinality(S \ group) <= Cardinality(S)
      /\ Cardinality(S \ group) # Cardinality(S)
  BY <1>2, FS_Subset
<1>4. Cardinality(S \ group) \in Nat /\ Cardinality(S) \in Nat
  BY <1>3, FS_CardinalityType
<1> QED
  BY <1>2, <1>3, <1>4

\* There is a function that is one step on every set of addresses.
LEMMA CostsExist ==
    ASSUME NEW S, S \subseteq Nat, IsFiniteSet(S), NEW limit \in Nat \ {0}, NEW gap \in Nat
    PROVE  \E f : Costs(S, limit, gap, f)
<1> DEFINE Small(n) == {rest \in SUBSET S : Cardinality(rest) < n}
           T == {n \in Nat : \E f : f = [rest \in Small(n) |-> Cost(rest, limit, gap, f)]}
<1>1. ASSUME NEW n \in Nat, \A m \in Nat : m < n => m \in T PROVE n \in T
  <2>1. CASE n = 0
    <3>1. Small(n) = {}
      <4> SUFFICES ASSUME NEW rest \in SUBSET S, Cardinality(rest) < n PROVE FALSE
        OBVIOUS
      <4>1. Cardinality(rest) \in Nat
        BY FS_Subset, FS_CardinalityType
      <4> QED
        BY <2>1, <4>1
    <3>2. \A f : [rest \in Small(n) |-> Cost(rest, limit, gap, f)] = [rest \in {} |-> {}]
      BY <3>1
    <3> QED
      BY <3>2
  <2>2. CASE n # 0
    <3>1. n - 1 \in Nat /\ n - 1 < n
      BY <2>2
    <3>2. PICK f : f = [rest \in Small(n - 1) |-> Cost(rest, limit, gap, f)]
      BY <1>1, <3>1
    <3> DEFINE g == [rest \in Small(n) |-> Cost(rest, limit, gap, f)]
    <3>3. ASSUME NEW rest \in Small(n), NEW group \in Openings(rest, limit, 1, gap)
          PROVE  f[rest \ group] = g[rest \ group]
      <4>1. IsFiniteSet(rest) /\ rest \subseteq Nat
        BY FS_Subset
      <4> DEFINE left == rest \ group
      <4>2. /\ left \subseteq rest /\ Cardinality(left) \in Nat
            /\ Cardinality(left) < Cardinality(rest)
        BY <4>1, LeftIsSmaller
      <4>3. Cardinality(rest) \in Nat /\ Cardinality(rest) < n
        BY <4>1, FS_CardinalityType
      <4>4. Cardinality(left) < n - 1 /\ Cardinality(left) < n
        BY <4>2, <4>3
      <4>5. left \in Small(n - 1) /\ left \in Small(n)
        BY <4>2, <4>4
      <4> HIDE DEF left
      <4>6. f[left] = Cost(left, limit, gap, f)
        BY <3>2, <4>5
      <4>7. g[left] = Cost(left, limit, gap, f)
        BY <4>5
      <4> QED
        BY <4>6, <4>7 DEF left
    <3> HIDE DEF g
    <3>4. ASSUME NEW rest \in Small(n)
          PROVE  Cost(rest, limit, gap, f) = Cost(rest, limit, gap, g)
      <4>1. {f[rest \ group] : group \in Openings(rest, limit, 1, gap)}
              = {g[rest \ group] : group \in Openings(rest, limit, 1, gap)}
        BY <3>3
      <4> QED
        BY <4>1 DEF Cost
    <3>5. g = [rest \in Small(n) |-> Cost(rest, limit, gap, g)]
      <4> HIDE DEF Small
      <4>1. [rest \in Small(n) |-> Cost(rest, limit, gap, f)]
              = [rest \in Small(n) |-> Cost(rest, limit, gap, g)]
        BY <3>4
      <4> QED
        BY <4>1 DEF g
    <3> QED
      BY <3>5
  <2> QED
    BY <2>1, <2>2
<1>2. T = Nat
  <2> HIDE DEF T
  <2>1. T \subseteq Nat
    BY DEF T
  <2> QED
    BY <1>1, <2>1, StrongInduction
<1>3. Cardinality(S) + 1 \in T
  <2> HIDE DEF T
  <2> QED
    BY <1>2, FS_CardinalityType
<1>4. Small(Cardinality(S) + 1) = SUBSET S
  <2> SUFFICES ASSUME NEW rest \in SUBSET S PROVE Cardinality(rest) < Cardinality(S) + 1
    OBVIOUS
  <2>1. Cardinality(rest) <= Cardinality(S) /\ IsFiniteSet(rest)
    BY FS_Subset
  <2>2. Cardinality(rest) \in Nat /\ Cardinality(S) \in Nat
    BY <2>1, FS_CardinalityType
  <2> QED
    BY <2>1, <2>2
<1> QED
  BY <1>3, <1>4 DEF Costs

\* A cost is that of some opening, and at most that of every one.
LEMMA CostIsLeast ==
    ASSUME NEW S, S \subseteq Nat, IsFiniteSet(S), NEW limit \in Nat \ {0}, NEW gap \in Nat,
           NEW f, Costs(S, limit, gap, f), NEW rest \in SUBSET S
    PROVE  /\ f[rest] \in Nat
           /\ rest = {} => f[rest] = 0
           /\ rest # {} => /\ \E group : /\ IsOpening(rest, limit, gap, group)
                                         /\ f[rest] = 1 + f[rest \ group]
                           /\ \A group : IsOpening(rest, limit, gap, group) =>
                                            f[rest] <= 1 + f[rest \ group]
<1> DEFINE T == {n \in Nat : \A U \in SUBSET S : Cardinality(U) = n => f[U] \in Nat}
           opened(U) == {f[U \ group] : group \in Openings(U, limit, 1, gap)}
<1>1. ASSUME NEW U \in SUBSET S
      PROVE  /\ f[U] = IF U = {} THEN 0 ELSE 1 + Lowest(opened(U))
             /\ IsFiniteSet(U) /\ U \subseteq Nat /\ Cardinality(U) \in Nat
             /\ U # {} => opened(U) # {}
  <2>1. f[U] = Cost(U, limit, gap, f)
    BY DEF Costs
  <2>2. IsFiniteSet(U) /\ U \subseteq Nat
    BY FS_Subset
  <2>3. Cardinality(U) \in Nat
    BY <2>2, FS_CardinalityType
  <2>4. U # {} => FirstGroup(U, limit, gap) \in Openings(U, limit, 1, gap)
    BY <2>2, FirstGroupIsWidest, OpeningsAre
  <2> QED
    BY <2>1, <2>2, <2>3, <2>4 DEF Cost
<1> HIDE DEF opened
<1>2. ASSUME NEW n \in Nat, \A m \in Nat : m < n => m \in T PROVE n \in T
  <2> SUFFICES ASSUME NEW U \in SUBSET S, Cardinality(U) = n PROVE f[U] \in Nat
    OBVIOUS
  <2>1. CASE U = {}
    BY <1>1, <2>1
  <2>2. CASE U # {}
    <3>1. ASSUME NEW group \in Openings(U, limit, 1, gap) PROVE f[U \ group] \in Nat
      <4>1. /\ U \ group \in SUBSET S /\ Cardinality(U \ group) \in Nat /\ Cardinality(U \ group) < n
        BY <1>1, LeftIsSmaller
      <4> QED
        BY <1>2, <4>1
    <3>2. opened(U) \subseteq Nat /\ opened(U) # {}
      <4>1. opened(U) \subseteq Nat
        BY <3>1 DEF opened
      <4> QED
        BY <1>1, <2>2, <4>1
    <3>3. Lowest(opened(U)) \in Nat
      BY <3>2, LowestIs
    <3> QED
      BY <1>1, <2>2, <3>3
  <2> QED
    BY <2>1, <2>2
<1>3. T = Nat
  <2> HIDE DEF T
  <2>1. T \subseteq Nat
    BY DEF T
  <2> QED
    BY <1>2, <2>1, StrongInduction
<1>4. ASSUME NEW U \in SUBSET S PROVE f[U] \in Nat
  <2>1. Cardinality(U) \in T
    <3> HIDE DEF T
    <3> QED
      BY <1>1, <1>3
  <2> QED
    BY <2>1
<1> HIDE DEF T
<1>5. ASSUME rest # {}
      PROVE  /\ \E group : /\ IsOpening(rest, limit, gap, group)
                           /\ f[rest] = 1 + f[rest \ group]
             /\ \A group : IsOpening(rest, limit, gap, group) =>
                              f[rest] <= 1 + f[rest \ group]
  <2>1. \A group : group \in Openings(rest, limit, 1, gap) <=> IsOpening(rest, limit, gap, group)
    BY <1>1, OpeningsAre
  <2>2. opened(rest) \subseteq Nat /\ opened(rest) # {}
    <3>1. ASSUME NEW group \in Openings(rest, limit, 1, gap) PROVE f[rest \ group] \in Nat
      BY <1>4
    <3>2. opened(rest) \subseteq Nat
      BY <3>1 DEF opened
    <3>3. opened(rest) # {}
      BY <1>1, <1>5
    <3> QED
      BY <3>2, <3>3
  <2>3. Lowest(opened(rest)) \in opened(rest) /\ \A b \in opened(rest) : Lowest(opened(rest)) <= b
    BY <2>2, LowestIs
  <2>4. f[rest] = 1 + Lowest(opened(rest))
    BY <1>1, <1>5
  <2>5. PICK group \in Openings(rest, limit, 1, gap) : Lowest(opened(rest)) = f[rest \ group]
    BY <2>3 DEF opened
  <2>6. ASSUME NEW other, IsOpening(rest, limit, gap, other)
        PROVE  f[rest] <= 1 + f[rest \ other]
    <3>1. f[rest \ other] \in opened(rest)
      BY <2>1, <2>6 DEF opened
    <3>2. Lowest(opened(rest)) \in Nat /\ f[rest \ other] \in Nat /\ Lowest(opened(rest)) <= f[rest \ other]
      BY <2>2, <2>3, <3>1
    <3> QED
      BY <2>4, <3>2
  <2> QED
    BY <2>1, <2>4, <2>5, <2>6
<1>6. rest = {} => f[rest] = 0
  BY <1>1
<1> QED
  BY <1>4, <1>5, <1>6

\* A rest costs no more than the whole.
LEMMA RestCostsNoMore ==
    ASSUME NEW S, S \subseteq Nat, IsFiniteSet(S), NEW limit \in Nat \ {0}, NEW gap \in Nat,
           NEW f, Costs(S, limit, gap, f)
    PROVE  \A U \in SUBSET S : \A V : IsRest(V, U) => f[V] <= f[U]
<1> DEFINE T == {n \in Nat : \A U \in SUBSET S :
                    Cardinality(U) = n => \A V : IsRest(V, U) => f[V] <= f[U]}
<1>0. \A U \in SUBSET S : IsFiniteSet(U) /\ U \subseteq Nat /\ Cardinality(U) \in Nat
  BY FS_Subset, FS_CardinalityType
<1>1. ASSUME NEW U \in SUBSET S
      PROVE  /\ f[U] \in Nat
             /\ U = {} => f[U] = 0
             /\ U # {} => /\ \E group : /\ IsOpening(U, limit, gap, group)
                                       /\ f[U] = 1 + f[U \ group]
                         /\ \A group : IsOpening(U, limit, gap, group) =>
                                          f[U] <= 1 + f[U \ group]
  BY CostIsLeast
<1>2. ASSUME NEW n \in Nat, \A m \in Nat : m < n => m \in T PROVE n \in T
  <2> SUFFICES ASSUME NEW U \in SUBSET S, Cardinality(U) = n, NEW V, IsRest(V, U)
               PROVE  f[V] <= f[U]
    OBVIOUS
  <2>1. V \subseteq U /\ V \in SUBSET S /\ f[V] \in Nat /\ f[U] \in Nat
    BY <1>1 DEF IsRest
  <2>2. CASE V = {}
    BY <1>1, <2>1, <2>2
  <2>3. CASE V # {}
    <3>1. U # {}
      BY <2>1, <2>3
    <3>2. PICK group : IsOpening(U, limit, gap, group) /\ f[U] = 1 + f[U \ group]
      BY <1>1, <3>1
    <3> DEFINE left == U \ group
    <3>3. left \in SUBSET S /\ f[left] \in Nat
      BY <1>1
    <3>4. CASE V \cap group # {}
      <4>1. IsOpening(V, limit, gap, V \cap group) /\ V \ (V \cap group) = left
        <5>1. U \subseteq Nat /\ IsOpening(U, limit, gap, group) /\ IsRest(V, U)
          BY <1>0, <3>2
        <5>2. PICK t \in V : t \in group
          BY <3>4
        <5> HIDE DEF T
        <5>3. IsOpening(V, limit, gap, V \cap group)
          BY <5>1, <5>2, OpeningOfRest
        <5>4. U \ group \subseteq V
          BY <5>1, <5>2, OpeningOfRest
        <5> QED
          BY <2>1, <5>3, <5>4
      <4>2. f[V] <= 1 + f[V \ (V \cap group)]
        BY <1>1, <2>1, <2>3, <4>1
      <4> QED
        BY <3>2, <4>1, <4>2
    <3>5. CASE V \cap group = {}
      <4>1. Cardinality(left) \in Nat /\ Cardinality(left) < n
        BY <1>0, <3>2, LeftIsSmaller, OpeningsAre
      <4>2. IsRest(V, left)
        BY <3>5 DEF IsRest
      <4>3. Cardinality(left) \in T
        BY <1>2, <4>1
      <4>4. f[V] <= f[left]
        BY <3>3, <4>2, <4>3
      <4> HIDE DEF left
      <4> QED
        BY <2>1, <3>2, <3>3, <4>4 DEF left
    <3> QED
      BY <3>4, <3>5
  <2> QED
    BY <2>2, <2>3
<1>4. T = Nat
  <2> HIDE DEF T
  <2>1. T \subseteq Nat
    BY DEF T
  <2> QED
    BY <1>2, <2>1, StrongInduction
<1> QED
  BY <1>0, <1>4

\* A run of two fills a transaction.
TwoFill(minRun) == minRun \in {1, 2}

\* Every group is one transaction then.
LEMMA GroupIsOneSpan ==
    ASSUME NEW group, group \subseteq Nat, group # {}, IsFiniteSet(group), NEW minRun, TwoFill(minRun)
    PROVE  emitSpan(group, minRun) \in Seq(SUBSET Nat) /\ Len(emitSpan(group, minRun)) = 1
<1> DEFINE n == Cardinality(group)
<1>1. n \in Nat /\ n # 0
  BY FS_CardinalityType, FS_EmptySet
<1>2. PlanFor(group, Highest(group) + 1, Highest(group) + 1, emitSpan(group, minRun))
  <2>1. Highest(group) \in Nat /\ \A a \in group : a \in Nat /\ a <= Highest(group)
    BY HighestIs
  <2> DEFINE wide == Highest(group) + 1
  <2>2. wide \in Nat \ {0} /\ wide \in Nat /\ \A a, b \in group : b - a < wide
    BY <2>1
  <2>3. wide = 0 => \A a, b \in group : a..b \subseteq group
    BY <2>2
  <2> HIDE DEF wide
  <2>4. PlanFor(group, wide, wide, emitSpan(group, minRun))
    BY <2>2, <2>3, EmitSpanIs
  <2> QED
    BY <2>4 DEF wide
<1>3. CASE n >= minRun
  BY <1>2, <1>3 DEF PlanFor, emitSpan
<1>4. CASE ~(n >= minRun)
  <2>1. n = 1
    BY <1>1, <1>4 DEF TwoFill
  <2>2. emitSpan(group, minRun) = [i \in 1..1 |-> {Nth(group, i)}]
    BY <1>4, <2>1 DEF emitSpan
  <2> QED
    BY <1>2, <2>2 DEF PlanFor
<1> QED
  BY <1>3, <1>4

\* What is left after the widest group is cheapest.
Greedy(S, limit, gap, f) ==
    \A rest \in SUBSET S : rest # {} => f[rest] = 1 + f[rest \ FirstGroup(rest, limit, gap)]

LEMMA WidestIsCheapest ==
    ASSUME NEW S, S \subseteq Nat, IsFiniteSet(S), NEW limit \in Nat \ {0}, NEW gap \in Nat,
           NEW f, Costs(S, limit, gap, f)
    PROVE  Greedy(S, limit, gap, f)
<1> SUFFICES ASSUME NEW rest \in SUBSET S, rest # {}
             PROVE  f[rest] = 1 + f[rest \ FirstGroup(rest, limit, gap)]
  BY DEF Greedy
<1> DEFINE first == FirstGroup(rest, limit, gap)
           left == rest \ first
<1>1. rest \subseteq Nat
  OBVIOUS
<1>2. /\ IsOpening(rest, limit, gap, first)
      /\ \A group : IsOpening(rest, limit, gap, group) => group \subseteq first
  BY <1>1, FirstGroupIsWidest
<1>3. first \subseteq rest /\ \A a \in first : \A b \in left : a < b
  BY <1>2 DEF IsOpening
<1> HIDE DEF first
<1>4. ASSUME NEW U \in SUBSET S
      PROVE  /\ f[U] \in Nat
             /\ U = {} => f[U] = 0
             /\ U # {} => /\ \E group : /\ IsOpening(U, limit, gap, group)
                                       /\ f[U] = 1 + f[U \ group]
                         /\ \A group : IsOpening(U, limit, gap, group) =>
                                          f[U] <= 1 + f[U \ group]
  BY CostIsLeast
<1>5. PICK group : IsOpening(rest, limit, gap, group) /\ f[rest] = 1 + f[rest \ group]
  BY <1>4
<1> DEFINE other == rest \ group
<1>6. IsRest(left, other)
  BY <1>2, <1>3, <1>5 DEF IsRest
<1>7. other \in SUBSET S
  OBVIOUS
<1>8. f[left] <= f[other]
  <2> HIDE DEF left, other
  <2> QED
    BY <1>6, <1>7, RestCostsNoMore
<1>9. f[other] \in Nat /\ f[rest] \in Nat /\ f[left] \in Nat /\ f[rest] <= 1 + f[left]
  BY <1>2, <1>4, <1>7
<1>10. f[rest] = 1 + f[left]
  <2> HIDE DEF left
  <2> QED
    BY <1>5, <1>8, <1>9
<1> QED
  BY <1>10 DEF first

Plans(S, limit, minRun, gap, plan) ==
    plan = [rest \in SUBSET S |-> Round(rest, limit, minRun, gap, plan)]

\* Round by round a plan grows as the cost does.
LEMMA RoundsMatchCosts ==
    ASSUME NEW S, S \subseteq Nat, IsFiniteSet(S), NEW limit \in Nat \ {0}, NEW gap \in Nat,
           NEW minRun, TwoFill(minRun)
    PROVE  \A plan, cost : Plans(S, limit, minRun, gap, plan) /\ Costs(S, limit, gap, cost) =>
                              Len(plan[S]) = cost[S]
<1> SUFFICES ASSUME NEW plan, Plans(S, limit, minRun, gap, plan),
                    NEW cost, Costs(S, limit, gap, cost)
             PROVE  Len(plan[S]) = cost[S]
  OBVIOUS
<1> DEFINE Agree(rest) == plan[rest] \in Seq(SUBSET Nat) /\ Len(plan[rest]) = cost[rest]
           T == {n \in Nat : \A rest \in SUBSET S : Cardinality(rest) = n => Agree(rest)}
<1>1. \A rest \in SUBSET S : plan[rest] = Round(rest, limit, minRun, gap, plan)
  BY DEF Plans
<1>2. \A rest \in SUBSET S :
        /\ cost[rest] \in Nat
        /\ rest = {} => cost[rest] = 0
        /\ rest # {} => cost[rest] = 1 + cost[rest \ FirstGroup(rest, limit, gap)]
  <2>1. \A rest \in SUBSET S :
          rest # {} => cost[rest] = 1 + cost[rest \ FirstGroup(rest, limit, gap)]
    <3>1. Greedy(S, limit, gap, cost)
      BY WidestIsCheapest
    <3> QED
      BY <3>1 DEF Greedy
  <2>2. ASSUME NEW rest \in SUBSET S
        PROVE  /\ cost[rest] \in Nat
               /\ rest = {} => cost[rest] = 0
               /\ rest # {} => /\ \E group : /\ IsOpening(rest, limit, gap, group)
                                             /\ cost[rest] = 1 + cost[rest \ group]
                               /\ \A group : IsOpening(rest, limit, gap, group) =>
                                                cost[rest] <= 1 + cost[rest \ group]
    BY CostIsLeast
  <2> QED
    BY <2>1, <2>2
<1>3. ASSUME NEW n \in Nat, \A m \in Nat : m < n => m \in T PROVE n \in T
  <2> SUFFICES ASSUME NEW rest \in SUBSET S, Cardinality(rest) = n PROVE Agree(rest)
    OBVIOUS
  <2>0. IsFiniteSet(rest) /\ rest \subseteq Nat
    BY FS_Subset
  <2>1. CASE rest = {}
    <3>1. plan[rest] = <<>>
      BY <1>1, <2>1 DEF Round
    <3>2. cost[rest] = 0
      BY <1>2, <2>1
    <3> QED
      BY <3>1, <3>2
  <2>2. CASE rest # {}
    <3> DEFINE group == FirstGroup(rest, limit, gap)
               left == rest \ group
    <3>1. group \subseteq rest /\ group # {}
      BY <2>0, <2>2, FirstGroupIs
    <3>2. /\ left \in SUBSET S /\ Cardinality(left) \in Nat /\ Cardinality(left) < n
      BY <2>0, <2>2, RoundShrinks, FS_CardinalityType
    <3>3. plan[rest] = emitSpan(group, minRun) \o plan[left]
      BY <1>1, <2>2 DEF Round
    <3>4. cost[rest] = 1 + cost[left]
      BY <1>2, <2>2
    <3>5. group \subseteq Nat /\ IsFiniteSet(group)
      BY <2>0, <3>1, FS_Subset
    <3> HIDE DEF group
    <3> DEFINE span == emitSpan(group, minRun)
    <3>6. span \in Seq(SUBSET Nat) /\ Len(span) = 1
      BY <3>1, <3>5, GroupIsOneSpan
    <3> HIDE DEF left
    <3>7. plan[left] \in Seq(SUBSET Nat) /\ Len(plan[left]) = cost[left]
      BY <1>3, <3>2
    <3> HIDE DEF span
    <3> DEFINE tail == plan[left]
    <3>8. tail \in Seq(SUBSET Nat) /\ Len(tail) = cost[left]
      BY <3>7
    <3> HIDE DEF tail
    <3>9. span \o tail \in Seq(SUBSET Nat) /\ Len(span \o tail) = Len(span) + Len(tail)
      BY <3>6, <3>8, ConcatProperties
    <3>10. /\ span \o plan[left] \in Seq(SUBSET Nat)
          /\ Len(span \o plan[left]) = 1 + cost[left]
      BY <3>6, <3>8, <3>9 DEF tail
    <3> QED
      BY <3>3, <3>4, <3>10 DEF span
  <2> QED
    BY <2>1, <2>2
<1>4. T = Nat
  <2> HIDE DEF T
  <2>1. T \subseteq Nat
    BY DEF T
  <2> QED
    BY <1>3, <2>1, StrongInduction
<1>5. Cardinality(S) \in T
  <2> HIDE DEF T
  <2> QED
    BY <1>4, FS_CardinalityType
<1> QED
  BY <1>5

\* No plan within the limits has fewer transactions than the one that takes the
\* widest group each time.
LEMMA PlansAreFewest ==
    ASSUME NEW S, S \subseteq Nat, IsFiniteSet(S), NEW limit \in Nat \ {0}, NEW gap \in Nat,
           NEW minRun, TwoFill(minRun)
    PROVE  Len(planWrites(S, limit, minRun, gap)) = Fewest(S, limit, 1, gap)
<1> DEFINE plan == CHOOSE h : Plans(S, limit, minRun, gap, h)
           cost == CHOOSE f : Costs(S, limit, gap, f)
<1>1. planWrites(S, limit, minRun, gap) = plan[S]
  BY DEF planWrites, Round, Plans
<1>2. Plans(S, limit, minRun, gap, plan)
  <2> DEFINE Rounds(h) == h = [rest \in SUBSET S |-> Round(rest, limit, minRun, gap, h)]
  <2> DEFINE rounds == CHOOSE h : Rounds(h)
  <2>1. Rounds(rounds)
    BY RoundsExist
  <2> HIDE DEF rounds
  <2>2. Plans(S, limit, minRun, gap, rounds)
    BY <2>1 DEF Plans
  <2> QED
    BY <2>2
<1>3. Fewest(S, limit, 1, gap) = cost[S]
  BY DEF Fewest, Costs, Cost
<1>4. Costs(S, limit, gap, cost)
  BY CostsExist
<1> HIDE DEF plan, cost
<1>5. Len(plan[S]) = cost[S]
  BY <1>2, <1>4, RoundsMatchCosts
<1> QED
  BY <1>1, <1>3, <1>5

LEMMA RangeIsFinite ==
    ASSUME NEW T, NEW s \in Seq(T)
    PROVE  IsFiniteSet(Range(s))
<1>1. IsFiniteSet(DOMAIN s)
  BY LenProperties, FS_Interval
<1>2. s \in Surjection(DOMAIN s, Range(s))
  <2>1. s = [i \in DOMAIN s |-> s[i]]
    OBVIOUS
  <2> QED
    BY <2>1 DEF Surjection, Range
<1> QED
  BY <1>1, <1>2, FS_Surjection

\* What PlansAreShortest says of a plan.
LEMMA SpansAreShortest ==
    ASSUME NEW S, S \subseteq 0..MAX_REGISTER_ADDRESS, IsFiniteSet(S),
           NEW limit \in Nat \ {0}, NEW gap \in Nat, NEW minRun, TwoFill(minRun),
           NEW spans, spans = planWrites(S, limit, minRun, gap)
    PROVE  /\ \A i \in DOMAIN spans :
                 /\ spans[i] # {} /\ Cardinality(spans[i]) <= limit
                 /\ spans[i] \subseteq 0..MAX_REGISTER_ADDRESS
                 /\ i > 1 => Highest(spans[i - 1]) < Lowest(spans[i])
           /\ S \subseteq UNION Range(spans)
           /\ Len(spans) = Fewest(S, limit, 1, gap)
<1>0. S \subseteq Nat
  BY AddressesAreNatural
<1>1. PlanFor(S, limit, gap, spans)
  BY <1>0, PlansAreSound
<1>2. Len(spans) = Fewest(S, limit, 1, gap)
  BY <1>0, PlansAreFewest
<1>3. /\ spans \in Seq(SUBSET Nat) /\ DOMAIN spans = 1..Len(spans) /\ Len(spans) \in Nat
      /\ \A a \in S : \E k \in 1..Len(spans) : a \in spans[k]
      /\ \A j, k \in 1..Len(spans) : j < k => \A x \in spans[j], y \in spans[k] : x < y
  BY <1>1, LenProperties DEF PlanFor, Apart
<1>4. ASSUME NEW i \in 1..Len(spans)
      PROVE  /\ spans[i] # {} /\ Cardinality(spans[i]) <= limit
             /\ spans[i] \subseteq 0..MAX_REGISTER_ADDRESS
             /\ Lowest(spans[i]) \in spans[i] /\ Highest(spans[i]) \in spans[i]
  <2>1. PICK lo, hi \in S : lo <= hi /\ hi - lo < limit /\ spans[i] = lo..hi
    BY <1>1 DEF PlanFor, SpanOf
  <2>2. lo \in Nat /\ hi \in Nat /\ lo \in 0..MAX_REGISTER_ADDRESS /\ hi \in 0..MAX_REGISTER_ADDRESS
    BY <1>0
  <2>3. /\ Lowest(lo..hi) = lo /\ Highest(lo..hi) = hi
        /\ Cardinality(lo..hi) = hi - lo + 1
    BY <2>1, <2>2, IntervalEnds
  <2>4. lo \in lo..hi /\ hi \in lo..hi
    BY <2>1, <2>2
  <2>5. lo..hi \subseteq 0..MAX_REGISTER_ADDRESS
    BY <2>2, AddressesAreNatural
  <2>6. hi - lo + 1 <= limit
    BY <2>1, <2>2
  <2> QED
    BY <2>1, <2>3, <2>4, <2>5, <2>6
<1>5. ASSUME NEW i \in 1..Len(spans), i > 1 PROVE Highest(spans[i - 1]) < Lowest(spans[i])
  <2>1. i - 1 \in 1..Len(spans) /\ i - 1 < i
    BY <1>3, <1>5
  <2>2. Highest(spans[i - 1]) \in spans[i - 1] /\ Lowest(spans[i]) \in spans[i]
    BY <1>4, <2>1
  <2> QED
    BY <1>3, <2>1, <2>2
<1>6. S \subseteq UNION Range(spans)
  BY <1>3 DEF Range
<1> QED
  BY <1>2, <1>3, <1>4, <1>5, <1>6

\* PlansAreShortest: the greedy planners are optimal.  Whatever is written or read,
\* their transactions stay within the limit and the addresses of the device, are
\* sorted and apart, cover what was asked, and no plan of this kind has fewer.
THEOREM PlansAreShortestHolds == Spec => []PlansAreShortest
<1> DEFINE limit == LimitOf(input.options)
           gap == GapOf(input.options)
<1>1. ASSUME Computed, WritePlanned, input.options.minRun \in {Absent, 1, 2}
      PROVE  PlansAreShortest
  <2> DEFINE writes == input.writes
             minRun == OrElse(input.options.minRun, 2)
  <2>1. Accepted(writes, limit, minRun, gap)
    BY <1>1, WritePlanIs
  <2>2. PICK bits \in Seq(Writes) :
          /\ AddressesOf(bits) = AddressesOf(writes)
          /\ output.steps = Steps(bits, limit, minRun, gap)
    BY <1>1, WritePlanIs
  <2>3. TwoFill(minRun)
    BY <1>1 DEF OrElse, TwoFill
  <2>4. Asked = AddressesOf(writes)
    BY <1>1 DEF Asked
  <2> DEFINE plan == planWrites(AddressesOf(writes), limit, minRun, gap)
  <2>5. Spans = plan
    <3>1. Steps(bits, limit, minRun, gap) = [i \in DOMAIN plan |-> Step(bits, plan[i], minRun)]
      BY <2>2 DEF Steps
    <3>2. AddressesOf(writes) \subseteq Nat /\ IsFiniteSet(AddressesOf(writes))
      BY <2>1, WritesOfPlan, AddressesAreNatural DEF Accepted
    <3>3. PlanFor(AddressesOf(writes), limit, gap, plan)
      BY <2>1, <3>2, PlansAreSound DEF Accepted
    <3>4. plan = [i \in DOMAIN plan |-> plan[i]]
      <4>1. plan \in Seq(SUBSET Nat)
        BY <3>3 DEF PlanFor
      <4> HIDE DEF plan
      <4> QED
        BY <4>1
    <3> HIDE DEF plan, limit, minRun, gap
    <3>5. Spans = [i \in DOMAIN plan |-> Step(bits, plan[i], minRun).span]
      BY <1>1, <2>2, <3>1 DEF Spans
    <3>6. \A i : Step(bits, plan[i], minRun).span = plan[i]
      BY DEF Step
    <3> QED
      BY <3>4, <3>5, <3>6
  <2>6. /\ AddressesOf(writes) \subseteq 0..MAX_REGISTER_ADDRESS /\ IsFiniteSet(AddressesOf(writes))
        /\ limit \in Nat \ {0} /\ gap \in Nat
    BY <2>1, WritesOfPlan DEF Accepted
  <2> HIDE DEF limit, gap, minRun, writes
  <2>7. /\ \A i \in DOMAIN Spans :
              /\ Spans[i] # {} /\ Cardinality(Spans[i]) <= limit
              /\ Spans[i] \subseteq 0..MAX_REGISTER_ADDRESS
              /\ i > 1 => Highest(Spans[i - 1]) < Lowest(Spans[i])
        /\ Asked \subseteq UNION Range(Spans)
        /\ Len(Spans) = Fewest(Asked, limit, 1, gap)
    BY <2>3, <2>4, <2>5, <2>6, SpansAreShortest
  <2> QED
    BY <2>7 DEF PlansAreShortest, limit, gap
<1>2. ASSUME Computed, ReadPlanned PROVE PlansAreShortest
  <2> DEFINE maximum == IF function = "planReads" THEN 125 ELSE 2000
             S == Range(input.group)
             accepted == /\ assertTransactionLimit(limit, maximum) /\ assertMaxGap(gap)
                         /\ \A i \in DOMAIN input.group : assertAddress(input.group[i])
             plan == buildReadPlan(S, limit, gap)
  <2>1. /\ input \in ReadCalls \cup CoilReadCalls
        /\ output = planSpans(input.group, input.options, maximum)
    BY <1>2 DEF Computed, ReadPlanned, planReads, planCoilReads, Presets,
                MODBUS_MAX_READ_REGISTERS, MODBUS_MAX_READ_COILS
  <2>2. input.group \in Seq(Int)
    BY <2>1, ReadsAreTyped
  <2>3. limit = OrElse(input.options.limit, maximum) /\ gap = OrElse(input.options.gap, 0)
    BY <1>2 DEF ReadPlanned, LimitOf, GapOf
  <2>4. /\ limit \in 1..maximum /\ gap \in Nat
        /\ \A i \in DOMAIN input.group : input.group[i] \in 0..MAX_REGISTER_ADDRESS
        /\ output = Planned(plan)
    <3>1. output = IF accepted THEN Planned(plan) ELSE RangeError
      BY <2>1, <2>3 DEF planSpans
    <3> HIDE DEF plan, limit, gap, maximum
    <3>2. RangeError.thrown = TRUE /\ ~output.thrown
      BY <1>2 DEF RangeError, ReadPlanned
    <3>3. accepted /\ output = Planned(plan)
      BY <3>1, <3>2
    <3> QED
      BY <3>3 DEF assertTransactionLimit, assertMaxGap, assertAddress
  <2>5. limit \in Nat \ {0} /\ gap \in Nat
    <3> HIDE DEF limit, gap
    <3> QED
      BY <2>4
  <2>6. IsFiniteSet(S) /\ S \subseteq 0..MAX_REGISTER_ADDRESS
    <3>1. IsFiniteSet(S)
      BY <2>2, RangeIsFinite
    <3> QED
      BY <2>4, <3>1 DEF Range
  <2>7. ~WritePlanned
    BY <1>2 DEF WritePlanned, ReadPlanned
  <2>8. Asked = S /\ Spans = plan
    BY <2>4, <2>7 DEF Asked, Spans, Planned
  <2> DEFINE minRun == 1
  <2>9. plan = planWrites(S, limit, minRun, gap) /\ TwoFill(minRun)
    BY DEF buildReadPlan, TwoFill
  <2> HIDE DEF limit, gap, S, plan, minRun
  <2>10. /\ \A i \in DOMAIN Spans :
               /\ Spans[i] # {} /\ Cardinality(Spans[i]) <= limit
               /\ Spans[i] \subseteq 0..MAX_REGISTER_ADDRESS
               /\ i > 1 => Highest(Spans[i - 1]) < Lowest(Spans[i])
         /\ Asked \subseteq UNION Range(Spans)
         /\ Len(Spans) = Fewest(Asked, limit, 1, gap)
    BY <2>5, <2>6, <2>8, <2>9, SpansAreShortest
  <2> QED
    BY <2>10 DEF PlansAreShortest, limit, gap
<1>3. Computed => PlansAreShortest
  BY <1>1, <1>2 DEF PlansAreShortest
<1> QED
  BY <1>3, ComputedHolds, PTL

-----------------------------------------------------------------------------
(* The presets.                                                            *)

\* Options that the presets start from.
Start(name) ==
    CASE name = "none" -> [NoOptions EXCEPT !.maxRetries = 0]
      [] name = "serial" ->
           [NoOptions EXCEPT
              !.maxRetries = 3, !.curve = Curve(50, 2, 1000),
              !.errors = [tag \in {"ModbusTimeoutError"} |->
                  WithCurve(Curve(100, Undefined, Undefined))]]
      [] name = "tcp" ->
           [NoOptions EXCEPT
              !.maxRetries = 4, !.curve = Curve(100, 2, 5000),
              !.errors = [tag \in {"ModbusConnectionClosedError"} |->
                  WithCurve(Curve(250, Undefined, 10000))]]
      [] name = "persistent" ->
           [NoOptions EXCEPT
              !.maxRetries = 10, !.curve = Curve(250, 2, 30000), !.maxElapsed = Minutes(5)]

LEMMA PresetIs ==
    ASSUME NEW name \in Presets, NEW options
    PROVE  PresetOf(name, options) = createRetryPolicy(mergeOptions(Start(name), options))
<1>1. name \in {"none", "serial", "tcp", "persistent"}
  BY DEF Presets
<1>2. CASE name = "none"
  BY <1>2 DEF PresetOf, Start, none
<1>3. CASE name = "serial"
  BY <1>3 DEF PresetOf, Start, serial
<1>4. CASE name = "tcp"
  BY <1>4 DEF PresetOf, Start, tcp
<1>5. CASE name = "persistent"
  BY <1>5 DEF PresetOf, Start, persistent
<1> QED
  BY <1>1, <1>2, <1>3, <1>4, <1>5

LEMMA NoOptionsAre ==
    /\ IsPolicyOptions(NoOptions) /\ DOMAIN NoOptions.errors = {}
    /\ NoOptions.maxRetries = Undefined /\ NoOptions.maxElapsed = Undefined
    /\ NoOptions.curve = NoOverrides /\ NoOptions.retryableExceptions = Undefined
BY DEF NoOptions, NoErrors, NoOverrides, Curve, IsPolicyOptions, RetryDelayOptions

\* Options with a curve of their own for some of the errors that are retried anyway.
LEMMA OptionsAre ==
    ASSUME NEW options, NEW maxRetries \in Nat, NEW maxElapsed \in Nat \cup {Undefined},
           NEW curve \in RetryDelayOptions, NEW own \in RetryDelayOptions,
           NEW tags \in SUBSET defaultRetryableTags,
           options = [maxRetries |-> maxRetries, maxElapsed |-> maxElapsed, curve |-> curve,
                      errors |-> [tag \in tags |-> WithCurve(own)],
                      retryableExceptions |-> Undefined]
    PROVE  /\ IsPolicyOptions(options)
           /\ options.maxRetries \in Nat /\ options.retryableExceptions = Undefined
           /\ \A tag \in DOMAIN options.errors : options.errors[tag].retry
           /\ DOMAIN options.errors \subseteq defaultRetryableTags
<1>1. WithCurve(own) \in [retry : BOOLEAN, curve : RetryDelayOptions] /\ WithCurve(own).retry
  BY DEF WithCurve
<1>2. defaultRetryableTags \subseteq ModbusErrorTag
  BY DEF defaultRetryableTags, ModbusErrorTag
<1>3. /\ options.maxRetries = maxRetries /\ options.maxElapsed = maxElapsed
      /\ options.curve = curve /\ options.errors = [tag \in tags |-> WithCurve(own)]
      /\ options.retryableExceptions = Undefined
  OBVIOUS
<1> QED
  BY <1>1, <1>2, <1>3 DEF IsPolicyOptions

\* The presets give the number of retries and a curve, and errors or a time of their own.
LEMMA GivenOptionsAre ==
    ASSUME NEW maxRetries, NEW curve, NEW given
    PROVE  /\ [NoOptions EXCEPT !.maxRetries = maxRetries, !.curve = curve, !.errors = given]
                 = [maxRetries |-> maxRetries, maxElapsed |-> Undefined, curve |-> curve,
                    errors |-> given, retryableExceptions |-> Undefined]
           /\ [NoOptions EXCEPT !.maxRetries = maxRetries, !.curve = curve,
                                !.maxElapsed = given]
                 = [maxRetries |-> maxRetries, maxElapsed |-> given, curve |-> curve,
                    errors |-> NoErrors, retryableExceptions |-> Undefined]
<1> DEFINE first == [NoOptions EXCEPT !.maxRetries = maxRetries]
           second == [first EXCEPT !.curve = curve]
<1>1. first = [maxRetries |-> maxRetries, maxElapsed |-> Undefined,
               curve |-> NoOverrides, errors |-> NoErrors, retryableExceptions |-> Undefined]
  BY DEF NoOptions
<1>2. /\ [NoOptions EXCEPT !.maxRetries = maxRetries, !.curve = curve, !.errors = given]
            = [second EXCEPT !.errors = given]
      /\ [NoOptions EXCEPT !.maxRetries = maxRetries, !.curve = curve, !.maxElapsed = given]
            = [second EXCEPT !.maxElapsed = given]
  OBVIOUS
<1> HIDE DEF first
<1>3. second = [maxRetries |-> maxRetries, maxElapsed |-> Undefined,
                curve |-> curve, errors |-> NoErrors, retryableExceptions |-> Undefined]
  BY <1>1
<1> HIDE DEF second
<1>4. /\ [second EXCEPT !.errors = given]
            = [maxRetries |-> maxRetries, maxElapsed |-> Undefined, curve |-> curve,
               errors |-> given, retryableExceptions |-> Undefined]
      /\ [second EXCEPT !.maxElapsed = given]
            = [maxRetries |-> maxRetries, maxElapsed |-> given, curve |-> curve,
               errors |-> NoErrors, retryableExceptions |-> Undefined]
  BY <1>3
<1> QED
  BY <1>2, <1>4

LEMMA StartIs ==
    ASSUME NEW name \in Presets
    PROVE  /\ IsPolicyOptions(Start(name))
           /\ Start(name).maxRetries \in Nat /\ Start(name).retryableExceptions = Undefined
           /\ \A tag \in DOMAIN Start(name).errors : Start(name).errors[tag].retry
           /\ DOMAIN Start(name).errors \subseteq defaultRetryableTags
<1> DEFINE maxRetries == CASE name = "none" -> 0 [] name = "serial" -> 3
                           [] name = "tcp" -> 4 [] name = "persistent" -> 10
           maxElapsed == IF name = "persistent" THEN Minutes(5) ELSE Undefined
           curve == CASE name = "none" -> NoOverrides [] name = "serial" -> Curve(50, 2, 1000)
                      [] name = "tcp" -> Curve(100, 2, 5000)
                      [] name = "persistent" -> Curve(250, 2, 30000)
           tags == CASE name = "serial" -> {"ModbusTimeoutError"}
                     [] name = "tcp" -> {"ModbusConnectionClosedError"}
                     [] name \in {"none", "persistent"} -> {}
           own == IF name = "serial" THEN Curve(100, Undefined, Undefined)
                  ELSE Curve(250, Undefined, 10000)
<1>1. name \in {"none", "serial", "tcp", "persistent"}
  BY DEF Presets
<1>2. maxRetries \in Nat /\ maxElapsed \in Nat \cup {Undefined}
  BY <1>1 DEF Minutes
<1>3. curve \in RetryDelayOptions
  BY <1>1 DEF RetryDelayOptions, NoOverrides, Curve
<1>4. own \in RetryDelayOptions
  BY DEF RetryDelayOptions, Curve
<1>5. tags \in SUBSET defaultRetryableTags
  BY <1>1 DEF defaultRetryableTags
<1>6. Start(name) = [maxRetries |-> maxRetries, maxElapsed |-> maxElapsed, curve |-> curve,
                     errors |-> [tag \in tags |-> WithCurve(own)],
                     retryableExceptions |-> Undefined]
  <2>1. NoErrors = [tag \in {} |-> WithCurve(own)]
    BY DEF NoErrors
  <2>2. CASE name = "none"
    BY <2>1, <2>2 DEF Start, NoOptions
  <2>3. CASE name = "serial"
    <3> DEFINE retries == 3
               steps == Curve(50, 2, 1000)
               given == [tag \in {"ModbusTimeoutError"} |-> WithCurve(Curve(100, Undefined, Undefined))]
    <3>1. Start(name) = [NoOptions EXCEPT !.maxRetries = retries, !.curve = steps,
                                          !.errors = given]
      BY <2>3 DEF Start
    <3>2. /\ maxRetries = retries /\ curve = steps
          /\ maxElapsed = Undefined /\ [tag \in tags |-> WithCurve(own)] = given
      BY <2>3
    <3> HIDE DEF retries, steps, given, maxRetries, maxElapsed, curve, tags, own
    <3>3. Start(name) = [maxRetries |-> retries, maxElapsed |-> Undefined, curve |-> steps,
                         errors |-> given, retryableExceptions |-> Undefined]
      BY <3>1, GivenOptionsAre
    <3> QED
      BY <3>2, <3>3
  <2>4. CASE name = "tcp"
    <3> DEFINE retries == 4
               steps == Curve(100, 2, 5000)
               given == [tag \in {"ModbusConnectionClosedError"} |->
                             WithCurve(Curve(250, Undefined, 10000))]
    <3>1. Start(name) = [NoOptions EXCEPT !.maxRetries = retries, !.curve = steps,
                                          !.errors = given]
      BY <2>4 DEF Start
    <3>2. /\ maxRetries = retries /\ curve = steps
          /\ maxElapsed = Undefined /\ [tag \in tags |-> WithCurve(own)] = given
      BY <2>4
    <3> HIDE DEF retries, steps, given, maxRetries, maxElapsed, curve, tags, own
    <3>3. Start(name) = [maxRetries |-> retries, maxElapsed |-> Undefined, curve |-> steps,
                         errors |-> given, retryableExceptions |-> Undefined]
      BY <3>1, GivenOptionsAre
    <3> QED
      BY <3>2, <3>3
  <2>5. CASE name = "persistent"
    <3> DEFINE retries == 10
               steps == Curve(250, 2, 30000)
               given == Minutes(5)
    <3>1. Start(name) = [NoOptions EXCEPT !.maxRetries = retries, !.curve = steps,
                                          !.maxElapsed = given]
      BY <2>5 DEF Start
    <3>2. /\ maxRetries = retries /\ curve = steps
          /\ maxElapsed = given /\ [tag \in tags |-> WithCurve(own)] = NoErrors
      BY <2>1, <2>5
    <3> HIDE DEF retries, steps, given, maxRetries, maxElapsed, curve, tags, own
    <3> QED
      BY <3>1, <3>2, GivenOptionsAre
  <2> QED
    BY <1>1, <2>2, <2>3, <2>4, <2>5
<1> HIDE DEF maxRetries, maxElapsed, curve, tags, own
<1> QED
  BY <1>2, <1>3, <1>4, <1>5, <1>6, OptionsAre

\* What a preset retries when its caller overrides nothing.
LEMMA PresetsRetry ==
    ASSUME NEW name \in Presets
    PROVE  /\ PresetOf(name, NoOptions).retryable = defaultRetryableTags
           /\ PresetOf(name, NoOptions).exceptions = retryableExceptionCodes
<1> DEFINE base == Start(name)
           merged == mergeOptions(base, NoOptions)
<1>1. PresetOf(name, NoOptions) = createRetryPolicy(merged)
  BY PresetIs
<1>2. DOMAIN merged.errors = DOMAIN base.errors /\ \A tag \in DOMAIN base.errors : merged.errors[tag] = base.errors[tag]
  BY NoOptionsAre DEF mergeOptions
<1>3. merged.retryableExceptions = Undefined
  BY NoOptionsAre, StartIs DEF mergeOptions, OrDefault
<1> HIDE DEF merged
<1>4. defaultRetryableTags \subseteq ModbusErrorTag
  BY DEF defaultRetryableTags, ModbusErrorTag
<1>5. resolveRetryableTags(merged) = defaultRetryableTags
  BY <1>2, <1>4, StartIs DEF resolveRetryableTags
<1> QED
  BY <1>1, <1>3, <1>5 DEF createRetryPolicy, OrDefault

\* OnlyTransientErrorsAreRetried: whatever error the native binding reports, with
\* whatever codes in its message.
THEOREM OnlyTransientErrorsAreRetriedHolds == Spec => []OnlyTransientErrorsAreRetried
<1>1. ASSUME Computed, function = "toModbusError",
             NEW policy \in {none(NoOptions), serial(NoOptions), tcp(NoOptions), persistent(NoOptions)}
      PROVE  isRetryable(policy, output) <=>
                \/ input.code \in {"TIMEOUT", "TRANSPORT", "CONNECTION_CLOSED"}
                \/ /\ input.code = "EXCEPTION" /\ input.markers # <<>>
                   /\ input.markers[1] \in {5, 6, 10, 11}
  <2>1. PICK name \in Presets : policy = PresetOf(name, NoOptions)
    BY DEF Presets, PresetOf
  <2>2. policy.retryable = defaultRetryableTags /\ policy.exceptions = retryableExceptionCodes
    BY <2>1, PresetsRetry
  <2>3. input \in NativeErrors /\ output = toModbusError(input)
    BY <1>1 DEF Computed, Presets
  <2>4. input.code \in ModbusErrorCode /\ input.markers \in Seq(Nat)
    BY <2>3, ErrorsAreTyped
  <2>5. input.code # "EXCEPTION" => output = Error(Variant[input.code], 0)
    BY <2>3 DEF toModbusError
  <2>6. input.code = "EXCEPTION" =>
          output = Error("ModbusExceptionError", parseExceptionCode(input.markers))
    BY <2>3, <2>4 DEF toModbusError, Variant
  <2>7. CASE input.code = "EXCEPTION"
    <3>1. isRetryable(policy, output) <=> parseExceptionCode(input.markers) \in {5, 6, 10, 11}
      BY <2>2, <2>6, <2>7 DEF isRetryable, Error, defaultRetryableTags, retryableExceptionCodes
    <3>2. parseExceptionCode(input.markers)
            = IF input.markers = <<>> THEN 0 ELSE input.markers[1]
      BY <2>4 DEF parseExceptionCode
    <3> QED
      BY <2>7, <3>1, <3>2
  <2>8. CASE input.code # "EXCEPTION"
    <3>1. isRetryable(policy, output) <=> Variant[input.code] \in defaultRetryableTags
      <4>1. Variant[input.code] # "ModbusExceptionError"
        BY <2>4, <2>8 DEF Variant, ModbusErrorCode
      <4> QED
        BY <2>2, <2>5, <2>8, <4>1 DEF isRetryable, Error
    <3>2. Variant[input.code] \in defaultRetryableTags <=>
            input.code \in {"TIMEOUT", "TRANSPORT", "CONNECTION_CLOSED"}
      BY <2>4, <2>8 DEF Variant, ModbusErrorCode, defaultRetryableTags
    <3> QED
      BY <2>8, <3>1, <3>2
  <2> QED
    BY <2>7, <2>8
<1>2. Computed => OnlyTransientErrorsAreRetried
  BY <1>1 DEF OnlyTransientErrorsAreRetried
<1> QED
  BY <1>2, ComputedHolds, PTL

\* PresetsKeepTheirTuning: whatever the caller overrides.
THEOREM PresetsKeepTheirTuningHolds == Spec => []PresetsKeepTheirTuning
<1>1. ASSUME Computed, function \in Presets PROVE PresetsKeepTheirTuning
  <2> DEFINE base == Start(function)
             plain == mergeOptions(base, NoOptions)
             given == mergeOptions(base, input)
             preset == createRetryPolicy(plain)
             tuned == createRetryPolicy(given)
  <2>1. output = <<preset, tuned>>
    BY <1>1, PresetIs DEF Computed, Presets
  <2>2. ASSUME NEW tag \in ModbusErrorTag \ DOMAIN input.errors
        PROVE  /\ tag \in DOMAIN given.errors <=> tag \in DOMAIN plain.errors
               /\ tag \in DOMAIN plain.errors => given.errors[tag] = plain.errors[tag]
    BY NoOptionsAre DEF mergeOptions
  <2>3. input.curve = NoOverrides => given.curve = plain.curve
    BY NoOptionsAre DEF mergeOptions
  <2>4. /\ input.maxRetries = Undefined => given.maxRetries = plain.maxRetries
        /\ input.maxElapsed = Undefined => given.maxElapsed = plain.maxElapsed
    BY NoOptionsAre DEF mergeOptions
  <2> HIDE DEF plain, given
  <2>5. ASSUME NEW tag \in ModbusErrorTag \ DOMAIN input.errors
        PROVE  /\ tag \in tuned.retryable <=> tag \in preset.retryable
               /\ input.curve = NoOverrides => tuned.delays[tag] = preset.delays[tag]
    <3>1. tag \in tuned.retryable <=> tag \in preset.retryable
      BY <2>2 DEF createRetryPolicy, resolveRetryableTags
    <3>2. ASSUME input.curve = NoOverrides PROVE tuned.delays[tag] = preset.delays[tag]
      BY <2>2, <2>3, <3>2 DEF createRetryPolicy, resolveDelays
    <3> QED
      BY <3>1, <3>2
  <2>6. /\ input.maxRetries = Undefined => tuned.maxRetries = preset.maxRetries
        /\ input.maxElapsed = Undefined => tuned.maxElapsed = preset.maxElapsed
    BY <2>4 DEF createRetryPolicy
  <2> HIDE DEF preset, tuned
  <2> QED
    BY <2>1, <2>5, <2>6 DEF PresetsKeepTheirTuning
<1>2. Computed => PresetsKeepTheirTuning
  BY <1>1 DEF PresetsKeepTheirTuning
<1> QED
  BY <1>2, ComputedHolds, PTL

-----------------------------------------------------------------------------
(* The delays.                                                             *)

Powers(factor, n, f) == f = [i \in 0..n |-> IF i = 0 THEN 1 ELSE factor * f[i - 1]]

LEMMA PowersExist ==
    ASSUME NEW factor \in Nat, NEW n \in Nat
    PROVE  \E f : Powers(factor, n, f)
<1> DEFINE T == {m \in Nat : \E f : Powers(factor, m, f)}
<1>1. ASSUME NEW m \in Nat, \A k \in Nat : k < m => k \in T PROVE m \in T
  <2>1. CASE m = 0
    <3> DEFINE g == [i \in 0..0 |-> 1]
    <3>1. g = [i \in 0..0 |-> IF i = 0 THEN 1 ELSE factor * g[i - 1]]
      OBVIOUS
    <3> QED
      BY <2>1, <3>1 DEF Powers
  <2>2. CASE m # 0
    <3>1. m - 1 \in Nat /\ m - 1 < m
      BY <2>2
    <3>2. PICK f : Powers(factor, m - 1, f)
      BY <1>1, <3>1
    <3> DEFINE g == [i \in 0..m |-> IF i = 0 THEN 1 ELSE factor * f[i - 1]]
    <3>3. ASSUME NEW i \in 0..(m - 1) PROVE g[i] = f[i]
      BY <3>2 DEF Powers
    <3>4. g = [i \in 0..m |-> IF i = 0 THEN 1 ELSE factor * f[i - 1]]
      OBVIOUS
    <3> HIDE DEF g
    <3>5. ASSUME NEW i \in 0..m, i # 0 PROVE g[i - 1] = f[i - 1]
      <4>1. i - 1 \in 0..(m - 1)
        BY <3>5
      <4> QED
        BY <3>3, <4>1
    <3>6. g = [i \in 0..m |-> IF i = 0 THEN 1 ELSE factor * g[i - 1]]
      BY <3>4, <3>5
    <3> QED
      BY <3>6 DEF Powers
  <2> QED
    BY <2>1, <2>2
<1> HIDE DEF T
<1>2. T = Nat
  <2>1. T \subseteq Nat
    BY DEF T
  <2> QED
    BY <1>1, <2>1, StrongInduction
<1> QED
  BY <1>2 DEF T

LEMMA PowersAgree ==
    ASSUME NEW factor \in Nat, NEW n \in Nat, NEW m \in Nat, NEW f, NEW g,
           Powers(factor, n, f), Powers(factor, m, g), NEW k \in Nat, k <= n, k <= m
    PROVE  f[k] = g[k] /\ f[k] \in Nat
<1> DEFINE T == {i \in Nat : i <= n /\ i <= m => f[i] = g[i] /\ f[i] \in Nat}
<1>1. ASSUME NEW i \in Nat, \A j \in Nat : j < i => j \in T PROVE i \in T
  <2> SUFFICES ASSUME i <= n, i <= m PROVE f[i] = g[i] /\ f[i] \in Nat
    OBVIOUS
  <2>1. CASE i = 0
    BY <2>1 DEF Powers
  <2>2. CASE i # 0
    <3>1. i - 1 \in Nat /\ i - 1 < i /\ i - 1 <= n /\ i - 1 <= m
      BY <2>2
    <3>2. f[i - 1] = g[i - 1] /\ f[i - 1] \in Nat
      BY <1>1, <3>1
    <3>3. f[i] = factor * f[i - 1] /\ g[i] = factor * g[i - 1]
      BY <2>2 DEF Powers
    <3> QED
      BY <3>2, <3>3
  <2> QED
    BY <2>1, <2>2
<1> HIDE DEF T
<1>2. T = Nat
  <2>1. T \subseteq Nat
    BY DEF T
  <2> QED
    BY <1>1, <2>1, StrongInduction
<1> QED
  BY <1>2 DEF T

LEMMA PowerIs ==
    ASSUME NEW factor \in Nat, NEW n \in Nat
    PROVE  /\ Power(factor, 0) = 1 /\ Power(factor, n) \in Nat
           /\ Power(factor, n + 1) = factor * Power(factor, n)
<1> DEFINE power(m) == CHOOSE f : Powers(factor, m, f)
<1>1. ASSUME NEW m \in Nat PROVE Powers(factor, m, power(m)) /\ Power(factor, m) = power(m)[m]
  <2>1. Powers(factor, m, power(m))
    BY PowersExist
  <2>2. Power(factor, m) = power(m)[m]
    BY DEF Power, Powers
  <2> QED
    BY <2>1, <2>2
<1> HIDE DEF power
<1>2. power(0)[0] = 1
  BY <1>1 DEF Powers
<1>3. power(n)[n] \in Nat /\ power(n + 1)[n] = power(n)[n]
  BY <1>1, PowersAgree
<1>4. power(n + 1)[n + 1] = factor * power(n + 1)[n]
  <2>1. n + 1 \in 0..(n + 1) /\ n + 1 # 0 /\ (n + 1) - 1 = n
    OBVIOUS
  <2>2. Powers(factor, n + 1, power(n + 1))
    BY <1>1
  <2> QED
    BY <2>1, <2>2 DEF Powers
<1> QED
  BY <1>1, <1>2, <1>3, <1>4

NatCurve == [baseDelay : Nat, factor : Nat, maxDelay : Nat]

Ceiling(curve, delay) == IF delay < curve.maxDelay THEN delay ELSE curve.maxDelay

Waits(curve, length, f) ==
    f = [n \in 1..length |->
            Ceiling(curve, IF n = 1 THEN curve.baseDelay ELSE f[n - 1] * curve.factor)]

\* The ceiling may be taken after each retry or once: a capped delay stays capped.
LEMMA CeilingOnce ==
    ASSUME NEW curve \in NatCurve, NEW delay \in Nat
    PROVE  Ceiling(curve, Ceiling(curve, delay) * curve.factor)
               = Ceiling(curve, delay * curve.factor)
<1> DEFINE factor == curve.factor
           max == curve.maxDelay
<1>1. factor \in Nat /\ max \in Nat
  BY DEF NatCurve
<1> HIDE DEF factor, max
<1>2. CASE delay < max
  BY <1>2 DEF Ceiling, max
<1>3. CASE ~(delay < max)
  <2>1. Ceiling(curve, delay) = max
    BY <1>3 DEF Ceiling, max
  <2>2. CASE factor = 0
    <3>1. max * factor = 0 /\ delay * factor = 0
      BY <1>1, <2>2
    <3> QED
      BY <2>1, <3>1 DEF factor
  <2>3. CASE factor # 0
    <3>1. max * factor >= max /\ delay * factor >= delay /\ max * factor \in Nat
          /\ delay * factor \in Nat
      BY <1>1, <2>3
    <3>2. ~(max * factor < max) /\ ~(delay * factor < max)
      BY <1>1, <1>3, <3>1
    <3> QED
      BY <2>1, <3>2 DEF Ceiling, factor, max
  <2> QED
    BY <2>2, <2>3
<1> QED
  BY <1>2, <1>3

LEMMA CurvesIs ==
    ASSUME NEW curve \in NatCurve, NEW length \in Nat
    PROVE  Curves(curve, length)
               = [n \in 1..length |->
                     Ceiling(curve, curve.baseDelay * Power(curve.factor, n - 1))]
<1> DEFINE delay(n) == curve.baseDelay * Power(curve.factor, n - 1)
           wait == [n \in 1..length |-> Ceiling(curve, delay(n))]
           curves == CHOOSE f : Waits(curve, length, f)
<1>1. curve.baseDelay \in Nat /\ curve.factor \in Nat /\ curve.maxDelay \in Nat
  BY DEF NatCurve
<1>2. delay(1) = curve.baseDelay
  <2>1. \A zero : zero = 0 => Power(curve.factor, zero) = 1
    BY <1>1, PowerIs
  <2>2. Power(curve.factor, 1 - 1) = 1
    BY <2>1
  <2> QED
    BY <1>1, <2>2
<1>3. ASSUME NEW n \in 1..length, n # 1
      PROVE  /\ n - 1 \in 1..length /\ delay(n - 1) \in Nat
             /\ delay(n) = delay(n - 1) * curve.factor
  <2> DEFINE m == n - 2
  <2>1. m \in Nat /\ n - 1 = m + 1 /\ (n - 1) - 1 = m
    BY <1>3
  <2> HIDE DEF m
  <2>2. Power(curve.factor, m) \in Nat
        /\ Power(curve.factor, m + 1) = curve.factor * Power(curve.factor, m)
    BY <1>1, <2>1, PowerIs
  <2>3. \A b, f, p \in Nat : b * (f * p) = (b * p) * f /\ b * p \in Nat
    OBVIOUS
  <2>4. delay(n - 1) = curve.baseDelay * Power(curve.factor, m)
        /\ delay(n) = curve.baseDelay * Power(curve.factor, m + 1)
    BY <2>1
  <2>5. n - 1 \in 1..length
    BY <1>3
  <2> QED
    BY <1>1, <2>2, <2>3, <2>4, <2>5
<1> HIDE DEF delay
<1>4. Waits(curve, length, wait)
  <2>1. ASSUME NEW n \in 1..length
        PROVE  wait[n] = Ceiling(curve, IF n = 1 THEN curve.baseDelay
                                        ELSE wait[n - 1] * curve.factor)
    <3>1. CASE n = 1
      BY <1>2, <3>1
    <3>2. CASE n # 1
      <4>1. wait[n - 1] = Ceiling(curve, delay(n - 1))
        BY <1>3, <3>2
      <4> QED
        BY <1>3, <3>2, <4>1, CeilingOnce
    <3> QED
      BY <3>1, <3>2
  <2>2. wait = [n \in 1..length |-> wait[n]]
    OBVIOUS
  <2> HIDE DEF wait
  <2> QED
    BY <2>1, <2>2 DEF Waits
<1> HIDE DEF wait
<1>5. Waits(curve, length, curves)
  BY <1>4
<1> HIDE DEF curves
<1> DEFINE T == {n \in Nat : n \in 1..length => curves[n] = wait[n]}
<1>6. ASSUME NEW n \in Nat, \A m \in Nat : m < n => m \in T PROVE n \in T
  <2> SUFFICES ASSUME n \in 1..length PROVE curves[n] = wait[n]
    OBVIOUS
  <2>1. CASE n = 1
    BY <1>4, <1>5, <2>1 DEF Waits
  <2>2. CASE n # 1
    <3>1. n - 1 \in Nat /\ n - 1 < n /\ n - 1 \in 1..length
      BY <2>2
    <3>2. curves[n - 1] = wait[n - 1]
      BY <1>6, <3>1
    <3> QED
      BY <1>4, <1>5, <2>2, <3>2 DEF Waits
  <2> QED
    BY <2>1, <2>2
<1> HIDE DEF T
<1>7. T = Nat
  <2>1. T \subseteq Nat
    BY DEF T
  <2> QED
    BY <1>6, <2>1, StrongInduction
<1>8. \A n \in 1..length : curves[n] = wait[n]
  BY <1>7 DEF T
<1>9. curves = wait
  BY <1>4, <1>5, <1>8 DEF Waits
<1>10. Curves(curve, length) = curves
  BY DEF Curves, Waits, Ceiling, curves
<1> QED
  BY <1>9, <1>10 DEF wait, delay

\* A curve over a fallback: its fields are those given, or those of the fallback.
LEMMA ResolvedCurvesAre ==
    ASSUME NEW given \in RetryDelayOptions, NEW fallback
    PROVE  /\ fallback \in RetryDelayOptions => resolveCurve(given, fallback) \in RetryDelayOptions
           /\ fallback \in NatCurve => resolveCurve(given, fallback) \in NatCurve
<1>1. ASSUME fallback \in RetryDelayOptions
      PROVE  resolveCurve(given, fallback) \in RetryDelayOptions
  BY <1>1 DEF resolveCurve, OrDefault, RetryDelayOptions
<1>2. ASSUME fallback \in NatCurve PROVE resolveCurve(given, fallback) \in NatCurve
  BY <1>2 DEF resolveCurve, OrDefault, RetryDelayOptions, NatCurve
<1> QED
  BY <1>1, <1>2

\* Whatever a caller gives, a preset resolves every delay and the number of retries.
LEMMA PresetsAreTyped ==
    ASSUME NEW name \in Presets, NEW options, IsPolicyOptions(options)
    PROVE  LET policy == PresetOf(name, options)
           IN  /\ policy.maxRetries \in Nat /\ policy.retryable \subseteq ModbusErrorTag
               /\ \A tag \in ModbusErrorTag : policy.delays[tag] \in NatCurve
<1> DEFINE base == Start(name)
           merged == mergeOptions(base, options)
           policy == createRetryPolicy(merged)
<1>1. PresetOf(name, options) = policy
  BY PresetIs
<1>2. IsPolicyOptions(base) /\ base.maxRetries \in Nat
  BY StartIs
<1> HIDE DEF base
<1>3. merged.maxRetries \in Nat
  BY <1>2 DEF mergeOptions, OrDefault, IsPolicyOptions
<1>4. merged.curve \in RetryDelayOptions
  <2>1. options.curve \in RetryDelayOptions /\ base.curve \in RetryDelayOptions
    BY <1>2 DEF IsPolicyOptions
  <2> QED
    BY <2>1, ResolvedCurvesAre DEF mergeOptions
<1>5. ASSUME NEW tag \in DOMAIN merged.errors PROVE merged.errors[tag].curve \in RetryDelayOptions
  <2>1. \A one \in DOMAIN options.errors : options.errors[one].curve \in RetryDelayOptions
    BY DEF IsPolicyOptions
  <2>2. \A one \in DOMAIN base.errors : base.errors[one].curve \in RetryDelayOptions
    BY <1>2 DEF IsPolicyOptions
  <2> QED
    BY <1>5, <2>1, <2>2 DEF mergeOptions
<1> HIDE DEF merged
<1>6. resolveCurve(merged.curve, defaultCurve) \in NatCurve
  <2>1. defaultCurve \in NatCurve
    BY DEF defaultCurve, Curve, NatCurve
  <2> QED
    BY <1>4, <2>1, ResolvedCurvesAre
<1>7. ASSUME NEW tag \in ModbusErrorTag PROVE resolveDelays(merged)[tag] \in NatCurve
  <2>1. NoOverrides \in RetryDelayOptions
    BY NoOptionsAre DEF IsPolicyOptions
  <2>2. (IF tag \in DOMAIN merged.errors THEN merged.errors[tag].curve ELSE NoOverrides)
          \in RetryDelayOptions
    BY <1>5, <2>1
  <2> QED
    BY <1>6, <2>2, ResolvedCurvesAre DEF resolveDelays
<1>8. policy.maxRetries \in Nat
  BY <1>3 DEF createRetryPolicy, OrDefault
<1>9. policy.retryable \subseteq ModbusErrorTag
  BY DEF createRetryPolicy, resolveRetryableTags
<1>10. policy.delays = resolveDelays(merged)
  BY DEF createRetryPolicy
<1> HIDE DEF policy
<1> QED
  BY <1>1, <1>7, <1>8, <1>9, <1>10

\* DelaysFollowTheCurve: for every preset, every override of it, every error that it
\* retries and every attempt.
THEOREM DelaysFollowTheCurveHolds == Spec => []DelaysFollowTheCurve
<1>1. ASSUME Computed, function \in Presets, NEW policy \in Range(output),
             NEW tag \in policy.retryable
      PROVE  [n \in 1..policy.maxRetries |-> DelayAfter(policy, Error(tag, 6), n)]
                 = Curves(policy.delays[tag], policy.maxRetries)
  <2>1. input \in Overrides /\ output = <<PresetOf(function, NoOptions), PresetOf(function, input)>>
    BY <1>1 DEF Computed, Presets
  <2>2. PICK options : policy = PresetOf(function, options) /\ IsPolicyOptions(options)
    BY <2>1, NoOptionsAre, OverridesAreTyped DEF Range
  <2>3. policy.maxRetries \in Nat /\ policy.delays[tag] \in NatCurve
    BY <1>1, <2>2, PresetsAreTyped
  <2> DEFINE curve == policy.delays[tag]
  <2>4. ASSUME NEW n \in 1..policy.maxRetries
        PROVE  DelayAfter(policy, Error(tag, 6), n)
                   = Ceiling(curve, curve.baseDelay * Power(curve.factor, n - 1))
    BY DEF DelayAfter, delayFor, Error, Ceiling
  <2> DEFINE length == policy.maxRetries
  <2>5. Curves(curve, length)
          = [n \in 1..length |-> Ceiling(curve, curve.baseDelay * Power(curve.factor, n - 1))]
    BY <2>3, CurvesIs
  <2> QED
    BY <2>4, <2>5
<1>2. Computed => DelaysFollowTheCurve
  BY <1>1 DEF DelaysFollowTheCurve
<1> QED
  BY <1>2, ComputedHolds, PTL

=============================================================================
