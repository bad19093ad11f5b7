------------------------------ MODULE ReadPlan ------------------------------
(***************************************************************************)
(* The read planner: buildReadPlan of register-plan.ts, which planReads    *)
(* and planCoilReads call with the limit of their transaction, and locate, *)
(* which finds an address in the responses.                                *)
(*                                                                         *)
(* A span is the set of addresses it reads, as in WritePlan.               *)
(***************************************************************************)
EXTENDS WritePlan

\* The spans for the addresses S, in the order of their addresses.  The addresses
\* of a gap that is not wider than maxGap are read with their neighbours.
buildReadPlan(S, maxPerRead, maxGap) == planWrites(S, maxPerRead, 1, maxGap)

NotFound == [span |-> 0, offset |-> 0]

\* Mutant: the last address of a span belongs to none.
locate_BeforeEnd(spans, address) ==
    LET search[part \in (1..Len(spans) + 1) \X (0..Len(spans))] ==
            IF part[1] > part[2] THEN NotFound
            ELSE LET middle == (part[1] + part[2]) \div 2
                 IN  IF address < Lowest(spans[middle]) THEN search[<<part[1], middle - 1>>]
                     ELSE IF address >= Highest(spans[middle])
                          THEN search[<<middle + 1, part[2]>>]
                     ELSE [span |-> middle, offset |-> address - Lowest(spans[middle]) + 1]
    IN  search[<<1, Len(spans)>>]

\* The span that reads an address, and its place there, both counted from one.
\* The spans are sorted and apart, so a bisection finds it.
locate(spans, address) ==
    LET search[part \in (1..Len(spans) + 1) \X (0..Len(spans))] ==
            IF part[1] > part[2] THEN NotFound
            ELSE LET middle == (part[1] + part[2]) \div 2
                 IN  IF address < Lowest(spans[middle]) THEN search[<<part[1], middle - 1>>]
                     ELSE IF address > Highest(spans[middle])
                          THEN search[<<middle + 1, part[2]>>]
                     ELSE [span |-> middle, offset |-> address - Lowest(spans[middle]) + 1]
    IN  search[<<1, Len(spans)>>]

\* What locate is for: each address of a plan is found in the span that reads it.
FindsAll(S, maxPerRead, maxGap) ==
    LET spans == buildReadPlan(S, maxPerRead, maxGap)
    IN  /\ spans \in Seq(SUBSET Nat)
        /\ \A k \in 1..Len(spans) : IsFiniteSet(spans[k])
        /\ \A a \in S :
              LET location == locate(spans, a)
              IN  /\ location.span \in 1..Len(spans)
                  /\ location.offset \in 1..Cardinality(spans[location.span])
                  /\ Lowest(spans[location.span]) + location.offset - 1 = a

=============================================================================
