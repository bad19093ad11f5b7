----------------------------- MODULE WritePlan -----------------------------
(***************************************************************************)
(* The write planners planWrites (register-plan.ts) and planCoilWrites     *)
(* (coil-plan.ts): the addresses of a batch become transactions.  The      *)
(* register planner is the coil planner without gaps.                      *)
(*                                                                         *)
(* A transaction is the set of addresses it writes.  A span writes every   *)
(* address from its lowest to its highest, those in a gap included; a      *)
(* value is not part of the plan.                                          *)
(***************************************************************************)
EXTENDS Integers, Sequences, FiniteSets, SequencesExt

Lowest(S) == CHOOSE a \in S : \A b \in S : a <= b
Highest(S) == CHOOSE a \in S : \A b \in S : b <= a

\* Mutant: a transaction holds one address less than its limit.
FirstGroup_LimitIsExclusive(S, limit, gap) ==
    LET start == Lowest(S)
    IN  {start} \cup {a \in S :
            /\ a - start + 1 < limit
            /\ \A b \in S : start < b /\ b <= a =>
                  \E c \in S : c < b /\ b - c - 1 <= gap}

\* The addresses of S that the loop of the planner groups with the lowest one:
\* no gap on the way is wider than gap, and the span has at most limit addresses.
FirstGroup(S, limit, gap) ==
    LET start == Lowest(S)
    IN  {a \in S :
            /\ a - start + 1 <= limit
            /\ \A b \in S : start < b /\ b <= a =>
                  \E c \in S : c < b /\ b - c - 1 <= gap}

\* The i-th address of S from below.
Nth(S, i) == CHOOSE a \in S : Cardinality({b \in S : b <= a}) = i

\* emitSpan: one span for a group that is long enough, or a write per address.
emitSpan(group, minRun) ==
    IF Cardinality(group) >= minRun
    THEN <<Lowest(group)..Highest(group)>>
    ELSE [i \in 1..Cardinality(group) |-> {Nth(group, i)}]

\* The transactions for the addresses S, in the order of their addresses.
planWrites(S, limit, minRun, gap) ==
    LET plan[rest \in SUBSET S] ==
            IF rest = {} THEN <<>>
            ELSE LET group == FirstGroup(rest, limit, gap)
                 IN  emitSpan(group, minRun) \o plan[rest \ group]
    IN  plan[S]

=============================================================================
