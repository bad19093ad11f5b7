------------------------- MODULE WriteDebouncerOrder -------------------------
(* The write debouncer with the order of its calls, and what it implements. *)
EXTENDS WriteDebouncer

VARIABLES
    asked,          \* history: how many calls have asked
    position        \* history: when each of them did

orderVars == <<vars, asked, position>>

OrderInit == Init /\ asked = 0 /\ position = [c \in Calls |-> 0]

Asking == {c \in Calls : status[c] = "idle" /\ status'[c] = "waiting"}

OrderNext ==
    /\ Next
    /\ asked' = IF Asking = {} THEN asked ELSE asked + 1
    /\ position' = [c \in Calls |-> IF c \in Asking THEN asked + 1 ELSE position[c]]

OrderSpec == OrderInit /\ [][OrderNext]_orderVars

Ordered == INSTANCE OrderedWrites

\* The debouncer implements ordered writes: no merge, bypass, partial flush, failure or
\* interruption lets a register go back to an older value, and a call whose group was
\* split over several flushes succeeds only when all of it has arrived, as its own
\* value or superseded by a newer one.
ImplementsOrderedWrites == Ordered!Spec

=============================================================================
