----------------------------- MODULE UnitWrites -----------------------------
(***************************************************************************)
(* What the batching client of a unit promises, whatever its caches        *)
(* suppress and however its plans cut, join or widen a batch: a batch of   *)
(* writes goes to the device as it was asked for, and a table is written   *)
(* by its batches alone once it has them.                                  *)
(*                                                                         *)
(* The device can lose its state.  The promise to a batch ends then, and   *)
(* that to the next ones too until somebody has told of the loss.          *)
(***************************************************************************)
CONSTANTS
    Tables,         \* the registers of the unit, and its coils
    Values,         \* what an address of the device may hold
    Nothing,        \* an address that a batch does not write
    Start           \* what the device holds after a power cycle

VARIABLES
    device,         \* the contents of each table
    batch,          \* the batch of each table, and how far it is
    owned,          \* the tables that are written by batches
    closed,         \* no batch begins any more
    trusted,        \* nothing was lost, or left with the device, that is still untold
    harmed          \* a batch that began untrusted, or before a loss

vars == <<device, batch, owned, closed, trusted, harmed>>

Addresses(t) == DOMAIN Start[t]
Writes(t) == [Addresses(t) -> Values \cup {Nothing}]
NoBatch(t) == [phase |-> "idle", writes |-> [a \in Addresses(t) |-> Nothing]]
Running(t) == batch[t].phase = "running"

\* Of all tables, only t is another one.
Only(t, before, after) == after = [before EXCEPT ![t] = after[t]]

\* The device holds what was asked for.
Reached(t, writes) ==
    \A a \in Addresses(t) : writes[a] # Nothing => device[t][a] = writes[a]

Init ==
    /\ device = Start
    /\ batch = [t \in Tables |-> NoBatch(t)]
    /\ owned = {} /\ closed = FALSE /\ trusted = TRUE
    /\ harmed = [t \in Tables |-> FALSE]

\* A batch begins.  It may end at once, when the device holds all of it.
Begin(t) ==
    /\ t \in owned /\ ~closed /\ ~Running(t)
    /\ Only(t, batch, batch')
    /\ batch'[t] \in [phase : {"running", "done"}, writes : Writes(t)]
    /\ batch'[t].phase = "done" /\ trusted => Reached(t, batch'[t].writes)
    /\ harmed' = [harmed EXCEPT ![t] = ~trusted]
    /\ UNCHANGED <<device, owned, closed, trusted>>

\* Some addresses take the values that the batch has for them, and no other address
\* of the device changes.
Takes(t) ==
    /\ Only(t, device, device')
    /\ device'[t] \in [Addresses(t) -> Values]
    /\ \A a \in Addresses(t) :
          device'[t][a] \in {device[t][a], batch[t].writes[a]} \/ harmed[t]

Deliver(t) ==
    /\ Running(t) /\ Takes(t)
    /\ UNCHANGED <<batch, owned, closed, trusted, harmed>>

\* A batch succeeds when all of it is there.
Succeed(t) ==
    /\ Running(t)
    /\ harmed[t] \/ Reached(t, batch[t].writes)
    /\ batch' = [batch EXCEPT ![t].phase = "done"]
    /\ UNCHANGED <<device, owned, closed, trusted, harmed>>

\* A failure tells of every loss before it.
Fail(t) ==
    /\ Running(t)
    /\ batch' = [batch EXCEPT ![t] = NoBatch(t)]
    /\ trusted' \in {trusted, TRUE}
    /\ UNCHANGED <<device, owned, closed, harmed>>

\* The caller of a batch goes away, and nobody learns what the device took of it.
Abandon(t) ==
    /\ Running(t) /\ Takes(t)
    /\ batch' = [batch EXCEPT ![t] = NoBatch(t)]
    /\ trusted' = FALSE
    /\ UNCHANGED <<owned, closed, harmed>>

PowerCycle ==
    /\ device' = Start
    /\ trusted' = FALSE /\ harmed' = [t \in Tables |-> TRUE]
    /\ UNCHANGED <<batch, owned, closed>>

\* The link is lost, or what was lost with it is told.
News ==
    /\ trusted' \in BOOLEAN
    /\ UNCHANGED <<device, batch, owned, closed, harmed>>

\* A table never goes back to writes of another kind.
Own ==
    /\ owned \subseteq owned' /\ owned' \subseteq Tables
    /\ UNCHANGED <<device, batch, closed, trusted, harmed>>

Close ==
    /\ closed' = TRUE
    /\ batch' = [t \in Tables |-> IF Running(t) THEN NoBatch(t) ELSE batch[t]]
    /\ UNCHANGED <<device, owned, trusted, harmed>>

WriteDirectly(t) ==
    /\ t \notin owned
    /\ \E a \in Addresses(t), v \in Values : device' = [device EXCEPT ![t][a] = v]
    /\ UNCHANGED <<batch, owned, closed, trusted, harmed>>

Next ==
    \/ \E t \in Tables :
          Begin(t) \/ Deliver(t) \/ Succeed(t) \/ Fail(t) \/ Abandon(t) \/ WriteDirectly(t)
    \/ PowerCycle \/ News \/ Own \/ Close

Spec == Init /\ [][Next]_vars

=============================================================================
