---------------------------- MODULE OrderedWrites ----------------------------
(***************************************************************************)
(* What a write debouncer promises its callers, whatever it holds, joins   *)
(* or drops: registers that move forward in the order in which the writes  *)
(* were asked for, and callers that are told of a success only when every  *)
(* register of theirs has reached their value or a newer one.              *)
(*                                                                         *)
(* A value is the call that asked for it.  A write may fail at any time,   *)
(* and a part of it may have reached the device then.                      *)
(***************************************************************************)
EXTENDS Naturals, Sequences

CONSTANTS
    Calls,          \* calls that write
    Addresses,      \* register addresses
    Groups,         \* the address sequences that a call may carry
    NoCall          \* the value of a register that nobody wrote

VARIABLES
    asked,          \* how many calls have asked
    position,       \* when each of them did, 0 for one that has not
    group,          \* the addresses of each call
    status,         \* what each call has been told
    device          \* the call whose value each register holds

vars == <<asked, position, group, status, device>>

AddressesOf(c) == {group[c][i] : i \in DOMAIN group[c]}
Age(c) == IF c = NoCall THEN 0 ELSE position[c]

Init ==
    /\ asked = 0
    /\ position = [c \in Calls |-> 0]
    /\ group = [c \in Calls |-> <<>>]
    /\ status = [c \in Calls |-> "idle"]
    /\ device = [a \in Addresses |-> NoCall]

\* A call asks for its writes, after all that asked before it.
Request(c, g) ==
    /\ status[c] = "idle"
    /\ asked' = asked + 1
    /\ position' = [position EXCEPT ![c] = asked + 1]
    /\ group' = [group EXCEPT ![c] = g]
    /\ status' = [status EXCEPT ![c] = "waiting"]
    /\ UNCHANGED device

\* A call is refused, and none of its writes is ever sent.
Refuse(c) ==
    /\ status[c] = "idle"
    /\ status' = [status EXCEPT ![c] = "failed"]
    /\ UNCHANGED <<asked, position, group, device>>

\* Registers take values that were asked for, each a newer one than it holds, and calls
\* that wait are answered.
Deliver ==
    /\ device' \in [Addresses -> Calls \cup {NoCall}]
    /\ \A a \in Addresses : device'[a] # device[a] =>
          /\ device'[a] \in Calls
          /\ a \in AddressesOf(device'[a])
          /\ Age(device'[a]) > Age(device[a])
    /\ status' \in [Calls -> {"idle", "waiting", "succeeded", "failed"}]
    /\ \A c \in Calls : status'[c] # status[c] =>
          /\ status[c] = "waiting"
          /\ \/ status'[c] = "failed"
             \/ /\ status'[c] = "succeeded"
                /\ \A a \in AddressesOf(c) : Age(device'[a]) >= position[c]
    /\ UNCHANGED <<asked, position, group>>

Next ==
    \/ \E c \in Calls : (\E g \in Groups : Request(c, g)) \/ Refuse(c)
    \/ Deliver

Spec == Init /\ [][Next]_vars

=============================================================================
