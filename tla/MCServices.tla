----------------------------- MODULE MCServices -----------------------------
(* An instance of the services for TLC.                                    *)
EXTENDS Services, TLC

CONSTANTS c1, c2, t1, t2

\* A unit that may share its caches with another one of its transport, and units whose
\* caches the caller supplies, to both transports.
Option(t, registers, coils) == [on |-> t, registers |-> registers, coils |-> coils]
MCDeclarations ==
    1 :> {Option(t1, "shared", "shared"), Option(t1, "supplied", "off")}
    @@ 2 :> {Option(t1, "shared", "none"), Option(t2, "supplied", "off")}
MCLosses == t1 :> 1 @@ t2 :> 0

Entry(address, default) == [address |-> address, default |-> default]
Definition(unit, coils, holding) ==
    [unitId |-> unit, coils |-> coils, discreteInputs |-> <<>>,
     holdingRegisters |-> holding, inputRegisters |-> <<>>]

\* A unit that is defined twice, with a repeated address and with a gap in its table.
MCDefinitions ==
    <<Definition(1, <<>>, <<Entry(0, 9)>>),
      Definition(1, <<Entry(1, TRUE), Entry(1, FALSE)>>, <<Entry(0, 0), Entry(2, 0)>>)>>

Register == "holdingRegisters"

\* Exchanges of the one caller, of which the second reads beyond the table it writes,
\* against the reads and writes of the other, of which one is out of range.
MCOperations ==
    c1 :> {[kind |-> "readWrite", table |-> Register, writeAddress |-> 0,
            values |-> <<1>>, address |-> 0, quantity |-> 3],
           [kind |-> "readWrite", table |-> Register, writeAddress |-> 1,
            values |-> <<1>>, address |-> 2, quantity |-> 2]}
    @@ c2 :> {[kind |-> "read", table |-> "coils", address |-> 0, quantity |-> 2],
              [kind |-> "write", table |-> Register, address |-> 1, values |-> <<1, 1>>],
              [kind |-> "write", table |-> "coils", address |-> 1,
               values |-> <<TRUE, TRUE>>]}

\* The part of a policy that decides whether there is another attempt.
Times(retries) ==
    LET policy == createRetryPolicy([NoOptions EXCEPT !.maxRetries = retries])
    IN  [f \in {"maxRetries", "maxElapsed", "retryable", "exceptions"} |-> policy[f]]

MCClientPolicies == {Undefined}

Opened(supervised, retry, outer) ==
    [supervised |-> supervised, policy |-> Times(1), retry |-> retry, outer |-> outer,
     triggers |-> {"ModbusConnectionClosedError", "ModbusTransportError"}]

MCTransportOptions == {Opened(TRUE, Times(1), Undefined), Opened(FALSE, Times(1), Times(1))}

MCFaults == {Error("ModbusTimeoutError", 0), Error("ModbusTransportError", 0)}

=============================================================================
