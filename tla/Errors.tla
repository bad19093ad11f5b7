------------------------------- MODULE Errors -------------------------------
(***************************************************************************)
(* toModbusError of src/src/errors.ts: an error of the native binding      *)
(* becomes one of the variants of ModbusError, which decides whether it is *)
(* retried (RetryPolicy) and whether it starts the supervisor (Transport). *)
(*                                                                         *)
(* A native error is its code and the exception codes that are marked as   *)
(* [MODBUS_EXCEPTION:<n>] in its message, in order.                        *)
(***************************************************************************)
EXTENDS RetryPolicy, Sequences

\* ModbusErrorCode of modbus-rs, and a code this library does not know.
ModbusErrorCode ==
    {"EXCEPTION", "TIMEOUT", "TRANSPORT", "INVALID_ARGUMENT", "CONNECTION_CLOSED", "UNKNOWN"}

\* Mutant: a message without a code counts as ACKNOWLEDGE.
parseExceptionCode_Acknowledge(markers) == IF markers = <<>> THEN 5 ELSE Head(markers)

\* The first code in the message; `?? 0` when there is none.
parseExceptionCode(markers) == IF markers = <<>> THEN 0 ELSE Head(markers)

Variant ==
    [code \in ModbusErrorCode |->
       CASE code = "EXCEPTION" -> "ModbusExceptionError"
         [] code = "TIMEOUT" -> "ModbusTimeoutError"
         [] code = "TRANSPORT" -> "ModbusTransportError"
         [] code = "INVALID_ARGUMENT" -> "ModbusInvalidArgumentError"
         [] code = "CONNECTION_CLOSED" -> "ModbusConnectionClosedError"
         [] OTHER -> "ModbusInternalError"]

toModbusError(native) ==
    Error(Variant[native.code],
          IF native.code = "EXCEPTION" THEN parseExceptionCode(native.markers) ELSE 0)

=============================================================================
