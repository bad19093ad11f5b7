------------------------------- MODULE Services -------------------------------
(***************************************************************************)
(* The parts of the services that hold something for a scope, side by      *)
(* side: the mock transport, the server layers, the serial port path and   *)
(* the caches of a registry.  They share nothing, so a behaviour is one of *)
(* the four.                                                               *)
(***************************************************************************)
EXTENDS RegistryCaches, RetryPolicy, Sequences

CONSTANTS
    Callers, Definitions, UnitIds, Operations, ClientPolicies, TransportOptions, Faults,
    MaxSupervisors,
    Devices, LongPaths, Directories, Absent

VARIABLES
    part,           \* "mock", "server", "serial" or "caches"
    options, devices, state, closed, mockScope, touchedUnits, calls, supervisors,
    kind, layer, serverScope, finalizers, server, loop,
    longLink, longTemporary, device, directory, alias, existing, made, late, target,
    opening, opened, finalized

mockVars == <<options, devices, state, closed, mockScope, touchedUnits, calls, supervisors>>
serverVars == <<kind, layer, serverScope, finalizers, server, loop>>
serialVars == <<longLink, longTemporary, device, directory, alias, existing, made, late,
                target, opening, opened, finalized>>

Mock == INSTANCE MockTransport WITH scope <- mockScope
Server == INSTANCE ServerLayer WITH scope <- serverScope
Serial == INSTANCE SerialPortPath WITH link <- device, closed <- finalized

-----------------------------------------------------------------------------
\* A policy of the mock has a number of retries, as far as it was given one.
IsPolicy(policy) == policy = Undefined \/ policy.maxRetries \in Nat

ASSUME PolicyAssumption ==
    /\ \A policy \in ClientPolicies : IsPolicy(policy)
    /\ \A o \in TransportOptions : IsPolicy(o.retry) /\ IsPolicy(o.outer)

\* What the operations of a client can be given: a table that can be written, with
\* bits or words for it.
CanWrite(table, values) ==
    \/ table = "coils" /\ values \in Seq(BOOLEAN)
    \/ table = "holdingRegisters" /\ values \in Seq(Nat)

ASSUME OperationAssumption ==
    \A c \in Callers : \A op \in Operations[c] :
        /\ op.kind \in {"read", "write", "readWrite", "diagnostic", "unsupported"}
        /\ op.kind \in {"read", "readWrite"} =>
              op.table \in Mock!TableNames /\ op.address \in Nat /\ op.quantity \in Nat
        /\ op.kind = "write" => op.address \in Nat /\ CanWrite(op.table, op.values)
        /\ op.kind = "readWrite" =>
              /\ op.table = "holdingRegisters" /\ op.writeAddress \in Nat
              /\ CanWrite(op.table, op.values)

\* The path of a temporary directory is not the configured one.
ASSUME DirectoryAssumption == Absent \notin Directories /\ Serial!Configured \notin Directories

-----------------------------------------------------------------------------
\* A part that is not the behaviour's own begins, and stays, in one of its states.
ServicesInit ==
    /\ part \in {"mock", "server", "serial", "caches"}
    /\ Mock!Init /\ Server!Init /\ Serial!Init /\ Init
    /\ part # "mock" => options.supervised
    /\ part # "server" => kind = Server!tcpServerLayer
    /\ part # "serial" => longLink /\ longTemporary /\ device = CHOOSE d \in Devices : TRUE

ServicesNext ==
    /\ UNCHANGED part
    /\ \/ part = "mock" /\ Mock!Next /\ UNCHANGED <<serverVars, serialVars, vars>>
       \/ part = "server" /\ Server!Next /\ UNCHANGED <<mockVars, serialVars, vars>>
       \/ part = "serial" /\ Serial!Next /\ UNCHANGED <<mockVars, serverVars, vars>>
       \/ part = "caches" /\ Next /\ UNCHANGED <<mockVars, serverVars, serialVars>>

ServicesSpec ==
    ServicesInit /\ [][ServicesNext]_<<part, vars, mockVars, serverVars, serialVars>>
        /\ Mock!Fairness

\* A call makes at most as many attempts as its policies allow together.
AttemptsAreBounded == Mock!AttemptsAreBounded

\* An operation on the mock is done as a whole or not at all.
OperationsAreWhole == Mock!OperationsAreWhole

\* A supervised link that goes down comes up again, or its transport is closed.
CircuitRecovers == Mock!CircuitRecovers

\* A closed scope has shut down the server that its layer bound, unless the build was
\* interrupted while the bind was pending: then nothing of the scope knows the server.
\* It has removed the directory of the alias that it knows: the close of a transport
\* leaves no alias, and what stays on disk is a directory that was made after the close
\* or one that a later open replaced because its alias could not be made.
ScopesReleaseWhatTheyHold ==
    Server!BoundServersAreShutDown /\ Serial!OnlyReplacedDirectoriesStay

\* A serial open reaches the device that the configured link names.
OpensFollowTheLink == Serial!OpensFollowTheLink

=============================================================================
