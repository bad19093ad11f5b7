----------------------------- MODULE ServerLayer -----------------------------
(***************************************************************************)
(* The scoped server layers: the native TCP, RTU and ASCII servers and the *)
(* gateway, and the browser's servers, which need a request loop.  A layer *)
(* binds its server, forks the loop, and leaves the shutdown to its scope. *)
(*                                                                         *)
(* What follows the settled bind runs without an asynchronous boundary, so *)
(* it is part of the same step.  The native server is external: its calls  *)
(* settle when they like, with or without an error.                        *)
(***************************************************************************)
EXTENDS Sequences, SequencesExt

(* What a layer leaves to its scope once its server is bound, in the order in which it
   does.  The browser's layers fork the request loop before the shutdown is added, so
   it is interrupted after it. *)
tcpServerLayer == <<"shutdown">>
serialRtuServerLayer == <<"shutdown">>
serialAsciiServerLayer == <<"shutdown">>
tcpGatewayLayer == <<"shutdown">>
\* Mutant: the layer leaves the shutdown to its request loop.
wasmWsServerLayer_LoopOnly == <<"loop">>

wasmWsServerLayer == <<"loop", "shutdown">>
wasmSerialRtuServerLayer == <<"loop", "shutdown">>
wasmSerialAsciiServerLayer == <<"loop", "shutdown">>

Layers ==
    {tcpServerLayer, serialRtuServerLayer, serialAsciiServerLayer, tcpGatewayLayer,
     wasmWsServerLayer, wasmSerialRtuServerLayer, wasmSerialAsciiServerLayer}

VARIABLES
    kind,           \* the layer, as what it leaves to its scope
    layer,          \* "building", "built", "failed" or "interrupted"
    scope,          \* "open", "closing" or "closed"
    finalizers,     \* what the scope runs when it closes, newest last
    server,         \* the native server: "binding", "refused", "bound", "shutDown"
    loop            \* serve(): "none", "serving", "ended" or "interrupted"

vars == <<kind, layer, scope, finalizers, server, loop>>

Init ==
    /\ kind \in Layers
    /\ layer = "building"
    /\ scope = "open"
    /\ finalizers = <<>>
    /\ server = "binding"
    /\ loop = "none"

\* bind() settles.  A layer that was interrupted no longer hears of it.
BindSucceeds ==
    /\ server = "binding"
    /\ server' = "bound"
    /\ IF layer = "building"
       THEN /\ layer' = "built"
            /\ finalizers' = kind
            /\ loop' = IF "loop" \in ToSet(kind) THEN "serving" ELSE "none"
       ELSE UNCHANGED <<layer, finalizers, loop>>
    /\ UNCHANGED <<kind, scope>>

BindFails ==
    /\ server = "binding"
    /\ server' = "refused"
    /\ layer' = IF layer = "building" THEN "failed" ELSE layer
    /\ UNCHANGED <<kind, scope, finalizers, loop>>

\* The fiber that builds the layer is interrupted: the promise of bind() goes on.
Interrupt ==
    /\ layer = "building"
    /\ layer' = "interrupted"
    /\ UNCHANGED <<kind, scope, finalizers, server, loop>>

\* serve() settles; an error is logged, and the layer stays.
LoopEnds ==
    /\ loop = "serving"
    /\ loop' = "ended"
    /\ UNCHANGED <<kind, layer, scope, finalizers, server>>

\* The scope closes when the application ends or the layer was not built.
Close ==
    /\ scope = "open"
    /\ layer # "building"
    /\ scope' = "closing"
    /\ UNCHANGED <<kind, layer, finalizers, server, loop>>

\* One finalizer, the newest first.  A shutdown() that fails is ignored.
Finalize ==
    /\ scope = "closing"
    /\ finalizers # <<>>
    /\ finalizers' = Front(finalizers)
    /\ IF finalizers[Len(finalizers)] = "shutdown"
       THEN server' = "shutDown" /\ UNCHANGED loop
       ELSE /\ loop' = IF loop = "serving" THEN "interrupted" ELSE loop
            /\ UNCHANGED server
    /\ UNCHANGED <<kind, layer, scope>>

Closed ==
    /\ scope = "closing"
    /\ finalizers = <<>>
    /\ scope' = "closed"
    /\ UNCHANGED <<kind, layer, finalizers, server, loop>>

Next ==
    \/ BindSucceeds \/ BindFails \/ Interrupt \/ LoopEnds
    \/ Close \/ Finalize \/ Closed

-----------------------------------------------------------------------------
(* Properties.                                                             *)

\* A server that a closed scope leaves bound is one whose layer was interrupted while
\* its bind was pending: every other was told to shut down, and before its request loop
\* was interrupted, also when the loop had ended by itself.
BoundServersAreShutDown ==
    /\ scope = "closed" /\ server = "bound" => layer = "interrupted"
    /\ loop = "interrupted" => server = "shutDown"

=============================================================================
