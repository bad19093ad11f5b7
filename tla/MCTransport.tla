---------------------------- MODULE MCTransport ----------------------------
(* Instances of Transport for TLC.                                         *)
EXTENDS Transport, TLC

MCSymmetry ==
    Permutations(Callers) \cup Permutations(Supervisors) \cup Permutations(Handles)

=============================================================================
