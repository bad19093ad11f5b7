----------------------- MODULE MCWriteDebouncerStarves -----------------------
(* An instance of WriteDebouncer for TLC: runs that fill up again and       *)
(* again, and an address that never joins one.                             *)
EXTENDS WriteDebouncer

MCAddresses == {1, 2, 4}
MCStarvationGroups == {<<1, 2>>, <<4>>}
=============================================================================
