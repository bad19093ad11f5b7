-------------------------- MODULE MCWriteDebouncer --------------------------
(* An instance of WriteDebouncerOrder for TLC.                             *)
EXTENDS WriteDebouncerOrder, TLC

\* Group {1, 2} fills a run when Limit is 2; <<1, 1>> writes one address twice;
\* address 4 never joins a run with the others.
MCAddresses == {1, 2, 4}
MCGroups == {<<1, 2>>, <<1, 1>>, <<2, 4>>}
MCSymmetry == Permutations(Calls)
=============================================================================
