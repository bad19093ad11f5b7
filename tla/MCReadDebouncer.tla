--------------------------- MODULE MCReadDebouncer --------------------------
(* Instances of ReadDebouncer for TLC.                                     *)
EXTENDS ReadDebouncer

\* Addresses 1 and 3 share a span over the gap at 2, 4 is beyond its limit of three,
\* and 7 is apart: a plan has up to three spans.  A group can repeat an address.
MCAddresses == {1, 3, 4, 7}
MCGroups == {<<1>>, <<3, 1>>, <<7, 4, 7>>}
=============================================================================
