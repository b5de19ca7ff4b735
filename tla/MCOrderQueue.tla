---------------------------- MODULE MCOrderQueue ----------------------------
(***************************************************************************)
(* Instances of OrderQueue for TLC.                                        *)
(***************************************************************************)
EXTENDS OrderQueue

CONSTANTS s1, s2, o1, o2, o3

\* Both kinds of order at once; and a batch that waits behind another message.
BothOrBurst == {{s1, s2, o1, o2}, {o1, o2, o3}}
=============================================================================
