---------------------------- MODULE MCLeaderKV ----------------------------
(***************************************************************************)
(* Instances of LeaderKV for TLC.                                          *)
(***************************************************************************)
EXTENDS LeaderKV, TLC

CONSTANTS f1, f2, f3

Plain(k, v) == [key |-> k, value |-> v, version |-> Own]

\* Keys and values without characters that mean something in a query.
PlainWire == [p \in Keys \X Values |-> Plain(p[1], p[2])]
PlainKey == [k \in Keys |-> k]

\* Unescaped values: one ends at its first ampersand, a version parameter behind it
\* comes before the leader's, and what follows a number sign is cut off, the
\* leader's version with it.
Unescaped ==
    [p \in Keys \X Values |->
        CASE p[2] = "a#" -> Refused
          [] p[2] = "a&version=9" -> [Plain(p[1], "a") EXCEPT !.version = 9]
          [] OTHER -> Plain(p[1], p[2])]

\* The empty list, a list below the w3r3 quorum and one with a tail for the
\* background goroutine.
AllLists == {<<>>, <<f1>>, <<f1, f2, f3>>}
OneList == {<<f1, f2, f3>>}
TwoLists == {<<f1>>, <<f1, f2, f3>>}

Symmetry == Permutations(WriteReqs) \cup Permutations(ReadReqs)
===========================================================================
