-------------------------- MODULE MCLeaderlessKV --------------------------
(***************************************************************************)
(* Instances of LeaderlessKV for TLC.                                      *)
(***************************************************************************)
EXTENDS LeaderlessKV, TLC

CONSTANTS n1, n2, n3, k1, k2, forged

Plain(k, v) == [key |-> k, value |-> v, version |-> Own]

\* Keys and values without characters that mean something in a query.
PlainWire == [p \in Keys \X Values |-> Plain(p[1], p[2])]
PlainKey == [k \in Keys |-> k]

\* The key forged is k1 with "&version=9" behind it: replicated, it is the key k1
\* and a version, which comes before the coordinator's.
Unescaped ==
    [p \in Keys \X Values |->
        IF p[1] = forged THEN [Plain(k1, p[2]) EXCEPT !.version = 9] ELSE Plain(p[1], p[2])]

Lists == {<<n2, n3>>, <<n3, n1>>, <<n1, n2>>}
\* n1 replicates to both others, they to n1 only.
ShortLists == {<<n2, n3>>, <<n1>>}

\* k1 is written through n1 only, k2 through n1 and n2.
Mixed == {<<n1, k1>>, <<n1, k2>>, <<n2, k2>>, <<n2, forged>>}
\* As the load tester does: any node coordinates writes of a key.
AnyNode == {<<n1, k1>>, <<n2, k1>>}

Symmetry == Permutations(WriteReqs)
===========================================================================
