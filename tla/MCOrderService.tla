-------------------------- MODULE MCOrderService --------------------------
(***************************************************************************)
(* Instances of OrderService for TLC.                                      *)
(***************************************************************************)
EXTENDS OrderService, TLC

CONSTANTS o1, o2, o3, o4, known, unknown

\* Every multiset of four orders: the known item, the unknown item, a quantity
\* above the limit, in this order.
Wanted == <<<<known, 2>>, <<unknown, 2>>, <<known, 5>>>>
EveryMix ==
    {(o1 :> Wanted[a] @@ o2 :> Wanted[b] @@ o3 :> Wanted[c] @@ o4 :> Wanted[d]) :
        <<a, b, c, d>> \in {t \in (1 .. 3) \X (1 .. 3) \X (1 .. 3) \X (1 .. 3) :
                              t[1] <= t[2] /\ t[2] <= t[3] /\ t[3] <= t[4]}}
===========================================================================
