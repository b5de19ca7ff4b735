-------------------------- MODULE MCShoppingCarts --------------------------
(***************************************************************************)
(* Instances of ShoppingCarts for TLC.                                     *)
(***************************************************************************)
EXTENDS ShoppingCarts, TLC

Symmetry ==
    Permutations(Creates) \cup Permutations(Adds) \cup Permutations(Products)
============================================================================
