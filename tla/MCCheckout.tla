----------------------------- MODULE MCCheckout -----------------------------
(* Instance of Checkout for TLC: two PlaceOrder calls and two AddItem calls *)
(* of any of two customers, one crash, one extra copy of an order event.    *)
EXTENDS Checkout, TLC

Symm == Permutations(Requests) \cup Permutations(Adds) \cup Permutations(Users)
=============================================================================
