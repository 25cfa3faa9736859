---------------------------- MODULE MCAccounting ----------------------------
(* Instance of Accounting for TLC: two orders with an address and one       *)
(* without, a topic of four messages, restarts and database failures.       *)
EXTENDS Accounting

CONSTANTS o1, o2, o3

MCOrders == {o1, o2, o3}
MCAddressed == {o1, o2}
=============================================================================
