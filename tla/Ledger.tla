------------------------------- MODULE Ledger -------------------------------
(***************************************************************************)
(* What a reader of the accounting tables may rely on: rows belong to      *)
(* published orders, an order is written at one moment and never again,    *)
(* and an order with an address is written whole.  That every order is     *)
(* written is not promised.  Module Accounting is shown to implement it.   *)
(***************************************************************************)
CONSTANTS Orders,
          Addressed   \* the orders that carry a shipping address

VARIABLES published,  \* the orders on the topic
          db          \* db[o]: the tables that hold rows of order o

vars == <<published, db>>

Rows(o) == IF o \in Addressed THEN {"order", "items", "shipping"} ELSE {"order", "items"}

Init == published = {} /\ db = [o \in Orders |-> {}]

Publish(o) == published' = published \cup {o} /\ UNCHANGED db

\* Orders may be written together, late and in any order.
Record(S) ==
    /\ S \subseteq published
    /\ \A o \in S : db[o] = {}
    /\ db' = [o \in Orders |-> IF o \in S THEN Rows(o) ELSE db[o]]
    /\ UNCHANGED published

Next == (\E o \in Orders : Publish(o)) \/ (\E S \in SUBSET Orders : Record(S))

Spec == Init /\ [][Next]_vars
=============================================================================
