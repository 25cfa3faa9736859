----------------------------- MODULE OrderSaga -----------------------------
(***************************************************************************)
(* What a caller of PlaceOrder may rely on: which effects one order can    *)
(* have on the services behind the checkout, in which order, how often,    *)
(* and what each answer says about them.  Nothing here mentions messages,  *)
(* process crashes or the cart: module Checkout is shown to implement it.  *)
(***************************************************************************)
EXTENDS Sequences

CONSTANTS Requests,   \* the PlaceOrder calls
          Carts       \* the possible contents of a cart

VARIABLES did,        \* did[r][s]: the carts service s acted on for order r
          answer      \* answer[r]: what PlaceOrder returned

vars == <<did, answer>>

Services == {"payment", "shipping", "cart", "email", "kafka"}
Answers == {"none", "ok", "internal", "unavailable"}

Init ==
    /\ did = [r \in Requests |-> [s \in Services |-> << >>]]
    /\ answer = [r \in Requests |-> "none"]

Perform(r, s, c) ==
    /\ did' = [did EXCEPT ![r][s] = Append(@, c)]
    /\ UNCHANGED answer

\* The card is charged at most once for an order.
Pay(r, c) ==
    /\ did[r]["payment"] = << >>
    /\ answer[r] \in {"none", "internal"}
    /\ Perform(r, "payment", c)

\* Goods leave at most once, only those that were paid for, and never after
\* an answer that says the payment failed.
Ship(r, c) ==
    /\ did[r]["payment"] = <<c>>
    /\ did[r]["shipping"] = << >>
    /\ answer[r] \in {"none", "unavailable"}
    /\ Perform(r, "shipping", c)

\* The cart is emptied, the customer told and the order published only once
\* the goods are on their way; the event may be published again.
Follow(r, s, c) ==
    /\ did[r]["shipping"] = <<c>>
    /\ s = "kafka" \/ did[r][s] = << >>
    /\ answer[r] \in {"none", "ok"}
    /\ Perform(r, s, c)

\* "internal": nothing was shipped.  "unavailable": the card was charged.
\* "ok": the goods were paid for and shipped.
Answer(r, a) ==
    /\ answer[r] = "none"
    /\ a = "ok" => did[r]["shipping"] # << >>
    /\ a = "internal" => did[r]["shipping"] = << >>
    /\ a = "unavailable" => did[r]["payment"] # << >>
    /\ answer' = [answer EXCEPT ![r] = a]
    /\ UNCHANGED did

Next ==
    \E r \in Requests :
        \/ \E c \in Carts : \/ Pay(r, c)
                            \/ Ship(r, c)
                            \/ \E s \in {"cart", "email", "kafka"} : Follow(r, s, c)
        \/ \E a \in Answers \ {"none"} : Answer(r, a)

Spec == Init /\ [][Next]_vars
=============================================================================
