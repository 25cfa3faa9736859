------------------------------ MODULE Checkout ------------------------------
(***************************************************************************)
(* The checkout service: concurrent PlaceOrder handlers of one process,    *)
(* the services they call one after the other, and the carts they share    *)
(* with the customers' AddItem calls.                                      *)
(*                                                                         *)
(* A call to a service is a message on the wire, the service acting on it  *)
(* or not, and an answer that may be lost.  A handler may give up on a     *)
(* call at any time (an error answer, a broken connection, a cancelled     *)
(* context), so a service may still act for a handler that has gone.       *)
(* The amount charged is a function of the cart that was read, so effects  *)
(* are recorded by the cart they are for.                                  *)
(***************************************************************************)
EXTENDS Naturals, Sequences, FiniteSets

CONSTANTS Requests,     \* the PlaceOrder calls
          Adds,         \* the AddItem calls
          Users,
          Products,
          Overload,     \* value of the flag kafkaQueueProblems when it is on
          MaxQuantity,  \* bound on the units of one product in a cart
          MaxFaults     \* bound on the crashes and the lost carts

ASSUME CheckoutAssumption ==
    /\ IsFiniteSet(Requests)
    /\ Overload \in Nat
    /\ MaxQuantity \in Nat
    /\ MaxFaults \in Nat

VARIABLES user,      \* user[r]: the customer of PlaceOrder call r
          adder,     \* adder[a]: the customer of AddItem call a
          wanted,    \* wanted[a]: the product AddItem call a is for
          pc,        \* pc[r]: where the handler of r is, or the call it waits for
          prep,      \* prep[r]: the cart the handler read (orderPrep)
          answer,    \* answer[r]: what PlaceOrder returned
          wire,      \* requests sent to the services and not handled
          replies,   \* answers on their way to a handler
          did,       \* did[r][s]: the carts service s acted on for order r
          carts,     \* carts[u]: the cart service's cart of u
          addPc,     \* addPc[a]: where the handler of AddItem call a is
          base,      \* base[a]: the cart AddItem call a read
          producer,  \* the Kafka producer of the checkout process
          faults,    \* crashes of the checkout process and carts lost
          added,     \* history: the units AddItem stored for each customer
          clean      \* history: the customers no call of whom overlapped or broke

vars == <<user, adder, wanted, pc, prep, answer, wire, replies, did, carts,
          addPc, base, producer, faults, added, clean>>

params == <<user, adder, wanted>>
adding == <<addPc, base, added>>

Services == {"payment", "shipping", "cart", "email", "kafka"}
Answers == {"none", "ok", "internal", "unavailable"}
PCs == {"new", "getCart", "prepare", "publish", "done", "dead"} \cup Services

Carts == [Products -> 0 .. MaxQuantity]
EmptyCart == [p \in Products |-> 0]

Message == [svc : Services, r : Requests, items : Carts, copy : 0 .. Overload]
CallCopy(s, r, i) == [svc |-> s, r |-> r, items |-> prep[r], copy |-> i]
Call(s, r) == CallCopy(s, r, 0)

Init ==
    /\ user \in [Requests -> Users]
    /\ adder \in [Adds -> Users]
    /\ wanted \in [Adds -> Products]
    /\ pc = [r \in Requests |-> "new"]
    /\ prep = [r \in Requests |-> EmptyCart]
    /\ answer = [r \in Requests |-> "none"]
    /\ wire = {}
    /\ replies = {}
    /\ did = [r \in Requests |-> [s \in Services |-> << >>]]
    /\ carts = [u \in Users |-> EmptyCart]
    /\ addPc = [a \in Adds |-> "new"]
    /\ base = [a \in Adds |-> EmptyCart]
    /\ producer \in {"off", "nil", "up"}
    /\ faults = 0
    /\ added = [u \in Users |-> [p \in Products |-> 0]]
    /\ clean = Users

-----------------------------------------------------------------------------
\* A customer is idle when no call of theirs is being served, anywhere.

Active(r) == pc[r] \notin {"new", "done", "dead"}

Idle(u) ==
    /\ \A r \in Requests : user[r] = u => ~Active(r)
    /\ \A a \in Adds : adder[a] = u => addPc[a] # "read"
    /\ \A m \in wire : user[m.r] # u

\* A call of u starts: u stays clean if nothing else of theirs is running.
Begin(u) == clean' = IF Idle(u) THEN clean ELSE clean \ {u}

\* A call of u ends without its effects being known.
Spoil(u) == clean' = clean \ {u}

-----------------------------------------------------------------------------
\* The handler of PlaceOrder.

PlaceOrder(r) ==
    /\ pc[r] = "new"
    /\ pc' = [pc EXCEPT ![r] = "getCart"]
    /\ Begin(user[r])
    /\ UNCHANGED <<params, prep, answer, wire, replies, did, carts, adding, producer, faults>>

\* A mutant of GetUserCart: it may read the cart of another customer.
GetSomeCart(r) ==
    /\ pc[r] = "getCart"
    /\ \E u \in Users : prep' = [prep EXCEPT ![r] = carts[u]]
    /\ pc' = [pc EXCEPT ![r] = "prepare"]
    /\ UNCHANGED <<params, answer, wire, replies, did, carts, adding, producer, faults, clean>>

GetUserCart(r) ==
    /\ pc[r] = "getCart"
    /\ prep' = [prep EXCEPT ![r] = carts[user[r]]]
    /\ pc' = [pc EXCEPT ![r] = "prepare"]
    /\ UNCHANGED <<params, answer, wire, replies, did, carts, adding, producer, faults, clean>>

\* The handler sends its next call, after a step that ends in state `at'.
Advance(r, at, msgs) ==
    /\ pc' = [pc EXCEPT ![r] = at]
    /\ wire' = wire \cup msgs
    /\ UNCHANGED <<params, prep, answer, did, carts, adding, producer, faults>>

Return(r, a) ==
    /\ pc' = [pc EXCEPT ![r] = "done"]
    /\ answer' = [answer EXCEPT ![r] = a]
    /\ UNCHANGED <<params, prep, did, carts, adding, producer, faults>>

\* The answer to the call the handler waits for.
Receive(r, s) ==
    /\ pc[r] = s
    /\ <<s, r>> \in replies
    /\ replies' = replies \ {<<s, r>>}

\* The handler gives up on the call it waits for; an answer comes too late.
GiveUp(r, s) ==
    /\ pc[r] = s
    /\ replies' = replies \ {<<s, r>>}

\* A mutant of Prepared: the quote accepts an empty cart.
PreparedEmpty(r) ==
    /\ pc[r] = "prepare"
    /\ Advance(r, "payment", {Call("payment", r)})
    /\ UNCHANGED <<replies, clean>>

\* Products, prices and the shipping quote are in: the card is charged.  The
\* quote refuses an empty cart (its items are marshalled as null).
Prepared(r) ==
    /\ pc[r] = "prepare"
    /\ prep[r] # EmptyCart
    /\ Advance(r, "payment", {Call("payment", r)})
    /\ UNCHANGED <<replies, clean>>

PrepareFails(r) ==
    /\ pc[r] \in {"getCart", "prepare"}
    /\ Return(r, "internal")
    /\ UNCHANGED <<wire, replies, clean>>

\* A mutant of ChargeSucceeds: the customer is mailed before the goods leave.
ChargeSucceedsMailingFirst(r) ==
    /\ Receive(r, "payment")
    /\ Advance(r, "shipping", {Call("shipping", r), Call("email", r)})
    /\ UNCHANGED clean

ChargeSucceeds(r) ==
    /\ Receive(r, "payment")
    /\ Advance(r, "shipping", {Call("shipping", r)})
    /\ UNCHANGED clean

\* A mutant of ChargeFails: the handler tries the charge again.
ChargeRetried(r) ==
    /\ GiveUp(r, "payment")
    /\ Advance(r, "payment", {Call("payment", r)})
    /\ UNCHANGED clean

ChargeFails(r) ==
    /\ GiveUp(r, "payment")
    /\ Return(r, "internal")
    /\ IF Call("payment", r) \in wire \/ did[r]["payment"] # << >>
       THEN Spoil(user[r])
       ELSE UNCHANGED clean
    /\ UNCHANGED wire

\* A mutant of ShipSucceeds: the handler confirms without emptying the cart.
ShipSucceedsKeepingCart(r) ==
    /\ Receive(r, "shipping")
    /\ Advance(r, "email", {Call("email", r)})
    /\ UNCHANGED clean

ShipSucceeds(r) ==
    /\ Receive(r, "shipping")
    /\ Advance(r, "cart", {Call("cart", r)})
    /\ UNCHANGED clean

ShipFails(r) ==
    /\ GiveUp(r, "shipping")
    /\ Return(r, "unavailable")
    /\ Spoil(user[r])
    /\ UNCHANGED wire

\* emptyUserCart's error is dropped: the handler goes on either way.
CartEmptied(r) ==
    /\ Receive(r, "cart")
    /\ Advance(r, "email", {Call("email", r)})
    /\ UNCHANGED clean

CartNotEmptied(r) ==
    /\ GiveUp(r, "cart")
    /\ Advance(r, "email", {Call("email", r)})
    /\ Spoil(user[r])

\* An error of the email service is only logged.
Mailed(r) ==
    /\ Receive(r, "email") \/ GiveUp(r, "email")
    /\ \/ /\ producer = "off"
          /\ Return(r, "ok")
          /\ UNCHANGED wire
       \/ /\ producer # "off"
          /\ Advance(r, "publish", {})
    /\ UNCHANGED clean

\* sendToPostProcessor hands the order to the producer's input channel.
SendToPostProcessor(r) ==
    /\ pc[r] = "publish"
    /\ producer = "up"
    /\ Advance(r, "kafka", {Call("kafka", r)})
    /\ UNCHANGED <<replies, clean>>

\* A mutant of Published: the loop of copies runs once too often.
PublishedOnceMore(r) ==
    /\ Receive(r, "kafka") \/ GiveUp(r, "kafka")
    /\ Return(r, "ok")
    /\ wire' = wire \cup {CallCopy("kafka", r, i) : i \in 1 .. Overload + 1}
    /\ UNCHANGED clean

\* It waits for an acknowledgement or the end of its context; when the flag
\* is on it then sends further copies of the message.
Published(r) ==
    /\ Receive(r, "kafka") \/ GiveUp(r, "kafka")
    /\ Return(r, "ok")
    /\ \/ UNCHANGED wire
       \/ wire' = wire \cup {CallCopy("kafka", r, i) : i \in 1 .. Overload}
    /\ UNCHANGED clean

\* The context ended before the input channel took the message.
NotPublished(r) ==
    /\ pc[r] = "publish"
    /\ producer = "up"
    /\ Return(r, "ok")
    /\ UNCHANGED <<wire, replies, clean>>

-----------------------------------------------------------------------------
\* The process.

\* All handlers stop where they are.  The new process builds its producer
\* again and goes on without one when that fails.
Crash ==
    /\ faults < MaxFaults
    /\ faults' = faults + 1
    /\ pc' = [r \in Requests |-> IF Active(r) THEN "dead" ELSE pc[r]]
    /\ producer' \in IF producer = "off" THEN {"off"} ELSE {"nil", "up"}
    /\ replies' = {}
    /\ clean' = clean \ {user[r] : r \in {q \in Requests : Active(q)}}
    /\ UNCHANGED <<params, prep, answer, wire, did, carts, adding>>

\* The handler that publishes without a producer panics.
PublishPanics(r) ==
    /\ pc[r] = "publish"
    /\ producer = "nil"
    /\ Crash

-----------------------------------------------------------------------------
\* The services.

\* Service m.svc acts on m; its answer reaches the handler if it waits.
Acts(m) ==
    /\ wire' = wire \ {m}
    /\ did' = [did EXCEPT ![m.r][m.svc] = Append(@, m.items)]
    /\ replies' = IF pc[m.r] = m.svc THEN replies \cup {<<m.svc, m.r>>} ELSE replies
    /\ UNCHANGED <<params, pc, prep, answer, adding, producer, faults, clean>>

Charge(m) == m.svc = "payment" /\ Acts(m) /\ UNCHANGED carts

ShipOrder(m) == m.svc = "shipping" /\ Acts(m) /\ UNCHANGED carts

EmptyUserCart(m) ==
    /\ m.svc = "cart"
    /\ Acts(m)
    /\ carts' = [carts EXCEPT ![user[m.r]] = EmptyCart]

SendOrderConfirmation(m) == m.svc = "email" /\ Acts(m) /\ UNCHANGED carts

AppendToTopic(m) == m.svc = "kafka" /\ Acts(m) /\ UNCHANGED carts

\* A request that never arrives, or that its service refuses.
Refuse(m) ==
    /\ wire' = wire \ {m}
    /\ UNCHANGED <<params, pc, prep, answer, replies, did, carts, adding, producer, faults, clean>>

-----------------------------------------------------------------------------
\* AddItem of the cart service: read the cart, change the copy, write it.

Plus(c, p) == [c EXCEPT ![p] = @ + 1]

AddItemRead(a) ==
    /\ addPc[a] = "new"
    /\ addPc' = [addPc EXCEPT ![a] = "read"]
    /\ base' = [base EXCEPT ![a] = carts[adder[a]]]
    /\ Begin(adder[a])
    /\ UNCHANGED <<params, pc, prep, answer, wire, replies, did, carts, producer, faults, added>>

AddItemWrite(a) ==
    /\ addPc[a] = "read"
    /\ base[a][wanted[a]] < MaxQuantity
    /\ addPc' = [addPc EXCEPT ![a] = "done"]
    /\ carts' = [carts EXCEPT ![adder[a]] = Plus(base[a], wanted[a])]
    /\ added' = [added EXCEPT ![adder[a]] = Plus(@, wanted[a])]
    /\ UNCHANGED <<params, pc, prep, answer, wire, replies, did, base, producer, faults, clean>>

AddItemFails(a) ==
    /\ addPc[a] = "read"
    /\ addPc' = [addPc EXCEPT ![a] = "done"]
    /\ UNCHANGED <<params, pc, prep, answer, wire, replies, did, carts, base, producer, faults,
                   added, clean>>

\* Valkey drops a cart: its hour is over, or the server restarted empty.
CartLost(u) ==
    /\ carts[u] # EmptyCart
    /\ faults < MaxFaults
    /\ faults' = faults + 1
    /\ carts' = [carts EXCEPT ![u] = EmptyCart]
    /\ Spoil(u)
    /\ UNCHANGED <<params, pc, prep, answer, wire, replies, did, adding, producer>>

-----------------------------------------------------------------------------
Handler(r) ==
    \/ PlaceOrder(r) \/ GetUserCart(r) \/ Prepared(r) \/ PrepareFails(r)
    \/ ChargeSucceeds(r) \/ ChargeFails(r) \/ ShipSucceeds(r) \/ ShipFails(r)
    \/ CartEmptied(r) \/ CartNotEmptied(r) \/ Mailed(r)
    \/ SendToPostProcessor(r) \/ Published(r) \/ NotPublished(r) \/ PublishPanics(r)

Service(m) ==
    \/ Charge(m) \/ ShipOrder(m) \/ EmptyUserCart(m) \/ SendOrderConfirmation(m)
    \/ AppendToTopic(m) \/ Refuse(m)

AddItem(a) == AddItemRead(a) \/ AddItemWrite(a) \/ AddItemFails(a)

Next ==
    \/ \E r \in Requests : Handler(r)
    \/ \E m \in wire : Service(m)
    \/ \E a \in Adds : AddItem(a)
    \/ \E u \in Users : CartLost(u)
    \/ Crash

Spec == Init /\ [][Next]_vars

-----------------------------------------------------------------------------
\* Properties.

\* Type invariant of the checkout, its calls and its histories.
TypeOK ==
    /\ user \in [Requests -> Users]
    /\ adder \in [Adds -> Users]
    /\ wanted \in [Adds -> Products]
    /\ pc \in [Requests -> PCs]
    /\ prep \in [Requests -> Carts]
    /\ answer \in [Requests -> Answers]
    /\ wire \subseteq Message
    /\ replies \subseteq Services \X Requests
    /\ did \in [Requests -> [Services -> Seq(Carts)]]
    /\ carts \in [Users -> Carts]
    /\ addPc \in [Adds -> {"new", "read", "done"}]
    /\ base \in [Adds -> Carts]
    /\ producer \in {"off", "nil", "up"}
    /\ faults \in 0 .. MaxFaults
    /\ added \in [Users -> [Products -> Nat]]
    /\ clean \subseteq Users

Saga == INSTANCE OrderSaga

\* PlaceOrder keeps the contract of OrderSaga whatever is lost, late or
\* killed: at most one charge, then at most one shipment of the cart that was
\* charged, then the rest, and an answer that agrees with them.
ImplementsSaga == Saga!Spec

\* The states of a handler in which it has not yet called service s.
Before(s) ==
    {"new", "getCart", "prepare"} \cup
    CASE s = "payment" -> {}
      [] s = "shipping" -> {"payment"}
      [] s = "cart" -> {"payment", "shipping"}
      [] s = "email" -> {"payment", "shipping", "cart"}
      [] s = "kafka" -> {"payment", "shipping", "cart", "email", "publish"}

\* What a message still on the wire says about its order: a charge on the
\* wire has not happened, a shipment on the wire is paid for and has not
\* happened, and whatever else is on the wire is for goods that have left.
MessageAgrees(m) ==
    /\ m.items = prep[m.r]
    /\ m.items # EmptyCart
    /\ pc[m.r] \notin Before(m.svc)
    /\ m.svc # "kafka" => m.copy = 0 /\ did[m.r][m.svc] = << >>
    /\ m.svc = "payment" => answer[m.r] \in {"none", "internal"}
    /\ m.svc = "shipping" => /\ did[m.r]["payment"] = <<m.items>>
                             /\ answer[m.r] \in {"none", "unavailable"}
    /\ m.svc \in {"cart", "email", "kafka"} => /\ did[m.r]["shipping"] = <<m.items>>
                                               /\ answer[m.r] \in {"none", "ok"}

\* What the handler of order r knows while it runs: what it has not asked for
\* has not happened, and what was acknowledged has, for the cart it read.
HandlerKnows(r) ==
    /\ pc[r] # "done" => answer[r] = "none"
    /\ pc[r] \in Services \cup {"publish"} => prep[r] # EmptyCart
    /\ pc[r] \in {"shipping", "cart", "email", "publish", "kafka"} =>
           did[r]["payment"] = <<prep[r]>>
    /\ pc[r] \in {"cart", "email", "publish", "kafka"} => did[r]["shipping"] = <<prep[r]>>
    /\ \A s \in Services : pc[r] \in Before(s) => did[r][s] = << >>
    /\ \A s \in Services : <<s, r>> \in replies =>
           pc[r] = s /\ (s # "kafka" => did[r][s] = <<prep[r]>>)

\* The messages in flight, the handlers and the effects so far agree at every
\* moment, which is why no order of loss, delay and crash breaks the saga.
FlightInv ==
    /\ \A m \in wire : MessageAgrees(m)
    /\ \A r \in Requests : HandlerKnows(r)

\* No service ever acts on an order of nothing: a second PlaceOrder on a cart
\* the first one emptied stops before the charge.
NothingBoughtWhenEmpty ==
    \A r \in Requests, s \in Services :
        \A i \in 1 .. Len(did[r][s]) : did[r][s][i] # EmptyCart

\* However the reads and writes of carts interleave, an order never holds
\* more of a product than its own customer put into the cart.
BoughtWasAdded ==
    \A r \in Requests, s \in Services, p \in Products :
        \A i \in 1 .. Len(did[r][s]) : did[r][s][i][p] <= added[user[r]][p]

\* The units of product p that service s acted on for customer u, each named by
\* its order and its place among the units of that order.
UnitSet(u, s, p) ==
    {x \in Requests \X (1 .. MaxQuantity) :
        user[x[1]] = u /\ did[x[1]][s] # << >> /\ x[2] <= did[x[1]][s][1][p]}

Units(u, s, p) == Cardinality(UnitSet(u, s, p))

\* A customer whose calls never overlapped, broke or were left unanswered
\* paid once for every unit shipped, and each unit they added is either
\* still in the cart or was shipped once.
UnitsConserved ==
    \A u \in clean : Idle(u) =>
        \A p \in Products :
            /\ added[u][p] = carts[u][p] + Units(u, "shipping", p)
            /\ Units(u, "payment", p) = Units(u, "shipping", p)
=============================================================================
