--------------------------- MODULE CheckoutProofs ---------------------------
(***************************************************************************)
(* Proofs about module Checkout for any number of calls, customers and     *)
(* products: its type invariant, the agreement of messages, handlers and   *)
(* effects (FlightInv), from it the contract of OrderSaga, and that units   *)
(* bought are units added (CleanInv).                                      *)
(***************************************************************************)
EXTENDS Checkout, SequenceTheorems, FiniteSetTheorems, TLAPS

LEMMA CartTypes == EmptyCart \in Carts
  BY CheckoutAssumption DEF EmptyCart, Carts

LEMMA CallType ==
  ASSUME NEW r \in Requests, NEW s \in Services, NEW i \in 0 .. Overload,
         prep \in [Requests -> Carts]
  PROVE  CallCopy(s, r, i) \in Message
  BY DEF CallCopy, Message

LEMMA PlusType ==
  ASSUME NEW c \in Carts, NEW p \in Products, c[p] < MaxQuantity
  PROVE  Plus(c, p) \in Carts
  BY CheckoutAssumption DEF Plus, Carts

\* Every variable keeps the set of values the code gives it.
THEOREM TypeCorrect == Spec => []TypeOK
<1>1. Init => TypeOK
  BY CartTypes, CheckoutAssumption DEF Init, TypeOK, PCs, Answers, EmptyCart, Carts
<1>2. TypeOK /\ [Next]_vars => TypeOK'
  <2> SUFFICES ASSUME TypeOK, [Next]_vars PROVE TypeOK'
    OBVIOUS
  <2> USE DEF TypeOK, PCs, Answers, params, adding
  <2>1. ASSUME NEW r \in Requests, Handler(r) PROVE TypeOK'
    <3> USE <2>1
    <3>0. \A s \in Services : Call(s, r) \in Message
      BY CallType, CheckoutAssumption DEF Call
    <3>1. CASE PlaceOrder(r) BY <3>1 DEF PlaceOrder, Begin
    <3>2. CASE GetUserCart(r) BY <3>2 DEF GetUserCart
    <3>3. CASE Prepared(r) BY <3>0, <3>3 DEF Prepared, Advance, Services
    <3>4. CASE PrepareFails(r) BY <3>4 DEF PrepareFails, Return
    <3>5. CASE ChargeSucceeds(r) BY <3>0, <3>5 DEF ChargeSucceeds, Receive, Advance, Services
    <3>6. CASE ChargeFails(r) BY <3>6 DEF ChargeFails, GiveUp, Return, Spoil
    <3>7. CASE ShipSucceeds(r) BY <3>0, <3>7 DEF ShipSucceeds, Receive, Advance, Services
    <3>8. CASE ShipFails(r) BY <3>8 DEF ShipFails, GiveUp, Return, Spoil
    <3>9. CASE CartEmptied(r) BY <3>0, <3>9 DEF CartEmptied, Receive, Advance, Services
    <3>10. CASE CartNotEmptied(r) BY <3>0, <3>10 DEF CartNotEmptied, GiveUp, Advance, Spoil, Services
    <3>11. CASE Mailed(r) BY <3>11 DEF Mailed, Receive, GiveUp, Return, Advance
    <3>12. CASE SendToPostProcessor(r)
      BY <3>0, <3>12 DEF SendToPostProcessor, Advance, Services
    <3>13. CASE Published(r)
      <4>1. {CallCopy("kafka", r, i) : i \in 1 .. Overload} \subseteq Message
        BY CallType, CheckoutAssumption DEF Services
      <4> QED BY <4>1, <3>13 DEF Published, Receive, GiveUp, Return
    <3>14. CASE NotPublished(r) BY <3>14 DEF NotPublished, Return
    <3>15. CASE PublishPanics(r)
      BY <3>15, CheckoutAssumption DEF PublishPanics, Crash
    <3> QED
      BY <3>1, <3>2, <3>3, <3>4, <3>5, <3>6, <3>7, <3>8, <3>9, <3>10, <3>11, <3>12, <3>13,
         <3>14, <3>15 DEF Handler
  <2>2. ASSUME NEW m \in wire, Service(m) PROVE TypeOK'
    <3>0. m \in Message /\ m.r \in Requests /\ m.svc \in Services /\ m.items \in Carts
      BY DEF Message
    <3>1. ASSUME Acts(m) PROVE /\ did' \in [Requests -> [Services -> Seq(Carts)]]
                               /\ wire' \subseteq Message
                               /\ replies' \subseteq Services \X Requests
      BY <3>0, <3>1 DEF Acts
    <3>2. CASE Acts(m) /\ UNCHANGED carts
      BY <3>0, <3>1, <3>2 DEF Acts
    <3>3. CASE EmptyUserCart(m)
      BY <3>0, <3>1, <3>3, CartTypes DEF EmptyUserCart, Acts
    <3>4. CASE Refuse(m) BY <3>4 DEF Refuse
    <3> QED
      BY <2>2, <3>2, <3>3, <3>4
      DEF Service, Charge, ShipOrder, SendOrderConfirmation, AppendToTopic
  <2>3. ASSUME NEW a \in Adds, AddItem(a) PROVE TypeOK'
    <3>1. CASE AddItemRead(a) BY <3>1 DEF AddItemRead, Begin
    <3>2. CASE AddItemWrite(a)
      <4>1. Plus(base[a], wanted[a]) \in Carts
        BY <3>2, PlusType DEF AddItemWrite
      <4>2. Plus(added[adder[a]], wanted[a]) \in [Products -> Nat]
        BY DEF Plus
      <4> QED BY <4>1, <4>2, <3>2 DEF AddItemWrite
    <3>3. CASE AddItemFails(a) BY <3>3 DEF AddItemFails
    <3> QED BY <2>3, <3>1, <3>2, <3>3 DEF AddItem
  <2>4. CASE Crash BY <2>4, CheckoutAssumption DEF Crash
  <2>5. ASSUME NEW u \in Users, CartLost(u) PROVE TypeOK'
    BY <2>5, CartTypes, CheckoutAssumption DEF CartLost, Spoil
  <2>6. CASE UNCHANGED vars BY <2>6 DEF vars
  <2> QED BY <2>1, <2>2, <2>3, <2>4, <2>5, <2>6 DEF Next
<1> QED BY <1>1, <1>2, PTL DEF Spec

-----------------------------------------------------------------------------
\* The sets of handler states written out.
LEMMA BeforeSets ==
  /\ Before("payment") = {"new", "getCart", "prepare"}
  /\ Before("shipping") = {"new", "getCart", "prepare", "payment"}
  /\ Before("cart") = {"new", "getCart", "prepare", "payment", "shipping"}
  /\ Before("email") = {"new", "getCart", "prepare", "payment", "shipping", "cart"}
  /\ Before("kafka") =
        {"new", "getCart", "prepare", "payment", "shipping", "cart", "email", "publish"}
  BY DEF Before

\* A step keeps what is known of an order whose own state it leaves alone.
LEMMA OtherHandler ==
  ASSUME NEW q \in Requests, HandlerKnows(q),
         pc'[q] = pc[q], answer'[q] = answer[q], prep'[q] = prep[q], did'[q] = did[q],
         \A s \in Services : <<s, q>> \in replies' => <<s, q>> \in replies
  PROVE  HandlerKnows(q)'
  BY DEF HandlerKnows

LEMMA OtherMessage ==
  ASSUME NEW m, MessageAgrees(m), pc'[m.r] = pc[m.r], answer'[m.r] = answer[m.r],
         prep'[m.r] = prep[m.r], did'[m.r] = did[m.r]
  PROVE  MessageAgrees(m)'
  BY DEF MessageAgrees

\* A handler step touches its own order only, so what it must keep is what is
\* known of that order and of the messages about it.
OwnStep(r) ==
    /\ \A q \in Requests \ {r} :
          /\ pc'[q] = pc[q] /\ answer'[q] = answer[q] /\ prep'[q] = prep[q]
          /\ \A s \in Services : <<s, q>> \in replies' => <<s, q>> \in replies
    /\ did' = did
    /\ \A m \in wire' : m.r = r \/ m \in wire

LEMMA OwnStepSuffices ==
  ASSUME TypeOK, TypeOK', FlightInv, NEW r \in Requests, OwnStep(r),
         HandlerKnows(r)', \A m \in wire' : m.r = r => MessageAgrees(m)'
  PROVE  FlightInv'
<1>1. ASSUME NEW q \in Requests PROVE HandlerKnows(q)'
  <2>1. CASE q = r BY <2>1
  <2>2. CASE q # r BY <2>2, OtherHandler DEF OwnStep, FlightInv
  <2> QED BY <2>1, <2>2
<1>2. ASSUME NEW m \in wire' PROVE MessageAgrees(m)'
  <2>1. CASE m.r = r BY <2>1
  <2>2. CASE m.r # r
    <3>1. m \in wire /\ m.r \in Requests BY <2>2 DEF OwnStep, TypeOK, Message
    <3> QED BY <2>2, <3>1, OtherMessage DEF OwnStep, FlightInv
  <2> QED BY <2>1, <2>2
<1> QED BY <1>1, <1>2 DEF FlightInv

\* The handler that took or gave up on its answer has none left.
LEMMA NoAnswerLeft ==
  ASSUME TypeOK, FlightInv, NEW r \in Requests, NEW s \in Services,
         Receive(r, s) \/ GiveUp(r, s)
  PROVE  /\ pc[r] = s
         /\ \A t \in Services : <<t, r>> \notin replies'
         /\ \A t \in Services, q \in Requests : <<t, q>> \in replies' => <<t, q>> \in replies
  BY DEF FlightInv, HandlerKnows, Receive, GiveUp

LEMMA NoAnswerYet ==
  ASSUME TypeOK, FlightInv, NEW r \in Requests, pc[r] \notin Services, UNCHANGED replies
  PROVE  /\ \A t \in Services : <<t, r>> \notin replies'
         /\ \A t \in Services, q \in Requests : <<t, q>> \in replies' => <<t, q>> \in replies
  BY DEF FlightInv, HandlerKnows

\* Moving on to the next call keeps what the handler knows, and the messages
\* already on the wire stay in agreement; the new ones must agree as well.
LEMMA AdvanceKeeps ==
  ASSUME TypeOK, TypeOK', FlightInv, NEW r \in Requests,
         NEW at \in Services \cup {"publish"},
         pc' = [pc EXCEPT ![r] = at], UNCHANGED <<prep, answer, did>>,
         pc[r] # "done",
         \A t \in Services : <<t, r>> \notin replies',
         \A t \in Services, q \in Requests : <<t, q>> \in replies' => <<t, q>> \in replies,
         prep[r] # EmptyCart,
         at # "payment" => did[r]["payment"] = <<prep[r]>>,
         at \notin {"payment", "shipping"} => did[r]["shipping"] = <<prep[r]>>,
         \A t \in Services : at \in Before(t) => pc[r] \in Before(t),
         \A m \in wire' : m \in wire \/ (m.r = r /\ MessageAgrees(m)')
  PROVE  FlightInv'
<1>0. /\ pc'[r] = at /\ at # "done"
      /\ \A q \in Requests \ {r} : pc'[q] = pc[q]
  BY DEF TypeOK, Services
<1>1. OwnStep(r)
  BY <1>0 DEF OwnStep
<1>2. HandlerKnows(r)'
  BY <1>0 DEF FlightInv, HandlerKnows
<1>3. ASSUME NEW m \in wire', m.r = r PROVE MessageAgrees(m)'
  <2>1. CASE m \in wire
    <3>1. MessageAgrees(m) /\ m.svc \in Services
      BY <2>1 DEF FlightInv, TypeOK, Message
    <3> QED BY <1>0, <1>3, <3>1 DEF MessageAgrees
  <2> QED BY <2>1, <1>3
<1> QED BY <1>1, <1>2, <1>3, OwnStepSuffices

\* Returning: the answer agrees with what the messages left on the wire say.
LEMMA ReturnKeeps ==
  ASSUME TypeOK, TypeOK', FlightInv, NEW r \in Requests, NEW a \in Answers, Return(r, a),
         \A t \in Services : <<t, r>> \notin replies',
         \A t \in Services, q \in Requests : <<t, q>> \in replies' => <<t, q>> \in replies,
         \/ a = "internal" /\ pc[r] \in {"getCart", "prepare", "payment"}
         \/ a = "unavailable" /\ pc[r] = "shipping"
         \/ a = "ok" /\ pc[r] \in {"email", "publish", "kafka"},
         \A m \in wire' : m \in wire \/ (a = "ok" /\ m.svc = "kafka" /\ m.r = r /\ m.items = prep[r])
  PROVE  FlightInv'
<1>0. HandlerKnows(r) /\ \A m \in wire : MessageAgrees(m)
  BY DEF FlightInv
<1>1. OwnStep(r)
  BY DEF Return, OwnStep, TypeOK
<1>2. pc'[r] = "done" /\ did' = did /\ prep' = prep
  BY DEF Return, TypeOK
<1>3. "done" \notin Before("kafka") /\ \A s \in Services : "done" \notin Before(s)
  BY BeforeSets DEF Services
<1>5. HandlerKnows(r)'
  BY <1>2, <1>3 DEF HandlerKnows, Services
<1>4. ASSUME NEW m \in wire', m.r = r PROVE MessageAgrees(m)'
  <2>0. /\ pc'[r] = "done" /\ answer'[r] = a /\ prep'[r] = prep[r] /\ did' = did
    BY DEF Return, TypeOK
  <2>1. CASE m \in wire
    <3>1. MessageAgrees(m) /\ m.svc \in Services
      BY <2>1 DEF FlightInv, TypeOK, Message
    <3>2. m.svc = "payment" => a = "internal"
      BY <3>1, <1>0, <1>4 DEF MessageAgrees, HandlerKnows
    <3>3. m.svc = "shipping" => a = "unavailable"
      BY <3>1, <1>0, <1>4, BeforeSets DEF MessageAgrees, HandlerKnows
    <3>4. m.svc \in {"cart", "email", "kafka"} => a = "ok"
      BY <3>1, <1>4, BeforeSets DEF MessageAgrees
    <3> QED BY <1>3, <1>4, <2>0, <3>1, <3>2, <3>3, <3>4 DEF MessageAgrees
  <2>2. CASE a = "ok" /\ m.svc = "kafka" /\ m.r = r /\ m.items = prep[r]
    BY <1>0, <1>3, <2>0, <2>2 DEF MessageAgrees, HandlerKnows, Services
  <2> QED BY <2>1, <2>2
<1> QED BY <1>1, <1>4, <1>5, OwnStepSuffices

\* A crash stops handlers and loses answers; what it leaves behind agrees.
LEMMA CrashKeeps ==
  ASSUME TypeOK, TypeOK', FlightInv, Crash
  PROVE  FlightInv'
<1>0. /\ pc' = [r \in Requests |-> IF Active(r) THEN "dead" ELSE pc[r]]
      /\ replies' = {}
      /\ UNCHANGED <<prep, answer, wire, did>>
  BY DEF Crash
<1>1. \A r \in Requests : pc'[r] = pc[r] \/ (pc'[r] = "dead" /\ pc[r] # "done")
  BY <1>0 DEF Active
<1>2. \A s \in Services : "dead" \notin Before(s)
  BY BeforeSets DEF Services
<1>3. ASSUME NEW r \in Requests PROVE HandlerKnows(r)'
  BY <1>0, <1>1, <1>2 DEF FlightInv, HandlerKnows, Services
<1>4. ASSUME NEW m \in wire' PROVE MessageAgrees(m)'
  <2>1. m \in wire /\ m.r \in Requests /\ m.svc \in Services
    BY <1>0 DEF TypeOK, Message
  <2> QED BY <1>0, <1>1, <1>2, <2>1 DEF FlightInv, MessageAgrees
<1> QED BY <1>3, <1>4 DEF FlightInv

\* A step of a handler keeps what is known.
LEMMA HandlerKeeps ==
  ASSUME TypeOK, TypeOK', FlightInv, NEW r \in Requests, Handler(r)
  PROVE  FlightInv'
<1> USE DEF TypeOK, PCs, Answers, params, adding, Message, Services
<1>0. HandlerKnows(r) /\ \A m \in wire : MessageAgrees(m)
  BY DEF FlightInv
<1>1. CASE PlaceOrder(r)
  <2>1. OwnStep(r) BY <1>1 DEF PlaceOrder, OwnStep
  <2>2. HandlerKnows(r)' BY <1>0, <1>1, BeforeSets DEF PlaceOrder, HandlerKnows
  <2>3. \A m \in wire' : m.r = r => MessageAgrees(m)'
    BY <1>0, <1>1, BeforeSets DEF PlaceOrder, MessageAgrees
  <2> QED BY <2>1, <2>2, <2>3, OwnStepSuffices
<1>2. CASE GetUserCart(r)
  <2>1. OwnStep(r) BY <1>2 DEF GetUserCart, OwnStep
  <2>2. HandlerKnows(r)' BY <1>0, <1>2, BeforeSets DEF GetUserCart, HandlerKnows
  <2>3. \A m \in wire' : m.r = r => MessageAgrees(m)'
    BY <1>0, <1>2, BeforeSets DEF GetUserCart, MessageAgrees
  <2> QED BY <2>1, <2>2, <2>3, OwnStepSuffices
<1>3. CASE Prepared(r)
  <2>1. pc[r] = "prepare" /\ Advance(r, "payment", {Call("payment", r)})
    BY <1>3 DEF Prepared
  <2>2. /\ \A t \in Services : <<t, r>> \notin replies'
        /\ \A t \in Services, q \in Requests : <<t, q>> \in replies' => <<t, q>> \in replies
    BY <1>3, <2>1, NoAnswerYet DEF Prepared
  <2>3. /\ prep[r] # EmptyCart
        /\ "payment" # "payment" => did[r]["payment"] = <<prep[r]>>
        /\ "payment" \notin {"payment", "shipping"} => did[r]["shipping"] = <<prep[r]>>
    BY <1>0, <1>3, <2>1 DEF Prepared, HandlerKnows
  <2>4. ASSUME NEW m \in wire' PROVE m \in wire \/ (m.r = r /\ MessageAgrees(m)')
    <3>1. m \in wire \/ m = Call("payment", r)
      BY <2>1 DEF Advance
    <3>2. CASE m = Call("payment", r)
      BY <1>0, <2>1, <2>3, <3>2, BeforeSets DEF Advance, Call, CallCopy, MessageAgrees, HandlerKnows
    <3> QED BY <3>1, <3>2
  <2>5. \A t \in Services : "payment" \in Before(t) => pc[r] \in Before(t)
    BY <2>1, BeforeSets
  <2> QED BY <2>1, <2>2, <2>3, <2>4, <2>5, AdvanceKeeps DEF Advance
<1>4. CASE ChargeSucceeds(r)
  <2>1. pc[r] = "payment" /\ Advance(r, "shipping", {Call("shipping", r)})
    BY <1>4 DEF ChargeSucceeds, Receive
  <2>2. /\ \A t \in Services : <<t, r>> \notin replies'
        /\ \A t \in Services, q \in Requests : <<t, q>> \in replies' => <<t, q>> \in replies
    BY <1>4, NoAnswerLeft DEF ChargeSucceeds
  <2>3. /\ prep[r] # EmptyCart
        /\ "shipping" # "payment" => did[r]["payment"] = <<prep[r]>>
        /\ "shipping" \notin {"payment", "shipping"} => did[r]["shipping"] = <<prep[r]>>
    BY <1>0, <1>4, <2>1 DEF ChargeSucceeds, Receive, HandlerKnows
  <2>4. ASSUME NEW m \in wire' PROVE m \in wire \/ (m.r = r /\ MessageAgrees(m)')
    <3>1. m \in wire \/ m = Call("shipping", r)
      BY <2>1 DEF Advance
    <3>2. CASE m = Call("shipping", r)
      BY <1>0, <2>1, <2>3, <3>2, BeforeSets DEF Advance, Call, CallCopy, MessageAgrees, HandlerKnows
    <3> QED BY <3>1, <3>2
  <2>5. \A t \in Services : "shipping" \in Before(t) => pc[r] \in Before(t)
    BY <2>1, BeforeSets
  <2> QED BY <2>1, <2>2, <2>3, <2>4, <2>5, AdvanceKeeps DEF Advance
<1>5. CASE ShipSucceeds(r)
  <2>1. pc[r] = "shipping" /\ Advance(r, "cart", {Call("cart", r)})
    BY <1>5 DEF ShipSucceeds, Receive
  <2>2. /\ \A t \in Services : <<t, r>> \notin replies'
        /\ \A t \in Services, q \in Requests : <<t, q>> \in replies' => <<t, q>> \in replies
    BY <1>5, NoAnswerLeft DEF ShipSucceeds
  <2>3. /\ prep[r] # EmptyCart
        /\ "cart" # "payment" => did[r]["payment"] = <<prep[r]>>
        /\ "cart" \notin {"payment", "shipping"} => did[r]["shipping"] = <<prep[r]>>
    BY <1>0, <1>5, <2>1 DEF ShipSucceeds, Receive, HandlerKnows
  <2>4. ASSUME NEW m \in wire' PROVE m \in wire \/ (m.r = r /\ MessageAgrees(m)')
    <3>1. m \in wire \/ m = Call("cart", r)
      BY <2>1 DEF Advance
    <3>2. CASE m = Call("cart", r)
      BY <1>0, <2>1, <2>3, <3>2, BeforeSets DEF Advance, Call, CallCopy, MessageAgrees, HandlerKnows
    <3> QED BY <3>1, <3>2
  <2>5. \A t \in Services : "cart" \in Before(t) => pc[r] \in Before(t)
    BY <2>1, BeforeSets
  <2> QED BY <2>1, <2>2, <2>3, <2>4, <2>5, AdvanceKeeps DEF Advance
<1>6. CASE CartEmptied(r)
  <2>1. pc[r] = "cart" /\ Advance(r, "email", {Call("email", r)})
    BY <1>6 DEF CartEmptied, Receive
  <2>2. /\ \A t \in Services : <<t, r>> \notin replies'
        /\ \A t \in Services, q \in Requests : <<t, q>> \in replies' => <<t, q>> \in replies
    BY <1>6, NoAnswerLeft DEF CartEmptied
  <2>3. /\ prep[r] # EmptyCart
        /\ "email" # "payment" => did[r]["payment"] = <<prep[r]>>
        /\ "email" \notin {"payment", "shipping"} => did[r]["shipping"] = <<prep[r]>>
    BY <1>0, <1>6, <2>1 DEF CartEmptied, Receive, HandlerKnows
  <2>4. ASSUME NEW m \in wire' PROVE m \in wire \/ (m.r = r /\ MessageAgrees(m)')
    <3>1. m \in wire \/ m = Call("email", r)
      BY <2>1 DEF Advance
    <3>2. CASE m = Call("email", r)
      BY <1>0, <2>1, <2>3, <3>2, BeforeSets DEF Advance, Call, CallCopy, MessageAgrees, HandlerKnows
    <3> QED BY <3>1, <3>2
  <2>5. \A t \in Services : "email" \in Before(t) => pc[r] \in Before(t)
    BY <2>1, BeforeSets
  <2> QED BY <2>1, <2>2, <2>3, <2>4, <2>5, AdvanceKeeps DEF Advance
<1>7. CASE CartNotEmptied(r)
  <2>1. pc[r] = "cart" /\ Advance(r, "email", {Call("email", r)})
    BY <1>7 DEF CartNotEmptied, GiveUp
  <2>2. /\ \A t \in Services : <<t, r>> \notin replies'
        /\ \A t \in Services, q \in Requests : <<t, q>> \in replies' => <<t, q>> \in replies
    BY <1>7, NoAnswerLeft DEF CartNotEmptied
  <2>3. /\ prep[r] # EmptyCart
        /\ "email" # "payment" => did[r]["payment"] = <<prep[r]>>
        /\ "email" \notin {"payment", "shipping"} => did[r]["shipping"] = <<prep[r]>>
    BY <1>0, <1>7, <2>1 DEF CartNotEmptied, GiveUp, HandlerKnows
  <2>4. ASSUME NEW m \in wire' PROVE m \in wire \/ (m.r = r /\ MessageAgrees(m)')
    <3>1. m \in wire \/ m = Call("email", r)
      BY <2>1 DEF Advance
    <3>2. CASE m = Call("email", r)
      BY <1>0, <2>1, <2>3, <3>2, BeforeSets DEF Advance, Call, CallCopy, MessageAgrees, HandlerKnows
    <3> QED BY <3>1, <3>2
  <2>5. \A t \in Services : "email" \in Before(t) => pc[r] \in Before(t)
    BY <2>1, BeforeSets
  <2> QED BY <2>1, <2>2, <2>3, <2>4, <2>5, AdvanceKeeps DEF Advance
<1>8. CASE SendToPostProcessor(r)
  <2>1. pc[r] = "publish" /\ Advance(r, "kafka", {Call("kafka", r)})
    BY <1>8 DEF SendToPostProcessor
  <2>2. /\ \A t \in Services : <<t, r>> \notin replies'
        /\ \A t \in Services, q \in Requests : <<t, q>> \in replies' => <<t, q>> \in replies
    BY <1>8, <2>1, NoAnswerYet DEF SendToPostProcessor
  <2>3. /\ prep[r] # EmptyCart
        /\ "kafka" # "payment" => did[r]["payment"] = <<prep[r]>>
        /\ "kafka" \notin {"payment", "shipping"} => did[r]["shipping"] = <<prep[r]>>
    BY <1>0, <1>8, <2>1 DEF SendToPostProcessor, HandlerKnows
  <2>4. ASSUME NEW m \in wire' PROVE m \in wire \/ (m.r = r /\ MessageAgrees(m)')
    <3>1. m \in wire \/ m = Call("kafka", r)
      BY <2>1 DEF Advance
    <3>2. CASE m = Call("kafka", r)
      BY <1>0, <2>1, <2>3, <3>2, BeforeSets DEF Advance, Call, CallCopy, MessageAgrees, HandlerKnows
    <3> QED BY <3>1, <3>2
  <2>5. \A t \in Services : "kafka" \in Before(t) => pc[r] \in Before(t)
    BY <2>1, BeforeSets
  <2> QED BY <2>1, <2>2, <2>3, <2>4, <2>5, AdvanceKeeps DEF Advance
<1>9. CASE PrepareFails(r)
  <2>1. Return(r, "internal") /\ pc[r] \in {"getCart", "prepare"}
    BY <1>9 DEF PrepareFails
  <2>2. /\ \A t \in Services : <<t, r>> \notin replies'
        /\ \A t \in Services, q \in Requests : <<t, q>> \in replies' => <<t, q>> \in replies
    BY <1>9, NoAnswerYet DEF PrepareFails
  <2>3. \A m \in wire' : m \in wire
    BY <1>9 DEF PrepareFails
  <2> QED BY <2>1, <2>2, <2>3, ReturnKeeps
<1>10. CASE ChargeFails(r)
  <2>1. Return(r, "internal") /\ pc[r] \in {"payment"}
    BY <1>10 DEF ChargeFails, GiveUp
  <2>2. /\ \A t \in Services : <<t, r>> \notin replies'
        /\ \A t \in Services, q \in Requests : <<t, q>> \in replies' => <<t, q>> \in replies
    BY <1>10, NoAnswerLeft DEF ChargeFails
  <2>3. \A m \in wire' : m \in wire
    BY <1>10 DEF ChargeFails
  <2> QED BY <2>1, <2>2, <2>3, ReturnKeeps
<1>11. CASE ShipFails(r)
  <2>1. Return(r, "unavailable") /\ pc[r] \in {"shipping"}
    BY <1>11 DEF ShipFails, GiveUp
  <2>2. /\ \A t \in Services : <<t, r>> \notin replies'
        /\ \A t \in Services, q \in Requests : <<t, q>> \in replies' => <<t, q>> \in replies
    BY <1>11, NoAnswerLeft DEF ShipFails
  <2>3. \A m \in wire' : m \in wire
    BY <1>11 DEF ShipFails
  <2> QED BY <2>1, <2>2, <2>3, ReturnKeeps
<1>12. CASE Published(r)
  <2>1. Return(r, "ok") /\ pc[r] \in {"kafka"}
    BY <1>12 DEF Published, Receive, GiveUp
  <2>2. /\ \A t \in Services : <<t, r>> \notin replies'
        /\ \A t \in Services, q \in Requests : <<t, q>> \in replies' => <<t, q>> \in replies
    BY <1>12, NoAnswerLeft DEF Published
  <2>3. \A m \in wire' : m \in wire \/ (m.svc = "kafka" /\ m.r = r /\ m.items = prep[r])
    <3>1. \/ wire' = wire
          \/ wire' = wire \cup {CallCopy("kafka", r, i) : i \in 1 .. Overload}
      BY <1>12 DEF Published
    <3>2. CASE wire' = wire
      BY <3>2
    <3>3. CASE wire' = wire \cup {CallCopy("kafka", r, i) : i \in 1 .. Overload}
      <4>1. SUFFICES ASSUME NEW m \in wire', m \notin wire
                     PROVE  m.svc = "kafka" /\ m.r = r /\ m.items = prep[r]
        OBVIOUS
      <4>2. \E i \in 1 .. Overload : m = CallCopy("kafka", r, i)
        BY <3>3, <4>1, Zenon
      <4> QED BY <4>2 DEF CallCopy
    <3> QED BY <3>1, <3>2, <3>3
  <2> QED BY <2>1, <2>2, <2>3, ReturnKeeps
<1>13. CASE NotPublished(r)
  <2>1. Return(r, "ok") /\ pc[r] \in {"publish"}
    BY <1>13 DEF NotPublished
  <2>2. /\ \A t \in Services : <<t, r>> \notin replies'
        /\ \A t \in Services, q \in Requests : <<t, q>> \in replies' => <<t, q>> \in replies
    BY <1>13, NoAnswerYet DEF NotPublished
  <2>3. \A m \in wire' : m \in wire
    BY <1>13 DEF NotPublished
  <2> QED BY <2>1, <2>2, <2>3, ReturnKeeps
<1>14. CASE Mailed(r)
  <2>1. /\ pc[r] = "email"
        /\ \A t \in Services : <<t, r>> \notin replies'
        /\ \A t \in Services, q \in Requests : <<t, q>> \in replies' => <<t, q>> \in replies
    BY <1>14, NoAnswerLeft DEF Mailed
  <2>2. CASE Return(r, "ok") /\ UNCHANGED wire
    BY <2>1, <2>2, ReturnKeeps
  <2>3. CASE Advance(r, "publish", {})
    <3>1. /\ prep[r] # EmptyCart
          /\ did[r]["payment"] = <<prep[r]>>
          /\ did[r]["shipping"] = <<prep[r]>>
      BY <1>0, <2>1 DEF HandlerKnows
    <3>2. \A t \in Services : "publish" \in Before(t) => pc[r] \in Before(t)
      BY <2>1, BeforeSets
    <3> QED BY <2>1, <2>3, <3>1, <3>2, AdvanceKeeps DEF Advance
  <2> QED BY <1>14, <2>2, <2>3 DEF Mailed
<1>15. CASE PublishPanics(r)
  BY <1>15, CrashKeeps DEF PublishPanics
<1> QED
  BY <1>1, <1>2, <1>3, <1>4, <1>5, <1>6, <1>7, <1>8, <1>9, <1>10, <1>11, <1>12, <1>13, <1>14,
     <1>15 DEF Handler

LEMMA AppendToEmpty ==
  ASSUME NEW S, NEW c \in S
  PROVE  Append(<< >>, c) = <<c>>
  OBVIOUS

\* A service that acts on a message keeps what is known.
LEMMA ActsKeeps ==
  ASSUME TypeOK, TypeOK', FlightInv, NEW m \in wire, Acts(m)
  PROVE  FlightInv'
<1> DEFINE r == m.r
<1>0. /\ r \in Requests /\ m.svc \in Services /\ m.items \in Carts
      /\ m.items = prep[r]
      /\ MessageAgrees(m) /\ HandlerKnows(r)
  BY DEF TypeOK, Message, FlightInv, MessageAgrees
<1>1. /\ \A q \in Requests \ {r} : did'[q] = did[q]
      /\ \A s \in Services \ {m.svc} : did'[r][s] = did[r][s]
  BY <1>0 DEF Acts, TypeOK
<1>2. m.svc # "kafka" => did'[r][m.svc] = <<prep[r]>>
  <2>1. did'[r][m.svc] = Append(did[r][m.svc], m.items)
    BY <1>0 DEF Acts, TypeOK
  <2> QED BY <1>0, <2>1, AppendToEmpty DEF MessageAgrees
<1>3. pc' = pc /\ answer' = answer /\ prep' = prep /\ wire' = wire \ {m}
  BY DEF Acts
<1>4. \A s \in Services : <<s, r>> \in replies' =>
         <<s, r>> \in replies \/ (s = m.svc /\ pc[r] = s)
  BY DEF Acts
<1>5. ASSUME NEW q \in Requests PROVE HandlerKnows(q)'
  <2>1. CASE q # r
    <3>1. \A s \in Services : <<s, q>> \in replies' => <<s, q>> \in replies
      BY <2>1 DEF Acts
    <3> QED BY <2>1, <1>0, <1>1, <1>3, <3>1, OtherHandler DEF FlightInv
  <2>2. CASE q = r
    <3>1. pc[r] \notin Before(m.svc)
      BY <1>0 DEF MessageAgrees
    <3>2. \A s \in Services : <<s, r>> \in replies' =>
             pc'[r] = s /\ (s # "kafka" => did'[r][s] = <<prep[r]>>)
      BY <1>0, <1>1, <1>2, <1>3, <1>4 DEF HandlerKnows
    <3>3. \A s \in Services : pc[r] \in Before(s) => did'[r][s] = << >>
      BY <1>0, <1>1, <3>1 DEF HandlerKnows
    <3>4. did[r]["payment"] = <<prep[r]>> => did'[r]["payment"] = <<prep[r]>>
      BY <1>0, <1>1, <1>2 DEF Services
    <3>5. did[r]["shipping"] = <<prep[r]>> => did'[r]["shipping"] = <<prep[r]>>
      BY <1>0, <1>1, <1>2 DEF Services
    <3> QED BY <1>0, <1>3, <2>2, <3>2, <3>3, <3>4, <3>5 DEF HandlerKnows
  <2> QED BY <2>1, <2>2
<1>6. ASSUME NEW n \in wire' PROVE MessageAgrees(n)'
  <2>0. n \in wire /\ n # m /\ n.r \in Requests /\ n.svc \in Services /\ MessageAgrees(n)
    BY <1>3 DEF TypeOK, Message, FlightInv
  <2>1. CASE n.r # r
    BY <1>1, <1>3, <2>0, <2>1, OtherMessage
  <2>2. CASE n.r = r
    <3>1. n.svc = m.svc => m.svc = "kafka"
      <4> SUFFICES ASSUME n.svc = m.svc, m.svc # "kafka" PROVE FALSE
        OBVIOUS
      <4>1. n.copy = 0 /\ m.copy = 0 /\ n.items = m.items
        BY <1>0, <2>0, <2>2 DEF MessageAgrees
      <4>2. n \in Message /\ m \in Message
        BY <2>0 DEF TypeOK
      <4> QED BY <2>0, <2>2, <4>1, <4>2 DEF Message
    <3>2. n.svc # "kafka" => did'[r][n.svc] = << >>
      BY <1>1, <2>0, <2>2, <3>1 DEF MessageAgrees
    <3>3. n.svc = "shipping" => did'[r]["payment"] = <<n.items>>
      BY <1>0, <1>1, <1>2, <2>0, <2>2 DEF MessageAgrees, Services
    <3>4. n.svc \in {"cart", "email", "kafka"} => did'[r]["shipping"] = <<n.items>>
      BY <1>0, <1>1, <1>2, <2>0, <2>2 DEF MessageAgrees, Services
    <3> QED BY <1>3, <2>0, <2>2, <3>2, <3>3, <3>4 DEF MessageAgrees
  <2> QED BY <2>1, <2>2
<1> QED BY <1>5, <1>6 DEF FlightInv

\* The messages, the handlers and the effects agree in every state.
THEOREM Flight == Spec => []FlightInv
<1>1. Init => FlightInv
  BY DEF Init, FlightInv, MessageAgrees, HandlerKnows, Services
<1>2. TypeOK /\ TypeOK' /\ FlightInv /\ [Next]_vars => FlightInv'
  <2> SUFFICES ASSUME TypeOK, TypeOK', FlightInv, [Next]_vars PROVE FlightInv'
    OBVIOUS
  <2>1. ASSUME NEW r \in Requests, Handler(r) PROVE FlightInv'
    BY <2>1, HandlerKeeps
  <2>2. ASSUME NEW m \in wire, Service(m) PROVE FlightInv'
    <3>1. CASE Acts(m) BY <3>1, ActsKeeps
    <3>2. CASE Refuse(m)
      BY <3>2, OtherHandler, OtherMessage DEF Refuse, FlightInv
    <3> QED
      BY <2>2, <3>1, <3>2
      DEF Service, Charge, ShipOrder, EmptyUserCart, SendOrderConfirmation, AppendToTopic
  <2>3. ASSUME UNCHANGED <<pc, prep, answer, wire, replies, did>> PROVE FlightInv'
    BY <2>3, OtherHandler, OtherMessage DEF FlightInv
  <2>4. ASSUME NEW a \in Adds, AddItem(a) PROVE FlightInv'
    BY <2>3, <2>4 DEF AddItem, AddItemRead, AddItemWrite, AddItemFails
  <2>5. ASSUME NEW u \in Users, CartLost(u) PROVE FlightInv'
    BY <2>3, <2>5 DEF CartLost
  <2>6. CASE UNCHANGED vars BY <2>3, <2>6 DEF vars
  <2> QED BY <2>1, <2>2, <2>4, <2>5, <2>6, CrashKeeps DEF Next
<1> QED BY <1>1, <1>2, TypeCorrect, PTL DEF Spec

-----------------------------------------------------------------------------
\* Whatever is lost, late or killed, PlaceOrder keeps the contract OrderSaga:
\* every effect of a service and every answer is a step it allows.
THEOREM OrderContract == Spec => ImplementsSaga
<1>1. Init => Saga!Init
  BY DEF Init, Saga!Init, Saga!Services, Services
<1>2. TypeOK /\ FlightInv /\ [Next]_vars => [Saga!Next]_<<did, answer>>
  <2> SUFFICES ASSUME TypeOK, FlightInv, [Next]_vars PROVE [Saga!Next]_<<did, answer>>
    OBVIOUS
  <2>1. ASSUME NEW r \in Requests, NEW a \in {"ok", "internal", "unavailable"}, Return(r, a),
               \/ a = "internal" /\ pc[r] \in {"getCart", "prepare", "payment"}
               \/ a = "unavailable" /\ pc[r] = "shipping"
               \/ a = "ok" /\ pc[r] \in {"email", "publish", "kafka"}
        PROVE  Saga!Next
    <3>1. did' = did /\ answer' = [answer EXCEPT ![r] = a]
      BY <2>1 DEF Return
    <3>2. HandlerKnows(r)
      BY DEF FlightInv
    <3>3. answer[r] = "none"
      BY <2>1, <3>2 DEF HandlerKnows
    <3>4. a = "internal" => did[r]["shipping"] = << >>
      BY <2>1, <3>2, BeforeSets DEF HandlerKnows, Services
    <3>5. a = "unavailable" => did[r]["payment"] # << >>
      BY <2>1, <3>2 DEF HandlerKnows
    <3>6. a = "ok" => did[r]["shipping"] # << >>
      BY <2>1, <3>2 DEF HandlerKnows
    <3>7. Saga!Answer(r, a)
      BY <3>1, <3>3, <3>4, <3>5, <3>6 DEF Saga!Answer
    <3> QED BY <2>1, <3>7 DEF Saga!Next, Saga!Answers
  <2>2. ASSUME NEW r \in Requests, Handler(r) PROVE [Saga!Next]_<<did, answer>>
    <3> USE <2>2
    <3>1. CASE UNCHANGED <<did, answer>> BY <3>1
    <3>2. CASE PrepareFails(r) BY <3>2, <2>1 DEF PrepareFails
    <3>3. CASE ChargeFails(r) BY <3>3, <2>1 DEF ChargeFails, GiveUp
    <3>4. CASE ShipFails(r) BY <3>4, <2>1 DEF ShipFails, GiveUp
    <3>5. CASE Mailed(r)
      <4>1. CASE Return(r, "ok") BY <3>5, <4>1, <2>1 DEF Mailed, Receive, GiveUp
      <4> QED BY <3>1, <3>5, <4>1 DEF Mailed, Advance
    <3>6. CASE Published(r) BY <3>6, <2>1 DEF Published, Receive, GiveUp
    <3>7. CASE NotPublished(r) BY <3>7, <2>1 DEF NotPublished
    <3> QED
      BY <3>1, <3>2, <3>3, <3>4, <3>5, <3>6, <3>7
      DEF Handler, PlaceOrder, GetUserCart, Prepared, ChargeSucceeds, ShipSucceeds, CartEmptied,
          CartNotEmptied, SendToPostProcessor, PublishPanics, Crash, Advance
  <2>3. ASSUME NEW m \in wire, Acts(m) PROVE Saga!Next
    <3>0. m.r \in Requests /\ m.svc \in Services /\ m.items \in Carts /\ MessageAgrees(m)
      BY DEF TypeOK, Message, FlightInv
    <3>1. Saga!Perform(m.r, m.svc, m.items)
      BY <2>3 DEF Acts, Saga!Perform
    <3>2. CASE m.svc = "payment"
      BY <3>0, <3>1, <3>2 DEF MessageAgrees, Saga!Pay, Saga!Next
    <3>3. CASE m.svc = "shipping"
      BY <3>0, <3>1, <3>3 DEF MessageAgrees, Saga!Ship, Saga!Next
    <3>4. CASE m.svc \in {"cart", "email", "kafka"}
      BY <3>0, <3>1, <3>4 DEF MessageAgrees, Saga!Follow, Saga!Next
    <3> QED BY <3>0, <3>2, <3>3, <3>4 DEF Services
  <2>4. ASSUME NEW m \in wire, Service(m) PROVE [Saga!Next]_<<did, answer>>
    BY <2>3, <2>4
    DEF Service, Charge, ShipOrder, EmptyUserCart, SendOrderConfirmation, AppendToTopic, Refuse
  <2>5. CASE UNCHANGED <<did, answer>> BY <2>5
  <2>6. ASSUME NEW a \in Adds, AddItem(a) PROVE UNCHANGED <<did, answer>>
    BY <2>6 DEF AddItem, AddItemRead, AddItemWrite, AddItemFails
  <2>7. ASSUME NEW u \in Users, CartLost(u) PROVE UNCHANGED <<did, answer>>
    BY <2>7 DEF CartLost
  <2> QED BY <2>2, <2>4, <2>5, <2>6, <2>7 DEF Next, Crash, vars
<1> QED BY <1>1, <1>2, TypeCorrect, Flight, PTL DEF Spec, ImplementsSaga, Saga!Spec, Saga!vars

\* Only a service that acts on a message adds to the effects of an order.
LEMMA ActsOrNot ==
  ASSUME [Next]_vars
  PROVE  did' = did \/ \E m \in wire : Acts(m)
  BY DEF Next, vars, Handler, Service, AddItem, PlaceOrder, GetUserCart, Prepared, PrepareFails,
     ChargeSucceeds, ChargeFails, ShipSucceeds, ShipFails, CartEmptied, CartNotEmptied, Mailed,
     SendToPostProcessor, Published, NotPublished, PublishPanics, Crash, Advance, Return,
     Charge, ShipOrder, EmptyUserCart, SendOrderConfirmation, AppendToTopic, Refuse,
     AddItemRead, AddItemWrite, AddItemFails, CartLost

\* No service ever acts on an empty cart.
THEOREM NothingForNothing == Spec => []NothingBoughtWhenEmpty
<1>1. Init => NothingBoughtWhenEmpty
  BY DEF Init, NothingBoughtWhenEmpty
<1>2. TypeOK /\ FlightInv /\ NothingBoughtWhenEmpty /\ [Next]_vars => NothingBoughtWhenEmpty'
  <2> SUFFICES ASSUME TypeOK, FlightInv, NothingBoughtWhenEmpty, [Next]_vars
               PROVE  NothingBoughtWhenEmpty'
    OBVIOUS
  <2>1. CASE did' = did BY <2>1 DEF NothingBoughtWhenEmpty
  <2>2. ASSUME NEW m \in wire, Acts(m) PROVE NothingBoughtWhenEmpty'
    <3>0. m.r \in Requests /\ m.svc \in Services /\ m.items \in Carts /\ m.items # EmptyCart
      BY DEF TypeOK, Message, FlightInv, MessageAgrees
    <3>1. SUFFICES ASSUME NEW r \in Requests, NEW s \in Services, NEW i \in 1 .. Len(did'[r][s])
                   PROVE  did'[r][s][i] # EmptyCart
      BY DEF NothingBoughtWhenEmpty
    <3>2. CASE r = m.r /\ s = m.svc
      <4>1. did[r][s] \in Seq(Carts) /\ did'[r][s] = Append(did[r][s], m.items)
        BY <2>2, <3>0, <3>2 DEF Acts, TypeOK
      <4> QED BY <3>0, <3>1, <4>1 DEF NothingBoughtWhenEmpty
    <3>3. CASE ~(r = m.r /\ s = m.svc)
      <4>1. did'[r][s] = did[r][s]
        BY <2>2, <3>0, <3>3 DEF Acts, TypeOK
      <4> QED BY <3>1, <4>1 DEF NothingBoughtWhenEmpty
    <3> QED BY <3>2, <3>3
  <2>3. did' = did \/ \E m \in wire : Acts(m)
    BY ActsOrNot
  <2> QED BY <2>1, <2>2, <2>3
<1> QED BY <1>1, <1>2, TypeCorrect, Flight, PTL DEF Spec

-----------------------------------------------------------------------------
\* Cart c holds no more of any product than customer u has added so far.
Within(c, u) == \A p \in Products : c[p] <= added[u][p]

\* BoughtWasAdded is not inductive: it needs the same bound on every copy of a
\* cart, stored, read by a handler or read by an AddItem not yet written.
CopiesWithin ==
    /\ \A u \in Users : Within(carts[u], u)
    /\ \A a \in Adds : Within(base[a], adder[a])
    /\ \A r \in Requests : Within(prep[r], user[r])

LEMMA CopiesWithinKeeps ==
  ASSUME TypeOK, TypeOK', CopiesWithin, [Next]_vars
  PROVE  /\ CopiesWithin'
         /\ user' = user
         /\ \A u \in Users, p \in Products : added[u][p] <= added'[u][p]
<1>0. \A u \in Users : Within(EmptyCart, u)
  BY DEF Within, EmptyCart, TypeOK
<1>1. CASE UNCHANGED <<user, adder, added, carts, base, prep>>
  BY <1>1 DEF CopiesWithin, Within, TypeOK
<1>2. ASSUME NEW r \in Requests, GetUserCart(r)
      PROVE  CopiesWithin' /\ UNCHANGED <<user, added>>
  <2>1. UNCHANGED <<user, adder, added, carts, base>>
    BY <1>2 DEF GetUserCart, params, adding
  <2>2. \A q \in Requests : prep'[q] = prep[q] \/ (q = r /\ prep'[q] = carts[user[q]])
    BY <1>2 DEF GetUserCart, TypeOK
  <2> QED BY <2>1, <2>2 DEF CopiesWithin, Within, TypeOK
<1>3. ASSUME NEW m \in wire, EmptyUserCart(m)
      PROVE  CopiesWithin' /\ UNCHANGED <<user, added>>
  <2>1. UNCHANGED <<user, adder, added, prep, base>>
    BY <1>3 DEF EmptyUserCart, Acts, params, adding
  <2>2. \A u \in Users : carts'[u] = carts[u] \/ carts'[u] = EmptyCart
    BY <1>3 DEF EmptyUserCart, TypeOK
  <2> QED BY <1>0, <2>1, <2>2 DEF CopiesWithin, Within
<1>4. ASSUME NEW a \in Adds, AddItemRead(a)
      PROVE  CopiesWithin' /\ UNCHANGED <<user, added>>
  <2>1. UNCHANGED <<user, adder, added, carts, prep>>
    BY <1>4 DEF AddItemRead, params
  <2>2. \A b \in Adds : base'[b] = base[b] \/ (b = a /\ base'[b] = carts[adder[b]])
    BY <1>4 DEF AddItemRead, TypeOK
  <2> QED BY <2>1, <2>2 DEF CopiesWithin, Within, TypeOK
<1>5. ASSUME NEW a \in Adds, AddItemWrite(a)
      PROVE  /\ CopiesWithin' /\ user' = user
             /\ \A u \in Users, p \in Products : added[u][p] <= added'[u][p]
  <2>1. UNCHANGED <<user, adder, base, prep>>
    BY <1>5 DEF AddItemWrite, params
  <2>2. \A u \in Users : u # adder[a] => carts'[u] = carts[u] /\ added'[u] = added[u]
    BY <1>5 DEF AddItemWrite, TypeOK
  <2>3. /\ adder[a] \in Users /\ wanted[a] \in Products
        /\ carts'[adder[a]] = Plus(base[a], wanted[a])
        /\ added'[adder[a]] = Plus(added[adder[a]], wanted[a])
    BY <1>5 DEF AddItemWrite, TypeOK
  <2>4. \A p \in Products :
           /\ base[a][p] \in Nat /\ added[adder[a]][p] \in Nat
           /\ added[adder[a]][p] <= added'[adder[a]][p]
           /\ base[a][p] <= added[adder[a]][p]
           /\ carts'[adder[a]][p] <= added'[adder[a]][p]
    <3> SUFFICES ASSUME NEW p \in Products
                 PROVE  /\ base[a][p] \in Nat /\ added[adder[a]][p] \in Nat
                        /\ added[adder[a]][p] <= added'[adder[a]][p]
                        /\ base[a][p] <= added[adder[a]][p]
                        /\ carts'[adder[a]][p] <= added'[adder[a]][p]
      OBVIOUS
    <3>1. base[a] \in Carts /\ added[adder[a]] \in [Products -> Nat] /\ base[a][wanted[a]] < MaxQuantity
      BY <1>5, <2>3 DEF TypeOK, AddItemWrite
    <3>2. base[a][p] \in Nat /\ added[adder[a]][p] \in Nat
      BY <3>1, CheckoutAssumption DEF Carts
    <3>3. base[a][p] <= added[adder[a]][p]
      BY DEF CopiesWithin, Within
    <3>4. /\ carts'[adder[a]][p] = IF p = wanted[a] THEN base[a][p] + 1 ELSE base[a][p]
          /\ added'[adder[a]][p] = IF p = wanted[a] THEN added[adder[a]][p] + 1
                                                   ELSE added[adder[a]][p]
      BY <2>3, <3>1 DEF Plus, Carts
    <3> QED BY <3>2, <3>3, <3>4
  <2>5. \A u \in Users, p \in Products : added[u][p] \in Nat /\ added[u][p] <= added'[u][p]
    <3> SUFFICES ASSUME NEW u \in Users, NEW p \in Products
                 PROVE  added[u][p] \in Nat /\ added[u][p] <= added'[u][p]
      OBVIOUS
    <3>1. CASE u = adder[a] BY <2>4, <3>1
    <3>2. CASE u # adder[a] BY <2>2, <3>2 DEF TypeOK
    <3> QED BY <3>1, <3>2
  <2>6. ASSUME NEW u \in Users PROVE Within(carts[u], u)'
    <3>1. CASE u = adder[a] BY <2>4, <3>1 DEF Within
    <3>2. CASE u # adder[a]
      <4>1. \A p \in Products : carts[u][p] <= added[u][p]
        BY DEF CopiesWithin, Within
      <4> QED BY <2>2, <3>2, <4>1 DEF Within
    <3> QED BY <3>1, <3>2
  <2>7. \A b \in Adds : Within(base[b], adder[b])'
    <3> SUFFICES ASSUME NEW b \in Adds, NEW p \in Products
                 PROVE  base[b][p] <= added'[adder[b]][p]
      BY <2>1 DEF Within
    <3>1. base[b][p] \in Nat /\ base[b][p] <= added[adder[b]][p] /\ adder[b] \in Users
      BY CheckoutAssumption DEF CopiesWithin, Within, Carts, TypeOK
    <3>2. /\ added'[adder[b]][p] \in Nat /\ added[adder[b]][p] \in Nat
          /\ added[adder[b]][p] <= added'[adder[b]][p]
      BY <2>5, <3>1 DEF TypeOK
    <3> QED BY <3>1, <3>2
  <2>8. \A r \in Requests : Within(prep[r], user[r])'
    <3> SUFFICES ASSUME NEW r \in Requests, NEW p \in Products
                 PROVE  prep[r][p] <= added'[user[r]][p]
      BY <2>1 DEF Within
    <3>1. prep[r][p] \in Nat /\ prep[r][p] <= added[user[r]][p] /\ user[r] \in Users
      BY CheckoutAssumption DEF CopiesWithin, Within, Carts, TypeOK
    <3>2. /\ added'[user[r]][p] \in Nat /\ added[user[r]][p] \in Nat
          /\ added[user[r]][p] <= added'[user[r]][p]
      BY <2>5, <3>1 DEF TypeOK
    <3> QED BY <3>1, <3>2
  <2> QED BY <2>1, <2>5, <2>6, <2>7, <2>8 DEF CopiesWithin
<1>6. ASSUME NEW v \in Users, CartLost(v)
      PROVE  CopiesWithin' /\ UNCHANGED <<user, added>>
  <2>1. UNCHANGED <<user, adder, added, prep, base>>
    BY <1>6 DEF CartLost, params, adding
  <2>2. \A u \in Users : carts'[u] = carts[u] \/ carts'[u] = EmptyCart
    BY <1>6 DEF CartLost, TypeOK
  <2> QED BY <1>0, <2>1, <2>2 DEF CopiesWithin, Within
<1>7. \/ UNCHANGED <<user, adder, added, carts, base, prep>>
      \/ \E u \in Users : CartLost(u)
      \/ \E r \in Requests : GetUserCart(r)
      \/ \E m \in wire : EmptyUserCart(m)
      \/ \E a \in Adds : AddItemRead(a) \/ AddItemWrite(a)
  BY DEF Next, vars, params, adding, Handler, Service, AddItem, PlaceOrder, Prepared,
     PrepareFails, ChargeSucceeds, ChargeFails, ShipSucceeds, ShipFails, CartEmptied,
     CartNotEmptied, Mailed, SendToPostProcessor, Published, NotPublished, PublishPanics, Crash,
     Advance, Return, Charge, ShipOrder, SendOrderConfirmation, AppendToTopic, Acts, Refuse,
     AddItemFails
<1>8. \A u \in Users, p \in Products : added[u][p] <= added[u][p]
  BY DEF TypeOK
<1> QED BY <1>1, <1>2, <1>3, <1>4, <1>5, <1>6, <1>7, <1>8

LEMMA Copies == Spec => []CopiesWithin
<1>1. Init => CopiesWithin
  BY DEF Init, CopiesWithin, Within, EmptyCart
<1>2. TypeOK /\ TypeOK' /\ CopiesWithin /\ [Next]_vars => CopiesWithin'
  BY CopiesWithinKeeps
<1> QED BY <1>1, <1>2, TypeCorrect, PTL DEF Spec

\* An order never holds more of a product than its customer put into the cart.
THEOREM NothingInvented == Spec => []BoughtWasAdded
<1>1. Init => BoughtWasAdded
  BY DEF Init, BoughtWasAdded
<1>2. TypeOK /\ TypeOK' /\ FlightInv /\ CopiesWithin /\ BoughtWasAdded /\ [Next]_vars
      => BoughtWasAdded'
  <2> SUFFICES ASSUME TypeOK, TypeOK', FlightInv, CopiesWithin, BoughtWasAdded, [Next]_vars,
                      NEW r \in Requests, NEW s \in Services, NEW p \in Products,
                      NEW i \in 1 .. Len(did'[r][s])
               PROVE  did'[r][s][i][p] <= added'[user'[r]][p]
    BY DEF BoughtWasAdded
  <2>1. /\ user' = user /\ user[r] \in Users
        /\ added[user[r]][p] \in Nat /\ added'[user[r]][p] \in Nat
        /\ added[user[r]][p] <= added'[user[r]][p]
    <3>1. /\ user' = user
          /\ \A u \in Users, q \in Products : added[u][q] <= added'[u][q]
      BY CopiesWithinKeeps
    <3>2. /\ user[r] \in Users
          /\ \A u \in Users, q \in Products : added[u][q] \in Nat /\ added'[u][q] \in Nat
      BY DEF TypeOK
    <3> QED BY <3>1, <3>2
  <2>2. did[r][s] \in Seq(Carts) /\ did'[r][s] \in Seq(Carts)
    BY DEF TypeOK
  <2>3. did'[r][s][i] \in Carts /\ did'[r][s][i][p] \in Nat
    <3>1. did'[r][s][i] \in Carts BY <2>2
    <3> QED BY <3>1, CheckoutAssumption DEF Carts
  <2>4. SUFFICES did'[r][s][i][p] <= added[user[r]][p]
    BY <2>1, <2>3
  <2>5. CASE did'[r][s] = did[r][s] BY <2>5 DEF BoughtWasAdded
  <2>6. CASE did'[r][s] = Append(did[r][s], prep[r])
    <3>1. CASE i \in 1 .. Len(did[r][s])
      <4>1. did'[r][s][i] = did[r][s][i] BY <2>2, <2>6, <3>1
      <4> QED BY <3>1, <4>1 DEF BoughtWasAdded
    <3>2. CASE i = Len(did[r][s]) + 1
      <4>1. did'[r][s][i] = prep[r] BY <2>2, <2>6, <3>2
      <4> QED BY <4>1 DEF CopiesWithin, Within
    <3>3. Len(did'[r][s]) = Len(did[r][s]) + 1 /\ Len(did[r][s]) \in Nat
      BY <2>2, <2>6, AppendProperties DEF TypeOK
    <3> QED BY <3>1, <3>2, <3>3
  <2>7. ASSUME NEW m \in wire, Acts(m)
        PROVE  did'[r][s] = did[r][s] \/ did'[r][s] = Append(did[r][s], prep[r])
    <3>1. m.r \in Requests /\ m.svc \in Services /\ m.items = prep[m.r]
      BY DEF TypeOK, Message, FlightInv, MessageAgrees
    <3> QED BY <2>7, <3>1 DEF Acts, TypeOK
  <2>8. did' = did \/ \E m \in wire : Acts(m)
    BY ActsOrNot
  <2> QED BY <2>5, <2>6, <2>7, <2>8
<1> QED BY <1>1, <1>2, TypeCorrect, Flight, Copies, PTL DEF Spec

-----------------------------------------------------------------------------
\* UnitsConserved speaks of customers none of whose calls overlapped or broke, and
\* of moments at which they are idle.  What follows is known of such a customer at
\* every moment.

\* The calls a service changes a cart or an account by.
Effects == {"payment", "shipping", "cart"}

\* One call is being served, with no message of an earlier one left.
Alone(u) ==
  /\ \A r, q \in Requests : user[r] = u /\ user[q] = u /\ Active(r) /\ Active(q) => r = q
  /\ \A a, b \in Adds :
        adder[a] = u /\ adder[b] = u /\ addPc[a] = "read" /\ addPc[b] = "read" => a = b
  /\ \A r \in Requests, a \in Adds :
        user[r] = u /\ adder[a] = u => ~ (Active(r) /\ addPc[a] = "read")
  /\ \A r \in Requests, m \in wire : user[r] = u /\ user[m.r] = u /\ Active(r) => m.r = r
  /\ \A a \in Adds, m \in wire : ~ (adder[a] = u /\ user[m.r] = u /\ addPc[a] = "read")

\* No effect is still to come that the handler does not wait for.
Awaited(u) == \A m \in wire : user[m.r] = u /\ m.svc \in Effects => pc[m.r] = m.svc

\* A copy of the cart is the cart, until the order empties it.
Current(u) ==
  /\ \A a \in Adds : adder[a] = u /\ addPc[a] = "read" => base[a] = carts[u]
  /\ \A r \in Requests : user[r] = u /\ Active(r) /\ pc[r] # "getCart" =>
        carts[u] = IF did[r]["cart"] = << >> THEN prep[r] ELSE EmptyCart

\* What is paid is shipped, and what is shipped has left the cart, except while the
\* handler is at these very calls.
SettledCalls(u) ==
  \A r \in Requests : user[r] = u =>
    /\ pc[r] \notin {"payment", "shipping"} => did[r]["payment"] = did[r]["shipping"]
    /\ pc[r] \notin {"shipping", "cart"} /\ did[r]["shipping"] # << >> => did[r]["cart"] # << >>

\* An order of u was shipped, and the cart not emptied yet.
Leaving(u) ==
  \E r \in Requests : user[r] = u /\ did[r]["shipping"] # << >> /\ did[r]["cart"] = << >>

\* Each unit added is in the cart or shipped; while an order leaves, its units are
\* in both.
Balanced(u) ==
  \A p \in Products :
    added[u][p] = Units(u, "shipping", p) + (IF Leaving(u) THEN 0 ELSE carts[u][p])

CleanFor(u) == Alone(u) /\ Awaited(u) /\ Current(u) /\ SettledCalls(u) /\ Balanced(u)
CleanInv == \A u \in clean : CleanFor(u)

LEMMA CountTo ==
  ASSUME NEW n \in Nat
  PROVE  IsFiniteSet(1 .. n) /\ Cardinality(1 .. n) = n
  <1>1. 1 \in Int /\ n \in Int /\ (IF 1 > n THEN 0 ELSE n - 1 + 1) = n
    OBVIOUS
  <1> QED BY <1>1, FS_Interval

LEMMA UnitsFinite ==
  ASSUME NEW u, NEW s, NEW p
  PROVE  IsFiniteSet(UnitSet(u, s, p)) /\ Units(u, s, p) \in Nat
  <1>1. IsFiniteSet(Requests \X (1 .. MaxQuantity))
    <2>1. IsFiniteSet(1 .. MaxQuantity)
      BY CountTo, CheckoutAssumption
    <2> QED BY <2>1, CheckoutAssumption, FS_Product
  <1>2. UnitSet(u, s, p) \subseteq Requests \X (1 .. MaxQuantity)
    BY DEF UnitSet
  <1> QED BY <1>1, <1>2, FS_Subset, FS_CardinalityType DEF Units

\* The units of a customer change with their own orders only.
LEMMA UnitsStay ==
  ASSUME NEW u, NEW s, NEW p, UNCHANGED user,
         \A r \in Requests : user[r] = u => did'[r][s] = did[r][s]
  PROVE  Units(u, s, p)' = Units(u, s, p)
  <1>1. UnitSet(u, s, p)' = UnitSet(u, s, p)
    BY DEF UnitSet
  <1> QED BY <1>1 DEF Units

\* A cart that is shipped adds its units, and none of them is counted already.
LEMMA UnitsGrow ==
  ASSUME TypeOK, NEW r \in Requests, NEW c \in Carts, NEW s \in Services, NEW p \in Products,
         UNCHANGED user, did[r][s] = << >>, did'[r][s] = <<c>>,
         \A q \in Requests \ {r} : did'[q][s] = did[q][s]
  PROVE  Units(user[r], s, p)' = Units(user[r], s, p) + c[p]
  <1> DEFINE u == user[r]
             New == {r} \X (1 .. c[p])
  <1>1. c[p] \in 0 .. MaxQuantity /\ c[p] \in Nat /\ MaxQuantity \in Nat
    BY CheckoutAssumption DEF Carts
  <1>2. IsFiniteSet(New) /\ Cardinality(New) = c[p]
    <2>1. IsFiniteSet({r}) /\ Cardinality({r}) = 1
      BY FS_Singleton
    <2>2. IsFiniteSet(1 .. c[p]) /\ Cardinality(1 .. c[p]) = c[p]
      BY <1>1, CountTo
    <2>3. IsFiniteSet(New) /\ Cardinality(New) = Cardinality({r}) * Cardinality(1 .. c[p])
      BY ONLY <2>1, <2>2, FS_Product
    <2>4. 1 * c[p] = c[p]
      BY <1>1
    <2> QED BY ONLY <2>1, <2>2, <2>3, <2>4
  <1>3. UnitSet(u, s, p)' = UnitSet(u, s, p) \cup New
    <2>1. ASSUME NEW x \in Requests \X (1 .. MaxQuantity), x[1] = r
          PROVE  x \in UnitSet(u, s, p)' <=> x \in New
      <3>1. did'[x[1]][s] # << >> /\ did'[x[1]][s][1] = c /\ user'[x[1]] = u
        <4>1. <<c>> # << >> /\ <<c>>[1] = c
          OBVIOUS
        <4>2. x[1] = r /\ did'[r][s] = <<c>> /\ user' = user
          BY <2>1
        <4> QED BY ONLY <4>1, <4>2 DEF u
      <3>2. x = <<x[1], x[2]>> /\ x[2] \in 1 .. MaxQuantity
        OBVIOUS
      <3>3. x \in UnitSet(u, s, p)' <=> x[2] <= c[p]
        BY <3>1 DEF UnitSet
      <3>4. x \in New <=> x[2] <= c[p]
        BY <1>1, <2>1, <3>2
      <3> QED BY <3>3, <3>4
    <2>2. ASSUME NEW x \in Requests \X (1 .. MaxQuantity), x[1] # r
          PROVE  x \in UnitSet(u, s, p)' <=> x \in UnitSet(u, s, p)
      BY <2>2 DEF UnitSet
    <2>3. \A x \in UnitSet(u, s, p) : x[1] # r
      BY DEF UnitSet
    <2>4. \A x \in New : x \in Requests \X (1 .. MaxQuantity) /\ x[1] = r
      BY <1>1
    <2>5. /\ UnitSet(u, s, p) \subseteq Requests \X (1 .. MaxQuantity)
          /\ UnitSet(u, s, p)' \subseteq Requests \X (1 .. MaxQuantity)
      BY DEF UnitSet
    <2> QED BY <2>1, <2>2, <2>3, <2>4, <2>5
  <1>4. UnitSet(u, s, p) \cap New = {}
    BY DEF UnitSet
  <1>5. Cardinality(UnitSet(u, s, p) \cup New) = Cardinality(UnitSet(u, s, p)) + c[p]
    <2>1. Cardinality({}) = 0
      BY FS_EmptySet
    <2>2. IsFiniteSet(UnitSet(u, s, p)) /\ Cardinality(UnitSet(u, s, p)) \in Nat
      BY UnitsFinite DEF Units
    <2>3. Cardinality(UnitSet(u, s, p) \cup New)
            = Cardinality(UnitSet(u, s, p)) + Cardinality(New) - Cardinality(UnitSet(u, s, p) \cap New)
      BY ONLY <1>2, <2>2, FS_Union
    <2>4. Cardinality(UnitSet(u, s, p) \cap New) = 0
      BY ONLY <1>4, <2>1
    <2> QED BY ONLY <1>1, <1>2, <2>2, <2>3, <2>4
  <1> QED BY <1>3, <1>5 DEF Units

\* A step that leaves what u's calls hold, and only ends calls of theirs or takes
\* messages away, keeps all of it.
LEMMA ForeignKeeps ==
  ASSUME NEW u \in Users, CleanFor(u), UNCHANGED <<user, adder>>,
         \A r \in Requests : user[r] = u =>
           pc'[r] = pc[r] /\ prep'[r] = prep[r] /\ \A s \in Effects : did'[r][s] = did[r][s],
         \A a \in Adds : adder[a] = u =>
           base'[a] = base[a] /\ (addPc'[a] = "read" => addPc[a] = "read"),
         \A m \in wire' : user[m.r] = u => m \in wire /\ m.r \in Requests,
         carts'[u] = carts[u], added'[u] = added[u]
  PROVE  CleanFor(u)'
  <1>1. Alone(u)'
    BY DEF CleanFor, Alone, Active
  <1>2. Awaited(u)'
    BY DEF CleanFor, Awaited
  <1>3. Current(u)'
    BY DEF CleanFor, Current, Active, Effects
  <1>4. SettledCalls(u)'
    BY DEF CleanFor, SettledCalls, Effects
  <1>5. Balanced(u)'
    <2>1. Leaving(u)' = Leaving(u)
      BY DEF Leaving, Effects
    <2>2. \A p \in Products : Units(u, "shipping", p)' = Units(u, "shipping", p)
      BY UnitsStay DEF Effects
    <2> QED BY <2>1, <2>2 DEF CleanFor, Balanced
  <1> QED BY <1>1, <1>2, <1>3, <1>4, <1>5 DEF CleanFor

\* A handler moves on: what it needs to know of its order, unless the step spoils
\* its customer, to leave everything as the customer expects.
LEMMA MoveKeeps ==
  ASSUME TypeOK, CleanInv, NEW r \in Requests, Active(r), NEW at,
         pc' = [pc EXCEPT ![r] = at],
         UNCHANGED <<user, adder, did, carts, addPc, base, added>>,
         clean' \subseteq clean,
         \A q \in Requests \ {r} : prep'[q] = prep[q],
         \A m \in wire' : m \in wire \/ m.r = r,
         user[r] \in clean' =>
           /\ \A m \in wire' : m.r = r /\ m.svc \in Effects => m.svc = at
           /\ at # "done" =>
                carts[user[r]] = IF did[r]["cart"] = << >> THEN prep'[r] ELSE EmptyCart
           /\ at \notin {"payment", "shipping"} => did[r]["payment"] = did[r]["shipping"]
           /\ at \notin {"shipping", "cart"} /\ did[r]["shipping"] # << >> => did[r]["cart"] # << >>
  PROVE  CleanInv'
<1>0. /\ pc'[r] = at
      /\ \A q \in Requests \ {r} : pc'[q] = pc[q]
      /\ \A m \in wire : m.r \in Requests
  BY DEF TypeOK, Message
<1>1. ASSUME NEW u \in clean', u # user[r] PROVE CleanFor(u)'
  <2>1. u \in Users /\ CleanFor(u)
    BY DEF CleanInv, TypeOK
  <2>2. \A q \in Requests : user[q] = u =>
           pc'[q] = pc[q] /\ prep'[q] = prep[q] /\ \A s \in Effects : did'[q][s] = did[q][s]
    BY <1>0, <1>1
  <2>3. \A m \in wire' : user[m.r] = u => m \in wire /\ m.r \in Requests
    BY <1>0, <1>1
  <2> QED BY <2>1, <2>2, <2>3, ForeignKeeps
<1>2. ASSUME NEW u \in clean', u = user[r] PROVE CleanFor(u)'
  <2>0. CleanFor(u) /\ Active(r)
    BY DEF CleanInv
  <2>1. /\ \A q \in Requests : user[q] = u /\ Active(q) => q = r
        /\ \A q \in Requests : user[q] = u /\ Active(q)' => q = r
        /\ \A m \in wire' : user[m.r] = u => m.r = r
        /\ \A a \in Adds : adder[a] = u => addPc[a] # "read"
    BY <1>0, <1>2, <2>0 DEF CleanFor, Alone, Active
  <2>2. Alone(u)'
    BY <2>1 DEF Alone
  <2>3. Awaited(u)'
    BY <1>0, <1>2, <2>1 DEF Awaited
  <2>4. Current(u)'
    BY <1>0, <1>2, <2>1 DEF Current, Active
  <2>5. SettledCalls(u)'
    BY <1>0, <1>2, <2>0 DEF CleanFor, SettledCalls
  <2>6. Balanced(u)'
    <3>1. \A p \in Products : Units(u, "shipping", p)' = Units(u, "shipping", p)
      BY UnitsStay
    <3>2. Leaving(u)' = Leaving(u)
      BY DEF Leaving
    <3> QED BY <2>0, <3>1, <3>2 DEF CleanFor, Balanced
  <2> QED BY <2>2, <2>3, <2>4, <2>5, <2>6 DEF CleanFor
<1> QED BY <1>1, <1>2 DEF CleanInv

\* No such call is out while the handler is elsewhere.
LEMMA QuietMoveKeeps ==
  ASSUME TypeOK, CleanInv, NEW r \in Requests, Active(r), pc[r] \notin Effects, NEW at,
         pc' = [pc EXCEPT ![r] = at],
         UNCHANGED <<user, adder, did, prep, carts, addPc, base, added, clean>>,
         pc[r] # "getCart" \/ at = "done",
         \A m \in wire' : m \in wire \/ (m.r = r /\ (m.svc \in Effects => m.svc = at))
  PROVE  CleanInv'
<1>1. ASSUME user[r] \in clean
      PROVE  /\ \A m \in wire' : m.r = r /\ m.svc \in Effects => m.svc = at
             /\ at # "done" =>
                  carts[user[r]] = IF did[r]["cart"] = << >> THEN prep'[r] ELSE EmptyCart
             /\ did[r]["payment"] = did[r]["shipping"]
             /\ did[r]["shipping"] # << >> => did[r]["cart"] # << >>
  BY <1>1 DEF CleanInv, CleanFor, Awaited, Current, SettledCalls, Effects
<1> QED BY <1>1, MoveKeeps

\* An acknowledged call is not on the wire any more.
LEMMA AcknowledgedIsOver ==
  ASSUME TypeOK, FlightInv, NEW r \in Requests, NEW s \in Effects, Receive(r, s)
  PROVE  /\ pc[r] = s /\ did[r][s] = <<prep[r]>>
         /\ \A m \in wire : m.r = r => m.svc # s
<1>1. <<prep[r]>> # << >>
  OBVIOUS
<1>2. pc[r] = s /\ did[r][s] = <<prep[r]>>
  BY DEF Receive, FlightInv, HandlerKnows, Effects, Services
<1> QED BY <1>1, <1>2 DEF FlightInv, MessageAgrees, Effects

\* A crash breaks the calls of the customers it finds being served.
LEMMA CrashKeepsClean ==
  ASSUME TypeOK, CleanInv, Crash
  PROVE  CleanInv'
<1> SUFFICES ASSUME NEW u \in clean' PROVE CleanFor(u)'
  BY DEF CleanInv
<1>1. /\ UNCHANGED <<user, adder, prep, wire, did, carts, addPc, base, added>>
      /\ u \in Users /\ CleanFor(u)
      /\ \A r \in Requests : user[r] = u => pc'[r] = pc[r]
      /\ \A m \in wire : m.r \in Requests
  BY DEF Crash, params, adding, TypeOK, CleanInv, Message
<1> QED BY <1>1, ForeignKeeps

\* A call of u starts while nothing else of theirs is running.
LEMMA NothingRuns ==
  ASSUME NEW u, Idle(u), CleanFor(u)
  PROVE  ~ Leaving(u)
BY DEF Idle, Leaving, CleanFor, SettledCalls, Active

\* A step of a handler keeps the books of every clean customer.
LEMMA HandlerKeepsClean ==
  ASSUME TypeOK, FlightInv, CleanInv, NEW r \in Requests, Handler(r)
  PROVE  CleanInv'
<1> USE DEF params, adding
<1>0. /\ HandlerKnows(r)
      /\ user[r] \in Users /\ wire \subseteq Message /\ \A m \in wire : m.r \in Requests
      /\ \A s \in Services : Call(s, r).r = r /\ Call(s, r).svc = s
  BY DEF FlightInv, TypeOK, Message, Call, CallCopy
<1>1. CASE PlaceOrder(r)
  <2>0. /\ pc' = [pc EXCEPT ![r] = "getCart"] /\ pc[r] = "new"
        /\ UNCHANGED <<user, adder, prep, wire, did, carts, addPc, base, added>>
        /\ clean' \subseteq clean
        /\ user[r] \in clean' => Idle(user[r])
    BY <1>1 DEF PlaceOrder, Begin
  <2>1. pc'[r] = "getCart" /\ \A q \in Requests \ {r} : pc'[q] = pc[q]
    BY <2>0 DEF TypeOK
  <2>2. ASSUME NEW u \in clean', u # user[r] PROVE CleanFor(u)'
    <3>1. u \in Users /\ CleanFor(u)
      BY <2>0 DEF CleanInv, TypeOK
    <3> QED BY <1>0, <2>0, <2>1, <2>2, <3>1, ForeignKeeps
  <2>3. ASSUME NEW u \in clean', u = user[r] PROVE CleanFor(u)'
    <3>0. Idle(u) /\ CleanFor(u)
      BY <2>0, <2>3 DEF CleanInv
    <3>1. Alone(u)'
      BY <2>0, <2>1, <3>0 DEF Alone, Idle, Active
    <3>2. Awaited(u)'
      BY <2>0, <3>0 DEF Awaited, Idle
    <3>3. Current(u)'
      BY <2>0, <2>1, <3>0 DEF Current, Idle, Active
    <3>4. SettledCalls(u)'
      BY <2>0, <2>1, <3>0 DEF CleanFor, SettledCalls
    <3>5. Balanced(u)'
      <4>1. \A p \in Products : Units(u, "shipping", p)' = Units(u, "shipping", p)
        BY <2>0, UnitsStay
      <4>2. Leaving(u)' = Leaving(u)
        BY <2>0 DEF Leaving
      <4> QED BY <2>0, <3>0, <4>1, <4>2 DEF CleanFor, Balanced
    <3> QED BY <3>1, <3>2, <3>3, <3>4, <3>5 DEF CleanFor
  <2> QED BY <2>2, <2>3 DEF CleanInv
<1>2. CASE GetUserCart(r)
  <2>1. Active(r) /\ pc[r] = "getCart" /\ pc[r] \notin Effects
    BY <1>2 DEF GetUserCart, Active, Effects
  <2>2. /\ prep'[r] = carts[user[r]]
        /\ \A q \in Requests \ {r} : prep'[q] = prep[q]
    BY <1>2 DEF GetUserCart, TypeOK
  <2>3. \A s \in Effects : did[r][s] = << >>
    BY <1>0, <2>1, BeforeSets DEF HandlerKnows, Effects, Services
  <2>4. user[r] \in clean => \A m \in wire : m.r = r /\ m.svc \in Effects => m.svc = "prepare"
    BY <1>0, <2>1 DEF CleanInv, CleanFor, Awaited, Effects
  <2> QED BY <1>0, <1>2, <2>1, <2>2, <2>3, <2>4, MoveKeeps DEF GetUserCart, Effects
<1>3. CASE Prepared(r)
  <2>1. pc[r] = "prepare" /\ Active(r) /\ pc[r] \notin Effects
    BY <1>3 DEF Prepared, Active, Effects
  <2>2. \A m \in wire' : m \in wire \/ (m.r = r /\ m.svc = "payment")
    BY <1>0, <1>3 DEF Prepared, Advance, Services
  <2> QED BY <1>3, <2>1, <2>2, QuietMoveKeeps DEF Prepared, Advance
<1>4. CASE PrepareFails(r)
  BY <1>4, QuietMoveKeeps DEF PrepareFails, Return, Active, Effects
<1>5. CASE ChargeSucceeds(r)
  <2>0. Receive(r, "payment") /\ Advance(r, "shipping", {Call("shipping", r)}) /\ clean' = clean
    BY <1>5 DEF ChargeSucceeds
  <2>1. /\ pc[r] = "payment" /\ Active(r)
        /\ \A m \in wire : m.r = r => m.svc # "payment"
    BY <2>0, AcknowledgedIsOver DEF Effects, Active
  <2>2. user[r] \in clean => \A m \in wire' : m.r = r /\ m.svc \in Effects => m.svc = "shipping"
    BY <1>0, <2>0, <2>1 DEF CleanInv, CleanFor, Awaited, Advance, Services
  <2>3. user[r] \in clean =>
           carts[user[r]] = IF did[r]["cart"] = << >> THEN prep[r] ELSE EmptyCart
    BY <2>1 DEF CleanInv, CleanFor, Current
  <2>4. /\ UNCHANGED <<user, adder, prep, did, carts, addPc, base, added>>
        /\ \A m \in wire' : m \in wire \/ m.r = r
    BY <1>0, <2>0 DEF Advance, Services
  <2> QED BY <2>0, <2>1, <2>2, <2>3, <2>4, MoveKeeps DEF Advance
<1>6. CASE ChargeFails(r)
  <2>0. /\ GiveUp(r, "payment") /\ Return(r, "internal") /\ wire' = wire
        /\ clean' \subseteq clean
        /\ user[r] \in clean' => Call("payment", r) \notin wire /\ did[r]["payment"] = << >>
    BY <1>6 DEF ChargeFails, Spoil
  <2>1. /\ pc[r] = "payment" /\ Active(r) /\ did[r]["shipping"] = << >>
    BY <1>0, <2>0, BeforeSets DEF GiveUp, Active, HandlerKnows, Services
  <2>2. ASSUME NEW m \in wire, m.r = r, m.svc = "payment" PROVE m = Call("payment", r)
    <3>1. m \in Message /\ Call("payment", r) \in Message
      BY CallType, CheckoutAssumption DEF TypeOK, Call, Services
    <3>2. m.items = prep[r] /\ m.copy = 0
      BY <2>2 DEF FlightInv, MessageAgrees
    <3> QED BY <2>2, <3>1, <3>2 DEF Message, Call, CallCopy
  <2>3. user[r] \in clean' => \A m \in wire : m.r = r => m.svc \notin Effects
    BY <2>0, <2>1, <2>2 DEF CleanInv, CleanFor, Awaited
  <2> QED BY <2>0, <2>1, <2>3, MoveKeeps DEF Return
<1>7. CASE ShipSucceeds(r)
  <2>0. Receive(r, "shipping") /\ Advance(r, "cart", {Call("cart", r)}) /\ clean' = clean
    BY <1>7 DEF ShipSucceeds
  <2>1. /\ pc[r] = "shipping" /\ Active(r)
        /\ did[r]["payment"] = <<prep[r]>> /\ did[r]["shipping"] = <<prep[r]>>
        /\ \A m \in wire : m.r = r => m.svc # "shipping"
    BY <1>0, <2>0, AcknowledgedIsOver DEF Effects, Active, HandlerKnows
  <2>2. user[r] \in clean => \A m \in wire' : m.r = r /\ m.svc \in Effects => m.svc = "cart"
    BY <1>0, <2>0, <2>1 DEF CleanInv, CleanFor, Awaited, Advance, Services
  <2>3. user[r] \in clean =>
           carts[user[r]] = IF did[r]["cart"] = << >> THEN prep[r] ELSE EmptyCart
    BY <2>1 DEF CleanInv, CleanFor, Current
  <2>4. /\ UNCHANGED <<user, adder, prep, did, carts, addPc, base, added>>
        /\ \A m \in wire' : m \in wire \/ m.r = r
    BY <1>0, <2>0 DEF Advance, Services
  <2> QED BY <2>0, <2>1, <2>2, <2>3, <2>4, MoveKeeps DEF Advance
<1>8. CASE ShipFails(r)
  BY <1>8, MoveKeeps DEF ShipFails, GiveUp, Return, Spoil, Active
<1>9. CASE CartEmptied(r)
  <2>0. Receive(r, "cart") /\ Advance(r, "email", {Call("email", r)}) /\ clean' = clean
    BY <1>9 DEF CartEmptied
  <2>1. /\ pc[r] = "cart" /\ Active(r)
        /\ did[r]["payment"] = <<prep[r]>> /\ did[r]["shipping"] = <<prep[r]>>
        /\ did[r]["cart"] # << >>
        /\ \A m \in wire : m.r = r => m.svc # "cart"
    BY <1>0, <2>0, AcknowledgedIsOver DEF Effects, Active, HandlerKnows
  <2>2. user[r] \in clean => \A m \in wire' : m.r = r /\ m.svc \in Effects => m.svc = "email"
    BY <1>0, <2>0, <2>1 DEF CleanInv, CleanFor, Awaited, Advance, Services, Effects
  <2>3. user[r] \in clean =>
           carts[user[r]] = IF did[r]["cart"] = << >> THEN prep[r] ELSE EmptyCart
    BY <2>1 DEF CleanInv, CleanFor, Current
  <2>4. /\ UNCHANGED <<user, adder, prep, did, carts, addPc, base, added>>
        /\ \A m \in wire' : m \in wire \/ m.r = r
    BY <1>0, <2>0 DEF Advance, Services
  <2> QED BY <2>0, <2>1, <2>2, <2>3, <2>4, MoveKeeps DEF Advance
<1>10. CASE CartNotEmptied(r)
  BY <1>0, <1>10, MoveKeeps DEF CartNotEmptied, GiveUp, Advance, Spoil, Active, Services
<1>11. CASE Mailed(r)
  <2>1. pc[r] = "email" /\ Active(r) /\ pc[r] \notin Effects /\ pc[r] # "getCart"
    BY <1>11 DEF Mailed, Receive, GiveUp, Active, Effects
  <2> QED BY <1>11, <2>1, QuietMoveKeeps DEF Mailed, Return, Advance
<1>12. CASE SendToPostProcessor(r)
  BY <1>0, <1>12, QuietMoveKeeps DEF SendToPostProcessor, Advance, Active, Effects, Services
<1>13. CASE Published(r)
  <2>1. pc[r] = "kafka" /\ Active(r) /\ pc[r] \notin Effects /\ pc[r] # "getCart"
    BY <1>13 DEF Published, Receive, GiveUp, Active, Effects
  <2>2. \A m \in wire' : m \in wire \/ (m.r = r /\ m.svc = "kafka")
    BY <1>13 DEF Published, CallCopy
  <2> QED BY <1>13, <2>1, <2>2, QuietMoveKeeps DEF Published, Return, Effects
<1>14. CASE NotPublished(r)
  BY <1>14, QuietMoveKeeps DEF NotPublished, Return, Active, Effects
<1>15. CASE PublishPanics(r)
  BY <1>15, CrashKeepsClean DEF PublishPanics
<1> QED
  BY <1>1, <1>2, <1>3, <1>4, <1>5, <1>6, <1>7, <1>8, <1>9, <1>10, <1>11, <1>12, <1>13, <1>14,
     <1>15 DEF Handler

\* A service acts on a call: a charge and a shipment only for the handler that waits
\* for them, a cart emptied only after its units have left.
LEMMA ServiceKeepsClean ==
  ASSUME TypeOK, TypeOK', FlightInv, CleanInv, NEW m \in wire, Service(m)
  PROVE  CleanInv'
<1> DEFINE r == m.r
<1> USE DEF params, adding
<1>0. /\ r \in Requests /\ user[r] \in Users /\ m.svc \in Services /\ m.items = prep[r]
      /\ prep[r] \in Carts /\ MessageAgrees(m) /\ HandlerKnows(r)
      /\ \A n \in wire : n.r \in Requests
  BY DEF TypeOK, Message, FlightInv, MessageAgrees
<1>1. /\ UNCHANGED <<user, adder, wanted, pc, prep, addPc, base, added, clean>>
      /\ wire' = wire \ {m}
      /\ \A u \in Users : u # user[r] => carts'[u] = carts[u]
      /\ \/ m.svc = "cart" /\ carts'[user[r]] = EmptyCart
         \/ carts'[user[r]] = carts[user[r]]
      /\ \A q \in Requests \ {r} : did'[q] = did[q]
      /\ \A s \in Services \ {m.svc} : did'[r][s] = did[r][s]
  <2>1. CASE Acts(m) /\ UNCHANGED carts
    BY <1>0, <2>1 DEF Acts, TypeOK
  <2>2. CASE EmptyUserCart(m)
    BY <1>0, <2>2 DEF EmptyUserCart, Acts, TypeOK
  <2>3. CASE Refuse(m)
    BY <2>3 DEF Refuse
  <2> QED
    BY <2>1, <2>2, <2>3 DEF Service, Charge, ShipOrder, SendOrderConfirmation, AppendToTopic
<1>2. ASSUME NEW u \in clean,
             u # user[r] \/ (carts'[u] = carts[u] /\ \A s \in Effects : did'[r][s] = did[r][s])
      PROVE  CleanFor(u)'
  <2>1. u \in Users /\ CleanFor(u)
    BY DEF CleanInv, TypeOK
  <2>2. \A q \in Requests : user[q] = u =>
           pc'[q] = pc[q] /\ prep'[q] = prep[q] /\ \A s \in Effects : did'[q][s] = did[q][s]
    BY <1>1, <1>2
  <2>3. carts'[u] = carts[u]
    BY <1>1, <1>2, <2>1
  <2> QED BY <1>0, <1>1, <2>1, <2>2, <2>3, ForeignKeeps
<1>3. ASSUME NEW u \in clean, u = user[r], Acts(m), m.svc \in Effects,
             m.svc = "cart" => carts'[u] = EmptyCart
      PROVE  CleanFor(u)'
  <2>0. u \in Users /\ CleanFor(u) /\ pc[r] = m.svc /\ Active(r)
    BY <1>0, <1>3 DEF CleanInv, CleanFor, Awaited, TypeOK, Effects, Active
  <2>1. did[r][m.svc] = << >> /\ did'[r][m.svc] = <<prep[r]>> /\ <<prep[r]>> # << >>
    <3>1. did[r][m.svc] = << >>
      BY <1>0, <1>3 DEF MessageAgrees, Effects
    <3>2. did'[r][m.svc] = Append(did[r][m.svc], m.items)
      BY <1>0, <1>3 DEF Acts, TypeOK
    <3> QED BY <1>0, <3>1, <3>2, AppendToEmpty
  <2>2. /\ \A q \in Requests : user[q] = u /\ Active(q) => q = r
        /\ \A a \in Adds : adder[a] = u => addPc[a] # "read"
    BY <1>0, <1>3, <2>0 DEF CleanFor, Alone
  <2>3. \A q \in Requests \ {r} : user[q] = u /\ did[q]["shipping"] # << >> => did[q]["cart"] # << >>
    BY <2>0, <2>2 DEF CleanFor, SettledCalls, Active
  <2>4. Alone(u)'
    BY <1>1, <2>0 DEF CleanFor, Alone, Active
  <2>5. Awaited(u)'
    BY <1>1, <2>0 DEF CleanFor, Awaited
  <2>6. carts[u] = IF did[r]["cart"] = << >> THEN prep[r] ELSE EmptyCart
    BY <1>0, <1>3, <2>0 DEF CleanFor, Current, Effects
  <2>7. \A p \in Products : added[u][p] \in Nat /\ Units(u, "shipping", p) \in Nat
                            /\ prep[r][p] \in Nat /\ EmptyCart[p] = 0
    BY <1>0, <2>0, UnitsFinite, CheckoutAssumption DEF TypeOK, Carts, EmptyCart
  <2>8. CASE m.svc = "payment"
    <3>1. carts'[u] = carts[u] /\ \A s \in {"shipping", "cart"} : \A q \in Requests : did'[q][s] = did[q][s]
      BY <1>1, <1>3, <2>8 DEF Services
    <3>2. Current(u)'
      BY <1>1, <1>3, <2>0, <2>2, <2>6, <3>1 DEF Current, Active
    <3>3. SettledCalls(u)'
      BY <1>1, <2>0, <2>8, <3>1 DEF CleanFor, SettledCalls
    <3>4. Balanced(u)'
      <4>1. Leaving(u)' = Leaving(u)
        BY <1>1, <3>1 DEF Leaving
      <4>2. \A p \in Products : Units(u, "shipping", p)' = Units(u, "shipping", p)
        BY <1>1, <3>1, UnitsStay
      <4> QED BY <1>1, <2>0, <3>1, <4>1, <4>2 DEF CleanFor, Balanced
    <3> QED BY <2>4, <2>5, <3>2, <3>3, <3>4 DEF CleanFor
  <2>9. CASE m.svc = "shipping"
    <3>1. /\ carts'[u] = carts[u] /\ did[r]["cart"] = << >> /\ carts[u] = prep[r]
          /\ \A q \in Requests : did'[q]["cart"] = did[q]["cart"]
      BY <1>0, <1>1, <1>3, <2>0, <2>6, <2>9, BeforeSets DEF Services, HandlerKnows
    <3>2. Current(u)'
      BY <1>1, <1>3, <2>0, <2>2, <2>6, <3>1 DEF Current, Active
    <3>3. SettledCalls(u)'
      BY <1>1, <2>0, <2>9, <3>1 DEF CleanFor, SettledCalls
    <3>4. Balanced(u)'
      <4>1. ~ Leaving(u) /\ Leaving(u)'
        BY <1>0, <1>1, <1>3, <2>1, <2>3, <2>9, <3>1 DEF Leaving
      <4>2. \A p \in Products : Units(u, "shipping", p)' = Units(u, "shipping", p) + prep[r][p]
        BY <1>0, <1>1, <1>3, <2>1, <2>9, UnitsGrow
      <4>3. \A p \in Products : added[u][p] = Units(u, "shipping", p) + prep[r][p]
        BY <2>0, <3>1, <4>1 DEF CleanFor, Balanced
      <4>4. \A p \in Products : added'[u][p] = Units(u, "shipping", p)' + 0
        BY <1>1, <2>7, <4>2, <4>3
      <4> QED BY <4>1, <4>4 DEF Balanced
    <3> QED BY <2>4, <2>5, <3>2, <3>3, <3>4 DEF CleanFor
  <2>10. CASE m.svc = "cart"
    <3>1. /\ carts'[u] = EmptyCart /\ did[r]["shipping"] # << >>
          /\ \A q \in Requests : \A s \in {"payment", "shipping"} : did'[q][s] = did[q][s]
      <4>1. did[r]["shipping"] = <<prep[r]>>
        BY <1>0, <2>10 DEF MessageAgrees
      <4> QED BY <1>1, <1>3, <2>1, <2>10, <4>1 DEF Services
    <3>2. Current(u)'
      BY <1>1, <1>3, <2>0, <2>1, <2>2, <2>10, <3>1 DEF Current, Active
    <3>3. SettledCalls(u)'
      BY <1>1, <2>0, <2>1, <2>3, <2>10, <3>1 DEF CleanFor, SettledCalls
    <3>4. Balanced(u)'
      <4>1. Leaving(u) /\ ~ Leaving(u)'
        BY <1>0, <1>1, <1>3, <2>1, <2>3, <2>10, <3>1 DEF Leaving
      <4>2. \A p \in Products : Units(u, "shipping", p)' = Units(u, "shipping", p)
        BY <1>1, <3>1, UnitsStay
      <4>3. \A p \in Products : added[u][p] = Units(u, "shipping", p) + 0
        BY <2>0, <4>1 DEF CleanFor, Balanced
      <4>4. \A p \in Products : added'[u][p] = Units(u, "shipping", p)' + carts'[u][p]
        BY <1>1, <2>7, <3>1, <4>2, <4>3
      <4> QED BY <4>1, <4>4 DEF Balanced
    <3> QED BY <2>4, <2>5, <3>2, <3>3, <3>4 DEF CleanFor
  <2> QED BY <1>3, <2>8, <2>9, <2>10 DEF Effects
<1>4. \/ Refuse(m)
      \/ Acts(m) /\ (m.svc = "cart" => carts'[user[r]] = EmptyCart)
  BY <1>0 DEF Service, Charge, ShipOrder, EmptyUserCart, SendOrderConfirmation, AppendToTopic,
              TypeOK
<1>5. CASE Refuse(m)
  BY <1>1, <1>2, <1>5 DEF Refuse, CleanInv
<1>6. CASE /\ Acts(m) /\ m.svc \in Effects
           /\ m.svc = "cart" => carts'[user[r]] = EmptyCart
  <2>1. \A u \in clean : CleanFor(u)'
    BY <1>2, <1>3, <1>6
  <2> QED BY <1>1, <2>1 DEF CleanInv
<1>7. CASE m.svc \notin Effects
  <2>1. \A u \in clean : u = user[r] => carts'[u] = carts[u]
    BY <1>1, <1>7 DEF Effects
  <2>2. \A s \in Effects : did'[r][s] = did[r][s]
    BY <1>1, <1>7 DEF Effects, Services
  <2>3. \A u \in clean : CleanFor(u)'
    BY <1>2, <2>1, <2>2
  <2> QED BY <1>1, <2>3 DEF CleanInv
<1> QED BY <1>4, <1>5, <1>6, <1>7

\* AddItem of a clean customer reads and writes a cart nothing else changes.
LEMMA AddItemKeepsClean ==
  ASSUME TypeOK, CleanInv, NEW a \in Adds, AddItem(a)
  PROVE  CleanInv'
<1> DEFINE c == adder[a]
<1> USE DEF params
<1>0. /\ UNCHANGED <<user, adder, pc, prep, wire, did>>
      /\ clean' \subseteq clean
      /\ \A n \in wire : n.r \in Requests
      /\ \A b \in Adds : b # a => base'[b] = base[b] /\ addPc'[b] = addPc[b]
      /\ \A u \in Users : u # c => carts'[u] = carts[u] /\ added'[u] = added[u]
  BY DEF AddItem, AddItemRead, AddItemWrite, AddItemFails, Begin, TypeOK, Message
<1>1. ASSUME NEW u \in clean', u # c PROVE CleanFor(u)'
  <2>1. u \in Users /\ CleanFor(u)
    BY <1>0 DEF CleanInv, TypeOK
  <2>2. \A b \in Adds : adder[b] = u => b # a
    BY <1>1
  <2> QED BY <1>0, <1>1, <2>1, <2>2, ForeignKeeps
<1>2. ASSUME AddItemRead(a), c \in clean' PROVE CleanFor(c)'
  <2>0. /\ Idle(c) /\ CleanFor(c) /\ UNCHANGED <<carts, added>>
        /\ addPc'[a] = "read" /\ base'[a] = carts[c]
    BY <1>0, <1>2 DEF AddItemRead, Begin, CleanInv, TypeOK
  <2>1. Alone(c)'
    BY <1>0, <2>0 DEF Alone, Idle, Active
  <2>2. Awaited(c)'
    BY <1>0, <2>0 DEF Awaited, Idle
  <2>3. Current(c)'
    BY <1>0, <2>0 DEF Current, Idle, Active
  <2>4. SettledCalls(c)'
    BY <1>0, <2>0 DEF CleanFor, SettledCalls
  <2>5. Balanced(c)'
    <3>1. \A p \in Products : Units(c, "shipping", p)' = Units(c, "shipping", p)
      BY <1>0, UnitsStay
    <3>2. Leaving(c)' = Leaving(c)
      BY <1>0 DEF Leaving
    <3> QED BY <1>0, <2>0, <3>1, <3>2 DEF CleanFor, Balanced
  <2> QED BY <2>1, <2>2, <2>3, <2>4, <2>5 DEF CleanFor
<1>3. ASSUME AddItemWrite(a), c \in clean' PROVE CleanFor(c)'
  <2>0. /\ c \in Users /\ CleanFor(c) /\ addPc[a] = "read" /\ addPc'[a] = "done"
        /\ carts'[c] = Plus(base[a], wanted[a])
        /\ added'[c] = Plus(added[c], wanted[a])
        /\ carts[c] \in Carts /\ added[c] \in [Products -> Nat] /\ wanted[a] \in Products
    BY <1>0, <1>3 DEF AddItemWrite, CleanInv, TypeOK
  <2>1. /\ base[a] = carts[c]
        /\ \A r \in Requests : user[r] = c => ~ Active(r)
        /\ \A b \in Adds : adder[b] = c => addPc'[b] # "read"
        /\ \A n \in wire : user[n.r] # c
    BY <1>0, <2>0 DEF CleanFor, Alone, Current
  <2>2. Alone(c)'
    BY <1>0, <2>1 DEF Alone, Active
  <2>3. Awaited(c)'
    BY <1>0, <2>1 DEF Awaited
  <2>4. Current(c)'
    BY <1>0, <2>1 DEF Current, Active
  <2>5. SettledCalls(c)'
    BY <1>0, <2>0 DEF CleanFor, SettledCalls
  <2>6. Balanced(c)'
    <3>1. \A p \in Products : Units(c, "shipping", p)' = Units(c, "shipping", p)
      BY <1>0, UnitsStay
    <3>2. ~ Leaving(c) /\ ~ Leaving(c)'
      BY <1>0, <2>0, <2>1 DEF Leaving, CleanFor, SettledCalls, Active
    <3>3. \A p \in Products : added[c][p] = Units(c, "shipping", p) + carts[c][p]
      BY <2>0, <3>2 DEF CleanFor, Balanced
    <3>4. ASSUME NEW p \in Products PROVE added'[c][p] = Units(c, "shipping", p)' + carts'[c][p]
      <4>1. Units(c, "shipping", p) \in Nat /\ carts[c][p] \in Nat /\ added[c][p] \in Nat
        BY <2>0, UnitsFinite, CheckoutAssumption DEF Carts
      <4>2. /\ carts'[c][p] = IF p = wanted[a] THEN carts[c][p] + 1 ELSE carts[c][p]
            /\ added'[c][p] = IF p = wanted[a] THEN added[c][p] + 1 ELSE added[c][p]
        BY <2>0, <2>1 DEF Plus, Carts
      <4> QED BY <3>1, <3>3, <4>1, <4>2
    <3> QED BY <1>0, <3>2, <3>4 DEF Balanced
  <2> QED BY <2>2, <2>3, <2>4, <2>5, <2>6 DEF CleanFor
<1>4. ASSUME AddItemFails(a), c \in clean' PROVE CleanFor(c)'
  <2>1. c \in Users /\ CleanFor(c) /\ UNCHANGED <<carts, base, added>> /\ addPc'[a] # "read"
    BY <1>0, <1>4 DEF AddItemFails, CleanInv, TypeOK
  <2> QED BY <1>0, <2>1, ForeignKeeps
<1>5. \A u \in clean' : CleanFor(u)'
  BY <1>0, <1>1, <1>2, <1>3, <1>4 DEF AddItem
<1> QED BY <1>5 DEF CleanInv

LEMMA Clean == Spec => []CleanInv
<1>1. Init => CleanInv
  <2> SUFFICES ASSUME Init, NEW u \in Users PROVE CleanFor(u)
    BY DEF Init, CleanInv
  <2>1. Alone(u) /\ Awaited(u) /\ Current(u)
    BY DEF Init, Alone, Awaited, Current, Active
  <2>2. SettledCalls(u) /\ ~ Leaving(u)
    BY DEF Init, SettledCalls, Leaving, Services
  <2>3. Balanced(u)
    <3> SUFFICES ASSUME NEW p \in Products PROVE 0 = Units(u, "shipping", p) + 0
      BY <2>2 DEF Init, Balanced, EmptyCart
    <3>1. UnitSet(u, "shipping", p) = {}
      BY DEF Init, UnitSet, Services
    <3> QED BY <3>1, FS_EmptySet DEF Units
  <2> QED BY <2>1, <2>2, <2>3 DEF CleanFor
<1>2. TypeOK /\ TypeOK' /\ FlightInv /\ CleanInv /\ [Next]_vars => CleanInv'
  <2> SUFFICES ASSUME TypeOK, TypeOK', FlightInv, CleanInv, [Next]_vars PROVE CleanInv'
    OBVIOUS
  <2>1. ASSUME NEW v \in Users, CartLost(v) PROVE CleanInv'
    <3>1. /\ UNCHANGED <<user, adder, pc, prep, wire, did, addPc, base, added>>
          /\ \A u \in clean' : u \in clean /\ u \in Users /\ u # v
          /\ \A u \in Users : u # v => carts'[u] = carts[u]
          /\ \A n \in wire : n.r \in Requests
      BY <2>1 DEF CartLost, Spoil, params, adding, TypeOK, Message
    <3>2. \A u \in clean' : CleanFor(u)'
      BY <3>1, ForeignKeeps DEF CleanInv
    <3> QED BY <3>2 DEF CleanInv
  <2>2. CASE UNCHANGED vars
    <3>1. /\ UNCHANGED <<user, adder, pc, prep, wire, did, carts, addPc, base, added, clean>>
          /\ \A n \in wire : n.r \in Requests
          /\ clean \subseteq Users
      BY <2>2 DEF vars, TypeOK, Message
    <3>2. \A u \in clean : CleanFor(u)'
      BY <3>1, ForeignKeeps DEF CleanInv
    <3> QED BY <3>1, <3>2 DEF CleanInv
  <2> QED
    BY <2>1, <2>2, HandlerKeepsClean, ServiceKeepsClean, AddItemKeepsClean, CrashKeepsClean DEF Next
<1> QED BY <1>1, <1>2, TypeCorrect, Flight, PTL DEF Spec

\* A customer whose calls never overlapped or broke paid once for every unit
\* shipped, and each unit they added is still in the cart or was shipped once.
THEOREM UnitsAddUp == Spec => []UnitsConserved
<1>1. TypeOK /\ CleanInv => UnitsConserved
  <2> SUFFICES ASSUME TypeOK, CleanInv, NEW u \in clean, Idle(u), NEW p \in Products
               PROVE  /\ added[u][p] = carts[u][p] + Units(u, "shipping", p)
                      /\ Units(u, "payment", p) = Units(u, "shipping", p)
    BY DEF UnitsConserved
  <2>1. CleanFor(u) /\ ~ Leaving(u)
    BY NothingRuns DEF CleanInv
  <2>2. UnitSet(u, "payment", p) = UnitSet(u, "shipping", p)
    BY <2>1 DEF CleanFor, SettledCalls, Idle, Active, UnitSet
  <2>3. carts[u][p] \in Nat /\ Units(u, "shipping", p) \in Nat
    BY UnitsFinite, CheckoutAssumption DEF TypeOK, Carts
  <2>4. added[u][p] = Units(u, "shipping", p) + carts[u][p]
    BY <2>1 DEF CleanFor, Balanced
  <2>5. Units(u, "payment", p) = Units(u, "shipping", p)
    BY <2>2 DEF Units
  <2> QED BY <2>3, <2>4, <2>5
<1> QED BY <1>1, Clean, TypeCorrect, PTL
=============================================================================
