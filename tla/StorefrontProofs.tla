-------------------------- MODULE StorefrontProofs --------------------------
\* Proofs about Storefront: the type invariant, that a quiet tab shows the cart,
\* that no item is paid twice, and that the form is kept.
EXTENDS Storefront, TLAPS

\* While the tab waits for no change, a load that has read the cart has read what
\* it is, and the entry shown is the cart unless it is being loaded.
Fresh ==
  waiting = {} =>
    \A c \in Currencies \ excused :
      /\ fetch[c] = "read" => got[c] = cart
      /\ c = currency /\ fetch[c] = "none" => data[c] = cart

--------------------------------------------------------------------------
(* Type correctness *)

LEMMA CartsFacts == {} \in Carts /\ \A r \in Requests : {r} \in Carts
  BY ConstantsAssumption DEF Carts, Items, Requests

LEMMA InitType == Init => TypeOK
  <1> SUFFICES ASSUME Init PROVE TypeOK
    OBVIOUS
  <1>1. {0} \in Carts /\ 0 \in 0..MaxTroubles
    BY ConstantsAssumption DEF Carts, Items
  <1> QED BY <1>1, CartsFacts, ConstantsAssumption DEF Init, TypeOK, Steps, Entries

\* The steps that leave what the form depends on.
LEMMA FormLeft ==
  ASSUME TypeOK, UNCHANGED <<typed, page, data, currency>>
  PROVE  typed' \in BOOLEAN /\ (typed' => Mounted')
  BY DEF TypeOK, Mounted

LEMMA FormType ==
  ASSUME TypeOK, FormStays
  PROVE  typed' \in BOOLEAN /\ (typed' => Mounted')
  <1>1. Mounted' \in BOOLEAN
    BY DEF Mounted
  <1> QED BY <1>1 DEF FormStays, TypeOK

LEMMA TroubleType == TypeOK /\ Trouble => troubles' \in 0..MaxTroubles
  BY ConstantsAssumption DEF TypeOK, Trouble

LEMMA AskType ==
  ASSUME TypeOK, NEW what \in Asked, Ask(what)
  PROVE  TypeOK'
  <1>1. typed' \in BOOLEAN /\ (typed' => Mounted')
    BY FormLeft DEF Ask, cache, view
  <1>2. what \in Steps
    BY DEF Steps
  <1> QED BY <1>1, <1>2 DEF TypeOK, Ask, store, cache, view

LEMMA ShopperType == TypeOK /\ Shopper => TypeOK'
  <1> SUFFICES ASSUME TypeOK, Shopper PROVE TypeOK'
    OBVIOUS
  <1>1. CASE AddItem \/ EmptyCart \/ PlaceOrder
    BY <1>1, AskType DEF AddItem, EmptyCart, PlaceOrder, Asked
  <1>2. CASE Type
    <2>1. Mounted'
      BY <1>2 DEF Type, Mounted, cache, view
    <2> QED BY <1>2, <2>1 DEF Type, TypeOK, store, calls, cache, view
  <1>3. CASE Navigate
    <2>1. typed' \in BOOLEAN /\ (typed' => Mounted')
      BY <1>3, FormType DEF Navigate
    <2> QED BY <1>3, <2>1 DEF Navigate, TypeOK, store, calls, cache
  <1>4. CASE SelectCurrency
    <2>1. typed' \in BOOLEAN /\ (typed' => Mounted')
      BY <1>4, FormType DEF SelectCurrency
    <2>2. currency' \in Currencies /\ fetch' \in [Currencies -> {"none", "asked", "read"}]
          /\ excused' \subseteq Currencies
      BY <1>4 DEF SelectCurrency, TypeOK, Started
    <2> QED BY <1>4, <2>1, <2>2 DEF SelectCurrency, TypeOK, store, calls
  <1>5. CASE Refocus
    <2>1. typed' \in BOOLEAN /\ (typed' => Mounted')
      BY <1>5, FormLeft DEF Refocus, view
    <2> QED BY <1>5, <2>1 DEF Refocus, Started, TypeOK, store, calls, view
  <1>6. CASE Elsewhere
    <2>1. typed' \in BOOLEAN /\ (typed' => Mounted')
      BY <1>6, FormLeft DEF Elsewhere, cache, view
    <2>2. troubles' \in 0..MaxTroubles
      BY <1>6, TroubleType DEF Elsewhere
    <2>3. -troubles' \in Items
      <3>1. \A t \in 0..MaxTroubles : -t \in Items
        BY ConstantsAssumption DEF Items
      <3> QED BY <2>2, <3>1
    <2>4. cart \cup {-troubles'} \in Carts
      BY <2>3 DEF TypeOK, Carts
    <2>5. /\ cart' \in Carts /\ elsewhere' \in Entries /\ excused' \subseteq Currencies
          /\ UNCHANGED <<paid, spoilt, calls, cache, view>>
      BY <1>6, <2>4, CartsFacts DEF Elsewhere, TypeOK, Entries
    <2> QED BY <2>1, <2>2, <2>5 DEF TypeOK, calls, cache, view
  <1>7. CASE AddedElsewhere
    <2>1. typed' \in BOOLEAN /\ (typed' => Mounted')
      BY <1>7, FormLeft DEF AddedElsewhere, cache, view
    <2>2. cart' \in Carts /\ elsewhere' \in Entries
      BY <1>7 DEF AddedElsewhere, TypeOK, Entries
    <2> QED BY <1>7, <2>1, <2>2 DEF AddedElsewhere, TypeOK, calls, cache, view
  <1> QED BY <1>1, <1>2, <1>3, <1>4, <1>5, <1>6, <1>7 DEF Shopper

LEMMA LoadType ==
  ASSUME TypeOK, NEW c \in Currencies, Loading(c) \/ LoadFails(c) \/ Dropped(c)
  PROVE  TypeOK'
  <1>1. CASE LoadRead(c)
    <2>1. typed' \in BOOLEAN /\ (typed' => Mounted')
      BY <1>1, FormLeft DEF LoadRead, view
    <2> QED BY <1>1, <2>1 DEF LoadRead, TypeOK, store, calls, view
  <1>2. CASE Loaded(c)
    <2>1. typed' \in BOOLEAN /\ (typed' => Mounted')
      BY <1>2, FormType DEF Loaded
    <2> QED BY <1>2, <2>1, CartsFacts DEF Loaded, TypeOK, Entries, store, calls, view
  <1>3. CASE LoadFails(c)
    <2>1. typed' \in BOOLEAN /\ (typed' => Mounted')
      BY <1>3, FormLeft DEF LoadFails, view
    <2>2. troubles' \in 0..MaxTroubles
      BY <1>3, TroubleType DEF LoadFails
    <2> QED BY <1>3, <2>1, <2>2, CartsFacts DEF LoadFails, TypeOK, store, calls, view
  <1>4. CASE Dropped(c)
    <2>1. typed' => Mounted'
      BY <1>4 DEF Dropped, TypeOK, Mounted, view
    <2> QED BY <1>4, <2>1 DEF Dropped, TypeOK, Entries, store, calls, view
  <1> QED BY <1>1, <1>2, <1>3, <1>4 DEF Loading

\* What a handler's next step, and the failure of its request, leave well typed.
LEMMA StepType ==
  ASSUME TypeOK, NEW r \in Requests, NEW from, NEW to \in Steps, Step(r, from, to)
  PROVE  /\ server' \in [Requests -> Steps]
         /\ typed' \in BOOLEAN /\ (typed' => Mounted')
         /\ UNCHANGED <<waiting, cache, view, troubles>>
  BY FormLeft DEF Step, TypeOK, cache, view

LEMMA ToldType ==
  ASSUME TypeOK, NEW r \in Requests, Told(r)
  PROVE  /\ waiting' \subseteq Requests /\ excused' \subseteq Currencies
         /\ typed' \in BOOLEAN /\ (typed' => Mounted')
         /\ UNCHANGED <<cart, elsewhere, cache, view>>
  BY FormLeft DEF Told, TypeOK, cache, view

LEMMA EndsType ==
  ASSUME TypeOK, NEW r \in Requests, Ends(r)
  PROVE  server' \in [Requests -> Steps] /\ basket' \in [Requests -> Carts]
  BY CartsFacts DEF Ends, TypeOK, Steps

LEMMA HandlingType ==
  ASSUME TypeOK, NEW r \in Requests, Handling(r)
  PROVE  TypeOK'
  <1>1. \A done \in Done : Applied(r, done) \in Steps
    BY DEF Applied, Steps
  <1>2. {"added", "emptied", "ordered"} \subseteq Done /\ {"adding", "read", "charged"} \subseteq Steps
    BY DEF Done, Steps
  <1>3. CASE ItemRead(r)
    <2>1. cart \cup {r} \in Carts
      BY CartsFacts DEF TypeOK, Carts
    <2>2. basket' \in [Requests -> Carts] /\ UNCHANGED <<store, excused>>
      BY <1>3, <2>1 DEF ItemRead, TypeOK
    <2> QED BY <1>2, <1>3, <2>2, StepType DEF ItemRead, TypeOK, store, cache, view
  <1>4. CASE ItemAdded(r)
    <2>1. /\ cart' \in Carts /\ basket' \in [Requests -> Carts] /\ excused' \subseteq Currencies
          /\ UNCHANGED <<elsewhere, paid, spoilt>>
      BY <1>4, CartsFacts DEF ItemAdded, Unwatched, TypeOK
    <2> QED BY <1>1, <1>2, <1>4, <2>1, StepType DEF ItemAdded, TypeOK, cache, view
  <1>5. CASE CartEmptied(r)
    <2>1. cart' \in Carts /\ excused' \subseteq Currencies /\ UNCHANGED <<elsewhere, paid, spoilt, basket>>
      BY <1>5, CartsFacts DEF CartEmptied, Unwatched, TypeOK
    <2> QED BY <1>1, <1>2, <1>5, <2>1, StepType DEF CartEmptied, TypeOK, cache, view
  <1>6. CASE CartRead(r)
    <2>1. /\ basket' \in [Requests -> Carts] /\ spoilt' \subseteq Requests
          /\ UNCHANGED <<cart, elsewhere, paid, excused>>
      BY <1>6 DEF CartRead, Ordering, TypeOK
    <2> QED BY <1>2, <1>6, <2>1, StepType DEF CartRead, TypeOK, cache, view
  <1>7. CASE CardCharged(r)
    <2>1. /\ basket' \in [Requests -> Carts] /\ paid' \in [Requests -> Carts]
          /\ UNCHANGED <<cart, elsewhere, spoilt, excused>>
      BY <1>7, CartsFacts DEF CardCharged, TypeOK
    <2> QED BY <1>2, <1>7, <2>1, StepType DEF CardCharged, TypeOK, cache, view
  <1>8. CASE OrderedCartEmptied(r)
    <2>1. /\ cart' \in Carts /\ spoilt' \subseteq Requests /\ excused' \subseteq Currencies
          /\ UNCHANGED <<elsewhere, paid, basket>>
      BY <1>8, CartsFacts DEF OrderedCartEmptied, Unwatched, TypeOK
    <2> QED BY <1>1, <1>2, <1>8, <2>1, StepType DEF OrderedCartEmptied, TypeOK, cache, view
  <1>9. CASE CartNotEmptied(r)
    <2>1. typed' \in BOOLEAN /\ (typed' => Mounted')
      BY <1>9, FormLeft DEF CartNotEmptied, cache, view
    <2>2. troubles' \in 0..MaxTroubles
      BY <1>9, TroubleType DEF CartNotEmptied
    <2>3. server' \in [Requests -> Steps] /\ spoilt' \subseteq Requests
      BY <1>1, <1>2, <1>9 DEF CartNotEmptied, TypeOK
    <2> QED BY <1>9, <2>1, <2>2, <2>3 DEF CartNotEmptied, TypeOK, cache, view
  <1>10. CASE Fail(r)
    <2>1. Ends(r) /\ Told(r) /\ troubles' \in 0..MaxTroubles /\ UNCHANGED <<paid, spoilt>>
      BY <1>10, TroubleType DEF Fail, Ends
    <2> QED BY <2>1, ToldType, EndsType DEF TypeOK, cache, view
  <1>11. CASE Refused(r)
    <2>1. Ends(r) /\ Told(r) /\ UNCHANGED <<paid, spoilt, troubles>>
      BY <1>11 DEF Refused, Ends
    <2> QED BY <2>1, ToldType, EndsType DEF TypeOK, cache, view
  <1>12. CASE ChargedInVain(r)
    <2>1. Ends(r) /\ Told(r) /\ troubles' \in 0..MaxTroubles
      BY <1>12, TroubleType DEF ChargedInVain, Ends
    <2>2. paid' \in [Requests -> Carts] /\ spoilt' \subseteq Requests
      BY <1>12 DEF ChargedInVain, TypeOK
    <2> QED BY <2>1, <2>2, ToldType, EndsType DEF TypeOK, cache, view
  <1>13. CASE GivenUp(r)
    <2>1. Told(r) /\ troubles' \in 0..MaxTroubles /\ UNCHANGED <<server, basket, paid, spoilt>>
      BY <1>13, TroubleType DEF GivenUp
    <2> QED BY <2>1, ToldType DEF TypeOK, cache, view
  <1>14. CASE Confirm(r)
    <2>1. typed' \in BOOLEAN /\ (typed' => Mounted')
      BY <1>14, FormType DEF Confirm
    <2>2. page' \in {"shop", "cart", "order"}
      BY <1>14 DEF Confirm, TypeOK
    <2>3. /\ fetch' \in [Currencies -> {"none", "asked", "read"}]
          /\ got' \in [Currencies -> Carts]
          /\ excused' \subseteq Currencies
      BY <1>14, CartsFacts DEF Confirm, Invalidated, TypeOK
    <2>4. server' \in [Requests -> Steps] /\ waiting' \subseteq Requests
      BY <1>14 DEF Confirm, TypeOK, Steps
    <2> QED BY <1>14, <2>1, <2>2, <2>3, <2>4 DEF Confirm, TypeOK, store
  <1> QED BY <1>3, <1>4, <1>5, <1>6, <1>7, <1>8, <1>9, <1>10, <1>11, <1>12, <1>13, <1>14 DEF Handling

LEMMA NextType == TypeOK /\ [Next]_vars => TypeOK'
  <1> SUFFICES ASSUME TypeOK, [Next]_vars PROVE TypeOK'
    OBVIOUS
  <1>1. CASE UNCHANGED vars
    BY <1>1 DEF vars, store, calls, cache, view, TypeOK, Mounted
  <1> QED BY <1>1, ShopperType, LoadType, HandlingType DEF Next

\* Every variable keeps its set of values, and what is typed has its form.
THEOREM TypeCorrect == Spec => []TypeOK
  BY InitType, NextType, PTL DEF Spec

--------------------------------------------------------------------------
(* What is shown *)

LEMMA InitFresh == Init => Fresh
  BY DEF Init, Fresh

LEMMA ShopperFresh == TypeOK /\ Fresh /\ Shopper => Fresh'
  <1> SUFFICES ASSUME TypeOK, Fresh, Shopper PROVE Fresh'
    OBVIOUS
  <1>1. CASE AddItem \/ EmptyCart \/ PlaceOrder
    <2>1. waiting' # {}
      BY <1>1 DEF AddItem, EmptyCart, PlaceOrder, Ask
    <2> QED BY <2>1 DEF Fresh
  <1>2. CASE Type \/ Navigate
    BY <1>2 DEF Type, Navigate, Fresh, store, calls, cache, view
  <1>3. CASE SelectCurrency
    <2>1. UNCHANGED <<cart, waiting, data, got>>
      BY <1>3 DEF SelectCurrency, store, calls
    <2>2. CASE fetch[currency'] = "none"
      BY <1>3, <2>1, <2>2 DEF SelectCurrency, Started, Fresh, TypeOK
    <2>3. CASE fetch[currency'] # "none"
      BY <1>3, <2>1, <2>3 DEF SelectCurrency, Fresh, TypeOK
    <2> QED BY <2>2, <2>3
  <1>4. CASE Refocus
    BY <1>4 DEF Refocus, Started, Fresh, TypeOK, store, calls, view
  <1>5. CASE Elsewhere
    BY <1>5 DEF Elsewhere, Fresh, calls, cache, view
  <1>6. CASE AddedElsewhere
    BY <1>6 DEF AddedElsewhere, Fresh
  <1> QED BY <1>1, <1>2, <1>3, <1>4, <1>5, <1>6 DEF Shopper

LEMMA LoadFresh ==
  ASSUME TypeOK, Fresh, NEW c \in Currencies, Loading(c) \/ LoadFails(c) \/ Dropped(c)
  PROVE  Fresh'
  <1>1. CASE LoadRead(c)
    BY <1>1 DEF LoadRead, Fresh, TypeOK, store, calls, view
  <1>2. CASE Loaded(c)
    BY <1>2 DEF Loaded, Fresh, TypeOK, store, calls, view
  <1>3. CASE LoadFails(c)
    BY <1>3 DEF LoadFails, Fresh, TypeOK, store, calls, view
  <1>4. CASE Dropped(c)
    BY <1>4 DEF Dropped, Fresh, TypeOK, store, calls, view
  <1> QED BY <1>1, <1>2, <1>3, <1>4 DEF Loading

LEMMA HandlingFresh ==
  ASSUME TypeOK, Fresh, NEW r \in Requests, Handling(r)
  PROVE  Fresh'
  <1>1. ASSUME Unwatched(r), UNCHANGED waiting PROVE Fresh'
    BY <1>1 DEF Unwatched, Fresh
  <1>2. ASSUME UNCHANGED <<cart, waiting, cache, view, excused>> PROVE Fresh'
    BY <1>2 DEF Fresh, cache, view
  <1>3. CASE ItemAdded(r) \/ CartEmptied(r) \/ OrderedCartEmptied(r)
    BY <1>1, <1>3 DEF ItemAdded, CartEmptied, OrderedCartEmptied, Step
  <1>4. CASE ItemRead(r) \/ CartRead(r) \/ CardCharged(r) \/ CartNotEmptied(r)
    BY <1>2, <1>4 DEF ItemRead, CartRead, CardCharged, CartNotEmptied, Step, store
  <1>5. CASE Fail(r) \/ Refused(r) \/ ChargedInVain(r) \/ GivenUp(r)
    <2>1. Told(r)
      BY <1>5 DEF Fail, Refused, ChargedInVain, GivenUp, Ends
    <2>2. CASE r \in waiting
      BY <2>1, <2>2 DEF Told, Fresh
    <2>3. CASE r \notin waiting
      <3>1. UNCHANGED <<cart, waiting, cache, view, excused>>
        BY <2>1, <2>3 DEF Told
      <3> QED BY <1>2, <3>1
    <2> QED BY <2>2, <2>3
  <1>6. CASE Confirm(r)
    <2>1. UNCHANGED <<cart, data, currency>>
      BY <1>6 DEF Confirm, store
    <2> DEFINE restarted == fetch[currency] = "none" \/ data[currency] # None
               letBe == {c \in Currencies : fetch[c] # "none" /\ (c # currency \/ ~restarted)}
    <2>2. /\ fetch' = IF restarted THEN [fetch EXCEPT ![currency] = "asked"] ELSE fetch
          /\ excused' = (IF restarted THEN excused \ {currency} ELSE excused) \cup letBe
      BY <1>6 DEF Confirm, Invalidated
    <2>3. \A c \in Currencies \ excused' : c # currency => fetch'[c] = "none"
      BY <2>2 DEF TypeOK
    <2>4. currency \notin excused' => fetch'[currency] = "asked"
      BY <2>2 DEF TypeOK
    <2> QED BY <2>1, <2>3, <2>4 DEF Fresh
  <1> QED BY <1>3, <1>4, <1>5, <1>6 DEF Handling

LEMMA NextFresh == TypeOK /\ Fresh /\ [Next]_vars => Fresh'
  <1> SUFFICES ASSUME TypeOK, Fresh, [Next]_vars PROVE Fresh'
    OBVIOUS
  <1>1. CASE UNCHANGED vars
    BY <1>1 DEF vars, store, calls, cache, view, Fresh
  <1> QED BY <1>1, ShopperFresh, LoadFresh, HandlingFresh DEF Next

\* For any number of changes, currencies, failures and other tabs: a tab at rest
\* shows the cart, but for the excused entries.
THEOREM ShownCart == Spec => []ShownIsCart
  <1>1. TypeOK /\ Fresh => ShownIsCart
    BY DEF TypeOK, Fresh, ShownIsCart, Quiet
  <1> QED BY <1>1, InitType, NextType, InitFresh, NextFresh, PTL DEF Spec

--------------------------------------------------------------------------
(* What is paid *)

\* The items added so far, or read into the cart that is to be written with them,
\* here or in another tab.
Used == {i \in Items : i >= -troubles /\ (i \in Requests => server[i] \notin {"idle"} \cup Asked)}

\* Everything charged, read or in the cart was added; only a handler that adds or
\* orders keeps a basket, and only one that ordered has charged the card.
Added ==
  /\ cart \subseteq Used
  /\ elsewhere # None => elsewhere \subseteq Used
  /\ \A r \in Requests : /\ paid[r] \subseteq Used /\ basket[r] \subseteq Used
                         /\ basket[r] # {} => server[r] \in {"adding", "read"}
                         /\ paid[r] # {} => server[r] \in {"charged", "ordered", "ended"}

\* An order that is not spoilt is the only one in the making; once it has emptied the
\* cart, what it charged the card for is neither in the cart, nor in one that an
\* addition will write, nor in a later order's basket.
Gone(q) ==
  /\ paid[q] \cap cart = {}
  /\ elsewhere # None => paid[q] \cap elsewhere = {}
  /\ \A r \in Requests : paid[q] \cap basket[r] = {}

Apart ==
  \A q \in Requests \ spoilt :
    /\ q \in Ordering => Ordering = {q}
    /\ server[q] # "charged" => Gone(q)
    /\ \A r \in Requests \ spoilt : q # r => paid[q] \cap paid[r] = {}

BInv == TypeOK /\ Added /\ Apart

LEMMA InitBuying == Init => Added /\ Apart
  <1> SUFFICES ASSUME Init PROVE Added /\ Apart
    OBVIOUS
  <1>1. 0 \in Used
    BY ConstantsAssumption DEF Init, Used, Items, Requests
  <1>2. Ordering = {}
    BY DEF Init, Ordering
  <1> QED BY <1>1, <1>2 DEF Init, Added, Apart, Gone

Grown == troubles' \in Nat /\ troubles' >= troubles

\* Handlers only go on, and troubles only grow: what was added stays added.
LEMMA UsedGrows ==
  ASSUME TypeOK, Grown,
         \A r \in Requests : server[r] \notin {"idle"} \cup Asked => server'[r] \notin {"idle"} \cup Asked
  PROVE  Used \subseteq Used'
  <1> SUFFICES ASSUME NEW i \in Used PROVE i \in Used'
    OBVIOUS
  <1>1. i \in Int /\ i >= -troubles /\ troubles \in Nat
    BY ConstantsAssumption DEF Used, TypeOK, Items
  <1>2. \A a, b \in Nat : i >= -a /\ b >= a => i >= -b
    BY <1>1
  <1>3. i >= -(troubles')
    BY <1>1, <1>2 DEF Grown
  <1> QED BY <1>3 DEF Used

LEMMA TroubleGrows == TypeOK /\ (Trouble \/ UNCHANGED troubles) => Grown
  BY DEF TypeOK, Trouble, Grown

\* The steps that touch neither a cart nor an order.
LEMMA BuyingLeft ==
  ASSUME BInv, UNCHANGED <<store, basket, server>>, Grown
  PROVE  Added' /\ Apart'
  <1>1. Used \subseteq Used'
    BY UsedGrows DEF BInv
  <1>2. Added'
    BY <1>1 DEF BInv, Added, store
  <1>3. Ordering' = Ordering
    BY DEF Ordering
  <1>4. Apart'
    BY <1>3 DEF BInv, Apart, Gone, store
  <1> QED BY <1>2, <1>4

LEMMA AskBuying ==
  ASSUME BInv, NEW what \in Asked, Ask(what)
  PROVE  Added' /\ Apart'
  <1>1. PICK r \in Requests : server' = [server EXCEPT ![r] = what] /\ server[r] = "idle"
    BY DEF Ask
  <1>2. /\ \A q \in Requests : q # r => server'[q] = server[q]
        /\ server'[r] \in Asked
    BY <1>1 DEF BInv, TypeOK
  <1>3. UNCHANGED <<cart, elsewhere, paid, spoilt, basket, troubles>>
    BY DEF Ask, store
  <1>4. paid[r] = {} /\ basket[r] = {}
    BY <1>1 DEF BInv, Added
  <1>5. Used \subseteq Used'
    BY <1>1, <1>2, <1>3, UsedGrows DEF BInv, TypeOK, Grown
  <1>6. Added'
    BY <1>2, <1>3, <1>4, <1>5 DEF BInv, Added
  <1>7. Ordering' = Ordering
    BY <1>1, <1>2 DEF Ordering, Asked
  <1>8. ASSUME NEW q \in Requests \ spoilt, server'[q] # "charged" PROVE Gone(q)'
    <2>1. CASE q = r
      BY <1>3, <1>4, <2>1 DEF Gone
    <2>2. CASE q # r
      BY <1>2, <1>3, <1>8, <2>2 DEF BInv, Apart, Gone
    <2> QED BY <2>1, <2>2
  <1>9. Apart'
    BY <1>3, <1>7, <1>8 DEF BInv, Apart
  <1> QED BY <1>6, <1>9

LEMMA ShopperBuying == BInv /\ Shopper => Added' /\ Apart'
  <1> SUFFICES ASSUME BInv, Shopper PROVE Added' /\ Apart'
    OBVIOUS
  <1>1. CASE AddItem \/ EmptyCart \/ PlaceOrder
    BY <1>1, AskBuying DEF AddItem, EmptyCart, PlaceOrder, Asked
  <1>2. CASE Type \/ Navigate \/ SelectCurrency \/ Refocus
    BY <1>2, BuyingLeft, TroubleGrows DEF BInv, Type, Navigate, SelectCurrency, Refocus, calls
  <1>3. ASSUME UNCHANGED <<paid, spoilt, server, basket>>, Grown,
               cart' \subseteq Used', elsewhere' # None => elsewhere' \subseteq Used',
               \A q \in Requests : Gone(q) => Gone(q)'
        PROVE  Added' /\ Apart'
    <2>1. Used \subseteq Used' /\ Ordering' = Ordering
      BY <1>3, UsedGrows DEF BInv, Ordering
    <2>2. Added'
      BY <1>3, <2>1 DEF BInv, Added
    <2>3. Apart'
      BY <1>3, <2>1 DEF BInv, Apart
    <2> QED BY <2>2, <2>3
  <1>4. CASE Elsewhere
    <2>1. UNCHANGED <<paid, spoilt, server, basket>> /\ Trouble
      BY <1>4 DEF Elsewhere, calls
    <2>2. Grown /\ Used \subseteq Used'
      BY <2>1, UsedGrows, TroubleGrows DEF BInv
    <2>3. -troubles' \in Used' /\ -troubles' \notin Used
      BY <2>1, ConstantsAssumption DEF BInv, TypeOK, Trouble, Used, Items, Requests
    <2>4. CASE elsewhere' = cart \cup {-troubles'} /\ UNCHANGED cart
      <3>1. cart' \subseteq Used' /\ elsewhere' \subseteq Used'
        BY <2>2, <2>3, <2>4 DEF BInv, Added
      <3>2. ASSUME NEW q \in Requests, Gone(q) PROVE Gone(q)'
        BY <2>1, <2>3, <2>4, <3>2 DEF BInv, Added, Gone
      <3> QED BY <1>3, <2>1, <2>2, <3>1, <3>2
    <2>5. CASE cart' = {} /\ UNCHANGED elsewhere
      <3>1. \A q \in Requests : Gone(q) => Gone(q)'
        BY <2>1, <2>5 DEF Gone
      <3> QED BY <1>3, <2>1, <2>2, <2>5, <3>1 DEF BInv, Added
    <2> QED BY <1>4, <2>4, <2>5 DEF Elsewhere
  <1>5. CASE AddedElsewhere
    <2>1. /\ elsewhere # None /\ cart' = elsewhere /\ elsewhere' = None
          /\ UNCHANGED <<paid, spoilt, server, basket>> /\ Grown
      BY <1>5, TroubleGrows DEF AddedElsewhere, calls, BInv
    <2>2. Used \subseteq Used'
      BY <2>1, UsedGrows DEF BInv
    <2>3. \A q \in Requests : Gone(q) => Gone(q)'
      BY <2>1 DEF Gone
    <2> QED BY <1>3, <2>1, <2>2, <2>3 DEF BInv, Added
  <1> QED BY <1>1, <1>2, <1>4, <1>5 DEF Shopper

LEMMA LoadBuying ==
  ASSUME BInv, NEW c \in Currencies, Loading(c) \/ LoadFails(c) \/ Dropped(c)
  PROVE  Added' /\ Apart'
  BY BuyingLeft, TroubleGrows DEF BInv, Loading, LoadRead, Loaded, LoadFails, Dropped, calls

\* What a handler's next step does to the handlers.
LEMMA StepFacts ==
  ASSUME BInv, NEW r \in Requests, NEW from, NEW to, Step(r, from, to)
  PROVE  /\ server[r] = from /\ server'[r] = to
         /\ \A q \in Requests : q # r => server'[q] = server[q]
         /\ UNCHANGED troubles
         /\ to \notin {"idle"} \cup Asked => Used \subseteq Used'
  <1>1. /\ server[r] = from /\ server'[r] = to
        /\ \A q \in Requests : q # r => server'[q] = server[q]
        /\ UNCHANGED troubles
    BY DEF Step, BInv, TypeOK
  <1>2. ASSUME to \notin {"idle"} \cup Asked PROVE Used \subseteq Used'
    BY <1>1, <1>2, UsedGrows DEF BInv, TypeOK, Grown
  <1> QED BY <1>1, <1>2

\* The handlers that end, or go on with what they charged: a basket is dropped, and
\* an order that leaves the cart as it is after the charge is spoilt.
Ending(r) ==
  /\ \A q \in Requests : q # r => server'[q] = server[q] /\ paid'[q] = paid[q]
  /\ server'[r] \in {server[r], "ordered", "ended"}
  /\ cart' = cart /\ elsewhere' = elsewhere
  /\ \A q \in Requests : basket'[q] \in {basket[q], {}}
  /\ server'[r] # server[r] => basket'[r] = {}
  /\ spoilt \subseteq spoilt'
  /\ server[r] = "charged" /\ server'[r] # "charged" => r \in spoilt'
  /\ \/ paid'[r] = paid[r]
     \/ r \in spoilt' /\ server'[r] = "ended" /\ paid'[r] = basket[r]

LEMMA EndBuying ==
  ASSUME BInv, NEW r \in Requests, Ending(r), Grown
  PROVE  Added' /\ Apart'
  <1>1. Used \subseteq Used'
    BY UsedGrows DEF BInv, Asked, Ending
  <1>2. Added'
    BY <1>1 DEF BInv, Added, Ending
  <1>3. Ordering' \subseteq Ordering
    BY DEF Ordering, Ending
  <1>4. ASSUME NEW q \in Requests \ spoilt', server'[q] # "charged" PROVE Gone(q)'
    <2>1. server[q] # "charged" /\ paid'[q] = paid[q]
      BY <1>4 DEF Ending
    <2> QED BY <2>1, <1>4 DEF BInv, Apart, Gone, Ending
  <1>5. Apart'
    BY <1>3, <1>4 DEF BInv, Apart, Ending
  <1> QED BY <1>2, <1>5

LEMMA HandlingBuying ==
  ASSUME BInv, NEW r \in Requests, Handling(r)
  PROVE  Added' /\ Apart'
  <1>1. \A done \in Done : Applied(r, done) \in Done \cup {"ended"}
    BY DEF Applied
  <1>2. "added" \in Done /\ "emptied" \in Done /\ "ordered" \in Done
    BY DEF Done
  <1>3. \A to \in Done \cup {"ended", "adding", "read", "charged"} : to \notin {"idle"} \cup Asked
    BY DEF Done, Asked
  <1>4. CASE ItemRead(r)
    <2>1. /\ server[r] = "add" /\ server'[r] = "adding"
          /\ \A q \in Requests : q # r => server'[q] = server[q]
          /\ Used \subseteq Used' /\ UNCHANGED troubles
      BY <1>3, <1>4, StepFacts DEF ItemRead
    <2>2. basket' = [basket EXCEPT ![r] = cart \cup {r}] /\ UNCHANGED <<cart, elsewhere, paid, spoilt>>
      BY <1>4 DEF ItemRead, store
    <2>3. r \notin Used /\ r \in Used'
      BY <2>1, ConstantsAssumption DEF Used, Items, Requests, BInv, TypeOK, Asked
    <2>4. Added'
      BY <2>1, <2>2, <2>3 DEF BInv, Added, TypeOK
    <2>5. Ordering' = Ordering
      BY <2>1 DEF Ordering
    <2>6. ASSUME NEW q \in Requests \ spoilt, server'[q] # "charged" PROVE Gone(q)'
      <3>1. Gone(q)
        BY <2>1, <2>6 DEF BInv, Apart
      <3>2. r \notin paid[q]
        BY <2>3 DEF BInv, Added
      <3> QED BY <2>2, <3>1, <3>2 DEF Gone, BInv, TypeOK
    <2>7. Apart'
      BY <2>2, <2>5, <2>6 DEF BInv, Apart
    <2> QED BY <2>4, <2>7
  <1>5. CASE ItemAdded(r) \/ CartEmptied(r)
    <2>1. /\ server[r] \in {"adding", "empty"} /\ server'[r] \in Done \cup {"ended"}
          /\ \A q \in Requests : q # r => server'[q] = server[q]
          /\ Used \subseteq Used'
      BY <1>1, <1>2, <1>3, <1>5, StepFacts DEF ItemAdded, CartEmptied
    <2>2. /\ cart' \in {basket[r], {}} /\ UNCHANGED <<elsewhere, paid, spoilt>>
          /\ \A q \in Requests : basket'[q] \in {basket[q], {}}
          /\ basket'[r] = {}
      <3>1. CASE ItemAdded(r)
        BY <3>1 DEF ItemAdded, BInv, TypeOK
      <3>2. CASE CartEmptied(r)
        <4>1. basket[r] = {}
          BY <3>2, StepFacts DEF CartEmptied, BInv, Added
        <4> QED BY <3>2, <4>1 DEF CartEmptied
      <3> QED BY <1>5, <3>1, <3>2
    <2>3. paid[r] = {}
      BY <2>1 DEF BInv, Added
    <2>4. Added'
      BY <2>1, <2>2, <2>3 DEF BInv, Added
    <2>5. Ordering' = Ordering
      BY <2>1 DEF Ordering, Done
    <2>6. ASSUME NEW q \in Requests \ spoilt, server'[q] # "charged" PROVE Gone(q)'
      <3>1. Gone(q)
        BY <2>1, <2>6 DEF BInv, Apart
      <3> QED BY <2>2, <3>1 DEF Gone
    <2>7. Apart'
      BY <2>2, <2>5, <2>6 DEF BInv, Apart
    <2> QED BY <2>4, <2>7
  <1>6. CASE CartRead(r)
    <2>1. /\ server[r] = "order" /\ server'[r] = "read"
          /\ \A q \in Requests : q # r => server'[q] = server[q]
          /\ Used \subseteq Used'
      BY <1>3, <1>6, StepFacts DEF CartRead
    <2>2. UNCHANGED <<cart, elsewhere, paid>> /\ basket' = [basket EXCEPT ![r] = cart]
      BY <1>6 DEF CartRead
    <2>3. spoilt' = IF Ordering = {} THEN spoilt ELSE spoilt \cup Ordering \cup {r}
      BY <1>6 DEF CartRead
    <2>4. Added'
      BY <2>1, <2>2 DEF BInv, Added, TypeOK
    <2>5. Ordering' = Ordering \cup {r}
      BY <2>1 DEF Ordering
    <2>6. ASSUME NEW q \in Requests \ spoilt', q \in Ordering' PROVE Ordering' = {q}
      BY <2>3, <2>5, <2>6
    <2>7. ASSUME NEW q \in Requests \ spoilt', server'[q] # "charged" PROVE Gone(q)'
      <3>1. Gone(q)
        BY <2>1, <2>3, <2>7 DEF BInv, Apart
      <3> QED BY <2>2, <3>1 DEF Gone, BInv, TypeOK
    <2>8. Apart'
      BY <2>2, <2>3, <2>6, <2>7 DEF BInv, Apart
    <2> QED BY <2>4, <2>8
  <1>7. CASE CardCharged(r)
    <2>1. /\ server[r] = "read" /\ server'[r] = "charged"
          /\ \A q \in Requests : q # r => server'[q] = server[q]
          /\ Used \subseteq Used'
      BY <1>3, <1>7, StepFacts DEF CardCharged
    <2>2. /\ UNCHANGED <<cart, elsewhere, spoilt>>
          /\ paid' = [paid EXCEPT ![r] = basket[r]]
          /\ basket' = [basket EXCEPT ![r] = {}]
      BY <1>7 DEF CardCharged
    <2>3. Added'
      BY <2>1, <2>2 DEF BInv, Added, TypeOK
    <2>4. Ordering' = Ordering /\ r \in Ordering
      BY <2>1 DEF Ordering
    <2>5. ASSUME NEW q \in Requests \ spoilt, server'[q] # "charged" PROVE Gone(q)'
      <3>1. q # r /\ Gone(q)
        BY <2>1, <2>5 DEF BInv, Apart
      <3> QED BY <2>2, <3>1 DEF Gone, BInv, TypeOK
    <2>6. ASSUME NEW q \in Requests \ spoilt, q # r, r \notin spoilt PROVE paid[q] \cap basket[r] = {}
      <3>1. Ordering = {r}
        BY <2>4, <2>6 DEF BInv, Apart
      <3>2. server[q] # "charged"
        BY <2>6, <3>1 DEF Ordering
      <3> QED BY <2>6, <3>2 DEF BInv, Apart, Gone
    <2>7. Apart'
      BY <2>2, <2>4, <2>5, <2>6 DEF BInv, Apart, TypeOK
    <2> QED BY <2>3, <2>7
  <1>8. CASE OrderedCartEmptied(r)
    <2>1. /\ server[r] = "charged" /\ server'[r] \in {"ordered", "ended"}
          /\ \A q \in Requests : q # r => server'[q] = server[q]
          /\ Used \subseteq Used'
      BY <1>2, <1>3, <1>8, StepFacts DEF OrderedCartEmptied, Applied
    <2>2. /\ cart' = {} /\ UNCHANGED <<elsewhere, paid, basket>>
          /\ spoilt' = IF Adding THEN spoilt \cup {r} ELSE spoilt
      BY <1>8 DEF OrderedCartEmptied
    <2>3. Added'
      BY <2>1, <2>2 DEF BInv, Added
    <2>4. Ordering' \subseteq Ordering /\ r \in Ordering
      BY <2>1 DEF Ordering
    <2>5. ASSUME r \notin spoilt' PROVE Gone(r)'
      <3>1. ~Adding /\ Ordering = {r}
        BY <2>2, <2>4, <2>5 DEF BInv, Apart
      <3>2. \A q \in Requests : server[q] \notin {"adding", "read"}
        BY <2>1, <3>1 DEF Adding, Ordering
      <3>3. elsewhere = None /\ \A q \in Requests : basket[q] = {}
        BY <3>1, <3>2 DEF Adding, BInv, Added
      <3> QED BY <2>2, <3>3 DEF Gone
    <2>6. ASSUME NEW q \in Requests \ spoilt', q # r, server'[q] # "charged" PROVE Gone(q)'
      BY <2>1, <2>2, <2>6 DEF BInv, Apart, Gone
    <2>7. Apart'
      BY <2>2, <2>4, <2>5, <2>6 DEF BInv, Apart
    <2> QED BY <2>3, <2>7
  <1>9. CASE CartNotEmptied(r)
    <2>1. Grown /\ server[r] = "charged" /\ server'[r] \in {"ordered", "ended"}
          /\ \A q \in Requests : q # r => server'[q] = server[q]
      BY <1>9, TroubleGrows DEF CartNotEmptied, Applied, BInv, TypeOK
    <2>2. UNCHANGED <<cart, elsewhere, paid, basket>> /\ spoilt' = spoilt \cup {r}
      BY <1>9 DEF CartNotEmptied
    <2>3. basket[r] = {}
      BY <2>1 DEF BInv, Added
    <2>4. Ending(r)
      BY <2>1, <2>2, <2>3 DEF Ending
    <2> QED BY <2>1, <2>4, EndBuying
  <1>10. CASE Fail(r) \/ Refused(r) \/ ChargedInVain(r)
    <2>1. Ends(r) /\ Grown /\ UNCHANGED <<cart, elsewhere>>
      BY <1>10, TroubleGrows DEF Fail, Refused, ChargedInVain, Ends, Told, BInv
    <2>2. /\ server'[r] = "ended" /\ \A q \in Requests : q # r => server'[q] = server[q]
          /\ basket'[r] = {} /\ \A q \in Requests : basket'[q] \in {basket[q], {}}
      BY <2>1 DEF Ends, BInv, TypeOK
    <2>3. CASE Fail(r) \/ Refused(r)
      <3>1. UNCHANGED <<paid, spoilt>> /\ server[r] # "charged"
        BY <2>3 DEF Fail, Refused, Asked, Done
      <3>2. Ending(r)
        BY <2>1, <2>2, <3>1 DEF Ending
      <3> QED BY <2>1, <3>2, EndBuying
    <2>4. CASE ChargedInVain(r)
      <3>1. /\ spoilt' = spoilt \cup {r}
            /\ \A q \in Requests : q # r => paid'[q] = paid[q]
            /\ paid'[r] \in {paid[r], basket[r]}
        BY <2>4 DEF ChargedInVain, BInv, TypeOK
      <3>2. Ending(r)
        BY <2>1, <2>2, <3>1 DEF Ending
      <3> QED BY <2>1, <3>2, EndBuying
    <2> QED BY <1>10, <2>3, <2>4
  <1>11. CASE GivenUp(r)
    <2>1. UNCHANGED <<server, basket, paid, spoilt, cart, elsewhere>> /\ Grown
      BY <1>11, TroubleGrows DEF GivenUp, Told, BInv
    <2> QED BY <2>1, BuyingLeft DEF store
  <1>12. CASE Confirm(r)
    <2>1. /\ server[r] \in Done /\ server'[r] = "ended"
          /\ \A q \in Requests : q # r => server'[q] = server[q]
          /\ UNCHANGED <<cart, elsewhere, paid, spoilt, basket>> /\ Grown
      BY <1>12, TroubleGrows DEF Confirm, store, BInv, TypeOK
    <2>2. basket[r] = {} /\ server[r] # "charged"
      BY <2>1 DEF BInv, Added, Done
    <2>3. Ending(r)
      BY <2>1, <2>2 DEF Ending
    <2> QED BY <2>1, <2>3, EndBuying
  <1> QED BY <1>4, <1>5, <1>6, <1>7, <1>8, <1>9, <1>10, <1>11, <1>12 DEF Handling

LEMMA NextBuying == BInv /\ [Next]_vars => BInv'
  <1> SUFFICES ASSUME BInv, [Next]_vars PROVE Added' /\ Apart'
    BY NextType DEF BInv
  <1>1. CASE UNCHANGED vars
    BY <1>1, BuyingLeft, TroubleGrows DEF vars, calls, BInv
  <1> QED BY <1>1, ShopperBuying, LoadBuying, HandlingBuying DEF Next

\* For any number of orders, additions, failures and retries: two orders that are not
\* spoilt charge the card for different items.
THEOREM NothingPaidTwice == Spec => []PaidOnce
  <1>1. BInv => PaidOnce
    BY DEF BInv, Apart, PaidOnce
  <1>2. Init => BInv
    BY InitType, InitBuying DEF BInv
  <1> QED BY <1>1, <1>2, NextBuying, PTL DEF Spec

--------------------------------------------------------------------------
(* What is typed *)

\* Whatever is loaded, fails or is confirmed, a filled-in form is kept while its
\* page, its currency and a cart with items stay.
THEOREM FormIsKept == Spec => FormKept
  <1>1. TypeOK /\ [Next]_vars
          => [typed /\ ~typed' => page' # "cart" \/ currency' # currency \/ data'[currency] = {}]_vars
    <2> SUFFICES ASSUME TypeOK, Next, typed, ~typed', page' = "cart", currency' = currency
                 PROVE  data'[currency] = {}
      BY DEF vars, view
    <2>1. page = "cart" /\ data[currency] \notin {None, {}}
      BY DEF TypeOK, Mounted
    <2>2. FormStays
      BY DEF Next, Shopper, AddItem, EmptyCart, PlaceOrder, Ask, Type, Refocus, Elsewhere, AddedElsewhere,
             Navigate, SelectCurrency, Loading, LoadRead, Loaded, LoadFails, Dropped, Handling, Step,
             ItemRead, ItemAdded, CartEmptied, CartRead, CardCharged, OrderedCartEmptied,
             CartNotEmptied, Fail, Refused, ChargedInVain, GivenUp, Ends, Told, Confirm
    <2>3. ~Mounted'
      BY <2>2 DEF FormStays
    <2>4. data'[currency] \in {None, {}}
      BY <2>3 DEF Mounted
    <2>5. CASE UNCHANGED data
      BY <2>1, <2>4, <2>5
    <2>6. ASSUME NEW c \in Currencies, Loaded(c) PROVE data'[currency] = {}
      <3>1. data' = [data EXCEPT ![c] = got[c]] /\ got[c] \in Carts
        BY <2>6 DEF Loaded, TypeOK
      <3>2. data'[currency] # None
        BY <2>1, <3>1, NoneAssumption DEF TypeOK
      <3> QED BY <2>4, <3>2
    <2>7. ASSUME NEW c \in Currencies, Dropped(c) PROVE data'[currency] = {}
      BY <2>7, <2>1, <2>4 DEF Dropped, TypeOK
    <2>8. UNCHANGED data \/ \E c \in Currencies : Loaded(c) \/ Dropped(c)
      BY DEF Next, Shopper, AddItem, EmptyCart, PlaceOrder, Ask, Type, Refocus, Elsewhere, AddedElsewhere,
             Navigate, SelectCurrency, Loading, LoadRead, LoadFails, Handling, Step, cache,
             ItemRead, ItemAdded, CartEmptied, CartRead, CardCharged, OrderedCartEmptied,
             CartNotEmptied, Fail, Refused, ChargedInVain, GivenUp, Ends, Told, Confirm
    <2> QED BY <2>5, <2>6, <2>7, <2>8
  <1> QED BY <1>1, InitType, NextType, PTL DEF Spec, FormKept
==========================================================================
