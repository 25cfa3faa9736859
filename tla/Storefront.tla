----------------------------- MODULE Storefront -----------------------------
\* A shopper's tab of the shop: the cart as the page shows it, out of the cache
\* of react-query (providers/Cart.provider.tsx), the changes it asks for
\* (pages/product, components/Cart/CartDetail.tsx) and the handlers of
\* pages/api that carry them out on the shopper's cart.  The cache has one entry
\* per currency; a change that is confirmed invalidates all of them, but only the
\* entry on the page is loaded anew, and a load in flight is given up for the new
\* one only when the entry has data already.
EXTENDS Integers, FiniteSets

CONSTANTS
  Currencies,   \* the currencies a shopper may choose; the cache's keys
  None,         \* no data
  MaxRequests,  \* bound: how many changes the tab asks for
  MaxTroubles   \* bound: failures, and changes to the cart in another tab

ASSUME ConstantsAssumption == MaxRequests \in Nat /\ MaxTroubles \in Nat

Requests == 1..MaxRequests

\* What a cart may hold: each addition is one item, named by its request, or by a
\* negative number when it was made in another tab.
Items == (-MaxTroubles)..MaxRequests
Carts == SUBSET Items
Entries == Carts \cup {None}
ASSUME NoneAssumption == None \notin Carts

VARIABLES
  cart,         \* the shopper's cart, kept by the cart service
  elsewhere,    \* the cart another tab's addition is about to write, or None
  paid,         \* paid[r]: the items the card was charged for by request r
  server,       \* server[r]: where the handler of request r is
  waiting,      \* the requests the tab waits for
  basket,       \* basket[r]: the cart as an order's handler read it, or as the
                \* handler of an addition will write it
  data,         \* data[c]: the cache's cart in currency c
  fetch,        \* fetch[c]: the load of it in flight
  got,          \* got[c]: the cart that load has read
  currency,     \* the selected currency
  page,         \* the page shown
  typed,        \* the shopper has filled in the checkout form
  excused,      \* the currencies whose entry may be old, see ShownIsCart
  spoilt,       \* the orders that need not be alone in paying, see PaidOnce
  troubles

store == <<cart, elsewhere, paid, spoilt>>
calls == <<server, waiting, basket>>
cache == <<data, fetch, got>>
view == <<currency, page>>
vars == <<store, calls, cache, view, typed, excused, troubles>>

\* The cart page has the cart's details and the form when the cart has items;
\* before there is data, and when there are none, it has EmptyCart instead.
Mounted == page = "cart" /\ data[currency] \notin {None, {}}

\* What a change asks for, the steps of the handlers, and the changes carried out
\* but not answered yet.
Asked == {"add", "empty", "order"}
Done == {"added", "emptied", "ordered"}
Steps == {"idle", "adding", "read", "charged", "ended"} \cup Asked \cup Done

TypeOK ==
  /\ cart \in Carts
  /\ elsewhere \in Entries
  /\ paid \in [Requests -> Carts]
  /\ server \in [Requests -> Steps]
  /\ waiting \subseteq Requests
  /\ basket \in [Requests -> Carts]
  /\ data \in [Currencies -> Entries]
  /\ fetch \in [Currencies -> {"none", "asked", "read"}]
  /\ got \in [Currencies -> Carts]
  /\ currency \in Currencies
  /\ page \in {"shop", "cart", "order"}
  /\ typed \in BOOLEAN
  /\ excused \subseteq Currencies
  /\ spoilt \subseteq Requests
  /\ troubles \in 0..MaxTroubles
  /\ typed => Mounted

\* The form's state goes when the form is taken off the page.
FormStays == typed' = (typed /\ Mounted')

\* A load starts; what it will read is as new as the cart then.
Started(c) ==
  /\ fetch' = [fetch EXCEPT ![c] = "asked"]
  /\ excused' = excused \ {c}

Trouble == troubles < MaxTroubles /\ troubles' = troubles + 1

Init ==
  /\ cart = {0} /\ elsewhere = None
  /\ paid = [r \in Requests |-> {}]
  /\ server = [r \in Requests |-> "idle"]
  /\ waiting = {}
  /\ basket = [r \in Requests |-> {}]
  /\ data = [c \in Currencies |-> None]
  /\ currency \in Currencies   \* as the session keeps it
  /\ fetch = [c \in Currencies |-> IF c = currency THEN "asked" ELSE "none"]
  /\ got = [c \in Currencies |-> {}]
  /\ page = "shop" /\ typed = FALSE
  /\ excused = {} /\ spoilt = {}
  /\ troubles = 0

--------------------------------------------------------------------------
(* The shopper *)

\* A change is asked for: a mutation of the cart provider starts.
Ask(what) ==
  /\ \E r \in Requests :
       /\ server[r] = "idle" /\ \A q \in Requests : q < r => server[q] # "idle"
       /\ server' = [server EXCEPT ![r] = what]
       /\ waiting' = waiting \cup {r}
  /\ UNCHANGED <<store, basket, cache, view, typed, excused, troubles>>

\* onAddItem, on a product's page.
AddItem == page = "shop" /\ Ask("add")

\* "Empty Cart" and "Place Order" on the cart page; neither button is disabled
\* while a request is under way.
EmptyCart == Mounted /\ Ask("empty")
PlaceOrder == Mounted /\ Ask("order")

Type ==
  /\ Mounted /\ ~typed
  /\ typed' = TRUE
  /\ UNCHANGED <<store, calls, cache, view, excused, troubles>>

\* A mutant of Navigate: what was typed stays without its form.
NavigateTyped ==
  /\ page' \in {"shop", "cart"} \ {page}
  /\ UNCHANGED <<store, calls, cache, currency, typed, excused, troubles>>

\* A link to another page; the cart provider and its cache stay.
Navigate ==
  /\ page' \in {"shop", "cart"} \ {page}
  /\ UNCHANGED <<store, calls, cache, currency, excused, troubles>>
  /\ FormStays

\* The query has another key: its entry is shown, and loaded unless it already is.
SelectCurrency ==
  /\ \E c \in Currencies \ {currency} :
       /\ currency' = c
       /\ IF fetch[c] = "none" THEN Started(c) ELSE UNCHANGED <<fetch, excused>>
  /\ UNCHANGED <<store, calls, data, got, page, troubles>>
  /\ FormStays

\* The window is focused, or the network is back: what is shown is loaded again.
Refocus ==
  /\ fetch[currency] = "none"
  /\ Started(currency)
  /\ UNCHANGED <<store, calls, data, got, view, typed, troubles>>

\* The same shopper changes the cart in another tab: the cart service reads it to
\* add an item, or empties it (for an order too, whose payment is not counted here).
Elsewhere ==
  /\ Trouble
  /\ \/ elsewhere = None /\ elsewhere' = cart \cup {-troubles'} /\ UNCHANGED <<cart, excused>>
     \/ cart' = {} /\ excused' = Currencies /\ UNCHANGED elsewhere
  /\ UNCHANGED <<paid, spoilt, calls, cache, view, typed>>

\* The cart service writes what it made of the cart it read for the other tab.
AddedElsewhere ==
  /\ elsewhere # None
  /\ cart' = elsewhere /\ elsewhere' = None
  /\ excused' = Currencies
  /\ UNCHANGED <<paid, spoilt, calls, cache, view, typed, troubles>>

--------------------------------------------------------------------------
(* Loads: GET /api/cart *)

LoadRead(c) ==
  /\ fetch[c] = "asked"
  /\ fetch' = [fetch EXCEPT ![c] = "read"]
  /\ got' = [got EXCEPT ![c] = cart]
  /\ UNCHANGED <<store, calls, data, view, typed, excused, troubles>>

Loaded(c) ==
  /\ fetch[c] = "read"
  /\ fetch' = [fetch EXCEPT ![c] = "none"]
  /\ data' = [data EXCEPT ![c] = got[c]]
  /\ got' = [got EXCEPT ![c] = {}]
  /\ UNCHANGED <<store, calls, view, excused, troubles>>
  /\ FormStays

\* A mutant of LoadFails: the entry's data goes with its load.
LoadFailsEmpty(c) ==
  /\ fetch[c] \in {"asked", "read"}
  /\ Trouble
  /\ fetch' = [fetch EXCEPT ![c] = "none"] /\ excused' = excused \cup {c}
  /\ data' = [data EXCEPT ![c] = None]
  /\ got' = [got EXCEPT ![c] = {}]
  /\ UNCHANGED <<store, calls, view>>
  /\ FormStays

\* The cart, one of its products or a price cannot be read: the page's own entry
\* is tried again, three times; then, or when it is not shown, its data stays.
LoadFails(c) ==
  /\ fetch[c] \in {"asked", "read"}
  /\ Trouble
  /\ \/ c = currency /\ fetch' = [fetch EXCEPT ![c] = "asked"] /\ UNCHANGED excused
     \/ fetch' = [fetch EXCEPT ![c] = "none"] /\ excused' = excused \cup {c}
  /\ got' = [got EXCEPT ![c] = {}]
  /\ UNCHANGED <<store, calls, data, view, typed>>

\* An entry that has not been shown for five minutes is dropped.
Dropped(c) ==
  /\ c # currency /\ fetch[c] = "none" /\ data[c] # None
  /\ data' = [data EXCEPT ![c] = None]
  /\ UNCHANGED <<store, calls, fetch, got, view, typed, excused, troubles>>

--------------------------------------------------------------------------
(* Changes: POST and DELETE /api/cart, POST /api/checkout *)

\* The handler of request r goes on from one step to another.
Step(r, from, to) ==
  /\ server[r] = from
  /\ server' = [server EXCEPT ![r] = to]
  /\ UNCHANGED <<waiting, cache, view, typed, troubles>>

\* Done but for the answer, if there is anyone to answer to.
Applied(r, done) == IF r \in waiting THEN done ELSE "ended"

\* A change to the cart by a handler nobody waits for any more.
Unwatched(r) == excused' = IF r \in waiting THEN excused ELSE Currencies

\* The cart service reads the cart to add the item, and writes the cart with it
\* later, whatever became of the cart in between.
ItemRead(r) ==
  /\ Step(r, "add", "adding")
  /\ basket' = [basket EXCEPT ![r] = cart \cup {r}]
  /\ UNCHANGED <<store, excused>>

ItemAdded(r) ==
  /\ Step(r, "adding", Applied(r, "added"))
  /\ cart' = basket[r]
  /\ basket' = [basket EXCEPT ![r] = {}]
  /\ Unwatched(r)
  /\ UNCHANGED <<elsewhere, paid, spoilt>>

CartEmptied(r) ==
  /\ Step(r, "empty", Applied(r, "emptied"))
  /\ cart' = {}
  /\ Unwatched(r)
  /\ UNCHANGED <<elsewhere, paid, spoilt, basket>>

\* Orders whose handler is between reading the cart and emptying it.
Ordering == {q \in Requests : server[q] \in {"read", "charged"}}

\* The checkout service (module Checkout) reads the cart, charges the card for it,
\* and empties the cart.
CartRead(r) ==
  /\ Step(r, "order", "read")
  /\ cart # {}
  /\ basket' = [basket EXCEPT ![r] = cart]
  /\ spoilt' = IF Ordering = {} THEN spoilt ELSE spoilt \cup Ordering \cup {r}
  /\ UNCHANGED <<cart, elsewhere, paid, excused>>

CardCharged(r) ==
  /\ Step(r, "read", "charged")
  /\ paid' = [paid EXCEPT ![r] = basket[r]]
  /\ basket' = [basket EXCEPT ![r] = {}]
  /\ UNCHANGED <<cart, elsewhere, spoilt, excused>>

\* An addition has read the cart and not written it yet, here or in another tab.
Adding == elsewhere # None \/ \E q \in Requests : server[q] = "adding"

\* A mutant of OrderedCartEmptied: what was ordered stays in the cart.
OrderedCartKept(r) ==
  /\ Step(r, "charged", Applied(r, "ordered"))
  /\ Unwatched(r)
  /\ UNCHANGED <<store, basket>>

OrderedCartEmptied(r) ==
  /\ Step(r, "charged", Applied(r, "ordered"))
  /\ cart' = {}
  /\ spoilt' = IF Adding THEN spoilt \cup {r} ELSE spoilt
  /\ Unwatched(r)
  /\ UNCHANGED <<elsewhere, paid, basket>>

\* Emptying the cart fails without a word.
CartNotEmptied(r) ==
  /\ server[r] = "charged"
  /\ Trouble
  /\ server' = [server EXCEPT ![r] = Applied(r, "ordered")]
  /\ spoilt' = spoilt \cup {r}
  /\ UNCHANGED <<cart, elsewhere, paid, waiting, basket, cache, view, typed, excused>>

\* The tab, if it still waits, is told of a failure: nothing is invalidated and the
\* page stays.
Told(r) ==
  /\ waiting' = waiting \ {r}
  /\ excused' = IF r \in waiting THEN Currencies ELSE excused
  /\ UNCHANGED <<cart, elsewhere, cache, view, typed>>

\* The handler ends without having done all of its work, or its answer.
Ends(r) ==
  /\ server' = [server EXCEPT ![r] = "ended"]
  /\ basket' = [basket EXCEPT ![r] = {}]
  /\ Told(r)

\* The request, or what the handler does before or after the change (the cart or the
\* products read for the answer), failed.
Fail(r) ==
  /\ server[r] \in {"adding", "read"} \cup Asked \cup Done
  /\ Trouble
  /\ Ends(r)
  /\ UNCHANGED <<paid, spoilt>>

\* An order of an empty cart is refused.
Refused(r) ==
  /\ server[r] = "order" /\ cart = {}
  /\ Ends(r)
  /\ UNCHANGED <<paid, spoilt, troubles>>

\* The order ends in an error though the card is charged, or is charged after all:
\* the charge is not answered in time, or the shipment fails.  The cart stays.
ChargedInVain(r) ==
  /\ server[r] \in {"read", "charged"}
  /\ Trouble
  /\ paid' = IF server[r] = "read" THEN [paid EXCEPT ![r] = basket[r]] ELSE paid
  /\ spoilt' = spoilt \cup {r}
  /\ Ends(r)

\* The tab has waited too long, or lost the connection; the handler goes on.
GivenUp(r) ==
  /\ r \in waiting /\ server[r] \notin Done
  /\ Trouble
  /\ Told(r)
  /\ UNCHANGED <<server, basket, paid, spoilt>>

\* A mutant of Invalidated: a load in flight is never given up for a new one.
InvalidatedLater ==
  LET restarted == fetch[currency] = "none" \/ data[currency] # None
      letBe == {c \in Currencies : fetch[c] # "none" /\ (c # currency \/ ~restarted)}
  IN  /\ fetch' = IF fetch[currency] = "none" THEN [fetch EXCEPT ![currency] = "asked"] ELSE fetch
      /\ excused' = (IF restarted THEN excused \ {currency} ELSE excused) \cup letBe
      /\ UNCHANGED got

\* onSuccess invalidates ['cart'].  The entry shown is loaded anew, in place of a
\* load in flight if it has data; other loads in flight are let be, and what they
\* read may be older than the change.
Invalidated ==
  LET restarted == fetch[currency] = "none" \/ data[currency] # None
      letBe == {c \in Currencies : fetch[c] # "none" /\ (c # currency \/ ~restarted)}
  IN  /\ fetch' = IF restarted THEN [fetch EXCEPT ![currency] = "asked"] ELSE fetch
      /\ got' = IF restarted THEN [got EXCEPT ![currency] = {}] ELSE got
      /\ excused' = (IF restarted THEN excused \ {currency} ELSE excused) \cup letBe

\* The change is confirmed; then the tab goes to the cart, or to the order's page.
Confirm(r) ==
  /\ r \in waiting /\ server[r] \in Done
  /\ server' = [server EXCEPT ![r] = "ended"]
  /\ waiting' = waiting \ {r}
  /\ Invalidated
  /\ page' = CASE server[r] = "added" -> "cart" [] server[r] = "ordered" -> "order" [] OTHER -> page
  /\ UNCHANGED <<store, basket, data, currency, troubles>>
  /\ FormStays

--------------------------------------------------------------------------

Shopper ==
  \/ AddItem \/ EmptyCart \/ PlaceOrder \/ Type \/ Navigate \/ SelectCurrency \/ Refocus
  \/ Elsewhere \/ AddedElsewhere

Loading(c) == LoadRead(c) \/ Loaded(c)

Handling(r) ==
  \/ ItemRead(r) \/ ItemAdded(r) \/ CartEmptied(r)
  \/ CartRead(r) \/ CardCharged(r) \/ OrderedCartEmptied(r) \/ CartNotEmptied(r)
  \/ Fail(r) \/ Refused(r) \/ ChargedInVain(r) \/ GivenUp(r) \/ Confirm(r)

Next ==
  \/ Shopper
  \/ \E c \in Currencies : Loading(c) \/ LoadFails(c) \/ Dropped(c)
  \/ \E r \in Requests : Handling(r)

Spec == Init /\ [][Next]_vars

--------------------------------------------------------------------------

\* The tab waits for nothing and loads nothing it shows.
Quiet == waiting = {} /\ fetch[currency] = "none"

\* A quiet tab shows the shopper's cart as it is, however loads and changes came
\* between each other.  An entry is excused from the moment its load fails, a
\* change is reported failed or goes on unwatched, another tab changes the cart,
\* or a change is confirmed while a load that is not restarted is in flight (the
\* first one, or one of another currency), until a new load of it starts.
ShownIsCart == Quiet /\ currency \notin excused => data[currency] = cart

\* The card is not charged twice for an item, also when the shopper orders again
\* after being told that an order failed, or adds while it is under way: at most the
\* orders are spoilt that overlapped another one, whose cart was not emptied after
\* the charge (the order failed then, or the emptying did), or was emptied while an
\* addition that had read it before was still to write it back.
PaidOnce ==
  \A q, r \in Requests \ spoilt : q # r => paid[q] \cap paid[r] = {}

\* Loads in the background, failures and changes that are confirmed leave what the
\* shopper typed: it goes only with the page, with another currency, or when the
\* cart shown is empty.
FormKept ==
  [][typed /\ ~typed' => page' # "cart" \/ currency' # currency \/ data'[currency] = {}]_vars
==========================================================================
