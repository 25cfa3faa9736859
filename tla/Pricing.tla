------------------------------- MODULE Pricing -------------------------------
(***************************************************************************)
(* What a customer is shown and what the customer is charged: one order,   *)
(* from the cart page to the charged total.  The currency service converts *)
(* each price, the shipping and quote services price the parcel, and       *)
(* PlaceOrder adds the amounts up one Sum at a time.                       *)
(*                                                                         *)
(* A conversion computes in doubles.  Its result is the exact quotient     *)
(* rounded down to a nano, or one nano less when the quotient is a whole   *)
(* number of nanos and the double falls short of it.                       *)
(***************************************************************************)
EXTENDS Money, Sequences

CONSTANTS Products,
          Price,        \* Price[p]: the catalogue price of p, in USD
          Rate,         \* Rate[c]: units of currency c in a euro, scaled
          Codes,        \* the currency codes a customer may ask for
          ItemCost,     \* the quote service's price of an item, in cents
          ShortCounts,  \* item counts whose quote falls short of its last cent
          ShortPrices,  \* <<m, c>>: m converted to c falls short of a whole nano
          MaxQuantity,  \* bound on the quantity of a line
          MaxLines      \* bound on the lines of a cart

ASSUME PricingAssumption ==
    /\ \A p \in Products : Price[p] \in [code : {"USD"}, units : Nat, nanos : 0 .. NanosMod - 1]
    /\ \A c \in DOMAIN Rate : Rate[c] \in Nat \ {0}
    /\ "USD" \in DOMAIN Rate
    /\ ItemCost \in Nat
    /\ MaxQuantity \in Nat
    /\ MaxLines \in Nat

\* The dollars of one item's quote are more than a unit of any currency listed.
ASSUME QuoteAssumption ==
    \A c \in DOMAIN Rate :
        NanosMod * (ItemCost \div 100) * Rate[c] >= (NanosMod + 1) * Rate["USD"]

VARIABLES code,     \* the currency the customer selected
          cart,     \* the cart: a sequence of lines [product, quantity]
          pc,       \* where the order is
          shown,    \* what the cart page showed: the prices and the shipping
          costs,    \* the converted prices of the lines (orderItems)
          shipping, \* the converted quote (shippingCostLocalized)
          total,    \* the total of PlaceOrder
          line,     \* the line being added
          out, n,   \* MultiplySlow's result so far and its counter
          due       \* history: the exact value of what was added to total

vars == <<code, cart, pc, shown, costs, shipping, total, line, out, n, due>>

Zero(c) == Money(c, 0, 0)

Lines == [product : Products, quantity : 1 .. MaxQuantity]

\* The carts the cart service can hold: no product is on two lines.
CartLists ==
    {s \in UNION {[1 .. k -> Lines] : k \in 1 .. MaxLines} :
        \A i, j \in DOMAIN s : s[i].product = s[j].product => i = j}

Init ==
    /\ code \in Codes
    /\ cart \in CartLists
    /\ pc = "browse"
    /\ shown = [prices |-> << >>, shipping |-> Zero(code)]
    /\ costs = << >>
    /\ shipping = Zero(code)
    /\ total = Zero(code)
    /\ line = 1
    /\ out = Zero(code)
    /\ n = 0
    /\ due = 0

-----------------------------------------------------------------------------
\* The currency service.

\* The table of rates: an unknown code is entered with the rate 0.
RateOf(c) == IF c \in DOMAIN Rate THEN Rate[c] ELSE 0

\* getDouble reads the digits of the nanos from the last to the first and
\* stops at the last that is left: zeros in front of them are not counted.
Fraction[x \in 0 .. NanosMod - 1] ==
    IF x = 0 \/ 10 * x >= NanosMod THEN x ELSE Fraction[10 * x]

Double(m) == NanosMod * m.units + Fraction[m.nanos]

\* getUnitsAndNanos.
UnitsAndNanos(c, v) == Money(c, v \div NanosMod, v % NanosMod)

Convert(m, c) ==
    LET exact == Double(m) * RateOf(c)
        short == exact > 0 /\ exact % RateOf(m.code) = 0 /\ <<m, c>> \in ShortPrices
    IN  UnitsAndNanos(c, exact \div RateOf(m.code) - (IF short THEN 1 ELSE 0))

-----------------------------------------------------------------------------
\* The shipping and quote services.

ItemCount == SumFunction([i \in DOMAIN cart |-> cart[i].quantity])

\* create_quote_from_float: the dollars are exact, the cents are cut off a
\* double that may be just below them.
Quote ==
    LET cents == ItemCost * ItemCount
        short == cents % 100 > 0 /\ ItemCount \in ShortCounts
    IN  Money("USD", cents \div 100,
              ((cents % 100) - (IF short THEN 1 ELSE 0)) * (NanosMod \div 100))

-----------------------------------------------------------------------------
\* The cart page.

\* A mutant of ShownPrice: prices are never converted.
ShownInDollars(p) == Price[p]

\* A price in US dollars is shown as the catalogue has it.
ShownPrice(p) == IF code = "USD" THEN Price[p] ELSE Convert(Price[p], code)

ShowCart ==
    /\ pc = "browse"
    /\ shown' = [prices |-> [i \in DOMAIN cart |-> ShownPrice(cart[i].product)],
                 shipping |-> Convert(Quote, code)]
    /\ pc' = "prepare"
    /\ UNCHANGED <<code, cart, costs, shipping, total, line, out, n, due>>

-----------------------------------------------------------------------------
\* PlaceOrder.

PrepOrderItem ==
    /\ pc = "prepare"
    /\ Len(costs) < Len(cart)
    /\ costs' = Append(costs, Convert(Price[cart[Len(costs) + 1].product], code))
    /\ UNCHANGED <<code, cart, pc, shown, shipping, total, line, out, n, due>>

QuoteShipping ==
    /\ pc = "prepare"
    /\ Len(costs) = Len(cart)
    /\ shipping' = Convert(Quote, code)
    /\ pc' = "shipping"
    /\ UNCHANGED <<code, cart, shown, costs, total, line, out, n, due>>

\* Must(Sum(l, r)): the process panics where Sum returns an error.
Panics(l, r) ==
    /\ SumFails(l, r)
    /\ pc' = "panic"
    /\ UNCHANGED <<total, line, out, n, due>>

StartLine(k) ==
    IF k \in DOMAIN cart
    THEN out' = costs[k] /\ n' = cart[k].quantity /\ pc' = "multiply"
    ELSE UNCHANGED <<out, n>> /\ pc' = "charge"

AddShipping ==
    /\ pc = "shipping"
    /\ \/ Panics(total, shipping)
       \/ /\ ~ SumFails(total, shipping)
          /\ total' = MoneySum(total, shipping)
          /\ due' = due + Value(shipping)
          /\ StartLine(line)
          /\ UNCHANGED line
    /\ UNCHANGED <<code, cart, shown, costs, shipping>>

\* A mutant of Multiply: the counter is tested after the addition.
MultiplyOnceMore ==
    /\ pc = "multiply" /\ n > 0
    /\ \/ Panics(out, costs[line])
       \/ /\ ~ SumFails(out, costs[line])
          /\ out' = MoneySum(out, costs[line])
          /\ n' = n - 1
          /\ UNCHANGED <<pc, total, line, due>>
    /\ UNCHANGED <<code, cart, shown, costs, shipping>>

\* One turn of the loop of MultiplySlow.
Multiply ==
    /\ pc = "multiply" /\ n > 1
    /\ \/ Panics(out, costs[line])
       \/ /\ ~ SumFails(out, costs[line])
          /\ out' = MoneySum(out, costs[line])
          /\ n' = n - 1
          /\ UNCHANGED <<pc, total, line, due>>
    /\ UNCHANGED <<code, cart, shown, costs, shipping>>

AddLine ==
    /\ pc = "multiply" /\ n =< 1
    /\ \/ Panics(total, out)
       \/ /\ ~ SumFails(total, out)
          /\ total' = MoneySum(total, out)
          /\ due' = due + cart[line].quantity * Value(costs[line])
          /\ line' = line + 1
          /\ StartLine(line + 1)
    /\ UNCHANGED <<code, cart, shown, costs, shipping>>

Next == ShowCart \/ PrepOrderItem \/ QuoteShipping \/ AddShipping \/ Multiply \/ AddLine

Spec == Init /\ [][Next]_vars

-----------------------------------------------------------------------------
\* Properties.

\* Sum is sound from half a unit of the currency on, and for nothing at all.
Sound(m) == Value(m) = 0 \/ 2 * Value(m) >= NanosMod

\* PlaceOrder's arithmetic does not end in the panic of money.Must, which would
\* end the process and every order in it, unless an item of the order costs
\* less than half a unit of the order's currency.
NeverPanics == (\A i \in DOMAIN costs : Sound(costs[i])) => pc # "panic"

\* The running total is always the exact sum of what has been added: no nano
\* is lost or counted twice over carries, turns of MultiplySlow and lines.
TotalIsExact ==
    /\ Value(total) = due
    /\ pc = "multiply" => Value(out) + (n - 1) * Value(costs[line])
                            = cart[line].quantity * Value(costs[line])

LinesAt(prices) ==
    [i \in DOMAIN cart |-> [price |-> prices[i], quantity |-> cart[i].quantity]]

\* The total on the order page, which the browser adds up from the items of
\* the order, is the amount that was charged.
OrderPageAgrees ==
    pc = "charge" => Value(PageTotal(code, LinesAt(costs), shipping)) = Value(total)

Near(a, b, slack) == a - b =< slack /\ b - a =< slack

\* A price of the page as the currency service reads it: in US dollars, which the page
\* does not have converted, without the zeros in front of its nanos.
AsRead(m) == IF code = "USD" THEN [m EXCEPT !.nanos = Fraction[@]] ELSE m

\* The customer is charged what the cart page showed; in US dollars, what it showed
\* as the currency service reads it, so that 57.08 is charged as 57.80, but for the
\* nano that the conversion of each unit bought may lose.
ChargedAsShown ==
    LET prices == [i \in DOMAIN cart |-> AsRead(shown.prices[i])]
    IN  pc = "charge" =>
            Near(Value(PageTotal(code, LinesAt(prices), shown.shipping)), Value(total),
                 IF code = "USD" THEN ItemCount ELSE 0)

\* A conversion counts the nanos of an amount as nanos, as demo.proto defines
\* them: in its own currency a price stays what it is, but for a lost nano.
ConversionKeepsPrice ==
    \A i \in DOMAIN costs :
        code = "USD" => Near(Value(costs[i]), Value(Price[cart[i].product]), 1)
=============================================================================
