----------------------------- MODULE MCPricing -----------------------------
(* Instance of Pricing for TLC: amounts of two decimals, three products of  *)
(* the catalogue (the Red Flashlight costs 57.08) and one cheaper than      *)
(* half a unit, three listed currencies and a code the table lacks.  Three  *)
(* items are quoted at 26.97: take that quote to fall short of its cents.   *)
EXTENDS Pricing

USD(units, cents) == Money("USD", units, cents)

MCProducts == {"kit", "book", "flashlight", "sticker"}
MCPrice == [p \in MCProducts |->
    CASE p = "kit" -> USD(21, 95) [] p = "book" -> USD(0, 99)
      [] p = "flashlight" -> USD(57, 8) [] p = "sticker" -> USD(0, 20)]
MCRate == [USD |-> 1131, EUR |-> 1000, GBP |-> 860]
MCCodes == {"USD", "EUR", "GBP", "XXX"}
MCShortCounts == {3}
MCShortPrices == {<<USD(21, 95), "USD">>, <<USD(26, 97), "USD">>}
=============================================================================
