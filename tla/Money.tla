------------------------------- MODULE Money -------------------------------
(***************************************************************************)
(* Amounts of money: the package money of the checkout service, and the    *)
(* total the storefront's pages compute from the same amounts.             *)
(* Units are a 64-bit count that no order comes near; nanos are 32 bits    *)
(* wide and wrap around.                                                   *)
(***************************************************************************)
EXTENDS Integers, Functions

CONSTANTS NanosMod,   \* nanos in a unit: 10^9 in the code
          Int32Half   \* an int32 is in -Int32Half .. Int32Half - 1: 2^31

ASSUME MoneyAssumption ==
    /\ NanosMod \in Nat \ {0, 1}
    /\ Int32Half \in Nat
    /\ 2 * NanosMod =< Int32Half

Int32(x) == ((x + Int32Half) % (2 * Int32Half)) - Int32Half

\* Division and remainder of Go, which round towards zero.
Quot(a, b) == IF a >= 0 THEN a \div b ELSE - ((- a) \div b)
Rem(a, b) == a - b * Quot(a, b)

Money(code, units, nanos) == [code |-> code, units |-> units, nanos |-> nanos]

\* The amount a Money stands for, in nanos.
Value(m) == NanosMod * m.units + m.nanos

SignMatches(m) == m.nanos = 0 \/ m.units = 0 \/ (m.nanos < 0 <=> m.units < 0)
ValidNanos(n) == - (NanosMod - 1) =< n /\ n =< NanosMod - 1
IsValid(m) == SignMatches(m) /\ ValidNanos(m.nanos)

SumFails(l, r) == ~ IsValid(l) \/ ~ IsValid(r) \/ l.code # r.code

SameSign(u, n) ==
    \/ u = 0 /\ n = 0
    \/ u > 0 /\ n >= 0
    \/ u < 0 /\ n =< 0

\* A mutant of Normal: the nanos of a full unit stay where they are.
NotCarried(code, u, n) == Money(code, u, n)

\* What Sum makes of the sums of the units and of the nanos.
Normal(code, u, n) ==
    IF SameSign(u, n) THEN Money(code, u + Quot(n, NanosMod), Rem(n, NanosMod))
    ELSE IF u > 0 THEN Money(code, u - 1, Int32(n + NanosMod))
    ELSE Money(code, u + 1, Int32(n - NanosMod))

\* Sum of the package money, where it returns no error.
MoneySum(l, r) == Normal(l.code, l.units + r.units, Int32(l.nanos + r.nanos))

\* A mutant of PageTotal: the full units among the nanos are dropped.
PageTotalDropsUnits(code, lines, shipping) ==
    LET nanos == SumFunction([i \in DOMAIN lines |-> lines[i].price.nanos * lines[i].quantity])
                   + shipping.nanos
        units == SumFunction([i \in DOMAIN lines |-> lines[i].price.units * lines[i].quantity])
                   + shipping.units
    IN  Money(code, units, nanos % NanosMod)

\* The total a page shows for a list of lines and a shipping cost.  JavaScript
\* numbers hold these sums exactly.
PageTotal(code, lines, shipping) ==
    LET nanos == SumFunction([i \in DOMAIN lines |-> lines[i].price.nanos * lines[i].quantity])
                   + shipping.nanos
        units == SumFunction([i \in DOMAIN lines |-> lines[i].price.units * lines[i].quantity])
                   + shipping.units
    IN  Money(code, units + nanos \div NanosMod, nanos % NanosMod)
=============================================================================
