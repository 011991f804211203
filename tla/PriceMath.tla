------------------------------ MODULE PriceMath ------------------------------
(****************************************************************************)
(* The arithmetic of prices: conversion between net and gross amounts with  *)
(* a VAT rate, and the rounding of baseline prices.                         *)
(*                                                                          *)
(* Amounts are natural numbers counted in the storage unit of the price     *)
(* columns (the code keeps four decimals: CentScale = 100 units per cent);  *)
(* rates, margins and markups are counted in 1/RateScale (four decimals in  *)
(* the code: RateScale = 10000, so 2300 is 23%).  Both scales are           *)
(* parameters, so that small instances stay within TLC's integers.          *)
(****************************************************************************)
EXTENDS Integers

CONSTANTS
    CentScale,  \* units of an amount in one cent
    RateScale,  \* the rate, margin or markup that means 100%
    Null        \* Python's None

ASSUME ScaleAssumption == CentScale \in Nat \ {0} /\ RateScale \in Nat \ {0}
ASSUME NullAssumption == Null \notin Int

\* The nearest integer to n / d, ties to the even neighbour: what round(x, 2)
\* does to a Decimal, on the scale of the result's last digit.
HalfEven(n, d) ==
    LET q == n \div d
        r == n % d
    IN  IF 2 * r > d \/ (2 * r = d /\ q % 2 = 1) THEN q + 1 ELSE q

\* An amount given as the fraction n / d of a unit, rounded to whole cents.
ToCents(n, d) == CentScale * HalfEven(n, d * CentScale)

\* Seeded fault: the net price is the gross price less the rate.
NetPrice_Subtracted(gross, rate) == ToCents(gross * (RateScale - rate), RateScale)

\* TaxRate.gross_price and TaxRate.net_price.
GrossPrice(net, rate) == ToCents(net * (RateScale + rate), RateScale)
NetPrice(gross, rate) == ToCents(gross * RateScale, RateScale + rate)

\* _calculate_price_pair: the side the channel is priced from is kept as given.
PricePair(value, rate, fromNetToGross) ==
    IF fromNetToGross THEN [net |-> value, gross |-> GrossPrice(value, rate)]
                      ELSE [net |-> NetPrice(value, rate), gross |-> value]

\* The gross amount of a net cost raised by a margin or markup: one product of
\* exact decimals, rounded once, by gross_price.
GrossOfRaisedCost(cost, raise, rate) ==
    ToCents(cost * (RateScale + raise) * (RateScale + rate), RateScale * RateScale)

PriceRounding == {"none", ".99", ".95", "int"}

\* Seeded fault: the branches of the rounding to a unit swapped.
ApplyRounding_Swapped(value, rounding) ==
    LET whole == 100 * CentScale
    IN  IF 2 * (value % whole) < whole THEN whole * (value \div whole + 1)
                                       ELSE whole * (value \div whole)

\* apply_rounding.  int() truncates; to_integral_value rounds halves up.
ApplyRounding(value, rounding) ==
    LET whole == 100 * CentScale
    IN  CASE rounding = "int"  -> whole * ((2 * value + whole) \div (2 * whole))
          [] rounding = ".99"  -> whole * (value \div whole) + 99 * CentScale
          [] rounding = ".95"  -> whole * (value \div whole) + 95 * CentScale
          [] OTHER             -> value

\* baseline_gross_value, of a cost and a rate that exist.
BaselineGross(cost, rate, markup, rounding) ==
    ApplyRounding(GrossOfRaisedCost(cost, markup, rate), rounding)

\* The two amounts of a pair agree at a rate: one of them is the conversion of
\* the other.  (gross_price(net_price(x)) # x, so it is one or the other.)
Coherent(pair, rate) ==
    \/ pair.net = NetPrice(pair.gross, rate)
    \/ pair.gross = GrossPrice(pair.net, rate)
=============================================================================
