------------------------ MODULE PriceWriteGuard_proofs ------------------------
(****************************************************************************)
(* What the price arithmetic, the price bounds and the write guard return,  *)
(* for all amounts, rates, policies and scales.                             *)
(****************************************************************************)
EXTENDS PriceWriteGuard, PriceBounds, TLAPS

-----------------------------------------------------------------------------
(* Arithmetic *)

\* Rounding a fraction of natural numbers gives a natural number.
LEMMA HalfEvenType ==
    ASSUME NEW n \in Nat, NEW d \in Nat \ {0}
    PROVE  HalfEven(n, d) \in Nat
<1>1. n \div d \in Nat
  OBVIOUS
<1> QED
  BY <1>1 DEF HalfEven

\* The product of natural numbers is one.
LEMMA ProductType ==
    ASSUME NEW a \in Nat, NEW b \in Nat
    PROVE  a * b \in Nat /\ (a > 0 /\ b > 0 => a * b > 0)
  OBVIOUS

\* Amounts converted to cents are amounts.
LEMMA ToCentsType ==
    ASSUME NEW n \in Nat, NEW d \in Nat \ {0}
    PROVE  ToCents(n, d) \in Nat
<1>1. d * CentScale \in Nat \ {0}
  BY ProductType, ScaleAssumption
<1>2. HalfEven(n, d * CentScale) \in Nat
  BY <1>1, HalfEvenType
<1> QED
  BY <1>2, ScaleAssumption DEF ToCents

\* Prices converted with a tax rate are amounts.
LEMMA ConversionType ==
    ASSUME NEW amount \in Nat, NEW rate \in Nat
    PROVE  GrossPrice(amount, rate) \in Nat /\ NetPrice(amount, rate) \in Nat
<1>1. RateScale + rate \in Nat \ {0}
  BY ScaleAssumption
<1>2. amount * (RateScale + rate) \in Nat /\ amount * RateScale \in Nat
  BY <1>1, ProductType, ScaleAssumption
<1> QED
  BY <1>1, <1>2, ToCentsType, ScaleAssumption DEF GrossPrice, NetPrice

\* The gross price of a raised cost is an amount.
LEMMA RaisedCostType ==
    ASSUME NEW cost \in Nat, NEW raise \in Nat, NEW rate \in Nat
    PROVE  GrossOfRaisedCost(cost, raise, rate) \in Nat
<1>1. RateScale + raise \in Nat /\ RateScale + rate \in Nat /\ RateScale \in Nat \ {0}
  BY ScaleAssumption
<1>2. cost * (RateScale + raise) \in Nat
  BY <1>1, ProductType
<1>3. cost * (RateScale + raise) * (RateScale + rate) \in Nat
  BY <1>1, <1>2, ProductType
<1>4. RateScale * RateScale \in Nat \ {0}
  BY <1>1, ProductType
<1> QED
  BY <1>3, <1>4, ToCentsType DEF GrossOfRaisedCost

\* A rounded amount is an amount.
LEMMA RoundingType ==
    ASSUME NEW value \in Nat, NEW rounding
    PROVE  ApplyRounding(value, rounding) \in Nat
<1> DEFINE whole == 100 * CentScale
<1>1. whole \in Nat \ {0} /\ 2 * whole \in Nat \ {0} /\ CentScale \in Nat
  BY ScaleAssumption
<1>2. value \div whole \in Nat
  BY <1>1
<1>3. (2 * value + whole) \div (2 * whole) \in Nat
  <2> 2 * value + whole \in Nat
    BY <1>1
  <2> QED
    BY <1>1
<1>4. whole * (value \div whole) \in Nat /\ whole * ((2 * value + whole) \div (2 * whole)) \in Nat
  BY <1>1, <1>2, <1>3, ProductType
<1> QED
  BY <1>1, <1>4 DEF ApplyRounding

\* The baseline price of a cost is an amount.
LEMMA BaselineType ==
    ASSUME NEW cost \in Nat, NEW rate \in Nat, NEW markup \in Nat, NEW rounding
    PROVE  BaselineGross(cost, rate, markup, rounding) \in Nat
  BY RaisedCostType, RoundingType DEF BaselineGross

\* An amount converted to a pair has both its sides.
LEMMA PricePairType ==
    ASSUME NEW value \in Nat, NEW rate \in Nat, NEW direction \in BOOLEAN
    PROVE  PricePair(value, rate, direction) \in [net : Amount, gross : Amount]
  BY ConversionType DEF PricePair, Amount

-----------------------------------------------------------------------------
(* Bounds *)

\* A floor is an amount, and it is there, and no lower, where a minimum
\* advertised price is configured: costs and tax rates can only raise it.
LEMMA FloorCoversMap ==
    ASSUME NEW row \in BoundsRow \cup {Null},
           NEW cost \in Nat \cup {Null}, NEW rate \in Nat \cup {Null}
    PROVE  /\ Floor(row, cost, rate) \in Nat \cup {Null}
           /\ row # Null /\ row.map_value # Null =>
                Floor(row, cost, rate) # Null /\ Floor(row, cost, rate) >= row.map_value
<1>1. CASE row = Null
  BY <1>1 DEF Floor
<1>2. CASE row # Null
  <2>1. row \in BoundsRow
    BY <1>2
  <2>2. row.map_value \in Nat \cup {Null} /\ row.min_margin \in Nat \cup {Null}
    BY <2>1 DEF BoundsRow
  <2>3. CostFloor(row, cost, rate) \in Nat \cup {Null}
    <3>1. CASE row.min_margin # Null /\ cost # Null /\ rate # Null
      BY <2>2, <3>1, RaisedCostType DEF CostFloor
    <3>2. CASE ~(row.min_margin # Null /\ cost # Null /\ rate # Null)
      BY <3>2 DEF CostFloor
    <3> QED
      BY <3>1, <3>2
  <2> HIDE DEF CostFloor
  <2> QED
    BY <1>2, <2>2, <2>3, NullAssumption DEF Floor, MaxOptional
<1> QED
  BY <1>1, <1>2

-----------------------------------------------------------------------------
(* The write guard *)

\* A kind of price whose two sides are there.
Filled == [net : Amount, gross : Amount]

\* A pair that was asked for is stored as it is, if it respects the floor, and is
\* replaced by the floor otherwise.
HeldToFloor(asked, result, floor, rate) ==
    \/ result = asked /\ (floor = Null \/ asked = NoPair \/ asked.gross >= floor)
    \/ /\ asked \in Filled /\ floor \in Nat
       /\ result = [net |-> IF rate = Null THEN asked.net ELSE NetPrice(floor, rate), gross |-> floor]

\* The parts of a decision to write.
LEMMA DecisionToWrite ==
    ASSUME NEW existing, NEW values, NEW writer, NEW stored, NEW floor, NEW rate, NEW policy,
           NEW decision,
           decision = GuardPriceWrite(existing, values, writer, stored, floor, rate, policy),
           decision.status # "skipped"
    PROVE  /\ decision.source = IF stored = Null THEN writer ELSE stored
           /\ decision.values = IF floor # Null /\ Violations(values, floor) # {}
                                THEN Clamped(values, floor, rate) ELSE values
           /\ DOMAIN decision.values = DOMAIN values
<1> DEFINE below == floor # Null /\ Violations(values, floor) # {}
           refused == \/ ~PrecedenceAllows(writer, existing, policy)
                      \/ below /\ EnforceMode(writer, policy) = "reject"
           label == IF stored = Null THEN writer ELSE stored
<1>1. decision = IF refused THEN Skipped
                 ELSE IF below THEN Decision("clamped", Clamped(values, floor, rate), label)
                 ELSE Decision("applied", values, label)
  BY DEF GuardPriceWrite
<1>2. ~refused
  BY <1>1 DEF Skipped, Decision
<1> HIDE DEF refused
<1>3. decision.source = label /\ decision.values = IF below THEN Clamped(values, floor, rate) ELSE values
  BY <1>1, <1>2 DEF Decision
<1>4. DOMAIN Clamped(values, floor, rate) = DOMAIN values
  BY DEF Clamped
<1>5. decision.values = Clamped(values, floor, rate) \/ decision.values = values
  BY <1>3
<1> QED
  BY <1>3, <1>4, <1>5

\* What a write stores for a kind of price is what was asked for, if that respects
\* the floor, and the floor otherwise; a missing price stays missing.
LEMMA GuardedPair ==
    ASSUME NEW existing, NEW values, NEW writer, NEW stored, NEW policy,
           NEW kind \in DOMAIN values,
           NEW floor \in Nat \cup {Null}, NEW rate \in Nat \cup {Null},
           values[kind] \in Filled \cup {NoPair},
           NEW decision,
           decision = GuardPriceWrite(existing, values, writer, stored, floor, rate, policy),
           decision.status # "skipped"
    PROVE  HeldToFloor(values[kind], decision.values[kind], floor, rate)
<1>1. decision.values[kind] = IF floor # Null /\ Violations(values, floor) # {}
                              THEN Clamped(values, floor, rate)[kind] ELSE values[kind]
  BY DecisionToWrite
<1>2. values[kind] = NoPair => values[kind].gross = Null
  BY DEF NoPair
<1>3. values[kind] \in Filled => values[kind].gross \in Nat /\ values[kind].gross # Null
  BY NullAssumption DEF Filled, Amount
<1>4. kind \in Violations(values, floor) <=> values[kind].gross # Null /\ values[kind].gross < floor
  BY DEF Violations
<1>5. CASE floor # Null /\ kind \in Violations(values, floor)
  <2>1. decision.values[kind] =
            [net |-> IF rate = Null THEN values[kind].net ELSE NetPrice(floor, rate), gross |-> floor]
    BY <1>1, <1>5 DEF Clamped
  <2>2. values[kind] \in Filled /\ floor \in Nat
    BY <1>2, <1>4, <1>5
  <2> QED
    BY <2>1, <2>2 DEF HeldToFloor
<1>6. CASE ~(floor # Null /\ kind \in Violations(values, floor))
  <2>1. decision.values[kind] = values[kind]
    BY <1>1, <1>6 DEF Clamped
  <2>2. floor = Null \/ values[kind] = NoPair \/ values[kind].gross >= floor
    BY <1>3, <1>4, <1>6
  <2> QED
    BY <2>1, <2>2 DEF HeldToFloor
<1> QED
  BY <1>5, <1>6

\* No writer, policy or label makes the guard store a price below the floor,
\* regular or special, nor a pair that is not one.
THEOREM GuardRespectsFloor ==
    ASSUME NEW existing, NEW values, NEW writer, NEW stored, NEW policy,
           NEW kind \in DOMAIN values,
           NEW floor \in Nat, NEW rate \in Nat \cup {Null},
           values[kind] \in Filled \cup {NoPair},
           NEW decision,
           decision = GuardPriceWrite(existing, values, writer, stored, floor, rate, policy),
           decision.status # "skipped"
    PROVE  decision.values[kind] = NoPair \/ decision.values[kind].gross >= floor
<1>1. floor # Null /\ floor >= floor /\ floor \in Nat \cup {Null}
  BY NullAssumption
<1>2. HeldToFloor(values[kind], decision.values[kind], floor, rate)
  BY <1>1, GuardedPair
<1> QED
  BY <1>1, <1>2 DEF HeldToFloor

\* A recalculation after a tax rate change is never skipped, whatever the policy
\* rows say.
THEOREM VatIsMandatory ==
    ASSUME NEW existing, NEW values, NEW stored, NEW floor, NEW rate, NEW policy
    PROVE  GuardPriceWrite(existing, values, "tax_rate_change", stored, floor, rate, policy).status
                # "skipped"
<1>1. PrecedenceAllows("tax_rate_change", existing, policy)
  BY DEF PrecedenceAllows
<1>2. EnforceMode("tax_rate_change", policy) # "reject"
  BY DEF EnforceMode
<1> QED
  BY <1>1, <1>2 DEF GuardPriceWrite, Decision

\* The preview of an admin edit is what saving it stores, whatever label the row
\* has by then.
THEOREM PreviewIsExact ==
    ASSUME NEW existing, NEW values, NEW floor, NEW rate, NEW policy
    PROVE  GuardPriceWrite(existing, values, "admin_edit", Null, floor, rate, policy)
                = PreviewDecision(values, floor, rate, policy)
<1>1. PrecedenceAllows("admin_edit", existing, policy) /\ PrecedenceAllows("admin_edit", Null, policy)
  BY DEF PrecedenceAllows
<1> QED
  BY <1>1 DEF GuardPriceWrite, PreviewDecision

=============================================================================
