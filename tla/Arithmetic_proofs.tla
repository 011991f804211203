--------------------------- MODULE Arithmetic_proofs ---------------------------
(****************************************************************************)
(* The functions every writer of prices shares, for all amounts, rates,     *)
(* markups, scales, bounds rows and policy rows.                            *)
(****************************************************************************)
EXTENDS MCArithmetic, PriceWriteGuard_proofs

-----------------------------------------------------------------------------
(* Products, quotients and remainders *)

LEMMA ProductOrder ==
    ASSUME NEW a \in Int, NEW b \in Int, NEW d \in Nat \ {0}
    PROVE  /\ a * d \in Int /\ b * d \in Int
           /\ a <= b <=> a * d <= b * d
           /\ a < b <=> a * d < b * d
           /\ a < b <=> a * d + d <= b * d
<1>1. a < b => a * d + d <= b * d
    <2>1. SUFFICES ASSUME a < b PROVE a * d + d <= b * d
        OBVIOUS
    <2>2. PICK k \in Nat : b = a + 1 + k
        <3>1. b - a - 1 \in Nat /\ b = a + 1 + (b - a - 1)
            BY <2>1
        <3> QED
            BY <3>1
    <2>3. b * d = a * d + d + k * d /\ k * d \in Nat
        BY <2>2, ProductType
    <2> QED
        BY <2>3
<1>2. b <= a => b * d <= a * d
    <2>1. SUFFICES ASSUME b <= a PROVE b * d <= a * d
        OBVIOUS
    <2>2. PICK k \in Nat : a = b + k
        <3>1. a - b \in Nat /\ a = b + (a - b)
            BY <2>1
        <3> QED
            BY <3>1
    <2>3. a * d = b * d + k * d /\ k * d \in Nat
        BY <2>2, ProductType
    <2> QED
        BY <2>3
<1>3. a * d \in Int /\ b * d \in Int
    OBVIOUS
<1> QED
    BY <1>1, <1>2, <1>3

LEMMA Division ==
    ASSUME NEW n \in Nat, NEW d \in Nat \ {0}
    PROVE  /\ n \div d \in Nat /\ n % d \in Nat /\ n % d < d
           /\ n = (n \div d) * d + (n % d)
    OBVIOUS

LEMMA DivisionIsUnique ==
    ASSUME NEW n \in Nat, NEW d \in Nat \ {0}, NEW q \in Nat, NEW r \in Nat, r < d, n = q * d + r
    PROVE  n \div d = q /\ n % d = r
<1> DEFINE p == n \div d
<1>1. p \in Nat /\ n % d \in Nat /\ n % d < d /\ n = p * d + (n % d)
    BY Division
<1> HIDE DEF p
<1>2. ~(p < q)
    <2>1. p < q => p * d + d <= q * d
        BY <1>1, ProductOrder
    <2>2. p * d \in Nat /\ q * d \in Nat
        BY <1>1, ProductType
    <2> QED
        BY <1>1, <2>1, <2>2
<1>3. ~(q < p)
    <2>1. q < p => q * d + d <= p * d
        BY <1>1, ProductOrder
    <2>2. p * d \in Nat /\ q * d \in Nat
        BY <1>1, ProductType
    <2> QED
        BY <1>1, <2>1, <2>2
<1>4. p = q
    BY <1>1, <1>2, <1>3
<1>5. n % d = r
    <2>1. q * d \in Nat
        BY ProductType
    <2> QED
        BY <1>1, <1>4, <2>1
<1> QED
    BY <1>4, <1>5 DEF p

LEMMA DivisionGrows ==
    ASSUME NEW n \in Nat, NEW m \in Nat, NEW d \in Nat \ {0}, n <= m
    PROVE  n \div d <= m \div d
<1> DEFINE p == n \div d
           q == m \div d
<1>1. /\ p \in Nat /\ n % d \in Nat /\ n % d < d /\ n = p * d + (n % d)
      /\ q \in Nat /\ m % d \in Nat /\ m % d < d /\ m = q * d + (m % d)
    BY Division
<1> HIDE DEF p, q
<1>2. p * d \in Nat /\ q * d \in Nat /\ (q < p => q * d + d <= p * d)
    BY <1>1, ProductType, ProductOrder
<1>3. ~(q < p)
    BY <1>1, <1>2
<1> QED
    BY <1>1, <1>3 DEF p, q

-----------------------------------------------------------------------------
(* Rounding to the nearest integer, ties to the even one *)

\* k is the nearest integer to n / d, and the even one where two are as near.
Nearest(k, n, d) ==
    /\ k \in Nat
    /\ 2 * (k * d) <= 2 * n + d /\ 2 * n <= 2 * (k * d) + d
    /\ 2 * (k * d) = 2 * n + d \/ 2 * n = 2 * (k * d) + d => k % 2 = 0

LEMMA HalfEvenIsNearest ==
    ASSUME NEW n \in Nat, NEW d \in Nat \ {0}
    PROVE  Nearest(HalfEven(n, d), n, d)
<1> DEFINE q == n \div d
           r == n % d
           k == HalfEven(n, d)
<1>1. q \in Nat /\ r \in Nat /\ r < d /\ n = q * d + r
    BY Division
<1>2. k = IF 2 * r > d \/ (2 * r = d /\ q % 2 = 1) THEN q + 1 ELSE q
    BY DEF HalfEven
<1> HIDE DEF q, r, k
<1>3. q * d \in Nat /\ (q + 1) * d = q * d + d
    BY <1>1, ProductType
<1>4. /\ q % 2 = 0 \/ q % 2 = 1
      /\ q % 2 = 1 => (q + 1) % 2 = 0
    BY <1>1
<1>5. CASE k = q + 1
    <2>1. k * d = q * d + d
        BY <1>3, <1>5
    <2>2. 2 * r >= d /\ (2 * r = d => q % 2 = 1)
        BY <1>1, <1>2, <1>5
    <2> QED
        BY <1>1, <1>3, <1>4, <1>5, <2>1, <2>2 DEF Nearest, k
<1>6. CASE k = q
    <2>1. 2 * r <= d /\ (2 * r = d => q % 2 = 0)
        BY <1>1, <1>2, <1>4, <1>6
    <2> QED
        BY <1>1, <1>3, <1>6, <2>1 DEF Nearest, k
<1> QED
    BY <1>2, <1>5, <1>6

\* A larger fraction has no smaller nearest integer, and there is only one.
LEMMA NearestGrows ==
    ASSUME NEW n \in Nat, NEW m \in Nat, NEW d \in Nat \ {0}, n <= m,
           NEW k, NEW l, Nearest(k, n, d), Nearest(l, m, d)
    PROVE  k <= l
<1> SUFFICES ASSUME l < k PROVE FALSE
    BY DEF Nearest
<1>1. k \in Nat /\ l \in Nat /\ k * d \in Nat /\ l * d \in Nat /\ l * d + d <= k * d
    BY ProductType, ProductOrder DEF Nearest
<1>2. n = m /\ k * d = l * d + d /\ 2 * (k * d) = 2 * n + d /\ 2 * m = 2 * (l * d) + d
    BY <1>1 DEF Nearest
<1>3. k % 2 = 0 /\ l % 2 = 0
    BY <1>2 DEF Nearest
<1>4. k = l + 1
    <2>1. (l + 1) * d = l * d + d
        BY <1>1
    <2>2. ~(l + 1 < k)
        BY <1>1, <1>2, <2>1, ProductOrder
    <2> QED
        BY <1>1, <2>2
<1> QED
    BY <1>1, <1>3, <1>4

LEMMA HalfEvenGrows ==
    ASSUME NEW n \in Nat, NEW m \in Nat, NEW d \in Nat \ {0}, n <= m
    PROVE  HalfEven(n, d) <= HalfEven(m, d)
    BY HalfEvenIsNearest, NearestGrows

LEMMA HalfEvenIs ==
    ASSUME NEW n \in Nat, NEW d \in Nat \ {0}, NEW k, Nearest(k, n, d)
    PROVE  HalfEven(n, d) = k
<1>1. k \in Nat /\ HalfEven(n, d) \in Nat /\ n <= n
    BY HalfEvenType DEF Nearest
<1>2. k <= HalfEven(n, d) /\ HalfEven(n, d) <= k
    BY <1>1, HalfEvenIsNearest, NearestGrows
<1> QED
    BY <1>1, <1>2

\* A fraction may be reduced.
LEMMA HalfEvenReduced ==
    ASSUME NEW n \in Nat, NEW d \in Nat \ {0}, NEW s \in Nat \ {0}
    PROVE  HalfEven(n * s, d * s) = HalfEven(n, d)
<1> DEFINE k == HalfEven(n, d)
<1>1. Nearest(k, n, d) /\ k \in Nat /\ k * d \in Nat
    BY HalfEvenIsNearest, HalfEvenType, ProductType
<1> HIDE DEF k
<1>2. n * s \in Nat /\ d * s \in Nat \ {0} /\ k * (d * s) = (k * d) * s
    BY <1>1, ProductType
<1>3. /\ (2 * (k * d)) * s = 2 * ((k * d) * s) /\ (2 * n + d) * s = 2 * (n * s) + d * s
      /\ (2 * n) * s = 2 * (n * s) /\ (2 * (k * d) + d) * s = 2 * ((k * d) * s) + d * s
    BY <1>1
<1>4. ASSUME NEW a \in Nat, NEW b \in Nat
      PROVE  (a <= b => a * s <= b * s) /\ (a * s = b * s => a = b)
    BY ProductOrder
<1>5. 2 * (k * d) \in Nat /\ 2 * n + d \in Nat /\ 2 * n \in Nat /\ 2 * (k * d) + d \in Nat
    BY <1>1
<1>6. Nearest(k, n * s, d * s)
    BY <1>1, <1>2, <1>3, <1>4, <1>5 DEF Nearest
<1> QED
    BY <1>2, <1>6, HalfEvenIs DEF k


LEMMA NearestIsClosest ==
    ASSUME NEW n \in Nat, NEW d \in Nat \ {0}, NEW k, Nearest(k, n, d), NEW l \in Nat, l # k
    PROVE  /\ Distance(k * d, n) <= Distance(l * d, n)
           /\ Distance(k * d, n) = Distance(l * d, n) => k % 2 = 0
<1>1. /\ k \in Nat /\ k * d \in Nat /\ l * d \in Nat
      /\ (k < l => k * d + d <= l * d) /\ (l < k => l * d + d <= k * d)
    BY ProductType, ProductOrder DEF Nearest
<1>2. 2 * (k * d) <= 2 * n + d /\ 2 * n <= 2 * (k * d) + d
    BY DEF Nearest
<1>3. CASE k < l
    <2>1. Distance(l * d, n) = l * d - n
        BY <1>1, <1>2, <1>3 DEF Distance
    <2> QED
        BY <1>1, <1>2, <1>3, <2>1 DEF Distance, Nearest
<1>4. CASE l < k
    <2>1. Distance(l * d, n) = n - l * d
        BY <1>1, <1>2, <1>4 DEF Distance
    <2> QED
        BY <1>1, <1>2, <1>4, <2>1 DEF Distance, Nearest
<1> QED
    BY <1>1, <1>3, <1>4

-----------------------------------------------------------------------------
(* Conversions *)

LEMMA InCents ==
    ASSUME NEW n \in Nat, NEW d \in Nat \ {0}
    PROVE  /\ d * CentScale \in Nat \ {0} /\ HalfEven(n, d * CentScale) \in Nat
           /\ ToCents(n, d) = HalfEven(n, d * CentScale) * CentScale
<1>1. d * CentScale \in Nat \ {0}
    BY ProductType, ScaleAssumption
<1>2. HalfEven(n, d * CentScale) \in Nat
    BY <1>1, HalfEvenType
<1> QED
    BY <1>1, <1>2, ScaleAssumption DEF ToCents

LEMMA WholeCentsAre ==
    /\ \A a \in Nat : WholeCents(a) => a \div CentScale \in Nat /\ a = (a \div CentScale) * CentScale
    /\ \A k \in Nat : WholeCents(k * CentScale) /\ (k * CentScale) \div CentScale = k
<1>1. ASSUME NEW a \in Nat, WholeCents(a)
      PROVE  a \div CentScale \in Nat /\ a = (a \div CentScale) * CentScale
    <2> DEFINE q == a \div CentScale
    <2>1. q \in Nat /\ a = q * CentScale + (a % CentScale) /\ a % CentScale = 0
        BY <1>1, Division, ScaleAssumption DEF WholeCents
    <2> HIDE DEF q
    <2>2. q * CentScale \in Nat
        BY <2>1, ProductType, ScaleAssumption
    <2> QED
        BY <2>1, <2>2 DEF q
<1>2. ASSUME NEW k \in Nat PROVE WholeCents(k * CentScale) /\ (k * CentScale) \div CentScale = k
    <2>1. k * CentScale \in Nat /\ k * CentScale = k * CentScale + 0 /\ 0 < CentScale /\ CentScale \in Nat \ {0}
        BY ProductType, ScaleAssumption
    <2> QED
        BY <2>1, DivisionIsUnique DEF WholeCents
<1> QED
    BY <1>1, <1>2

\* Between amounts in whole cents, a conversion is one of cents.
LEMMA ConvertedCents ==
    ASSUME NEW a \in Nat, NEW r \in Nat
    PROVE  /\ RateScale + r \in Nat \ {0}
           /\ GrossPrice(a * CentScale, r) = HalfEven(a * (RateScale + r), RateScale) * CentScale
           /\ NetPrice(a * CentScale, r) = HalfEven(a * RateScale, RateScale + r) * CentScale
<1> DEFINE S == RateScale
           T == RateScale + r
           C == CentScale
<1>1. S \in Nat \ {0} /\ T \in Nat \ {0} /\ C \in Nat \ {0}
    BY ScaleAssumption
<1>2. /\ GrossPrice(a * C, r) = ToCents((a * C) * T, S)
      /\ NetPrice(a * C, r) = ToCents((a * C) * S, T)
    BY DEF GrossPrice, NetPrice
<1> HIDE DEF S, T, C
<1>3. (a * C) * T = (a * T) * C /\ (a * C) * S = (a * S) * C /\ a * T \in Nat /\ a * S \in Nat
    BY <1>1, ProductType
<1>4. (a * T) * C \in Nat /\ (a * S) * C \in Nat
    BY <1>1, <1>3, ProductType
<1>5. ToCents((a * T) * C, S) = HalfEven((a * T) * C, S * C) * C
    BY <1>1, <1>4, InCents DEF C
<1>6. ToCents((a * S) * C, T) = HalfEven((a * S) * C, T * C) * C
    BY <1>1, <1>4, InCents DEF C
<1>7. HalfEven((a * T) * C, S * C) = HalfEven(a * T, S) /\ HalfEven((a * S) * C, T * C) = HalfEven(a * S, T)
    BY <1>1, <1>3, HalfEvenReduced
<1> QED
    BY <1>1, <1>2, <1>3, <1>5, <1>6, <1>7 DEF S, T, C

\* A net amount in whole cents comes back from its gross amount.
LEMMA NetOfGross ==
    ASSUME NEW a \in Nat, NEW r \in Nat
    PROVE  HalfEven(HalfEven(a * (RateScale + r), RateScale) * RateScale, RateScale + r) = a
<1> DEFINE S == RateScale
           T == RateScale + r
           g == HalfEven(a * T, S)
<1>1. S \in Nat \ {0} /\ T \in Nat \ {0} /\ S <= T
    BY ScaleAssumption
<1> HIDE DEF S, T
<1>2. a * T \in Nat /\ g \in Nat /\ Nearest(g, a * T, S)
    BY <1>1, ProductType, HalfEvenType, HalfEvenIsNearest
<1> HIDE DEF g
<1>3. g * S \in Nat /\ a * S \in Nat
    BY <1>1, <1>2, ProductType
<1>4. 2 * (g * S) <= 2 * (a * T) + S /\ 2 * (a * T) <= 2 * (g * S) + S
    BY <1>2 DEF Nearest
<1>5. S # T \/ g = a
    <2>1. CASE S = T
        <3>1. (g < a => g * S + S <= a * S) /\ (a < g => a * S + S <= g * S)
            BY <1>1, <1>2, ProductOrder
        <3> QED
            BY <1>1, <1>2, <1>3, <1>4, <2>1, <3>1
    <2> QED
        BY <2>1
<1>6. 2 * (a * T) # 2 * (g * S) + T /\ 2 * (g * S) # 2 * (a * T) + T
    BY <1>1, <1>2, <1>3, <1>4, <1>5
<1>7. Nearest(a, g * S, T)
    BY <1>1, <1>2, <1>3, <1>4, <1>6 DEF Nearest
<1> QED
    BY <1>1, <1>3, <1>7, HalfEvenIs DEF S, T, g

\* A gross amount in whole cents comes back to within a cent, at rates up to 100%.
LEMMA GrossOfNet ==
    ASSUME NEW a \in Nat, NEW r \in 0..RateScale
    PROVE  LET g == HalfEven(HalfEven(a * RateScale, RateScale + r) * (RateScale + r), RateScale)
           IN  g \in Nat /\ g <= a + 1 /\ a <= g + 1
<1> DEFINE S == RateScale
           T == RateScale + r
           n == HalfEven(a * S, T)
           g == HalfEven(n * T, S)
<1>1. S \in Nat \ {0} /\ T \in Nat \ {0} /\ T <= 2 * S
    BY ScaleAssumption
<1> HIDE DEF S, T
<1>2. a * S \in Nat /\ n \in Nat /\ Nearest(n, a * S, T)
    BY <1>1, ProductType, HalfEvenType, HalfEvenIsNearest
<1> HIDE DEF n
<1>3. n * T \in Nat /\ g \in Nat /\ Nearest(g, n * T, S)
    BY <1>1, <1>2, ProductType, HalfEvenType, HalfEvenIsNearest
<1> HIDE DEF g
<1>4. g * S \in Nat
    BY <1>1, <1>3, ProductType
<1>5. 2 * (g * S) <= 2 * (a * S) + 3 * S /\ 2 * (a * S) <= 2 * (g * S) + 3 * S
    BY <1>1, <1>2, <1>3, <1>4 DEF Nearest
<1>6. /\ (a + 1 < g => (a + 1) * S + S <= g * S) /\ (a + 1) * S = a * S + S
      /\ (g + 1 < a => (g + 1) * S + S <= a * S) /\ (g + 1) * S = g * S + S
    BY <1>1, <1>2, <1>3, ProductOrder
<1>7. g <= a + 1 /\ a <= g + 1
    BY <1>1, <1>2, <1>3, <1>4, <1>5, <1>6
<1> QED
    BY <1>3, <1>7 DEF S, T, n, g


-----------------------------------------------------------------------------
(* The states of the specification *)

\* A behaviour is of one scenario, and only its own variables move.
AmountsShape ==
    /\ scenario = "amounts" /\ amount \in Nat /\ rate \in TryRates /\ markup \in TryMarkups
    /\ rounding \in PriceRounding /\ config = <<>> /\ decision = Null
BoundsShape ==
    /\ scenario = "bounds" /\ amount = Null /\ decision = Null
    /\ cost \in TryCosts /\ rate \in CostRates
    /\ DOMAIN config \subseteq ScopeNames /\ \A s \in DOMAIN config : config[s] \in SomeRows
GuardShape ==
    /\ scenario = "guard" /\ amount = Null /\ config = <<>> /\ call \in Calls
    /\ decision \in {Null, Ask(call.existing, call.content.values)}
Shape == AmountsShape \/ BoundsShape \/ GuardShape

LEMMA ShapeInit == Init => Shape
    BY DEF Init, AmountsInit, BoundsInit, GuardInit, Shape, AmountsShape, BoundsShape, GuardShape

LEMMA ShapeStep == Shape /\ [Next]_vars => Shape'
<1> SUFFICES ASSUME Shape, [Next]_vars PROVE Shape'
    OBVIOUS
<1>1. CASE Rise
    <2>1. AmountsShape
        BY <1>1 DEF Shape, BoundsShape, GuardShape, Rise
    <2>2. amount' \in Nat
        BY <1>1, <2>1 DEF AmountsShape, Rise
    <2> QED
        BY <1>1, <2>1, <2>2 DEF Shape, AmountsShape, Rise
<1>2. CASE Administer
    <2>1. BoundsShape
        BY <1>2 DEF Shape, AmountsShape, GuardShape, Administer
    <2>2. DOMAIN config' \subseteq ScopeNames /\ \A s \in DOMAIN config' : config'[s] \in SomeRows
        <3>1. PICK scope \in ScopeNames : Configure(scope) \/ Unconfigure(scope)
            BY <1>2 DEF Administer
        <3> QED
            BY <2>1, <3>1 DEF BoundsShape, Configure, Unconfigure
    <2> QED
        BY <1>2, <2>1, <2>2 DEF Shape, BoundsShape, Administer
<1>3. CASE Decide
    <2>1. GuardShape
        BY <1>3 DEF Shape, AmountsShape, BoundsShape, Decide
    <2>2. decision' = Ask(call.existing, call.content.values) /\ call' = call
        BY <1>3 DEF Decide
    <2>3. Ask(call.existing, call.content.values)' = Ask(call.existing, call.content.values)
        BY <2>2 DEF Ask
    <2> QED
        BY <1>3, <2>1, <2>2, <2>3 DEF Shape, GuardShape, Decide
<1>4. CASE UNCHANGED vars
    BY <1>4 DEF vars, Shape, AmountsShape, BoundsShape, GuardShape, Ask
<1> QED
    BY <1>1, <1>2, <1>3, <1>4 DEF Next

LEMMA AmountsTypes ==
    ASSUME AmountsShape
    PROVE  /\ amount \in Nat /\ rate \in 0..RateScale /\ rate \in Nat /\ markup \in Nat
           /\ RateScale \in Nat \ {0} /\ CentScale \in Nat \ {0} /\ RateScale + rate \in Nat \ {0}
<1>1. rate \in 0..RateScale /\ markup \in Nat /\ amount \in Nat
    BY InputAssumption DEF AmountsShape
<1> QED
    BY <1>1, ScaleAssumption

-----------------------------------------------------------------------------
(* Conversions stay close *)

LEMMA GrossIsNearest == ASSUME AmountsShape PROVE GrossIsNearestCent
<1> DEFINE S == RateScale
           C == CentScale
           exact == amount * (RateScale + rate)
           k == HalfEven(exact, S * C)
           gross == GrossPrice(amount, rate)
<1>1. S \in Nat \ {0} /\ C \in Nat \ {0} /\ exact \in Nat
    BY AmountsTypes, ProductType
<1>2. gross = ToCents(exact, S)
    BY DEF GrossPrice
<1> HIDE DEF exact, S
<1>3. gross = k * C /\ k \in Nat /\ S * C \in Nat \ {0}
    BY <1>1, <1>2, InCents
<1>4. Nearest(k, exact, S * C)
    BY <1>1, <1>3, HalfEvenIsNearest
<1> HIDE DEF k, gross, C
<1>5. gross \div C = k
    BY <1>3, WholeCentsAre DEF C
<1>6. ASSUME NEW c \in Cents, c # gross
      PROVE  /\ Distance(gross * S, exact) <= Distance(c * S, exact)
             /\ Distance(gross * S, exact) = Distance(c * S, exact) => k % 2 = 0
    <2>1. c \in Nat /\ WholeCents(c)
        BY DEF Cents
    <2>2. PICK l \in Nat : c = l * C
        BY <2>1, WholeCentsAre DEF C
    <2>3. l # k
        BY <1>3, <1>6, <2>2
    <2>4. c * S = l * (S * C) /\ gross * S = k * (S * C)
        BY <1>1, <1>3, <2>2
    <2> QED
        BY <1>1, <1>3, <1>4, <2>3, <2>4, NearestIsClosest
<1>7. Distance(gross * S, exact) <= Distance(gross * S, exact)
    <2>1. gross * S \in Nat
        BY <1>1, <1>3, ProductType
    <2> QED
        BY <1>1, <2>1 DEF Distance
<1> QED
    BY <1>5, <1>6, <1>7 DEF GrossIsNearestCent, gross, exact, S, C

LEMMA CentsStayClose ==
    ASSUME AmountsShape, WholeCents(amount)
    PROVE  /\ NetPrice(GrossPrice(amount, rate), rate) = amount
           /\ Distance(GrossPrice(NetPrice(amount, rate), rate), amount) <= CentScale
<1> DEFINE C == CentScale
           S == RateScale
           T == RateScale + rate
<1>1. PICK a \in Nat : amount = a * C
    BY AmountsTypes, WholeCentsAre
<1>2. C \in Nat \ {0} /\ S \in Nat \ {0} /\ T \in Nat \ {0} /\ rate \in Nat /\ rate \in 0..RateScale
    BY AmountsTypes
<1> DEFINE g == HalfEven(a * T, S)
           n == HalfEven(a * S, T)
           back == HalfEven(n * T, S)
<1>3. g \in Nat /\ n \in Nat
    <2> HIDE DEF S, T
    <2> QED
        BY <1>2, ProductType, HalfEvenType
<1>4. GrossPrice(amount, rate) = g * C /\ NetPrice(amount, rate) = n * C
    BY <1>1, <1>2, ConvertedCents
<1> HIDE DEF g, n
<1>5. NetPrice(g * C, rate) = HalfEven(g * S, T) * C /\ GrossPrice(n * C, rate) = back * C
    BY <1>2, <1>3, ConvertedCents
<1>6. HalfEven(g * S, T) = a
    BY <1>2, NetOfGross DEF g
<1>7. back \in Nat /\ back <= a + 1 /\ a <= back + 1
    BY <1>2, GrossOfNet DEF n
<1> HIDE DEF back, S, T
<1>8. Distance(back * C, a * C) <= C
    <2>1. back * C <= (a + 1) * C /\ a * C <= (back + 1) * C
        BY <1>2, <1>7, ProductOrder
    <2>2. (a + 1) * C = a * C + C /\ (back + 1) * C = back * C + C /\ a * C \in Nat /\ back * C \in Nat
        BY <1>2, <1>7, ProductType
    <2> QED
        BY <1>2, <2>1, <2>2 DEF Distance
<1> QED
    BY <1>1, <1>4, <1>5, <1>6, <1>8

\* gross_price is the nearest cent, halfway the even one; a net price in whole cents comes
\* back from its gross price, and a gross price to within a cent: for every amount, scale
\* and rate up to 100%.
THEOREM ConversionsAreClose == Spec => []ConversionsStayClose
<1>1. Shape => ConversionsStayClose
    <2> SUFFICES ASSUME AmountsShape PROVE ConversionsStayClose
        BY DEF Shape, BoundsShape, GuardShape, ConversionsStayClose
    <2> QED
        BY GrossIsNearest, CentsStayClose DEF ConversionsStayClose
<1> QED
    BY <1>1, ShapeInit, ShapeStep, PTL DEF Spec


-----------------------------------------------------------------------------
(* Baseline prices *)

LEMMA ProductGrows ==
    ASSUME NEW a \in Nat, NEW b \in Nat, NEW x \in Nat, NEW y \in Nat, a <= b, x <= y
    PROVE  a * x <= b * y
<1>1. PICK i \in Nat, j \in Nat : b = a + i /\ y = x + j
    <2>1. b - a \in Nat /\ b = a + (b - a) /\ y - x \in Nat /\ y = x + (y - x)
        OBVIOUS
    <2> QED
        BY <2>1
<1>2. b * y = a * x + a * j + i * x + i * j
    BY <1>1
<1>3. a * x \in Nat /\ a * j \in Nat /\ i * x \in Nat /\ i * j \in Nat
    BY <1>1, ProductType
<1> QED
    BY <1>2, <1>3

LEMMA ToCentsGrows ==
    ASSUME NEW n \in Nat, NEW m \in Nat, NEW d \in Nat \ {0}, n <= m
    PROVE  ToCents(n, d) <= ToCents(m, d)
<1> DEFINE k == HalfEven(n, d * CentScale)
           l == HalfEven(m, d * CentScale)
<1>1. d * CentScale \in Nat \ {0} /\ CentScale \in Nat \ {0}
    BY InCents, ScaleAssumption
<1>2. k <= l /\ k \in Nat /\ l \in Nat
    BY <1>1, HalfEvenGrows, InCents
<1>3. ToCents(n, d) = k * CentScale /\ ToCents(m, d) = l * CentScale
    BY InCents
<1> HIDE DEF k, l
<1>4. k * CentScale <= l * CentScale
    BY <1>1, <1>2, ProductOrder
<1> QED
    BY <1>3, <1>4

LEMMA RaisedGrows ==
    ASSUME NEW a \in Nat, NEW b \in Nat, NEW m \in Nat, NEW k \in Nat, NEW r \in Nat, a <= b, m <= k
    PROVE  /\ GrossOfRaisedCost(a, m, r) <= GrossOfRaisedCost(b, k, r)
           /\ GrossOfRaisedCost(a, m, r) \in Nat /\ WholeCents(GrossOfRaisedCost(a, m, r))
<1> DEFINE S == RateScale
<1>1. S \in Nat \ {0} /\ S + m \in Nat /\ S + k \in Nat /\ S + r \in Nat /\ S + m <= S + k /\ S + r <= S + r
    BY ScaleAssumption
<1> HIDE DEF S
<1>2. S * S \in Nat \ {0} /\ a * (S + m) \in Nat /\ b * (S + k) \in Nat /\ a * (S + m) <= b * (S + k)
    BY <1>1, ProductType, ProductGrows
<1>3. /\ a * (S + m) * (S + r) \in Nat /\ b * (S + k) * (S + r) \in Nat
      /\ a * (S + m) * (S + r) <= b * (S + k) * (S + r)
    BY <1>1, <1>2, ProductType, ProductGrows
<1>4. /\ ToCents(a * (S + m) * (S + r), S * S) <= ToCents(b * (S + k) * (S + r), S * S)
      /\ WholeCents(ToCents(a * (S + m) * (S + r), S * S))
    BY <1>2, <1>3, ToCentsGrows, InCents, WholeCentsAre
<1> QED
    BY <1>4, RaisedCostType DEF GrossOfRaisedCost, S

\* Where a price comes to lie once it is rounded: the largest of the places a whole unit
\* apart, or the nearest, that a mode allows.
LEMMA RoundedTo ==
    ASSUME NEW value \in Nat, NEW mode
    PROVE  LET whole == 100 * CentScale
               rounded == ApplyRounding(value, mode)
           IN  /\ mode = "int" => \E q \in Nat :
                    /\ rounded = q * whole /\ q = (2 * value + whole) \div (2 * whole)
                    /\ q * whole <= value + CentScale * 50 /\ value < q * whole + CentScale * 50
               /\ mode \in {".99", ".95"} => \E q \in Nat :
                    /\ rounded = q * whole + (IF mode = ".99" THEN 99 ELSE 95) * CentScale
                    /\ q = value \div whole
                    /\ q * whole <= value /\ value < q * whole + whole
               /\ mode \notin {"int", ".99", ".95"} => rounded = value
<1> DEFINE whole == 100 * CentScale
           p == (2 * value + whole) \div (2 * whole)
           q == value \div whole
<1>1. whole \in Nat \ {0} /\ 2 * whole \in Nat \ {0} /\ 2 * value + whole \in Nat /\ CentScale \in Nat
    BY ScaleAssumption
<1>2. /\ p \in Nat /\ (2 * value + whole) % (2 * whole) \in Nat
      /\ (2 * value + whole) % (2 * whole) < 2 * whole
      /\ 2 * value + whole = p * (2 * whole) + ((2 * value + whole) % (2 * whole))
    <2> HIDE DEF whole
    <2> QED
        BY <1>1, Division
<1>3. q \in Nat /\ value % whole \in Nat /\ value % whole < whole /\ value = q * whole + (value % whole)
    <2> HIDE DEF whole
    <2> QED
        BY <1>1, Division
<1>4. /\ mode = "int" => ApplyRounding(value, mode) = whole * p
      /\ mode = ".99" => ApplyRounding(value, mode) = whole * q + 99 * CentScale
      /\ mode = ".95" => ApplyRounding(value, mode) = whole * q + 95 * CentScale
      /\ mode \notin {"int", ".99", ".95"} => ApplyRounding(value, mode) = value
    BY DEF ApplyRounding
<1> DEFINE rest == (2 * value + whole) % (2 * whole)
           cut == value % whole
<1>5. rest \in Nat /\ rest < 2 * whole /\ 2 * value + whole = p * (2 * whole) + rest
    BY <1>2
<1>6. cut \in Nat /\ cut < whole /\ value = q * whole + cut
    BY <1>3
<1>7. p * whole <= value + CentScale * 50 /\ value < p * whole + CentScale * 50
    <2> DEFINE unit == p * whole
    <2> HIDE DEF p, rest
    <2>1. p * (2 * whole) = 2 * unit /\ unit \in Nat
        <3> HIDE DEF whole
        <3> QED
            BY <1>1, <1>2, ProductType
    <2> HIDE DEF unit
    <2>2. 2 * value + whole = 2 * unit + rest
        BY <1>5, <2>1
    <2>3. whole = 2 * (CentScale * 50)
        BY <1>1
    <2> HIDE DEF whole
    <2>4. unit <= value + CentScale * 50 /\ value < unit + CentScale * 50
        BY <1>1, <1>5, <2>1, <2>2, <2>3
    <2> QED
        BY <2>4 DEF unit
<1>8. q * whole <= value /\ value < q * whole + whole
    <2> HIDE DEF q, cut, whole
    <2>1. q * whole \in Nat
        BY <1>1, <1>3, ProductType
    <2> QED
        BY <1>1, <1>6, <2>1
<1> HIDE DEF rest, cut
<1>9. whole * p = p * whole /\ whole * q = q * whole
    <2> HIDE DEF p, q, whole
    <2> QED
        BY <1>1, <1>2, <1>3
<1>10. p \in Nat /\ q \in Nat
    BY <1>2, <1>3
<1> QED
    <2> HIDE DEF p, q
    <2>1. mode = "int" => \E i \in Nat :
                    /\ ApplyRounding(value, mode) = i * whole /\ i = (2 * value + whole) \div (2 * whole)
                    /\ i * whole <= value + CentScale * 50 /\ value < i * whole + CentScale * 50
        BY <1>4, <1>7, <1>9, <1>10 DEF p
    <2>2. mode \in {".99", ".95"} => \E i \in Nat :
                    /\ ApplyRounding(value, mode) = i * whole + (IF mode = ".99" THEN 99 ELSE 95) * CentScale
                    /\ i = value \div whole
                    /\ i * whole <= value /\ value < i * whole + whole
        BY <1>4, <1>8, <1>9, <1>10 DEF q
    <2> QED
        BY <1>4, <2>1, <2>2


LEMMA RoundingGrows ==
    ASSUME NEW a \in Nat, NEW b \in Nat, a <= b, NEW mode
    PROVE  ApplyRounding(a, mode) <= ApplyRounding(b, mode)
<1> DEFINE whole == 100 * CentScale
           end == (IF mode = ".99" THEN 99 ELSE 95) * CentScale
<1>1. whole \in Nat \ {0} /\ 2 * whole \in Nat \ {0} /\ end \in Nat
    BY ScaleAssumption
<1>2. CASE mode = "int"
    <2>1. PICK p \in Nat : ApplyRounding(a, mode) = p * whole /\ p = (2 * a + whole) \div (2 * whole)
        BY <1>2, RoundedTo
    <2>2. PICK q \in Nat : ApplyRounding(b, mode) = q * whole /\ q = (2 * b + whole) \div (2 * whole)
        BY <1>2, RoundedTo
    <2> HIDE DEF whole
    <2>3. 2 * a + whole \in Nat /\ 2 * b + whole \in Nat /\ 2 * a + whole <= 2 * b + whole
        BY <1>1
    <2>4. p <= q
        BY <1>1, <2>1, <2>2, <2>3, DivisionGrows
    <2> QED
        BY <1>1, <2>1, <2>2, <2>4, ProductOrder
<1>3. CASE mode \in {".99", ".95"}
    <2>1. PICK p \in Nat : ApplyRounding(a, mode) = p * whole + end /\ p = a \div whole
        BY <1>3, RoundedTo
    <2>2. PICK q \in Nat : ApplyRounding(b, mode) = q * whole + end /\ q = b \div whole
        BY <1>3, RoundedTo
    <2> HIDE DEF whole, end
    <2>3. p <= q
        BY <1>1, <2>1, <2>2, DivisionGrows
    <2>4. p * whole <= q * whole /\ p * whole \in Nat /\ q * whole \in Nat
        BY <1>1, <2>3, ProductOrder, ProductType
    <2> QED
        BY <1>1, <2>1, <2>2, <2>4
<1>4. CASE mode \notin {"int", ".99", ".95"}
    BY <1>4, RoundedTo
<1> QED
    BY <1>2, <1>3, <1>4

LEMMA RoundingRests ==
    ASSUME NEW value \in Nat, NEW mode
    PROVE  /\ ApplyRounding(ApplyRounding(value, mode), mode) = ApplyRounding(value, mode)
           /\ Distance(ApplyRounding(value, mode), value) < 100 * CentScale
<1> DEFINE whole == 100 * CentScale
           end == (IF mode = ".99" THEN 99 ELSE 95) * CentScale
           rounded == ApplyRounding(value, mode)
<1>1. /\ whole \in Nat \ {0} /\ 2 * whole \in Nat \ {0} /\ end \in Nat /\ end < whole
      /\ CentScale * 50 < whole /\ CentScale * 50 \in Nat /\ rounded \in Nat
    BY ScaleAssumption, RoundingType
<1>2. CASE mode = "int"
    <2>1. PICK p \in Nat : /\ rounded = p * whole
                           /\ rounded <= value + CentScale * 50 /\ value < rounded + CentScale * 50
        BY <1>2, RoundedTo
    <2>2. PICK q \in Nat : ApplyRounding(rounded, mode) = q * whole /\ q = (2 * rounded + whole) \div (2 * whole)
        BY <1>1, <1>2, RoundedTo
    <2> HIDE DEF whole, rounded
    <2>3. 2 * rounded + whole = p * (2 * whole) + whole /\ whole < 2 * whole /\ 2 * rounded + whole \in Nat
        BY <1>1, <2>1
    <2>4. q = p
        BY <1>1, <2>2, <2>3, DivisionIsUnique
    <2>5. Distance(rounded, value) < whole
        BY <1>1, <2>1 DEF Distance
    <2> QED
        BY <2>1, <2>2, <2>4, <2>5 DEF rounded, whole
<1>3. CASE mode \in {".99", ".95"}
    <2>1. PICK p \in Nat : /\ rounded = p * whole + end
                           /\ p * whole <= value /\ value < p * whole + whole
        BY <1>3, RoundedTo
    <2>2. PICK q \in Nat : ApplyRounding(rounded, mode) = q * whole + end /\ q = rounded \div whole
        BY <1>1, <1>3, RoundedTo
    <2> HIDE DEF whole, end, rounded
    <2>3. q = p
        BY <1>1, <2>1, <2>2, DivisionIsUnique
    <2>4. Distance(rounded, value) < whole
        <3>1. p * whole \in Nat
            BY <1>1, <2>1, ProductType
        <3> QED
            BY <1>1, <2>1, <3>1 DEF Distance
    <2> QED
        BY <2>1, <2>2, <2>3, <2>4 DEF rounded, whole
<1>4. CASE mode \notin {"int", ".99", ".95"}
    <2>1. rounded = value
        BY <1>4, RoundedTo
    <2> QED
        BY <1>1, <2>1 DEF Distance
<1> QED
    BY <1>2, <1>3, <1>4

\* An amount in whole cents has at most 99 of them above its units.
LEMMA NinetyNineCovers ==
    ASSUME NEW value \in Nat, WholeCents(value)
    PROVE  ApplyRounding(value, ".99") >= value
<1> DEFINE whole == 100 * CentScale
<1>1. PICK p \in Nat : ApplyRounding(value, ".99") = p * whole + 99 * CentScale /\ value < p * whole + whole
    BY RoundedTo
<1>2. PICK k \in Nat : value = k * CentScale
    BY WholeCentsAre
<1>3. CentScale \in Nat \ {0} /\ p * whole = (100 * p) * CentScale
    BY ScaleAssumption
<1>4. k * CentScale < (100 * p + 100) * CentScale
    <2>1. (100 * p + 100) * CentScale = p * whole + whole
        BY <1>3
    <2> QED
        BY <1>1, <1>2, <2>1
<1>5. k < 100 * p + 100
    BY <1>3, <1>4, ProductOrder
<1>6. k <= 100 * p + 99
    BY <1>5
<1>7. k * CentScale <= (100 * p + 99) * CentScale
    BY <1>3, <1>6, ProductOrder
<1>8. (100 * p + 99) * CentScale = p * whole + 99 * CentScale
    BY <1>3
<1> QED
    BY <1>1, <1>2, <1>7, <1>8, RoundingType

LEMMA SettlesAt == ASSUME AmountsShape PROVE RoundingSettles
<1>1. rounding = ".99" /\ WholeCents(amount) => ApplyRounding(amount, rounding) >= amount
    BY AmountsTypes, NinetyNineCovers
<1> QED
    BY <1>1, AmountsTypes, RoundingRests DEF RoundingSettles

LEMMA CoversMarginAt == ASSUME AmountsShape PROVE CoversMargin
<1> SUFFICES ASSUME rounding \in {"none", ".99"}, NEW margin \in 0..markup
             PROVE  BaselineGross(amount, rate, markup, rounding) >= GrossOfRaisedCost(amount, margin, rate)
    BY DEF CoversMargin
<1> DEFINE high == GrossOfRaisedCost(amount, markup, rate)
           low == GrossOfRaisedCost(amount, margin, rate)
<1>1. low <= high /\ high \in Nat /\ low \in Nat /\ WholeCents(high)
    <2>1. amount <= amount /\ markup <= markup /\ margin <= markup /\ margin \in Nat
        BY AmountsTypes
    <2> QED
        BY <2>1, AmountsTypes, RaisedGrows
<1> HIDE DEF high, low
<1>2. ApplyRounding(high, rounding) >= high
    <2>1. CASE rounding = ".99"
        BY <1>1, <2>1, NinetyNineCovers
    <2>2. CASE rounding = "none"
        <3>1. ApplyRounding(high, rounding) = high
            BY <1>1, <2>2, RoundedTo
        <3> QED
            BY <1>1, <3>1
    <2> QED
        BY <2>1, <2>2
<1>3. ApplyRounding(high, rounding) \in Nat
    BY <1>1, RoundingType
<1> QED
    BY <1>1, <1>2, <1>3 DEF BaselineGross, high, low

\* Both roundings on the way, to the gross price and back, together lose a cent at most.
LEMMA MarginIsKeptAt == ASSUME AmountsShape PROVE MarginIsKept
<1> DEFINE S == RateScale
           C == CentScale
           T == RateScale + rate
           M == RateScale + markup
           n == amount * M * T
           h == HalfEven(n, S * S * C)
           k == HalfEven(h * S, T)
<1>1. S \in Nat \ {0} /\ C \in Nat \ {0} /\ T \in Nat \ {0} /\ S <= T /\ M \in Nat /\ amount \in Nat /\ rate \in Nat
    BY AmountsTypes
<1>2. GrossOfRaisedCost(amount, markup, rate) = ToCents(n, S * S)
    BY DEF GrossOfRaisedCost
<1>3. \A a \in Nat : NetPrice(a * C, rate) = HalfEven(a * S, T) * C
    BY <1>1, ConvertedCents
<1> HIDE DEF S, C, T, M
<1>4. amount * M \in Nat /\ n \in Nat /\ S * S \in Nat \ {0}
    BY <1>1, ProductType
<1>5. S * S * C \in Nat \ {0}
    BY <1>1, <1>4, ProductType
<1>6. h \in Nat /\ Nearest(h, n, S * S * C) /\ ToCents(n, S * S) = h * C
    BY <1>4, <1>5, HalfEvenType, HalfEvenIsNearest, InCents DEF C
<1>7. NetPrice(GrossOfRaisedCost(amount, markup, rate), rate) = k * C
    BY <1>2, <1>3, <1>6
<1> HIDE DEF n, h
<1>8. k \in Nat /\ Nearest(k, h * S, T)
    <2>1. h * S \in Nat
        BY <1>1, <1>6, ProductType
    <2> QED
        BY <1>1, <2>1, HalfEvenType, HalfEvenIsNearest
<1> HIDE DEF k
<1> DEFINE x == k * (S * C)
           y == amount * M
           z == S * C
<1>9. z \in Nat \ {0} /\ x \in Nat /\ y \in Nat
    BY <1>1, <1>4, <1>8, ProductType
<1>10. /\ 2 * (x * T) <= 2 * (h * (S * S * C)) + z * T
       /\ 2 * (h * (S * S * C)) <= 2 * (x * T) + z * T
    <2>1. 2 * (k * T) <= 2 * (h * S) + T /\ 2 * (h * S) <= 2 * (k * T) + T
        BY <1>8 DEF Nearest
    <2>2. /\ 2 * (k * T) \in Nat /\ 2 * (h * S) + T \in Nat
          /\ 2 * (h * S) \in Nat /\ 2 * (k * T) + T \in Nat
        BY <1>1, <1>6, <1>8, ProductType
    <2>3. /\ (2 * (k * T)) * z <= (2 * (h * S) + T) * z
          /\ (2 * (h * S)) * z <= (2 * (k * T) + T) * z
        <3> HIDE DEF z
        <3> QED
            BY <1>9, <2>1, <2>2, ProductOrder
    <2>4. /\ (2 * (k * T)) * z = 2 * (x * T)
          /\ (2 * (h * S) + T) * z = 2 * (h * (S * S * C)) + z * T
          /\ (2 * (h * S)) * z = 2 * (h * (S * S * C))
          /\ (2 * (k * T) + T) * z = 2 * (x * T) + z * T
        BY <1>1, <1>6, <1>8
    <2> HIDE DEF x, z
    <2> QED
        BY <2>3, <2>4
<1>11. /\ 2 * (h * (S * S * C)) <= 2 * (y * T) + z * T
       /\ 2 * (y * T) <= 2 * (h * (S * S * C)) + z * T
    <2>1. /\ 2 * (h * (S * S * C)) <= 2 * (y * T) + S * S * C
          /\ 2 * (y * T) <= 2 * (h * (S * S * C)) + S * S * C
        BY <1>6 DEF Nearest, n
    <2>2. S * S * C <= z * T
        <3>1. S * S * C = z * S
            BY <1>1
        <3> HIDE DEF z
        <3>2. z * S <= z * T
            BY <1>1, <1>9, ProductGrows
        <3> QED
            BY <3>1, <3>2
    <2>3. h * (S * S * C) \in Nat /\ y * T \in Nat /\ z * T \in Nat
        <3> HIDE DEF y, z
        <3> QED
            BY <1>1, <1>5, <1>6, <1>9, ProductType
    <2> QED
        BY <1>5, <2>1, <2>2, <2>3
<1>12. x * T <= (y + z) * T /\ y * T <= (x + z) * T
    <2> HIDE DEF x, y, z
    <2>1. (y + z) * T = y * T + z * T /\ (x + z) * T = x * T + z * T
        BY <1>1, <1>9
    <2>2. x * T \in Nat /\ y * T \in Nat /\ z * T \in Nat /\ h * (S * S * C) \in Nat
        BY <1>1, <1>5, <1>6, <1>9, ProductType
    <2> QED
        BY <1>10, <1>11, <2>1, <2>2
<1>13. x <= y + z /\ y <= x + z
    <2> HIDE DEF x, y, z
    <2> QED
        BY <1>1, <1>9, <1>12, ProductOrder
<1>14. Distance(x, y) <= z
    <2> HIDE DEF x, y, z
    <2> QED
        BY <1>9, <1>13 DEF Distance
<1>15. S * (k * C) = x
    BY <1>1, <1>8
<1> QED
    BY <1>7, <1>14, <1>15 DEF MarginIsKept, S, C, M

\* A cost that rises never lowers the baseline price; the price keeps its margin to the
\* cent, covers a margin its markup covers, and rests when it is rounded again: for every
\* cost, rate, markup and rounding.
THEOREM BaselineIsMonotonic == Spec => BaselineFollowsCost
<1> DEFINE A == amount # Null =>
                    /\ (RoundingSettles /\ MarginIsKept /\ CoversMargin)'
                    /\ amount' > amount =>
                        BaselineGross(amount', rate, markup, rounding) >= BaselineGross(amount, rate, markup, rounding)
           Settled == amount # Null => RoundingSettles /\ MarginIsKept /\ CoversMargin
<1>0. Shape => Settled
    <2>1. AmountsShape => Settled
        BY SettlesAt, MarginIsKeptAt, CoversMarginAt
    <2> QED
        BY <2>1 DEF Shape, BoundsShape, GuardShape
<1>1. ASSUME Shape, [Next]_vars, Settled' PROVE [A]_vars
    <2> SUFFICES ASSUME amount # Null, Next PROVE A
        BY <1>1
    <2>1. AmountsShape
        BY <1>1 DEF Shape, BoundsShape, GuardShape
    <2>2. AmountsShape' /\ UNCHANGED <<rate, markup, rounding>>
        <3>1. Rise
            BY <2>1 DEF AmountsShape, Next, Administer, Decide
        <3>2. Shape' /\ scenario' = "amounts"
            BY <1>1, <2>1, <3>1, ShapeStep DEF AmountsShape, Rise
        <3> QED
            BY <3>1, <3>2 DEF Rise, Shape, AmountsShape, BoundsShape, GuardShape
    <2>3. (RoundingSettles /\ MarginIsKept /\ CoversMargin)'
        <3>1. (amount # Null)'
            BY <2>2, NullAssumption DEF AmountsShape
        <3> QED
            BY <1>1, <3>1
    <2>4. ASSUME amount' > amount
          PROVE  BaselineGross(amount', rate, markup, rounding) >= BaselineGross(amount, rate, markup, rounding)
        <3>1. amount \in Nat /\ amount' \in Nat /\ amount <= amount' /\ markup \in Nat /\ rate \in Nat /\ markup <= markup
            <4>1. amount' \in Nat /\ amount \in Nat /\ markup \in Nat /\ rate \in Nat
                BY <2>1, <2>2, AmountsTypes DEF AmountsShape
            <4> QED
                BY <2>4, <4>1
        <3>2. /\ GrossOfRaisedCost(amount, markup, rate) <= GrossOfRaisedCost(amount', markup, rate)
              /\ GrossOfRaisedCost(amount, markup, rate) \in Nat
              /\ GrossOfRaisedCost(amount', markup, rate) \in Nat
            BY <3>1, RaisedGrows, RaisedCostType
        <3>3. BaselineGross(amount, rate, markup, rounding) <= BaselineGross(amount', rate, markup, rounding)
            BY <3>2, RoundingGrows DEF BaselineGross
        <3>4. BaselineGross(amount, rate, markup, rounding) \in Nat /\ BaselineGross(amount', rate, markup, rounding) \in Nat
            BY <3>1, BaselineType
        <3> QED
            BY <3>3, <3>4
    <2> QED
        BY <2>3, <2>4
<1>2. Shape /\ [Next]_vars /\ Settled' => [A]_vars
    BY <1>1
<1> QED
    BY <1>0, <1>2, ShapeInit, ShapeStep, PTL DEF Spec, BaselineFollowsCost


-----------------------------------------------------------------------------
(* The price floor *)

LEMMA PicksFirst ==
    ASSUME NEW rows, NEW i \in {1, 2, 3, 4}, Scopes[i] \in DOMAIN rows,
           \A j \in {1, 2, 3, 4} : Scopes[j] \in DOMAIN rows => i <= j
    PROVE  PickMostSpecific(rows) = rows[Scopes[i]]
<1> DEFINE found == {j \in DOMAIN Scopes : Scopes[j] \in DOMAIN rows}
<1>1. DOMAIN Scopes = {1, 2, 3, 4}
    BY DEF Scopes
<1>2. i \in found /\ \A j \in found : i <= j
    BY <1>1
<1>3. \A j \in found : j \in Nat
    BY <1>1
<1> HIDE DEF found
<1>4. ASSUME NEW k \in found, \A j \in found : k <= j PROVE k = i
    <2>1. k <= i /\ i <= k /\ k \in Nat /\ i \in Nat
        BY <1>2, <1>3, <1>4
    <2> QED
        BY <2>1
<1>5. (CHOOSE k \in found : \A j \in found : k <= j) = i
    BY <1>2, <1>4
<1>6. found # {}
    BY <1>2
<1> QED
    BY <1>5, <1>6 DEF PickMostSpecific, found

\* _pick_most_specific as a chain.
LEMMA Picks ==
    ASSUME NEW rows
    PROVE  PickMostSpecific(rows) =
                IF "sku_channel" \in DOMAIN rows THEN rows["sku_channel"]
                ELSE IF "sku" \in DOMAIN rows THEN rows["sku"]
                ELSE IF "channel" \in DOMAIN rows THEN rows["channel"]
                ELSE IF "global" \in DOMAIN rows THEN rows["global"] ELSE Null
<1>1. Scopes[1] = "sku_channel" /\ Scopes[2] = "sku" /\ Scopes[3] = "channel" /\ Scopes[4] = "global"
    BY DEF Scopes
<1>2. CASE "sku_channel" \in DOMAIN rows
    <2>1. Scopes[1] \in DOMAIN rows /\ \A j \in {1, 2, 3, 4} : 1 <= j
        BY <1>1, <1>2
    <2>2. PickMostSpecific(rows) = rows[Scopes[1]]
        BY <2>1, PicksFirst
    <2> QED
        BY <1>1, <1>2, <2>2
<1>3. CASE "sku_channel" \notin DOMAIN rows /\ "sku" \in DOMAIN rows
    <2>1. Scopes[2] \in DOMAIN rows /\ \A j \in {1, 2, 3, 4} : Scopes[j] \in DOMAIN rows => 2 <= j
        BY <1>1, <1>3
    <2>2. PickMostSpecific(rows) = rows[Scopes[2]]
        BY <2>1, PicksFirst
    <2> QED
        BY <1>1, <1>3, <2>2
<1>4. CASE "sku_channel" \notin DOMAIN rows /\ "sku" \notin DOMAIN rows /\ "channel" \in DOMAIN rows
    <2>1. Scopes[3] \in DOMAIN rows /\ \A j \in {1, 2, 3, 4} : Scopes[j] \in DOMAIN rows => 3 <= j
        BY <1>1, <1>4
    <2>2. PickMostSpecific(rows) = rows[Scopes[3]]
        BY <2>1, PicksFirst
    <2> QED
        BY <1>1, <1>4, <2>2
<1>5. CASE /\ "sku_channel" \notin DOMAIN rows /\ "sku" \notin DOMAIN rows
           /\ "channel" \notin DOMAIN rows /\ "global" \in DOMAIN rows
    <2>1. Scopes[4] \in DOMAIN rows /\ \A j \in {1, 2, 3, 4} : Scopes[j] \in DOMAIN rows => 4 <= j
        BY <1>1, <1>5
    <2>2. PickMostSpecific(rows) = rows[Scopes[4]]
        BY <2>1, PicksFirst
    <2> QED
        BY <1>1, <1>5, <2>2
<1>6. CASE /\ "sku_channel" \notin DOMAIN rows /\ "sku" \notin DOMAIN rows
           /\ "channel" \notin DOMAIN rows /\ "global" \notin DOMAIN rows
    <2>1. DOMAIN Scopes = {1, 2, 3, 4}
        BY DEF Scopes
    <2>2. {j \in DOMAIN Scopes : Scopes[j] \in DOMAIN rows} = {}
        BY <1>1, <1>6, <2>1
    <2>3. PickMostSpecific(rows) = Null
        BY <2>2 DEF PickMostSpecific
    <2> QED
        BY <1>6, <2>3
<1> QED
    BY <1>2, <1>3, <1>4, <1>5, <1>6

\* A cost raised by nothing is sold at its own gross price.
LEMMA RaisedByNothing ==
    ASSUME NEW value \in Nat, NEW r \in Nat
    PROVE  GrossOfRaisedCost(value, 0, r) = GrossPrice(value, r)
<1> DEFINE S == RateScale
           T == RateScale + r
           C == CentScale
<1>1. S \in Nat \ {0} /\ T \in Nat \ {0} /\ C \in Nat \ {0} /\ S + 0 = S
    BY ScaleAssumption
<1>2. GrossOfRaisedCost(value, 0, r) = ToCents(value * S * T, S * S) /\ GrossPrice(value, r) = ToCents(value * T, S)
    BY <1>1 DEF GrossOfRaisedCost, GrossPrice
<1> HIDE DEF S, T
<1>3. value * T \in Nat /\ S * S \in Nat \ {0} /\ S * C \in Nat \ {0} /\ value * S \in Nat
    BY <1>1, ProductType
<1>4. value * S * T \in Nat /\ value * S * T = (value * T) * S /\ (S * S) * C = (S * C) * S
    BY <1>1, <1>3, ProductType
<1>5. ToCents(value * S * T, S * S) = HalfEven(value * S * T, (S * S) * C) * C
    BY <1>3, <1>4, InCents
<1>6. ToCents(value * T, S) = HalfEven(value * T, S * C) * C
    BY <1>1, <1>3, InCents
<1>7. HalfEven((value * T) * S, (S * C) * S) = HalfEven(value * T, S * C)
    BY <1>1, <1>3, HalfEvenReduced
<1>8. HalfEven(value * S * T, (S * S) * C) = HalfEven(value * T, S * C)
    BY <1>4, <1>7
<1> QED
    BY <1>2, <1>5, <1>6, <1>8

LEMMA FloorCoversRow ==
    ASSUME NEW row \in BoundsRow, row # Null, NEW paid \in Nat \cup {Null}, NEW r \in Nat \cup {Null}
    PROVE  /\ row.map_value # Null => Floor(row, paid, r) >= row.map_value
           /\ row.min_margin # Null /\ paid # Null /\ r # Null => Floor(row, paid, r) >= GrossPrice(paid, r)
<1>1. row.map_value # Null => Floor(row, paid, r) >= row.map_value
    BY FloorCoversMap
<1>2. ASSUME row.min_margin # Null, paid # Null, r # Null PROVE Floor(row, paid, r) >= GrossPrice(paid, r)
    <2> DEFINE raised == GrossOfRaisedCost(paid, row.min_margin, r)
    <2>1. row.map_value \in Nat \cup {Null} /\ row.min_margin \in Nat /\ paid \in Nat /\ r \in Nat
        BY <1>2 DEF BoundsRow
    <2>2. 0 \in Nat /\ 0 <= row.min_margin /\ paid <= paid
        BY <2>1
    <2>3. GrossOfRaisedCost(paid, 0, r) <= raised /\ raised \in Nat /\ GrossPrice(paid, r) \in Nat
        BY <2>1, <2>2, RaisedGrows, RaisedCostType, ConversionType
    <2>4. GrossPrice(paid, r) <= raised
        BY <2>1, <2>3, RaisedByNothing
    <2>5. Floor(row, paid, r) = MaxOptional(row.map_value, raised)
        BY <1>2 DEF Floor, CostFloor
    <2> HIDE DEF raised
    <2> QED
        BY <2>1, <2>3, <2>4, <2>5, NullAssumption DEF MaxOptional
<1> QED
    BY <1>1, <1>2

LEMMA BothLimits == ASSUME Shape PROVE FloorCoversBothLimits
<1> DEFINE row == PickMostSpecific(config)
<1> SUFFICES ASSUME row # Null
             PROVE  /\ row.map_value # Null => Floor(row, cost, rate) >= row.map_value
                    /\ row.min_margin # Null /\ cost # Null /\ rate # Null =>
                            Floor(row, cost, rate) >= GrossPrice(cost, rate)
    BY DEF FloorCoversBothLimits, CurrentFloor
<1>1. PICK s \in DOMAIN config : row = config[s]
    BY Picks
<1>2. BoundsShape
    BY <1>1 DEF Shape, AmountsShape, GuardShape
<1>3. row \in BoundsRow
    BY <1>1, <1>2, InputAssumption DEF BoundsShape, SomeRows, BoundsRow
<1>4. cost \in Nat \cup {Null} /\ rate \in Nat \cup {Null}
    BY <1>2, InputAssumption DEF BoundsShape
<1> HIDE DEF row
<1> QED
    BY <1>3, <1>4, FloorCoversRow

\* The change of a row that a more specific one hides changes no floor; of the deciding
\* row, the floor covers both limits: for every configuration, cost and rate
\* (price_bounds_service.py:112).
THEOREM HiddenRowsAreSilent == Spec => MoreSpecificRowDecides
<1> DEFINE hidden(scope) ==
                \/ "sku_channel" \in DOMAIN config /\ scope # "sku_channel"
                \/ "sku" \in DOMAIN config /\ scope \in {"channel", "global"}
                \/ "channel" \in DOMAIN config /\ scope = "global"
           A == /\ FloorCoversBothLimits'
                /\ \A scope \in ScopeNames :
                    hidden(scope) /\ (scope \in DOMAIN config) # (scope \in DOMAIN config')
                        => CurrentFloor' = CurrentFloor
<1>1. ASSUME Shape, [Next]_vars, FloorCoversBothLimits' PROVE [A]_vars
    <2> SUFFICES ASSUME Next, NEW scope \in ScopeNames, hidden(scope),
                        (scope \in DOMAIN config) # (scope \in DOMAIN config')
                 PROVE  CurrentFloor' = CurrentFloor
        BY <1>1
    <2>1. Administer
        BY DEF Next, Rise, Decide
    <2>2. cost' = cost /\ rate' = rate
        BY <2>1 DEF Administer
    <2>3. \A s \in ScopeNames \ {scope} :
            /\ s \in DOMAIN config <=> s \in DOMAIN config'
            /\ s \in DOMAIN config => config'[s] = config[s]
        BY <2>1 DEF Administer, Configure, Unconfigure
    <2>4. ScopeNames = {"sku_channel", "sku", "channel", "global"}
        <3>1. DOMAIN Scopes = {1, 2, 3, 4}
            BY DEF Scopes
        <3>2. Scopes[1] = "sku_channel" /\ Scopes[2] = "sku" /\ Scopes[3] = "channel" /\ Scopes[4] = "global"
            BY DEF Scopes
        <3> QED
            BY <3>1, <3>2 DEF ScopeNames
    <2>5. PickMostSpecific(config') = PickMostSpecific(config)
        <3>1. CASE "sku_channel" \in DOMAIN config /\ scope # "sku_channel"
            BY <2>3, <2>4, <3>1, Picks
        <3>2. CASE "sku" \in DOMAIN config /\ scope \in {"channel", "global"}
            BY <2>3, <2>4, <3>2, Picks
        <3>3. CASE "channel" \in DOMAIN config /\ scope = "global"
            BY <2>3, <2>4, <3>3, Picks
        <3> QED
            BY <3>1, <3>2, <3>3
    <2> QED
        BY <2>2, <2>5 DEF CurrentFloor, PickMostSpecific
<1>2. Shape /\ [Next]_vars /\ FloorCoversBothLimits' => [A]_vars
    BY <1>1
<1>3. Shape => FloorCoversBothLimits
    BY BothLimits
<1> QED
    BY <1>2, <1>3, ShapeInit, ShapeStep, PTL DEF Spec, MoreSpecificRowDecides


-----------------------------------------------------------------------------
(* The write guard *)

LEMMA CallTypes ==
    ASSUME NEW content \in Contents
    PROVE  /\ content.rate \in Nat \cup {Null}
           /\ \A k \in DOMAIN content.values :
                /\ content.values[k] \in Filled \cup {NoPair}
                /\ \/ content.values[k] = NoPair \/ content.rate = Null
                   \/ Coherent(content.values[k], content.rate)
<1>1. CASE content = Untaxed
    BY <1>1 DEF Untaxed
<1>2. CASE content # Untaxed
    <2>1. PICK r \in CallRates : \E values \in ValuesAt(r) : content = [values |-> values, rate |-> r]
        BY <1>2 DEF Contents
    <2>2. PICK values \in ValuesAt(r) : content = [values |-> values, rate |-> r]
        BY <2>1
    <2>3. r \in Nat
        BY InputAssumption
    <2>4. ASSUME NEW pair \in PairsAt(r) PROVE pair \in Filled /\ Coherent(pair, r)
        <3>1. PICK v \in CallAmounts, direction \in BOOLEAN : pair = PricePair(v, r, direction)
            BY DEF PairsAt
        <3>2. v \in Nat
            BY InputAssumption
        <3> QED
            BY <2>3, <3>1, <3>2, PricePairType DEF Filled, Coherent, PricePair
    <2>5. \A k \in DOMAIN values : values[k] \in PairsAt(r) \cup {NoPair}
        BY DEF ValuesAt
    <2> QED
        BY <2>2, <2>3, <2>4, <2>5
<1> QED
    BY <1>1, <1>2

\* What GuardShape says of a decision that was taken.
LEMMA DecisionTaken ==
    ASSUME Shape, decision # Null
    PROVE  /\ decision = Ask(call.existing, call.content.values)
           /\ call.content.rate \in Nat \cup {Null} /\ call.floor \in Nat \cup {Null}
           /\ \A k \in DOMAIN call.content.values :
                /\ call.content.values[k] \in Filled \cup {NoPair}
                /\ \/ call.content.values[k] = NoPair \/ call.content.rate = Null
                   \/ Coherent(call.content.values[k], call.content.rate)
<1>1. GuardShape
    BY DEF Shape, AmountsShape, BoundsShape
<1>2. call.content \in Contents /\ call.floor \in CallFloors
    BY <1>1 DEF GuardShape, Calls
<1> QED
    BY <1>1, <1>2, CallTypes, InputAssumption DEF GuardShape

\* The pairs that are stored.
LEMMA StoredPairs ==
    ASSUME Shape, Written, NEW k \in DOMAIN decision.values
    PROVE  /\ k \in DOMAIN call.content.values
           /\ HeldToFloor(call.content.values[k], decision.values[k], call.floor, call.content.rate)
<1>1. /\ decision = GuardPriceWrite(call.existing, call.content.values, call.writer, call.stored,
                                    call.floor, call.content.rate, call.policy)
      /\ decision.status # "skipped"
    BY DecisionTaken DEF Written, Ask
<1>2. k \in DOMAIN call.content.values
    BY <1>1, DecisionToWrite
<1> QED
    BY <1>1, <1>2, DecisionTaken, GuardedPair DEF Written

\* Whatever the writer, the label, the policy rows and the pairs: what the guard lets
\* through respects the floor and keeps its two amounts in agreement, and a VAT
\* recalculation always passes (price_write_guard.py:56-96).
THEOREM GuardNeverGivesWay == Spec => []GuardNeverBends
<1>1. ASSUME Shape PROVE GuardNeverBends
    <2>1. ASSUME Written, NEW k \in DOMAIN decision.values, decision.values[k] # NoPair
          PROVE  /\ call.floor # Null => decision.values[k].gross >= call.floor
                 /\ call.content.rate # Null => Coherent(decision.values[k], call.content.rate)
        <3> DEFINE asked == call.content.values[k]
                   pair == decision.values[k]
        <3>1. HeldToFloor(asked, pair, call.floor, call.content.rate) /\ k \in DOMAIN call.content.values
            BY <1>1, <2>1, StoredPairs
        <3>2. asked = NoPair \/ call.content.rate = Null \/ Coherent(asked, call.content.rate)
            BY <1>1, <2>1, <3>1, DecisionTaken DEF Written
        <3> HIDE DEF asked, pair
        <3>3. CASE pair = asked /\ (call.floor = Null \/ asked = NoPair \/ asked.gross >= call.floor)
            BY <2>1, <3>2, <3>3 DEF pair
        <3>4. CASE /\ call.floor \in Nat
                   /\ pair = [net |-> IF call.content.rate = Null THEN asked.net
                                      ELSE NetPrice(call.floor, call.content.rate),
                              gross |-> call.floor]
            <4>1. pair.gross = call.floor /\ call.floor >= call.floor
                BY <3>4
            <4>2. call.content.rate # Null => pair.net = NetPrice(pair.gross, call.content.rate)
                BY <3>4, <4>1
            <4> QED
                BY <4>1, <4>2 DEF Coherent, pair
        <3> QED
            BY <3>1, <3>3, <3>4 DEF HeldToFloor
    <2>2. decision # Null /\ call.writer = "tax_rate_change" => Written
        BY <1>1, DecisionTaken, VatIsMandatory DEF Written, Ask
    <2> QED
        BY <2>1, <2>2 DEF GuardNeverBends
<1>2. Shape => GuardNeverBends
    BY <1>1
<1> QED
    BY <1>2, ShapeInit, ShapeStep, PTL DEF Spec

\* A write that is repeated is a fixed point: what the guard let through, it lets through
\* unchanged; and no writer is locked out of a price that carries its own label.
THEOREM WritesAreRepeatable == Spec => []SecondPassAgrees
<1>1. ASSUME Shape, Written
      PROVE  LET again == Ask(call.existing, decision.values)
             IN  again.status = "applied" /\ again.values = decision.values
    <2>1. /\ decision = GuardPriceWrite(call.existing, call.content.values, call.writer, call.stored,
                                        call.floor, call.content.rate, call.policy)
          /\ decision.status # "skipped"
        BY <1>1, DecisionTaken DEF Written, Ask
    <2>2. PrecedenceAllows(call.writer, call.existing, call.policy)
        BY <2>1 DEF GuardPriceWrite, Skipped, Decision
    <2>3. call.floor # Null => Violations(decision.values, call.floor) = {}
        <3> SUFFICES ASSUME call.floor # Null, NEW k \in DOMAIN decision.values,
                            decision.values[k].gross # Null, decision.values[k].gross < call.floor
                     PROVE  FALSE
            BY DEF Violations
        <3> DEFINE asked == call.content.values[k]
                   pair == decision.values[k]
        <3>1. HeldToFloor(asked, pair, call.floor, call.content.rate) /\ k \in DOMAIN call.content.values
            BY <1>1, StoredPairs
        <3>2. asked \in Filled \cup {NoPair} /\ call.floor \in Nat
            BY <1>1, <3>1, DecisionTaken DEF Written
        <3>3. pair.gross # Null /\ pair.gross < call.floor
            OBVIOUS
        <3> HIDE DEF asked, pair
        <3>4. pair.gross \in Nat /\ pair.gross >= call.floor
            BY <3>1, <3>2, <3>3 DEF HeldToFloor, Filled, NoPair, Amount
        <3> QED
            BY <3>2, <3>3, <3>4
    <2> QED
        BY <2>2, <2>3 DEF Ask, GuardPriceWrite, Decision
<1>2. ASSUME Shape, decision # Null, call.existing = call.writer, call.floor = Null
      PROVE  decision.status = "applied"
    <2>1. PrecedenceAllows(call.writer, call.existing, call.policy)
        BY <1>2 DEF PrecedenceAllows
    <2> QED
        BY <1>2, <2>1, DecisionTaken DEF Ask, GuardPriceWrite, Decision
<1>3. Shape => SecondPassAgrees
    BY <1>1, <1>2 DEF SecondPassAgrees
<1> QED
    BY <1>3, ShapeInit, ShapeStep, PTL DEF Spec

\* The preview of an admin edit, which does not read the row, is what saving it stores.
THEOREM PreviewIsSave == Spec => []PreviewPredictsSave
<1>1. Shape => PreviewPredictsSave
    BY DecisionTaken, PreviewIsExact DEF Ask, PreviewPredictsSave
<1> QED
    BY <1>1, ShapeInit, ShapeStep, PTL DEF Spec
=============================================================================
