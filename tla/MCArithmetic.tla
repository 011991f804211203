----------------------------- MODULE MCArithmetic -----------------------------
(****************************************************************************)
(* The functions every writer of prices shares, over bounded inputs.        *)
(*   "amounts"  the price arithmetic at every amount up to MaxAmount: the   *)
(*              amount rises one unit at a time, so that what a step does   *)
(*              to a result can be stated as well as what each result is;   *)
(*   "bounds"   the price floor for every way a few bounds rows may be      *)
(*              configured, while admins add and remove them;               *)
(*   "guard"    the write guard asked about every call: each writer over    *)
(*              each label, with and without policy rows, floor and rate.   *)
(****************************************************************************)
EXTENDS PriceWriteGuard, PriceBounds

CONSTANTS
    MaxAmount,  \* the highest amount tried
    TryRates, TryMarkups,
    Limits,     \* the limits a bounds row may have: values, margins and Null
    TryCosts, CostRates,
    CallAmounts,  \* the amounts writers ask for
    CallRates,    \* the tax rates they convert them with
    CallFloors    \* the floors, and Null

ASSUME InputAssumption ==
    /\ MaxAmount \in Nat
    /\ TryRates \subseteq 0..RateScale /\ TryMarkups \subseteq Nat
    /\ Limits \subseteq Nat \cup {Null}
    /\ TryCosts \subseteq Nat \cup {Null} /\ CostRates \subseteq Nat \cup {Null}
    /\ CallAmounts \subseteq Nat /\ CallRates \subseteq Nat /\ CallFloors \subseteq Nat \cup {Null}

VARIABLES scenario, amount, rate, markup, rounding, config, cost, call, decision

vars == <<scenario, amount, rate, markup, rounding, config, cost, call, decision>>

(********************************* amounts **********************************)
AmountsInit ==
    /\ scenario = "amounts"
    /\ amount = 0
    /\ rate \in TryRates
    /\ markup \in TryMarkups
    /\ rounding \in PriceRounding
    /\ config = <<>> /\ cost = Null /\ call = Null /\ decision = Null

Rise ==
    /\ scenario = "amounts"
    /\ amount' = IF amount = MaxAmount THEN 0 ELSE amount + 1
    /\ UNCHANGED <<scenario, rate, markup, rounding, config, cost, call, decision>>

(********************************** bounds **********************************)
ScopeNames == {Scopes[i] : i \in DOMAIN Scopes}
SomeRows == [map_value : Limits, min_margin : Limits]

BoundsInit ==
    /\ scenario = "bounds"
    /\ config = <<>>
    /\ cost \in TryCosts
    /\ rate \in CostRates
    /\ amount = Null /\ markup = Null /\ rounding = Null /\ call = Null /\ decision = Null

Configure(scope) ==
    /\ scope \notin DOMAIN config
    /\ \E row \in SomeRows :
        config' = [s \in DOMAIN config \cup {scope} |-> IF s = scope THEN row ELSE config[s]]

Unconfigure(scope) ==
    /\ scope \in DOMAIN config
    /\ config' = [s \in DOMAIN config \ {scope} |-> config[s]]

Administer ==
    /\ scenario = "bounds"
    /\ \E scope \in ScopeNames : Configure(scope) \/ Unconfigure(scope)
    /\ UNCHANGED <<scenario, amount, rate, markup, rounding, cost, call, decision>>

(********************************** guard ***********************************)
\* What writers ask to be stored: the regular price, the special price or both,
\* each converted at the rate in one of the two directions.
PairsAt(r) == {PricePair(v, r, direction) : v \in CallAmounts, direction \in BOOLEAN}
ValuesAt(r) ==
    {[regular |-> pair] : pair \in PairsAt(r)}
        \cup {[special |-> pair] : pair \in PairsAt(r) \cup {NoPair}}
        \cup {[regular |-> pair, special |-> promo] :
                    pair \in PairsAt(r), promo \in PairsAt(r) \cup {NoPair}}

\* A row whose tax rate was deleted only ever has its special price removed.
Untaxed == [values |-> [special |-> NoPair], rate |-> Null]
Contents == {Untaxed} \cup UNION {{[values |-> v, rate |-> r] : v \in ValuesAt(r)} : r \in CallRates}

\* No policy row; one row for a writer that must never be rejected and one for
\* an overwritable label; baseline rows rejecting and not overwritable.
Row(mode, overwritable) == [enforce_mode |-> mode, recalc_overwritable |-> overwritable]
Policies ==
    { <<>>,
      [s \in {"tax_rate_change", "api"} |-> Row("reject", s = "api")],
      [s \in {"baseline", "admin_edit"} |-> Row("reject", FALSE)],
      [s \in {"admin_edit", "pricefighter"} |-> Row("clamp", s = "admin_edit")] }

Writers == {"api", "admin_edit", "tax_rate_change", "pricefighter", "baseline"}
Labels == Writers \cup {"csv_import"}

Calls == [existing : Labels \cup {Null}, writer : Writers, stored : {Null, "baseline"},
          content : Contents, floor : CallFloors, policy : Policies]

GuardInit ==
    /\ scenario = "guard"
    /\ call \in Calls
    /\ decision = Null
    /\ amount = Null /\ rate = Null /\ markup = Null /\ rounding = Null
    /\ config = <<>> /\ cost = Null

Ask(existing, values) ==
    GuardPriceWrite(existing, values, call.writer, call.stored, call.floor, call.content.rate, call.policy)

Decide ==
    /\ scenario = "guard"
    /\ decision' = Ask(call.existing, call.content.values)
    /\ UNCHANGED <<scenario, amount, rate, markup, rounding, config, cost, call>>

Init == AmountsInit \/ BoundsInit \/ GuardInit
Next == Rise \/ Administer \/ Decide
Spec == Init /\ [][Next]_vars

-----------------------------------------------------------------------------
Distance(a, b) == IF a >= b THEN a - b ELSE b - a
WholeCents(a) == a % CentScale = 0
Cents == {a \in 0..(3 * MaxAmount) : WholeCents(a)}

\* The definition of rounding, not its computation.  (Amounts scaled by RateScale.)
GrossIsNearestCent ==
    LET exact == amount * (RateScale + rate)
        gross == GrossPrice(amount, rate)
        off(c) == Distance(c * RateScale, exact)
    IN  /\ \A c \in Cents : off(gross) <= off(c)
        /\ \A c \in Cents \ {gross} :
                off(gross) = off(c) => (gross \div CentScale) % 2 = 0

\* gross_price is the nearest cent, and halfway the even one.  A net price in whole
\* cents survives the way to its gross price and back: a channel priced from net
\* amounts never drifts when its prices are recalculated.  gross_price(net_price(x))
\* # x, as the code warns, but it is never more than a cent away (rates up to 100%).
ConversionsStayClose ==
    amount # Null =>
        /\ GrossIsNearestCent
        /\ WholeCents(amount) =>
            /\ NetPrice(GrossPrice(amount, rate), rate) = amount
            /\ Distance(GrossPrice(NetPrice(amount, rate), rate), amount) <= CentScale

\* A price that is already rounded is left alone, .99 never sells below the computed
\* price, and no rounding moves a price by a whole unit.
RoundingSettles ==
    LET rounded == ApplyRounding(amount, rounding)
    IN  /\ ApplyRounding(rounded, rounding) = rounded
        /\ rounding = ".99" /\ WholeCents(amount) => rounded >= amount
        /\ Distance(rounded, amount) < 100 * CentScale

\* The net amount of the gross price of a raised cost is the raised cost, to the cent.
MarginIsKept ==
    Distance(RateScale * NetPrice(GrossOfRaisedCost(amount, markup, rate), rate),
             amount * (RateScale + markup)) <= RateScale * CentScale

\* A markup that covers the minimum margin gives a price that covers the cost floor,
\* unless a rounding lowers it: the guard has nothing to clamp.
CoversMargin ==
    rounding \in {"none", ".99"} =>
        \A margin \in 0..markup :
            BaselineGross(amount, rate, markup, rounding) >= GrossOfRaisedCost(amount, margin, rate)

\* A cost that rises never lowers the baseline price, which keeps its margin and does
\* not climb when it is recalculated (baseline_config.py:19-27, price_bounds_service.py:112).
BaselineFollowsCost ==
    [][amount # Null =>
        /\ (RoundingSettles /\ MarginIsKept /\ CoversMargin)'
        /\ amount' > amount =>
            BaselineGross(amount', rate, markup, rounding) >= BaselineGross(amount, rate, markup, rounding)]_vars

-----------------------------------------------------------------------------
CurrentFloor == Floor(PickMostSpecific(config), cost, rate)

\* The floor guarantees both limits of the deciding row: the minimum advertised
\* price and, where cost and rate are known, the cost of the product.
FloorCoversBothLimits ==
    LET row == PickMostSpecific(config)
    IN  row # Null =>
        /\ row.map_value # Null => CurrentFloor >= row.map_value
        /\ row.min_margin # Null /\ cost # Null /\ rate # Null =>
                CurrentFloor >= GrossPrice(cost, rate)

\* A change of a row shows in the floor only where no more specific row exists: a
\* row for the product in the channel hides all others, a row for the product
\* hides the channel's and the global one, a row for the channel the global one.
\* A hidden row has no say, not even in a limit the deciding row leaves open; of the
\* deciding row, both limits are covered.
MoreSpecificRowDecides ==
    [][LET hidden(scope) ==
            \/ "sku_channel" \in DOMAIN config /\ scope # "sku_channel"
            \/ "sku" \in DOMAIN config /\ scope \in {"channel", "global"}
            \/ "channel" \in DOMAIN config /\ scope = "global"
       IN  /\ FloorCoversBothLimits'
           /\ \A scope \in ScopeNames :
                hidden(scope) /\ (scope \in DOMAIN config) # (scope \in DOMAIN config')
                    => CurrentFloor' = CurrentFloor]_vars

-----------------------------------------------------------------------------
Written == decision # Null /\ decision.status # "skipped"

\* Whatever the writer, the label, the policy rows and the pairs: neither the regular
\* nor the special price that passes is below the floor, raising one to the floor
\* keeps its two amounts in agreement, and a recalculation after a tax rate change
\* is never skipped (price_write_guard.py:56-96).
GuardNeverBends ==
    /\ Written => \A k \in DOMAIN decision.values :
        LET pair == decision.values[k]
        IN  pair # NoPair =>
            /\ call.floor # Null => pair.gross >= call.floor
            /\ call.content.rate # Null => Coherent(pair, call.content.rate)
    /\ decision # Null /\ call.writer = "tax_rate_change" => Written

\* What the guard lets through, it lets through unchanged the next time: a write that
\* is repeated (a retried task, a second recalculation) is a fixed point, and a writer
\* is never locked out of a price that carries its own label.
SecondPassAgrees ==
    /\ Written =>
        LET again == Ask(call.existing, decision.values)
        IN  again.status = "applied" /\ again.values = decision.values
    /\ decision # Null /\ call.existing = call.writer /\ call.floor = Null =>
        decision.status = "applied"

\* The preview of an admin edit, which does not read the row, shows what saving
\* the edit will store whatever label the row has.
PreviewPredictsSave ==
    decision # Null /\ call.writer = "admin_edit" /\ call.stored = Null =>
        decision = PreviewDecision(call.content.values, call.floor, call.content.rate, call.policy)
===============================================================================
