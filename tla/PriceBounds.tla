----------------------------- MODULE PriceBounds -----------------------------
(****************************************************************************)
(* The price floor of one (sku, channel, country): the configured minimum   *)
(* advertised price and the cost of the product raised by the minimum       *)
(* margin, whichever is higher.                                             *)
(****************************************************************************)
EXTENDS PriceMath, Sequences

\* A PriceBoundsConfig row; either limit may be missing.
BoundsRow == [map_value : Nat \cup {Null}, min_margin : Nat \cup {Null}]

MaxOptional(a, b) ==
    IF a = Null THEN b ELSE IF b = Null \/ a >= b THEN a ELSE b

\* Seeded fault: the channel's row comes before the product's.
PickMostSpecific_ChannelFirst(candidates) ==
    LET order == <<"sku_channel", "channel", "sku", "global">>
        found == {i \in DOMAIN order : order[i] \in DOMAIN candidates}
    IN  IF found = {} THEN Null
        ELSE candidates[order[CHOOSE i \in found : \A j \in found : i <= j]]

\* _pick_most_specific: sku+channel > sku > channel > global.  The rows are a
\* function on the scopes that have one; it picks a row, it does not merge them.
Scopes == <<"sku_channel", "sku", "channel", "global">>
PickMostSpecific(candidates) ==
    LET found == {i \in DOMAIN Scopes : Scopes[i] \in DOMAIN candidates}
    IN  IF found = {} THEN Null
        ELSE candidates[Scopes[CHOOSE i \in found : \A j \in found : i <= j]]

\* The floor computed by _bounds_dict, from the bounds row, the product's
\* purchase cost and the country's tax rate, each of which may be missing.
CostFloor(row, cost, rate) ==
    IF row.min_margin # Null /\ cost # Null /\ rate # Null
    THEN GrossOfRaisedCost(cost, row.min_margin, rate)
    ELSE Null

Floor(row, cost, rate) ==
    IF row = Null THEN Null ELSE MaxOptional(row.map_value, CostFloor(row, cost, rate))
=============================================================================
