----------------------------- MODULE BundlePrice -----------------------------
(****************************************************************************)
(* The price of a bundle, added up from the prices its components have in   *)
(* one list.  The database returns the components in no particular order.   *)
(****************************************************************************)
EXTENDS PriceOutput

NoPrices == [exists |-> FALSE, rows |-> {}, verifiedOnly |-> FALSE]

\* _fetch_bundle_component_prices: if the customer's list prices no component, all
\* of it once more without the customer.
Fetch(bundle, parts, who) ==
    LET rows(l)  == {r \in OfSkus(RowsOf(l), parts) : r.slot.parent = bundle}
        own      == Latest(who)
        source   == IF who # Null /\ rows(own) = {} THEN Latest(Null) ELSE own
    IN  IF own = 0 \/ source = 0 THEN NoPrices
        ELSE [exists |-> TRUE, rows |-> rows(source), verifiedOnly |-> lists[source].verified]

-----------------------------------------------------------------------------
(* _aggregate_components: the loop over the rows, in the order they come in *)

\* The SKUs of a dictionary of quantities; none if there is no dictionary.
Listed(quantities) == IF quantities = Null THEN {} ELSE DOMAIN quantities

NoTotals ==
    [gross |-> 0, net |-> 0, finalGross |-> 0, finalNet |-> 0, hasSpecial |-> FALSE,
     from |-> Null, to |-> Null, cheapest |-> Null, rate |-> Null, sku |-> Null]

Quantity(quantities, sku) == IF sku \in Listed(quantities) THEN quantities[sku] ELSE 1

\* Seeded fault: the dates of every special price count, eligible or not.
Dates_OfAll(t, row, hasSpecial) ==
    [t EXCEPT !.from = IF row.from # Null /\ (@ = Null \/ row.from < @) THEN row.from ELSE @,
              !.to = IF row.to # Null /\ (@ = Null \/ row.to > @) THEN row.to ELSE @]

\* The earliest start and the latest end of the special prices that apply.
Dates(t, row, hasSpecial) ==
    IF ~hasSpecial THEN t
    ELSE [t EXCEPT !.from = IF row.from # Null /\ (@ = Null \/ row.from < @) THEN row.from ELSE @,
                   !.to = IF row.to # Null /\ (@ = Null \/ row.to > @) THEN row.to ELSE @]

Cheaper(t, row, sku) ==
    \/ t.cheapest = Null
    \/ row.gross < t.cheapest
    \/ row.gross = t.cheapest /\ sku < t.sku

Sum(t, row, qty, hasSpecial) ==
    [t EXCEPT !.gross = @ + row.gross * qty, !.net = @ + row.net * qty,
              !.finalGross = @ + (IF hasSpecial THEN row.specialGross ELSE row.gross) * qty,
              !.finalNet = @ + (IF hasSpecial THEN row.specialNet ELSE row.net) * qty,
              !.hasSpecial = @ \/ hasSpecial]

AddPart(t, r, quantities) ==
    LET row        == RowAt(r)
        sku        == r.slot.sku
        hasSpecial == Truthy(row.specialGross) /\ EligibleInSql(row)
        sum        == Dates(Sum(t, row, Quantity(quantities, sku), hasSpecial), row, hasSpecial)
    IN  IF Cheaper(t, row, sku)
        THEN [sum EXCEPT !.cheapest = row.gross, !.rate = row.rate, !.sku = sku]
        ELSE sum

\* The discount in whole per cent.
Badge(t) ==
    LET off == HalfEven(100 * (t.gross - t.finalGross), t.gross)
    IN  IF t.hasSpecial /\ t.gross > 0 /\ off > 0 THEN off ELSE Null

Aggregate(rows, quantities) ==
    LET t == FoldLeft(LAMBDA acc, r : AddPart(acc, r, quantities), NoTotals, rows)
    IN  [gross |-> t.gross, net |-> t.net, finalGross |-> t.finalGross, finalNet |-> t.finalNet,
         hasSpecial |-> t.hasSpecial,
         specialGross |-> IF t.hasSpecial THEN t.finalGross ELSE Null,
         specialNet |-> IF t.hasSpecial THEN t.finalNet ELSE Null,
         badge |-> Badge(t), from |-> t.from, to |-> t.to, rate |-> t.rate]

-----------------------------------------------------------------------------

\* What get_aggregated_bundle_price adds up, in any order; nothing if it returns no
\* snapshot.  An empty dictionary filters nothing, as if there were none.
Parts(bundle, quantities, who, verified) ==
    LET found   == Fetch(bundle, Listed(quantities), who)
        missing == Listed(quantities) \ {r.slot.sku : r \in found.rows}
    IN  IF (found.verifiedOnly /\ ~verified) \/ missing # {} THEN {} ELSE found.rows
=============================================================================
