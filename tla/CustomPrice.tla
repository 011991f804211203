----------------------------- MODULE CustomPrice -----------------------------
(****************************************************************************)
(* The price of a product configured with attributes: the product's price   *)
(* plus those attribute prices of the list that the chosen attributes ask   *)
(* for.  The attribute prices of a list are a sequence in the order of      *)
(* their ids: [sku, attrs, row], sku Null for those of any product.         *)
(****************************************************************************)
EXTENDS PriceOutput

\* The attribute prices all of whose attributes are chosen.
Applicable(l, sku, chosen) ==
    {i \in DOMAIN lists[l].extras :
        LET e == lists[l].extras[i]
        IN  e.sku \in {sku, Null} /\ e.attrs \subseteq chosen}

\* is_price_allowed: of those for the same attributes, the one with the lowest id.
Allowed(l, sku, chosen) ==
    LET fits == Applicable(l, sku, chosen)
        attrs(i) == lists[l].extras[i].attrs
    IN  {i \in fits : \A j \in fits : j < i => attrs(j) # attrs(i)}

\* check_can_add_attr_special_price compares a datetime with a date, which raises,
\* or None with a date, which does too.
CanAddSpecial(priceSpecial, attrSpecial, row) ==
    IF ~(Truthy(priceSpecial) /\ Truthy(attrSpecial)) THEN "no"
    ELSE IF row.from = Null /\ row.to = Null THEN "yes" ELSE "raises"

\* Seeded fault: the attribute's special price replaces the sum so far.
AddSpecial_Replaced(price, attrSpecial, attrRegular, row) ==
    IF CanAddSpecial(price, attrSpecial, row) = "yes" THEN attrSpecial
    ELSE IF Truthy(price) THEN price + attrRegular ELSE Null

\* What becomes of one special amount.
AddSpecial(price, attrSpecial, attrRegular, row) ==
    IF CanAddSpecial(price, attrSpecial, row) = "yes" THEN price + attrSpecial
    ELSE IF Truthy(price) THEN price + attrRegular ELSE Null

Raises(price, extra, row) ==
    \/ CanAddSpecial(price.specialGross, extra.specialGross, row) = "raises"
    \/ CanAddSpecial(price.specialNet, extra.specialNet, row) = "raises"

\* One turn of the loop over the allowed prices.
AddExtra(price, row, vat0) ==
    LET extra == LegacyItem(row, Null, vat0)
    IN  IF price.raised \/ Raises(price, extra, row) THEN [price EXCEPT !.raised = TRUE]
        ELSE [price EXCEPT
                !.gross = Shown(@) + extra.gross,
                !.net = Shown(@) + extra.net,
                !.specialGross = AddSpecial(@, extra.specialGross, extra.gross, row),
                !.specialNet = AddSpecial(@, extra.specialNet, extra.net, row)]

Base(item) ==
    [gross |-> item.gross, net |-> item.net, specialGross |-> item.specialGross,
     specialNet |-> item.specialNet, eligible |-> item.eligible, raised |-> FALSE]

\* get_product_custom_price_for_country_and_currency, for rows that come in this
\* order; {} is NotFound.  The product's price is asked for with VAT even if vat0.
CustomPrice(sku, ids, vat0) ==
    LET rows == [i \in DOMAIN ids |-> lists[Latest(Null)].extras[ids[i]].row]
    IN  {FoldLeft(LAMBDA price, row : AddExtra(price, row, vat0), Base(item), rows) :
            item \in LegacyAnswer(sku, Null, FALSE).price}
=============================================================================
