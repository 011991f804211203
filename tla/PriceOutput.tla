----------------------------- MODULE PriceOutput -----------------------------
(****************************************************************************)
(* What the shop, the cart and the search index are told a product costs:   *)
(* the readers of price lists and the readers of CurrentPrice that are to   *)
(* replace them.  All of them only read; what moves is the time, against    *)
(* which special prices start and end, and the price lists, which others    *)
(* publish.  One channel, one country and one currency.                     *)
(*                                                                          *)
(* A row is named by the list it comes from and its slot in that list.      *)
(****************************************************************************)
EXTENDS PriceMath, SequencesExt

CONSTANTS
    Slot,         \* what is priced: [sku, parent], parent Null or a bundle
    Customer,
    Country, Currency,
    List,         \* the price lists that may be published
    MaxLists,     \* bound: how many lists are published
    MaxTime,      \* bound: the time after which nothing starts or ends
    WhenUndated   \* APPLIED_SPECIAL_PRICE_WHEN_NULL_VALIDITY_DATES

VARIABLES
    lists,   \* the lists that are ready, oldest first
    now

vars == <<lists, now>>

Init == lists = <<>> /\ now = 0

Publish ==
    /\ Len(lists) < MaxLists
    /\ \E l \in List : lists' = Append(lists, l)
    /\ UNCHANGED now

Tick ==
    /\ now < MaxTime
    /\ now' = now + 1
    /\ UNCHANGED lists

Next == Publish \/ Tick
Spec == Init /\ [][Next]_vars

-----------------------------------------------------------------------------
(* Rows and what is shown of them *)

\* Python's truth of an amount.
Truthy(amount) == amount \notin {Null, 0}

Shown(amount) == IF Truthy(amount) THEN ToCents(amount, 1) ELSE amount

\* Price.is_egible_for_special_price and its twin of CurrentPrice.
IsEligible(row) ==
    IF row.from = Null /\ row.to = Null
    THEN WhenUndated
    ELSE (row.from # Null => row.from < now) /\ (row.to # Null => now < row.to)

\* with_eligibility_for_special_price: the same question put to the database.
EligibleInSql(row) ==
    \/ row.from # Null /\ row.to # Null /\ row.from < now /\ row.to > now
    \/ row.from # Null /\ row.from < now /\ row.to = Null
    \/ row.from = Null /\ row.to # Null /\ row.to > now
    \/ WhenUndated /\ row.from = Null /\ row.to = Null

\* Price.get_standard_price and Price.get_0_vat_standard_price.
LegacyItem(row, owner, vat0) ==
    [gross |-> Shown(IF vat0 THEN row.net ELSE row.gross),
     net |-> Shown(row.net),
     specialGross |-> IF vat0 /\ Truthy(row.specialGross)
                      THEN ToCents(row.specialNet, 1) ELSE Shown(row.specialGross),
     specialNet |-> Shown(row.specialNet),
     rate |-> IF vat0 THEN 0 ELSE row.rate,
     eligible |-> IsEligible(row),
     uid |-> owner]

\* CurrentPrice._build_price_dict.
CurrentItem(row, owner, vat0) ==
    LET special(amount) == IF Truthy(amount) THEN ToCents(amount, 1) ELSE Null
    IN  [gross |-> Shown(IF vat0 THEN row.net ELSE row.gross),
         net |-> Shown(row.net),
         specialGross |-> special(IF vat0 THEN row.specialNet ELSE row.specialGross),
         specialNet |-> special(row.specialNet),
         rate |-> IF vat0 THEN 0 ELSE row.rate,
         eligible |-> IsEligible(row),
         uid |-> owner]

-----------------------------------------------------------------------------
(* The price lists and their readers *)

Single(sku) == [sku |-> sku, parent |-> Null]
Skus == {s.sku : s \in Slot}

OwnedBy(who) == {l \in DOMAIN lists : lists[l].owner = who}
Newest(ls) == IF ls = {} THEN 0 ELSE Max(ls)

\* get_latest_pricelist: the customer's own, else anyone's; 0 is None.
Latest(who) ==
    IF who # Null /\ OwnedBy(who) # {} THEN Newest(OwnedBy(who)) ELSE Newest(OwnedBy(Null))

\* The rows of list l; none if there is no list.
RowsOf(l) ==
    IF l = 0 THEN {} ELSE {[list |-> l, slot |-> s] : s \in {t \in Slot : lists[l].price[t] # Null}}

RowAt(r) == lists[r.list].price[r.slot]
OwnerOf(r) == lists[r.list].owner

Standalone(rs) == {r \in rs : r.slot.parent = Null}

\* An empty sequence of SKUs asks for all products.
OfSkus(rs, skus) == IF skus = {} THEN rs ELSE {r \in rs : r.slot.sku \in skus}

\* get_price_for_country_and_currency: at most one row.
PriceFor(sku, who) ==
    LET found(w) == Standalone(OfSkus(RowsOf(Latest(w)), {sku}))
    IN  IF found(who) = {} /\ who # Null THEN found(Null) ELSE found(who)

\* No price is None.
LegacyAnswer(sku, who, vat0) ==
    [country |-> Country, currency |-> Currency,
     price |-> {LegacyItem(RowAt(r), OwnerOf(r), vat0) : r \in PriceFor(sku, who)}]

\* All that a list prices: products, components and, whatever their product is, sets of
\* attributes; Null is that of a set for any product.
Priced(l) ==
    IF l = 0 THEN {}
    ELSE {r.slot.sku : r \in RowsOf(l)} \cup {lists[l].extras[i].sku : i \in DOMAIN lists[l].extras}

\* get_price_qs_by_latest_pricelist.  Anyone's row is left out of what a customer is
\* shown where his list prices its product in any way; NOT IN a set with NULL is true
\* of nothing (a request that names SKUs leaves NULL out of the set).
CatalogueFor(skus, who) ==
    LET own      == Latest(who)
        shown(l) == Standalone(OfSkus(RowsOf(l), skus))
        generic  == IF skus = {} /\ Null \in Priced(own) THEN {}
                    ELSE {r \in shown(Latest(Null)) : r.slot.sku \notin Priced(own)}
    IN  IF own = 0 \/ lists[own].owner = Null THEN shown(own) ELSE generic \cup shown(own)

\* It asks for the customer of the list before it knows that there is one.
CatalogueRaises(who) == who # Null /\ Latest(who) = 0

-----------------------------------------------------------------------------
(* CurrentPrice and its readers *)

\* populate_current_prices: the latest list of each owner, slot by slot, if it has no
\* prices of attributes: it raises on one without a product (migration_service.py:104),
\* and one with a product becomes the product's own price.
Current == UNION {RowsOf(Newest(OwnedBy(who))) : who \in Customer \cup {Null}}

Of(who) == {r \in Current : OwnerOf(r) = who}

\* Seeded fault: the row for anyone is looked up first.
CurrentFor_AnyoneFirst(sku, who) ==
    LET found(w) == Standalone(OfSkus(Of(w), {sku}))
    IN  IF found(Null) = {} THEN found(who) ELSE found(Null)

\* get_current_price_for_country_and_currency.
CurrentFor(sku, who) ==
    LET found(w) == Standalone(OfSkus(Of(w), {sku}))
    IN  IF found(who) = {} THEN found(Null) ELSE found(who)

\* The amounts alone; {} when there is none.
CurrentAnswer(sku, who, vat0) == {CurrentItem(RowAt(r), OwnerOf(r), vat0) : r \in CurrentFor(sku, who)}

\* get_current_prices: components of bundles are not left out.
CurrentRows(skus, who) ==
    LET own == OfSkus(Of(who), skus)
    IN  own \cup {r \in OfSkus(Of(Null), skus) :
                    who = Null \/ r.slot.sku \notin {o.slot.sku : o \in own}}

=============================================================================
