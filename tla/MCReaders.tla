------------------------------- MODULE MCReaders -------------------------------
(****************************************************************************)
(* Instances of what only reads prices and toggles, SettingsCache,          *)
(* PriceOutput, BundlePrice and CustomPrice, small enough for TLC.  A       *)
(* behaviour is of one scenario: the settings are saved and read, or price  *)
(* lists are published and time passes; the rest stays in its first state.  *)
(****************************************************************************)
EXTENDS SettingsCache, SequencesExt, TLC

CONSTANTS
    Scenarios,
    Customer, Country, Currency, CentScale, RateScale, WhenUndated,
    Product,                              \* SKUs sold alone
    DatedList, SharedList, OwnedList,     \* the price lists of three scenarios
    kit

VARIABLES scenario, lists, now

outputVars == <<lists, now>>

(****************************** SettingsCache *******************************)
\* Signals are off when the row cannot be read, and the setting of Django that
\* read_from_current falls back to is on for some deployments.
Fallbacks == [k \in Key |-> ToString(k) = "current"]

\* Saves outside a transaction, while nothing fails.
Settled == INSTANCE SettingsCache WITH Atomic <- FALSE, MayFail <- FALSE, MaxSaves <- 2

SettingsStep ==
    \/ scenario = "saved" /\ Next
    \/ scenario = "settled" /\ Settled!Next

(******************************* PriceOutput ********************************)
\* Amounts in half-cents: gross 5 is 2.5 cents.
RowOf(gross, net, special, from, to, r) ==
    [gross |-> gross, net |-> net,
     specialGross |-> special, specialNet |-> IF special \in {Null, 0} THEN special ELSE special - 1,
     from |-> from, to |-> to, rate |-> r]

Item(sku) == [sku |-> sku, parent |-> Null]
Part(sku) == [sku |-> sku, parent |-> kit]

\* Every list with these owners, slots, rows and attribute prices.
ListsOf(owners, verified, slots, rows, extras) ==
    [owner : owners, verified : verified, price : [slots -> rows \cup {Null}], extras : extras]

\* A row with both special amounts or none of them; an amount of 0 is one of none.
Row ==
    {row \in [gross : Nat, net : Nat, specialGross : Nat \cup {Null}, specialNet : Nat \cup {Null},
              from : Nat \cup {Null}, to : Nat \cup {Null}, rate : Nat] :
        row.specialGross \in {0, Null} <=> row.specialNet \in {0, Null}}

\* Products, and components of a bundle.
SharedSlots == {Item(sku) : sku \in Product} \cup {Part(sku) : sku \in Product}

ASSUME ReadersAssumption ==
    /\ Null \notin Int \cup Customer \cup Product \cup {kit}
    /\ WhenUndated \in BOOLEAN
    /\ \A list \in DatedList : list.price \in [{Item(1)} -> Row \cup {Null}]
    /\ \A list \in SharedList :
           /\ list.owner \in Customer \cup {Null}
           /\ list.price \in [SharedSlots -> Row \cup {Null}]

Dates == {Null, 1, 2}
DatedLists == ListsOf({Null}, {FALSE}, {Item(1)},
    {RowOf(7, 5, special, from, to, 3) : special \in {Null, 0, 3}, from \in Dates, to \in Dates}, {<<>>})

\* A product at a special price of 0, the same one as a component, another product; and
\* a price of an attribute of the first product, or of any.
ReaderLists ==
    LET row(sku) == RowOf(7, 5, IF sku = 1 THEN 0 ELSE Null, Null, Null, 3)
    IN  {list \in ListsOf(Customer \cup {Null}, {FALSE}, SharedSlots, {row(1), row(2)},
                          {<<>>} \cup {<<[sku |-> sku, attrs |-> {1}, row |-> row(2)]>> : sku \in {1, Null}}) :
            \A s \in SharedSlots : list.price[s] \in {row(s.sku), Null} /\ (s = Part(2) => list.price[s] = Null)}

\* Every combination of special price and dates; lists of a customer and of anyone.
Dated == INSTANCE PriceOutput WITH
    Slot <- {Item(1)}, List <- DatedList, MaxLists <- 2, MaxTime <- 4
Shared == INSTANCE PriceOutput WITH
    Slot <- SharedSlots, List <- SharedList, MaxLists <- 3, MaxTime <- 0

Whoever == Customer \cup {Null}
Rows == UNION {Dated!RowsOf(l) : l \in DOMAIN lists}

(******************************* BundlePrice ********************************)
\* Two components may cost the same at different rates.
PromoRows ==
    {RowOf(4, 3, Null, Null, Null, 1), RowOf(4, 3, 3, 1, Null, 2), RowOf(6, 5, 2, Null, 2, 1),
     RowOf(201, 200, 200, Null, Null, 2), RowOf(5, 4, 3, 0, 3, 3)}
PlainRows == {RowOf(4, 3, Null, Null, Null, 1), RowOf(6, 5, 2, Null, Null, 2)}

ThreeParts == {Part(1), Part(2), Part(3)}
TwoParts == {Part(1), Part(2)}
PromoLists == ListsOf({Null}, {FALSE}, ThreeParts, PromoRows, {<<>>})
OwnedLists == ListsOf(Customer \cup {Null}, BOOLEAN, TwoParts, PlainRows, {<<>>})

\* Promotions that start and end; lists of a customer and of anyone.
Promo == INSTANCE BundlePrice WITH
    Slot <- ThreeParts, List <- PromoLists,
    MaxLists <- 1, MaxTime <- 4
Owned == INSTANCE BundlePrice WITH
    Slot <- TwoParts, List <- OwnedList,
    MaxLists <- 3, MaxTime <- 0

\* None, and dictionaries of quantities.
Quantities == {Null, <<>>, <<2>>, <<1, 3>>, <<2, 1, 2>>}

Requests == [quantities : Quantities, who : Whoever, verified : BOOLEAN]
PromoParts(q) == Promo!Parts(kit, q.quantities, q.who, q.verified)
OwnedParts(q) == Owned!Parts(kit, q.quantities, q.who, q.verified)

\* The snapshots a request may get, one for each order of the rows.
Snapshots(q) == {Promo!Aggregate(rows, q.quantities) : rows \in SetToSeqs(PromoParts(q))}

Distance(m, n) == IF m >= n THEN m - n ELSE n - m

(******************************* CustomPrice ********************************)
ProductRows == {RowOf(11, 10, Null, Null, Null, 3), RowOf(11, 10, 7, Null, Null, 3), RowOf(11, 10, 7, 1, Null, 3)}
ExtraRows == {RowOf(6, 5, Null, Null, Null, 3), RowOf(6, 5, 3, Null, Null, 3), RowOf(7, 6, 3, 1, Null, 3)}
Extras == [sku : {1, Null}, attrs : SUBSET {1, 2} \ {{}}, row : ExtraRows]
ConfiguredLists == ListsOf({Null}, {FALSE}, {Item(1)}, ProductRows, BoundedSeq(Extras, 3))

\* A product with up to three attribute prices.
Configured == INSTANCE CustomPrice WITH
    Slot <- {Item(1)}, List <- ConfiguredLists,
    MaxLists <- 1, MaxTime <- 0

Chosen == SUBSET {1, 2}
Extra(i) == lists[Configured!Latest(Null)].extras[i]
Ids(chosen) ==
    IF Configured!Latest(Null) = 0 THEN {}
    ELSE Configured!Allowed(Configured!Latest(Null), 1, chosen)

\* The answers in each order the database returns the rows.
Answers(chosen, vat0) ==
    UNION {Configured!CustomPrice(1, ids, vat0) : ids \in SetToSeqs(Ids(chosen))}

OutputStep ==
    \/ scenario = "dated" /\ Dated!Next
    \/ scenario = "shared" /\ Shared!Next
    \/ scenario = "promo" /\ Promo!Next
    \/ scenario = "owned" /\ Owned!Next
    \/ scenario = "configured" /\ Configured!Next

-----------------------------------------------------------------------------
MCInit == scenario \in Scenarios /\ Init /\ Dated!Init

MCNext ==
    /\ UNCHANGED scenario
    /\ \/ SettingsStep /\ UNCHANGED outputVars
       \/ OutputStep /\ UNCHANGED vars

MCSpec == MCInit /\ [][MCNext]_<<scenario, vars, outputVars>>

\* Time passes, and a request that has begun goes on, in the scenario whose
\* property needs it.
Goes(step) == scenario = "settled" /\ step /\ UNCHANGED <<scenario, outputVars>>
FairMCSpec ==
    /\ MCSpec
    /\ WF_vars(Goes(Settled!Tick))
    /\ WF_vars(Goes(Settled!Saving))
    /\ \A r \in Reader : WF_vars(Goes(Settled!Reading(r)))

-----------------------------------------------------------------------------
\* CacheSettles: the deletions and the expiry together bring every process to the
\* row's value in the end, also when save() has no transaction (pm_settings.py:25-34).
SettingsSettle == scenario = "settled" => CacheSettles

\* A special price of 0 is none.
WithoutZero(row) ==
    LET some(amount) == IF amount = 0 THEN Null ELSE amount
    IN  [row EXCEPT !.specialGross = some(@), !.specialNet = some(@)]

\* The three places that decide whether a special price applies (is_egible_...,
\* is_eligible_... and the Case of with_eligibility_for_special_price) agree on
\* every combination of dates at every moment, the boundaries included; CurrentPrice
\* and Price make the same item of a row, except that CurrentPrice has no special price
\* where Price has one of 0.
ItemsAgree ==
    \A r \in Rows :
        LET row == Dated!RowAt(r)
        IN  /\ Dated!EligibleInSql(row) <=> Dated!IsEligible(row)
            /\ \A vat0 \in BOOLEAN :
                Dated!CurrentItem(row, Dated!OwnerOf(r), vat0)
                    = Dated!LegacyItem(WithoutZero(row), Dated!OwnerOf(r), vat0)

\* The customer has a list that prices the product, but not alone.
OnlyAsPart(sku, who) ==
    LET own == Shared!Newest(Shared!OwnedBy(who))
    IN  /\ who # Null
        /\ sku \in Shared!Priced(own)
        /\ \A r \in Shared!RowsOf(own) : r.slot # Item(sku)

\* The customer has a list with attribute prices for any product.
PricesAnyProduct(who) == who # Null /\ Null \in Shared!Priced(Shared!Newest(Shared!OwnedBy(who)))

\* The cart, which asks for one product, and the catalogue, which asks for some or for
\* all, fall back from a customer's list to anyone's in different ways.  They quote the
\* same row, with three exceptions, which the code has (output.py:63, :76-80): for a
\* customer the catalogue raises when there is no list, where the cart has no price; it
\* leaves out a product that his list prices not alone, where the cart quotes anyone's;
\* and asked for all, it has none of anyone's rows if his list prices any product's
\* attributes.
CartMatchesCatalogue(who) ==
    LET all == Shared!CatalogueFor({}, who)
        one(sku) == Shared!CatalogueFor({sku}, who)
    IN  /\ \A sku \in Shared!Skus :
              /\ one(sku) = IF OnlyAsPart(sku, who) THEN {} ELSE Shared!PriceFor(sku, who)
              /\ Shared!CatalogueRaises(who) => Shared!PriceFor(sku, who) = {}
        /\ all = {r \in UNION {one(sku) : sku \in Shared!Skus} :
                      PricesAnyProduct(who) => Shared!OwnerOf(r) = who}

\* Where no list has prices of attributes, the two layers choose the same row for each
\* customer and product, one by one and in bulk, although only the legacy layer knows
\* which list is a customer's latest.  In bulk the new layer adds the components; for
\* one product it has the amounts without the country and the currency that the legacy
\* answer wraps them in (price_output_service.py:7, :54 call the two identical).
LayersAgree(who) ==
    (\A l \in DOMAIN lists : lists[l].extras = <<>>) =>
        /\ \A sku \in Shared!Skus :
              LET legacy == Shared!PriceFor(sku, who)
              IN  /\ Shared!CurrentFor(sku, who) = legacy
                  /\ (\A r \in legacy : WithoutZero(Shared!RowAt(r)) = Shared!RowAt(r)) =>
                        \A vat0 \in BOOLEAN :
                            Shared!CurrentAnswer(sku, who, vat0) = Shared!LegacyAnswer(sku, who, vat0).price
        /\ Shared!Standalone(Shared!CurrentRows({}, who)) = Shared!CatalogueFor({}, who)

\* A product has one price, wherever a customer reads it, up to the exceptions named
\* above: in the cart or in the catalogue (product_representation_service.py:42,
\* output.py:48), and before or after read_from_current is turned on, right after
\* populate_current_prices (output.py:108).
EveryReaderQuotesTheSame ==
    /\ scenario = "dated" => ItemsAgree
    /\ scenario = "shared" => \A who \in Whoever : CartMatchesCatalogue(who) /\ LayersAgree(who)

-----------------------------------------------------------------------------
\* Up to the half cent by which each part is rounded, with the eligibility that
\* get_standard_price reports for the part alone.
SumOfParts(q, total) ==
    LET item(r)    == Promo!LegacyItem(Promo!RowAt(r), Promo!OwnerOf(r), FALSE)
        payable(r) == IF item(r).eligible /\ Promo!Truthy(item(r).specialGross)
                      THEN item(r).specialGross ELSE item(r).gross
        qty(r)     == Promo!Quantity(q.quantities, r.slot.sku)
        parts      == PromoParts(q)
    IN  parts # {} =>
            2 * Distance(MapThenSumSet(LAMBDA r : qty(r) * payable(r), parts), total.finalGross)
                <= CentScale * MapThenSumSet(qty, parts)

\* A caller who tests the dates against the same moment finds the special in force.
WindowIsOpen(total) ==
    total.hasSpecial => Promo!IsEligible([from |-> total.from, to |-> total.to])

\* The badge is the discount to half a per cent, and there is one for every discount
\* of more than that.
BadgeIsHonest(total) ==
    LET off   == 100 * (total.gross - total.finalGross)
        badge == IF total.badge = Null THEN 0 ELSE total.badge
    IN  off >= 0 => 2 * Distance(badge * total.gross, off) <= total.gross

\* A ranged bundle is priced whole or not at all, and from one list; for who does not
\* say that the customer is verified, that is no list for verified customers only, also
\* where the fallback ends at another list than the customer's.
PricedWhole(q) ==
    LET parts == OwnedParts(q)
    IN  /\ parts # {} => Owned!Listed(q.quantities) \subseteq {r.slot.sku : r \in parts}
        /\ \A r, s \in parts : r.list = s.list
        /\ ~q.verified => \A r \in parts : ~lists[r.list].verified

\* The bundle costs what its components cost one by one, its badge and dates are true
\* of that sum, and all of it is the same in whatever order the rows come, as the query
\* that get_aggregated_bundle_price adds up has no ORDER BY (output_bundle.py:35-228).
BundleIsSumOfParts ==
    /\ scenario = "promo" =>
        \A q \in Requests :
            /\ \A m, n \in Snapshots(q) : m = n
            /\ \A total \in Snapshots(q) : SumOfParts(q, total) /\ WindowIsOpen(total) /\ BadgeIsHonest(total)
    /\ scenario = "owned" => \A q \in Requests : PricedWhole(q)

-----------------------------------------------------------------------------
\* The special price is not higher than the regular one, and there is one where the
\* product has one: attributes neither make nor lose it (output_custom.py:139).
SpecialIsTheProducts(answer) ==
    /\ answer.specialGross # Null =>
        answer.specialGross <= answer.gross /\ answer.specialNet <= answer.net
    /\ ~answer.raised =>
        \A r \in Configured!PriceFor(1, Null) :
            Configured!Truthy(answer.specialGross) <=> Configured!Truthy(Configured!RowAt(r).specialGross)

\* Nobody pays twice for the same set of attributes, nor for one he did not choose.
PaidOnceIfChosen(chosen) ==
    \A i, j \in Ids(chosen) :
        /\ \A attr \in Extra(i).attrs : attr \in chosen
        /\ Extra(i).attrs = Extra(j).attrs => i = j

\* A configured product costs the product and the attributes chosen, each once, with
\* a special price where the product has one; neither the sum nor whether it raises
\* depends on the order of Price.objects.filter(id__in=...) (output_custom.py:60-160).
ExtrasInAnyOrder ==
    scenario = "configured" =>
        \A chosen \in Chosen :
            /\ PaidOnceIfChosen(chosen)
            /\ \A vat0 \in BOOLEAN :
                /\ \A answer \in Answers(chosen, vat0) : SpecialIsTheProducts(answer)
                /\ \A m, n \in Answers(chosen, vat0) : m.raised = n.raised /\ (~m.raised => m = n)
===============================================================================
