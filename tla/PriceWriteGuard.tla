--------------------------- MODULE PriceWriteGuard ---------------------------
(****************************************************************************)
(* guard_price_write: the single choke-point every writer of CurrentPrice   *)
(* goes through.  It answers two independent questions: may this writer     *)
(* overwrite a row with this label, and do the new amounts respect the      *)
(* price floor.                                                             *)
(*                                                                          *)
(* The values of a write are a function on the price kinds it writes (the   *)
(* regular price, the special price or both; the code's dict leaves the     *)
(* other columns out) to pairs of amounts.                                  *)
(****************************************************************************)
EXTENDS PriceMath

PriceSource ==
    { "csv_import", "api", "generation", "admin_edit", "tax_rate_change",
      "migration", "migration_backfill", "supplier_cost", "pricefighter",
      "baseline" }

Kind == {"regular", "special"}
Amount == Nat
Pair == [net : Amount \cup {Null}, gross : Amount \cup {Null}]
NoPair == [net |-> Null, gross |-> Null]
Values == UNION {[kinds -> Pair] : kinds \in SUBSET Kind}

EnforceModes == {"clamp", "reject"}
SourcePolicy == [enforce_mode : EnforceModes, recalc_overwritable : BOOLEAN]

\* load_policy_map: the policy rows, keyed by source; seeding them is optional.
IsPolicyMap(policy) ==
    DOMAIN policy \subseteq PriceSource /\ \A s \in DOMAIN policy : policy[s] \in SourcePolicy

RecalcOverwritable(source, policy) ==
    source \in DOMAIN policy /\ policy[source].recalc_overwritable

\* Seeded fault: the policy rows decide for VAT recalculations too.
EnforceMode_PolicyForVat(writer, policy) ==
    IF writer \in DOMAIN policy THEN policy[writer].enforce_mode
    ELSE IF writer = "admin_edit" THEN "reject" ELSE "clamp"

\* A VAT recalculation is mandatory: it is never rejected.
EnforceMode(writer, policy) ==
    IF writer = "tax_rate_change" THEN "clamp"
    ELSE IF writer \in DOMAIN policy THEN policy[writer].enforce_mode
    ELSE IF writer = "admin_edit" THEN "reject" ELSE "clamp"

\* Seeded faults: a pricefighter overwrites anything; only a missing or an
\* overwritable row is written.
PrecedenceAllows_NoLock(writer, existing, policy) ==
    \/ existing \in {Null, "baseline"} \/ writer # "baseline"
    \/ RecalcOverwritable(existing, policy)
PrecedenceAllows_FillOnly(writer, existing, policy) ==
    existing = Null \/ writer = existing \/ RecalcOverwritable(existing, policy)

PrecedenceAllows(writer, existing, policy) ==
    \/ existing = Null
    \/ writer = "pricefighter" /\ existing # "admin_edit"
    \/ writer = "baseline" /\ (existing = "baseline" \/ RecalcOverwritable(existing, policy))
    \/ writer \notin {"pricefighter", "baseline"}

\* Seeded fault: the special price is not held to the floor.
Violations_RegularOnly(values, floor) ==
    {k \in DOMAIN values \cap {"regular"} : values[k].gross # Null /\ values[k].gross < floor}

\* The kinds whose gross amount is below the floor.
Violations(values, floor) ==
    {k \in DOMAIN values : values[k].gross # Null /\ values[k].gross < floor}

\* Seeded faults: the net amount does not follow; only the regular price is raised.
Clamped_GrossOnly(values, floor, rate) ==
    [k \in DOMAIN values |->
        IF k \in Violations(values, floor) THEN [values[k] EXCEPT !.gross = floor] ELSE values[k]]
Clamped_RegularOnly(values, floor, rate) ==
    [k \in DOMAIN values |->
        IF k \in Violations(values, floor) /\ k = "regular"
        THEN [net |-> NetPrice(floor, rate), gross |-> floor] ELSE values[k]]

\* _clamp_pair, for every violating kind: the gross amount becomes the floor,
\* the net amount follows when a tax rate is at hand.
Clamped(values, floor, rate) ==
    [k \in DOMAIN values |->
        IF k \in Violations(values, floor)
        THEN [net   |-> IF rate = Null THEN values[k].net ELSE NetPrice(floor, rate),
              gross |-> floor]
        ELSE values[k]]

Decision(status, values, source) ==
    [status |-> status, values |-> values, source |-> source]

Skipped == Decision("skipped", <<>>, Null)

\* Seeded fault: the label is what the caller asks to be stored, even if nothing.
GuardPriceWrite_StoredOnly(existing, values, writer, stored, floor, rate, policy) ==
    IF PrecedenceAllows(writer, existing, policy)
    THEN Decision("applied", values, stored) ELSE Skipped

\* `floor` is Null when there are no bounds or the bounds have no floor.
GuardPriceWrite(existing, values, writer, stored, floor, rate, policy) ==
    LET below   == floor # Null /\ Violations(values, floor) # {}
        refused == \/ ~PrecedenceAllows(writer, existing, policy)
                   \/ below /\ EnforceMode(writer, policy) = "reject"
        label   == IF stored = Null THEN writer ELSE stored
    IN  IF refused THEN Skipped
        ELSE IF below THEN Decision("clamped", Clamped(values, floor, rate), label)
        ELSE Decision("applied", values, label)

\* preview_price: what an admin edit would store, asked without knowing the row.
PreviewDecision(values, floor, rate, policy) ==
    GuardPriceWrite(Null, values, "admin_edit", Null, floor, rate, policy)
=============================================================================
