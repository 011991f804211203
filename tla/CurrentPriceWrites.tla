-------------------------- MODULE CurrentPriceWrites --------------------------
(****************************************************************************)
(* The writers of CurrentPrice, for one product in one channel that has     *)
(* baseline auto-pricing enabled, running concurrently against one          *)
(* PostgreSQL database in READ COMMITTED mode:                              *)
(*   - edit_price, the price edit of an admin, a pricefighter, ...;         *)
(*   - an item of bulk_edit_prices that changes the special price only;     *)
(*   - flush_special_prices and delete_prices;                              *)
(*   - a purchase cost save and the baseline recalculation it triggers;     *)
(*   - the tax rate views and the Celery task that recalculates prices      *)
(*     after a rate change, re-running the baseline recalculation.          *)
(*                                                                          *)
(* A writer runs in a process (a web worker or a Celery worker).  Other     *)
(* transactions commit between its queries, so each batch of reads is a     *)
(* step of its own, which records in local[p] what it read; the last step   *)
(* of a transaction is its commit.                                          *)
(****************************************************************************)
EXTENDS PriceWriteGuard, PriceBounds

CONSTANTS
    Country,         \* the countries of the channel
    Currency,
    CostCurrency,    \* the currency of the product's purchase cost
    OtherCurrencies, \* currencies in which the channel's other products have prices
    Rates,           \* the tax rates an admin may set
    EditAmounts,     \* the amounts an edit may ask for
    SpecialAmounts,  \* the special amounts an edit may ask for
    Costs,           \* the purchase costs a supplier may send
    EditSources,     \* the writers that call edit_price
    StoredSources,   \* the labels they may ask to be stored instead of their own
    EditScopes,      \* the currency and the country an edit may be restricted to
    WebProcs,        \* processes that serve requests
    TaskProcs,       \* processes that run Celery tasks
    FromNetToGross,  \* Channel.calculate_direction
    BoundsConfig,    \* the PriceBoundsConfig row of the product, or Null
    Markup, Rounding,\* the BaselineConfig of the channel
    Policy,          \* the PriceSourcePolicy rows
    RatesRemoved,    \* whether admins delete and re-create tax rates
    MayCrash         \* whether processes may be killed

ASSUME MarketAssumption ==
    /\ CostCurrency \in Currency /\ OtherCurrencies \subseteq Currency
    /\ EditScopes \subseteq [currency : Currency \cup {Null}, country : Country \cup {Null}]
ASSUME AmountAssumption ==
    /\ Rates \subseteq Nat /\ Costs \subseteq Nat
    /\ EditAmounts \subseteq Nat /\ SpecialAmounts \subseteq Nat
    /\ Markup \in Nat /\ Rounding \in PriceRounding /\ FromNetToGross \in BOOLEAN
    /\ BoundsConfig \in BoundsRow \cup {Null}
ASSUME SourceAssumption ==
    /\ EditSources \subseteq PriceSource /\ StoredSources \subseteq PriceSource
    /\ IsPolicyMap(Policy) /\ Null \notin PriceSource
ASSUME NullIsNoName == Null \notin Country /\ Null \notin Currency

VARIABLES
    rows,      \* CurrentPrice: market -> row, or Null where there is none
    history,   \* PriceHistory: market -> its newest entry, or Null
    rate,      \* TaxRate: country -> rate, or Null where there is none
    cost,      \* the PurchaseCost of the product in the channel, or Null
    tombstone, \* whether the BaselineTombstone of the product exists
    queued,    \* countries whose recalculation task waits in the broker
    once,      \* countries whose celery_once lock is held
    pc,        \* what each process does next
    local      \* what each process has read

vars == <<rows, history, rate, cost, tombstone, queued, once, pc, local>>

-----------------------------------------------------------------------------
(* Data *)

Procs == WebProcs \cup TaskProcs
Market == Country \X Currency

FullPair == [net : Amount, gross : Amount]
SpecialPair == FullPair \cup {NoPair}

\* `taxed`: the foreign key tax_rate is set (it refers to the one TaxRate of the
\* product's tax class and the row's country).
Row == [regular : FullPair, special : SpecialPair, taxed : BOOLEAN, source : PriceSource]
Entry == [regular : FullPair, special : SpecialPair]

ASSUME NullIsNoRow == Null \notin Row
ASSUME NullIsNoEntry == Null \notin Entry

\* The arguments of a call; the ones a writer does not take are Null.
Request ==
    [source : PriceSource, stored : PriceSource \cup {Null},
     value : Amount \cup {Null}, special : Amount \cup {Null},
     currency : Currency \cup {Null}, country : Country \cup {Null}]

EditRequests ==
    {[source |-> w, stored |-> s, value |-> v, special |-> x,
      currency |-> scope.currency, country |-> scope.country] :
        w \in EditSources, s \in StoredSources \cup {Null}, v \in EditAmounts,
        x \in SpecialAmounts \cup {Null}, scope \in EditScopes}

SpecialRequest(special, currency) ==
    [source |-> "admin_edit", stored |-> Null, value |-> Null,
     special |-> special, currency |-> currency, country |-> Null]

ScopedRequest(currency) == SpecialRequest(Null, currency)

Labels ==
    { "idle", "edit_rows", "edit_commit", "special_write", "special_log",
      "flush_commit", "delete_commit", "rate_delay", "vat_rows", "vat_write",
      "vat_log", "base_read", "base_rows", "base_commit" }

\* `seen` holds rows, `sources` only their labels; `live` are the markets read
\* whose row has not been deleted since (a primary key is never used again),
\* `lost` the countries whose TaxRate, held in `rates`, was deleted since.
Local ==
    [req : Request \cup {Null},
     rates : [Country -> Rates \cup {Null}],
     floors : [Country -> Amount \cup {Null}],
     sources : [Market -> PriceSource \cup {Null}],
     seen : [Market -> Row \cup {Null}],
     live : SUBSET Market, lost : SUBSET Country,
     cost : Costs \cup {Null}, fallback : SUBSET Currency,
     scope : SUBSET Country, task : Country \cup {Null}]

Blank ==
    [req |-> Null,
     rates |-> [c \in Country |-> Null],
     floors |-> [c \in Country |-> Null],
     sources |-> [m \in Market |-> Null],
     seen |-> [m \in Market |-> Null],
     live |-> {}, lost |-> {},
     cost |-> Null, fallback |-> {}, scope |-> {}, task |-> Null]

TypeOK ==
    /\ rows \in [Market -> Row \cup {Null}]
    /\ history \in [Market -> Entry \cup {Null}]
    /\ rate \in [Country -> Rates \cup {Null}]
    /\ cost \in Costs \cup {Null}
    /\ tombstone \in BOOLEAN
    /\ queued \subseteq Country
    /\ once \subseteq Country
    /\ pc \in [Procs -> Labels]
    /\ local \in [Procs -> Local]

Init ==
    /\ rows = [m \in Market |-> Null]
    /\ history = [m \in Market |-> Null]
    /\ rate \in [Country -> Rates]
    /\ cost = Null
    /\ tombstone = FALSE
    /\ queued = {}
    /\ once = {}
    /\ pc = [p \in Procs |-> "idle"]
    /\ local = [p \in Procs |-> Blank]

-----------------------------------------------------------------------------
(* What the writers read *)

Priced == {m \in Market : rows[m] # Null}

\* The labels, or the whole rows, of the priced markets in `ms`.
SourcesIn(ms) ==
    [m \in Market |-> IF m \in ms \cap Priced THEN rows[m].source ELSE Null]
RowsIn(ms) == [m \in Market |-> IF m \in ms THEN rows[m] ELSE Null]

InCurrency(currency) == IF currency = Null THEN Market ELSE Country \X {currency}

\* bounds_for: the floors of all countries, from the cost and rates of this moment.
Floors == [c \in Country |-> Floor(BoundsConfig, cost, rate[c])]

Pair_(amount, r) == PricePair(amount, r, FromNetToGross)
OptionalPair(amount, r) == IF amount = Null THEN NoPair ELSE Pair_(amount, r)

-----------------------------------------------------------------------------
(* Steps of a process *)

Goto(p, label) == pc' = [pc EXCEPT ![p] = label]

\* Seeded fault: a task that ends early keeps its lock.
Finish_KeepsLock(p) ==
    /\ Goto(p, "idle")
    /\ once' = IF pc[p] = "vat_rows" THEN once ELSE once \ {local[p].task}
    /\ local' = [local EXCEPT ![p] = Blank]

\* The process is done; a Celery task gives back its celery_once lock, however
\* it ended.
Finish(p) ==
    /\ Goto(p, "idle")
    /\ once' = once \ {local[p].task}
    /\ local' = [local EXCEPT ![p] = Blank]

\* A new row, or the row after an update of all its columns.
NewRow(decision) ==
    [regular |-> decision.values["regular"], special |-> decision.values["special"],
     taxed |-> TRUE, source |-> decision.source]

EntryOf(row) == [regular |-> row.regular, special |-> row.special]

-----------------------------------------------------------------------------
(* edit_price *)

EditBegin(p) ==
    /\ p \in WebProcs /\ pc[p] = "idle"
    /\ \E req \in EditRequests :
        local' = [local EXCEPT ![p] = [Blank EXCEPT !.req = req, !.floors = Floors, !.rates = rate]]
    /\ Goto(p, "edit_rows")
    /\ UNCHANGED <<rows, history, rate, cost, tombstone, queued, once>>

\* The fallback currency is the one asked for, else any one the channel already
\* has a price in.
EditReadRows(p) ==
    /\ pc[p] = "edit_rows"
    /\ LET asked == local[p].req.currency
           present == OtherCurrencies \cup {m[2] : m \in Priced}
       IN  \E fallback \in SUBSET Currency :
            /\ \/ asked # Null /\ fallback = {asked}
               \/ asked = Null /\ present = {} /\ fallback = {}
               \/ asked = Null /\ \E cur \in present : fallback = {cur}
            /\ local' = [local EXCEPT ![p].sources = SourcesIn(Market), ![p].fallback = fallback]
    /\ Goto(p, "edit_commit")
    /\ UNCHANGED <<rows, history, rate, cost, tombstone, queued, once>>

\* The markets an edit addresses: without a currency, all those the country
\* already has prices in.  A country without a tax rate is passed over.
EditTargets(l) ==
    {m \in Market :
        /\ l.req.country \in {Null, m[1]}
        /\ l.rates[m[1]] # Null
        /\ LET own == {n[2] : n \in {n \in Market : n[1] = m[1] /\ l.sources[n] # Null}}
           IN  m[2] \in IF l.req.currency = Null /\ own # {} THEN own ELSE l.fallback}

EditDecision(l, m) ==
    LET r == l.rates[m[1]]
    IN  GuardPriceWrite(l.sources[m],
                        [regular |-> Pair_(l.req.value, r), special |-> OptionalPair(l.req.special, r)],
                        l.req.source, l.req.stored, l.floors[m[1]], r, Policy)

EditApplied(l) == {m \in EditTargets(l) : EditDecision(l, m).status # "skipped"}

\* update_or_create: whatever row is there by now is overwritten.
EditCommit(p) ==
    LET l == local[p]
        written == EditApplied(l)
    IN  /\ pc[p] = "edit_commit"
        /\ \A m \in written : m[1] \notin l.lost
        /\ rows' = [m \in Market |-> IF m \in written THEN NewRow(EditDecision(l, m)) ELSE rows[m]]
        /\ history' = [m \in Market |->
                        IF m \in written THEN EntryOf(NewRow(EditDecision(l, m))) ELSE history[m]]
        /\ Finish(p)
        /\ UNCHANGED <<rate, cost, tombstone, queued>>

-----------------------------------------------------------------------------
(* bulk_edit_prices, an item without a value: the special price only.  The    *)
(* rows and the bounds are prefetched; the update and the history insert are  *)
(* two transactions.                                                          *)

SpecialBegin(p) ==
    /\ p \in WebProcs /\ pc[p] = "idle"
    /\ \E special \in SpecialAmounts \cup {Null}, cur \in Currency :
        LET ms == InCurrency(cur) \cap Priced
        IN  /\ ms # {}
            /\ special # Null => \A m \in ms : rows[m].taxed
            /\ local' = [local EXCEPT ![p] = [Blank EXCEPT
                            !.req = SpecialRequest(special, cur), !.seen = RowsIn(ms), !.live = ms,
                            !.floors = Floors, !.rates = rate]]
    /\ Goto(p, "special_write")
    /\ UNCHANGED <<rows, history, rate, cost, tombstone, queued, once>>

SpecialDecision(l, m) ==
    LET r == IF l.seen[m].taxed THEN l.rates[m[1]] ELSE Null
    IN  GuardPriceWrite(l.seen[m].source, [special |-> OptionalPair(l.req.special, r)],
                        l.req.source, l.seen[m].source, l.floors[m[1]], r, Policy)

SpecialApplied(l) ==
    {m \in Market : l.seen[m] # Null /\ SpecialDecision(l, m).status # "skipped"}

SpecialWrite(p) ==
    LET l == local[p]
        written == SpecialApplied(l) \cap l.live
    IN  /\ pc[p] = "special_write"
        /\ rows' = [m \in Market |->
                        IF m \in written
                        THEN [rows[m] EXCEPT !.special = SpecialDecision(l, m).values["special"],
                                             !.source = SpecialDecision(l, m).source]
                        ELSE rows[m]]
        /\ Goto(p, "special_log")
        /\ UNCHANGED <<history, rate, cost, tombstone, queued, once, local>>

\* The entries that are stored with the tax rate of the row they were read from.
SpecialReferring(l) == {m \in SpecialApplied(l) : l.seen[m].taxed}

SpecialLog(p) ==
    LET l == local[p]
    IN  /\ pc[p] = "special_log"
        /\ \A m \in SpecialReferring(l) : m[1] \notin l.lost
        /\ history' = [m \in Market |->
                        IF m \in SpecialApplied(l)
                        THEN [regular |-> l.seen[m].regular,
                              special |-> SpecialDecision(l, m).values["special"]]
                        ELSE history[m]]
        /\ Finish(p)
        /\ UNCHANGED <<rows, rate, cost, tombstone, queued>>

-----------------------------------------------------------------------------
(* flush_special_prices and delete_prices *)

\* list(prices): both return early when there is nothing to do.
ScopedRead(p, label) ==
    /\ p \in WebProcs /\ pc[p] = "idle"
    /\ \E cur \in Currency \cup {Null} :
        LET ms == InCurrency(cur) \cap Priced
        IN  /\ ms # {}
            /\ local' = [local EXCEPT ![p] = [Blank EXCEPT
                            !.req = ScopedRequest(cur), !.seen = RowsIn(ms), !.live = ms,
                            !.rates = rate]]
    /\ Goto(p, label)
    /\ UNCHANGED <<rows, history, rate, cost, tombstone, queued, once>>

FlushRead(p) == ScopedRead(p, "flush_commit")
DeleteRead(p) == ScopedRead(p, "delete_commit")

\* The history gets the rows as they were read, before the change, with their tax
\* rates.
SeenReferring(l) == {m \in Market : l.seen[m] # Null /\ l.seen[m].taxed}

LogSeen(l) ==
    /\ \A m \in SeenReferring(l) : m[1] \notin l.lost
    /\ history' = [m \in Market |-> IF l.seen[m] # Null THEN EntryOf(l.seen[m]) ELSE history[m]]

FlushCommit(p) ==
    /\ pc[p] = "flush_commit"
    /\ rows' = [m \in Market |->
                    IF m \in local[p].live THEN [rows[m] EXCEPT !.special = NoPair] ELSE rows[m]]
    /\ LogSeen(local[p])
    /\ Finish(p)
    /\ UNCHANGED <<rate, cost, tombstone, queued>>

\* A delete of all currencies leaves a tombstone.
DeleteCommit(p) ==
    LET deleted == local[p].live
    IN  /\ pc[p] = "delete_commit"
        /\ rows' = [m \in Market |-> IF m \in deleted THEN Null ELSE rows[m]]
        /\ LogSeen(local[p])
        /\ tombstone' = (tombstone \/ local[p].req.currency = Null)
        /\ Goto(p, "idle")
        /\ local' = [q \in Procs |->
                        IF q = p THEN Blank ELSE [local[q] EXCEPT !.live = @ \ deleted]]
        /\ UNCHANGED <<rate, cost, queued, once>>

\* An admin deletes the tombstone in Django admin.
RemoveTombstone ==
    /\ tombstone
    /\ tombstone' = FALSE
    /\ UNCHANGED <<rows, history, rate, cost, queued, once, pc, local>>

-----------------------------------------------------------------------------
(* The purchase cost and the baseline recalculation *)

\* post_save of PurchaseCost schedules the recalculation on commit.
SaveCost(p) ==
    /\ p \in WebProcs /\ pc[p] = "idle"
    /\ cost' \in Costs
    /\ local' = [local EXCEPT ![p] = [Blank EXCEPT !.scope = Country]]
    /\ Goto(p, "base_read")
    /\ UNCHANGED <<rows, history, rate, tombstone, queued, once>>

\* Seeded fault: the tombstone is not consulted.
BaseRead_NoTombstone(p) ==
    /\ pc[p] = "base_read" /\ cost # Null
    /\ local' = [local EXCEPT ![p] = [Blank EXCEPT
                    !.cost = cost, !.scope = local[p].scope, !.task = local[p].task]]
    /\ Goto(p, "base_rows")
    /\ UNCHANGED <<rows, history, rate, cost, tombstone, queued, once>>

\* recalculate_baseline_bulk: the tombstone and the cost are read first ...
BaseRead(p) ==
    /\ pc[p] = "base_read"
    /\ \/ /\ tombstone \/ cost = Null
          /\ Finish(p)
       \/ /\ ~tombstone /\ cost # Null
          /\ local' = [local EXCEPT ![p] = [Blank EXCEPT
                            !.cost = cost, !.scope = local[p].scope, !.task = local[p].task]]
          /\ Goto(p, "base_rows")
          /\ UNCHANGED once
    /\ UNCHANGED <<rows, history, rate, cost, tombstone, queued>>

\* ... the rates, the bounds and the rows in the currency of the cost later.
BaseReadRows(p) ==
    LET ms == local[p].scope \X {CostCurrency}
    IN  /\ pc[p] = "base_rows"
        /\ local' = [local EXCEPT ![p].rates = rate, ![p].floors = Floors,
                                  ![p].sources = SourcesIn(ms), ![p].live = ms \cap Priced]
        /\ Goto(p, "base_commit")
        /\ UNCHANGED <<rows, history, rate, cost, tombstone, queued, once>>

BaseTargets(l) ==
    {m \in Market : m[1] \in l.scope /\ m[2] = CostCurrency /\ l.rates[m[1]] # Null}

\* Only a new row has its special price written.
BaseDecision(l, m) ==
    LET r == l.rates[m[1]]
        gross == BaselineGross(l.cost, r, Markup, Rounding)
        pair == [net |-> NetPrice(gross, r), gross |-> gross]
        values == IF l.sources[m] = Null THEN [regular |-> pair, special |-> NoPair]
                                         ELSE [regular |-> pair]
    IN  GuardPriceWrite(l.sources[m], values, "baseline", Null, l.floors[m[1]], r, Policy)

BaseApplied(l) == {m \in BaseTargets(l) : BaseDecision(l, m).status # "skipped"}
BaseCreated(l) == {m \in BaseApplied(l) : l.sources[m] = Null}

\* What the update of an existing row stores.
\* Seeded fault: all its columns.
BaseUpdated_WithSpecials(row, decision) ==
    [row EXCEPT !.regular = decision.values["regular"], !.special = NoPair,
                !.taxed = TRUE, !.source = decision.source]

BaseUpdated(row, decision) ==
    [row EXCEPT !.regular = decision.values["regular"], !.taxed = TRUE, !.source = decision.source]

\* bulk_create of the new rows, bulk_update of the others by primary key (a row
\* deleted since is not there to update).
BaseCommit(p) ==
    LET l == local[p]
    IN  /\ pc[p] = "base_commit"
        /\ BaseCreated(l) \cap Priced = {}
        /\ \A m \in BaseApplied(l) : m[1] \notin l.lost
        /\ rows' = [m \in Market |->
                IF m \in BaseCreated(l) THEN NewRow(BaseDecision(l, m))
                ELSE IF m \in BaseApplied(l) \cap l.live
                THEN BaseUpdated(rows[m], BaseDecision(l, m))
                ELSE rows[m]]
        /\ history' = [m \in Market |->
                IF m \in BaseApplied(l)
                THEN [regular |-> BaseDecision(l, m).values["regular"], special |-> NoPair]
                ELSE history[m]]
        /\ Finish(p)
        /\ UNCHANGED <<rate, cost, tombstone, queued>>

-----------------------------------------------------------------------------
(* Tax rates *)

\* update_rate saves the rate, changed or not, and then sends the recalculation task.
RateSave(p) ==
    /\ p \in WebProcs /\ pc[p] = "idle"
    /\ \E c \in Country, r \in Rates :
        /\ rate[c] # Null
        /\ rate' = [rate EXCEPT ![c] = r]
        /\ local' = [local EXCEPT ![p] = [Blank EXCEPT !.scope = {c}]]
    /\ Goto(p, "rate_delay")
    /\ UNCHANGED <<rows, history, cost, tombstone, queued, once>>

\* celery_once refuses a task while the lock is held: AlreadyQueued ends the request.
\* (Tasks of one country that wait together are the same message, and count as one.)
RateDelay(p) ==
    /\ pc[p] = "rate_delay"
    /\ queued' = queued \cup (local[p].scope \ once)
    /\ once' = once \cup local[p].scope
    /\ Goto(p, "idle")
    /\ local' = [local EXCEPT ![p] = Blank]
    /\ UNCHANGED <<rows, history, rate, cost, tombstone>>

RateCreate(c) ==
    /\ rate[c] = Null
    /\ \E r \in Rates : rate' = [rate EXCEPT ![c] = r]
    /\ UNCHANGED <<rows, history, cost, tombstone, queued, once, pc, local>>

\* The foreign keys of rows and of history entries are set to NULL; a process that
\* holds the rate will fail to store a reference to it.
RateDestroy(c) ==
    /\ RatesRemoved /\ rate[c] # Null
    /\ rate' = [rate EXCEPT ![c] = Null]
    /\ rows' = [m \in Market |->
                    IF m[1] = c /\ rows[m] # Null THEN [rows[m] EXCEPT !.taxed = FALSE] ELSE rows[m]]
    /\ local' = [p \in Procs |->
                    IF local[p].rates[c] = Null THEN local[p] ELSE [local[p] EXCEPT !.lost = @ \cup {c}]]
    /\ UNCHANGED <<history, cost, tombstone, queued, once, pc>>

\* recalculate_prices_for_tax_change
VatBegin(p) ==
    /\ p \in TaskProcs /\ pc[p] = "idle"
    /\ \E c \in queued :
        /\ queued' = queued \ {c}
        /\ \/ /\ rate[c] = Null
              /\ once' = once \ {c}
              /\ UNCHANGED <<pc, local>>
           \/ /\ rate[c] # Null
              /\ local' = [local EXCEPT ![p] = [Blank EXCEPT
                                !.rates = [Blank.rates EXCEPT ![c] = rate[c]],
                                !.scope = {c}, !.task = c]]
              /\ Goto(p, "vat_rows")
              /\ UNCHANGED once
    /\ UNCHANGED <<rows, history, rate, cost, tombstone>>

\* _recalculate_and_log: list(prices), and the bounds.
VatReadRows(p) ==
    LET ms == (local[p].scope \X Currency) \cap Priced
    IN  /\ pc[p] = "vat_rows"
        /\ \/ /\ ms = {}
              /\ Finish(p)
           \/ /\ ms # {}
              /\ local' = [local EXCEPT ![p].seen = RowsIn(ms), ![p].live = ms, ![p].floors = Floors]
              /\ Goto(p, "vat_write")
              /\ UNCHANGED once
        /\ UNCHANGED <<rows, history, rate, cost, tombstone, queued>>

\* The side the channel is not priced from is computed anew; `if cp.special...`
\* passes over a missing special price, and over one of zero.
Reconverted(pair, r) ==
    IF FromNetToGross THEN [pair EXCEPT !.gross = GrossPrice(pair.net, r)]
                      ELSE [pair EXCEPT !.net = NetPrice(pair.gross, r)]

\* Seeded fault: the special price is left as it is.
ReconvertedSpecial_Kept(pair, r) == pair

ReconvertedSpecial(pair, r) ==
    IF (IF FromNetToGross THEN pair.net ELSE pair.gross) \in {Null, 0}
    THEN pair ELSE Reconverted(pair, r)

VatDecision(l, m) ==
    LET r == l.rates[m[1]]
        row == l.seen[m]
    IN  GuardPriceWrite(row.source,
                        [regular |-> Reconverted(row.regular, r),
                         special |-> ReconvertedSpecial(row.special, r)],
                        "tax_rate_change", Null, l.floors[m[1]], r, Policy)

VatApplied(l) ==
    {m \in Market : l.seen[m] # Null /\ VatDecision(l, m).status # "skipped"}

\* bulk_update by primary key, of the amounts and the tax rate; the source stays.
VatWrite(p) ==
    LET l == local[p]
        written == VatApplied(l) \cap l.live
    IN  /\ pc[p] = "vat_write"
        /\ \A m \in written : m[1] \notin l.lost
        /\ rows' = [m \in Market |->
                IF m \in written
                THEN [rows[m] EXCEPT !.regular = VatDecision(l, m).values["regular"],
                                     !.special = VatDecision(l, m).values["special"],
                                     !.taxed = TRUE]
                ELSE rows[m]]
        /\ Goto(p, "vat_log")
        /\ UNCHANGED <<history, rate, cost, tombstone, queued, once, local>>

\* Seeded fault: the amounts are logged as they were before the guard raised them.
VatEntry_Unguarded(l, m) ==
    [regular |-> Reconverted(l.seen[m].regular, l.rates[m[1]]),
     special |-> ReconvertedSpecial(l.seen[m].special, l.rates[m[1]])]

VatEntry(l, m) ==
    LET values == VatDecision(l, m).values
    IN  [regular |-> values["regular"], special |-> values["special"]]

\* _trigger_baseline_recalc, on the countries of the recalculated rows.
\* Seeded faults: on all countries of the channel; on none.
RerunScope_Channel(l) == Country
RerunScope_None(l) == {}

RerunScope(l) == {m[1] : m \in VatApplied(l)}

\* The history insert is another transaction; the baseline recalculation follows.
VatLog(p) ==
    LET l == local[p]
    IN  /\ pc[p] = "vat_log"
        /\ \A m \in VatApplied(l) : m[1] \notin l.lost
        /\ history' = [m \in Market |-> IF m \in VatApplied(l) THEN VatEntry(l, m) ELSE history[m]]
        /\ local' = [local EXCEPT ![p] = [Blank EXCEPT !.scope = RerunScope(l), !.task = l.task]]
        /\ Goto(p, "base_read")
        /\ UNCHANGED <<rows, rate, cost, tombstone, queued, once>>

-----------------------------------------------------------------------------
(* Failures *)

\* The markets for which a commit stores a row or an entry that refers to a tax
\* rate, and those in which it inserts a row.
Referring(p) ==
    CASE pc[p] = "edit_commit" -> EditApplied(local[p])
      [] pc[p] = "special_log" -> SpecialReferring(local[p])
      [] pc[p] \in {"flush_commit", "delete_commit"} -> SeenReferring(local[p])
      [] pc[p] = "vat_write" -> VatApplied(local[p]) \cap local[p].live
      [] pc[p] = "vat_log" -> VatApplied(local[p])
      [] pc[p] = "base_commit" -> BaseApplied(local[p])
      [] OTHER -> {}

Inserting(p) == IF pc[p] = "base_commit" THEN BaseCreated(local[p]) ELSE {}

\* Seeded fault: a task that fails keeps its lock.
IntegrityError_KeepsLock(p) ==
    /\ \E m \in Referring(p) : m[1] \in local[p].lost
    /\ Goto(p, "idle")
    /\ local' = [local EXCEPT ![p] = Blank]
    /\ UNCHANGED <<rows, history, rate, cost, tombstone, queued, once>>

\* The database refuses a commit that refers to a deleted tax rate or inserts a
\* second row for a market: the transaction is rolled back and the call fails.
\* What earlier transactions of the call have stored stays: the special price
\* without its entry, the recalculated amounts without theirs and without the
\* baseline re-run.
IntegrityError(p) ==
    /\ \/ \E m \in Referring(p) : m[1] \in local[p].lost
       \/ Inserting(p) \cap Priced # {}
    /\ Finish(p)
    /\ UNCHANGED <<rows, history, rate, cost, tombstone, queued>>

\* The process is killed: an open transaction is rolled back, and the lock of its
\* task stays behind ...
Crash(p) ==
    /\ MayCrash /\ pc[p] # "idle"
    /\ Goto(p, "idle")
    /\ local' = [local EXCEPT ![p] = Blank]
    /\ UNCHANGED <<rows, history, rate, cost, tombstone, queued, once>>

\* ... until it expires, a fixed time after it was taken, also while the task still
\* waits or runs.  When that task ends, it gives back whichever lock there is then.
OnceExpires(c) ==
    /\ c \in once
    /\ once' = once \ {c}
    /\ UNCHANGED <<rows, history, rate, cost, tombstone, queued, pc, local>>

-----------------------------------------------------------------------------
(* The system *)

Edit(p) == EditBegin(p) \/ EditReadRows(p) \/ EditCommit(p)
EditSpecial(p) == SpecialBegin(p) \/ SpecialWrite(p) \/ SpecialLog(p)
Flush(p) == FlushRead(p) \/ FlushCommit(p)
Delete(p) == DeleteRead(p) \/ DeleteCommit(p)
Baseline(p) == SaveCost(p) \/ BaseRead(p) \/ BaseReadRows(p) \/ BaseCommit(p)
UpdateRate(p) == RateSave(p) \/ RateDelay(p)
RecalculateVat(p) == VatBegin(p) \/ VatReadRows(p) \/ VatWrite(p) \/ VatLog(p)

Next ==
    \/ \E p \in Procs :
        \/ Edit(p) \/ EditSpecial(p) \/ Flush(p) \/ Delete(p)
        \/ Baseline(p) \/ UpdateRate(p) \/ RecalculateVat(p)
        \/ IntegrityError(p) \/ Crash(p)
    \/ RemoveTombstone
    \/ \E c \in Country : RateCreate(c) \/ RateDestroy(c) \/ OnceExpires(c)

Spec == Init /\ [][Next]_vars

\* A call that has begun goes on, and an idle Celery worker takes a waiting task.
Continue(p) ==
    \/ EditReadRows(p) \/ EditCommit(p) \/ SpecialWrite(p) \/ SpecialLog(p)
    \/ FlushCommit(p) \/ DeleteCommit(p) \/ BaseRead(p) \/ BaseReadRows(p)
    \/ BaseCommit(p) \/ RateDelay(p) \/ VatReadRows(p) \/ VatWrite(p) \/ VatLog(p)
    \/ IntegrityError(p)

Fairness ==
    /\ \A p \in Procs : WF_vars(Continue(p))
    /\ \A p \in TaskProcs : WF_vars(VatBegin(p))

FairSpec == Spec /\ Fairness

-----------------------------------------------------------------------------
(* What must hold however the processes interleave *)

\* The minimum advertised price that is configured, or Null.
MapValue == IF BoundsConfig = Null THEN Null ELSE BoundsConfig.map_value

\* No price, regular or special, is ever below the minimum advertised price,
\* whichever writer stored it and whatever it had read before.
FloorRespected ==
    MapValue # Null =>
        \A m \in Priced :
            /\ rows[m].regular.gross >= MapValue
            /\ rows[m].special # NoPair => rows[m].special.gross >= MapValue

\* The net and gross amounts of a row are always the two sides of one conversion
\* at some rate: no interleaving of writers mixes the net amount of one write
\* with the gross amount of another.
NoTornPair ==
    \A m \in Priced :
        /\ \E r \in Rates : Coherent(rows[m].regular, r)
        /\ rows[m].special # NoPair => \E r \in Rates : Coherent(rows[m].special, r)

\* A lock of celery_once is held only while a recalculation of its country waits or
\* runs, whether or not it is the one that took it: so a rate change is never refused
\* (AlreadyQueued) when no recalculation is there, however tasks end, also with an
\* exception, and whenever locks expire.  (It does not keep two recalculations of one
\* country apart: a lock may expire under its task.)  Without killed processes.
LocksAreInUse == \A c \in once : c \in queued \/ \E p \in Procs : local[p].task = c

\* A baseline recalculation never touches the special price of a row that
\* exists when it commits, even one created while it was computing.
PromoSurvivesBaseline ==
    [][\A p \in Procs : pc[p] = "base_commit" /\ pc'[p] = "idle" =>
        \A m \in Priced : rows'[m] # Null => rows'[m].special = rows[m].special]_vars

\* A recalculation for one country, and the baseline re-run that follows it, change
\* prices of that country only, even while other countries' rates are changing.
RecalculationStaysInCountry ==
    [][\A p \in Procs : local[p].task # Null /\ pc'[p] # pc[p] =>
        \A m \in Market : m[1] # local[p].task => rows'[m] = rows[m]]_vars

\* Every recalculation that waits is taken by a worker, and every lock comes free
\* without waiting for its timeout, however the task ends (timeouts are not fair).
RecalculationCompletes ==
    \A c \in Country : (c \in queued ~> c \notin queued) /\ (c \in once ~> c \notin once)

-----------------------------------------------------------------------------
(* What the write guard promises, and holds when calls do not overlap *)

Overwritable == {"baseline"} \cup {s \in PriceSource : RecalcOverwritable(s, Policy)}

\* While calls do not overlap (price_write_guard.py:84-111): the label of a row
\* changes only as the precedence table allows: a pricefighter never takes over an
\* admin's price, nor does the baseline recalculation take over a source that is not
\* marked recalc_overwritable.  Of calls that overlap this is not true, since each
\* decides on the labels it has read.
LabelsFollowPrecedence ==
    [][\A m \in Priced :
        LET old == rows[m].source
            new == rows'[m].source
        IN  rows'[m] # Null /\ new # old =>
                /\ new = "pricefighter" => old # "admin_edit"
                /\ new = "baseline" => old \in Overwritable]_vars

\* While calls do not overlap (baseline_service.py:70-91): no baseline price appears
\* in a market while the tombstone stands.  Of calls that overlap this is not true: a
\* recalculation may look for the tombstone before a delete sets it.
TombstoneRespected ==
    [][\A m \in Market :
        tombstone /\ rows[m] = Null /\ rows'[m] # Null => rows'[m].source # "baseline"]_vars

Quiet == queued = {} /\ \A p \in Procs : pc[p] = "idle"

\* While calls do not overlap, none is killed and no rate is deleted, and nothing is
\* running or waiting: the newest history entry of every priced market has the regular
\* amounts of its row, that is, the code logs the values it writes (tasks.py:115-132,
\* price_edit_service.py:364-390, baseline_service.py:218-230).  docs/index.md:50 says
\* that a new entry has the previous values instead: of an edit, a recalculation and a
\* new baseline price that is not what the code does.
HistoryCurrent ==
    Quiet => \A m \in Priced : history[m] # Null /\ history[m].regular = rows[m].regular

\* When nothing is running or waiting, the amounts of every row that has a tax
\* rate are converted with the current rate.
RatesSettled ==
    Quiet =>
        \A m \in Priced : rows[m].taxed =>
            /\ Coherent(rows[m].regular, rate[m[1]])
            /\ rows[m].special # NoPair => Coherent(rows[m].special, rate[m[1]])

\* When nothing is running or waiting, every baseline price with a tax rate is
\* the baseline of the current cost and rate, raised to the floor.
BaselineSettled ==
    Quiet =>
        \A m \in Priced : rows[m].source = "baseline" /\ rows[m].taxed /\ ~tombstone =>
            LET gross == BaselineGross(cost, rate[m[1]], Markup, Rounding)
            IN  rows[m].regular.gross = MaxOptional(gross, Floors[m[1]])

=============================================================================
