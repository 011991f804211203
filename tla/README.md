# A TLA+ model of the price manager

`django_pricemanager` keeps the prices of a shop: which amounts a product is sold
for in each country and currency of a sales channel, who set them, and what they
were before. The specifications in this directory describe everything in it that
decides or writes a price, closely enough that TLC can check every order in which its
requests and background tasks may fall between each other, and that TLAPS can
prove the main results for any number of countries, currencies, rates, lists and
processes.

In the following, `pm/` stands for `src/src/django_pricemanager/`.

1. The system: components, where state lives, what is hard
2. The modules
3. What the runs show, their bounds and fairness
4. What is proved
5. Where the code differs from what it says
6. What is left out

## 1. The system

### Where state lives and who runs

State is in PostgreSQL (READ COMMITTED, no row is locked by any writer of current
prices), in Redis (Celery's broker, the `celery_once` locks, the set of SKUs to
synchronise) and in Django's cache. Code runs in web workers, one request at a
time each, and in Celery workers, one task at a time each. A request or task
reads in several queries, computes, and writes in one or more transactions;
other processes commit in between.

### The components

| Component | State | Operations | Must hold |
|---|---|---|---|
| Price arithmetic: `pm/models/tax_rate.py`, `baseline_config.py` | none | net/gross conversion, rounding of baseline prices | conversions and roundings stay close to the exact value, settle when repeated, keep the margin |
| Write guard: `pm/services/price_write_guard.py` | policy rows (read) | `guard_price_write` | nothing below the floor, precedence of sources, VAT changes always applied |
| Price bounds: `pm/services/price_bounds_service.py` | bounds rows, purchase costs (read) | `bounds_for`, `get_price_bounds_bulk` | the floor covers the advertised price and the margin |
| Price editing: `pm/services/price_edit_service.py` | `CurrentPrice`, `PriceHistory`, `BaselineTombstone` | `edit_price`, `bulk_edit_prices`, `preview_price`, `flush_special_prices`, `delete_prices` | the guard's promises survive concurrency and failing items, pairs are never mixed, history is complete |
| Baseline auto-pricing: `pm/services/baseline_service.py`, `pm/signals/baseline.py` | `CurrentPrice`, `PriceHistory` | recalculation after a cost save and after a rate change | promotions survive, deleted prices stay deleted, prices follow cost and rate |
| Tax rates: `pm/tasks.py`, `pm/api/admin/views/tax_class_views.py` | `TaxRate`, `celery_once` locks | create, update, destroy of a rate; `recalculate_prices_for_tax_change` | each accepted recalculation completes, it stays in its country, no lock outlives the country's last task |
| Supplier costs: `pm/services/supplier_cost_service.py`, `pm/signals/supplier_cost.py` | `PurchaseCost`, per-connection pending dictionary | cost upsert, callbacks after commit | every committed cost reaches the prices, no other does |
| Matrix synchronisation: `pm/signals/dispatch.py`, `handlers.py`, `killswitch.py` | pending set, debounce lock | enqueue on price change, flush task | no change is forgotten |
| Settings: `pm/models/pm_settings.py` | settings row, cache | save, cached read | a changed toggle takes effect |
| Price lists: `pm/services/pricelist_service.py`, `pm/workers.py` | `PriceList`, `Price`, and by dual write `CurrentPrice` | CSV import, generation with one thread per country | the list shown is whole and the newest, both stores agree |
| Garbage collection: `pm/services/garbage_collector.py` | `PriceList`, `Price` | deletion of old lists | never the list in use |
| Migration: `pm/services/migration_service.py` | `CurrentPrice`, `PriceHistory`, attributes | populating, backfill, verification, begun again after a kill | a run that ends has moved everything, whatever earlier runs left |
| Repository: `pm/repository/repository.py` | `Price`, `PriceList` | import and bulk upsert, journal of single changes | newer data is never replaced by older, one row for each product |
| Output: `pm/output.py`, `output_bundle.py`, `output_custom.py`, `pm/services/price_output_service.py`, `product_representation_service.py` | none (reads) | which price is shown, alone, in a bundle, with attributes | all readers agree, expired specials are not shown |
| Channels, API views, Django admin, CSV import of reference data, history retention | `Channel`, `TaxClass`, ... | requests and forms | (section 6) |

They meet in a few places. Every writer of `CurrentPrice` asks the **write guard**
about each row, giving it the label (`source`) of the row as it read it and the
floor as it computed it. A saved `PurchaseCost` triggers the **baseline
recalculation** after its commit; a supplier's cost is itself saved in a callback after
a commit. A saved `TaxRate` triggers the **VAT recalculation** task, which calls the
baseline recalculation for the countries of the rows it changed. Imports and
generation write both stores, price lists and `CurrentPrice`, and the toggle
`read_from_current` decides which of them **readers** see.

### What is hard

* Every writer decides on labels, floors, rates and tombstones that it read in
  earlier queries than the one that writes: nothing is locked in between.
* Writers of different columns of one row overlap: the special-only edit writes
  the special price, the baseline the regular price, the VAT task both, an edit
  the whole row.
* The VAT task writes prices, history and baseline prices in three transactions;
  it may die between any two, with its lock held.
* `celery_once` refuses the second recalculation of a country while the first is
  waiting *or running*, and a running one may have read the previous rate.
* Callbacks after a commit share a dictionary on the connection, and savepoints may
  take them away; a callback may itself save.
* A set, a lock with an expiry and a task that is sent once have to deliver every
  change between them, while any call to Redis or the broker may fail.
* Cache entries are deleted before the row they come from is committed, and readers
  fill them in two steps.
* Price lists are found by status and date, written batch by batch and deleted in
  several queries; which list is shown is decided anew by each reader.
* The same question ("which price, and does its special price apply?") is answered in
  several places, in Python and in SQL, with different queries.
* Arithmetic: `gross_price(net_price(x))` is not `x`, and roundings are repeated.

`PROJECT.json` lists the hazards line by line, each with the properties that
would notice it going wrong.

## 2. The modules

    PriceMath                      arithmetic
     |-- PriceBounds               the floor
     |-- PriceWriteGuard           the guard               PriceWriteGuard_proofs
     |    |                                                 |       |
     |    |   (with MCArithmetic)                           |  Arithmetic_proofs
     |    |-- CurrentPriceWrites   the writers             CurrentPriceWrites_proofs
     |    |   (and PriceBounds)
     |    `-- PriceListImport      files into both stores
     `-- PriceOutput               the readers
          |-- BundlePrice          bundles
          `-- CustomPrice          attributes

    PriceLists   lists, statuses, collector  ==implements==>  PublishedPrices
                                                           PriceLists_proofs
    CostSignals  costs to prices                           CostSignals_proofs
    MatrixSync   prices to the read model                  MatrixSync_proofs
    SettingsCache  toggles                                 Readers_proofs
    PriceUpsert  the repository      Migration  the command      BulkEdit  a batch
                                                           Stores_proofs

    MCArithmetic   PriceMath, PriceBounds, PriceWriteGuard
    MCCurrentPriceWrites
    MCLists        PriceLists, PriceListImport
    MCSignals      CostSignals, MatrixSync                 CostSignals_proofs
    MCReaders      SettingsCache, PriceOutput, BundlePrice, CustomPrice    Readers_proofs
    MCStores       PriceUpsert, Migration, BulkEdit        Stores_proofs

The modules of TLC instances have a variable `scenario`, which is chosen at the start
and never changes. It says which module, with which constants, the behaviour is
one of; the variables of the others stay as they are. A run is then one graph that
holds all those behaviours side by side, and its properties say for which
scenarios they are meant.

**PriceMath.** Amounts are natural numbers of the storage unit, rates are
naturals over `RateScale`; the code's scales (four decimals both) are instances.
`HalfEven` is what `round(x, 2)` does to a `Decimal`, and every conversion rounds
exactly where the code does and nowhere else: `baseline_gross_value` multiplies
exact decimals and rounds once. Python's context precision (28 digits) is out of
reach of the amounts a price column can hold, and is not modelled.

**PriceBounds.** `Floor` is `_bounds_dict`: the configured advertised price, the
cost raised by the minimum margin and converted to gross, or the higher of both.
`PickMostSpecific` selects among the four scopes of bounds rows.

**PriceWriteGuard.** `GuardPriceWrite` takes what the code's function takes. The
values of a write are a function whose domain is the kinds of price it writes, so
a regular-only, a special-only and a full write are different arguments, as the
dictionaries of the code are. `status` and `values` are as in `GuardDecision`.

**CurrentPriceWrites.** The core: one product in one channel that has baseline
pricing, all its markets (country and currency), and a set of processes. Its
variables are the tables (`rows`, `history`, `rate`, `cost`, `tombstone`), the
queue (`queued`) and the locks (`once`) of Celery, and for each process what it
does next (`pc`) and what it has read (`local`). A batch of reads is a step, a
commit is a step; `local[p]` is all that connects them.

| Code | Actions |
|---|---|
| `edit_price` | `EditBegin` (request, bounds, rates), `EditReadRows` (fallback currency, labels), `EditCommit` (guard, upsert and history, one transaction) |
| `bulk_edit_prices`, an item without a value | `SpecialBegin` (prefetch), `SpecialWrite`, `SpecialLog` |
| `flush_special_prices`, `delete_prices` | `FlushRead`, `FlushCommit`, `DeleteRead`, `DeleteCommit` |
| `PurchaseCost` save, `recalculate_baseline_bulk` | `SaveCost`, `BaseRead` (tombstone, cost), `BaseReadRows` (rates, bounds, labels), `BaseCommit` |
| `create_rate`, `update_rate`, `destroy_rate` | `RateCreate`, `RateSave`, `RateDelay`, `RateDestroy` |
| `recalculate_prices_for_tax_change` | `VatBegin`, `VatReadRows`, `VatWrite`, `VatLog`, then `BaseRead` ... as above |
| an admin removing a tombstone | `RemoveTombstone` |
| a constraint of the database, a killed process, a lock's timeout | `IntegrityError`, `Crash`, `OnceExpires` |

Details that matter and are easy to get wrong, and how they are represented:

* A row is updated by primary key. `local[p].live` are the rows a process has read
  that have not been deleted since: `bulk_update` of a deleted row changes nothing,
  and a row created anew in the same market is a different row, which the update
  does not touch.
* `update_or_create` of an edit looks the market up when it writes, so it
  overwrites whatever is there, labels included.
* `bulk_create` of the baseline fails as a whole when one of its markets has got a
  row meanwhile: `IntegrityError` rolls the call back.
* Deleting a tax rate sets the foreign keys of its rows to NULL (`taxed`). A process
  that holds the deleted rate (`local[p].lost`) fails when it stores a reference.
  So does one that stores a history entry with it: a flush or a delete is rolled
  back, a special-only update and a recalculation, whose rows are committed before,
  leave them without the entry, and the recalculation without its baseline re-run.
* The lock of `celery_once` has a timeout of its own (3600 s by default), counted from
  when it was taken: `OnceExpires` may free it at any moment, also while its task waits
  or runs. A second task of the country may then start, and the one that ends first
  frees whatever lock there is.
* History entries are not all alike: an edit and both recalculations log what they
  wrote, a flush and a delete log what they had read, and the baseline logs its
  regular price only.

What is simplified: one product (the writers' loops over products are independent
apart from the batch effects that BulkEdit models); bounds rows, channel and policy rows
do not change during a run (costs and rates, the other inputs of the floor, do);
queries that follow each other without a decision in between are one step;
validity dates of specials, user names and timestamps are left out. Two writers
that lock several rows in opposite orders can make PostgreSQL abort one of them; the
aborted one fails as a whole, which is the effect of the failures modelled
(`Crash`, a unique-key error), so the abort is not an action of its own.

**PriceLists.** The rows of `PriceList`, with their status and dates, and how many of
their batches are stored. Importers (`read_from_file`, one step a query) and the
threads of `generate_price_lists` write them, an administrator may change a status,
and the collector goes through sale channels and statuses (`GcStart`, `GcChoose`,
`GcSelect`, `GcDelete`), reading the ids to spare in one query and the lists to
delete in another, while writers go on: a price written to a list that is being deleted
makes the deletion fail, and a writer whose list is gone inserts it again when it saves
the status, ready and empty. Any of them may fail between two steps. `ShownAmong` is
the choice readers make. It is refined to **PublishedPrices**, in which a market has a
version that only ever becomes a later one, or is withdrawn together with a list saved
after the collector had chosen; the mapping takes the id of the list that is shown, and
`MarketsKeepPrices` is `PublishedPrices!Spec`.

**PriceListImport.** What the lists are filled with: the rows of a file, the rates read
before the first of them, completion of missing amounts, each row a step of its own
(`ImportRow`), the batches, and for each batch the dual write (labels, guard, upsert,
history, in separate steps), then the generation of another country from the list,
price by price. Edits in both countries and the steps of a VAT recalculation come in
between, and a job may be killed between any two steps. A history entry is made after
the row's commit, in a transaction of its own, and says which write of the row it
belongs to. Its `created_at` is taken then, so that entries of overlapping writers may
carry times in another order than their rows were written; the model says nothing of
that order, and neither do the properties. Each row of `CurrentPrice` carries the
writer its history entry names, which a VAT recalculation changes while the row keeps
its label. Bundles in the file (`product_parent`) are left out: they are rows of
another slot, written by the same code. Every tax class a row names is taken to be in
the database.

**CostSignals.** Database connections with their stack of savepoints. A frame holds
what was written and which callbacks were registered since its savepoint, as
`run_on_commit` does; `pending` is the dictionary on the connection. `Save` is the
`post_save` handler of `PurchaseCost`, `FlushRead` and `FlushWrite` the recalculation
after the commit, `Announce` and `Apply` the supplier's cost and its callback. Django's
part (what a rollback to a savepoint drops, that the list is emptied before callbacks
run) is marked external.

**MatrixSync.** Writers of four kinds that queue their item at different places: a
signal after the row is saved, the edit service inside its transaction, bulk writers
after theirs, and the VAT task nowhere. `Zadd`, `SetLock`, `SendTask` are the three calls of
`enqueue`, each of which may fail; the lock may expire at any moment. The flush is
`django_matrix`'s, an assumption: it frees the lock, then takes the set, then reads
the prices that are committed. That the set itself expires after 300 s without a call
is left out: a run without a flush for that long loses items by design.

**SettingsCache.** The row, one cache entry for each toggle with what is left of its
lifetime, an administrator whose save deletes the entries before (in a transaction) or
after it commits, and readers that miss, load, perhaps fail, and set. `age` is the
time since the last event that can explain an old value. A load and the set that
follows it fall within one tick of the clock.

**PriceUpsert.** The repository's calls as integrations make them: an import (sale
channel, list, fill, publish), a journal entry, a bulk refresh with and without a
time. The order of calls is that of the docstrings, since the callers are other
packages; journal entries follow one another. Its `setting`, fixed at the start, says
which kinds of caller there are, whether the product also occurs in a bundle, and
whether calls run alone or overlap.

**Migration.** Batches and rows of `populate_current_prices`, `backfill_history`,
`copy_attributes` and `--verify-only`, killed anywhere and run again, while lists are
published and prices edited. A price is named by the list it is from. Which prices are
of attributes or of components, and which were raised to the floor, is the `catalogue`,
chosen at the start, and so is the slot (channel, country and customer) of each sale
channel, which several may share: no constraint forbids it. Currencies and the age
limit of the backfill are left out.

**BulkEdit.** One batch alone: prefetch, then for each item savepoint, edit (or the
special-only write and its history entry), and what a failure at any step undoes, with
a transaction around the batch (`ATOMIC_REQUESTS`) and without, and with a policy that
rejects prices below the floor or raises them; `deployment` says which, from the start.
Rivals of a single edit are CurrentPriceWrites' matter.

**PriceOutput, BundlePrice, CustomPrice.** Operators for what readers answer, over the
lists that are published and a clock: one price and many, of the legacy store and of
`CurrentPrice`, with and without VAT, the eligibility of special prices in Python and
SQL, the sum of a bundle in whatever order the rows come, and the price with chosen
attributes, raising included. One country and currency. SKUs are equal or not, while
the new layer compares them without regard to case (`iexact`). `get_price` (which takes
whichever list is newest) and the access checks `validate_access_to_price_list` and
`validate_access_current` are left out: the first is called with its arguments in the
other order (`product_representation_service.py:83`) and lets everybody in, so nothing
could be said about who is shown a list for verified customers.

In `PROJECT.json`, `map` names the lines each definition stands for, and `mutants` the
seeded faults: operators whose comment begins with "Seeded fault", each of
which changes the code as a plausible bug would, and makes one property fail.

## 3. What the runs show

| Run | States | What it shows |
|---|---|---|
| `arithmetic` | 0.27 M | Every amount of a range: conversion is to the nearest cent and settles; roundings are idempotent and stay within a unit; a baseline price follows its cost and keeps its margin. Every way to configure bounds rows: the most specific decides, and the floor covers both its limits. Every call of the guard: nothing below the floor, no torn pair, VAT never skipped, repeated writes are fixed points, the preview predicts the save. |
| `serial` | 3.6 M | While calls do not overlap: labels follow the precedence table, the tombstone is respected, and whenever nothing is waiting the history has the amounts that are current, all amounts agree with the current rate, and baseline prices with cost, rate and floor. |
| `countries` | 1.6 M | With two countries, in a channel priced from gross amounts: rates settle, and a recalculation changes its own country only. |
| `concurrent` | 1.6 M | Two processes overlapping in all ways, each of which may be killed: types, the advertised price, whole pairs, promotions survive the baseline. |
| `rates` | 1.7 M | Rates deleted and created while others hold them: whole pairs again, with the commits and the history inserts that fail; a lock of `celery_once` is held only while a recalculation of its country waits or runs, whichever exception ends it and whenever it expires. |
| `liveness` | 56 k | An accepted recalculation is taken by a worker, and every lock comes free before its timeout, also with deleted rates. |
| `lists` | 1.3 M | Overlapping importers, an administrator and the generator, the collector apart from them, and the collector while a sale channel's lists are written, failing anywhere: a ready list is whole, the collector deletes no list that is shown, markets keep their prices and only move forward; each with the exceptions the code has (section 5). Files imported and generated while prices are edited in both countries, a rate is recalculated, or jobs die: the stores agree, every write gets its history entry, the advertised price holds. |
| `signals` | 1.04 M | Every order of saves, savepoints, releases, rollbacks and commits: no cost is starved, prices come from committed costs, costs arrive, the last one last. Every order of queueing, flushing, failing and expiring: nothing that was queued is left behind, and the read model catches up. |
| `readers` | 0.97 M | A toggle is never used for longer than a cache entry lives after it was replaced, and settles. Readers quote the same price, up to the exceptions named in the property; a bundle is the sum of its parts in any order; attributes are paid once. |
| `stores` | 3.0 M | Repository calls and journal entries keep one row and the newer data while each runs alone, and a bulk call with a time never reverts a row, overlapping or not; a migration killed anywhere and run again moves everything and logs no price twice in one run, with sale channels that have a slot of their own and that share one; a batch with any item failing keeps the floor, reports what it refused, logs and queues what it changed, and in a transaction an item in error changes nothing. |

Two runs end in a counterexample, which is what they are for: each states what
the code or its documentation says and a legal sequence of calls breaks.

| Run | Says | Behaviour |
|---|---|---|
| `lost_rate_change` | `docs/index.md:56`: changing a rate triggers the recalculation | The rate changes while the recalculation of the previous change runs; `celery_once` refuses the task and prices stay at the old rate. |
| `cost_mixed` | `pm/signals/baseline.py:50`: without a registered flush, a dictionary is orphaned | A transaction announces a cost and saves one. After the commit the callback of the announced cost saves it, finds no flush registered and replaces the dictionary of the committed transaction: its cost is never recalculated. |

`RatesSettled` holds in `serial` and fails in `lost_rate_change`; what separates the
two is only that calls overlap. `LabelsFollowPrecedence`, `TombstoneRespected`,
`HistoryCurrent` and `UpsertKeepsRows`, too, are of calls that do not overlap: an admin
edit, a delete or a journal entry that commits between the reads and the write of
another call does break them (section 5), so these runs say nothing of that order.
`BulkNeverReverts`, `FloorRespected` and `NoTornPair` hold for overlapping calls.
`CostsArePriced` holds in `signals` for transactions
that save or announce, and fails in `cost_mixed` for those that do both.

### Bounds

* `arithmetic`: amounts to 2.10 units in half cents, which passes every rounding
  boundary of a unit twice; the functions are periodic in it. Three amounts on either
  side of two floors, every label, writer and four policies for the guard.
* `serial` has one process that serves requests and tasks in turn, two
  currencies, two rates, two costs, and all the scopes of an edit. With one product
  the writers treat currencies alike but for the currency of the cost, so one
  currency with and one without it are enough.
* `countries` has a second country, because recalculations of different countries
  are different tasks with different locks.
* `concurrent` has two processes, both of which may serve requests and tasks. Every
  stale read is between one reader and the writers that commit in between, which
  one other process can do one after the other. One market suffices for what is
  said about a row. The amounts are chosen on either side of the floor, at both
  rates, so that clamping, rejection and re-clamping all occur.
* `rates` uses one web and one Celery worker; destroying and creating rates is
  another actor's, at any moment.
* `liveness` uses small values, since TLC's liveness check grows with the graph.
* `lists`: three lists, of which the collector keeps one of each status, two
  importers, two batches; one scenario has a generated country, one a customer's
  sale channel (and no administrator), both with the collector at work while nothing is
  written, and one has a single sale channel whose lists are written while it is at
  work. The collector visits a sale channel without lists last, which changes nothing
  it deletes. (The theorems are of any overlap, in all sale channels.) Files of three or
  four rows that repeat a product, lack amounts, lack a rate, name an attribute, or
  cannot be read; a batch of two and a rest; with two lists, one edit in either country
  and one rate change at any moment in a channel priced from net amounts, or, in one
  priced from gross amounts, a rate change and jobs killed at any step; with three,
  jobs killed. Importers are interchangeable.
* `signals`: up to four costs and three savepoints on one connection, three and two on
  two that overlap; two items, one of which is excluded from the matrix, two writers,
  three or four changes, three tasks, one switch of the toggle.
* `readers`: a lifetime of three ticks, two toggles, two readers, three saves; up to
  three lists with every owner, every combination of special price (also of 0) and
  dates (before, at and after now), products that are also components, prices of an
  attribute of a product and of any, three components in all orders, up to three
  attribute prices.
* `stores`: two callers and four calls; two runs of the command, three prices in batches
  of two, two lists, two sale channels in two slots or in one; batches of two items out
  of every pair, two countries with and without floor. Callers and SKUs are interchangeable.
* The history of prices is only ever written; runs of CurrentPriceWrites whose
  properties do not read it use the view `WithoutHistory`, which also leaves out what a
  process has read and will not use any more (once only the history is left to write,
  the amounts; not which entries refer to a rate). The two processes of
  `concurrent` are interchangeable.

Deadlock is checked in the runs of CurrentPriceWrites and of `arithmetic`, which have
no bound on the number of calls. The four others end when their calls, lists or saves
are used up, so it is not.

### Fairness

`FairSpec` of CurrentPriceWrites assumes that a call that has begun goes on (`WF` of
`Continue(p)`: web and Celery workers run their code to an end, with a result or an
exception), and that an idle Celery worker takes a waiting task (`WF` of
`VatBegin(p)`). Requests, cost saves, edits of rates and crashes are never assumed to
happen. `liveness` has no crashes: after one the task is lost, as the task is
acknowledged early, and nothing in the code sends it again (listed as a hazard). It has
one rate, which is deleted and created while tasks wait and run. `OnceExpires` is not
fair: locks come free because their tasks end. Weak
fairness suffices as no step of a running call is ever disabled by another process for
good: a commit that the constraints refuse takes the `IntegrityError` step instead.

`MatrixCatchesUp` assumes the same of writers that have begun and of the flush task: a
task that was sent is run. It is stated for writers that queue after their commit and
while Redis answers. `SettingsSettle` assumes that the clock ticks, that a save which
has begun ends, and that a reader which has missed goes on to load and set.

## 4. What is proved

All of it for every value of the constants that satisfies the named assumptions: 46
theorems in eight modules. What a theorem supposes beyond the assumptions of the
modules is in its `ASSUME`, under a name that is explained where it is defined.

**PriceWriteGuard_proofs**: types of the arithmetic (`ConversionType`, ...); the
floor covers the advertised price (`FloorCoversMap`); `GuardedPair`, what the
guard makes of one pair, on which all else rests; and three theorems about the
guard alone, `GuardRespectsFloor`, `VatIsMandatory`, `PreviewIsExact`.

**Arithmetic_proofs**: all that the run `arithmetic` checks, for every amount, rate,
scale, markup, bounds configuration and call: `ConversionsAreClose`,
`BaselineIsMonotonic`, `HiddenRowsAreSilent`, `GuardNeverGivesWay`,
`WritesAreRepeatable`, `PreviewIsSave`. The provers have no nonlinear division, so
`HalfEven` is first characterised without one (`Nearest`: twice the distance between
product and dividend is at most the divisor); order, nearness and idempotence of
conversions and roundings follow from products alone. The specification proved about
is that of MCArithmetic, whose inputs are any sets of naturals (`InputAssumption`).

**CurrentPriceWrites_proofs**: `TypesAreCorrect`, `FloorIsRespected` and
`PairsAreNotTorn`, for any sets of countries, currencies, rates, amounts and processes,
any policy and bounds rows, both calculation directions, with deleted rates and killed
processes, from one inductive invariant, `IInv`:

* *Rows*: every stored row is sound (its pairs are conversions at some rate and
  respect the advertised price), and a row with a tax rate has one that exists.
* *Processes*: what a process holds suffices for its next step. This is why stale
  reads do no harm here: the floors it read cover the advertised price whenever they
  were read, since rates and costs only add to it; the rows it read were sound, and
  soundness does not go stale; a rate it holds exists unless it is in `lost`, and
  the rows it may still update are in the table.

The properties alone are not inductive: that a commit stores a sound row depends on
the floors and rows read before. The proof has a lemma for what each writer stores
(`EditStores`, `SpecialStores`, `BaseStores`, `VatStores`), one for the frame of a
step (`StepOfOne`), and one for the steps of each writer.

About the recalculation task, in the same module: `LocksServeTasks`, that without killed
processes a lock of `celery_once` is held only while a recalculation of its country
waits or runs, whenever locks expire and whichever of two recalculations frees them
(it is not proved that one excludes another, since an expired lock lets a second one
in); `BaselineKeepsPromos`, that the commit of a baseline recalculation changes
no special price; and `RecalculationIsLocal`, from `ScopeInv` (a process that works
for a task has nothing but its country in its scope).

The last part of the module is what holds when calls do not overlap (`OneProcess`),
which is what `serial` and `countries` check. Each theorem supposes only what it needs:

| Theorem | Supposes besides `OneProcess` | Invariants besides `IInv` |
|---|---|---|
| `LabelsKeepPrecedence`, `TombstoneIsRespected` | `OwnLabels` | `Reading` |
| `HistoryKeepsUp` | no killed process, no deleted rate | `Reading`, `ScopeInv`, `Steady`, `LocksAreInUse`, `Logged` |
| `RatesReachPrices` | no killed process, no deleted rate, `PlainFloors` | `Reading`, `ScopeInv`, `Steady`, `LocksAreInUse`, `Converted` |
| `CostsReachPrices` | no killed process, no deleted rate, `OwnLabels`, `BaselineClamps` | `Reading`, `ScopeInv`, `Steady`, `LocksAreInUse`, `BaselinesKept` |

* `Reading`: what the process has read is still so: the labels and rows it holds are
  those stored, the cost and the tombstone those there are. `Steady` says the same of
  rates and floors. Neither is true of two processes, and that is where the hazards of
  section 5 come from.
* `LocksAreInUse`, as above, so that with one process no change of a rate is refused. A
  lock that expires only lets one more recalculation be sent.
* `Logged`, `Converted`, `BaselinesKept`: history, conversion and baseline prices are
  as they should be, or the process is at a step of the call that will make them so.
  `Logged` needs that no rate is deleted: the history entry of a row that was written
  with a rate that is gone cannot be stored (section 5).

`OwnLabels`: no edit is stored under the label of the baseline, or under a
pricefighter's that is not one. The only caller in `src/` that gives `stored_source`
gives the label of the row; what is excluded is the revert-to-baseline of an external
pricefighter (`docs/write-guard.md:16`), which stores whatever amount it asks for under
the baseline's label, tombstone or not. It is in `countries`, whose properties, and
`RatesReachPrices`, do not need `OwnLabels`. `BaselineClamps`: the policy of the
baseline does not reject prices below the floor; it does not by default, and when it
does, a baseline price deliberately stays behind. `PlainFloors`, which TLC showed to be needed: in a channel priced from net
amounts, no rate is 100 % or more and the minimum advertised price is not a fraction
of a cent (section 5).

**PriceLists_proofs**: `ListTypes`, `ReadyListsAreWhole`, `CollectorSparesShown` and
`ImplementsPublished`, the refinement, for any number of importers, sale channels and
lists, with the collector at work at any moment, in any sale channel, and failures
anywhere. The last two suppose `OneCurrency` for each sale channel (the collector counts
lists of all its currencies) and `SparesSome` (at least one ready list is spared). What
the code does not keep when collector and writers overlap is in the properties, as
narrowly as it could be stated: an empty list that a writer inserts again after the
collector has deleted it, and the deletion of a list that was saved after the collector
had chosen those that stay (`Overtaken`). The invariant:

* `Fresh`: ids and times are of the past, so that a new list is the newest.
* `Writing`: what each job has left to do, against what its list has.
* `Collecting`: what the collector has selected was saved later than its choice, or does
  not contain the newest ready list of its sale channel.
* `HasNewest`: where there are ready lists there is a newest one, which is the one
  `ShownAmong` takes.

`StoresAgreeAlways`: for any files, batches, rates, products and number of lists, and
with edits, steps of VAT recalculations or killed jobs at any moment, `CurrentPrice` has
the prices of a list that was filled to its end, unless another writer wrote the row
since, which a recalculation that had read it before also does. It rests on `ImportInv`:

* `ImportCarries`, `GenerateCarries`: what a job has still to write is the rest of its
  list, in order, and of the part before it the last price of each product is in
  `CurrentPrice`, unless somebody else has priced the product since (`Held`). That the
  label a job read is stale does no harm, since these writers overwrite any row: the
  guard answers the same whatever the label is (`WhatIsStored`).
* `Floors`: whatever is stored is at the advertised price at least, by the guard.
  `VatRuns`: so are the rows a recalculation has computed and not stored yet.
* `Truthful`: of the history entries of a row, those that are not stored yet included,
  none is of a write to come, there is at most one of each write, and the one of the
  last write says what the row says. `Told`: where no job is killed, each write has its
  entry, stored or waiting; `Logs`: entries only wait in the steps that store them.

So the history has one entry for each write of a row. It may not have them in the order
of the writes: `created_at` is taken after the row's commit, in a later transaction, and
which entry is the newest is not claimed (section 5). That it is complete is proved in
the scenario without killed jobs only: a killed one leaves rows without an entry.

**Readers_proofs**: for any toggles, processes that read them and lifetime of an entry,
`SettingsTypes` and `OldTogglesDie`. The invariant: an entry that differs from the row
has an age, since the event that explains it, that together with what is left of its
lifetime is at most `TTL`; and what a reader has loaded is the row, or was replaced
within this tick. And for any products, components, attributes, customers and price
lists, with any special prices,

* `EveryReaderQuotesTheSameAlways`: the cart and the catalogue quote the same row, but
  for three cases in which they differ, which the property names: the catalogue raises
  where there is no list for the customer; a product that the customer's own list
  prices only as a component; and a question for all products where prices of any
  product's attributes are in the list. Where no list prices attributes, the readers
  of `CurrentPrice` answer as those of the lists do, but for a special price of zero;
  what is compared with `CurrentPrice`'s answer is the `price` within the wrapped answer
  of the legacy layer, since the shapes differ (section 5). `EligibilityAgrees` is about
  the dates of a row, in Python and in SQL.
* `BundlesArePricedWhole`, from `PartsAreOf`: the parts of a bundle are of one list, it
  is that list's flag for verified customers that is asked for, and no component asked
  for is missing.

**CostSignals_proofs**: for any number of connections, pairs, costs and savepoints,

* `NoCostIsStarved`, from an invariant in three parts, one for the frames of a stack
  (`Kept`: a cost written in a frame is in the dictionary, with a flush registered in
  that frame or in one around it, which no rollback takes away without the cost), one
  that says callbacks only run when the transaction is over (`Outside`), and one that
  says what was read belongs to the callback that runs (`Reading`);
* `SignalTypes`, for which a transaction has registered one flush at most (`Single`);
* `PricesAreCommitted`, from `Apart`: a cost that is not committed is nowhere but in the
  frames of its connection;

and for one connection whose callbacks do not raise,

* `CommitsAreRecalculated`, when it saves costs or takes announced ones, not both
  (`Following`: each price is computed from its cost, or from the one that was read, or
  the flush that will read it comes next);
* `StreamArrives`, when it only takes announced ones (`Projected`: the cost is the one
  announced last as soon as the callbacks that are left have run).

With two connections, or both kinds in one transaction, the last two are false
(section 5, and the run `cost_mixed`). From these and from MatrixSync_proofs follow the
properties of the run `signals` as it states them, for MCSignals and its scenarios:
`CostsArriveInOrderAlways`, where no scenario is "mixed", and `QueueIsServedAlways`.

**MatrixSync_proofs**: for any number of items, writers and tasks,

* `MatrixTypes` and `VersionsGoForward`, from `Shape`: a version that is not committed
  is newer than the committed one and the only one of its price, so the read model is
  never ahead of the table and neither ever goes back;
* `QueueIsNeverLeft`, while Redis and the broker answer, from `LockIsBacked`: while the
  lock keeps others from sending a task, one waits or is being sent;
* `SentIsMadeUp`, where changes are queued after their commit, with calls that may
  fail: what was in the set when a task was sent is synced, or in the set with a flush
  on its way, or in the hands of one;
* `BulkReachesMatrix`, where they are and no call fails: a price that differs from its
  copy is in the set, in the hands of a flush, or about to be queued (`AllQueued`);
  this is the safety half of `MatrixCatchesUp`.

They suppose that `Null` is no version (`NullIsNoVersion`).

**Stores_proofs**: for MCStores, each of its three scenarios.

The batch, of any length, over any products and countries:

* `BatchKeepsPromisesAlways`, from `BatchInv`: the floor holds in the tables and in
  what they go back to after a failure; every earlier item has left its row, its
  history and its place in the queue, or its mark in the report; and what the item at
  hand has done so far, it has still to log, to queue or to undo.
* `ErrorsChangeNothingAlways`, an action property: in a transaction, an item that
  fails leaves prices, history and products as its savepoint has them.

The repository, for any number of callers, calls, lists and rows:

* `UpsertKeepsRowsAlways`, from `UpsertInv` in four parts. `UpsertTypes`: what a caller
  holds suffices for its next step, and no row is stored before its data was read.
  `Ids`: rows have ids of their own, which is what an update finds them by. `Alone`:
  where calls exclude each other, one caller at most is within one, and what it read
  there is still so (this is what makes the rows unique, since nothing in the
  database does). `Journal`: in the newest list, which is the one that will be shown,
  no row is older than the newest entry, or that entry's writer still has the list to do;
  a list in progress has its importer; and whatever is in an importer's list was
  stored after it read its source, so that its UPDATE leaves all of it alone.
* `BulkNeverRevertsAlways`, an action property that also covers overlapping calls: the
  condition of the UPDATE is about the row as it is then, and a row is never stored
  before its data was read.

The migration, for any lists and attribute prices, any sale channels, with slots of their
own or shared, batches of any length, and any number of runs that are killed and begun again:

* `MigrationIsWholeAlways`, from `MoveInv`: what a run has left to do is in lists that
  are ready (`Left`); the list it reads is no older than the newest its sale channel had
  when the command began (`Begun`); whatever is in the target comes from a list or from
  an edit (`Origins`); every price of the newest list of a sale channel is written, or
  still to be written, unless a newer list for its slot was published meanwhile
  (`Populating`; where sale channels share a slot, the list of any of them may have been
  written last); and every price of every list that was published when the command
  began is logged or waits to be, and no run logs a price twice (`Backfilling`).

They suppose that `Null` is no amount, no row, no time and no kind of caller, and that
batches have a size (`BatchAssumption`, `CallersAssumption`, `CataloguesAssumption`).

Assumptions of the modules: those named `...Assumption`, `NullIsNo...`. They say that
amounts and rates are natural numbers, that `Null` is none of the values it is
told apart from, and how sale channels relate; the runs evaluate them.

Only model-checked: what `get_aggregated_bundle_price` and the price of a configured
product add up (`BundleIsSumOfParts`, `ExtrasInAnyOrder`), which filter, fold and sum
sequences of rows: what they compute for every sequence takes induction over data; and
everything under fairness (`RecalculationCompletes`, `SettingsSettle`, `MatrixCatchesUp`).

## 5. Where the code differs from what it says

The two runs above are the counterexamples kept as runs. The following came up while
the code was translated, and the models behave so (what the models leave out of it is
said in section 2). Where a property would be false
because of one, it is stated for the case in which the code keeps it, and its comment
says so.

Prices and the guard
* An edit, a recalculation and a new baseline price log the values they write, not the
  previous ones (`docs/index.md:50` says "previous values"); a flush and a delete log
  what they had read. `HistoryCurrent` states what the code does.
* A history entry refers to the tax rate that was read. If that rate was deleted since,
  the insert fails: a special-only edit and a VAT recalculation have committed their rows
  by then and leave them without an entry, the latter without its baseline re-run too.
* The lock of a recalculation may expire while its task waits or runs
  (`pm/tasks.py:169`, 3600 s by default): then two of one country run together, and
  the first to end frees the lock of the other.
* `created_at` of a history entry is taken after the row has been committed
  (`pricelist_service.py:281`, `workers.py:222`, `tasks.py:117`), so of two writers
  that overlap, the newest entry may be of the older write. And a recalculation that has
  read a row writes over an import that commits before it does.
* A pricefighter or a recalculation that read the labels before an admin edit commits
  overwrites it (`docs/write-guard.md:16`); a baseline recalculation that looked for
  the tombstone before a delete commits creates the price anew
  (`baseline_tombstone.py:10`). Both only when calls overlap.
* A VAT recalculation queues nothing for the matrix; edits do not ask the kill switch.
* A VAT recalculation passes over special prices whose net amount is zero, also when
  their gross amount is not. That takes a minimum advertised price below one cent (the
  column has four decimals), to which a special price asked for as 0 is raised: its
  gross amount then stays at the old rate.
* Rates changed by CSV import or in the Django admin trigger no recalculation
  (`docs/index.md:56`), and `recalculate_prices_for_channel_change` has no caller.
* In a batch, a product that an earlier item creates has no floor; without a
  transaction the savepoints undo nothing; one request with the same SKU twice gives
  its label away.

Costs and the matrix
* Two connections may apply announced costs in the other order, and two
  recalculations of one product may both run, the one with the older cost last.
* The edit service queues the SKU before its transaction commits: the flush may read the
  old price, and nothing queues it again.
* A changed toggle takes effect when the cache entries that readers may refill in the
  meantime have expired, not at once.

Price lists and readers
* While lists are written, the collector may delete a list that became ready between its
  two queries, or the one that is being written, which its writer then inserts again,
  ready and empty: the market shows a list without prices.
* Generation takes whichever source list is found, and an import that fails after its
  first batch has changed `CurrentPrice` and not the list that is shown; an import
  that is killed leaves no history for its last batch; prices are computed with the
  rates read at the start.
* A bulk upsert and a journal entry that overlap may create two rows for a product
  (`repository.py:223` says that duplicates are prevented); a
  caller that gives no time stores an empty `updated_at`, which every later call
  overwrites.
* "Safe to re-run — uses `bulk_create` with `update_conflicts=True`" (`docs/commands.md:18`):
  the rows are written one by one with `update_or_create`. A second run overwrites
  what was edited since the first, and backfilling twice logs everything twice.
  `MigrationIsWhole` therefore claims "once in each run", and nothing of rows that were
  edited. A slot with several sale channels gets the prices of the last one visited; an
  attribute price without a product makes the migration raise.
* `product_representation_service.py:83` passes two arguments in the other order, so
  that access is always granted; a component row or an attribute price of a customer
  hides anyone's product (`NOT IN` with a NULL hides all); a special price of zero is
  shown by one layer and not by the other; where a customer has no list, the
  catalogue raises (`output.py:63`); an empty dictionary of quantities prices all
  components.
* The answers before and after `read_from_current` are called identical in shape
  (`price_output_service.py:7`, `:54`): the legacy one wraps the amounts in a dictionary
  with country and currency, the new one does not.
* The CSV import of a tax class raises where a rate is missing, and does nothing where
  the header is not the name of the class.

## 6. What is left out

* **Channel API**: each request saves or deletes one channel and its countries.
  `update_channel` saves the whole row, so of two that overlap the last one wins, and
  nothing in the code promises otherwise. The fields that writers read are constants
  here.
* **API views and Django admin**: parsing and serialisation around the services. A
  save in the Django admin writes one row without guard or history; it appears as the
  administrator who uploads lists, changes toggles and removes tombstones.
* **History retention**: one `DELETE` by age.
* **Import of reference data** (products, tax classes): row by row, without a decision
  that depends on another process.
* `services/product_representation_service_attr.py` looks attributes up by a field that
  `Price` does not have, and always raises.
* **Price bounds**: enumeration of markets for the pricefighter, which only reads.
* **Baseline**: several products in one call. Another product adds only that its
  failure undoes the whole call, which `IntegrityError` does here.
* **Tax classes**: their own create, update and delete.
* **Repository**: creation of products and plain getters.
