------------------------------- MODULE BulkEdit -------------------------------
(****************************************************************************)
(* bulk_edit_prices: what a batch needs is read once, before its items are  *)
(* applied one after the other, each under a savepoint, and the batch goes  *)
(* on when one fails.  A savepoint is one only inside a transaction, and    *)
(* nothing here opens any: it depends on the deployment.                    *)
(*                                                                          *)
(* Amounts are named by how they compare with the floor of the countries    *)
(* that have one.  What other writers do meanwhile is in CurrentPriceWrites. *)
(****************************************************************************)
EXTENDS Naturals, Sequences, FiniteSets

CONSTANTS
    Sku, Country,
    Floored,    \* countries where prices have a floor
    MaxItems,
    Null

Asked == {"low", "high"}
Amount == Asked \cup {"floor"}
Row == [regular : Amount, special : Amount \cup {Null}, source : {"baseline", "admin_edit"}]

ASSUME BatchAssumption ==
    MaxItems \in Nat /\ Null \notin Amount /\ Null \notin Row

Item == [sku : Sku, value : Asked \cup {Null}, special : Asked \cup {Null}, tax_class : BOOLEAN]
Market == Sku \X Country

VARIABLES
    deployment,  \* whether the request runs in a transaction, and whether admin_edit
                 \* is to reject or to clamp (enforce_mode)
    product,     \* SKUs that have a product
    rows,        \* CurrentPrice: Null, or regular and special amount and label
    logged,      \* history rows of each market
    queued,      \* SKUs queued for the matrix
    items,       \* the batch
    known,       \* whether its currency is known
    batch,       \* what was read for it: products, bounds and rows
    item,        \* the number of the item at hand
    step,
    saved,       \* the state at the item's savepoint
    written,     \* markets the batch wrote, since the savepoint and before
    report       \* errors, skipped and clamped markets, the SKUs to queue

vars == <<deployment, product, rows, logged, queued, items, known, batch, item, step, saved, written, report>>

NoReport == [errors |-> {}, skipped |-> {}, clamped |-> {}, synced |-> {}]
NoBatch == [value |-> {}, bounds |-> Null, special |-> Null]

SkusOf(branch(_)) == {items[i].sku : i \in {j \in DOMAIN items : branch(items[j])}}
HasValue(it) == it.value # Null
SpecialOnly(it) == it.value = Null
This == items[item]

Begin ==
    /\ step = "idle"
    /\ items' \in UNION {[1..n -> Item] : n \in 1..MaxItems}
    /\ known' \in BOOLEAN
    /\ step' = "prefetch"
    /\ UNCHANGED <<product, rows, logged, queued, batch, item, saved, written, report>>

\* _prefetch_value_branch_context and _prefetch_special_only_context.  Bounds are
\* read for the products there are; when there are none, edit_price reads its own.
Prefetch ==
    LET skus == SkusOf(HasValue) \cap product
    IN  /\ step = "prefetch"
        /\ batch' = [value   |-> IF known THEN skus ELSE {},
                     bounds  |-> IF known /\ skus # {} THEN skus ELSE Null,
                     special |-> [m \in Market |-> IF known /\ m[1] \in SkusOf(SpecialOnly) THEN rows[m] ELSE Null]]
        /\ item' = 1
        /\ step' = "item"
        /\ UNCHANGED <<product, rows, logged, queued, items, known, saved, written, report>>

\* The savepoint, and the product of an item that names a tax class.
BeginItem ==
    /\ step = "item" /\ item <= Len(items)
    /\ saved' = [product |-> product, rows |-> rows, logged |-> logged, written |-> written]
    /\ product' = IF This.tax_class THEN product \cup {This.sku} ELSE product
    /\ step' = CASE ~known -> "fail" [] This.value # Null -> "edit" [] OTHER -> "special"
    /\ UNCHANGED <<rows, logged, queued, items, known, batch, item, written, report>>

-----------------------------------------------------------------------------
\* The write guard, for a regular and a special amount.
Below(c, amount) == c \in Floored /\ amount = "low"
Refused(c, regular, special) == deployment.rejects /\ (Below(c, regular) \/ Below(c, special))
Raised(c, amount) == IF Below(c, amount) THEN "floor" ELSE amount

\* Bounds are known to edit_price: from the batch, or read by itself.
HasBounds(sku) == batch.bounds = Null \/ sku \in batch.bounds

\* Seeded fault: nothing is queued.
Succeed_NotQueued(refused, clamped) ==
    /\ report' = [report EXCEPT !.skipped = @ \cup {<<item, c>> : c \in refused},
                                !.clamped = @ \cup {<<item, c>> : c \in clamped}]
    /\ item' = item + 1
    /\ step' = "item"

\* The item's part in the response, and its place among the SKUs to queue.
Succeed(refused, clamped) ==
    /\ report' = [report EXCEPT !.synced  = @ \cup {This.sku},
                                !.skipped = @ \cup {<<item, c>> : c \in refused},
                                !.clamped = @ \cup {<<item, c>> : c \in clamped}]
    /\ item' = item + 1
    /\ step' = "item"

\* The value branch: edit_price, in a transaction of its own.  A product that is
\* missing is created, also when every country then refuses the price.
Edit ==
    LET floor(c)  == c \in Floored /\ HasBounds(This.sku)
        refused   == {c \in Country : floor(c) /\ Refused(c, This.value, This.special)}
        applied   == Country \ refused
        stored(c, amount) == IF floor(c) THEN Raised(c, amount) ELSE amount
        markets   == {<<This.sku, c>> : c \in applied}
    IN  /\ step = "edit"
        /\ product' = product \cup {This.sku}
        /\ rows' = [m \in Market |->
               IF m \in markets
               THEN [regular |-> stored(m[2], This.value), special |-> stored(m[2], This.special),
                     source |-> "admin_edit"]
               ELSE rows[m]]
        /\ logged' = [m \in Market |-> IF m \in markets THEN logged[m] + 1 ELSE logged[m]]
        /\ written' = written \cup markets
        /\ queued' = IF applied # {} THEN queued \cup {This.sku} ELSE queued
        /\ IF applied = {} THEN step' = "fail" /\ UNCHANGED <<item, report>>
           ELSE Succeed(refused, {c \in applied : \E amount \in {This.value, This.special} :
                                      stored(c, amount) # amount})
        /\ UNCHANGED <<items, known, batch, saved>>

-----------------------------------------------------------------------------
\* The special-only branch works on the rows read for the batch.
Seen == {c \in Country : batch.special[<<This.sku, c>>] # Null}
SpecialRefused == {c \in Seen : Refused(c, Null, This.special)}
SpecialApplied == Seen \ SpecialRefused

\* bulk_update, of the special price and of the label that was read.
WriteSpecial ==
    LET markets == {<<This.sku, c>> : c \in SpecialApplied}
    IN  /\ step = "special"
        /\ rows' = [m \in Market |->
               IF m \in markets
               THEN [rows[m] EXCEPT !.special = Raised(m[2], This.special), !.source = batch.special[m].source]
               ELSE rows[m]]
        /\ written' = written \cup markets
        /\ batch' = [batch EXCEPT !.special = [m \in Market |->
               IF m \in markets THEN [@[m] EXCEPT !.special = Raised(m[2], This.special)] ELSE @[m]]]
        /\ step' = "log"
        /\ UNCHANGED <<product, logged, queued, items, known, item, saved, report>>

LogSpecial ==
    /\ step = "log"
    /\ logged' = [m \in Market |->
           IF m[1] = This.sku /\ m[2] \in SpecialApplied THEN logged[m] + 1 ELSE logged[m]]
    /\ IF SpecialApplied = {} /\ SpecialRefused # {} THEN step' = "fail" /\ UNCHANGED <<item, report>>
       ELSE Succeed(SpecialRefused, {c \in SpecialApplied : Below(c, This.special)})
    /\ UNCHANGED <<product, rows, queued, items, known, batch, saved, written>>

\* A lost connection, a constraint, anything that raises within an item.
Interrupt ==
    /\ step \in {"edit", "special", "log"}
    /\ step' = "fail"
    /\ UNCHANGED <<product, rows, logged, queued, items, known, batch, item, saved, written, report>>

\* Seeded fault: the savepoint is committed.
Restored_Never == FALSE

Restored == deployment.transaction

\* savepoint_rollback, which does nothing in autocommit, and the item's error.
Fail ==
    /\ step = "fail"
    /\ report' = [report EXCEPT !.errors = @ \cup {item}]
    /\ item' = item + 1
    /\ step' = "item"
    /\ IF Restored
       THEN /\ product' = saved.product /\ rows' = saved.rows
            /\ logged' = saved.logged /\ written' = saved.written
       ELSE UNCHANGED <<product, rows, logged, written>>
    /\ UNCHANGED <<queued, items, known, batch, saved>>

Enqueue ==
    /\ step = "item" /\ item > Len(items)
    /\ queued' = queued \cup report.synced
    /\ step' = "done"
    /\ UNCHANGED <<product, rows, logged, items, known, batch, item, saved, written, report>>

-----------------------------------------------------------------------------
Automated == [regular |-> "high", special |-> Null, source |-> "baseline"]

\* Prices of automations, of any of the products there are.
Init ==
    /\ deployment \in [transaction : BOOLEAN, rejects : BOOLEAN]
    /\ product \in SUBSET Sku
    /\ rows \in [Market -> {Null, Automated}]
    /\ \A m \in Market : rows[m] # Null => m[1] \in product
    /\ logged = [m \in Market |-> 0]
    /\ queued = {} /\ items = <<>> /\ known = TRUE
    /\ batch = NoBatch /\ item = 0 /\ step = "idle"
    /\ saved = Null /\ written = {} /\ report = NoReport

Next ==
    /\ UNCHANGED deployment
    /\ \/ Begin \/ Prefetch \/ BeginItem
       \/ Edit \/ WriteSpecial \/ LogSpecial
       \/ Interrupt \/ Fail \/ Enqueue

Spec == Init /\ [][Next]_vars

-----------------------------------------------------------------------------
Done == step = "done"

\* The shape of the state; prices belong to products, and every item that was
\* handled is either an error or was applied.
TypeOK ==
    /\ \A m \in Market : rows[m] # Null => m[1] \in product
    /\ \A m \in Market : logged[m] \in 0..MaxItems
    /\ written \subseteq Market /\ report.errors \subseteq 1..MaxItems
    /\ Done => \A i \in DOMAIN items : i \in report.errors \/ items[i].sku \in report.synced

\* The floor holds whatever else is in the batch: bounds "Applies to both
\* gross_value/net_value and special_gross_value/special_net_value" (write-guard.md:31).
\* Not for a product the batch creates along with edits of others that were there.
FloorHolds ==
    \A m \in Market :
        /\ rows[m] # Null /\ m[2] \in Floored
        /\ m[1] \in SkusOf(HasValue) => HasBounds(m[1])
        => rows[m].regular # "low" /\ rows[m].special # "low"

\* "Each SKU uses savepoint for partial success" (price_edit_service.py:507): an
\* item that is reported as an error has changed nothing, given a transaction.
ErrorChangesNothing ==
    step = "fail" /\ deployment.transaction => rows' = saved.rows /\ logged' = saved.logged /\ product' = saved.product

\* The rejected and clamped countries "must not vanish from the bulk response"
\* (price_edit_service.py:602): once the batch has ended, a market of an item that
\* is not an error, and that no later item edits again, has the prices that were
\* asked for, or is reported.  A special-only item is about the rows there were when
\* the batch was read.
NothingVanishes ==
    Done =>
        \A i \in DOMAIN items \ report.errors : \A c \in Country :
            LET it == items[i]
                row == rows[<<it.sku, c>>]
            IN  \/ \E j \in DOMAIN items : j > i /\ items[j].sku = it.sku
                \/ <<i, c>> \in report.skipped \cup report.clamped
                \/ it.value = Null /\ batch.special[<<it.sku, c>>] = Null
                \/ row # Null /\ it.value \in {Null, row.regular} /\ row.special = it.special

\* What the batch changed is in the history and is queued for the matrix, given a
\* transaction.
ChangedIsLoggedAndQueued ==
    Done /\ deployment.transaction => \A m \in written : logged[m] > 0 /\ m[1] \in queued

=============================================================================
