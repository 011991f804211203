------------------------------- MODULE Migration -------------------------------
(****************************************************************************)
(* migrate_to_current_price: the prices of the newest published list of     *)
(* every sale channel become rows of CurrentPrice, batch by batch and row   *)
(* by row, without a transaction around them.  The command may be killed at *)
(* any point and run again, while imports publish lists and administrators  *)
(* edit prices.  Backfilling the history and copying the attributes are the *)
(* command's other modes.                                                   *)
(*                                                                          *)
(* A price is named by the list it comes from, and whether the write guard  *)
(* raised it to the floor.                                                  *)
(****************************************************************************)
EXTENDS Naturals, Sequences, FiniteSets, FiniteSetsExt

CONSTANTS
    SaleChannel,
    Slot,          \* country and customer tier: what a row of CurrentPrice is for
    Item,          \* what a list has prices of
    Attr,
    Catalogues,    \* what may be on sale, and where
    BatchSize,
    MaxLists, MaxRuns, MaxEdits,   \* bounds of the model
    Null

\* Prices of products, of components of bundles, and of attributes, which have no
\* product; the items whose listed price is below their floor.  No constraint keeps
\* sale channels of one channel, country and customer from sharing a slot.
Catalogue ==
    [items : SUBSET Item, components : SUBSET Item, attributeOnly : SUBSET Item,
     floored : SUBSET Item, attrs : SUBSET Attr, slotOf : [SaleChannel -> Slot]]

VARIABLES
    catalogue,
    lists,       \* price lists in the order of their creation
    current,     \* CurrentPrice: Null, or where the price comes from
    history,     \* how often each price of a list was backfilled
    attached,    \* CurrentPriceAttribute
    run,         \* the command: its mode, step and what it iterates over
    published,   \* the lists that were published when it began
    newest,      \* and the newest of each sale channel, or 0
    runs, edits

vars == <<catalogue, lists, current, history, attached, run, published, newest, runs, edits>>

Row == Slot \X Item
NoRun == [mode |-> Null, step |-> "idle", todo |-> {}, list |-> Null, left |-> {}, batch |-> {}]

Ready == {i \in DOMAIN lists : lists[i].status = "READY"}
ReadyOf(sc) == {i \in Ready : lists[i].sc = sc}
SlotOfList(i) == catalogue.slotOf[lists[i].sc]

-----------------------------------------------------------------------------
\* What goes on meanwhile: an import creates a list, fills it and publishes it;
\* an administrator edits a price.
CreateList(sc, items, attrs) ==
    /\ Len(lists) < MaxLists
    /\ lists' = Append(lists, [sc |-> sc, status |-> "IN_PROGRESS", items |-> items, attrs |-> attrs])
    /\ UNCHANGED <<current, history, attached, run, published, newest, runs, edits>>

Publish(i) ==
    /\ i \notin Ready
    /\ lists' = [lists EXCEPT ![i].status = "READY"]
    /\ UNCHANGED <<current, history, attached, run, published, newest, runs, edits>>

Edit(row) ==
    /\ edits < MaxEdits /\ current[row] # Null
    /\ edits' = edits + 1
    /\ current' = [current EXCEPT ![row] = [list |-> 0, clamped |-> FALSE]]
    /\ UNCHANGED <<lists, history, attached, run, published, newest, runs>>

-----------------------------------------------------------------------------
Modes == {"populate", "dry", "backfill", "attributes"}

\* The combinations of sale channel and currency, or the lists, or the rows.
Begin(mode) ==
    /\ run.step = "idle" /\ runs < MaxRuns
    /\ runs' = runs + 1
    /\ run' = [NoRun EXCEPT !.mode = mode, !.step = "next",
                 !.todo = CASE mode = "backfill" -> Ready
                            [] mode = "attributes" -> {row \in Row : current[row] # Null}
                            [] OTHER -> {sc \in SaleChannel : ReadyOf(sc) # {}}]
    /\ published' = Ready
    /\ newest' = [sc \in SaleChannel |-> IF ReadyOf(sc) = {} THEN 0 ELSE Max(ReadyOf(sc))]
    /\ UNCHANGED <<lists, current, history, attached, edits>>

\* Seeded fault: the first list instead of the latest.
ListToRead_First(sc) == Min(ReadyOf(sc))

ListToRead(sc) == Max(ReadyOf(sc))

\* populate_current_prices, the outer loop.
TakeChannel ==
    \E sc \in run.todo :
        /\ run.step = "next" /\ run.mode \in {"populate", "dry"}
        /\ run' = [run EXCEPT !.step = "batch", !.todo = @ \ {sc},
                              !.list = ListToRead(sc), !.left = lists[ListToRead(sc)].items]
        /\ UNCHANGED <<lists, current, history, attached, published, newest, runs, edits>>

\* Components are left out of the history.
Backfilled(i) == lists[i].items \ catalogue.components

TakeList ==
    /\ run.step = "next" /\ run.mode = "backfill" /\ run.todo # {}
    /\ LET i == Min(run.todo)
       IN  run' = [run EXCEPT !.step = "batch", !.todo = @ \ {i}, !.list = i, !.left = Backfilled(i)]
    /\ UNCHANGED <<lists, current, history, attached, published, newest, runs, edits>>

\* A full batch, or what is left.
Batches(left) ==
    {b \in SUBSET left : Cardinality(b) = BatchSize \/ (b = left /\ Cardinality(b) < BatchSize)}

TakeBatch ==
    /\ run.step = "batch"
    /\ IF run.left = {} THEN run' = [run EXCEPT !.step = "next"]
       ELSE \E b \in Batches(run.left) :
                run' = [run EXCEPT !.step = "flush", !.batch = b, !.left = @ \ b]
    /\ UNCHANGED <<lists, current, history, attached, published, newest, runs, edits>>

\* The command ends with an exception.
Raise == run' = NoRun

\* _flush_current_prices, up to the loop; a dry run leaves it out.  The SKUs are
\* read from the products, and a price of attributes has none.
Flush ==
    /\ run.step = "flush" /\ run.mode \in {"populate", "dry"}
    /\ IF run.mode = "populate" /\ run.batch \cap catalogue.attributeOnly # {}
       THEN Raise
       ELSE run' = IF run.mode = "dry" THEN [run EXCEPT !.step = "batch", !.batch = {}]
                   ELSE [run EXCEPT !.step = "write"]
    /\ UNCHANGED <<lists, current, history, attached, published, newest, runs, edits>>

\* One update_or_create; the write guard clamps and never refuses a migration.
WriteRow ==
    /\ run.step = "write"
    /\ IF run.batch = {} THEN run' = [run EXCEPT !.step = "batch"] /\ UNCHANGED current
       ELSE \E item \in run.batch :
                /\ current' = [current EXCEPT ![<<SlotOfList(run.list), item>>] =
                                   [list |-> run.list, clamped |-> item \in catalogue.floored]]
                /\ run' = [run EXCEPT !.batch = @ \ {item}]
    /\ UNCHANGED <<lists, history, attached, published, newest, runs, edits>>

\* backfill_price_history: one bulk_create, which fails as a whole.
BackfillBatch ==
    /\ run.step = "flush" /\ run.mode = "backfill"
    /\ IF run.batch \cap catalogue.attributeOnly # {}
       THEN Raise /\ UNCHANGED history
       ELSE /\ history' = [p \in DOMAIN history |->
                   IF p[1] = run.list /\ p[2] \in run.batch THEN history[p] + 1 ELSE history[p]]
            /\ run' = [run EXCEPT !.step = "batch", !.batch = {}]
    /\ UNCHANGED <<lists, current, attached, published, newest, runs, edits>>

\* The attributes in any published list of the row's market: old ones as well.
AttributesFor(row) ==
    UNION {lists[i].attrs : i \in {j \in Ready : SlotOfList(j) = row[1] /\ row[2] \in lists[j].items}}

\* migrate_price_attributes; conflicts are ignored.
AttachAttributes ==
    /\ run.step = "next" /\ run.mode = "attributes"
    /\ \E row \in run.todo :
           /\ attached' = [attached EXCEPT ![row] = @ \cup AttributesFor(row)]
           /\ run' = [run EXCEPT !.todo = @ \ {row}]
    /\ UNCHANGED <<lists, current, history, published, newest, runs, edits>>

Finish ==
    /\ run.step = "next" /\ run.todo = {}
    /\ run' = [run EXCEPT !.step = "done"]
    /\ UNCHANGED <<lists, current, history, attached, published, newest, runs, edits>>

\* The process ends, or is killed.
Exit ==
    /\ run.step # "idle"
    /\ run' = NoRun
    /\ UNCHANGED <<lists, current, history, attached, published, newest, runs, edits>>

-----------------------------------------------------------------------------
Init ==
    /\ catalogue \in Catalogues
    /\ lists = <<>>
    /\ current = [row \in Row |-> Null]
    /\ history = [p \in (1..MaxLists) \X Item |-> 0]
    /\ attached = [row \in Row |-> {}]
    /\ run = NoRun
    /\ published = {}
    /\ newest = [sc \in SaleChannel |-> 0]
    /\ runs = 0 /\ edits = 0

Next ==
    /\ UNCHANGED catalogue
    /\ \/ \E sc \in SaleChannel, items \in SUBSET catalogue.items, attrs \in SUBSET catalogue.attrs :
              CreateList(sc, items, attrs)
       \/ \E i \in DOMAIN lists : Publish(i)
       \/ \E row \in Row : Edit(row)
       \/ \E mode \in Modes : Begin(mode)
       \/ TakeChannel \/ TakeList \/ TakeBatch \/ Flush \/ WriteRow
       \/ BackfillBatch \/ AttachAttributes \/ Finish \/ Exit

Spec == Init /\ [][Next]_vars

-----------------------------------------------------------------------------
Done(mode) == run.step = "done" /\ run.mode = mode

\* The shape of the state; the history never has a component.
TypeOK ==
    /\ \A row \in Row : current[row] # Null => current[row].list \in 0..Len(lists)
    /\ \A p \in DOMAIN history : history[p] \in Nat /\ (p[2] \in catalogue.components => history[p] = 0)
    /\ run.batch \subseteq Item /\ run.left \subseteq Item
    /\ Cardinality(run.batch) <= BatchSize

\* No list has been published for the slot since the command began.
Undisturbed(slot) == \A i \in Ready : SlotOfList(i) = slot => i <= newest[lists[i].sc]

\* The newest lists there were for the slot of a sale channel: its own, and those of
\* others that share the slot.
LatestFor(sc) == {newest[other] : other \in {o \in SaleChannel : catalogue.slotOf[o] = catalogue.slotOf[sc]}}

\* "Create CurrentPrice from latest READY snapshots" (migration_service.py:32): when
\* the command has ended, whatever happened to earlier runs of it, every price of
\* the newest list there was for a sale channel when it began has its row with a price
\* of such a list, or with an edit made meanwhile; unless a list has been published
\* for the slot since.  Where sale channels share a slot, that of the one visited last
\* is there, in an order nobody has chosen.  A second run puts listed prices over the
\* edits made after the first: docs/commands.md:18 calls that "safe to re-run".
PopulatedFromLatest ==
    Done("populate") =>
        \A sc \in SaleChannel : newest[sc] # 0 /\ Undisturbed(catalogue.slotOf[sc]) =>
            \A item \in lists[newest[sc]].items :
                LET price == current[<<catalogue.slotOf[sc], item>>]
                IN  price # Null /\ price.list \in {0} \cup LatestFor(sc)

\* verify_migration, for a slot: what is missing, and what differs.
Mismatches(slot) ==
    LET there == {i \in Ready : SlotOfList(i) = slot}
    IN  IF there = {} THEN {}
        ELSE {item \in lists[Max(there)].items \ catalogue.components :
                  LET price == current[<<slot, item>>]
                  IN  price = Null \/ price.list # Max(there) \/ price.clamped}

\* What --verify-only reports after a run that nothing interfered with, of a slot
\* with lists of one sale channel: the prices that the guard raised to their floor, and
\* no others.
VerifyReportsClamps ==
    Done("populate") /\ edits = 0 =>
        \A slot \in Slot :
            /\ Undisturbed(slot)
            /\ \A i, j \in Ready : SlotOfList(i) = slot /\ SlotOfList(j) = slot => lists[i].sc = lists[j].sc
            => Mismatches(slot) \subseteq catalogue.floored

\* A backfill that has ended has every price of every list that was published when it
\* began, runs that were killed half way before it or not; and no run, killed or not,
\* has logged a price twice.  Two runs do: nothing in the history tells a price that
\* was logged before, although docs/commands.md:18 calls the command "safe to re-run".
BackfillIsWhole ==
    /\ \A p \in DOMAIN history : history[p] <= runs
    /\ Done("backfill") =>
           \A i \in published : \A item \in lists[i].items \ catalogue.components : history[<<i, item>>] > 0

\* Attributes are attached to prices of the slot they were published for.
AttributesStayInSlot ==
    \A row \in Row : \A attr \in attached[row] :
        \E i \in Ready : SlotOfList(i) = row[1] /\ row[2] \in lists[i].items /\ attr \in lists[i].attrs

=============================================================================
