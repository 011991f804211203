----------------------------- MODULE Stores_proofs -----------------------------
(****************************************************************************)
(* The bulk writers for any SKUs, countries, callers and lengths: what a    *)
(* batch of edits promises, whatever fails within it, and what the          *)
(* repository promises its callers, in whatever order they call.            *)
(****************************************************************************)
EXTENDS MCStores, Integers, FiniteSetTheorems, WellFoundedInduction, TLAPS

-----------------------------------------------------------------------------
(* The inductive invariant of a batch *)

Before == {"idle", "prefetch"}
Working == {"edit", "special", "log", "fail"}

Report ==
    [errors : SUBSET Nat, skipped : SUBSET (Nat \X Country), clamped : SUBSET (Nat \X Country),
     synced : SUBSET Sku]
Tables ==
    [product : SUBSET Sku, rows : [Market -> Row \cup {Null}], logged : [Market -> Nat],
     written : SUBSET Market]
ReadRows ==
    [value : SUBSET Sku, bounds : (SUBSET Sku) \cup {Null}, special : [Market -> Row \cup {Null}]]
Now == [product |-> product, rows |-> rows, logged |-> logged, written |-> written]

Types ==
    /\ deployment \in [transaction : BOOLEAN, rejects : BOOLEAN] /\ known \in BOOLEAN
    /\ Now \in Tables /\ queued \in SUBSET Sku /\ report \in Report
    /\ items \in Seq(Item) /\ Len(items) <= MaxItems
    /\ step \in Before \cup Working \cup {"item", "done"}

\* Which item is at hand; nothing has happened before the batch was read.
Place ==
    /\ step \in Before => item = 0 /\ report = NoReport /\ batch = NoBatch /\ written = {}
    /\ step \notin Before => item \in 1 .. Len(items) + 1
    /\ step \in Working => item <= Len(items)
    /\ step = "done" => item = Len(items) + 1
    /\ \A i \in report.errors : 1 <= i /\ i < item

\* Every item logs a market once.
Counted(ts) == \A m \in Market : ts.logged[m] <= IF item = 0 THEN 0 ELSE item - 1

\* Prices belong to products, keep the floor, and those read for the batch are there.
Bounded(m) == m[2] \in Floored /\ (m[1] \in SkusOf(HasValue) => HasBounds(m[1]))
NotLow(row) == row.regular # "low" /\ row.special # "low"
KeepsFloor(ts) == \A m \in Market : ts.rows[m] # Null /\ Bounded(m) => NotLow(ts.rows[m])
Owned(ts) == \A m \in Market : ts.rows[m] # Null => m[1] \in ts.product
Read(ts) == step \notin Before => \A m \in Market : batch.special[m] # Null => ts.rows[m] # Null
Good(ts) == Counted(ts) /\ KeepsFloor(ts) /\ Owned(ts) /\ Read(ts)

\* What was read is rows, at first those of automations.
Reading ==
    /\ step \in Before => \A m \in Market : rows[m] \in {Null, Automated}
    /\ step \notin Before => batch \in ReadRows

\* The state at the savepoint differs from the present one in the item's product only,
\* and in what its step has done so far.
AtSavepoint ==
    step \in Working =>
        /\ saved \in Tables /\ Good(saved)
        /\ \A m \in Market : m[1] # This.sku => rows[m] = saved.rows[m]
        /\ step # "fail" => logged = saved.logged
        /\ step \in {"edit", "special"} => rows = saved.rows /\ written = saved.written
        /\ step = "edit" => This.value # Null
        /\ step \in {"special", "log"} => This.value = Null
        /\ step = "log" =>
            /\ written = saved.written \cup {<<This.sku, c>> : c \in SpecialApplied}
            /\ \A c \in SpecialApplied : rows[<<This.sku, c>>].special = Raised(c, This.special)

\* An item that is no error has its place in the queue, and keeps NothingVanishes.
Answered(i, c) ==
    LET it == items[i]
        row == rows[<<it.sku, c>>]
    IN  \/ \E j \in DOMAIN items : j > i /\ items[j].sku = it.sku
        \/ <<i, c>> \in report.skipped \cup report.clamped
        \/ it.value = Null /\ batch.special[<<it.sku, c>>] = Null
        \/ row # Null /\ it.value \in {Null, row.regular} /\ row.special = it.special
Handled ==
    \A i \in DOMAIN items : i < item /\ i \notin report.errors =>
        items[i].sku \in report.synced /\ \A c \in Country : Answered(i, c)

\* What is in the tables to stay is in the history, and will be in the queue.
Followed(ts) == \A m \in ts.written : ts.logged[m] > 0 /\ m[1] \in queued \cup report.synced
ToStay ==
    deployment.transaction =>
        /\ step \in Working => Followed(saved)
        /\ step \notin Working => Followed(Now)
        /\ step = "done" => report.synced \subseteq queued

BatchInv == Types /\ Place /\ Good(Now) /\ Reading /\ AtSavepoint /\ Handled /\ ToStay

LEMMA AutomatedRow == Automated \in Row /\ NotLow(Automated)
  BY BatchAssumption DEF Automated, Row, Amount, Asked, NotLow

\* An item's amounts, and what the guard makes of them.
LEMMA RaisedIs ==
    ASSUME NEW c \in Country, NEW amount \in Asked \cup {Null}
    PROVE  /\ Raised(c, amount) \in Amount \cup {Null}
           /\ amount # Null => Raised(c, amount) \in Amount
           /\ c \in Floored => Raised(c, amount) # "low"
           /\ Raised(c, amount) # amount => Below(c, amount)
  BY BatchAssumption DEF Raised, Below, Amount, Asked

LEMMA BatchInitially == Init => BatchInv
<1> SUFFICES ASSUME Init PROVE BatchInv
    OBVIOUS
<1>1. rows \in [Market -> Row \cup {Null}] /\ \A m \in Market : rows[m] \in {Null, Automated}
    BY AutomatedRow DEF Init
<1>2. items = <<>> /\ items \in Seq(Item) /\ Len(items) = 0
    BY DEF Init
<1>3. Types
    BY <1>1, <1>2, BatchAssumption DEF Init, Types, Now, Tables, NoReport, Report, Before
<1>4. Place
    BY DEF Init, Place, Before, Working, NoReport
<1>5. Good(Now)
    BY <1>1, AutomatedRow DEF Init, Good, Counted, KeepsFloor, Owned, Read, Now, Before
<1>6. Reading /\ AtSavepoint /\ ToStay
    BY <1>1 DEF Init, Reading, AtSavepoint, ToStay, Followed, Now, Before, Working
<1>7. Handled
    BY <1>2 DEF Handled
<1> QED
    BY <1>3, <1>4, <1>5, <1>6, <1>7 DEF BatchInv

LEMMA BatchBegins == ASSUME BatchInv, UNCHANGED deployment, Begin PROVE BatchInv'
<1>1. /\ step = "idle" /\ step' = "prefetch" /\ known' \in BOOLEAN
      /\ UNCHANGED <<deployment, product, rows, logged, queued, batch, item, saved, written, report>>
    BY DEF Begin
<1>2. items' \in Seq(Item) /\ Len(items') <= MaxItems
    <2>1. PICK n \in 1 .. MaxItems : items' \in [1 .. n -> Item]
        BY DEF Begin
    <2> QED
        BY <2>1, BatchAssumption
<1>3. Types' /\ Place'
    BY <1>1, <1>2 DEF BatchInv, Types, Place, Now, Tables, Before, Working
<1>4. Good(Now)'
    BY <1>1, AutomatedRow DEF BatchInv, Good, Counted, KeepsFloor, Owned, Read, Reading, Now, Before
<1>5. Reading' /\ AtSavepoint' /\ ToStay'
    BY <1>1 DEF BatchInv, Reading, AtSavepoint, ToStay, Followed, Place, Now, Before, Working
<1>6. Handled'
    <2>1. item' = 0 /\ DOMAIN items' \subseteq Nat
        BY <1>1, <1>2 DEF BatchInv, Place, Before
    <2>2. \A i \in DOMAIN items' : i \in 1 .. Len(items') /\ ~(i < item')
        BY <1>2, <2>1
    <2> QED
        BY <2>2 DEF Handled
<1> QED
    BY <1>3, <1>4, <1>5, <1>6 DEF BatchInv

LEMMA BatchIsRead == ASSUME BatchInv, UNCHANGED deployment, Prefetch PROVE BatchInv'
<1>1. /\ step = "prefetch" /\ step' = "item" /\ item' = 1
      /\ UNCHANGED <<deployment, product, rows, logged, queued, items, known, saved, written, report>>
    BY DEF Prefetch
<1>2. /\ rows \in [Market -> Row \cup {Null}] /\ item = 0 /\ report = NoReport /\ written = {}
      /\ items \in Seq(Item) /\ \A m \in Market : rows[m] \in {Null, Automated}
    BY <1>1 DEF BatchInv, Types, Now, Tables, Place, Reading, Before
<1>3. batch'.special = [m \in Market |-> IF known /\ m[1] \in SkusOf(SpecialOnly) THEN rows[m] ELSE Null]
    BY DEF Prefetch
<1>4. /\ batch' \in ReadRows
      /\ \A m \in Market : batch'.special[m] # Null => rows[m] # Null
    <2> DEFINE skus == SkusOf(HasValue) \cap product
               read == [m \in Market |-> IF known /\ m[1] \in SkusOf(SpecialOnly) THEN rows[m] ELSE Null]
    <2>1. read \in [Market -> Row \cup {Null}]
        BY <1>2
    <2>2. skus \in SUBSET Sku
        BY DEF BatchInv, Types, Now, Tables
    <2>3. batch' = [value |-> IF known THEN skus ELSE {},
                    bounds |-> IF known /\ skus # {} THEN skus ELSE Null, special |-> read]
        BY DEF Prefetch
    <2> HIDE DEF read, skus
    <2> DEFINE sets == SUBSET Sku
    <2>4. skus \in sets /\ {} \in sets
        BY <2>2
    <2> HIDE DEF sets
    <2>5. batch'.value \in sets /\ batch'.bounds \in sets \cup {Null}
        BY <2>3, <2>4
    <2>6. batch' \in [value : sets, bounds : sets \cup {Null}, special : [Market -> Row \cup {Null}]]
        BY <2>1, <2>3, <2>5
    <2>7. batch' \in ReadRows
        BY <2>6, Zenon DEF ReadRows, sets
    <2> QED
        BY <1>2, <1>3, <2>7
<1>5. Types'
    BY <1>1 DEF BatchInv, Types, Now, Tables
<1>6. Place'
    BY <1>1, <1>2 DEF Place, Before, Working, NoReport
<1>7. Good(Now)'
    <2>1. Counted(Now)'
        BY <1>1, <1>2 DEF BatchInv, Good, Counted, Now
    <2>2. KeepsFloor(Now)' /\ Owned(Now)' /\ Read(Now)'
        BY <1>1, <1>2, <1>4, AutomatedRow DEF BatchInv, Good, KeepsFloor, Owned, Read, Now
    <2> QED
        BY <2>1, <2>2 DEF Good
<1>8. Reading' /\ AtSavepoint' /\ ToStay'
    BY <1>1, <1>2, <1>4 DEF BatchInv, Reading, AtSavepoint, ToStay, Followed, Now, Before, Working
<1>9. Handled'
    <2>1. \A i \in DOMAIN items' : ~(i < item')
        BY <1>1, <1>2
    <2> QED
        BY <2>1 DEF Handled
<1> QED
    BY <1>5, <1>6, <1>7, <1>8, <1>9 DEF BatchInv


\* Within the batch, nothing that is read for it or given by it changes but the rows
\* that were read, which stay rows.
LEMMA BoundsStay ==
    ASSUME NEW m, UNCHANGED items, batch'.bounds = batch.bounds
    PROVE  Bounded(m)' = Bounded(m)
  BY DEF Bounded, HasBounds, SkusOf, HasValue

LEMMA ThisIsItem ==
    ASSUME BatchInv, step \in Working \cup {"item"}, item <= Len(items)
    PROVE  /\ item \in DOMAIN items /\ item \in Nat /\ This = items[item] /\ This \in Item
           /\ This.sku \in Sku /\ This.value \in Asked \cup {Null} /\ This.special \in Asked \cup {Null}
<1>1. item \in 1 .. Len(items) /\ items \in Seq(Item)
    BY DEF BatchInv, Types, Place, Before, Working
<1>2. item \in DOMAIN items /\ item \in Nat /\ items[item] \in Item
    BY <1>1
<1> QED
    BY <1>2 DEF This, Item

LEMMA ItemBegins == ASSUME BatchInv, UNCHANGED deployment, BeginItem PROVE BatchInv'
<1>1. /\ step = "item" /\ item <= Len(items) /\ saved' = Now
      /\ UNCHANGED <<deployment, rows, logged, queued, items, known, batch, item, written, report>>
      /\ product' = IF This.tax_class THEN product \cup {This.sku} ELSE product
      /\ step' \in {"edit", "special", "fail"}
      /\ step' = "edit" => This.value # Null
      /\ step' = "special" => This.value = Null
    BY DEF BeginItem, Now
<1>2. This.sku \in Sku /\ This' = This
    BY <1>1, ThisIsItem DEF This
<1>3. Now \in Tables /\ product' \in SUBSET Sku /\ product \subseteq product'
    BY <1>1, <1>2 DEF BatchInv, Types, Now, Tables
<1>4. Types'
    BY <1>1, <1>3 DEF BatchInv, Types, Now, Tables, Working
<1>5. Place'
    BY <1>1 DEF BatchInv, Place, Before, Working
<1>6. \A m \in Market : Bounded(m)' = Bounded(m)
    BY <1>1, BoundsStay
<1>7. Good(Now)' /\ Good(saved)'
    BY <1>1, <1>3, <1>6 DEF BatchInv, Good, Counted, KeepsFloor, Owned, Read, Now, Before
<1>8. Reading'
    BY <1>1 DEF BatchInv, Reading, Before
<1>9. AtSavepoint'
    <2>1. saved' \in Tables /\ rows' = saved'.rows /\ logged' = saved'.logged /\ written' = saved'.written
        BY <1>1, <1>3 DEF Now
    <2>2. step' # "log"
        BY <1>1
    <2> QED
        BY <1>1, <1>2, <1>7, <2>1, <2>2, Zenon DEF AtSavepoint
<1>10. Handled'
    BY <1>1 DEF BatchInv, Handled, Answered
<1>11. ToStay'
    <2>1. deployment.transaction => Followed(Now)
        BY <1>1 DEF BatchInv, ToStay, Working
    <2> QED
        BY <1>1, <2>1 DEF ToStay, Followed, Working, Now
<1> QED
    BY <1>4, <1>5, <1>7, <1>8, <1>9, <1>10, <1>11 DEF BatchInv


\* What the value branch makes of the item's markets.
Refuses == {c \in Country : c \in Floored /\ HasBounds(This.sku) /\ Refused(c, This.value, This.special)}
Keeps == Country \ Refuses
Stores(c, amount) == IF c \in Floored /\ HasBounds(This.sku) THEN Raised(c, amount) ELSE amount
Edits == {<<This.sku, c>> : c \in Keeps}

LEMMA EditIs ==
    ASSUME BatchInv, UNCHANGED deployment, Edit
    PROVE  /\ step = "edit" /\ item \in DOMAIN items /\ This.value \in Asked
           /\ UNCHANGED <<deployment, items, known, batch, saved>>
           /\ product' = product \cup {This.sku} /\ written' = written \cup Edits
           /\ rows' = [m \in Market |->
                IF m \in Edits
                THEN [regular |-> Stores(m[2], This.value), special |-> Stores(m[2], This.special),
                      source |-> "admin_edit"]
                ELSE rows[m]]
           /\ logged' = [m \in Market |-> IF m \in Edits THEN logged[m] + 1 ELSE logged[m]]
           /\ queued' = IF Keeps # {} THEN queued \cup {This.sku} ELSE queued
           /\ IF Keeps = {} THEN step' = "fail" /\ UNCHANGED <<item, report>>
              ELSE Succeed(Refuses, {c \in Keeps : \E amount \in {This.value, This.special} :
                                          Stores(c, amount) # amount})
<1>1. step = "edit"
    BY DEF Edit
<1>2. item \in DOMAIN items /\ This.value \in Asked
    <2>1. item <= Len(items) /\ This.value # Null
        BY <1>1 DEF BatchInv, Place, AtSavepoint, Working
    <2> QED
        BY <1>1, <2>1, ThisIsItem DEF Working
<1> QED
    BY <1>1, <1>2 DEF Edit, Refuses, Keeps, Stores, Edits

LEMMA ItemSucceeds ==
    ASSUME BatchInv, step \in Working, NEW refused \in SUBSET Country, NEW clamped \in SUBSET Country,
           Succeed(refused, clamped)
    PROVE  /\ report' \in Report /\ report'.errors = report.errors /\ item' = item + 1 /\ step' = "item"
           /\ report'.synced = report.synced \cup {This.sku}
           /\ report.skipped \cup report.clamped \subseteq report'.skipped \cup report'.clamped
           /\ \A c \in refused \cup clamped : <<item, c>> \in report'.skipped \cup report'.clamped
<1>1. report \in Report /\ item \in Nat /\ This.sku \in Sku
    BY ThisIsItem DEF BatchInv, Types, Place
<1>2. report' = [report EXCEPT !.synced  = @ \cup {This.sku},
                               !.skipped = @ \cup {<<item, c>> : c \in refused},
                               !.clamped = @ \cup {<<item, c>> : c \in clamped}]
    BY DEF Succeed
<1>3. {<<item, c>> : c \in refused} \in SUBSET (Nat \X Country) /\ {<<item, c>> : c \in clamped} \in SUBSET (Nat \X Country)
    BY <1>1
<1>4. /\ report'.errors = report.errors /\ report'.synced = report.synced \cup {This.sku}
      /\ report'.skipped = report.skipped \cup {<<item, c>> : c \in refused}
      /\ report'.clamped = report.clamped \cup {<<item, c>> : c \in clamped}
    BY <1>1, <1>2 DEF Report
<1>5. report' \in Report
    BY <1>1, <1>2, <1>3 DEF Report
<1> QED
    BY <1>4, <1>5 DEF Succeed

\* The item at hand succeeds: what is left to show of it is in the hypotheses.
LEMMA NextItem ==
    ASSUME BatchInv, step \in Working, UNCHANGED <<deployment, items, known, saved>>,
           NEW refused \in SUBSET Country, NEW clamped \in SUBSET Country, Succeed(refused, clamped),
           Now' \in Tables, queued \subseteq queued', queued' \in SUBSET Sku,
           UNCHANGED batch,
           \A m \in Market : logged[m] <= logged'[m] /\ logged'[m] <= logged[m] + 1,
           \A m \in Market : rows[m] # Null => rows'[m] # Null,
           \A m \in Market : m[1] # This.sku => rows'[m] = rows[m],
           KeepsFloor(Now)', Owned(Now)',
           NEW n, n = item, \A c \in Country : Answered(n, c)',
           deployment.transaction => \A m \in written' : logged'[m] > 0 /\ m[1] \in queued' \cup report'.synced
    PROVE  BatchInv'
<1>1. /\ report' \in Report /\ report'.errors = report.errors /\ item' = item + 1 /\ step' = "item"
      /\ report'.synced = report.synced \cup {This.sku}
      /\ report.skipped \cup report.clamped \subseteq report'.skipped \cup report'.clamped
    BY ItemSucceeds
<1>2. item \in DOMAIN items /\ item \in Nat /\ items \in Seq(Item) /\ item <= Len(items) /\ item >= 1
      /\ This = items[item] /\ step \notin Before
    BY ThisIsItem DEF BatchInv, Place, Types, Before, Working
<1>3. Types'
    BY <1>1 DEF BatchInv, Types
<1>4. Place'
    BY <1>1, <1>2 DEF BatchInv, Place, Before, Working, Types, Report
<1>5. Good(Now)'
    <2>1. Counted(Now)'
        <3>1. \A m \in Market : logged[m] \in Nat /\ logged'[m] \in Nat /\ logged[m] <= item - 1
            BY <1>2 DEF BatchInv, Good, Counted, Now, Types, Tables
        <3> QED
            BY <1>1, <1>2, <3>1 DEF Counted, Now
    <2>2. Read(Now)'
        BY <1>1, <1>2 DEF BatchInv, Good, Read, Now, Before
    <2> QED
        BY <2>1, <2>2 DEF Good
<1>6. Reading' /\ AtSavepoint'
    BY <1>1, <1>2 DEF BatchInv, Reading, AtSavepoint, Before, Working
<1>7. Handled'
    <2> SUFFICES ASSUME NEW i \in DOMAIN items, i < item + 1, i \notin report.errors, NEW c \in Country
                 PROVE  items[i].sku \in report'.synced /\ Answered(i, c)'
        <3>1. DOMAIN items # {}
            BY <1>2
        <3>2. CASE Country = {}
            <4>1. \A i \in DOMAIN items : i < item + 1 /\ i \notin report.errors => items[i].sku \in report'.synced
                <5>1. \A i \in DOMAIN items : i < item + 1 => i < item \/ i = item
                    BY <1>2
                <5> QED
                    BY <1>1, <1>2, <5>1 DEF BatchInv, Handled
            <4> QED
                BY <1>1, <3>2, <4>1 DEF Handled
        <3> QED
            BY <1>1, <3>2 DEF Handled
    <2>1. CASE i = item
        <3>1. i = n
            BY <2>1
        <3> QED
            BY <1>1, <1>2, <2>1, <3>1
    <2>2. CASE i # item
        <3>1. i < item
            BY <1>2, <2>2
        <3>2. items[i].sku \in report.synced /\ Answered(i, c) /\ items[i] \in Item
            BY <1>2, <3>1 DEF BatchInv, Handled
        <3>3. CASE items[i].sku = This.sku
            <4>1. \E j \in DOMAIN items : j > i /\ items[j].sku = items[i].sku
                BY <1>2, <3>1, <3>3
            <4> QED
                BY <1>1, <3>2, <4>1 DEF Answered
        <3>4. CASE items[i].sku # This.sku
            <4>1. <<items[i].sku, c>> \in Market /\ <<items[i].sku, c>>[1] # This.sku
                BY <3>2, <3>4 DEF Item, Market
            <4>2. rows'[<<items[i].sku, c>>] = rows[<<items[i].sku, c>>]
                  /\ (batch'.special[<<items[i].sku, c>>] = Null <=> batch.special[<<items[i].sku, c>>] = Null)
                BY <4>1
            <4> QED
                BY <1>1, <3>2, <4>2 DEF Answered
        <3> QED
            BY <3>3, <3>4
    <2> QED
        BY <2>1, <2>2
<1>8. ToStay'
    BY <1>1 DEF ToStay, Followed, Now, Working
<1> QED
    BY <1>3, <1>4, <1>5, <1>6, <1>7, <1>8 DEF BatchInv


\* Something raises, or every country refuses the price: the tables are as they were,
\* but for a product.
LEMMA ItemBreaks ==
    ASSUME BatchInv, step \in {"edit", "special", "log"}, step' = "fail",
           UNCHANGED <<deployment, rows, logged, queued, items, known, batch, item, saved, written, report>>,
           product \subseteq product', product' \in SUBSET Sku
    PROVE  BatchInv'
<1>1. Types'
    BY DEF BatchInv, Types, Now, Tables, Working
<1>2. Place'
    BY DEF BatchInv, Place, Before, Working
<1>3. \A m \in Market : Bounded(m)' = Bounded(m)
    BY BoundsStay
<1>4. Good(Now)' /\ Good(saved)'
    BY <1>3 DEF BatchInv, Good, Counted, KeepsFloor, Owned, Read, Now, Before, AtSavepoint, Working
<1>5. Reading'
    BY DEF BatchInv, Reading, Before
<1>6. AtSavepoint'
    BY <1>4 DEF BatchInv, AtSavepoint, Working, This
<1>7. Handled'
    BY DEF BatchInv, Handled, Answered
<1>8. ToStay'
    BY DEF BatchInv, ToStay, Followed, Working
<1> QED
    BY <1>1, <1>2, <1>4, <1>5, <1>6, <1>7, <1>8 DEF BatchInv

LEMMA BatchInterrupted == ASSUME BatchInv, UNCHANGED deployment, Interrupt PROVE BatchInv'
<1>1. product \in SUBSET Sku
    BY DEF BatchInv, Types, Now, Tables
<1> QED
    BY <1>1, ItemBreaks DEF Interrupt

LEMMA BatchEdits == ASSUME BatchInv, UNCHANGED deployment, Edit PROVE BatchInv'
<1>1. /\ rows \in [Market -> Row \cup {Null}] /\ logged \in [Market -> Nat] /\ written \in SUBSET Market
      /\ product \in SUBSET Sku /\ queued \in SUBSET Sku /\ This.sku \in Sku /\ This.special \in Asked \cup {Null}
      /\ batch.special \in [Market -> Row \cup {Null}] /\ step \in Working
    BY EditIs, ThisIsItem DEF BatchInv, Types, Now, Tables, Reading, ReadRows, Before, Working, Place
<1>2. Edits \in SUBSET Market /\ \A m \in Edits : m[1] = This.sku /\ m[2] \in Keeps
    BY <1>1 DEF Edits, Keeps, Market
<1>3. CASE Keeps = {}
    <2>1. Edits = {}
        BY <1>3 DEF Edits
    <2>2. step' = "fail" /\ UNCHANGED <<rows, logged, written, queued, item, report>>
        BY <1>1, <1>3, <2>1, EditIs
    <2>3. product \subseteq product' /\ product' \in SUBSET Sku
        BY <1>1, EditIs
    <2> QED
        BY <2>2, <2>3, ItemBreaks, EditIs
<1>4. CASE Keeps # {}
    <2> DEFINE clamped == {c \in Keeps : \E amount \in {This.value, This.special} : Stores(c, amount) # amount}
               new(m) == [regular |-> Stores(m[2], This.value), special |-> Stores(m[2], This.special),
                          source |-> "admin_edit"]
    <2>1. Succeed(Refuses, clamped) /\ Refuses \in SUBSET Country /\ clamped \in SUBSET Country
        BY <1>4, EditIs DEF Refuses, Keeps
    <2> HIDE DEF clamped
    <2>2. ASSUME NEW c \in Country
          PROVE  /\ Stores(c, This.value) \in Amount /\ Stores(c, This.special) \in Amount \cup {Null}
                 /\ c \in Floored /\ HasBounds(This.sku) =>
                        Stores(c, This.value) # "low" /\ Stores(c, This.special) # "low"
        <3>1. CASE c \in Floored /\ HasBounds(This.sku)
            <4>1. This.value \in Asked \cup {Null} /\ This.value # Null
                BY EditIs, BatchAssumption DEF Amount
            <4>2. /\ Raised(c, This.value) \in Amount /\ Raised(c, This.special) \in Amount \cup {Null}
                  /\ Raised(c, This.value) # "low" /\ Raised(c, This.special) # "low"
                BY <1>1, <3>1, <4>1, RaisedIs
            <4> QED
                BY <3>1, <4>2 DEF Stores
        <3>2. CASE ~(c \in Floored /\ HasBounds(This.sku))
            BY <1>1, <3>2, EditIs DEF Stores, Amount
        <3> QED
            BY <3>1, <3>2
    <2>3. \A m \in Edits : new(m) \in Row
        BY <1>2, <2>2 DEF Row, Keeps
    <2>4. \A m \in Market : rows'[m] = IF m \in Edits THEN new(m) ELSE rows[m]
        BY EditIs
    <2>5. rows' \in [Market -> Row \cup {Null}]
        BY <1>1, <2>3, EditIs
    <2>6. /\ \A m \in Market : logged'[m] = IF m \in Edits THEN logged[m] + 1 ELSE logged[m]
          /\ logged' \in [Market -> Nat]
        BY <1>1, EditIs
    <2>7. Now' \in Tables /\ queued' = queued \cup {This.sku} /\ queued' \in SUBSET Sku
        BY <1>1, <1>2, <1>4, <2>5, <2>6, EditIs DEF Now, Tables
    <2>8. ASSUME NEW m \in Edits
          PROVE  /\ rows'[m] # Null
                 /\ rows'[m].regular = Stores(m[2], This.value) /\ rows'[m].special = Stores(m[2], This.special)
        <3>1. rows'[m] = new(m) /\ new(m) \in Row
            BY <1>2, <2>3, <2>4
        <3> QED
            BY <3>1, BatchAssumption
    <2>9. Owned(Now)'
        BY <1>2, <2>4, EditIs DEF BatchInv, Good, Owned, Now
    <2>10. KeepsFloor(Now)'
        <3> SUFFICES ASSUME NEW m \in Market, rows'[m] # Null, Bounded(m) PROVE NotLow(rows'[m])
            BY EditIs, BoundsStay DEF KeepsFloor, Now
        <3>1. CASE m \in Edits
            <4>1. m[1] = This.sku /\ m[2] \in Country /\ m[2] \in Floored
                BY <1>2, <3>1 DEF Keeps, Bounded
            <4>2. This.sku \in SkusOf(HasValue)
                BY EditIs, BatchAssumption DEF SkusOf, HasValue, This, Amount
            <4>3. HasBounds(This.sku)
                BY <4>1, <4>2 DEF Bounded
            <4> QED
                BY <2>2, <2>8, <3>1, <4>1, <4>3 DEF NotLow
        <3>2. CASE m \notin Edits
            BY <2>4, <3>2 DEF BatchInv, Good, KeepsFloor, Now
        <3> QED
            BY <3>1, <3>2
    <2> SUFFICES ASSUME NEW n, n = item PROVE BatchInv'
        OBVIOUS
    <2>11. ASSUME NEW c \in Country PROVE Answered(n, c)'
        <3>1. \A o \in Refuses \cup clamped : <<item, o>> \in report'.skipped \cup report'.clamped
            BY <1>1, <2>1, ItemSucceeds, EditIs
        <3>2. CASE c \in Refuses \/ c \in clamped
            BY <3>1, <3>2 DEF Answered
        <3>3. CASE c \in Keeps /\ c \notin clamped
            <4>1. Stores(c, This.value) = This.value /\ Stores(c, This.special) = This.special
                BY <3>3 DEF clamped
            <4>2. <<This.sku, c>> \in Edits /\ <<This.sku, c>>[2] = c
                BY <3>3 DEF Edits
            <4>3. /\ rows'[<<This.sku, c>>] # Null
                  /\ rows'[<<This.sku, c>>].regular = This.value /\ rows'[<<This.sku, c>>].special = This.special
                BY <2>8, <4>1, <4>2
            <4>4. items'[n] = This
                BY EditIs DEF This
            <4> QED
                BY <4>3, <4>4 DEF Answered
        <3> QED
            BY <3>2, <3>3 DEF Keeps
    <2>12. deployment.transaction => \A m \in written' : logged'[m] > 0 /\ m[1] \in queued' \cup report'.synced
        <3>1. report'.synced = report.synced \cup {This.sku} /\ logged = saved.logged /\ written = saved.written
            BY <1>1, <2>1, ItemSucceeds, EditIs DEF BatchInv, AtSavepoint, Working
        <3>2. deployment.transaction => \A m \in written : logged[m] > 0 /\ m[1] \in queued \cup report.synced
            BY <1>1, <3>1 DEF BatchInv, ToStay, Followed
        <3> QED
            BY <1>1, <1>2, <2>6, <2>7, <3>1, <3>2, EditIs
    <2>13. \A m \in Market : logged[m] <= logged'[m] /\ logged'[m] <= logged[m] + 1
        BY <1>1, <2>6
    <2>14. /\ \A m \in Market : rows[m] # Null => rows'[m] # Null
           /\ \A m \in Market : m[1] # This.sku => rows'[m] = rows[m]
        BY <1>2, <2>4, <2>8
    <2> QED
        BY <1>1, <2>1, <2>7, <2>9, <2>10, <2>11, <2>12, <2>13, <2>14, NextItem, EditIs
<1> QED
    BY <1>3, <1>4


\* The markets the special-only branch writes.
Specials == {<<This.sku, c>> : c \in SpecialApplied}

LEMMA SpecialsAre ==
    ASSUME BatchInv, step \in {"special", "log"}
    PROVE  /\ This.sku \in Sku /\ This.special \in Asked \cup {Null} /\ item \in DOMAIN items
           /\ batch.special \in [Market -> Row \cup {Null}]
           /\ Specials \in SUBSET Market
           /\ \A m \in Specials :
                /\ m[1] = This.sku /\ m[2] \in SpecialApplied /\ m[2] \in Country
                /\ batch.special[m] \in Row /\ rows[m] \in Row
<1>1. /\ This.sku \in Sku /\ This.special \in Asked \cup {Null} /\ item \in DOMAIN items
      /\ batch.special \in [Market -> Row \cup {Null}]
    BY ThisIsItem DEF BatchInv, Reading, ReadRows, Before, Working, Place
<1>2. Specials \in SUBSET Market
    BY <1>1 DEF Specials, SpecialApplied, Seen, Market
<1>3. ASSUME NEW m \in Specials
      PROVE  m[1] = This.sku /\ m[2] \in SpecialApplied /\ m[2] \in Country /\ batch.special[m] # Null
    <2>1. PICK c \in SpecialApplied : m = <<This.sku, c>>
        BY <1>3 DEF Specials
    <2>2. c \in Country /\ batch.special[<<This.sku, c>>] # Null
        BY <2>1 DEF SpecialApplied, Seen
    <2> QED
        BY <2>1, <2>2
<1>4. \A m \in Market : batch.special[m] # Null => rows[m] # Null
    BY DEF BatchInv, Good, Read, Now, Before
<1>5. rows \in [Market -> Row \cup {Null}]
    BY DEF BatchInv, Types, Now, Tables
<1> QED
    BY <1>1, <1>2, <1>3, <1>4, <1>5

LEMMA BatchWritesSpecial == ASSUME BatchInv, UNCHANGED deployment, WriteSpecial PROVE BatchInv'
<1> DEFINE new(m) == [rows[m] EXCEPT !.special = Raised(m[2], This.special), !.source = batch.special[m].source]
           seen(m) == [batch.special[m] EXCEPT !.special = Raised(m[2], This.special)]
<1>1. /\ step = "special" /\ step' = "log"
      /\ UNCHANGED <<deployment, product, logged, queued, items, known, item, saved, report>>
      /\ written' = written \cup Specials
      /\ rows' = [m \in Market |-> IF m \in Specials THEN new(m) ELSE rows[m]]
      /\ batch' = [batch EXCEPT !.special = [m \in Market |-> IF m \in Specials THEN seen(m) ELSE @[m]]]
    BY Zenon DEF WriteSpecial, Specials
<1> HIDE DEF new, seen
<1>2. /\ This.sku \in Sku /\ This.special \in Asked \cup {Null} /\ item \in DOMAIN items /\ This' = This
      /\ batch.special \in [Market -> Row \cup {Null}] /\ Specials \in SUBSET Market
      /\ \A m \in Specials :
            /\ m[1] = This.sku /\ m[2] \in SpecialApplied /\ m[2] \in Country
            /\ batch.special[m] \in Row /\ rows[m] \in Row
    BY <1>1, SpecialsAre DEF This
<1>3. /\ Now \in Tables /\ rows \in [Market -> Row \cup {Null}] /\ written \in SUBSET Market
      /\ saved \in Tables
    BY <1>1 DEF BatchInv, Types, Now, Tables, AtSavepoint, Working
<1>4. ASSUME NEW m \in Specials
      PROVE  /\ new(m) \in Row /\ new(m).regular = rows[m].regular /\ new(m).special = Raised(m[2], This.special)
             /\ m[2] \in Floored => new(m).special # "low"
             /\ seen(m) \in Row
    <2>1. rows[m] \in Row /\ batch.special[m] \in Row /\ Raised(m[2], This.special) \in Amount \cup {Null}
          /\ (m[2] \in Floored => Raised(m[2], This.special) # "low")
        BY <1>2, RaisedIs
    <2> QED
        BY <2>1 DEF Row, new, seen
<1>5. \A m \in Market : rows'[m] = IF m \in Specials THEN new(m) ELSE rows[m]
    BY <1>1
<1>6. rows' \in [Market -> Row \cup {Null}] /\ Now' \in Tables
    <2>1. rows' \in [Market -> Row \cup {Null}]
        BY <1>1, <1>3, <1>4
    <2> QED
        BY <1>1, <1>2, <1>3, <2>1 DEF Now, Tables
<1>7. /\ batch'.bounds = batch.bounds
      /\ batch'.special = [m \in Market |-> IF m \in Specials THEN seen(m) ELSE batch.special[m]]
    <2> DEFINE new_special == [m \in Market |-> IF m \in Specials THEN seen(m) ELSE batch.special[m]]
    <2>1. batch \in ReadRows /\ batch' = [batch EXCEPT !.special = new_special]
        BY <1>1 DEF BatchInv, Reading, Before
    <2> HIDE DEF new_special
    <2>2. batch'.bounds = batch.bounds /\ batch'.special = new_special
        BY <2>1 DEF ReadRows
    <2> QED
        BY <2>2 DEF new_special
<1>8. batch' \in ReadRows /\ \A m \in Market : batch'.special[m] = Null <=> batch.special[m] = Null
    <2>1. batch'.special \in [Market -> Row \cup {Null}]
        BY <1>2, <1>4, <1>7
    <2>2. batch' = [batch EXCEPT !.special = batch'.special] /\ batch \in ReadRows
        BY <1>1, <1>7 DEF BatchInv, Reading, Before
    <2>3. ASSUME NEW m \in Market PROVE batch'.special[m] = Null <=> batch.special[m] = Null
        <3>1. CASE m \in Specials
            <4>1. batch'.special[m] = seen(m) /\ seen(m) \in Row /\ batch.special[m] \in Row
                BY <1>2, <1>4, <1>7, <3>1
            <4> QED
                BY <4>1, BatchAssumption
        <3>2. CASE m \notin Specials
            BY <1>7, <3>2
        <3> QED
            BY <3>1, <3>2
    <2>4. batch' \in ReadRows
        BY <2>1, <2>2 DEF ReadRows
    <2> QED
        BY <2>3, <2>4
<1>9. \A m \in Market : /\ rows[m] # Null <=> rows'[m] # Null
                        /\ m[1] # This.sku => rows'[m] = rows[m]
    BY <1>2, <1>4, <1>5, BatchAssumption
<1>10. Types' /\ Place'
    BY <1>1, <1>6 DEF BatchInv, Types, Place, Before, Working
<1>11. Good(Now)' /\ Good(saved)'
    <2>1. \A m \in Market : Bounded(m)' = Bounded(m)
        BY <1>1, <1>7, BoundsStay
    <2>2. \A m \in Market : rows[m] # Null /\ Bounded(m) => NotLow(rows[m])
        BY DEF BatchInv, Good, KeepsFloor, Now
    <2>3. ASSUME NEW m \in Market, rows'[m] # Null, Bounded(m) PROVE NotLow(rows'[m])
        <3>1. CASE m \in Specials
            <4>1. /\ rows'[m].regular = rows[m].regular
                  /\ m[2] \in Floored => rows'[m].special # "low"
                BY <1>4, <1>5, <3>1
            <4>2. NotLow(rows[m]) /\ m[2] \in Floored
                BY <1>9, <2>2, <2>3 DEF Bounded
            <4> QED
                BY <4>1, <4>2 DEF NotLow
        <3>2. CASE m \notin Specials
            BY <1>5, <2>2, <2>3, <3>2
        <3> QED
            BY <3>1, <3>2
    <2>4. KeepsFloor(Now)'
        BY <2>1, <2>3 DEF KeepsFloor, Now
    <2>5. Counted(Now)' /\ Owned(Now)' /\ Read(Now)'
        BY <1>1, <1>8, <1>9 DEF BatchInv, Good, Counted, Owned, Read, Now, Before
    <2>6. Good(saved)'
        BY <1>1, <1>8, <2>1 DEF BatchInv, AtSavepoint, Working, Good, Counted, KeepsFloor, Owned, Read, Before
    <2> QED
        BY <2>4, <2>5, <2>6 DEF Good
<1>12. Reading'
    BY <1>1, <1>8 DEF Reading, Before
<1>13. AtSavepoint'
    <2>1. SpecialApplied' = SpecialApplied
        <3>1. Seen' = Seen
            BY <1>1, <1>2, <1>8 DEF Seen, Market
        <3> QED
            BY <1>1, <1>2, <3>1 DEF SpecialApplied, SpecialRefused, Refused, Below
    <2>2. /\ \A m \in Market : m[1] # This.sku => rows[m] = saved.rows[m]
          /\ logged = saved.logged /\ written = saved.written /\ This.value = Null
        BY <1>1 DEF BatchInv, AtSavepoint, Working
    <2>3. ASSUME NEW c \in SpecialApplied PROVE rows'[<<This.sku, c>>].special = Raised(c, This.special)
        <3>1. <<This.sku, c>> \in Specials /\ <<This.sku, c>>[2] = c
            BY DEF Specials
        <3>2. rows'[<<This.sku, c>>].special = Raised(<<This.sku, c>>[2], This.special)
            BY <1>2, <1>4, <1>5, <3>1
        <3> QED
            BY <3>1, <3>2
    <2>4. \A c : Raised(c, This.special)' = Raised(c, This.special)
        BY <1>2 DEF Raised, Below
    <2>5. written' = saved'.written \cup {<<This'.sku, c>> : c \in SpecialApplied'}
        BY <1>1, <1>2, <2>1, <2>2 DEF Specials
    <2>6. \A c \in SpecialApplied' : rows'[<<This'.sku, c>>].special = Raised(c, This.special)'
        BY <1>2, <2>1, <2>3, <2>4
    <2>7. \A m \in Market : m[1] # This'.sku => rows'[m] = saved'.rows[m]
        BY <1>1, <1>2, <1>9, <2>2
    <2> QED
        BY <1>1, <1>2, <1>3, <1>11, <2>2, <2>5, <2>6, <2>7 DEF AtSavepoint
<1>14. Handled'
    <2> SUFFICES ASSUME NEW i \in DOMAIN items, i < item, i \notin report.errors
                 PROVE  items[i].sku \in report.synced /\ \A c \in Country : Answered(i, c)'
        BY <1>1 DEF Handled
    <2>1. items[i].sku \in report.synced /\ (\A c \in Country : Answered(i, c)) /\ items[i] \in Item
        BY DEF BatchInv, Handled, Types
    <2>2. CASE items[i].sku = This.sku
        <3>1. \E j \in DOMAIN items : j > i /\ items[j].sku = items[i].sku
            BY <1>2, <2>2 DEF This, BatchInv, Types
        <3> QED
            BY <1>1, <2>1, <3>1 DEF Answered
    <2>3. CASE items[i].sku # This.sku
        <3> SUFFICES ASSUME NEW c \in Country PROVE Answered(i, c)'
            BY <2>1
        <3>1. <<items[i].sku, c>> \in Market /\ <<items[i].sku, c>>[1] # This.sku
            BY <2>1, <2>3 DEF Item, Market
        <3>2. rows'[<<items[i].sku, c>>] = rows[<<items[i].sku, c>>]
              /\ (batch'.special[<<items[i].sku, c>>] = Null <=> batch.special[<<items[i].sku, c>>] = Null)
            BY <1>8, <1>9, <3>1
        <3> QED
            BY <1>1, <2>1, <3>2 DEF Answered
    <2> QED
        BY <2>2, <2>3
<1>15. ToStay'
    BY <1>1 DEF BatchInv, ToStay, Followed, Working
<1> QED
    BY <1>10, <1>11, <1>12, <1>13, <1>14, <1>15 DEF BatchInv


LEMMA SpecialsLogged == ASSUME BatchInv, UNCHANGED deployment, LogSpecial PROVE BatchInv'
<1> DEFINE clamped == {c \in SpecialApplied : Below(c, This.special)}
<1>1. /\ step = "log" /\ UNCHANGED <<deployment, product, rows, queued, items, known, batch, saved, written>>
      /\ logged' = [m \in Market |->
            IF m[1] = This.sku /\ m[2] \in SpecialApplied THEN logged[m] + 1 ELSE logged[m]]
      /\ IF SpecialApplied = {} /\ SpecialRefused # {} THEN step' = "fail" /\ UNCHANGED <<item, report>>
         ELSE Succeed(SpecialRefused, clamped)
    BY DEF LogSpecial
<1>2. /\ rows \in [Market -> Row \cup {Null}] /\ logged \in [Market -> Nat] /\ written \in SUBSET Market
      /\ product \in SUBSET Sku /\ queued \in SUBSET Sku /\ Now \in Tables
    BY DEF BatchInv, Types, Now, Tables
<1>3. /\ This.sku \in Sku /\ This.special \in Asked \cup {Null} /\ item \in DOMAIN items
      /\ SpecialRefused \in SUBSET Country /\ SpecialApplied \in SUBSET Country
    BY <1>1, SpecialsAre DEF SpecialRefused, SpecialApplied, Seen
<1>4. CASE SpecialApplied = {} /\ SpecialRefused # {}
    <2>1. logged' = [m \in Market |-> logged[m]]
        BY <1>1, <1>4
    <2>2. logged' = logged
        BY <1>2, <2>1
    <2> QED
        BY <1>1, <1>2, <1>4, <2>2, ItemBreaks
<1>5. CASE ~(SpecialApplied = {} /\ SpecialRefused # {})
    <2>1. Succeed(SpecialRefused, clamped) /\ clamped \in SUBSET Country
        BY <1>1, <1>3, <1>5
    <2> HIDE DEF clamped
    <2>2. /\ \A m \in Market : logged'[m] =
                IF m[1] = This.sku /\ m[2] \in SpecialApplied THEN logged[m] + 1 ELSE logged[m]
          /\ logged' \in [Market -> Nat]
        BY <1>1, <1>2
    <2>3. \A m \in Market : logged[m] <= logged'[m] /\ logged'[m] <= logged[m] + 1
        BY <1>2, <2>2
    <2>4. Now' \in Tables
        BY <1>1, <1>2, <2>2 DEF Now, Tables
    <2>5. KeepsFloor(Now)' /\ Owned(Now)'
        <3>1. \A m \in Market : Bounded(m)' = Bounded(m)
            BY <1>1, BoundsStay
        <3> QED
            BY <1>1, <3>1 DEF BatchInv, Good, KeepsFloor, Owned, Now
    <2> SUFFICES ASSUME NEW n, n = item PROVE BatchInv'
        OBVIOUS
    <2>6. /\ This.value = Null
          /\ written = saved.written \cup {<<This.sku, c>> : c \in SpecialApplied}
          /\ \A c \in SpecialApplied : rows[<<This.sku, c>>].special = Raised(c, This.special)
        BY <1>1 DEF BatchInv, AtSavepoint, Working
    <2>7. ASSUME NEW c \in Country PROVE Answered(n, c)'
        <3>1. items'[n] = This
            BY <1>1 DEF This
        <3>2. \A o \in SpecialRefused \cup clamped : <<item, o>> \in report'.skipped \cup report'.clamped
            BY <1>1, <2>1, <1>3, ItemSucceeds DEF Working
        <3>3. CASE c \in SpecialRefused \cup clamped
            BY <3>2, <3>3 DEF Answered
        <3>4. CASE c \notin Seen
            <4>1. batch'.special[<<This.sku, c>>] = Null
                BY <1>1, <3>4 DEF Seen
            <4> QED
                BY <2>6, <3>1, <4>1 DEF Answered
        <3>5. CASE c \in SpecialApplied /\ c \notin clamped
            <4>1. ~Below(c, This.special)
                BY <3>5 DEF clamped
            <4>2. rows'[<<This.sku, c>>].special = This.special
                BY <1>1, <2>6, <3>5, <4>1 DEF Raised
            <4>3. <<This.sku, c>> \in Specials
                BY <3>5 DEF Specials
            <4>4. rows'[<<This.sku, c>>] # Null
                BY <1>1, <4>3, SpecialsAre, BatchAssumption
            <4> QED
                BY <2>6, <3>1, <4>2, <4>4 DEF Answered
        <3> QED
            BY <3>3, <3>4, <3>5 DEF SpecialApplied
    <2>8. deployment.transaction => \A m \in written' : logged'[m] > 0 /\ m[1] \in queued' \cup report'.synced
        <3> SUFFICES ASSUME deployment.transaction, NEW m \in written
                     PROVE  logged'[m] > 0 /\ m[1] \in queued \cup report'.synced
            BY <1>1
        <3>1. report'.synced = report.synced \cup {This.sku} /\ logged = saved.logged
            BY <1>1, <1>3, <2>1, ItemSucceeds DEF BatchInv, AtSavepoint, Working
        <3>2. CASE m \in saved.written
            <4>1. logged[m] > 0 /\ m[1] \in queued \cup report.synced
                BY <1>1, <3>1, <3>2 DEF BatchInv, ToStay, Followed, Working
            <4>2. logged[m] \in Nat /\ logged'[m] \in Nat /\ logged[m] <= logged'[m]
                BY <1>2, <2>2, <2>3
            <4> QED
                BY <3>1, <4>1, <4>2
        <3>3. CASE m \notin saved.written
            <4>1. m \in Specials
                BY <2>6, <3>3 DEF Specials
            <4>2. m[1] = This.sku /\ m[2] \in SpecialApplied
                BY <1>1, <4>1, SpecialsAre
            <4> QED
                BY <1>2, <2>2, <3>1, <4>2
        <3> QED
            BY <3>2, <3>3
    <2>9. /\ \A m \in Market : rows[m] # Null => rows'[m] # Null
          /\ \A m \in Market : m[1] # This.sku => rows'[m] = rows[m]
        BY <1>1
    <2> QED
        BY <1>1, <1>2, <1>3, <2>1, <2>3, <2>4, <2>5, <2>7, <2>8, <2>9, NextItem DEF Working
<1> QED
    BY <1>4, <1>5

LEMMA ItemFails == ASSUME BatchInv, UNCHANGED deployment, Fail PROVE BatchInv'
<1> DEFINE back == [product |-> product', rows |-> rows', logged |-> logged', written |-> written']
<1>1. /\ step = "fail" /\ step' = "item" /\ item' = item + 1
      /\ report' = [report EXCEPT !.errors = @ \cup {item}]
      /\ UNCHANGED <<deployment, queued, items, known, batch, saved>>
      /\ Now' = IF deployment.transaction THEN saved ELSE Now
    <2>1. deployment.transaction => saved \in Tables
        BY DEF Fail, BatchInv, AtSavepoint, Working
    <2> QED
        BY <2>1 DEF Fail, Restored, Now, Tables
<1>2. /\ item \in DOMAIN items /\ item \in Nat /\ items \in Seq(Item) /\ item <= Len(items) /\ item >= 1
      /\ This = items[item] /\ This.sku \in Sku
    BY <1>1, ThisIsItem DEF BatchInv, Place, Types, Before, Working
<1>3. /\ report \in Report /\ report' \in Report /\ report'.errors = report.errors \cup {item}
      /\ report'.synced = report.synced /\ report'.skipped = report.skipped /\ report'.clamped = report.clamped
    BY <1>1, <1>2 DEF BatchInv, Types, Report
<1>4. /\ Now' \in Tables /\ Good(Now)
      /\ saved \in Tables /\ Good(saved)
      /\ \A m \in Market : m[1] # This.sku => rows[m] = saved.rows[m]
    BY <1>1 DEF BatchInv, Types, AtSavepoint, Working
<1>5. Types'
    BY <1>1, <1>3, <1>4 DEF BatchInv, Types
<1>6. Place'
    BY <1>1, <1>2, <1>3 DEF BatchInv, Place, Before, Working, Types, Report
<1>7. \A m \in Market : Bounded(m)' = Bounded(m)
    BY <1>1, BoundsStay
<1>8. Good(Now)'
    <2>1. \E ts \in Tables : Good(ts) /\ Now' = ts
        BY <1>1, <1>4 DEF BatchInv, Types
    <2>2. PICK ts \in Tables : Good(ts) /\ Now' = ts
        BY <2>1
    <2>3. Counted(Now)'
        <3>1. \A m \in Market : ts.logged[m] \in Nat /\ ts.logged[m] <= item - 1
            BY <1>2, <2>2 DEF Good, Counted, Tables
        <3> QED
            BY <1>1, <1>2, <2>2, <3>1 DEF Counted
    <2>4. KeepsFloor(Now)' /\ Owned(Now)' /\ Read(Now)'
        BY <1>1, <1>7, <2>2 DEF Good, KeepsFloor, Owned, Read, Before
    <2> QED
        BY <2>3, <2>4 DEF Good
<1>9. Reading' /\ AtSavepoint'
    BY <1>1 DEF BatchInv, Reading, AtSavepoint, Before, Working
<1>10. Handled'
    <2> SUFFICES ASSUME NEW i \in DOMAIN items, i < item + 1, i \notin report'.errors
                 PROVE  items[i].sku \in report'.synced /\ \A c \in Country : Answered(i, c)'
        BY <1>1 DEF Handled
    <2>1. i < item /\ i \notin report.errors
        BY <1>2, <1>3
    <2>2. items[i].sku \in report.synced /\ (\A c \in Country : Answered(i, c)) /\ items[i] \in Item
        BY <1>2, <2>1 DEF BatchInv, Handled
    <2>3. ASSUME NEW c \in Country PROVE Answered(i, c)'
        <3>1. CASE items[i].sku = This.sku
            <4>1. \E j \in DOMAIN items : j > i /\ items[j].sku = items[i].sku
                BY <1>2, <2>1, <3>1
            <4> QED
                BY <1>1, <2>2, <4>1 DEF Answered
        <3>2. CASE items[i].sku # This.sku
            <4>1. <<items[i].sku, c>> \in Market /\ <<items[i].sku, c>>[1] # This.sku
                BY <2>2, <3>2 DEF Item, Market
            <4>2. rows'[<<items[i].sku, c>>] = rows[<<items[i].sku, c>>]
                BY <1>1, <1>4, <4>1 DEF Now
            <4> QED
                BY <1>1, <1>3, <2>2, <4>2 DEF Answered
        <3> QED
            BY <3>1, <3>2
    <2> QED
        BY <1>3, <2>2, <2>3
<1>11. ToStay'
    <2>1. deployment.transaction => Followed(saved) /\ Now' = saved
        BY <1>1 DEF BatchInv, ToStay, Working
    <2> QED
        BY <1>1, <1>3, <2>1 DEF ToStay, Followed, Working
<1> QED
    BY <1>5, <1>6, <1>8, <1>9, <1>10, <1>11 DEF BatchInv

LEMMA BatchEnds == ASSUME BatchInv, UNCHANGED deployment, Enqueue PROVE BatchInv'
<1>1. /\ step = "item" /\ item > Len(items) /\ step' = "done" /\ queued' = queued \cup report.synced
      /\ UNCHANGED <<deployment, product, rows, logged, items, known, batch, item, saved, written, report>>
    BY DEF Enqueue
<1>2. item = Len(items) + 1 /\ report.synced \in SUBSET Sku /\ queued \in SUBSET Sku
    BY <1>1 DEF BatchInv, Types, Place, Before, Report
<1>3. Types' /\ Place'
    BY <1>1, <1>2 DEF BatchInv, Types, Place, Now, Tables, Before, Working
<1>4. Good(Now)'
    <2>1. \A m \in Market : Bounded(m)' = Bounded(m)
        BY <1>1, BoundsStay
    <2> QED
        BY <1>1, <2>1 DEF BatchInv, Good, Counted, KeepsFloor, Owned, Read, Now, Before
<1>5. Reading' /\ AtSavepoint'
    BY <1>1 DEF BatchInv, Reading, AtSavepoint, Before, Working
<1>6. Handled'
    BY <1>1 DEF BatchInv, Handled, Answered
<1>7. ToStay'
    BY <1>1 DEF BatchInv, ToStay, Followed, Now, Working
<1> QED
    BY <1>3, <1>4, <1>5, <1>6, <1>7 DEF BatchInv

LEMMA BatchRests == ASSUME BatchInv, UNCHANGED vars PROVE BatchInv'
<1>1. UNCHANGED <<deployment, product, rows, logged, queued, items, known, batch, item, step, saved, written, report>>
    BY DEF vars
<1>2. Types' /\ Place'
    BY <1>1 DEF BatchInv, Types, Place, Now, Tables
<1>3. \A m \in Market : Bounded(m)' = Bounded(m)
    BY <1>1, BoundsStay
<1>4. Good(Now)' /\ (Good(saved) => Good(saved)')
    BY <1>1, <1>3 DEF BatchInv, Good, Counted, KeepsFloor, Owned, Read, Now
<1>5. Reading'
    BY <1>1 DEF BatchInv, Reading
<1>6. AtSavepoint'
    <2>1. This' = This /\ SpecialApplied' = SpecialApplied
          /\ \A c : Raised(c, This.special)' = Raised(c, This.special)
        BY <1>1 DEF This, SpecialApplied, SpecialRefused, Seen, Refused, Raised, Below
    <2> QED
        BY <1>1, <1>4, <2>1 DEF BatchInv, AtSavepoint
<1>7. Handled'
    BY <1>1 DEF BatchInv, Handled, Answered
<1>8. ToStay'
    BY <1>1 DEF BatchInv, ToStay, Followed, Now
<1> QED
    BY <1>2, <1>4, <1>5, <1>6, <1>7, <1>8 DEF BatchInv

LEMMA BatchStep == ASSUME BatchInv, [Next]_vars PROVE BatchInv'
<1>1. CASE UNCHANGED vars
    BY <1>1, BatchRests
<1>2. CASE Next
    BY <1>2, BatchBegins, BatchIsRead, ItemBegins, BatchEdits, BatchWritesSpecial, SpecialsLogged,
       BatchInterrupted, ItemFails, BatchEnds DEF Next
<1> QED
    BY <1>1, <1>2


LEMMA BatchKeeps == BatchInv => TypeOK /\ FloorHolds /\ NothingVanishes /\ ChangedIsLoggedAndQueued
<1> SUFFICES ASSUME BatchInv PROVE TypeOK /\ FloorHolds /\ NothingVanishes /\ ChangedIsLoggedAndQueued
    OBVIOUS
<1>1. /\ rows \in [Market -> Row \cup {Null}] /\ logged \in [Market -> Nat] /\ written \in SUBSET Market
      /\ report.errors \in SUBSET Nat /\ report.synced \in SUBSET Sku
      /\ items \in Seq(Item) /\ Len(items) \in Nat /\ Len(items) <= MaxItems /\ MaxItems \in Nat
    BY BatchAssumption DEF BatchInv, Types, Now, Tables, Report
<1>2. item = 0 \/ (item \in Nat /\ item <= Len(items) + 1)
    BY <1>1 DEF BatchInv, Place
<1>3. DOMAIN items = 1 .. Len(items) /\ (step = "done" => item = Len(items) + 1)
    BY <1>1 DEF BatchInv, Place
<1>4. Done => \A i \in DOMAIN items : i \notin report.errors =>
          items[i].sku \in report.synced /\ \A c \in Country : Answered(i, c)
    BY <1>1, <1>3 DEF Done, BatchInv, Handled
<1>5. TypeOK
    <2>1. \A m \in Market : rows[m] # Null => m[1] \in product
        BY DEF BatchInv, Good, Owned, Now
    <2>2. \A m \in Market : logged[m] \in 0 .. MaxItems
        BY <1>1, <1>2 DEF BatchInv, Good, Counted, Now
    <2>3. report.errors \subseteq 1 .. MaxItems
        BY <1>1, <1>2 DEF BatchInv, Place
    <2> QED
        BY <1>1, <1>4, <2>1, <2>2, <2>3 DEF TypeOK
<1>6. FloorHolds
    BY DEF BatchInv, Good, KeepsFloor, Bounded, NotLow, Now, FloorHolds
<1>7. NothingVanishes
    BY <1>4 DEF NothingVanishes, Answered
<1>8. ChangedIsLoggedAndQueued
    BY DEF ChangedIsLoggedAndQueued, Done, BatchInv, ToStay, Followed, Now, Working
<1> QED
    BY <1>5, <1>6, <1>7, <1>8

-----------------------------------------------------------------------------
\* In the composition, a batch is edited by its own actions only.
LEMMA BatchOfSpec == MCSpec => [](Editing => BatchInv)
<1>1. MCInit => (Editing => BatchInv)
    BY BatchInitially DEF MCInit
<1>2. ASSUME Editing => BatchInv, [MCNext]_<<scenario, upsertVars, migrationVars, vars>>
      PROVE  (Editing => BatchInv)'
    <2> SUFFICES ASSUME Editing' PROVE BatchInv'
        OBVIOUS
    <2>1. Editing /\ [Next]_vars
        BY <1>2 DEF MCNext, Editing
    <2> QED
        BY <1>2, <2>1, BatchStep
<1> QED
    BY <1>1, <1>2, PTL DEF MCSpec

\* However a batch is made up, wherever it is interrupted and whatever the deployment:
\* a price with bounds keeps its floor, every market of an item that is no error has
\* the prices asked for or is reported, and in a transaction what the batch changed is
\* in the history and in the queue (price_edit_service.py:593, 602, 710).
THEOREM BatchKeepsPromisesAlways == MCSpec => []BatchKeepsPromises
<1>1. (Editing => BatchInv) => BatchKeepsPromises
    BY BatchKeeps DEF BatchKeepsPromises
<1> QED
    BY <1>1, BatchOfSpec, PTL

\* In a transaction, an item reported as an error leaves prices, history and products
\* as its savepoint had them (price_edit_service.py:697).
THEOREM ErrorsChangeNothingAlways == MCSpec => ErrorsChangeNothing
<1>1. ASSUME [MCNext]_<<scenario, upsertVars, migrationVars, vars>>
      PROVE  [Editing => ErrorChangesNothing]_vars
    <2> SUFFICES ASSUME Editing, vars' # vars, step = "fail", deployment.transaction
                 PROVE  rows' = saved.rows /\ logged' = saved.logged /\ product' = saved.product
        BY DEF ErrorChangesNothing
    <2>1. Next
        BY <1>1 DEF MCNext
    <2>2. Fail
        BY <2>1 DEF Next, Begin, Prefetch, BeginItem, Edit, WriteSpecial, LogSpecial, Interrupt, Enqueue
    <2> QED
        BY <2>2 DEF Fail, Restored
<1> QED
    BY <1>1, PTL DEF MCSpec, ErrorsChangeNothing


-----------------------------------------------------------------------------
(* The inductive invariant of the repository's callers *)

Rows == {"simple", "component"}
PriceRow == [id : Nat \X Rows, list : Nat, key : Rows, data : Nat, at : Nat \cup {Null}]
PriceList == [sc : Nat, status : {"READY", "IN_PROGRESS"}]

StepsOf(kind) ==
    CASE kind = "import" -> {"channel", "channel_create", "list", "read", "create", "update", "ready"}
      [] kind = "journal" -> {"channel", "channel_create", "active", "entry", "entry_create"}
      [] kind \in {"refresh", "legacy"} -> {"channel", "channel_create", "existing", "read", "create", "update"}
      [] OTHER -> {"idle"}
WithChannel == {"list", "existing", "active", "read", "create", "update", "ready", "entry", "entry_create"}
WithList == {"read", "create", "update", "ready", "entry", "entry_create"}
CallSteps == {"channel", "channel_create"} \cup WithChannel

Caller ==
    [kind : Upsert!Kind \cup {Null}, step : CallSteps \cup {"idle"}, sc : Nat \cup {Null}, todo : Seq(Nat),
     t : Nat \cup {Null}, at : Nat \cup {Null}, seen : SUBSET PriceRow]

\* What a caller holds was there when it read it; it compares the time of its data.
CallerOK(call, time, chs, len) ==
    /\ call.step \in StepsOf(call.kind)
    /\ call.step = "idle" => call = Upsert!Idle
    /\ call.step # "idle" =>
        /\ call.kind \in setting.kinds
        /\ call.t \in 1 .. time
        /\ call.at = IF call.kind = "legacy" THEN Null ELSE call.t
    /\ call.step \in WithChannel => call.sc \in 1 .. chs
    /\ call.step \in WithList => call.todo # <<>> /\ \A i \in DOMAIN call.todo : call.todo[i] \in 1 .. len
    /\ call.step \in WithList /\ call.kind # "journal" => Len(call.todo) = 1

RowOK(row) ==
    /\ row.list \in 1 .. Len(lists) /\ row.key \in Upsert!Key /\ row.data \in 1 .. now
    /\ row.at = Null \/ row.at >= row.data

UpsertTypes ==
    /\ setting \in Upsert!Setting
    /\ channels \in Nat /\ now \in Nat /\ journaled \in Nat
    /\ lists \in Seq(PriceList) /\ \A i \in DOMAIN lists : lists[i].sc \in 1 .. channels
    /\ entries \in SUBSET PriceRow /\ IsFiniteSet(entries) /\ \A row \in entries : RowOK(row)
    /\ proc \in [Callers -> Caller]
    /\ \A p \in Callers : CallerOK(proc[p], now, channels, Len(lists))

\* Rows have ids of their own.
Ids ==
    /\ \A r, s \in entries : r.id = s.id => r = s
    /\ \A r \in entries : r.id[1] < Cardinality(entries)

\* While each call runs alone, what it has read is still so.
CallOK(p) ==
    /\ proc[p].step = "channel_create" => channels = 0
    /\ proc[p].step \in {"create", "update"} => proc[p].seen \subseteq Upsert!Of(Head(proc[p].todo))
    /\ proc[p].step = "create" => Upsert!Of(Head(proc[p].todo)) \subseteq proc[p].seen
    /\ proc[p].step = "entry_create" => Upsert!Of(Head(proc[p].todo)) = {}
Alone ==
    setting.exclusive =>
        /\ \A p, q \in Callers : Upsert!InCall(p) /\ Upsert!InCall(q) => p = q
        /\ \A p \in Callers : CallOK(p)
        /\ channels <= 1
        /\ Upsert!OneRowPerKey

\* An import fills its list with data no older than what the journal wrote before, or
\* finds the journal's row, which is newer than its own data.
Imports(p, steps) == proc[p].kind = "import" /\ proc[p].step \in steps
Writing(p) == proc[p].step \in {"entry", "entry_create"}
ToWrite(p, i) == \E k \in DOMAIN proc[p].todo : proc[p].todo[k] = i
Last == Len(lists)
InMiddle == \E p \in Callers : Writing(p) /\ ToWrite(p, Last)
Filled(p) ==
    Imports(p, {"read", "create", "update"}) =>
        /\ \A row \in Upsert!Of(Head(proc[p].todo)) : row.at # Null /\ row.at > proc[p].at
        /\ Imports(p, {"read", "create"}) /\ Head(proc[p].todo) = Last /\ Upsert!Of(Last) = {} =>
               journaled <= proc[p].t \/ InMiddle
Entered(p) ==
    /\ proc[p].kind = "journal" => journaled <= proc[p].t
    /\ Writing(p) => \/ ToWrite(p, Last)
                     \/ Upsert!Of(Last) # {} /\ \A row \in Upsert!Of(Last) : row.data >= proc[p].t
ImportAndJournal == setting.exclusive /\ setting.kinds \subseteq {"import", "journal"} /\ ~setting.component
Journal ==
    ImportAndJournal =>
        /\ journaled <= now
        /\ \A p, q \in Callers : proc[p].kind = "journal" /\ proc[q].kind = "journal" => p = q
        /\ \A i \in DOMAIN lists : lists[i].status = "IN_PROGRESS" =>
               \E p \in Callers : Imports(p, {"read", "create", "update", "ready"}) /\ Head(proc[p].todo) = i
        /\ \A p \in Callers : Filled(p) /\ Entered(p)
        /\ \A row \in Upsert!Of(Last) : row.data >= journaled \/ InMiddle

UpsertInv == UpsertTypes /\ Ids /\ Alone /\ Journal

\* What a step of one caller leaves alone.
LEMMA CallerMoves ==
    ASSUME UpsertTypes, UNCHANGED setting, NEW p \in Callers,
           NEW c \in Caller, proc' = [proc EXCEPT ![p] = c],
           CallerOK(c, now', channels', Len(lists')),
           now' \in Nat, now <= now', channels' \in Nat, channels <= channels', journaled' \in Nat,
           lists' \in Seq(PriceList), Len(lists) <= Len(lists'),
           \A i \in DOMAIN lists' : lists'[i].sc \in 1 .. channels',
           entries' \in SUBSET PriceRow, IsFiniteSet(entries'), \A row \in entries' : RowOK(row)'
    PROVE  UpsertTypes' /\ proc'[p] = c /\ \A q \in Callers \ {p} : proc'[q] = proc[q]
<1>1. proc \in [Callers -> Caller]
    BY DEF UpsertTypes
<1>2. proc' \in [Callers -> Caller] /\ proc'[p] = c /\ \A q \in Callers \ {p} : proc'[q] = proc[q]
    BY <1>1
<1>3. ASSUME NEW q \in Callers PROVE CallerOK(proc[q], now, channels, Len(lists))'
    <2>1. CASE q = p
        BY <1>2, <2>1 DEF CallerOK, Upsert!Idle
    <2>2. CASE q # p
        <3>1. CallerOK(proc[q], now, channels, Len(lists)) /\ proc'[q] = proc[q]
            BY <1>2, <2>2 DEF UpsertTypes
        <3>2. now \in Nat /\ channels \in Nat /\ Len(lists) \in Nat /\ Len(lists') \in Nat
            BY DEF UpsertTypes
        <3>3. 1 .. now \subseteq 1 .. now' /\ 1 .. channels \subseteq 1 .. channels'
              /\ 1 .. Len(lists) \subseteq 1 .. Len(lists')
            BY <3>2
        <3> QED
            BY <3>1, <3>3 DEF CallerOK, Upsert!Idle
    <2> QED
        BY <2>1, <2>2
<1>4. setting' \in Upsert!Setting
    BY DEF UpsertTypes
<1> QED
    BY <1>2, <1>3, <1>4 DEF UpsertTypes

LEMMA RowsStay ==
    ASSUME UpsertTypes, UNCHANGED setting, now' \in Nat, now <= now', lists' \in Seq(PriceList), Len(lists) <= Len(lists'),
           NEW row \in entries
    PROVE  RowOK(row)'
<1>1. RowOK(row) /\ now \in Nat /\ Len(lists) \in Nat /\ Len(lists') \in Nat
    BY DEF UpsertTypes
<1> QED
    BY <1>1 DEF RowOK, Upsert!Key

LEMMA CallerStays ==
    ASSUME UpsertTypes, UNCHANGED <<setting, channels, lists, entries, journaled>>, NEW p \in Callers,
           NEW c \in Caller, proc' = [proc EXCEPT ![p] = c], CallerOK(c, now', channels', Len(lists')),
           now' \in Nat, now <= now'
    PROVE  UpsertTypes' /\ proc'[p] = c /\ \A q \in Callers \ {p} : proc'[q] = proc[q]
<1>1. /\ channels' \in Nat /\ channels <= channels' /\ journaled' \in Nat
      /\ lists' \in Seq(PriceList) /\ Len(lists) <= Len(lists')
      /\ \A i \in DOMAIN lists' : lists'[i].sc \in 1 .. channels'
      /\ entries' \in SUBSET PriceRow /\ IsFiniteSet(entries')
    BY DEF UpsertTypes
<1>2. \A row \in entries' : RowOK(row)'
    BY <1>1, RowsStay
<1> QED
    BY <1>1, <1>2, CallerMoves

\* While a call runs alone, no other caller is within one.
LEMMA OthersWait ==
    ASSUME UpsertTypes, Alone, UNCHANGED setting, NEW p \in Callers, Upsert!MayStep(p),
           \A q \in Callers \ {p} : proc'[q] = proc[q],
           setting.exclusive => CallOK(p)' /\ channels' <= 1 /\ Upsert!OneRowPerKey'
    PROVE  Alone' /\ (setting.exclusive => \A q \in Callers \ {p} : ~Upsert!InCall(q))
<1> SUFFICES ASSUME setting.exclusive
             PROVE  /\ \A q, r \in Callers : Upsert!InCall(q)' /\ Upsert!InCall(r)' => q = r
                    /\ \A q \in Callers : CallOK(q)'
                    /\ channels' <= 1 /\ Upsert!OneRowPerKey'
                    /\ \A q \in Callers \ {p} : ~Upsert!InCall(q)
    BY DEF Alone
<1>1. \A q \in Callers \ {p} : ~Upsert!InCall(q) /\ ~Upsert!InCall(q)'
    BY DEF Upsert!MayStep, Upsert!InCall
<1>2. \A q \in Callers \ {p} : CallOK(q)'
    BY <1>1 DEF CallOK, Upsert!InCall
<1> QED
    BY <1>1, <1>2

LEMMA CallerIs ==
    ASSUME UpsertTypes, NEW p \in Callers
    PROVE  /\ proc[p] \in Caller /\ CallerOK(proc[p], now, channels, Len(lists))
           /\ now \in Nat /\ channels \in Nat /\ journaled \in Nat /\ lists \in Seq(PriceList) /\ Len(lists) \in Nat
           /\ DOMAIN lists = 1 .. Len(lists)
           /\ proc[p].kind \in Upsert!Kind \cup {Null} /\ proc[p].todo \in Seq(Nat)
  BY DEF UpsertTypes, Caller

LEMMA IdleIs == Upsert!Idle \in Caller /\ Upsert!Idle.step = "idle" /\ Upsert!Idle.kind = Null
  BY DEF Upsert!Idle, Caller

\* The callers that have read nothing to write yet: the rest of the invariant is about
\* the others.
LEMMA Aside ==
    ASSUME UpsertTypes, UpsertTypes', Journal, UNCHANGED <<setting, lists, entries, journaled>>, now <= now',
           NEW p \in Callers, \A q \in Callers \ {p} : proc'[q] = proc[q],
           ~Writing(p), ~Writing(p)', proc[p].step \notin WithList, proc'[p].step \notin WithList,
           ImportAndJournal /\ proc'[p].kind = "journal" =>
                journaled <= proc'[p].t /\ \A q \in Callers \ {p} : proc[q].kind # "journal"
    PROVE  Journal'
<1> SUFFICES ASSUME ImportAndJournal PROVE Journal'
    BY DEF Journal, ImportAndJournal
<1>1. InMiddle' = InMiddle
    BY DEF InMiddle, Writing, ToWrite, Last
<1>2. \A q \in Callers : Filled(q)' /\ Entered(q)'
    <2> SUFFICES ASSUME NEW q \in Callers PROVE Filled(q)' /\ Entered(q)'
        OBVIOUS
    <2>1. CASE q = p
        BY <2>1 DEF Filled, Entered, Imports, WithList, Writing
    <2>2. CASE q # p
        <3>1. Filled(q) /\ Entered(q) /\ proc'[q] = proc[q]
            BY <2>2 DEF Journal
        <3> QED
            BY <1>1, <3>1 DEF Filled, Entered, Imports, Writing, ToWrite, Last, Upsert!Of
    <2> QED
        BY <2>1, <2>2
<1>3. \A i \in DOMAIN lists' : lists'[i].status = "IN_PROGRESS" =>
          \E q \in Callers : Imports(q, {"read", "create", "update", "ready"})' /\ Head(proc'[q].todo) = i
    BY DEF Journal, Imports, WithList
<1>4. journaled' <= now'
    BY DEF Journal, UpsertTypes
<1>5. \A q, r \in Callers : proc'[q].kind = "journal" /\ proc'[r].kind = "journal" => q = r
    BY DEF Journal
<1>6. \A row \in Upsert!Of(Last)' : row.data >= journaled' \/ InMiddle'
    BY <1>1 DEF Journal, Last, Upsert!Of
<1> QED
    BY <1>2, <1>3, <1>4, <1>5, <1>6 DEF Journal


LEMMA CallBegins ==
    ASSUME UpsertInv, UNCHANGED setting, NEW p \in Callers, NEW kind \in Upsert!Kind, Upsert!Begin(p, kind)
    PROVE  UpsertInv'
<1> DEFINE c == [Upsert!Idle EXCEPT !.kind = kind, !.step = "channel", !.t = now',
                                    !.at = IF kind = "legacy" THEN Null ELSE now']
<1>1. /\ proc[p].step = "idle" /\ Upsert!MayStep(p) /\ kind \in setting.kinds /\ now' = now + 1
      /\ kind = "journal" => \A q \in Callers : proc[q].kind # "journal"
      /\ proc' = [proc EXCEPT ![p] = c] /\ UNCHANGED <<setting, channels, lists, entries, journaled>>
    BY DEF Upsert!Begin
<1>2. UpsertTypes /\ now \in Nat /\ now' \in Nat /\ now <= now' /\ proc[p].kind = Null
    BY <1>1, CallerIs DEF UpsertInv, CallerOK, Upsert!Idle
<1>3. /\ c \in Caller /\ c.kind = kind /\ c.step = "channel" /\ c.t = now'
      /\ c.at = IF kind = "legacy" THEN Null ELSE now'
    BY <1>2, IdleIs DEF Caller, CallSteps
<1> HIDE DEF c
<1>4. CallerOK(c, now', channels', Len(lists'))
    BY <1>1, <1>2, <1>3 DEF CallerOK, StepsOf, WithChannel, WithList, Upsert!Kind
<1>5. UpsertTypes' /\ proc'[p] = c /\ \A q \in Callers \ {p} : proc'[q] = proc[q]
    BY <1>1, <1>2, <1>3, <1>4, CallerStays
<1>6. Ids'
    BY <1>1 DEF UpsertInv, Ids
<1>7. Alone'
    BY <1>1, <1>2, <1>3, <1>5, OthersWait DEF UpsertInv, Alone, CallOK, Upsert!OneRowPerKey
<1>8. Journal'
    <2>1. ~Writing(p) /\ ~Writing(p)' /\ proc[p].step \notin WithList /\ proc'[p].step \notin WithList
        BY <1>1, <1>3, <1>5 DEF Writing, WithList
    <2>2. ImportAndJournal => journaled <= now'
        BY <1>1, <1>2 DEF UpsertInv, Journal, UpsertTypes
    <2>3. proc'[p].kind = kind /\ proc'[p].t = now'
        BY <1>3, <1>5
    <2>4. ImportAndJournal /\ proc'[p].kind = "journal" =>
              journaled <= proc'[p].t /\ \A q \in Callers \ {p} : proc[q].kind # "journal"
        BY <1>1, <2>2, <2>3
    <2> QED
        BY <1>1, <1>2, <1>5, <2>1, <2>4, Aside DEF UpsertInv
<1> QED
    BY <1>5, <1>6, <1>7, <1>8 DEF UpsertInv

LEMMA ChannelIsFound ==
    ASSUME UpsertInv, UNCHANGED setting, NEW p \in Callers, Upsert!FindChannel(p)
    PROVE  UpsertInv'
<1> DEFINE next == IF channels = 0 THEN "channel_create" ELSE Upsert!AfterChannel(proc[p].kind)
           found == IF channels = 0 THEN Null ELSE channels
           c == [proc[p] EXCEPT !.step = next, !.sc = found]
<1>1. /\ proc[p].step = "channel" /\ Upsert!MayStep(p)
      /\ proc' = [proc EXCEPT ![p] = c] /\ UNCHANGED <<setting, channels, lists, entries, now, journaled>>
    BY DEF Upsert!FindChannel, Upsert!ChannelFound
<1>2. /\ UpsertTypes /\ now \in Nat /\ proc[p] \in Caller /\ CallerOK(proc[p], now, channels, Len(lists))
      /\ channels \in Nat
    BY CallerIs DEF UpsertInv
<1>3. /\ proc[p].kind \in {"import", "journal", "refresh", "legacy"}
      /\ next \in {"channel_create", "list", "active", "existing"} /\ next \in StepsOf(proc[p].kind)
      /\ next \in WithChannel => found \in 1 .. channels
    BY <1>1, <1>2 DEF CallerOK, StepsOf, Upsert!AfterChannel, WithChannel, Caller, Upsert!Kind
<1>4. c \in Caller /\ c.step = next /\ c.sc = found /\ c.kind = proc[p].kind /\ c.t = proc[p].t /\ c.at = proc[p].at
    BY <1>2, <1>3 DEF Caller, CallSteps, WithChannel
<1>5. next = "channel_create" => channels = 0
    BY <1>3 DEF Upsert!AfterChannel
<1> HIDE DEF c, next, found
<1>6. CallerOK(c, now', channels', Len(lists'))
    BY <1>1, <1>2, <1>3, <1>4 DEF CallerOK, WithList
<1>7. UpsertTypes' /\ proc'[p] = c /\ \A q \in Callers \ {p} : proc'[q] = proc[q]
    <2>1. now' \in Nat /\ now <= now'
        BY <1>1, <1>2
    <2> QED
        BY <1>1, <1>2, <1>4, <1>6, <2>1, CallerStays
<1>8. Ids'
    BY <1>1 DEF UpsertInv, Ids
<1>9. Alone'
    BY <1>1, <1>2, <1>3, <1>4, <1>5, <1>7, OthersWait DEF UpsertInv, Alone, CallOK, Upsert!OneRowPerKey
<1>10. Journal'
    <2>1. ImportAndJournal /\ proc[p].kind = "journal" =>
              journaled <= proc[p].t /\ \A q \in Callers \ {p} : proc[q].kind # "journal"
        BY DEF UpsertInv, Journal, Entered
    <2> QED
        BY <1>1, <1>2, <1>3, <1>4, <1>7, <2>1, Aside DEF UpsertInv, Writing, WithList
<1> QED
    BY <1>7, <1>8, <1>9, <1>10 DEF UpsertInv

LEMMA ChannelIsCreated ==
    ASSUME UpsertInv, UNCHANGED setting, NEW p \in Callers, Upsert!CreateChannel(p)
    PROVE  UpsertInv'
<1> DEFINE next == Upsert!AfterChannel(proc[p].kind)
           c == [proc[p] EXCEPT !.step = next, !.sc = channels + 1]
<1>1. /\ proc[p].step = "channel_create" /\ Upsert!MayStep(p) /\ channels' = channels + 1
      /\ proc' = [proc EXCEPT ![p] = c] /\ UNCHANGED <<setting, lists, entries, now, journaled>>
    BY DEF Upsert!CreateChannel
<1>2. /\ UpsertTypes /\ now \in Nat /\ proc[p] \in Caller /\ CallerOK(proc[p], now, channels, Len(lists))
      /\ channels \in Nat
    BY CallerIs DEF UpsertInv
<1>3. /\ proc[p].kind \in {"import", "journal", "refresh", "legacy"}
      /\ next \in {"list", "active", "existing"} /\ next \in StepsOf(proc[p].kind)
    BY <1>1, <1>2 DEF CallerOK, StepsOf, Upsert!AfterChannel, Caller, Upsert!Kind
<1>4. c \in Caller /\ c.step = next /\ c.sc = channels + 1 /\ c.kind = proc[p].kind /\ c.t = proc[p].t /\ c.at = proc[p].at
    <2>1. channels + 1 \in Nat /\ next \in CallSteps
        BY <1>2, <1>3 DEF CallSteps, WithChannel
    <2> HIDE DEF next
    <2> QED
        BY <1>2, <2>1 DEF Caller
<1> HIDE DEF c, next
<1>5. CallerOK(c, now', channels', Len(lists'))
    BY <1>1, <1>2, <1>3, <1>4 DEF CallerOK, WithList
<1>6. \A i \in DOMAIN lists' : lists'[i].sc \in 1 .. channels'
    BY <1>1, <1>2 DEF UpsertTypes
<1>7. UpsertTypes' /\ proc'[p] = c /\ \A q \in Callers \ {p} : proc'[q] = proc[q]
    <2>1. /\ channels' \in Nat /\ channels <= channels' /\ journaled' \in Nat
          /\ lists' \in Seq(PriceList) /\ Len(lists) <= Len(lists')
          /\ entries' \in SUBSET PriceRow /\ IsFiniteSet(entries') /\ now' \in Nat /\ now <= now'
        BY <1>1, <1>2 DEF UpsertTypes
    <2>2. \A row \in entries' : RowOK(row)'
        BY <1>1, <1>2, <2>1, RowsStay
    <2> QED
        BY <1>1, <1>2, <1>4, <1>5, <1>6, <2>1, <2>2, CallerMoves
<1>8. Ids'
    BY <1>1 DEF UpsertInv, Ids
<1>9. setting.exclusive => channels = 0
    BY <1>1 DEF UpsertInv, Alone, CallOK
<1>10. Alone'
    <2>1. setting.exclusive => channels' <= 1 /\ Upsert!OneRowPerKey'
        BY <1>1, <1>9 DEF UpsertInv, Alone, Upsert!OneRowPerKey
    <2>2. CallOK(p)'
        BY <1>3, <1>4, <1>7 DEF CallOK
    <2> QED
        BY <1>1, <1>7, <2>1, <2>2, OthersWait DEF UpsertInv
<1>11. Journal'
    <2>1. ImportAndJournal /\ proc[p].kind = "journal" =>
              journaled <= proc[p].t /\ \A q \in Callers \ {p} : proc[q].kind # "journal"
        BY DEF UpsertInv, Journal, Entered
    <2> QED
        BY <1>1, <1>2, <1>3, <1>4, <1>7, <2>1, Aside DEF UpsertInv, Writing, WithList
<1> QED
    BY <1>7, <1>8, <1>10, <1>11 DEF UpsertInv


\* Something was wrong, or nothing is left to do: the caller is idle again.
LEMMA CallerEnds ==
    ASSUME UpsertInv, NEW p \in Callers, ImportAndJournal => proc[p].step \notin WithList, Upsert!MayStep(p),
           UNCHANGED <<setting, channels, lists, entries, now, journaled>>, Upsert!End(p)
    PROVE  UpsertInv'
<1>1. /\ UpsertTypes /\ now \in Nat /\ now' \in Nat /\ now <= now'
      /\ proc' = [proc EXCEPT ![p] = Upsert!Idle]
    BY CallerIs DEF UpsertInv, Upsert!End
<1>2. CallerOK(Upsert!Idle, now', channels', Len(lists'))
    BY IdleIs, CallersAssumption DEF CallerOK, StepsOf, WithChannel, WithList, Upsert!Kind, Upsert!Idle
<1>3. UpsertTypes' /\ proc'[p] = Upsert!Idle /\ \A q \in Callers \ {p} : proc'[q] = proc[q]
    BY <1>1, <1>2, IdleIs, CallerStays
<1>4. Ids'
    BY DEF UpsertInv, Ids
<1>5. Alone'
    BY <1>1, <1>3, IdleIs, OthersWait DEF UpsertInv, Alone, CallOK, Upsert!OneRowPerKey
<1>6. Journal'
    <2> SUFFICES ASSUME ImportAndJournal PROVE Journal'
        BY DEF Journal, ImportAndJournal
    <2>1. proc'[p].kind # "journal" /\ ~Writing(p) /\ ~Writing(p)' /\ proc'[p].step \notin WithList
        BY <1>3, IdleIs, CallersAssumption DEF Upsert!Kind, Writing, WithList
    <2> QED
        BY <1>1, <1>3, <2>1, Aside DEF UpsertInv
<1> QED
    BY <1>3, <1>4, <1>5, <1>6 DEF UpsertInv

LEMMA ListIsCreated ==
    ASSUME UpsertInv, UNCHANGED setting, NEW p \in Callers, Upsert!CreateList(p)
    PROVE  UpsertInv'
<1> SUFFICES ASSUME NEW n, n = Len(lists) + 1 PROVE UpsertInv'
    OBVIOUS
<1> DEFINE new == [sc |-> proc[p].sc, status |-> "IN_PROGRESS"]
           c == [proc[p] EXCEPT !.step = "read", !.todo = <<n>>, !.t = now', !.at = now']
<1>1. /\ proc[p].step = "list" /\ Upsert!MayStep(p) /\ now' = now + 1 /\ lists' = Append(lists, new)
      /\ proc' = [proc EXCEPT ![p] = c] /\ UNCHANGED <<setting, channels, entries, journaled>>
    BY DEF Upsert!CreateList
<1>2. /\ UpsertTypes /\ now \in Nat /\ proc[p] \in Caller /\ CallerOK(proc[p], now, channels, Len(lists))
      /\ channels \in Nat /\ journaled \in Nat /\ lists \in Seq(PriceList) /\ Len(lists) \in Nat
    BY CallerIs DEF UpsertInv
<1>3. proc[p].kind = "import" /\ proc[p].sc \in 1 .. channels /\ proc[p].kind \in setting.kinds
    BY <1>1, <1>2 DEF CallerOK, StepsOf, WithChannel
<1>4. /\ new \in PriceList /\ lists' \in Seq(PriceList) /\ Len(lists') = n /\ n \in Nat
      /\ \A i \in 1 .. Len(lists) : lists'[i] = lists[i]
      /\ lists'[n] = new
    BY <1>1, <1>2, <1>3 DEF PriceList
<1>5. \A i \in DOMAIN lists' : lists'[i].sc \in 1 .. channels'
    <2>1. \A i \in DOMAIN lists' : i \in 1 .. Len(lists) \/ i = n
        BY <1>2, <1>4
    <2>2. \A i \in 1 .. Len(lists) : lists[i].sc \in 1 .. channels
        BY <1>2 DEF UpsertTypes
    <2> QED
        BY <1>1, <1>3, <1>4, <2>1, <2>2
<1>6. /\ c \in Caller /\ c.step = "read" /\ c.todo = <<n>> /\ c.t = now' /\ c.at = now' /\ c.kind = "import"
      /\ c.sc = proc[p].sc
    <2>1. <<n>> \in Seq(Nat) /\ now' \in Nat
        BY <1>1, <1>2, <1>4
    <2> QED
        BY <1>2, <1>3, <2>1 DEF Caller, CallSteps, WithChannel
<1>7. Len(c.todo) = 1 /\ Head(c.todo) = n /\ DOMAIN c.todo = {1} /\ c.todo[1] = n /\ c.todo # <<>>
    BY <1>6
<1> HIDE DEF c, new
<1>8. CallerOK(c, now', channels', Len(lists'))
    BY <1>1, <1>2, <1>3, <1>4, <1>6, <1>7 DEF CallerOK, StepsOf, WithList, WithChannel
<1>9. UpsertTypes' /\ proc'[p] = c /\ \A q \in Callers \ {p} : proc'[q] = proc[q]
    <2>1. /\ channels' \in Nat /\ channels <= channels' /\ journaled' \in Nat
          /\ lists' \in Seq(PriceList) /\ Len(lists) <= Len(lists')
          /\ entries' \in SUBSET PriceRow /\ IsFiniteSet(entries') /\ now' \in Nat /\ now <= now'
        BY <1>1, <1>2, <1>4 DEF UpsertTypes
    <2>2. \A row \in entries' : RowOK(row)'
        BY <1>1, <1>2, <2>1, RowsStay
    <2> QED
        BY <1>1, <1>2, <1>5, <1>6, <1>8, <2>1, <2>2, CallerMoves
<1>10. Ids'
    BY <1>1 DEF UpsertInv, Ids
<1>11. Alone' /\ (setting.exclusive => \A q \in Callers \ {p} : ~Upsert!InCall(q))
    <2>1. setting.exclusive => channels' <= 1 /\ Upsert!OneRowPerKey'
        BY <1>1 DEF UpsertInv, Alone, Upsert!OneRowPerKey
    <2>2. CallOK(p)'
        BY <1>6, <1>9 DEF CallOK
    <2> QED
        BY <1>1, <1>9, <2>1, <2>2, OthersWait DEF UpsertInv
<1>12. Journal'
    <2> SUFFICES ASSUME ImportAndJournal PROVE Journal'
        BY <1>1 DEF Journal, ImportAndJournal
    <2>1. \A q \in Callers : ~Writing(q) /\ ~Writing(q)'
        BY <1>1, <1>6, <1>9, <1>11 DEF Writing, Upsert!InCall, ImportAndJournal
    <2>2. Upsert!Of(n)' = {} /\ Last' = n
        <3>1. \A row \in entries : row.list \in 1 .. Len(lists)
            BY <1>2 DEF UpsertTypes, RowOK
        <3> QED
            BY <1>1, <1>2, <1>4, <3>1 DEF Upsert!Of, Last
    <2>3. journaled' <= now' /\ journaled <= now'
        BY <1>1, <1>2 DEF UpsertInv, Journal
    <2>4. ASSUME NEW q \in Callers PROVE Filled(q)' /\ Entered(q)'
        <3>1. CASE q = p
            <4>1. Upsert!Of(Head(proc[q].todo))' = {}
                BY <1>7, <1>9, <2>2, <3>1
            <4>2. Filled(q)'
                BY <1>1, <1>6, <1>9, <2>3, <3>1, <4>1 DEF Filled, Imports
            <4>3. Entered(q)'
                BY <1>6, <1>9, <2>1, <3>1 DEF Entered
            <4> QED
                BY <4>2, <4>3
        <3>2. CASE q # p
            <4>1. Filled(q) /\ Entered(q) /\ proc'[q] = proc[q]
                BY <1>9, <3>2 DEF UpsertInv, Journal
            <4>2. Imports(q, {"read", "create", "update"}) => Head(proc[q].todo) # n
                <5>1. CallerOK(proc[q], now, channels, Len(lists)) /\ proc[q].todo \in Seq(Nat)
                    BY CallerIs DEF UpsertInv
                <5> QED
                    BY <1>2, <5>1 DEF Imports, CallerOK, WithList
            <4> QED
                BY <1>1, <2>1, <2>2, <4>1, <4>2 DEF Filled, Entered, Imports, Upsert!Of
        <3> QED
            BY <3>1, <3>2
    <2>5. ASSUME NEW i \in DOMAIN lists', lists'[i].status = "IN_PROGRESS"
          PROVE  \E q \in Callers : Imports(q, {"read", "create", "update", "ready"})' /\ Head(proc'[q].todo) = i
        <3>1. CASE i = n
            BY <1>6, <1>7, <1>9, <3>1 DEF Imports
        <3>2. CASE i # n
            <4>1. i \in DOMAIN lists /\ lists[i].status = "IN_PROGRESS"
                BY <1>2, <1>4, <2>5, <3>2
            <4>2. PICK q \in Callers : Imports(q, {"read", "create", "update", "ready"}) /\ Head(proc[q].todo) = i
                BY <4>1 DEF UpsertInv, Journal
            <4>3. q # p
                BY <1>1, <4>2 DEF Imports
            <4> QED
                BY <1>9, <4>2, <4>3 DEF Imports
        <3> QED
            BY <3>1, <3>2
    <2>6. \A q, r \in Callers : proc'[q].kind = "journal" /\ proc'[r].kind = "journal" => q = r
        BY <1>3, <1>6, <1>9 DEF UpsertInv, Journal
    <2> QED
        <3>1. Upsert!Of(Last)' = {}
            BY <2>2
        <3> QED
            BY <2>3, <2>4, <2>5, <2>6, <3>1 DEF Journal
<1> QED
    BY <1>9, <1>10, <1>11, <1>12 DEF UpsertInv

\* Of the lists of a sale channel in some state, the newest is one of them.
LEMMA GreatestOf ==
    ASSUME NEW n \in Nat, NEW S \in SUBSET (1 .. n), S # {}
    PROVE  \E m \in S : \A k \in S : k <= m
<1> DEFINE rest == {i \in Nat : \E k \in S : i + k = n}
<1>1. ASSUME NEW k \in S PROVE k \in Nat /\ n - k \in rest
    <2>1. k \in Nat /\ k <= n
        OBVIOUS
    <2> QED
        BY <2>1
<1>2. rest \in SUBSET Nat /\ rest # {}
    BY <1>1
<1>3. PICK t \in rest : \A i \in rest : ~(<<i, t>> \in OpToRel(<, Nat))
    BY <1>2, NatLessThanWellFounded, WFMin
<1>4. \A i \in rest : t <= i
    <2>1. \A i \in rest : i \in Nat /\ t \in Nat /\ ~(i < t)
        BY <1>2, <1>3 DEF OpToRel
    <2> QED
        BY <2>1
<1>5. PICK m \in S : t + m = n
    OBVIOUS
<1>6. ASSUME NEW k \in S PROVE k <= m
    <2>1. k \in Nat /\ m \in Nat /\ n - k \in Nat /\ t <= n - k /\ t \in Nat
        BY <1>1, <1>4
    <2> QED
        BY <2>1, <1>5
<1> QED
    BY <1>6

LEMMA NewestIs ==
    ASSUME UpsertTypes, NEW sc, NEW status, Upsert!Latest(sc, status) # {}
    PROVE  LET found == Upsert!Latest(sc, status)
           IN  /\ Upsert!Newest(found) \in found /\ Upsert!Newest(found) \in 1 .. Len(lists)
               /\ \A i \in found : i <= Upsert!Newest(found)
<1> DEFINE found == Upsert!Latest(sc, status)
<1>1. found \in SUBSET (1 .. Len(lists)) /\ Len(lists) \in Nat
    BY DEF Upsert!Latest, UpsertTypes
<1>2. \E m \in found : \A k \in found : k <= m
    BY <1>1, GreatestOf
<1> QED
    BY <1>1, <1>2 DEF Upsert!Newest

LEMMA ExistingIsFound ==
    ASSUME UpsertInv, UNCHANGED setting, NEW p \in Callers, Upsert!FindExisting(p)
    PROVE  UpsertInv'
<1> DEFINE ready == Upsert!Latest(proc[p].sc, "READY")
           c == [proc[p] EXCEPT !.step = "read", !.todo = <<Upsert!Newest(ready)>>]
<1>1. /\ proc[p].step = "existing" /\ Upsert!MayStep(p)
      /\ UNCHANGED <<setting, channels, lists, entries, now, journaled>>
      /\ IF ready = {} THEN Upsert!End(p) ELSE proc' = [proc EXCEPT ![p] = c]
    BY DEF Upsert!FindExisting
<1>2. /\ UpsertTypes /\ now \in Nat /\ proc[p] \in Caller /\ CallerOK(proc[p], now, channels, Len(lists))
      /\ channels \in Nat /\ lists \in Seq(PriceList) /\ Len(lists) \in Nat
    BY CallerIs DEF UpsertInv
<1>3. CASE ready = {}
    BY <1>1, <1>3, CallerEnds DEF WithList
<1>4. CASE ready # {}
    <2>1. Upsert!Newest(ready) \in 1 .. Len(lists)
        BY <1>4, NewestIs DEF UpsertInv
    <2> DEFINE n == Upsert!Newest(ready)
    <2> HIDE DEF n
    <2>2. /\ c \in Caller /\ c.step = "read" /\ c.todo = <<n>> /\ c.t = proc[p].t /\ c.at = proc[p].at
          /\ c.kind = proc[p].kind /\ c.sc = proc[p].sc
        <3>1. <<n>> \in Seq(Nat)
            BY <1>2, <2>1 DEF n
        <3>2. c = [proc[p] EXCEPT !.step = "read", !.todo = <<n>>]
            BY DEF n
        <3> HIDE DEF c
        <3> QED
            BY <1>2, <3>1, <3>2 DEF Caller, CallSteps, WithChannel
    <2>3. Len(c.todo) = 1 /\ Head(c.todo) = n /\ DOMAIN c.todo = {1} /\ c.todo[1] = n /\ c.todo # <<>>
        BY <2>2
    <2>4. n \in 1 .. Len(lists)
        BY <2>1 DEF n
    <2> HIDE DEF c
    <2>5. proc[p].kind \in {"refresh", "legacy"}
        BY <1>1, <1>2 DEF CallerOK, StepsOf, Caller, Upsert!Kind
    <2>6. CallerOK(c, now', channels', Len(lists'))
        BY <1>1, <1>2, <2>2, <2>3, <2>4, <2>5 DEF CallerOK, StepsOf, WithList, WithChannel
    <2>7. UpsertTypes' /\ proc'[p] = c /\ \A q \in Callers \ {p} : proc'[q] = proc[q]
        <3>1. now' \in Nat /\ now <= now' /\ proc' = [proc EXCEPT ![p] = c]
            BY <1>1, <1>2, <1>4
        <3> QED
            BY <1>1, <1>2, <2>2, <2>6, <3>1, CallerStays
    <2>8. Ids'
        BY <1>1 DEF UpsertInv, Ids
    <2>9. Alone'
        <3>1. setting.exclusive => channels' <= 1 /\ Upsert!OneRowPerKey'
            BY <1>1 DEF UpsertInv, Alone, Upsert!OneRowPerKey
        <3>2. CallOK(p)'
            BY <2>2, <2>7 DEF CallOK
        <3> QED
            BY <1>1, <2>7, <3>1, <3>2, OthersWait DEF UpsertInv
    <2>10. Journal'
        BY <1>1, <1>2, <2>5 DEF Journal, ImportAndJournal, CallerOK
    <2> QED
        BY <2>7, <2>8, <2>9, <2>10 DEF UpsertInv
<1> QED
    BY <1>3, <1>4


LEMMA ListIsPublished ==
    ASSUME UpsertInv, UNCHANGED setting, NEW p \in Callers, Upsert!SetReady(p)
    PROVE  UpsertInv'
<1> SUFFICES ASSUME NEW n, n = Head(proc[p].todo) PROVE UpsertInv'
    OBVIOUS
<1>1. /\ proc[p].step = "ready" /\ Upsert!MayStep(p) /\ lists' = Upsert!Published(n)
      /\ proc' = [proc EXCEPT ![p] = Upsert!Idle] /\ UNCHANGED <<setting, channels, entries, now, journaled>>
    BY DEF Upsert!SetReady, Upsert!End
<1>2. /\ UpsertTypes /\ now \in Nat /\ proc[p] \in Caller /\ CallerOK(proc[p], now, channels, Len(lists))
      /\ channels \in Nat /\ journaled \in Nat /\ lists \in Seq(PriceList) /\ Len(lists) \in Nat
      /\ DOMAIN lists = 1 .. Len(lists)
    BY CallerIs DEF UpsertInv
<1>3. \A i \in DOMAIN lists : lists[i] \in PriceList /\ lists[i].sc \in 1 .. channels
    BY <1>2 DEF UpsertTypes
<1>4. /\ DOMAIN lists' = DOMAIN lists /\ lists' \in Seq(PriceList) /\ Len(lists') = Len(lists)
      /\ \A i \in DOMAIN lists : lists'[i] \in PriceList /\ lists'[i].sc = lists[i].sc
      /\ \A i \in DOMAIN lists : lists'[i].status = IF i = n THEN "READY" ELSE lists[i].status
    <2>1. /\ DOMAIN lists' = 1 .. Len(lists)
          /\ \A i \in DOMAIN lists : lists'[i] = IF i = n THEN [lists[i] EXCEPT !.status = "READY"] ELSE lists[i]
          /\ lists' = [i \in 1 .. Len(lists) |-> IF i = n THEN [lists[i] EXCEPT !.status = "READY"] ELSE lists[i]]
        BY <1>1, <1>2 DEF Upsert!Published
    <2>2. \A i \in DOMAIN lists : /\ lists'[i] \in PriceList /\ lists'[i].sc = lists[i].sc
                                  /\ lists'[i].status = IF i = n THEN "READY" ELSE lists[i].status
        BY <1>3, <2>1 DEF PriceList
    <2>3. lists' \in [1 .. Len(lists) -> PriceList]
        BY <1>2, <2>1, <2>2
    <2> QED
        BY <1>2, <2>1, <2>2, <2>3
<1>5. CallerOK(Upsert!Idle, now', channels', Len(lists'))
    BY IdleIs, CallersAssumption DEF CallerOK, StepsOf, WithChannel, WithList, Upsert!Kind, Upsert!Idle
<1>6. UpsertTypes' /\ proc'[p] = Upsert!Idle /\ \A q \in Callers \ {p} : proc'[q] = proc[q]
    <2>1. /\ channels' \in Nat /\ channels <= channels' /\ journaled' \in Nat
          /\ lists' \in Seq(PriceList) /\ Len(lists) <= Len(lists')
          /\ entries' \in SUBSET PriceRow /\ IsFiniteSet(entries') /\ now' \in Nat /\ now <= now'
        BY <1>1, <1>2, <1>4 DEF UpsertTypes
    <2>2. \A row \in entries' : RowOK(row)'
        BY <1>1, <1>2, <2>1, RowsStay
    <2>3. \A i \in DOMAIN lists' : lists'[i].sc \in 1 .. channels'
        BY <1>1, <1>3, <1>4
    <2> QED
        BY <1>1, <1>2, <1>5, <2>1, <2>2, <2>3, IdleIs, CallerMoves
<1>7. Ids'
    BY <1>1 DEF UpsertInv, Ids
<1>8. Alone'
    <2>1. setting.exclusive => channels' <= 1 /\ Upsert!OneRowPerKey'
        BY <1>1 DEF UpsertInv, Alone, Upsert!OneRowPerKey
    <2>2. CallOK(p)'
        BY <1>6, IdleIs DEF CallOK
    <2> QED
        BY <1>1, <1>6, <2>1, <2>2, OthersWait DEF UpsertInv
<1>9. Journal'
    <2> SUFFICES ASSUME ImportAndJournal PROVE Journal'
        BY <1>1 DEF Journal, ImportAndJournal
    <2>1. Last' = Last /\ \A i : Upsert!Of(i)' = Upsert!Of(i)
        BY <1>1, <1>4 DEF Last, Upsert!Of
    <2>2. InMiddle' = InMiddle
        BY <1>1, <1>6, <2>1, IdleIs DEF InMiddle, Writing, ToWrite
    <2>3. ASSUME NEW q \in Callers PROVE Filled(q)' /\ Entered(q)'
        <3>1. CASE q = p
            BY <1>6, <3>1, IdleIs, CallersAssumption DEF Filled, Entered, Imports, Writing, Upsert!Kind
        <3>2. CASE q # p
            <4>1. Filled(q) /\ Entered(q) /\ proc'[q] = proc[q]
                BY <1>6, <3>2 DEF UpsertInv, Journal
            <4>2. Filled(q)'
                BY <1>1, <2>1, <2>2, <4>1 DEF Filled, Imports, Upsert!Of
            <4>3. Entered(q)'
                BY <1>1, <2>1, <4>1 DEF Entered, Writing, ToWrite, Upsert!Of
            <4> QED
                BY <4>2, <4>3
        <3> QED
            BY <3>1, <3>2
    <2>4. ASSUME NEW i \in DOMAIN lists', lists'[i].status = "IN_PROGRESS"
          PROVE  \E q \in Callers : Imports(q, {"read", "create", "update", "ready"})' /\ Head(proc'[q].todo) = i
        <3>1. i # n /\ i \in DOMAIN lists /\ lists[i].status = "IN_PROGRESS"
            BY <1>4, <2>4
        <3>2. PICK q \in Callers : Imports(q, {"read", "create", "update", "ready"}) /\ Head(proc[q].todo) = i
            BY <3>1 DEF UpsertInv, Journal
        <3> QED
            BY <1>6, <3>1, <3>2 DEF Imports
    <2>5. \A q, r \in Callers : proc'[q].kind = "journal" /\ proc'[r].kind = "journal" => q = r
        BY <1>6, IdleIs, CallersAssumption DEF UpsertInv, Journal, Upsert!Kind
    <2>6. journaled' <= now' /\ \A row \in Upsert!Of(Last)' : row.data >= journaled' \/ InMiddle'
        BY <1>1, <2>1, <2>2 DEF UpsertInv, Journal, Upsert!Of
    <2> QED
        BY <2>3, <2>4, <2>5, <2>6 DEF Journal
<1> QED
    BY <1>6, <1>7, <1>8, <1>9 DEF UpsertInv

LEMMA RowsAreRead ==
    ASSUME UpsertInv, UNCHANGED setting, NEW p \in Callers, Upsert!Read(p)
    PROVE  UpsertInv'
<1> DEFINE found == Upsert!Of(Head(proc[p].todo))
           twice == \E r, s \in found : r # s /\ r.key = s.key
           c == [proc[p] EXCEPT !.step = "create", !.seen = found]
<1>1. /\ proc[p].step = "read" /\ Upsert!MayStep(p)
      /\ UNCHANGED <<setting, channels, lists, entries, now, journaled>>
      /\ IF twice THEN Upsert!End(p) ELSE proc' = [proc EXCEPT ![p] = c]
    BY DEF Upsert!Read
<1>2. /\ UpsertTypes /\ now \in Nat /\ proc[p] \in Caller /\ CallerOK(proc[p], now, channels, Len(lists))
    BY CallerIs DEF UpsertInv
<1>3. found \in SUBSET PriceRow
    BY DEF UpsertInv, UpsertTypes, Upsert!Of
<1>4. CASE twice
    <2>1. ~setting.exclusive
        BY <1>4 DEF UpsertInv, Alone, Upsert!OneRowPerKey, Upsert!Of
    <2> QED
        BY <1>1, <1>4, <2>1, CallerEnds DEF ImportAndJournal
<1>5. CASE ~twice
    <2> HIDE DEF twice, found
    <2>1. /\ c \in Caller /\ c.step = "create" /\ c.todo = proc[p].todo /\ c.t = proc[p].t /\ c.at = proc[p].at
          /\ c.kind = proc[p].kind /\ c.sc = proc[p].sc /\ c.seen = found
        BY <1>2, <1>3 DEF Caller, CallSteps, WithChannel
    <2> HIDE DEF c
    <2>2. proc[p].kind \in {"import", "refresh", "legacy"}
        BY <1>1, <1>2 DEF CallerOK, StepsOf, Caller, Upsert!Kind
    <2>3. CallerOK(c, now', channels', Len(lists'))
        BY <1>1, <1>2, <2>1, <2>2 DEF CallerOK, StepsOf, WithList, WithChannel
    <2>4. UpsertTypes' /\ proc'[p] = c /\ \A q \in Callers \ {p} : proc'[q] = proc[q]
        <3>1. now' \in Nat /\ now <= now' /\ proc' = [proc EXCEPT ![p] = c]
            BY <1>1, <1>2, <1>5
        <3> QED
            BY <1>1, <1>2, <2>1, <2>3, <3>1, CallerStays
    <2>5. Ids'
        BY <1>1 DEF UpsertInv, Ids
    <2>6. Alone'
        <3>1. setting.exclusive => channels' <= 1 /\ Upsert!OneRowPerKey'
            BY <1>1 DEF UpsertInv, Alone, Upsert!OneRowPerKey
        <3>2. CallOK(p)'
            BY <1>1, <2>1, <2>4 DEF CallOK, found, Upsert!Of
        <3> QED
            BY <1>1, <2>4, <3>1, <3>2, OthersWait DEF UpsertInv
    <2>7. Journal'
        <3> SUFFICES ASSUME ImportAndJournal PROVE Journal'
            BY <1>1 DEF Journal, ImportAndJournal
        <3>1. Last' = Last /\ \A i : Upsert!Of(i)' = Upsert!Of(i)
            BY <1>1 DEF Last, Upsert!Of
        <3>2. InMiddle' = InMiddle
            BY <1>1, <2>1, <2>4, <3>1 DEF InMiddle, Writing, ToWrite
        <3>3. ASSUME NEW q \in Callers PROVE Filled(q)' /\ Entered(q)'
            <4>1. Filled(q) /\ Entered(q)
                BY DEF UpsertInv, Journal
            <4>2. Filled(q)'
                BY <1>1, <2>1, <2>4, <3>1, <3>2, <4>1 DEF Filled, Imports, Upsert!Of
            <4>3. Entered(q)'
                BY <1>1, <2>1, <2>4, <3>1, <4>1 DEF Entered, Writing, ToWrite, Upsert!Of
            <4> QED
                BY <4>2, <4>3
        <3>4. ASSUME NEW i \in DOMAIN lists', lists'[i].status = "IN_PROGRESS"
              PROVE  \E q \in Callers : Imports(q, {"read", "create", "update", "ready"})' /\ Head(proc'[q].todo) = i
            <4>1. PICK q \in Callers : Imports(q, {"read", "create", "update", "ready"}) /\ Head(proc[q].todo) = i
                BY <1>1, <3>4 DEF UpsertInv, Journal
            <4> QED
                BY <1>1, <2>1, <2>4, <4>1 DEF Imports
        <3>5. \A q, r \in Callers : proc'[q].kind = "journal" /\ proc'[r].kind = "journal" => q = r
            BY <2>1, <2>4 DEF UpsertInv, Journal
        <3>6. journaled' <= now' /\ \A row \in Upsert!Of(Last)' : row.data >= journaled' \/ InMiddle'
            BY <1>1, <3>1, <3>2 DEF UpsertInv, Journal, Upsert!Of
        <3> QED
            BY <3>3, <3>4, <3>5, <3>6 DEF Journal
    <2> QED
        BY <2>4, <2>5, <2>6, <2>7 DEF UpsertInv
<1> QED
    BY <1>4, <1>5


\* Rows are added under a number that no row has yet, or rewritten under their ids.
LEMMA RowsAdded ==
    ASSUME UpsertTypes, Ids, NEW added \in SUBSET PriceRow, IsFiniteSet(added),
           \A r \in added : r.id = <<Cardinality(entries), r.key>>,
           \A r, s \in added : r.key = s.key => r = s,
           entries' = entries \cup added
    PROVE  entries' \in SUBSET PriceRow /\ IsFiniteSet(entries') /\ Ids'
<1>1. IsFiniteSet(entries) /\ Cardinality(entries) \in Nat /\ entries \in SUBSET PriceRow
    BY FS_CardinalityType DEF UpsertTypes
<1>2. IsFiniteSet(entries') /\ Cardinality(entries') \in Nat /\ entries' \in SUBSET PriceRow
    BY <1>1, FS_Union, FS_CardinalityType
<1>3. /\ Cardinality(entries) <= Cardinality(entries')
      /\ Cardinality(entries) = Cardinality(entries') => entries = entries'
    BY <1>2, FS_Subset
<1>4. \A r \in entries : r.id[1] \in Nat /\ r.id[1] < Cardinality(entries)
    BY <1>1 DEF Ids, PriceRow
<1>5. \A r \in added : r.id[1] = Cardinality(entries)
    OBVIOUS
<1>6. \A r \in added : r \notin entries
    BY <1>1, <1>4, <1>5
<1>7. \A r \in entries' : r.id[1] < Cardinality(entries')
    <2>1. CASE added = {}
        BY <1>1, <1>4, <2>1
    <2>2. CASE added # {}
        <3>1. entries' # entries
            BY <1>6, <2>2
        <3>2. Cardinality(entries) < Cardinality(entries')
            BY <1>1, <1>2, <1>3, <3>1
        <3> QED
            BY <1>1, <1>2, <1>4, <1>5, <3>2
    <2> QED
        BY <2>1, <2>2
<1>8. \A r, s \in entries' : r.id = s.id => r = s
    <2> SUFFICES ASSUME NEW r \in entries', NEW s \in entries', r.id = s.id PROVE r = s
        OBVIOUS
    <2>1. CASE r \in entries /\ s \in entries
        BY <2>1 DEF Ids
    <2>2. CASE r \in added /\ s \in added
        <3>1. r.id[2] = r.key /\ s.id[2] = s.key
            BY <2>2
        <3>2. r.key = s.key
            BY <3>1
        <3> QED
            BY <2>2, <3>2
    <2>3. ~(r \in entries /\ s \in added) /\ ~(s \in entries /\ r \in added)
        BY <1>1, <1>4, <1>5
    <2> QED
        BY <2>1, <2>2, <2>3
<1> QED
    BY <1>2, <1>7, <1>8 DEF Ids

LEMMA RowsRewritten ==
    ASSUME UpsertTypes, Ids, NEW f \in [entries -> PriceRow], \A r \in entries : f[r].id = r.id,
           entries' = {f[r] : r \in entries}
    PROVE  entries' \in SUBSET PriceRow /\ IsFiniteSet(entries') /\ Ids'
<1>1. IsFiniteSet(entries) /\ f \in Surjection(entries, entries') /\ f \in Injection(entries, entries')
    BY DEF UpsertTypes, Surjection, Injection, IsInjective, Ids
<1>2. IsFiniteSet(entries') /\ Cardinality(entries') = Cardinality(entries)
    BY <1>1, FS_Surjection
<1>3. ASSUME NEW r \in entries' PROVE \E o \in entries : r = f[o] /\ r.id = o.id
    OBVIOUS
<1>4. \A r \in entries' : r.id[1] < Cardinality(entries')
    BY <1>2, <1>3 DEF Ids
<1>5. ASSUME NEW r \in entries', NEW s \in entries', r.id = s.id PROVE r = s
    <2>1. PICK o \in entries : r = f[o] /\ r.id = o.id
        BY <1>3
    <2>2. PICK u \in entries : s = f[u] /\ s.id = u.id
        BY <1>3
    <2> QED
        BY <1>5, <2>1, <2>2 DEF Ids
<1> QED
    BY <1>2, <1>4, <1>5 DEF Ids

LEMMA SameCardinality == \A S : Upsert!Cardinality(S) = Cardinality(S)
  BY DEF Upsert!Cardinality, Cardinality

\* The id of a new row.
LEMMA NewId ==
    ASSUME UpsertTypes, NEW key \in Rows
    PROVE  /\ <<Upsert!Cardinality(entries), key>> = <<Cardinality(entries), key>>
           /\ <<Cardinality(entries), key>> \in Nat \X Rows
  BY SameCardinality, FS_CardinalityType DEF UpsertTypes

LEMMA RowsAreCreated ==
    ASSUME UpsertInv, UNCHANGED setting, NEW p \in Callers, Upsert!Create(p)
    PROVE  UpsertInv'
<1> SUFFICES ASSUME NEW n, n = Head(proc[p].todo) PROVE UpsertInv'
    OBVIOUS
<1> DEFINE new(key) == Upsert!NewRow(n, key, proc[p].t, now')
           missing == Upsert!Missing(proc[p].seen)
           added == {new(key) : key \in missing}
           c == [proc[p] EXCEPT !.step = "update"]
<1>1. /\ proc[p].step = "create" /\ Upsert!MayStep(p) /\ now' = now + 1
      /\ entries' = entries \cup added /\ proc' = [proc EXCEPT ![p] = c]
      /\ UNCHANGED <<setting, channels, lists, journaled>>
    BY DEF Upsert!Create, Upsert!Goto
<1>2. /\ UpsertTypes /\ now \in Nat /\ proc[p] \in Caller /\ CallerOK(proc[p], now, channels, Len(lists))
      /\ channels \in Nat /\ journaled \in Nat /\ lists \in Seq(PriceList) /\ Len(lists) \in Nat
      /\ proc[p].todo \in Seq(Nat)
    BY CallerIs DEF UpsertInv
<1>3. /\ proc[p].kind \in {"import", "refresh", "legacy"} /\ n \in 1 .. Len(lists) /\ proc[p].t \in 1 .. now
    BY <1>1, <1>2 DEF CallerOK, StepsOf, Caller, Upsert!Kind, WithList
<1>4. missing \subseteq Upsert!Key /\ Upsert!Key \subseteq Rows
    BY DEF Upsert!Missing, Upsert!Key, Rows
<1>5. ASSUME NEW key \in missing
      PROVE  /\ new(key) \in PriceRow /\ new(key).id = <<Cardinality(entries), key>>
             /\ new(key).list = n /\ new(key).key = key /\ new(key).data = proc[p].t /\ new(key).at = now'
    <2>1. n \in Nat /\ key \in Rows /\ proc[p].t \in Nat /\ now' \in Nat
        BY <1>1, <1>2, <1>3, <1>4
    <2> HIDE DEF new
    <2>2. new(key) = [id |-> <<Upsert!Cardinality(entries), key>>, list |-> n, key |-> key,
                      data |-> proc[p].t, at |-> now']
        BY DEF new, Upsert!NewRow
    <2>3. /\ <<Upsert!Cardinality(entries), key>> = <<Cardinality(entries), key>>
          /\ <<Cardinality(entries), key>> \in Nat \X Rows
        BY <1>2, <2>1, NewId
    <2> HIDE DEF new
    <2> QED
        BY <2>1, <2>2, <2>3 DEF PriceRow
<1>6. IsFiniteSet(added)
    <2>1. added \in SUBSET (({new("simple")}) \cup {new("component")})
        BY <1>4 DEF Rows
    <2>2. IsFiniteSet({new("simple")} \cup {new("component")})
        BY FS_Singleton, FS_Union
    <2> QED
        BY <2>1, <2>2, FS_Subset
<1>7. /\ added \in SUBSET PriceRow
      /\ \A r \in added : /\ r.key \in missing /\ r.list = n /\ r.data = proc[p].t /\ r.at = now'
                          /\ r.id = <<Cardinality(entries), r.key>>
      /\ \A r, s \in added : r.key = s.key => r = s
    BY <1>5
<1> HIDE DEF new, missing, added
<1>8. entries' \in SUBSET PriceRow /\ IsFiniteSet(entries') /\ Ids'
    BY <1>1, <1>2, <1>6, <1>7, RowsAdded DEF UpsertInv
<1>9. /\ c \in Caller /\ c.step = "update" /\ c.todo = proc[p].todo /\ c.t = proc[p].t /\ c.at = proc[p].at
      /\ c.kind = proc[p].kind /\ c.sc = proc[p].sc /\ c.seen = proc[p].seen
    BY <1>2 DEF Caller, CallSteps, WithChannel
<1> HIDE DEF c
<1>10. CallerOK(c, now', channels', Len(lists'))
    BY <1>1, <1>2, <1>3, <1>9 DEF CallerOK, StepsOf, WithList, WithChannel
<1>11. UpsertTypes' /\ proc'[p] = c /\ \A q \in Callers \ {p} : proc'[q] = proc[q]
    <2>1. /\ channels' \in Nat /\ channels <= channels' /\ journaled' \in Nat
          /\ lists' \in Seq(PriceList) /\ Len(lists) <= Len(lists') /\ now' \in Nat /\ now <= now'
          /\ \A i \in DOMAIN lists' : lists'[i].sc \in 1 .. channels'
        BY <1>1, <1>2 DEF UpsertTypes
    <2>2. \A row \in added : RowOK(row)'
        <3>1. \A row \in added : /\ row.list \in 1 .. Len(lists') /\ row.data \in 1 .. now'
                                 /\ row.at >= row.data /\ row.key \in Upsert!Key
            BY <1>1, <1>2, <1>3, <1>4, <1>7
        <3> QED
            BY <1>1, <3>1 DEF RowOK, Upsert!Key
    <2>3. \A row \in entries' : RowOK(row)'
        BY <1>1, <1>2, <2>1, <2>2, RowsStay
    <2> QED
        BY <1>1, <1>2, <1>8, <1>9, <1>10, <2>1, <2>3, CallerMoves
<1>12. setting.exclusive => proc[p].seen = Upsert!Of(n)
    BY <1>1 DEF UpsertInv, Alone, CallOK
<1>13. setting.exclusive => \A r \in added, s \in Upsert!Of(n) : r.key # s.key
    BY <1>7, <1>12 DEF missing, Upsert!Missing
<1>14. Alone' /\ (setting.exclusive => \A q \in Callers \ {p} : ~Upsert!InCall(q))
    <2>1. setting.exclusive => channels' <= 1
        BY <1>1 DEF UpsertInv, Alone
    <2>2. setting.exclusive => Upsert!OneRowPerKey'
        <3> SUFFICES ASSUME setting.exclusive, NEW r \in entries', NEW s \in entries', r.list = s.list, r.key = s.key
                     PROVE  r = s
            BY DEF Upsert!OneRowPerKey
        <3>1. CASE r \in entries /\ s \in entries
            BY <3>1 DEF UpsertInv, Alone, Upsert!OneRowPerKey
        <3>2. CASE r \in added /\ s \in added
            BY <1>7, <3>2
        <3>3. ~(r \in added /\ s \in entries) /\ ~(s \in added /\ r \in entries)
            BY <1>7, <1>13 DEF Upsert!Of
        <3> QED
            BY <1>1, <3>1, <3>2, <3>3
    <2>3. setting.exclusive => CallOK(p)'
        BY <1>1, <1>9, <1>11, <1>12 DEF CallOK, Upsert!Of
    <2> QED
        BY <1>1, <1>11, <2>1, <2>2, <2>3, OthersWait DEF UpsertInv
<1>15. Journal'
    <2> SUFFICES ASSUME ImportAndJournal PROVE Journal'
        BY <1>1 DEF Journal, ImportAndJournal
    <2>1. proc[p].kind = "import" /\ proc[p].at = proc[p].t /\ Imports(p, {"read", "create"})
        BY <1>1, <1>2, <1>3 DEF CallerOK, ImportAndJournal, Imports
    <2>2. /\ Last' = Last /\ \A i : i # n => Upsert!Of(i)' = Upsert!Of(i)
          /\ Upsert!Of(n)' = Upsert!Of(n) \cup added
        BY <1>1, <1>7 DEF Last, Upsert!Of
    <2>3. \A q \in Callers : ~Writing(q) /\ ~Writing(q)'
        BY <1>1, <1>9, <1>11, <1>14 DEF Writing, Upsert!InCall, ImportAndJournal
    <2>4. ~InMiddle
        BY <2>3 DEF InMiddle
    <2>5. \A row \in added : row.at # Null /\ row.at = now + 1
        BY <1>1, <1>2, <1>7, CallersAssumption
    <2>6. Upsert!Of(n) # {} => added = {}
        <3>1. Upsert!Key = {"simple"}
            BY DEF ImportAndJournal, Upsert!Key
        <3>2. \A s \in Upsert!Of(n) : s.key = "simple"
            BY <1>2, <3>1 DEF UpsertTypes, RowOK, Upsert!Of
        <3>3. \A r \in added : r.key = "simple"
            BY <1>4, <1>7, <3>1
        <3> QED
            BY <1>13, <3>2, <3>3 DEF ImportAndJournal
    <2>7. \A row \in Upsert!Of(Last)' : row.data >= journaled
        <3>1. \A row \in Upsert!Of(Last) : row.data >= journaled
            BY <2>4 DEF UpsertInv, Journal
        <3>2. CASE n = Last /\ Upsert!Of(n) = {}
            <4>1. journaled <= proc[p].t
                BY <2>1, <2>4, <3>2 DEF UpsertInv, Journal, Filled, Imports
            <4> QED
                BY <1>7, <2>2, <3>2, <4>1
        <3>3. CASE n = Last /\ Upsert!Of(n) # {}
            BY <2>2, <2>6, <3>1, <3>3
        <3>4. CASE n # Last
            BY <2>2, <3>1, <3>4
        <3> QED
            BY <3>2, <3>3, <3>4
    <2>8. ASSUME NEW q \in Callers PROVE Filled(q)' /\ Entered(q)'
        <3>1. Filled(q) /\ Entered(q)
            BY DEF UpsertInv, Journal
        <3>2. Entered(q)'
            <4>1. proc'[q].kind = proc[q].kind /\ proc'[q].t = proc[q].t
                BY <1>9, <1>11
            <4> QED
                BY <1>1, <2>3, <3>1, <4>1 DEF Entered
        <3>3. /\ proc'[q].kind = proc[q].kind /\ proc'[q].at = proc[q].at /\ proc'[q].todo = proc[q].todo
              /\ proc'[q].t = proc[q].t
              /\ proc'[q].step \in {"read", "create", "update"} => proc[q].step \in {"read", "create", "update"}
              /\ proc'[q].step \in {"read", "create"} => proc[q].step \in {"read", "create"}
            BY <1>1, <1>9, <1>11
        <3>4. Imports(q, {"read", "create", "update"}) => proc[q].at \in Nat /\ proc[q].at <= now
            <4>1. CallerOK(proc[q], now, channels, Len(lists))
                BY CallerIs DEF UpsertInv
            <4> QED
                BY <1>2, <4>1 DEF CallerOK, Imports
        <3>5. \A i : \A row \in Upsert!Of(i)' : row \in Upsert!Of(i) \/ row \in added
            BY <2>2
        <3>6. Imports(q, {"read", "create", "update"}) =>
                 \A row \in Upsert!Of(Head(proc[q].todo)) : row.at # Null /\ row.at > proc[q].at
            BY <3>1 DEF Filled
        <3>7. Imports(q, {"read", "create", "update"}) => \A row \in added : row.at # Null /\ row.at > proc[q].at
            BY <1>2, <2>5, <3>4
        <3>8. Imports(q, {"read", "create", "update"})' => Imports(q, {"read", "create", "update"})
            BY <3>3 DEF Imports
        <3>9. Imports(q, {"read", "create", "update"})' =>
                 \A row \in Upsert!Of(Head(proc[q].todo))' : row.at # Null /\ row.at > proc'[q].at
            BY <3>3, <3>5, <3>6, <3>7, <3>8
        <3>10. Imports(q, {"read", "create"})' /\ Head(proc'[q].todo) = Last' /\ Upsert!Of(Last)' = {} =>
                  journaled' <= proc'[q].t
            <4>1. Upsert!Of(Last)' = {} => Upsert!Of(Last) = {}
                BY <2>2
            <4> QED
                BY <1>1, <2>2, <2>4, <3>1, <3>3, <4>1 DEF Filled, Imports
        <3> QED
            BY <3>2, <3>9, <3>10 DEF Filled
    <2>9. ASSUME NEW i \in DOMAIN lists', lists'[i].status = "IN_PROGRESS"
          PROVE  \E q \in Callers : Imports(q, {"read", "create", "update", "ready"})' /\ Head(proc'[q].todo) = i
        <3>1. PICK q \in Callers : Imports(q, {"read", "create", "update", "ready"}) /\ Head(proc[q].todo) = i
            BY <1>1, <2>9 DEF UpsertInv, Journal
        <3> QED
            BY <1>1, <1>9, <1>11, <3>1 DEF Imports
    <2>10. \A q, r \in Callers : proc'[q].kind = "journal" /\ proc'[r].kind = "journal" => q = r
        BY <1>9, <1>11 DEF UpsertInv, Journal
    <2>11. journaled' <= now'
        BY <1>1, <1>2 DEF UpsertInv, Journal
    <2> QED
        BY <1>1, <2>7, <2>8, <2>9, <2>10, <2>11 DEF Journal
<1> QED
    BY <1>8, <1>11, <1>14, <1>15 DEF UpsertInv


LEMMA KeysStay ==
    ASSUME NEW f \in [entries -> PriceRow], \A r \in entries : f[r].list = r.list /\ f[r].key = r.key,
           entries' = {f[r] : r \in entries}, Upsert!OneRowPerKey
    PROVE  Upsert!OneRowPerKey'
<1> SUFFICES ASSUME NEW r \in entries', NEW s \in entries', r.list = s.list, r.key = s.key PROVE r = s
    BY DEF Upsert!OneRowPerKey
<1>1. PICK o \in entries : r = f[o]
    OBVIOUS
<1>2. PICK u \in entries : s = f[u]
    OBVIOUS
<1>3. o.list = u.list /\ o.key = u.key
    BY <1>1, <1>2
<1> QED
    BY <1>1, <1>2, <1>3 DEF Upsert!OneRowPerKey

\* Updated rows.
Updates(p) == [row \in entries |-> IF Upsert!Chosen(p, row) THEN Upsert!Stored(p, row) ELSE row]

LEMMA UpdatedIs ==
    ASSUME UpsertTypes, NEW p \in Callers, proc[p].step = "update"
    PROVE  /\ Updates(p) \in [entries -> PriceRow]
           /\ \A row \in entries :
                /\ Updates(p)[row].id = row.id /\ Updates(p)[row].list = row.list /\ Updates(p)[row].key = row.key
                /\ Upsert!Chosen(p, row) => Updates(p)[row].data = proc[p].t /\ Updates(p)[row].at = proc[p].at
                /\ ~Upsert!Chosen(p, row) => Updates(p)[row] = row
<1>1. proc[p].t \in Nat /\ proc[p].at \in Nat \cup {Null}
    <2>1. CallerOK(proc[p], now, channels, Len(lists)) /\ now \in Nat /\ proc[p] \in Caller
        BY CallerIs
    <2> QED
        BY <2>1 DEF CallerOK, Caller
<1>2. ASSUME NEW row \in entries
      PROVE  /\ Upsert!Stored(p, row) \in PriceRow
             /\ Upsert!Stored(p, row).id = row.id /\ Upsert!Stored(p, row).list = row.list
             /\ Upsert!Stored(p, row).key = row.key
             /\ Upsert!Stored(p, row).data = proc[p].t /\ Upsert!Stored(p, row).at = proc[p].at
    <2>1. row \in PriceRow
        BY DEF UpsertTypes
    <2> QED
        BY <1>1, <2>1 DEF Upsert!Stored, PriceRow
<1>3. \A row \in entries : row \in PriceRow
    BY DEF UpsertTypes
<1> QED
    BY <1>2, <1>3 DEF Updates

LEMMA RowsAreUpdated ==
    ASSUME UpsertInv, UNCHANGED setting, NEW p \in Callers, Upsert!Update(p)
    PROVE  UpsertInv'
<1> DEFINE c == IF proc[p].kind = "import" THEN [proc[p] EXCEPT !.step = "ready", !.seen = {}] ELSE Upsert!Idle
<1>1. /\ proc[p].step = "update" /\ Upsert!MayStep(p) /\ UNCHANGED <<setting, channels, lists, now, journaled>>
      /\ proc' = [proc EXCEPT ![p] = c]
    BY DEF Upsert!Update, Upsert!End
<1>2. /\ UpsertTypes /\ now \in Nat /\ proc[p] \in Caller /\ CallerOK(proc[p], now, channels, Len(lists))
      /\ channels \in Nat /\ journaled \in Nat /\ lists \in Seq(PriceList) /\ Len(lists) \in Nat
      /\ proc[p].todo \in Seq(Nat) /\ proc[p].t \in 1 .. now /\ proc[p].at \in {Null, proc[p].t}
    <2>1. CallerOK(proc[p], now, channels, Len(lists)) /\ UpsertTypes
        BY CallerIs DEF UpsertInv
    <2> QED
        BY <1>1, <2>1, CallerIs DEF CallerOK
<1>3. entries' = {Updates(p)[row] : row \in entries}
    BY DEF Upsert!Update, Updates
<1>4. /\ Updates(p) \in [entries -> PriceRow]
      /\ \A row \in entries :
            /\ Updates(p)[row].id = row.id /\ Updates(p)[row].list = row.list /\ Updates(p)[row].key = row.key
            /\ Upsert!Chosen(p, row) => Updates(p)[row].data = proc[p].t /\ Updates(p)[row].at = proc[p].at
            /\ ~Upsert!Chosen(p, row) => Updates(p)[row] = row
    BY <1>1, <1>2, UpdatedIs
<1>5. entries' \in SUBSET PriceRow /\ IsFiniteSet(entries') /\ Ids'
    BY <1>2, <1>3, <1>4, RowsRewritten DEF UpsertInv
<1>6. /\ c \in Caller
      /\ proc[p].kind = "import" =>
            /\ c.step = "ready" /\ c.todo = proc[p].todo /\ c.t = proc[p].t /\ c.at = proc[p].at
            /\ c.kind = proc[p].kind /\ c.sc = proc[p].sc
      /\ proc[p].kind # "import" => c = Upsert!Idle
    <2>1. CASE proc[p].kind = "import"
        <3>1. c = [proc[p] EXCEPT !.step = "ready", !.seen = {}]
            BY <2>1
        <3> HIDE DEF c
        <3> QED
            BY <1>2, <2>1, <3>1 DEF Caller, CallSteps, WithChannel
    <2>2. CASE proc[p].kind # "import"
        BY <2>2, IdleIs
    <2> QED
        BY <2>1, <2>2
<1> HIDE DEF c
<1>7. CallerOK(c, now', channels', Len(lists'))
    <2>1. CASE proc[p].kind = "import"
        BY <1>1, <1>2, <1>6, <2>1 DEF CallerOK, StepsOf, WithList, WithChannel
    <2>2. CASE proc[p].kind # "import"
        BY <1>6, <2>2, IdleIs, CallersAssumption DEF CallerOK, StepsOf, WithChannel, WithList, Upsert!Kind, Upsert!Idle
    <2> QED
        BY <2>1, <2>2
<1>8. UpsertTypes' /\ proc'[p] = c /\ \A q \in Callers \ {p} : proc'[q] = proc[q]
    <2>1. /\ channels' \in Nat /\ channels <= channels' /\ journaled' \in Nat
          /\ lists' \in Seq(PriceList) /\ Len(lists) <= Len(lists') /\ now' \in Nat /\ now <= now'
          /\ \A i \in DOMAIN lists' : lists'[i].sc \in 1 .. channels'
        BY <1>1, <1>2 DEF UpsertTypes
    <2>2. ASSUME NEW row \in entries PROVE RowOK(Updates(p)[row]) 
        <3>1. RowOK(row)
            BY <1>2 DEF UpsertTypes
        <3>2. proc[p].at = Null \/ proc[p].at >= proc[p].t
            BY <1>2
        <3> QED
            BY <1>2, <1>4, <3>1, <3>2 DEF RowOK
    <2>3. \A row \in entries' : RowOK(row)
        BY <1>3, <2>2
    <2>4. \A row \in entries' : RowOK(row)'
        BY <1>1, <2>3 DEF RowOK, Upsert!Key
    <2> QED
        BY <1>1, <1>2, <1>5, <1>6, <1>7, <2>1, <2>4, CallerMoves
<1>9. Alone'
    <2>1. setting.exclusive => channels' <= 1 /\ Upsert!OneRowPerKey'
        BY <1>1, <1>3, <1>4, KeysStay DEF UpsertInv, Alone
    <2>2. CallOK(p)'
        BY <1>6, <1>8, IdleIs DEF CallOK
    <2> QED
        BY <1>1, <1>8, <2>1, <2>2, OthersWait DEF UpsertInv
<1>10. Journal'
    <2> SUFFICES ASSUME ImportAndJournal PROVE Journal'
        BY <1>1 DEF Journal, ImportAndJournal
    <2>1. proc[p].kind = "import" /\ proc[p].at \in Nat /\ proc[p].at # Null
        BY <1>1, <1>2, CallersAssumption DEF CallerOK, StepsOf, ImportAndJournal
    <2>2. ASSUME NEW row \in entries PROVE ~Upsert!Chosen(p, row)
        <3> SUFFICES ASSUME Upsert!Chosen(p, row) PROVE FALSE
            OBVIOUS
        <3>1. PICK old \in proc[p].seen : old.id = row.id
            BY DEF Upsert!Chosen
        <3>2. row.at # Null /\ row.at < proc[p].at
            BY <2>1 DEF Upsert!Chosen, Upsert!Filter
        <3>3. old \in Upsert!Of(Head(proc[p].todo))
            BY <1>1 DEF UpsertInv, Alone, CallOK, ImportAndJournal
        <3>4. old = row
            BY <3>1, <3>3 DEF UpsertInv, Ids, Upsert!Of
        <3>5. row.at > proc[p].at
            BY <1>1, <2>1, <3>3, <3>4 DEF UpsertInv, Journal, Filled, Imports
        <3>6. row.at \in Nat
            BY <1>2, <3>2 DEF UpsertTypes, PriceRow
        <3> QED
            BY <2>1, <3>2, <3>5, <3>6
    <2>3. entries' = entries
        BY <1>3, <1>4, <2>2
    <2>4. Last' = Last /\ \A i : Upsert!Of(i)' = Upsert!Of(i)
        BY <1>1, <2>3 DEF Last, Upsert!Of
    <2>5. InMiddle' = InMiddle
        BY <1>1, <1>6, <1>8, <2>1, <2>4 DEF InMiddle, Writing, ToWrite
    <2>6. ASSUME NEW q \in Callers PROVE Filled(q)' /\ Entered(q)'
        <3>1. Filled(q) /\ Entered(q)
            BY DEF UpsertInv, Journal
        <3>2. Filled(q)'
            BY <1>1, <1>6, <1>8, <2>1, <2>4, <2>5, <3>1 DEF Filled, Imports, Upsert!Of
        <3>3. Entered(q)'
            BY <1>1, <1>6, <1>8, <2>1, <2>4, <3>1 DEF Entered, Writing, ToWrite, Upsert!Of
        <3> QED
            BY <3>2, <3>3
    <2>7. ASSUME NEW i \in DOMAIN lists', lists'[i].status = "IN_PROGRESS"
          PROVE  \E q \in Callers : Imports(q, {"read", "create", "update", "ready"})' /\ Head(proc'[q].todo) = i
        <3>1. PICK q \in Callers : Imports(q, {"read", "create", "update", "ready"}) /\ Head(proc[q].todo) = i
            BY <1>1, <2>7 DEF UpsertInv, Journal
        <3> QED
            BY <1>1, <1>6, <1>8, <2>1, <3>1 DEF Imports
    <2>8. \A q, r \in Callers : proc'[q].kind = "journal" /\ proc'[r].kind = "journal" => q = r
        BY <1>6, <1>8, <2>1 DEF UpsertInv, Journal
    <2>9. journaled' <= now' /\ \A row \in Upsert!Of(Last)' : row.data >= journaled' \/ InMiddle'
        BY <1>1, <2>4, <2>5 DEF UpsertInv, Journal, Upsert!Of
    <2> QED
        BY <2>6, <2>7, <2>8, <2>9 DEF Journal
<1> QED
    BY <1>5, <1>8, <1>9, <1>10 DEF UpsertInv

\* The lists a journal entry is for: of a sale channel's lists, the newest is among them.
LEMMA ActiveIs ==
    ASSUME UpsertTypes, NEW sc
    PROVE  /\ Upsert!Active(sc) \in Seq(Nat)
           /\ \A k \in DOMAIN Upsert!Active(sc) : Upsert!Active(sc)[k] \in 1 .. Len(lists)
           /\ lists # <<>> /\ lists[Len(lists)].sc = sc =>
                \E k \in DOMAIN Upsert!Active(sc) : Upsert!Active(sc)[k] = Len(lists)
<1> DEFINE of(status) == Upsert!Latest(sc, status)
           newestIn(status) == IF of(status) = {} THEN <<>> ELSE <<Upsert!Newest(of(status))>>
<1>1. Upsert!Active(sc) = newestIn("READY") \o newestIn("IN_PROGRESS")
    BY DEF Upsert!Active
<1>2. ASSUME NEW status, of(status) # {}
      PROVE  /\ Upsert!Newest(of(status)) \in 1 .. Len(lists)
             /\ \A i \in of(status) : i <= Upsert!Newest(of(status))
    BY <1>2, NewestIs
<1>3. lists \in Seq(PriceList) /\ Len(lists) \in Nat
    BY DEF UpsertTypes
<1>4. lists # <<>> /\ lists[Len(lists)].sc = sc => \E status \in {"READY", "IN_PROGRESS"} : Len(lists) \in of(status)
    <2> SUFFICES ASSUME lists # <<>>, lists[Len(lists)].sc = sc
                 PROVE  \E status \in {"READY", "IN_PROGRESS"} : Len(lists) \in of(status)
        OBVIOUS
    <2>1. Len(lists) \in DOMAIN lists /\ lists[Len(lists)] \in PriceList
        BY <1>3
    <2>2. lists[Len(lists)] = [sc |-> sc, status |-> lists[Len(lists)].status]
          /\ lists[Len(lists)].status \in {"READY", "IN_PROGRESS"}
        BY <2>1 DEF PriceList
    <2> QED
        BY <2>1, <2>2 DEF Upsert!Latest
<1>5. ASSUME NEW status
      PROVE  /\ newestIn(status) \in Seq(Nat) /\ Len(newestIn(status)) \in Nat
             /\ \A k \in DOMAIN newestIn(status) : newestIn(status)[k] \in 1 .. Len(lists)
             /\ Len(lists) \in of(status) => Len(newestIn(status)) = 1 /\ newestIn(status)[1] = Len(lists)
    <2>1. CASE of(status) = {}
        BY <2>1
    <2>2. CASE of(status) # {}
        <3> DEFINE i == Upsert!Newest(of(status))
        <3>1. i \in 1 .. Len(lists) /\ \A k \in of(status) : k <= i
            BY <1>2, <2>2
        <3>2. newestIn(status) = <<i>>
            BY <2>2
        <3>3. Len(lists) \in of(status) => i = Len(lists)
            BY <1>3, <3>1
        <3> HIDE DEF i, newestIn
        <3> QED
            BY <1>3, <3>1, <3>2, <3>3
    <2> QED
        BY <2>1, <2>2
<1> HIDE DEF newestIn, of
<1> DEFINE first == newestIn("READY")
           second == newestIn("IN_PROGRESS")
<1>6. /\ first \in Seq(Nat) /\ second \in Seq(Nat)
      /\ \A k \in DOMAIN first : first[k] \in 1 .. Len(lists)
      /\ \A k \in DOMAIN second : second[k] \in 1 .. Len(lists)
    BY <1>5
<1>7. lists # <<>> /\ lists[Len(lists)].sc = sc =>
          \/ Len(first) = 1 /\ first[1] = Len(lists)
          \/ Len(second) = 1 /\ second[1] = Len(lists)
    BY <1>4, <1>5
<1> HIDE DEF first, second
<1> DEFINE both == first \o second
<1>8. /\ both \in Seq(Nat) /\ DOMAIN both = 1 .. Len(first) + Len(second)
      /\ \A k \in 1 .. Len(first) + Len(second) :
            both[k] = IF k <= Len(first) THEN first[k] ELSE second[k - Len(first)]
      /\ Len(first) \in Nat /\ Len(second) \in Nat
      /\ DOMAIN first = 1 .. Len(first) /\ DOMAIN second = 1 .. Len(second)
    BY <1>6
<1>9. \A k \in DOMAIN both : both[k] \in 1 .. Len(lists)
    <2> SUFFICES ASSUME NEW k \in 1 .. Len(first) + Len(second) PROVE both[k] \in 1 .. Len(lists)
        BY <1>8
    <2>1. CASE k <= Len(first)
        BY <1>6, <1>8, <2>1
    <2>2. CASE k > Len(first)
        BY <1>6, <1>8, <2>2
    <2> QED
        BY <1>8, <2>1, <2>2
<1>10. lists # <<>> /\ lists[Len(lists)].sc = sc => \E k \in DOMAIN both : both[k] = Len(lists)
    <2>1. Len(first) = 1 => both[1] = first[1] /\ 1 \in DOMAIN both
        BY <1>8
    <2>2. Len(second) = 1 => both[Len(first) + 1] = second[1] /\ Len(first) + 1 \in DOMAIN both
        BY <1>8
    <2> QED
        BY <1>7, <2>1, <2>2
<1>11. Upsert!Active(sc) = both
    BY <1>1 DEF first, second
<1> QED
    BY <1>8, <1>9, <1>10, <1>11


LEMMA ActiveIsFound ==
    ASSUME UpsertInv, UNCHANGED setting, NEW p \in Callers, Upsert!FindActive(p)
    PROVE  UpsertInv'
<1> DEFINE todo == Upsert!Active(proc[p].sc)
           c == [proc[p] EXCEPT !.step = "entry", !.todo = todo]
<1>1. /\ proc[p].step = "active" /\ Upsert!MayStep(p)
      /\ UNCHANGED <<setting, channels, lists, entries, now, journaled>>
      /\ IF todo = <<>> THEN Upsert!End(p) ELSE proc' = [proc EXCEPT ![p] = c]
    BY DEF Upsert!FindActive
<1>2. /\ UpsertTypes /\ now \in Nat /\ proc[p] \in Caller /\ CallerOK(proc[p], now, channels, Len(lists))
      /\ channels \in Nat /\ lists \in Seq(PriceList) /\ Len(lists) \in Nat
    BY CallerIs DEF UpsertInv
<1>3. CASE todo = <<>>
    BY <1>1, <1>3, CallerEnds DEF WithList
<1>4. CASE todo # <<>>
    <2>1. /\ todo \in Seq(Nat) /\ \A k \in DOMAIN todo : todo[k] \in 1 .. Len(lists)
          /\ lists # <<>> /\ lists[Len(lists)].sc = proc[p].sc => \E k \in DOMAIN todo : todo[k] = Len(lists)
        BY <1>2, ActiveIs
    <2> HIDE DEF todo
    <2>2. /\ c \in Caller /\ c.step = "entry" /\ c.todo = todo /\ c.t = proc[p].t /\ c.at = proc[p].at
          /\ c.kind = proc[p].kind /\ c.sc = proc[p].sc
        BY <1>2, <2>1 DEF Caller, CallSteps, WithChannel
    <2> HIDE DEF c
    <2>3. proc[p].kind = "journal" /\ proc[p].sc \in 1 .. channels
        BY <1>1, <1>2 DEF CallerOK, StepsOf, Caller, Upsert!Kind, WithChannel
    <2>4. CallerOK(c, now', channels', Len(lists'))
        BY <1>1, <1>2, <1>4, <2>1, <2>2, <2>3 DEF CallerOK, StepsOf, WithList, WithChannel
    <2>5. UpsertTypes' /\ proc'[p] = c /\ \A q \in Callers \ {p} : proc'[q] = proc[q]
        <3>1. now' \in Nat /\ now <= now' /\ proc' = [proc EXCEPT ![p] = c]
            BY <1>1, <1>2, <1>4
        <3> QED
            BY <1>1, <1>2, <2>2, <2>4, <3>1, CallerStays
    <2>6. Ids'
        BY <1>1 DEF UpsertInv, Ids
    <2>7. Alone'
        <3>1. setting.exclusive => channels' <= 1 /\ Upsert!OneRowPerKey'
            BY <1>1 DEF UpsertInv, Alone, Upsert!OneRowPerKey
        <3>2. CallOK(p)'
            BY <2>2, <2>5 DEF CallOK
        <3> QED
            BY <1>1, <2>5, <3>1, <3>2, OthersWait DEF UpsertInv
    <2>8. Journal'
        <3> SUFFICES ASSUME ImportAndJournal PROVE Journal'
            BY <1>1 DEF Journal, ImportAndJournal
        <3>1. Last' = Last /\ \A i : Upsert!Of(i)' = Upsert!Of(i)
            BY <1>1 DEF Last, Upsert!Of
        <3>2. \E k \in DOMAIN todo : todo[k] = Len(lists)
            <4>1. channels <= 1
                BY DEF UpsertInv, Alone, ImportAndJournal
            <4>2. lists # <<>> /\ Len(lists) \in DOMAIN lists
                BY <1>2, <1>4, <2>1
            <4>3. lists[Len(lists)].sc \in 1 .. channels
                BY <1>2, <4>2 DEF UpsertTypes
            <4> QED
                BY <1>2, <2>1, <2>3, <4>1, <4>2, <4>3
        <3>3. Writing(p)' /\ ToWrite(p, Last)'
            BY <1>1, <2>2, <2>5, <3>2 DEF Writing, ToWrite, Last
        <3>4. InMiddle'
            BY <3>3 DEF InMiddle
        <3>5. ASSUME NEW q \in Callers PROVE Filled(q)' /\ Entered(q)'
            <4>1. Filled(q) /\ Entered(q)
                BY DEF UpsertInv, Journal
            <4>2. Filled(q)'
                BY <1>1, <2>2, <2>3, <2>5, <3>1, <3>4, <4>1 DEF Filled, Imports, Upsert!Of
            <4>3. Entered(q)'
                <5>1. CASE q = p
                    BY <1>1, <2>2, <2>5, <3>3, <4>1, <5>1 DEF Entered
                <5>2. CASE q # p
                    BY <1>1, <2>5, <3>1, <4>1, <5>2 DEF Entered, Writing, ToWrite, Upsert!Of
                <5> QED
                    BY <5>1, <5>2
            <4> QED
                BY <4>2, <4>3
        <3>6. ASSUME NEW i \in DOMAIN lists', lists'[i].status = "IN_PROGRESS"
              PROVE  \E q \in Callers : Imports(q, {"read", "create", "update", "ready"})' /\ Head(proc'[q].todo) = i
            <4>1. PICK q \in Callers : Imports(q, {"read", "create", "update", "ready"}) /\ Head(proc[q].todo) = i
                BY <1>1, <3>6 DEF UpsertInv, Journal
            <4> QED
                BY <1>1, <2>3, <2>5, <4>1 DEF Imports
        <3>7. \A q, r \in Callers : proc'[q].kind = "journal" /\ proc'[r].kind = "journal" => q = r
            BY <2>2, <2>5 DEF UpsertInv, Journal
        <3>8. journaled' <= now'
            BY <1>1 DEF UpsertInv, Journal
        <3> QED
            BY <3>4, <3>5, <3>6, <3>7, <3>8 DEF Journal
    <2> QED
        BY <2>5, <2>6, <2>7, <2>8 DEF UpsertInv
<1> QED
    BY <1>3, <1>4

\* What is left after the first.
LEMMA TailIs ==
    ASSUME NEW s \in Seq(Nat), s # <<>>
    PROVE  /\ Tail(s) \in Seq(Nat) /\ s[1] = Head(s)
           /\ \A k \in DOMAIN Tail(s) : k + 1 \in DOMAIN s /\ Tail(s)[k] = s[k + 1]
           /\ \A k \in DOMAIN s : k = 1 \/ (k - 1 \in DOMAIN Tail(s) /\ Tail(s)[k - 1] = s[k])
<1>1. /\ Len(s) \in Nat /\ Len(s) # 0 /\ DOMAIN s = 1 .. Len(s)
      /\ Tail(s) \in Seq(Nat) /\ Len(Tail(s)) = Len(s) - 1 /\ s[1] = Head(s)
    OBVIOUS
<1>2. DOMAIN Tail(s) = 1 .. Len(s) - 1
    BY <1>1
<1>3. \A k \in 1 .. Len(s) - 1 : Tail(s)[k] = s[k + 1]
    OBVIOUS
<1>4. ASSUME NEW k \in DOMAIN Tail(s) PROVE k + 1 \in DOMAIN s /\ Tail(s)[k] = s[k + 1]
    BY <1>1, <1>2, <1>3
<1>5. ASSUME NEW k \in DOMAIN s, k # 1 PROVE k - 1 \in DOMAIN Tail(s) /\ Tail(s)[k - 1] = s[k]
    <2>1. k \in Nat /\ k - 1 \in 1 .. Len(s) - 1 /\ (k - 1) + 1 = k
        BY <1>1, <1>5
    <2> QED
        BY <1>2, <1>3, <2>1
<1> QED
    BY <1>1, <1>4, <1>5

\* An entry has been written to the first of the caller's lists, and to no other.
LEMMA EntryIsWritten ==
    ASSUME UpsertInv, UNCHANGED <<setting, channels, lists>>, now' = now + 1, NEW p \in Callers,
           Writing(p), Upsert!MayStep(p), Upsert!Written(p),
           entries' \in SUBSET PriceRow, IsFiniteSet(entries'), Ids', \A row \in entries' : RowOK(row)',
           setting.exclusive => Upsert!OneRowPerKey',
           NEW n, n = Head(proc[p].todo),
           ImportAndJournal =>
                /\ \A i : i # n => Upsert!Of(i)' = Upsert!Of(i)
                /\ Upsert!Of(n)' # {} /\ \A row \in Upsert!Of(n)' : row.data = proc[p].t /\ row.at = now'
    PROVE  UpsertInv'
<1> DEFINE left == Tail(proc[p].todo)
           c == IF left = <<>> THEN Upsert!Idle ELSE [proc[p] EXCEPT !.step = "entry", !.todo = left]
<1>1. /\ proc' = [proc EXCEPT ![p] = c] /\ proc[p].step \in {"entry", "entry_create"}
      /\ journaled' = IF proc[p].t > journaled THEN proc[p].t ELSE journaled
    BY DEF Upsert!Written, Writing
<1>2. /\ UpsertTypes /\ now \in Nat /\ proc[p] \in Caller /\ CallerOK(proc[p], now, channels, Len(lists))
      /\ channels \in Nat /\ journaled \in Nat /\ lists \in Seq(PriceList) /\ Len(lists) \in Nat
      /\ proc[p].todo \in Seq(Nat) /\ now' \in Nat
    BY CallerIs DEF UpsertInv
<1>3. /\ proc[p].kind = "journal" /\ proc[p].t \in 1 .. now /\ proc[p].todo # <<>>
      /\ \A k \in DOMAIN proc[p].todo : proc[p].todo[k] \in 1 .. Len(lists)
    BY <1>1, <1>2 DEF CallerOK, StepsOf, Caller, Upsert!Kind, WithList
<1>4. /\ left \in Seq(Nat)
      /\ \A k \in DOMAIN left : k + 1 \in DOMAIN proc[p].todo /\ left[k] = proc[p].todo[k + 1]
      /\ \A k \in DOMAIN proc[p].todo : k = 1 \/ (k - 1 \in DOMAIN left /\ left[k - 1] = proc[p].todo[k])
      /\ proc[p].todo[1] = n
    BY <1>2, <1>3, TailIs
<1> HIDE DEF left
<1>5. /\ left = <<>> => c = Upsert!Idle
      /\ left # <<>> =>
            /\ c.step = "entry" /\ c.todo = left /\ c.t = proc[p].t /\ c.at = proc[p].at
            /\ c.kind = proc[p].kind /\ c.sc = proc[p].sc
      /\ c \in Caller
    <2>1. CASE left = <<>>
        BY <2>1, IdleIs
    <2>2. CASE left # <<>>
        <3>1. c = [proc[p] EXCEPT !.step = "entry", !.todo = left]
            BY <2>2
        <3> HIDE DEF c
        <3> QED
            BY <1>2, <1>4, <2>2, <3>1 DEF Caller, CallSteps, WithChannel
    <2> QED
        BY <2>1, <2>2
<1> HIDE DEF c
<1>6. CallerOK(c, now', channels', Len(lists'))
    <2>1. CASE left = <<>>
        BY <1>5, <2>1, IdleIs, CallersAssumption DEF CallerOK, StepsOf, WithChannel, WithList, Upsert!Kind, Upsert!Idle
    <2>2. CASE left # <<>>
        <3>1. \A k \in DOMAIN c.todo : c.todo[k] \in 1 .. Len(lists)
            BY <1>3, <1>4, <1>5, <2>2
        <3>2. c.t \in 1 .. now'
            BY <1>2, <1>3, <1>4, <1>5, <2>2
        <3> QED
            BY <1>1, <1>2, <1>3, <1>4, <1>5, <2>2, <3>1, <3>2 DEF CallerOK, StepsOf, WithList, WithChannel
    <2> QED
        BY <2>1, <2>2
<1>7. UpsertTypes' /\ proc'[p] = c /\ \A q \in Callers \ {p} : proc'[q] = proc[q]
    <2>1. /\ channels' \in Nat /\ channels <= channels' /\ journaled' \in Nat
          /\ lists' \in Seq(PriceList) /\ Len(lists) <= Len(lists') /\ now' \in Nat /\ now <= now'
          /\ \A i \in DOMAIN lists' : lists'[i].sc \in 1 .. channels'
        BY <1>1, <1>2, <1>3 DEF UpsertTypes
    <2> QED
        BY <1>1, <1>2, <1>5, <1>6, <2>1, CallerMoves
<1>8. Alone' /\ (setting.exclusive => \A q \in Callers \ {p} : ~Upsert!InCall(q))
    <2>1. setting.exclusive => channels' <= 1
        BY <1>1 DEF UpsertInv, Alone
    <2>2. CallOK(p)'
        BY <1>5, <1>7, IdleIs DEF CallOK
    <2> QED
        BY <1>1, <1>7, <2>1, <2>2, OthersWait DEF UpsertInv
<1>9. Journal'
    <2> SUFFICES ASSUME ImportAndJournal PROVE Journal'
        BY <1>1 DEF Journal, ImportAndJournal
    <2>1. /\ Last' = Last /\ \A i : i # n => Upsert!Of(i)' = Upsert!Of(i)
          /\ Upsert!Of(n)' # {} /\ \A row \in Upsert!Of(n)' : row.data = proc[p].t /\ row.at = now'
        BY DEF Last
    <2>2. journaled <= proc[p].t /\ journaled' = proc[p].t
        <3>1. journaled <= proc[p].t
            BY <1>3 DEF UpsertInv, Journal, Entered
        <3> QED
            BY <1>1, <1>2, <1>3, <3>1
    <2>3. \A q \in Callers \ {p} : ~Writing(q) /\ proc[q].kind # "journal"
        BY <1>3, <1>8 DEF Writing, Upsert!InCall, ImportAndJournal, UpsertInv, Journal
    <2>4. InMiddle' = (Writing(p)' /\ ToWrite(p, Last)')
        BY <1>7, <2>3 DEF InMiddle, Writing
    <2>5. ToWrite(p, Last) => n = Last \/ (Writing(p)' /\ ToWrite(p, Last)')
        BY <1>4, <1>5, <1>7, <2>1 DEF ToWrite, Writing
    <2>6. \/ ToWrite(p, Last)
          \/ Upsert!Of(Last) # {} /\ \A row \in Upsert!Of(Last) : row.data >= proc[p].t
        BY DEF UpsertInv, Journal, Entered
    <2>7. \/ Writing(p)' /\ ToWrite(p, Last)'
          \/ Upsert!Of(Last)' # {} /\ \A row \in Upsert!Of(Last)' : row.data >= proc[p].t
        <3>1. CASE n = Last
            <4>1. Upsert!Of(Last)' = Upsert!Of(n)'
                BY <2>1, <3>1
            <4> QED
                BY <1>3, <2>1, <4>1
        <3>2. CASE n # Last
            <4>1. Upsert!Of(Last)' = Upsert!Of(Last)
                BY <2>1, <3>2
            <4> QED
                BY <2>5, <2>6, <3>2, <4>1
        <3> QED
            BY <3>1, <3>2
    <2>8. ASSUME NEW q \in Callers PROVE Filled(q)' /\ Entered(q)'
        <3>1. CASE q = p
            <4>1. proc'[p].kind # "import" /\ (proc'[p].kind = "journal" => proc'[p].t = proc[p].t)
                  /\ (Writing(p)' => proc'[p].kind = "journal")
                BY <1>3, <1>5, <1>7, IdleIs, CallersAssumption DEF Upsert!Kind, Writing
            <4> QED
                BY <1>3, <2>2, <2>7, <3>1, <4>1 DEF Filled, Imports, Entered
        <3>2. CASE q # p
            <4>1. Filled(q) /\ proc'[q] = proc[q] /\ Entered(q)'
                BY <1>7, <2>3, <3>2 DEF UpsertInv, Journal, Entered, Writing
            <4>2. Imports(q, {"read", "create", "update"}) => proc[q].at \in Nat /\ proc[q].at <= now
                <5>1. CallerOK(proc[q], now, channels, Len(lists))
                    BY CallerIs DEF UpsertInv
                <5> QED
                    BY <1>2, <5>1 DEF CallerOK, Imports
            <4>3. Imports(q, {"read", "create", "update"}) =>
                    \A row \in Upsert!Of(Head(proc[q].todo))' : row.at # Null /\ row.at > proc[q].at
                <5> SUFFICES ASSUME Imports(q, {"read", "create", "update"}), NEW i, i = Head(proc[q].todo)
                             PROVE  \A row \in Upsert!Of(i)' : row.at # Null /\ row.at > proc[q].at
                    BY <4>1
                <5>1. CASE i = n
                    BY <1>2, <2>1, <4>2, <5>1, CallersAssumption
                <5>2. CASE i # n
                    BY <2>1, <4>1, <5>2 DEF Filled
                <5> QED
                    BY <5>1, <5>2
            <4>4. Upsert!Of(Last)' = {} => InMiddle'
                BY <2>4, <2>7
            <4> QED
                BY <4>1, <4>3, <4>4 DEF Filled, Imports
        <3> QED
            BY <3>1, <3>2
    <2>9. ASSUME NEW i \in DOMAIN lists', lists'[i].status = "IN_PROGRESS"
          PROVE  \E q \in Callers : Imports(q, {"read", "create", "update", "ready"})' /\ Head(proc'[q].todo) = i
        <3>1. PICK q \in Callers : Imports(q, {"read", "create", "update", "ready"}) /\ Head(proc[q].todo) = i
            BY <2>9 DEF UpsertInv, Journal
        <3> QED
            BY <1>3, <1>7, <3>1 DEF Imports
    <2>10. \A q, r \in Callers : proc'[q].kind = "journal" /\ proc'[r].kind = "journal" => q = r
        BY <1>7, <2>3
    <2>11. journaled' <= now'
        <3>1. now <= now'
            BY <1>2
        <3>2. proc[p].t \in Nat /\ proc[p].t <= now
            BY <1>2, <1>3
        <3> QED
            BY <1>2, <2>2, <3>1, <3>2
    <2>12. \A row \in Upsert!Of(Last)' : row.data >= journaled' \/ InMiddle'
        BY <2>2, <2>4, <2>7
    <2> QED
        BY <2>8, <2>9, <2>10, <2>11, <2>12 DEF Journal
<1> QED
    BY <1>7, <1>8, <1>9 DEF UpsertInv


LEMMA EntryIsCreated ==
    ASSUME UpsertInv, UNCHANGED setting, NEW p \in Callers, Upsert!EntryCreate(p)
    PROVE  UpsertInv'
<1> SUFFICES ASSUME NEW n, n = Head(proc[p].todo) PROVE UpsertInv'
    OBVIOUS
<1> DEFINE new == Upsert!NewRow(n, "simple", proc[p].t, now')
           added == {new}
<1>1. /\ proc[p].step = "entry_create" /\ Upsert!MayStep(p) /\ now' = now + 1
      /\ entries' = entries \cup added /\ Upsert!Written(p) /\ UNCHANGED <<setting, channels, lists>>
    BY DEF Upsert!EntryCreate
<1>2. /\ UpsertTypes /\ now \in Nat /\ proc[p] \in Caller /\ CallerOK(proc[p], now, channels, Len(lists))
      /\ lists \in Seq(PriceList) /\ Len(lists) \in Nat /\ proc[p].todo \in Seq(Nat) /\ now' \in Nat
    BY <1>1, CallerIs DEF UpsertInv
<1>3. n \in 1 .. Len(lists) /\ proc[p].t \in 1 .. now
    BY <1>1, <1>2 DEF CallerOK, StepsOf, Caller, Upsert!Kind, WithList
<1>4. new \in PriceRow /\ new.id = <<Cardinality(entries), new.key>>
      /\ new.list = n /\ new.key = "simple" /\ new.data = proc[p].t /\ new.at = now'
    <2>1. n \in Nat /\ proc[p].t \in Nat
        <3>1. n \in Nat
            BY <1>3
        <3>2. proc[p].t \in Nat
            BY <1>3
        <3> QED
            BY <3>1, <3>2
    <2>2. "simple" \in Rows
        BY DEF Rows
    <2>3. /\ <<Upsert!Cardinality(entries), "simple">> = <<Cardinality(entries), "simple">>
          /\ <<Cardinality(entries), "simple">> \in Nat \X Rows
        BY <1>2, <2>2, NewId
    <2>4. new = [id |-> <<Upsert!Cardinality(entries), "simple">>, list |-> n, key |-> "simple",
                 data |-> proc[p].t, at |-> now']
        BY DEF Upsert!NewRow
    <2> HIDE DEF new
    <2> QED
        BY <1>2, <2>1, <2>2, <2>3, <2>4 DEF PriceRow
<1> HIDE DEF new
<1>5. entries' \in SUBSET PriceRow /\ IsFiniteSet(entries') /\ Ids'
    <2>1. added \in SUBSET PriceRow /\ IsFiniteSet(added)
        BY <1>4, FS_Singleton
    <2> QED
        BY <1>1, <1>2, <1>4, <2>1, RowsAdded DEF UpsertInv
<1>6. \A row \in entries' : RowOK(row)'
    <2>1. now <= now' /\ proc[p].t \in 1 .. now' /\ now' >= proc[p].t
        BY <1>1, <1>2, <1>3
    <2>2. ASSUME NEW row, row = new PROVE RowOK(row)'
        BY <1>1, <1>3, <1>4, <2>1, <2>2 DEF RowOK, Upsert!Key
    <2>3. \A row \in entries : RowOK(row)'
        BY <1>1, <1>2, <2>1, RowsStay
    <2> QED
        BY <1>1, <2>2, <2>3
<1>7. setting.exclusive => Upsert!Of(n) = {}
    BY <1>1 DEF UpsertInv, Alone, CallOK
<1>8. setting.exclusive => Upsert!OneRowPerKey'
    <2> SUFFICES ASSUME setting.exclusive, NEW r \in entries', NEW s \in entries', r.list = s.list, r.key = s.key
                 PROVE  r = s
        BY DEF Upsert!OneRowPerKey
    <2>1. \A row \in entries : row.list # n
        BY <1>7 DEF Upsert!Of
    <2> QED
        BY <1>1, <1>4, <2>1 DEF UpsertInv, Alone, Upsert!OneRowPerKey
<1>9. ImportAndJournal =>
          /\ \A i : i # n => Upsert!Of(i)' = Upsert!Of(i)
          /\ Upsert!Of(n)' # {} /\ \A row \in Upsert!Of(n)' : row.data = proc[p].t /\ row.at = now'
    <2> SUFFICES ASSUME ImportAndJournal
                 PROVE  /\ \A i : i # n => Upsert!Of(i)' = Upsert!Of(i)
                        /\ Upsert!Of(n)' # {} /\ \A row \in Upsert!Of(n)' : row.data = proc[p].t /\ row.at = now'
        OBVIOUS
    <2>1. Upsert!Of(n)' = {new}
        BY <1>1, <1>4, <1>7 DEF ImportAndJournal, Upsert!Of
    <2>2. \A i : i # n => Upsert!Of(i)' = Upsert!Of(i)
        BY <1>1, <1>4 DEF Upsert!Of
    <2> QED
        BY <1>4, <2>1, <2>2
<1>10. Writing(p)
    BY <1>1 DEF Writing
<1> QED
    BY <1>1, <1>5, <1>6, <1>8, <1>9, <1>10, EntryIsWritten

LEMMA EntryIsMade ==
    ASSUME UpsertInv, UNCHANGED setting, NEW p \in Callers, Upsert!Entry(p)
    PROVE  UpsertInv'
<1> SUFFICES ASSUME NEW n, n = Head(proc[p].todo) PROVE UpsertInv'
    OBVIOUS
<1> DEFINE found == Upsert!Of(Head(proc[p].todo))
           stored(row) == [row EXCEPT !.data = proc[p].t, !.at = now']
           f == [row \in entries |-> IF row \in found THEN stored(row) ELSE row]
           c == [proc[p] EXCEPT !.step = "entry_create"]
<1>1. proc[p].step = "entry" /\ Upsert!MayStep(p) /\ UNCHANGED <<setting, channels, lists>>
    <2>1. proc[p].step = "entry" /\ Upsert!MayStep(p) /\ UNCHANGED <<channels, lists, calls>>
        BY Zenon DEF Upsert!Entry
    <2> QED
        BY <2>1
<1>2. \/ /\ Upsert!Cardinality(found) = 1
          /\ now' = now + 1
          /\ entries' = (entries \ found) \cup {stored(row) : row \in found}
          /\ Upsert!Written(p)
       \/ /\ found = {}
          /\ proc' = [proc EXCEPT ![p] = c]
          /\ UNCHANGED <<entries, now, journaled>>
       \/ /\ Upsert!Cardinality(found) > 1
          /\ Upsert!End(p)
          /\ UNCHANGED <<entries, now, journaled>>
    BY Zenon DEF Upsert!Entry, Upsert!Goto
<1> HIDE DEF stored, c
<1>3. /\ UpsertTypes /\ now \in Nat /\ proc[p] \in Caller /\ CallerOK(proc[p], now, channels, Len(lists))
      /\ lists \in Seq(PriceList) /\ Len(lists) \in Nat /\ proc[p].todo \in Seq(Nat)
    BY CallerIs DEF UpsertInv
<1>4. proc[p].kind = "journal" /\ n \in 1 .. Len(lists) /\ proc[p].t \in 1 .. now
    <2>1. proc[p].kind = "journal"
        BY <1>1, <1>3 DEF CallerOK, StepsOf, Caller, Upsert!Kind
    <2>2. n \in 1 .. Len(lists)
        BY <1>1, <1>3 DEF CallerOK, WithList
    <2>3. proc[p].t \in 1 .. now
        BY <1>1, <1>3 DEF CallerOK
    <2> QED
        BY <2>1, <2>2, <2>3
<1>5. /\ found \subseteq entries /\ \A row \in entries : row \in found <=> row.list = n
      /\ found = Upsert!Of(n)
    BY DEF Upsert!Of
<1>6. CASE Upsert!Cardinality(found) = 1 /\ now' = now + 1 /\ Upsert!Written(p)
           /\ entries' = (entries \ found) \cup {stored(row) : row \in found}
    <2>1. found # {}
        BY <1>6, SameCardinality, FS_EmptySet
    <2> HIDE DEF found
    <2>2. ASSUME NEW row \in entries
          PROVE  /\ stored(row) \in PriceRow /\ stored(row).id = row.id /\ stored(row).list = row.list
                 /\ stored(row).key = row.key /\ stored(row).data = proc[p].t /\ stored(row).at = now'
        <3>1. row \in PriceRow /\ proc[p].t \in Nat /\ now' \in Nat
            BY <1>3, <1>4, <1>6 DEF UpsertTypes
        <3> QED
            BY <3>1 DEF stored, PriceRow
    <2>3. /\ f \in [entries -> PriceRow]
          /\ \A row \in entries : f[row].id = row.id /\ f[row].list = row.list /\ f[row].key = row.key
          /\ \A row \in entries : f[row] = IF row \in found THEN stored(row) ELSE row
        <3>1. \A row \in entries : row \in PriceRow
            BY <1>3 DEF UpsertTypes
        <3> QED
            BY <2>2, <3>1
    <2> HIDE DEF f
    <2>4. entries' = {f[row] : row \in entries}
        <3>1. \A row \in entries : f[row] \in entries'
            BY <1>6, <2>3
        <3>2. \A new \in entries' : \E row \in entries : new = f[row]
            BY <1>5, <1>6, <2>3
        <3> QED
            BY <3>1, <3>2
    <2>5. entries' \in SUBSET PriceRow /\ IsFiniteSet(entries') /\ Ids'
        BY <1>3, <2>3, <2>4, RowsRewritten DEF UpsertInv
    <2>6. \A row \in entries' : RowOK(row)'
        <3>1. now <= now' /\ proc[p].t \in 1 .. now' /\ now' >= proc[p].t /\ now' \in Nat
            BY <1>3, <1>4, <1>6
        <3>2. ASSUME NEW row \in entries, NEW new, new = f[row] PROVE RowOK(new)'
            <4>1. RowOK(row)'
                BY <1>1, <1>3, <3>1, RowsStay
            <4>2. CASE row \in found
                <5>1. new.list = row.list /\ new.key = row.key /\ new.data = proc[p].t /\ new.at = now'
                    BY <2>2, <2>3, <3>2, <4>2
                <5> QED
                    BY <3>1, <4>1, <5>1 DEF RowOK
            <4>3. CASE row \notin found
                BY <2>3, <3>2, <4>1, <4>3
            <4> QED
                BY <4>2, <4>3
        <3> QED
            BY <2>4, <3>2
    <2>7. setting.exclusive => Upsert!OneRowPerKey'
        BY <2>3, <2>4, KeysStay DEF UpsertInv, Alone
    <2>8. \A i : i # n => Upsert!Of(i)' = Upsert!Of(i)
        BY <1>5, <2>2, <1>6 DEF Upsert!Of
    <2>9. Upsert!Of(n)' # {} /\ \A row \in Upsert!Of(n)' : row.data = proc[p].t /\ row.at = now'
        BY <1>5, <1>6, <2>1, <2>2 DEF Upsert!Of
    <2>10. Writing(p)
        BY <1>1 DEF Writing
    <2> QED
        BY <1>1, <1>6, <2>5, <2>6, <2>7, <2>8, <2>9, <2>10, EntryIsWritten
<1>7. CASE found = {} /\ proc' = [proc EXCEPT ![p] = c] /\ UNCHANGED <<entries, now, journaled>>
    <2>1. /\ c \in Caller /\ c.step = "entry_create" /\ c.todo = proc[p].todo /\ c.t = proc[p].t /\ c.at = proc[p].at
          /\ c.kind = proc[p].kind /\ c.sc = proc[p].sc
        BY <1>3 DEF c, Caller, CallSteps, WithChannel
    <2>2. CallerOK(c, now', channels', Len(lists'))
        BY <1>1, <1>3, <1>4, <1>7, <2>1 DEF CallerOK, StepsOf, WithList, WithChannel
    <2>3. UpsertTypes' /\ proc'[p] = c /\ \A q \in Callers \ {p} : proc'[q] = proc[q]
        <3>1. now' \in Nat /\ now <= now'
            BY <1>3, <1>7
        <3> QED
            BY <1>1, <1>3, <1>7, <2>1, <2>2, <3>1, CallerStays
    <2>4. Ids'
        BY <1>7 DEF UpsertInv, Ids
    <2>5. Alone'
        <3>1. setting.exclusive => channels' <= 1 /\ Upsert!OneRowPerKey'
            BY <1>1, <1>7 DEF UpsertInv, Alone, Upsert!OneRowPerKey
        <3>2. CallOK(p)'
            BY <1>7, <2>1, <2>3 DEF CallOK, Upsert!Of
        <3> QED
            BY <1>1, <2>3, <3>1, <3>2, OthersWait DEF UpsertInv
    <2>6. Journal'
        <3> SUFFICES ASSUME ImportAndJournal PROVE Journal'
            BY <1>1 DEF Journal, ImportAndJournal
        <3>1. Last' = Last /\ \A i : Upsert!Of(i)' = Upsert!Of(i)
            BY <1>1, <1>7 DEF Last, Upsert!Of
        <3>2. \A q \in Callers : (Writing(q)' <=> Writing(q)) /\ (ToWrite(q, Last)' <=> ToWrite(q, Last))
            BY <1>1, <2>1, <2>3, <3>1 DEF Writing, ToWrite
        <3>3. InMiddle' <=> InMiddle
            BY <3>2 DEF InMiddle
        <3>4. ASSUME NEW q \in Callers PROVE Filled(q)' /\ Entered(q)'
            <4>1. Filled(q) /\ Entered(q)
                BY DEF UpsertInv, Journal
            <4>2. Filled(q)'
                BY <1>1, <1>4, <1>7, <2>1, <2>3, <3>1, <3>3, <4>1 DEF Filled, Imports, Upsert!Of
            <4>3. Entered(q)'
                BY <1>7, <2>1, <2>3, <3>1, <3>2, <4>1 DEF Entered, Upsert!Of
            <4> QED
                BY <4>2, <4>3
        <3>5. ASSUME NEW i \in DOMAIN lists', lists'[i].status = "IN_PROGRESS"
              PROVE  \E q \in Callers : Imports(q, {"read", "create", "update", "ready"})' /\ Head(proc'[q].todo) = i
            <4>1. PICK q \in Callers : Imports(q, {"read", "create", "update", "ready"}) /\ Head(proc[q].todo) = i
                BY <1>1, <3>5 DEF UpsertInv, Journal
            <4> QED
                BY <1>4, <2>3, <4>1 DEF Imports
        <3>6. \A q, r \in Callers : proc'[q].kind = "journal" /\ proc'[r].kind = "journal" => q = r
            BY <2>1, <2>3 DEF UpsertInv, Journal
        <3>7. journaled' <= now'
            BY <1>7 DEF UpsertInv, Journal
        <3>8. \A row \in Upsert!Of(Last)' : row.data >= journaled' \/ InMiddle'
            BY <1>7, <3>1, <3>3 DEF UpsertInv, Journal, Upsert!Of
        <3> QED
            BY <3>4, <3>5, <3>6, <3>7, <3>8 DEF Journal
    <2> QED
        BY <2>3, <2>4, <2>5, <2>6 DEF UpsertInv
<1>8. CASE Upsert!Cardinality(found) > 1 /\ Upsert!End(p) /\ UNCHANGED <<entries, now, journaled>>
    <2>1. ImportAndJournal => FALSE
        <3> SUFFICES ASSUME ImportAndJournal PROVE FALSE
            OBVIOUS
        <3>1. \A r, s \in found : r = s
            <4>1. \A r \in found : r.key = "simple"
                BY <1>3 DEF UpsertTypes, RowOK, Upsert!Key, ImportAndJournal, Upsert!Of
            <4> QED
                BY <1>5, <4>1 DEF UpsertInv, Alone, Upsert!OneRowPerKey, ImportAndJournal
        <3>2. Cardinality(found) \in {0, 1}
            <4>1. CASE found = {}
                BY <4>1, FS_EmptySet
            <4>2. CASE found # {}
                <5>1. PICK r \in found : TRUE
                    BY <4>2
                <5>2. found = {r}
                    BY <3>1, <5>1
                <5> QED
                    BY <5>2, FS_Singleton
            <4> QED
                BY <4>1, <4>2
        <3>3. Cardinality(found) > 1
            BY <1>8, SameCardinality
        <3> HIDE DEF found
        <3> QED
            BY <3>2, <3>3
    <2> QED
        BY <1>1, <1>8, <2>1, CallerEnds
<1> QED
    BY <1>2, <1>6, <1>7, <1>8



LEMMA UpsertInitially ==
    ASSUME Upsert!Init
    PROVE  UpsertInv
<1>1. /\ setting \in Upsert!Setting /\ now = 2 /\ journaled = 0 /\ proc = [p \in Callers |-> Upsert!Idle]
      /\ \/ channels = 0 /\ lists = <<>> /\ entries = {}
         \/ /\ channels = 1 /\ lists = <<[sc |-> 1, status |-> "READY"]>>
            /\ entries = {[id |-> <<0, key>>, list |-> 1, key |-> key, data |-> 1, at |-> 2] : key \in Upsert!Key}
    BY CallersAssumption DEF Upsert!Init
<1>2. /\ channels \in Nat /\ channels <= 1 /\ lists \in Seq(PriceList) /\ Len(lists) \in Nat
      /\ \A i \in DOMAIN lists : lists[i].sc \in 1 .. channels /\ lists[i].status = "READY"
    <2>1. CASE channels = 0 /\ lists = <<>>
        BY <2>1
    <2>2. CASE channels = 1 /\ lists = <<[sc |-> 1, status |-> "READY"]>>
        <3>1. [sc |-> 1, status |-> "READY"] \in PriceList
            BY DEF PriceList
        <3> QED
            BY <2>2, <3>1
    <2> QED
        BY <1>1, <2>1, <2>2
<1>3. /\ Upsert!Key \subseteq Rows /\ IsFiniteSet(entries)
      /\ \A row \in entries : /\ row \in PriceRow /\ row.list = 1 /\ Len(lists) = 1 /\ row.key \in Upsert!Key
                              /\ row.data = 1 /\ row.at = 2 /\ row.id = <<0, row.key>>
      /\ \A r, s \in entries : r.key = s.key => r = s
    <2>1. Upsert!Key \subseteq Rows
        BY DEF Upsert!Key, Rows
    <2>2. CASE entries = {}
        BY <2>1, <2>2, FS_EmptySet
    <2>3. CASE /\ lists = <<[sc |-> 1, status |-> "READY"]>>
               /\ entries = {[id |-> <<0, key>>, list |-> 1, key |-> key, data |-> 1, at |-> 2] : key \in Upsert!Key}
        <3> DEFINE row(key) == [id |-> <<0, key>>, list |-> 1, key |-> key, data |-> 1, at |-> 2]
        <3>1. ASSUME NEW key \in Rows
              PROVE  /\ row(key) \in PriceRow /\ row(key).list = 1 /\ row(key).key = key
                     /\ row(key).data = 1 /\ row(key).at = 2 /\ row(key).id = <<0, key>>
            BY DEF PriceRow
        <3>2. entries = {row(key) : key \in Upsert!Key}
            BY <2>3
        <3> HIDE DEF row
        <3>3. IsFiniteSet(entries)
            <4>1. entries \subseteq {row("simple")} \cup {row("component")}
                BY <2>1, <3>2 DEF Rows
            <4>2. IsFiniteSet({row("simple")} \cup {row("component")})
                BY FS_Singleton, FS_Union
            <4> QED
                BY <4>1, <4>2, FS_Subset
        <3>4. Len(lists) = 1
            BY <2>3
        <3> QED
            BY <2>1, <3>1, <3>2, <3>3, <3>4
    <2> QED
        BY <1>1, <2>2, <2>3
<1>4. \A p \in Callers : proc[p] = Upsert!Idle
    BY <1>1
<1>5. UpsertTypes
    <2>1. \A p \in Callers : CallerOK(proc[p], now, channels, Len(lists))
        BY <1>4, IdleIs, CallersAssumption DEF CallerOK, StepsOf, WithChannel, WithList, Upsert!Kind, Upsert!Idle
    <2>2. ASSUME NEW row \in entries PROVE RowOK(row)
        <3>1. row.list = 1 /\ Len(lists) = 1 /\ row.key \in Upsert!Key /\ row.data = 1 /\ row.at = 2 /\ now = 2
            BY <1>1, <1>3
        <3> QED
            BY <3>1 DEF RowOK
    <2>3. proc \in [Callers -> Caller]
        BY <1>1, IdleIs
    <2>4. entries \in SUBSET PriceRow
        BY <1>3
    <2> QED
        BY <1>1, <1>2, <1>3, <2>1, <2>2, <2>3, <2>4 DEF UpsertTypes
<1>6. Ids
    <2>1. \A r, s \in entries : r.id = s.id => r = s
        BY <1>3
    <2>2. ASSUME NEW r \in entries PROVE r.id[1] < Cardinality(entries)
        <3>1. Cardinality(entries) \in Nat /\ Cardinality(entries) # 0
            BY <1>3, FS_CardinalityType, FS_EmptySet
        <3>2. r.id[1] = 0
            BY <1>3
        <3> QED
            BY <3>1, <3>2
    <2> QED
        BY <2>1, <2>2 DEF Ids
<1>7. Alone
    BY <1>2, <1>3, <1>4, IdleIs DEF Alone, CallOK, Upsert!InCall, Upsert!OneRowPerKey
<1>8. Journal
    <2>1. \A p \in Callers : proc[p].kind \notin {"import", "journal"} /\ ~Writing(p)
        BY <1>4, IdleIs, CallersAssumption DEF Upsert!Kind, Writing
    <2>2. \A row \in entries : row.data >= journaled
        BY <1>1, <1>3
    <2> QED
        BY <1>1, <1>2, <2>1, <2>2 DEF Journal, Filled, Entered, Imports, Upsert!Of
<1> QED
    BY <1>5, <1>6, <1>7, <1>8 DEF UpsertInv

LEMMA UpsertRests ==
    ASSUME UpsertInv, UNCHANGED upsertVars
    PROVE  UpsertInv'
<1>1. UNCHANGED <<setting, channels, lists, entries, now, proc, journaled>>
    BY DEF upsertVars
<1>2. UpsertTypes'
    BY <1>1 DEF UpsertInv, UpsertTypes, CallerOK, RowOK, Upsert!Key
<1>3. Ids'
    BY <1>1 DEF UpsertInv, Ids
<1>4. Alone'
    BY <1>1 DEF UpsertInv, Alone, CallOK, Upsert!InCall, Upsert!OneRowPerKey, Upsert!Of
<1>5. Journal'
    <2>1. (ImportAndJournal' <=> ImportAndJournal) /\ (InMiddle' <=> InMiddle)
        BY <1>1 DEF ImportAndJournal, InMiddle, Writing, ToWrite, Last
    <2>2. \A p \in Callers : (Filled(p)' <=> Filled(p)) /\ (Entered(p)' <=> Entered(p))
        BY <1>1, <2>1 DEF Filled, Entered, Imports, Writing, ToWrite, Last, Upsert!Of
    <2> QED
        BY <1>1, <2>1, <2>2 DEF UpsertInv, Journal, Imports, Last, Upsert!Of
<1> QED
    BY <1>2, <1>3, <1>4, <1>5 DEF UpsertInv

LEMMA UpsertStep ==
    ASSUME UpsertInv, Upsert!Next
    PROVE  UpsertInv'
<1>1. UNCHANGED setting
    BY DEF Upsert!Next
<1>2. PICK p \in Callers : (\E kind \in Upsert!Kind : Upsert!Begin(p, kind)) \/ Upsert!Step(p)
    BY DEF Upsert!Next
<1>3. CASE \E kind \in Upsert!Kind : Upsert!Begin(p, kind)
    BY <1>1, <1>3, CallBegins
<1>4. CASE Upsert!FindChannel(p)
    BY <1>1, <1>4, ChannelIsFound
<1>5. CASE Upsert!CreateChannel(p)
    BY <1>1, <1>5, ChannelIsCreated
<1>6. CASE Upsert!CreateList(p)
    BY <1>1, <1>6, ListIsCreated
<1>7. CASE Upsert!FindExisting(p)
    BY <1>1, <1>7, ExistingIsFound
<1>8. CASE Upsert!SetReady(p)
    BY <1>1, <1>8, ListIsPublished
<1>9. CASE Upsert!Read(p)
    BY <1>1, <1>9, RowsAreRead
<1>10. CASE Upsert!Create(p)
    BY <1>1, <1>10, RowsAreCreated
<1>11. CASE Upsert!Update(p)
    BY <1>1, <1>11, RowsAreUpdated
<1>12. CASE Upsert!FindActive(p)
    BY <1>1, <1>12, ActiveIsFound
<1>13. CASE Upsert!Entry(p)
    BY <1>1, <1>13, EntryIsMade
<1>14. CASE Upsert!EntryCreate(p)
    BY <1>1, <1>14, EntryIsCreated
<1> QED
    BY <1>2, <1>3, <1>4, <1>5, <1>6, <1>7, <1>8, <1>9, <1>10, <1>11, <1>12, <1>13, <1>14 DEF Upsert!Step

\* What the invariant is for.
LEMMA UpsertKeeps ==
    ASSUME UpsertInv
    PROVE  /\ Upsert!TypeOK
           /\ setting.exclusive => Upsert!OneRowPerKey
           /\ ImportAndJournal => Upsert!JournalSurvivesImport
<1>1. Upsert!TypeOK
    <2>1. \A i \in DOMAIN lists : lists[i].sc \in 1 .. channels /\ lists[i].status \in {"READY", "IN_PROGRESS"}
        <3>1. \A i \in DOMAIN lists : lists[i].sc \in 1 .. channels /\ lists[i] \in PriceList
            BY DEF UpsertInv, UpsertTypes
        <3> QED
            BY <3>1 DEF PriceList
    <2>2. \A row \in entries : /\ row.list \in DOMAIN lists /\ row.key \in Upsert!Key /\ row.data \in 1 .. now
                               /\ row.at = Null \/ row.at >= row.data
        BY DEF UpsertInv, UpsertTypes, RowOK
    <2> QED
        BY <2>1, <2>2 DEF UpsertInv, UpsertTypes, Upsert!TypeOK
<1>2. setting.exclusive => Upsert!OneRowPerKey
    BY DEF UpsertInv, Alone
<1>3. ImportAndJournal => Upsert!JournalSurvivesImport
    <2> DEFINE shown == Upsert!Latest(channels, "READY")
    <2> SUFFICES ASSUME ImportAndJournal, Upsert!Quiet, shown # {},
                        NEW row \in Upsert!Of(Upsert!Newest(shown))
                 PROVE  row.data >= journaled
        BY DEF Upsert!JournalSurvivesImport, Upsert!ChannelFound
    <2>1. lists \in Seq(PriceList) /\ Len(lists) \in Nat /\ channels \in Nat /\ channels <= 1
        BY DEF UpsertInv, UpsertTypes, Alone, ImportAndJournal
    <2>2. Upsert!Newest(shown) \in 1 .. Len(lists) /\ \A i \in shown : i <= Upsert!Newest(shown)
        BY NewestIs DEF UpsertInv
    <2> DEFINE n == Len(lists)
    <2>3. n \in DOMAIN lists /\ n \in Nat
        BY <2>1, <2>2
    <2>4. lists[n].status # "IN_PROGRESS"
        BY <2>3 DEF UpsertInv, Journal, Imports, Upsert!Quiet
    <2>5. lists[n] \in PriceList /\ lists[n].sc \in 1 .. channels
        BY <2>1, <2>3 DEF UpsertInv, UpsertTypes
    <2>6. lists[n] = [sc |-> channels, status |-> "READY"]
        <3>1. lists[n].sc = channels /\ lists[n].status = "READY"
            BY <2>1, <2>4, <2>5 DEF PriceList
        <3> QED
            BY <2>5, <3>1 DEF PriceList
    <2>7. n \in shown
        BY <2>3, <2>6 DEF Upsert!Latest
    <2>8. Upsert!Newest(shown) = Last
        <3>1. n <= Upsert!Newest(shown) /\ Upsert!Newest(shown) \in 1 .. n
            BY <2>2, <2>7
        <3> DEFINE m == Upsert!Newest(shown)
        <3>2. m \in 1 .. n /\ n <= m
            BY <3>1
        <3> HIDE DEF m, n
        <3>3. m = n
            BY <2>3, <3>2
        <3> QED
            BY <3>3 DEF m, n, Last
    <2>9. ~InMiddle
        BY DEF InMiddle, Writing, Upsert!Quiet
    <2> QED
        BY <2>8, <2>9 DEF UpsertInv, Journal
<1> QED
    BY <1>1, <1>2, <1>3

LEMMA UpsertOfSpec == MCSpec => [](Upserting => UpsertInv)
<1>1. MCInit => (Upserting => UpsertInv)
    BY UpsertInitially DEF MCInit
<1>2. (Upserting => UpsertInv) /\ [MCNext]_<<scenario, upsertVars, migrationVars, vars>> => (Upserting => UpsertInv)'
    <2> SUFFICES ASSUME Upserting => UpsertInv, [MCNext]_<<scenario, upsertVars, migrationVars, vars>>, Upserting'
                 PROVE  UpsertInv'
        OBVIOUS
    <2>1. Upserting
        BY DEF MCNext, Upserting
    <2>2. Upsert!Next \/ UNCHANGED upsertVars
        BY <2>1 DEF MCNext
    <2> QED
        BY <2>1, <2>2, UpsertStep, UpsertRests
<1> QED
    BY <1>1, <1>2, PTL DEF MCSpec

\* While each call runs alone a list has one row of a key, and no import undoes a
\* journal entry, for any callers and any number of calls (repository.py:125-160, 268-320).
THEOREM UpsertKeepsRowsAlways == MCSpec => []UpsertKeepsRows
<1>1. (Upserting => UpsertInv) => UpsertKeepsRows
    BY UpsertKeeps DEF UpsertKeepsRows, ImportAndJournal
<1> QED
    BY <1>1, UpsertOfSpec, PTL



\* A step is one caller's, and one that ends an update is the update.
LEMMA OthersKeep ==
    ASSUME UpsertTypes, NEW q \in Callers,
           (\E kind \in Upsert!Kind : Upsert!Begin(q, kind)) \/ Upsert!Step(q)
    PROVE  /\ \A p \in Callers \ {q} : proc'[p] = proc[p]
           /\ proc[q].step = "update" => Upsert!Update(q)
<1>1. ASSUME NEW c, proc' = [proc EXCEPT ![q] = c] PROVE \A p \in Callers \ {q} : proc'[p] = proc[p]
    BY <1>1 DEF UpsertTypes
<1>2. CASE \E kind \in Upsert!Kind : Upsert!Begin(q, kind)
    <2>1. PICK kind \in Upsert!Kind : Upsert!Begin(q, kind)
        BY <1>2
    <2>2. proc[q].step = "idle" /\ \E c : proc' = [proc EXCEPT ![q] = c]
        BY <2>1, Zenon DEF Upsert!Begin
    <2> QED
        BY <1>1, <2>2
<1>3. CASE Upsert!Update(q)
    BY <1>1, <1>3 DEF Upsert!Update, Upsert!End
<1>4. CASE Upsert!FindChannel(q)
    BY <1>1, <1>4 DEF Upsert!FindChannel
<1>5. CASE Upsert!CreateChannel(q)
    BY <1>1, <1>5 DEF Upsert!CreateChannel
<1>6. CASE Upsert!CreateList(q)
    BY <1>1, <1>6 DEF Upsert!CreateList
<1>7. CASE Upsert!FindExisting(q)
    BY <1>1, <1>7 DEF Upsert!FindExisting, Upsert!End
<1>8. CASE Upsert!SetReady(q)
    BY <1>1, <1>8 DEF Upsert!SetReady, Upsert!End
<1>9. CASE Upsert!Read(q)
    BY <1>1, <1>9 DEF Upsert!Read, Upsert!End
<1>10. CASE Upsert!Create(q)
    BY <1>1, <1>10 DEF Upsert!Create, Upsert!Goto
<1>11. CASE Upsert!FindActive(q)
    BY <1>1, <1>11 DEF Upsert!FindActive, Upsert!End
<1>12. CASE Upsert!Entry(q)
    <2>1. /\ proc[q].step = "entry"
          /\ Upsert!Written(q) \/ proc' = [proc EXCEPT ![q].step = "entry_create"] \/ Upsert!End(q)
        BY <1>12, Zenon DEF Upsert!Entry, Upsert!Goto
    <2>2. \E c : proc' = [proc EXCEPT ![q] = c]
        BY <2>1 DEF Upsert!Written, Upsert!End
    <2> QED
        BY <1>1, <2>1, <2>2
<1>13. CASE Upsert!EntryCreate(q)
    BY <1>1, <1>13 DEF Upsert!EntryCreate, Upsert!Written
<1> QED
    BY <1>2, <1>3, <1>4, <1>5, <1>6, <1>7, <1>8, <1>9, <1>10, <1>11, <1>12, <1>13 DEF Upsert!Step

LEMMA UpdateIsNewer ==
    ASSUME UpsertInv, NEW p \in Callers, Upsert!Update(p), proc[p].at # Null, NEW row \in entries
    PROVE  \E new \in entries' : new.id = row.id /\ new.data >= row.data
<1>1. proc[p].step = "update" /\ entries' = {Updates(p)[r] : r \in entries}
    BY DEF Upsert!Update, Updates
<1>2. /\ Updates(p)[row].id = row.id
      /\ Upsert!Chosen(p, row) => Updates(p)[row].data = proc[p].t
      /\ ~Upsert!Chosen(p, row) => Updates(p)[row] = row
    BY <1>1, UpdatedIs DEF UpsertInv
<1>3. proc[p].at = proc[p].t /\ proc[p].t \in Nat
    <2>1. CallerOK(proc[p], now, channels, Len(lists)) /\ now \in Nat
        BY CallerIs DEF UpsertInv
    <2> QED
        BY <1>1, <2>1 DEF CallerOK
<1>4. row \in PriceRow /\ RowOK(row)
    BY DEF UpsertInv, UpsertTypes
<1>5. row.data \in Nat
    BY <1>4 DEF PriceRow
<1>6. Upsert!Chosen(p, row) => proc[p].t >= row.data
    <2> SUFFICES ASSUME Upsert!Chosen(p, row) PROVE proc[p].t >= row.data
        OBVIOUS
    <2>1. row.at # Null /\ row.at < proc[p].t
        BY <1>3 DEF Upsert!Chosen, Upsert!Filter
    <2>2. row.at \in Nat /\ row.at >= row.data
        BY <1>4, <2>1 DEF PriceRow, RowOK
    <2> QED
        BY <1>3, <1>5, <2>1, <2>2
<1>7. Updates(p)[row].data >= row.data
    BY <1>2, <1>5, <1>6
<1> QED
    BY <1>1, <1>2, <1>7

\* A bulk call that gives a time replaces only older data, whatever was written since
\* it read its rows (repository.py:306).
THEOREM BulkNeverRevertsAlways == MCSpec => BulkNeverReverts
<1>1. (Upserting => UpsertInv) /\ [MCNext]_<<scenario, upsertVars, migrationVars, vars>>
          => [Upserting => Upsert!NeverReverts]_upsertVars
    <2> SUFFICES ASSUME UpsertInv, Upserting, [MCNext]_<<scenario, upsertVars, migrationVars, vars>>,
                        upsertVars' # upsertVars
                 PROVE  Upsert!NeverReverts
        OBVIOUS
    <2>1. Upsert!Next
        BY DEF MCNext
    <2>2. PICK q \in Callers : (\E kind \in Upsert!Kind : Upsert!Begin(q, kind)) \/ Upsert!Step(q)
        BY <2>1 DEF Upsert!Next
    <2> SUFFICES ASSUME NEW p \in Callers, proc[p].step = "update", proc'[p].step # "update", proc[p].at # Null,
                        NEW row \in entries
                 PROVE  \E new \in entries' : new.id = row.id /\ new.data >= row.data
        BY DEF Upsert!NeverReverts
    <2>3. Upsert!Update(p)
        BY <2>2, OthersKeep DEF UpsertInv
    <2> QED
        BY <2>3, UpdateIsNewer
<1> QED
    BY <1>1, UpsertOfSpec, PTL DEF MCSpec, BulkNeverReverts


-----------------------------------------------------------------------------
(* The inductive invariant of the migration *)

Snapshot ==
    [sc : SaleChannel, status : {"READY", "IN_PROGRESS"}, items : SUBSET Price, attrs : SUBSET Attr]
Reads == {"batch", "flush", "write"}
Origin == [list : Nat, clamped : BOOLEAN]

RunOK ==
    run \in [mode : Move!Modes \cup {Null}, step : {"idle", "next", "done"} \cup Reads,
             todo : {run.todo}, list : Nat \cup {Null}, left : SUBSET Price, batch : SUBSET Price]

MoveTypes ==
    /\ catalogue \in Move!Catalogue
    /\ snapshots \in Seq(Snapshot) /\ Len(snapshots) <= MaxLists
    /\ current \in [Move!Row -> Origin \cup {Null}]
    /\ history \in [(1 .. MaxLists) \X Price -> Nat]
    /\ attached \in [Move!Row -> SUBSET Attr]
    /\ newest \in [SaleChannel -> Nat]
    /\ RunOK
    /\ edits \in Nat /\ runs \in Nat

\* What is left to do: a list is read as a whole, and nothing is in a batch between batches.
Left ==
    /\ Cardinality(run.batch) <= BatchSize
    /\ run.step = "batch" => run.batch = {}
    /\ run.step \in {"idle", "next", "done"} => run.left \cup run.batch = {}
    /\ run.step = "done" => run.todo = {}
    /\ run.step = "idle" <=> run.mode = Null
    /\ run.mode \in {"populate", "dry"} => run.todo \subseteq {sc \in SaleChannel : Move!ReadyOf(sc) # {}}
    /\ run.mode = "backfill" => run.todo \subseteq Move!Ready
    /\ run.mode = "attributes" => run.todo \subseteq Move!Row
    /\ run.step \in Reads => run.list \in Move!Ready /\ run.mode \in {"populate", "dry", "backfill"}
    /\ run.step = "write" => run.mode = "populate"
    /\ run.mode = "backfill" =>
           /\ (run.left \cup run.batch) \cap catalogue.components = {} /\ run.left \cap run.batch = {}
           /\ run.list \notin run.todo

\* The lists there were when the command began are not newer than those it reads.
Begun ==
    /\ published \subseteq Move!Ready
    /\ \A sc \in SaleChannel : newest[sc] # 0 => newest[sc] \in Move!ReadyOf(sc)
    /\ run.step \in Reads /\ run.mode \in {"populate", "dry"} => newest[snapshots[run.list].sc] <= run.list

\* The prices of CurrentPrice are from lists, or edited, and raised where they had to be.
Origins ==
    \A row \in Move!Row : current[row] # Null =>
        /\ current[row].list <= Len(snapshots)
        /\ current[row].clamped => row[2] \in catalogue.floored
        /\ edits = 0 => current[row].list # 0

\* Each price of the newest list of a sale channel, unless there is a newer one for the
\* slot by now, is still to be written, or it is written, or edited.
SlotOf(sc) == catalogue.slotOf[sc]
NewestStill(sc) == newest[sc] # 0 /\ Move!Undisturbed(SlotOf(sc))
Todo(sc, price) == run.list = newest[sc] /\ price \in run.left \cup run.batch
IsWritten(sc, price) ==
    /\ current[<<SlotOf(sc), price>>] # Null
    /\ current[<<SlotOf(sc), price>>].list \in {0} \cup Move!LatestFor(sc)
Populating ==
    run.mode = "populate" =>
        \A sc \in SaleChannel : NewestStill(sc) /\ sc \notin run.todo =>
            \A price \in snapshots[newest[sc]].items : Todo(sc, price) \/ IsWritten(sc, price)

\* And so for the history of each list, which has no component, and where this run has
\* not logged yet what it is still to log.
Waits(p) == p[1] \in run.todo \/ (p[1] = run.list /\ p[2] \in run.left \cup run.batch)
Backfilling ==
    /\ \A p \in DOMAIN history : history[p] <= runs /\ (p[2] \in catalogue.components => history[p] = 0)
    /\ run.mode = "backfill" =>
        \A p \in DOMAIN history :
            /\ Waits(p) => history[p] < runs
            /\ p[1] \in published /\ p[2] \in snapshots[p[1]].items \ catalogue.components =>
                   Waits(p) \/ history[p] > 0

MoveInv == MoveTypes /\ Left /\ Begun /\ Origins /\ Populating /\ Backfilling /\ Move!AttributesStayInSlot


LEMMA MoveMax ==
    ASSUME MoveTypes, NEW S \in SUBSET DOMAIN snapshots, S # {}
    PROVE  Move!Max(S) \in S /\ \A i \in S : i <= Move!Max(S)
<1>1. S \in SUBSET (1 .. Len(snapshots)) /\ Len(snapshots) \in Nat
    BY DEF MoveTypes
<1>2. \E m \in S : \A k \in S : k <= m
    BY <1>1, GreatestOf
<1>3. \A i, k \in S : i \in Nat /\ k \in Nat /\ (i <= k <=> k >= i)
    BY <1>1
<1> QED
    BY <1>2, <1>3 DEF Move!Max

LEMMA MoveMin ==
    ASSUME NEW S \in SUBSET Nat, S # {}
    PROVE  Move!Min(S) \in S
<1>1. PICK m \in S : \A k \in S : ~(<<k, m>> \in OpToRel(<, Nat))
    BY NatLessThanWellFounded, WFMin
<1>2. \A k \in S : m <= k
    <2>1. \A k \in S : k \in Nat /\ m \in Nat /\ ~(k < m)
        BY <1>1 DEF OpToRel
    <2> QED
        BY <2>1
<1> QED
    BY <1>2 DEF Move!Min

\* What a price list is.
LEMMA SnapshotIs ==
    ASSUME MoveTypes, NEW i \in DOMAIN snapshots
    PROVE  /\ i \in Nat /\ 1 <= i /\ i <= Len(snapshots) /\ i \in 1 .. MaxLists
           /\ snapshots[i] \in Snapshot
           /\ snapshots[i].sc \in SaleChannel /\ SlotOf(snapshots[i].sc) \in Slot
           /\ snapshots[i].items \in SUBSET Price /\ snapshots[i].attrs \in SUBSET Attr
<1>1. i \in 1 .. Len(snapshots) /\ Len(snapshots) \in Nat /\ Len(snapshots) <= MaxLists /\ MaxLists \in Nat
    BY CataloguesAssumption DEF MoveTypes
<1>2. snapshots[i] \in Snapshot
    BY DEF MoveTypes
<1>3. snapshots[i].sc \in SaleChannel /\ snapshots[i].items \in SUBSET Price /\ snapshots[i].attrs \in SUBSET Attr
    BY <1>2 DEF Snapshot
<1>4. catalogue.slotOf \in [SaleChannel -> Slot]
    BY DEF MoveTypes, Move!Catalogue
<1>5. SlotOf(snapshots[i].sc) \in Slot
    BY <1>3, <1>4 DEF SlotOf
<1> QED
    BY <1>1, <1>2, <1>3, <1>5

LEMMA ReadyIs ==
    ASSUME MoveTypes
    PROVE  /\ Move!Ready \in SUBSET DOMAIN snapshots /\ Move!Ready \in SUBSET Nat
           /\ \A sc : Move!ReadyOf(sc) \in SUBSET Move!Ready
           /\ \A i \in Move!Ready : i \in Move!ReadyOf(snapshots[i].sc)
    BY SnapshotIs DEF Move!Ready, Move!ReadyOf

\* The newest of a sale channel's lists.
LEMMA NewestOfChannel ==
    ASSUME MoveTypes, NEW sc, Move!ReadyOf(sc) # {}
    PROVE  /\ Move!Max(Move!ReadyOf(sc)) \in Move!ReadyOf(sc)
           /\ Move!Max(Move!ReadyOf(sc)) \in Nat \ {0}
           /\ \A i \in Move!ReadyOf(sc) : i <= Move!Max(Move!ReadyOf(sc))
<1>1. Move!ReadyOf(sc) \in SUBSET DOMAIN snapshots
    BY ReadyIs
<1>2. Move!Max(Move!ReadyOf(sc)) \in Move!ReadyOf(sc) /\ \A i \in Move!ReadyOf(sc) : i <= Move!Max(Move!ReadyOf(sc))
    BY <1>1, MoveMax
<1>3. Move!Max(Move!ReadyOf(sc)) \in Nat /\ 1 <= Move!Max(Move!ReadyOf(sc))
    BY <1>1, <1>2, SnapshotIs
<1> QED
    BY <1>2, <1>3

LEMMA SlotIs ==
    ASSUME MoveTypes, NEW sc \in SaleChannel
    PROVE  SlotOf(sc) \in Slot
<1>1. catalogue.slotOf \in [SaleChannel -> Slot]
    BY DEF MoveTypes, Move!Catalogue
<1> QED
    BY <1>1 DEF SlotOf

\* What only depends on the lists, and on those there were.
LEMMA ListsStay ==
    ASSUME UNCHANGED <<catalogue, snapshots, newest>>
    PROVE  /\ (Move!Ready)' = Move!Ready
           /\ \A k : (Move!ReadyOf(k))' = Move!ReadyOf(k)
           /\ \A k : SlotOf(k)' = SlotOf(k) /\ (Move!LatestFor(k))' = Move!LatestFor(k)
           /\ \A i : (Move!SlotOfList(i))' = Move!SlotOfList(i)
           /\ \A k : NewestStill(k)' <=> NewestStill(k)
<1>1. /\ (Move!Ready)' = Move!Ready
      /\ \A k : (Move!ReadyOf(k))' = Move!ReadyOf(k)
    BY DEF Move!Ready, Move!ReadyOf
<1>2. \A k : SlotOf(k)' = SlotOf(k) /\ (Move!LatestFor(k))' = Move!LatestFor(k)
    BY DEF SlotOf, Move!LatestFor
<1>3. \A i : (Move!SlotOfList(i))' = Move!SlotOfList(i)
    BY DEF Move!SlotOfList
<1> QED
    BY <1>1, <1>2, <1>3 DEF NewestStill, Move!Undisturbed

LEMMA CardinalityIs ==
    /\ \A S : Move!Cardinality(S) = Cardinality(S)
    /\ \A S \in SUBSET Price : IsFiniteSet(S)
<1>1. \A S : Move!Cardinality(S) = Cardinality(S)
    BY DEF Move!Cardinality, Cardinality
<1>2. \A S \in SUBSET Price : IsFiniteSet(S)
    BY FS_Subset, CataloguesAssumption
<1> QED
    BY <1>1, <1>2

-----------------------------------------------------------------------------
(* Every step keeps it *)

LEMMA MoveInitially == Move!Init => MoveInv
<1> SUFFICES ASSUME Move!Init PROVE MoveInv
    OBVIOUS
<1>1. MoveTypes
    <2>1. run = Move!NoRun /\ Move!NoRun \in
            [mode : Move!Modes \cup {Null}, step : {"idle", "next", "done"} \cup Reads,
             todo : {{}}, list : Nat \cup {Null}, left : SUBSET Price, batch : SUBSET Price]
        BY DEF Move!Init, Move!NoRun
    <2>2. run.todo = {}
        BY <2>1 DEF Move!NoRun
    <2>3. snapshots \in Seq(Snapshot) /\ Len(snapshots) = 0
        BY DEF Move!Init
    <2> QED
        BY <2>1, <2>2, <2>3, CataloguesAssumption DEF MoveTypes, RunOK, Move!Init
<1>2. Left
    BY FS_EmptySet, CardinalityIs, CataloguesAssumption DEF Left, Move!Init, Move!NoRun, Reads, Move!Modes
<1>3. Begun
    BY DEF Begun, Move!Init, Move!NoRun, Reads
<1>4. Origins
    BY DEF Origins, Move!Init
<1>5. Populating /\ Backfilling
    <2>1. run.mode = Null /\ Null # "populate" /\ Null # "backfill"
        BY CataloguesAssumption DEF Move!Init, Move!NoRun, Move!Modes
    <2>2. DOMAIN history = (1 .. MaxLists) \X Price /\ \A p \in DOMAIN history : history[p] = 0
        BY DEF Move!Init
    <2>3. runs = 0 /\ 0 <= 0
        BY DEF Move!Init
    <2> QED
        BY <2>1, <2>2, <2>3 DEF Populating, Backfilling
<1>6. Move!AttributesStayInSlot
    BY DEF Move!AttributesStayInSlot, Move!Init
<1> QED
    BY <1>1, <1>2, <1>3, <1>4, <1>5, <1>6 DEF MoveInv


\* Price lists are added and published, and change in nothing else.
LEMMA ListsGrow ==
    ASSUME MoveInv, UNCHANGED <<catalogue, current, history, attached, run, published, newest, runs, edits>>,
           snapshots' \in Seq(Snapshot), Len(snapshots) <= Len(snapshots'), Len(snapshots') <= MaxLists,
           \A i \in DOMAIN snapshots :
               /\ i \in DOMAIN snapshots' /\ snapshots'[i].sc = snapshots[i].sc
               /\ snapshots'[i].items = snapshots[i].items /\ snapshots'[i].attrs = snapshots[i].attrs
               /\ snapshots[i].status = "READY" => snapshots'[i].status = "READY"
    PROVE  MoveInv'
<1>1. MoveTypes /\ MoveTypes'
    BY DEF MoveInv, MoveTypes, RunOK, Move!Row, Move!Catalogue, Move!Modes
<1>2. /\ \A i \in Move!Ready : i \in (Move!Ready)' /\ i \in DOMAIN snapshots
      /\ \A sc, i : i \in Move!ReadyOf(sc) => i \in (Move!ReadyOf(sc))'
    BY DEF Move!Ready, Move!ReadyOf
<1>3. Left'
    <2>1. run.mode \in {"populate", "dry"} => \A sc \in run.todo : sc \in SaleChannel /\ (Move!ReadyOf(sc))' # {}
        BY <1>2 DEF MoveInv, Left
    <2> QED
        BY <1>2, <2>1, CardinalityIs DEF MoveInv, Left, Move!Row
<1>4. Begun'
    <2>1. /\ \A sc \in SaleChannel : newest[sc] # 0 => newest[sc] \in (Move!ReadyOf(sc))'
          /\ published \subseteq (Move!Ready)'
        BY <1>2 DEF MoveInv, Begun
    <2>2. run.step \in Reads => run.list \in DOMAIN snapshots
        BY <1>1, ReadyIs DEF MoveInv, Left
    <2> QED
        BY <2>1, <2>2 DEF MoveInv, Begun
<1>5. Origins'
    <2>1. Len(snapshots) \in Nat /\ Len(snapshots') \in Nat
        BY <1>1 DEF MoveTypes
    <2>2. ASSUME NEW row \in Move!Row, current[row] # Null, current[row].list <= Len(snapshots)
          PROVE  current[row].list <= Len(snapshots')
        <3>1. current[row] \in Origin
            BY <1>1, <2>2 DEF MoveTypes
        <3> QED
            BY <2>1, <2>2, <3>1 DEF Origin
    <2> QED
        BY <2>2 DEF MoveInv, Origins, Move!Row
<1>6. \A sc \in SaleChannel : newest[sc] # 0 =>
          /\ newest[sc] \in DOMAIN snapshots
          /\ NewestStill(sc)' => NewestStill(sc)
    <2> SUFFICES ASSUME NEW sc \in SaleChannel, newest[sc] # 0
                 PROVE  /\ newest[sc] \in DOMAIN snapshots
                        /\ NewestStill(sc)' => NewestStill(sc)
        OBVIOUS
    <2>1. newest[sc] \in DOMAIN snapshots
        BY <1>1, <1>2, ReadyIs DEF MoveInv, Begun
    <2>2. ASSUME NewestStill(sc)', NEW i \in Move!Ready, Move!SlotOfList(i) = SlotOf(sc)
          PROVE  i <= newest[snapshots[i].sc]
        <3>1. i \in (Move!Ready)' /\ i \in DOMAIN snapshots /\ snapshots'[i].sc = snapshots[i].sc
            BY <1>2, <2>2
        <3>2. (Move!SlotOfList(i))' = SlotOf(sc)'
            BY <2>2, <3>1 DEF Move!SlotOfList, SlotOf
        <3> QED
            BY <2>2, <3>1, <3>2 DEF NewestStill, Move!Undisturbed
    <2> QED
        BY <2>1, <2>2 DEF NewestStill, Move!Undisturbed
<1>7. Populating'
    <2>1. \A sc, price : IsWritten(sc, price)' <=> IsWritten(sc, price)
        BY DEF IsWritten, SlotOf, Move!LatestFor
    <2>2. \A sc, price : Todo(sc, price)' <=> Todo(sc, price)
        BY DEF Todo
    <2>3. ASSUME NEW sc \in SaleChannel, NewestStill(sc)'
          PROVE  NewestStill(sc) /\ snapshots'[newest[sc]].items = snapshots[newest[sc]].items
        BY <1>6, <2>3 DEF NewestStill
    <2> QED
        BY <2>1, <2>2, <2>3 DEF MoveInv, Populating
<1>8. Backfilling'
    <2>1. \A i \in published : snapshots'[i].items = snapshots[i].items
        BY <1>2 DEF MoveInv, Begun
    <2> QED
        BY <2>1 DEF MoveInv, Backfilling, Waits
<1>9. (Move!AttributesStayInSlot)'
    <2> SUFFICES ASSUME NEW row \in Move!Row, NEW attr \in attached[row]
                 PROVE  \E i \in (Move!Ready)' :
                            SlotOf(snapshots'[i].sc) = row[1] /\ row[2] \in snapshots'[i].items /\ attr \in snapshots'[i].attrs
        BY DEF Move!AttributesStayInSlot, Move!SlotOfList, SlotOf, Move!Row
    <2>1. PICK i \in Move!Ready :
              SlotOf(snapshots[i].sc) = row[1] /\ row[2] \in snapshots[i].items /\ attr \in snapshots[i].attrs
        BY DEF MoveInv, Move!AttributesStayInSlot, Move!SlotOfList, SlotOf
    <2>2. \A sc : SlotOf(sc)' = SlotOf(sc)
        BY DEF SlotOf
    <2> QED
        BY <1>2, <2>1, <2>2
<1> QED
    BY <1>1, <1>3, <1>4, <1>5, <1>7, <1>8, <1>9 DEF MoveInv

LEMMA ListIsAdded ==
    ASSUME MoveInv, UNCHANGED catalogue, NEW sc \in SaleChannel,
           NEW prices \in SUBSET catalogue.items, NEW attrs \in SUBSET catalogue.attrs,
           Move!CreateList(sc, prices, attrs)
    PROVE  MoveInv'
<1> DEFINE new == [sc |-> sc, status |-> "IN_PROGRESS", items |-> prices, attrs |-> attrs]
<1>1. new \in Snapshot /\ snapshots' = Append(snapshots, new) /\ snapshots \in Seq(Snapshot)
    BY DEF MoveInv, MoveTypes, Move!Catalogue, Snapshot, Move!CreateList
<1>2. Len(snapshots) \in Nat /\ Len(snapshots) < MaxLists /\ MaxLists \in Nat
    BY <1>1, CataloguesAssumption DEF Move!CreateList
<1> HIDE DEF new
<1>3. /\ snapshots' \in Seq(Snapshot) /\ Len(snapshots') = Len(snapshots) + 1
      /\ \A i \in DOMAIN snapshots : i \in DOMAIN snapshots' /\ snapshots'[i] = snapshots[i]
    BY <1>1
<1>4. Len(snapshots) <= Len(snapshots') /\ Len(snapshots') <= MaxLists
    BY <1>2, <1>3
<1> QED
    BY <1>3, <1>4, ListsGrow DEF Move!CreateList

LEMMA ListPublished ==
    ASSUME MoveInv, UNCHANGED catalogue, NEW i \in DOMAIN snapshots, Move!Publish(i)
    PROVE  MoveInv'
<1> DEFINE new == [snapshots[i] EXCEPT !.status = "READY"]
<1>1. snapshots \in Seq(Snapshot) /\ snapshots[i] \in Snapshot /\ Len(snapshots) <= MaxLists
    BY DEF MoveInv, MoveTypes
<1>2. /\ new \in Snapshot /\ new.sc = snapshots[i].sc /\ new.items = snapshots[i].items
      /\ new.attrs = snapshots[i].attrs /\ new.status = "READY"
    BY <1>1 DEF Snapshot
<1>3. snapshots' = [snapshots EXCEPT ![i] = new]
    BY DEF Move!Publish
<1> HIDE DEF new
<1>4. /\ snapshots' \in Seq(Snapshot) /\ Len(snapshots') = Len(snapshots)
      /\ \A k \in DOMAIN snapshots : k \in DOMAIN snapshots' /\ snapshots'[k] = IF k = i THEN new ELSE snapshots[k]
    BY <1>1, <1>2, <1>3
<1>5. Len(snapshots) \in Nat /\ Len(snapshots) <= Len(snapshots') /\ Len(snapshots') <= MaxLists
    BY <1>1, <1>4
<1> QED
    BY <1>2, <1>4, <1>5, ListsGrow DEF Move!Publish

LEMMA PriceIsEdited ==
    ASSUME MoveInv, UNCHANGED catalogue, NEW row \in Move!Row, Move!Edit(row)
    PROVE  MoveInv'
<1> DEFINE new == [list |-> 0, clamped |-> FALSE]
<1>1. /\ current' = [current EXCEPT ![row] = new] /\ new \in Origin /\ new # Null
      /\ UNCHANGED <<snapshots, history, attached, run, published, newest, runs>>
      /\ edits' \in Nat /\ edits' # 0
    <2>1. new \in Origin /\ new # Null
        <3>1. new \in Origin
            BY DEF Origin
        <3> HIDE DEF new
        <3> QED
            BY <3>1, CataloguesAssumption DEF Origin
    <2>2. edits' = edits + 1 /\ edits \in Nat
        BY DEF MoveInv, MoveTypes, Move!Edit
    <2> QED
        BY <2>1, <2>2 DEF Move!Edit
<1>2. MoveTypes /\ current \in [Move!Row -> Origin \cup {Null}] /\ new.list = 0 /\ new.clamped = FALSE
    BY DEF MoveInv, MoveTypes
<1> HIDE DEF new
<1>3. \A r \in Move!Row : current'[r] = IF r = row THEN new ELSE current[r]
    BY <1>1, <1>2
<1>4. MoveTypes'
    <2>1. current' \in [Move!Row -> Origin \cup {Null}]
        BY <1>1, <1>2
    <2> QED
        BY <1>1, <2>1 DEF MoveInv, MoveTypes, RunOK, Move!Row, Move!Catalogue, Move!Modes
<1>5. Left'
    BY <1>1, CardinalityIs DEF MoveInv, Left, Move!Ready, Move!ReadyOf, Move!Row
<1>6. Begun'
    BY <1>1 DEF MoveInv, Begun, Move!Ready, Move!ReadyOf
<1>7. Origins'
    <2>1. Len(snapshots) \in Nat
        BY <1>2 DEF MoveTypes
    <2> QED
        BY <1>1, <1>2, <1>3, <2>1 DEF MoveInv, Origins, Move!Row
<1>8. Populating'
    <2>1. \A sc \in SaleChannel : \A price : IsWritten(sc, price) /\ <<SlotOf(sc), price>> \in Move!Row => IsWritten(sc, price)'
        <3>1. \A sc : SlotOf(sc)' = SlotOf(sc) /\ (Move!LatestFor(sc))' = Move!LatestFor(sc)
            BY <1>1, ListsStay
        <3> QED
            BY <1>1, <1>2, <1>3, <3>1 DEF IsWritten
    <2>2. \A sc \in SaleChannel : newest[sc] # 0 => \A price \in snapshots[newest[sc]].items : <<SlotOf(sc), price>> \in Move!Row
        <3>1. \A sc \in SaleChannel : newest[sc] # 0 => newest[sc] \in DOMAIN snapshots
            BY <1>2, ReadyIs DEF MoveInv, Begun
        <3> QED
            BY <1>2, <3>1, SnapshotIs, SlotIs DEF Move!Row
    <2> QED
        BY <1>1, <2>1, <2>2, ListsStay DEF MoveInv, Populating, NewestStill, Todo
<1>9. Backfilling' /\ (Move!AttributesStayInSlot)'
    BY <1>1 DEF MoveInv, Backfilling, Waits, Move!AttributesStayInSlot, Move!Row, Move!Ready, Move!SlotOfList
<1> QED
    BY <1>4, <1>5, <1>6, <1>7, <1>8, <1>9 DEF MoveInv


\* What moves is the command.
LEMMA OnlyRunMoves ==
    ASSUME MoveInv, UNCHANGED <<catalogue, snapshots, current, history, attached, published, newest, runs, edits>>,
           RunOK', Left', Begun', Populating', Backfilling'
    PROVE  MoveInv'
<1>1. MoveTypes'
    BY DEF MoveInv, MoveTypes, Move!Row, Move!Catalogue
<1>2. Origins' /\ (Move!AttributesStayInSlot)'
    BY DEF MoveInv, Origins, Move!AttributesStayInSlot, Move!Row, Move!Ready, Move!SlotOfList
<1> QED
    BY <1>1, <1>2 DEF MoveInv

\* What it is to do stays, apart from being divided into batches.
LEMMA TodoStays ==
    ASSUME MoveInv, UNCHANGED <<catalogue, snapshots, current, history, published, newest, runs>>,
           run'.mode = run.mode, run'.todo = run.todo, run'.list = run.list,
           run'.left \cup run'.batch = run.left \cup run.batch,
           run'.step \in Reads => run.step \in Reads
    PROVE  Begun' /\ Populating' /\ Backfilling'
<1>1. \A sc, price : /\ Todo(sc, price)' <=> Todo(sc, price)
                     /\ IsWritten(sc, price)' <=> IsWritten(sc, price)
    BY ListsStay DEF Todo, IsWritten
<1>2. \A sc : NewestStill(sc)' <=> NewestStill(sc)
    BY ListsStay
<1>3. Begun'
    BY ListsStay DEF MoveInv, Begun
<1>4. Populating'
    BY <1>1, <1>2 DEF MoveInv, Populating
<1>5. Backfilling'
    <2>1. \A p : Waits(p)' <=> Waits(p)
        BY DEF Waits
    <2> QED
        BY <2>1 DEF MoveInv, Backfilling
<1> QED
    BY <1>3, <1>4, <1>5

\* A command that has ended, whichever way, has nothing to do.
LEMMA CommandEnds ==
    ASSUME MoveInv, UNCHANGED <<catalogue, snapshots, current, history, attached, published, newest, runs, edits>>, run' = Move!NoRun
    PROVE  MoveInv'
<1>1. /\ run' = [mode |-> Null, step |-> "idle", todo |-> {}, list |-> Null, left |-> {}, batch |-> {}]
      /\ Null \notin {"populate", "dry", "backfill", "attributes"}
    BY CataloguesAssumption DEF Move!NoRun, Move!Modes
<1>2. RunOK'
    BY <1>1 DEF RunOK, Move!Modes
<1>3. Left'
    BY <1>1, FS_EmptySet, CardinalityIs, CataloguesAssumption DEF Left, Reads
<1>4. Begun' /\ Populating' /\ Backfilling'
    BY <1>1 DEF MoveInv, Begun, Populating, Backfilling, Reads, Move!ReadyOf, Move!Ready
<1> QED
    BY <1>2, <1>3, <1>4, OnlyRunMoves

LEMMA CommandBegins ==
    ASSUME MoveInv, UNCHANGED catalogue, NEW mode \in Move!Modes, Move!Begin(mode)
    PROVE  MoveInv'
<1> DEFINE todo == CASE mode = "backfill" -> Move!Ready
                     [] mode = "attributes" -> {row \in Move!Row : current[row] # Null}
                     [] OTHER -> {sc \in SaleChannel : Move!ReadyOf(sc) # {}}
<1>1. /\ run' = [mode |-> mode, step |-> "next", todo |-> todo, list |-> Null, left |-> {}, batch |-> {}]
      /\ newest' = [sc \in SaleChannel |-> IF Move!ReadyOf(sc) = {} THEN 0 ELSE Move!Max(Move!ReadyOf(sc))]
      /\ UNCHANGED <<snapshots, current, history, attached, edits>>
      /\ published' = Move!Ready /\ runs' = runs + 1
    BY DEF Move!Begin, Move!NoRun
<1>2. /\ mode = "backfill" => todo = Move!Ready
      /\ mode = "attributes" => todo \subseteq Move!Row
      /\ mode \in {"populate", "dry"} => todo = {sc \in SaleChannel : Move!ReadyOf(sc) # {}}
    BY DEF Move!Modes
<1>3. mode # Null /\ mode \in {"populate", "dry", "backfill", "attributes"}
    BY CataloguesAssumption DEF Move!Modes
<1> HIDE DEF todo
<1>4. RunOK'
    BY <1>1 DEF RunOK
<1>5. MoveTypes
    BY DEF MoveInv
<1>6. \A sc \in SaleChannel :
          /\ newest'[sc] \in Nat /\ newest'[sc] # 0 <=> Move!ReadyOf(sc) # {}
          /\ newest'[sc] # 0 => newest'[sc] \in Move!ReadyOf(sc) /\ newest'[sc] \in Move!Ready
    BY <1>1, <1>5, NewestOfChannel, ReadyIs
<1>7. MoveTypes'
    <2>1. newest' \in [SaleChannel -> Nat]
        BY <1>1, <1>6
    <2> QED
        BY <1>1, <1>4, <1>5, <2>1 DEF MoveTypes, Move!Row, Move!Catalogue
<1>8. /\ (Move!Ready)' = Move!Ready /\ \A sc : (Move!ReadyOf(sc))' = Move!ReadyOf(sc)
      /\ (Move!Row)' = Move!Row
    BY <1>1 DEF Move!Ready, Move!ReadyOf, Move!Row
<1>9. Left'
    <2>1. mode = "backfill" => Null \notin todo
        BY <1>2, <1>5, ReadyIs, CallersAssumption
    <2> QED
        BY <1>1, <1>2, <1>3, <1>8, <2>1, FS_EmptySet, CardinalityIs, CataloguesAssumption DEF Left, Reads
<1>10. Begun'
    BY <1>1, <1>6, <1>8, ReadyIs DEF Begun, Reads
<1>11. Origins' /\ (Move!AttributesStayInSlot)'
    BY <1>1, <1>8 DEF MoveInv, Origins, Move!AttributesStayInSlot, Move!SlotOfList
<1>12. Populating'
    BY <1>1, <1>2, <1>6 DEF Populating, NewestStill
<1>13. Backfilling'
    <2>1. \A p \in DOMAIN history : history[p] <= runs' /\ history[p] < runs'
        <3>1. \A p \in DOMAIN history : history[p] \in Nat /\ history[p] <= runs
            BY <1>5 DEF MoveInv, MoveTypes, Backfilling
        <3> QED
            BY <1>1, <1>5, <3>1 DEF MoveTypes
    <2>2. mode = "backfill" => run'.todo = published'
        BY <1>1, <1>2
    <2> QED
        BY <1>1, <2>1, <2>2 DEF MoveInv, Backfilling, Waits
<1> QED
    BY <1>7, <1>9, <1>10, <1>11, <1>12, <1>13 DEF MoveInv


\* What the record of the command is made of.
LEMMA RunIs ==
    ASSUME MoveInv
    PROVE  /\ run = [mode |-> run.mode, step |-> run.step, todo |-> run.todo, list |-> run.list,
                     left |-> run.left, batch |-> run.batch]
           /\ run.mode \in Move!Modes \cup {Null} /\ run.step \in {"idle", "next", "done"} \cup Reads
           /\ run.list \in Nat \cup {Null} /\ run.left \in SUBSET Price /\ run.batch \in SUBSET Price
    BY DEF MoveInv, MoveTypes, RunOK

LEMMA ChannelIsTaken ==
    ASSUME MoveInv, UNCHANGED catalogue, Move!TakeChannel
    PROVE  MoveInv'
<1>1. PICK sc \in run.todo :
          /\ run.step = "next" /\ run.mode \in {"populate", "dry"}
          /\ run' = [run EXCEPT !.step = "batch", !.todo = @ \ {sc},
                                !.list = Move!ListToRead(sc), !.left = snapshots[Move!ListToRead(sc)].items]
          /\ UNCHANGED <<snapshots, current, history, attached, published, newest, runs, edits>>
    BY DEF Move!TakeChannel
<1> DEFINE i == Move!ListToRead(sc)
<1>2. MoveTypes
    BY DEF MoveInv
<1>3. sc \in SaleChannel /\ Move!ReadyOf(sc) # {}
    BY <1>1 DEF MoveInv, Left
<1>4. /\ i \in Move!ReadyOf(sc) /\ i \in Nat \ {0} /\ i \in Move!Ready /\ i \in DOMAIN snapshots
      /\ \A k \in Move!ReadyOf(sc) : k <= i
      /\ snapshots[i].sc = sc /\ snapshots[i].items \in SUBSET Price
    <2>1. i \in Move!ReadyOf(sc) /\ i \in Nat \ {0} /\ \A k \in Move!ReadyOf(sc) : k <= i
        BY <1>2, <1>3, NewestOfChannel DEF Move!ListToRead
    <2>2. i \in Move!Ready /\ i \in DOMAIN snapshots /\ snapshots[i].sc = sc
        BY <2>1 DEF Move!ReadyOf, Move!Ready
    <2> QED
        BY <1>2, <2>1, <2>2, SnapshotIs
<1> HIDE DEF i
<1>5. run' = [mode |-> run.mode, step |-> "batch", todo |-> run.todo \ {sc}, list |-> i,
              left |-> snapshots[i].items, batch |-> run.batch]
    BY <1>1, RunIs DEF i
<1>6. /\ run'.mode = run.mode /\ run'.step = "batch" /\ run'.todo = run.todo \ {sc}
      /\ run'.list = i /\ run'.left = snapshots[i].items /\ run'.batch = {} /\ run.left \cup run.batch = {}
    <2>1. run.left \cup run.batch = {}
        BY <1>1 DEF MoveInv, Left
    <2>2. run.batch = {}
        BY <2>1
    <2> QED
        BY <1>5, <2>1, <2>2
<1>7. RunOK'
    BY <1>4, <1>5, RunIs DEF RunOK, Reads
<1>8. (Move!Ready)' = Move!Ready /\ \A k : (Move!ReadyOf(k))' = Move!ReadyOf(k)
    BY <1>1 DEF Move!Ready, Move!ReadyOf
<1>9. Left'
    BY <1>1, <1>4, <1>6, <1>8, FS_EmptySet, CardinalityIs, CataloguesAssumption DEF MoveInv, Left, Reads
<1>10. newest[sc] \in Nat /\ newest[sc] <= i
    BY <1>2, <1>3, <1>4 DEF MoveInv, MoveTypes, Begun
<1>11. Begun'
    BY <1>1, <1>4, <1>6, <1>8, <1>10 DEF MoveInv, Begun
<1>12. Populating'
    <2> SUFFICES ASSUME run.mode = "populate", NEW s \in SaleChannel, NewestStill(s)', s \notin run'.todo,
                        NEW price \in snapshots[newest[s]].items
                 PROVE  Todo(s, price)' \/ IsWritten(s, price)'
        BY <1>1, <1>6 DEF Populating
    <2>1. NewestStill(s) /\ (IsWritten(s, price)' <=> IsWritten(s, price))
        BY <1>1, ListsStay DEF IsWritten
    <2>2. CASE s = sc
        <3>1. i <= newest[sc]
            BY <1>4, <2>1, <2>2 DEF NewestStill, Move!Undisturbed, Move!SlotOfList, SlotOf
        <3>2. newest[s] = i
            BY <1>4, <1>10, <2>2, <3>1
        <3> QED
            BY <1>1, <1>6, <3>2 DEF Todo
    <2>3. CASE s # sc
        BY <1>6, <2>1, <2>3 DEF MoveInv, Populating, Todo
    <2> QED
        BY <2>2, <2>3
<1>13. Backfilling'
    BY <1>1, <1>6 DEF MoveInv, Backfilling
<1> QED
    BY <1>1, <1>7, <1>9, <1>11, <1>12, <1>13, OnlyRunMoves

LEMMA ListIsTaken ==
    ASSUME MoveInv, UNCHANGED catalogue, Move!TakeList
    PROVE  MoveInv'
<1> DEFINE i == Move!Min(run.todo)
<1>1. /\ run.step = "next" /\ run.mode = "backfill" /\ run.todo # {}
      /\ run' = [run EXCEPT !.step = "batch", !.todo = @ \ {i}, !.list = i, !.left = Move!Backfilled(i)]
      /\ UNCHANGED <<snapshots, current, history, attached, published, newest, runs, edits>>
    BY DEF Move!TakeList
<1>2. MoveTypes
    BY DEF MoveInv
<1>3. i \in run.todo /\ i \in Move!Ready /\ i \in DOMAIN snapshots /\ i \in Nat
    <2>1. run.todo \in SUBSET Move!Ready /\ run.todo \in SUBSET Nat
        BY <1>1, <1>2, ReadyIs DEF MoveInv, Left
    <2> QED
        BY <1>1, <1>2, <2>1, MoveMin, ReadyIs
<1>4. Move!Backfilled(i) = snapshots[i].items \ catalogue.components /\ snapshots[i].items \in SUBSET Price
    BY <1>2, <1>3, SnapshotIs DEF Move!Backfilled
<1> HIDE DEF i
<1>5. run' = [mode |-> run.mode, step |-> "batch", todo |-> run.todo \ {i}, list |-> i,
              left |-> Move!Backfilled(i), batch |-> run.batch]
    BY <1>1, RunIs
<1>6. /\ run'.mode = run.mode /\ run'.step = "batch" /\ run'.todo = run.todo \ {i}
      /\ run'.list = i /\ run'.left = Move!Backfilled(i) /\ run'.batch = {} /\ run.left \cup run.batch = {}
    BY <1>1, <1>5 DEF MoveInv, Left
<1>7. RunOK'
    BY <1>3, <1>4, <1>5, RunIs DEF RunOK, Reads
<1>8. (Move!Ready)' = Move!Ready /\ \A k : (Move!ReadyOf(k))' = Move!ReadyOf(k)
    BY <1>1 DEF Move!Ready, Move!ReadyOf
<1>9. Left'
    BY <1>1, <1>3, <1>4, <1>6, <1>8, FS_EmptySet, CardinalityIs, CataloguesAssumption DEF MoveInv, Left, Reads
<1>10. Begun'
    BY <1>1, <1>6, <1>8 DEF MoveInv, Begun
<1>11. Populating'
    BY <1>1, <1>6 DEF Populating
<1>12. Backfilling'
    <2> SUFFICES ASSUME NEW p \in DOMAIN history
                 PROVE  /\ Waits(p)' => history[p] < runs
                        /\ p[1] \in published /\ p[2] \in snapshots[p[1]].items \ catalogue.components =>
                               Waits(p)' \/ history[p] > 0
        BY <1>1, <1>6 DEF MoveInv, Backfilling
    <2>1. /\ Waits(p) => history[p] < runs
          /\ p[1] \in published /\ p[2] \in snapshots[p[1]].items \ catalogue.components => Waits(p) \/ history[p] > 0
        BY <1>1 DEF MoveInv, Backfilling
    <2>2. Waits(p)' => Waits(p)
        BY <1>3, <1>6 DEF Waits
    <2>3. Waits(p) /\ p[2] \in snapshots[p[1]].items \ catalogue.components => Waits(p)'
        BY <1>4, <1>6 DEF Waits
    <2> QED
        BY <2>1, <2>2, <2>3
<1> QED
    BY <1>1, <1>7, <1>9, <1>10, <1>11, <1>12, OnlyRunMoves

LEMMA BatchIsTaken ==
    ASSUME MoveInv, UNCHANGED catalogue, Move!TakeBatch
    PROVE  MoveInv'
<1>1. run.step = "batch" /\ UNCHANGED <<snapshots, current, history, attached, published, newest, runs, edits>>
    BY DEF Move!TakeBatch
<1>2. run.batch = {} /\ run.mode \in {"populate", "dry", "backfill"} /\ run.list \in Move!Ready
    BY <1>1 DEF MoveInv, Left, Reads
<1>3. (Move!Ready)' = Move!Ready /\ \A k : (Move!ReadyOf(k))' = Move!ReadyOf(k)
    BY <1>1 DEF Move!Ready, Move!ReadyOf
<1>4. CASE run.left = {} /\ run' = [run EXCEPT !.step = "next"]
    <2>1. run' = [mode |-> run.mode, step |-> "next", todo |-> run.todo, list |-> run.list,
                  left |-> run.left, batch |-> run.batch]
        BY <1>4, RunIs
    <2>2. RunOK'
        BY <2>1, RunIs DEF RunOK
    <2>3. Left'
        BY <1>1, <1>2, <1>3, <1>4, <2>1, CardinalityIs DEF MoveInv, Left, Reads, Move!Row
    <2>4. Begun' /\ Populating' /\ Backfilling'
        BY <1>1, <2>1, TodoStays DEF Reads
    <2> QED
        BY <1>1, <2>2, <2>3, <2>4, OnlyRunMoves
<1>5. ASSUME NEW taken \in Move!Batches(run.left), run' = [run EXCEPT !.step = "flush", !.batch = taken, !.left = @ \ taken]
      PROVE  MoveInv'
    <2>1. run' = [mode |-> run.mode, step |-> "flush", todo |-> run.todo, list |-> run.list,
                  left |-> run.left \ taken, batch |-> taken]
        BY <1>5, RunIs
    <2>2. taken \subseteq run.left /\ Cardinality(taken) <= BatchSize
        <3>1. taken \in SUBSET run.left /\ taken \in SUBSET Price
            BY <1>5, RunIs DEF Move!Batches
        <3>2. Cardinality(taken) = BatchSize \/ Cardinality(taken) < BatchSize
            BY <1>5, CardinalityIs DEF Move!Batches
        <3>3. Cardinality(taken) \in Nat
            BY <3>1, CardinalityIs, FS_CardinalityType
        <3> QED
            BY <3>1, <3>2, <3>3, CataloguesAssumption
    <2>3. RunOK'
        BY <2>1, <2>2, RunIs DEF RunOK, Reads
    <2>4. Left'
        BY <1>1, <1>2, <1>3, <2>1, <2>2, CardinalityIs DEF MoveInv, Left, Reads, Move!Row
    <2>5. Begun' /\ Populating' /\ Backfilling'
        BY <1>1, <1>2, <2>1, <2>2, TodoStays DEF Reads
    <2> QED
        BY <1>1, <2>3, <2>4, <2>5, OnlyRunMoves
<1> QED
    BY <1>4, <1>5 DEF Move!TakeBatch

LEMMA BatchIsFlushed ==
    ASSUME MoveInv, UNCHANGED catalogue, Move!Flush
    PROVE  MoveInv'
<1>1. /\ run.step = "flush" /\ run.mode \in {"populate", "dry"}
      /\ UNCHANGED <<snapshots, current, history, attached, published, newest, runs, edits>>
    BY DEF Move!Flush
<1>2. run.list \in Move!Ready
    BY <1>1 DEF MoveInv, Left, Reads
<1>3. (Move!Ready)' = Move!Ready /\ \A k : (Move!ReadyOf(k))' = Move!ReadyOf(k)
    BY <1>1 DEF Move!Ready, Move!ReadyOf
<1>4. CASE run' = Move!NoRun
    BY <1>1, <1>4, CommandEnds
<1>5. CASE run.mode = "dry" /\ run' = [run EXCEPT !.step = "batch", !.batch = {}]
    <2>1. run' = [mode |-> "dry", step |-> "batch", todo |-> run.todo, list |-> run.list,
                  left |-> run.left, batch |-> {}]
        BY <1>5, RunIs
    <2>2. RunOK'
        BY <2>1, RunIs DEF RunOK, Reads, Move!Modes
    <2>3. Left'
        BY <1>1, <1>2, <1>3, <1>5, <2>1, FS_EmptySet, CardinalityIs, CataloguesAssumption DEF MoveInv, Left, Reads, Move!Modes
    <2>4. Begun' /\ Populating' /\ Backfilling'
        BY <1>1, <1>3, <1>5, <2>1 DEF MoveInv, Begun, Populating, Backfilling, Reads
    <2> QED
        BY <1>1, <2>2, <2>3, <2>4, OnlyRunMoves
<1>6. CASE run.mode = "populate" /\ run' = [run EXCEPT !.step = "write"]
    <2>1. run' = [mode |-> "populate", step |-> "write", todo |-> run.todo, list |-> run.list,
                  left |-> run.left, batch |-> run.batch]
        BY <1>6, RunIs
    <2>2. RunOK'
        BY <2>1, RunIs DEF RunOK, Reads, Move!Modes
    <2>3. Left'
        BY <1>1, <1>2, <1>3, <1>6, <2>1, CardinalityIs DEF MoveInv, Left, Reads, Move!Modes
    <2>4. Begun' /\ Populating' /\ Backfilling'
        BY <1>1, <1>6, <2>1, TodoStays DEF Reads
    <2> QED
        BY <1>1, <2>2, <2>3, <2>4, OnlyRunMoves
<1> QED
    BY <1>1, <1>4, <1>5, <1>6 DEF Move!Flush, Move!Raise


LEMMA RowIsWritten ==
    ASSUME MoveInv, UNCHANGED catalogue, NEW price \in run.batch, run.step = "write",
           current' = [current EXCEPT ![<<Move!SlotOfList(run.list), price>>] =
                           [list |-> run.list, clamped |-> price \in catalogue.floored]],
           run' = [run EXCEPT !.batch = @ \ {price}],
           UNCHANGED <<snapshots, history, attached, published, newest, runs, edits>>
    PROVE  MoveInv'
<1> DEFINE sc == snapshots[run.list].sc
           at == <<SlotOf(sc), price>>
           raised == price \in catalogue.floored
           new == [list |-> run.list, clamped |-> raised]
<1>1. /\ run.mode = "populate" /\ run.list \in Move!Ready /\ run.list \in DOMAIN snapshots
      /\ run.list \in Nat /\ 1 <= run.list /\ run.list <= Len(snapshots)
      /\ sc \in SaleChannel /\ SlotOf(sc) \in Slot /\ run.list \in Move!ReadyOf(sc)
    <2>1. run.mode = "populate" /\ run.list \in Move!Ready /\ run.list \in DOMAIN snapshots
        BY ReadyIs DEF MoveInv, Left, Reads
    <2> QED
        BY <2>1, SnapshotIs, ReadyIs DEF MoveInv
<1>2. MoveTypes /\ price \in Price /\ at \in Move!Row
    BY <1>1, RunIs DEF MoveInv, Move!Row
<1>3. new \in Origin /\ new.list = run.list /\ (new.clamped => price \in catalogue.floored)
    <2>1. raised \in BOOLEAN
        OBVIOUS
    <2>2. raised => price \in catalogue.floored
        OBVIOUS
    <2> HIDE DEF raised
    <2>3. new \in Origin /\ new.list = run.list
        BY <1>1, <2>1 DEF Origin
    <2>4. new.clamped => raised
        BY Zenon
    <2> QED
        BY <2>2, <2>3, <2>4
<1>4. current' = [current EXCEPT ![at] = new]
    BY DEF Move!SlotOfList, SlotOf
<1>5. new # Null
    <2> HIDE DEF new
    <2> QED
        BY <1>3, CataloguesAssumption DEF Origin
<1> HIDE DEF new
<1>6. /\ current' \in [Move!Row -> Origin \cup {Null}]
      /\ \A row \in Move!Row : current'[row] = IF row = at THEN new ELSE current[row]
    BY <1>2, <1>3, <1>4 DEF MoveTypes
<1>7. run' = [mode |-> "populate", step |-> "write", todo |-> run.todo, list |-> run.list,
              left |-> run.left, batch |-> run.batch \ {price}]
    BY <1>1, RunIs
<1>8. RunOK'
    BY <1>7, RunIs DEF RunOK, Reads, Move!Modes
<1>9. MoveTypes'
    BY <1>2, <1>6, <1>8 DEF MoveTypes, Move!Row, Move!Catalogue
<1>10. /\ (Move!Ready)' = Move!Ready /\ \A k : (Move!ReadyOf(k))' = Move!ReadyOf(k)
       /\ (Move!Row)' = Move!Row
    BY DEF Move!Ready, Move!ReadyOf, Move!Row
<1>11. Cardinality(run.batch \ {price}) <= BatchSize
    <2>1. IsFiniteSet(run.batch) /\ Cardinality(run.batch) \in Nat /\ Cardinality(run.batch) <= BatchSize
        BY RunIs, CardinalityIs, FS_CardinalityType DEF MoveInv, Left
    <2>2. Cardinality(run.batch \ {price}) = Cardinality(run.batch) - 1
        BY <2>1, FS_RemoveElement
    <2> QED
        BY <2>1, <2>2, CataloguesAssumption
<1>12. Left'
    BY <1>1, <1>7, <1>10, <1>11, CardinalityIs DEF MoveInv, Left, Reads
<1>13. Begun'
    BY <1>1, <1>7, <1>10 DEF MoveInv, Begun
<1>14. Origins'
    BY <1>1, <1>3, <1>6, <1>10 DEF MoveInv, Origins
<1>15. Populating'
    <2> SUFFICES ASSUME NEW s \in SaleChannel, NewestStill(s)', s \notin run.todo, NEW p \in snapshots[newest[s]].items
                 PROVE  Todo(s, p)' \/ IsWritten(s, p)'
        BY <1>7 DEF Populating
    <2>1. NewestStill(s) /\ newest[s] \in DOMAIN snapshots /\ newest[s] \in Nat
        <3>1. NewestStill(s)
            BY ListsStay
        <3> QED
            BY <1>2, <3>1, ReadyIs DEF MoveInv, Begun, NewestStill
    <2>2. <<SlotOf(s), p>> \in Move!Row
        BY <1>2, <2>1, SnapshotIs, SlotIs DEF Move!Row
    <2> DEFINE here == <<SlotOf(s), p>>
    <2>3. SlotOf(s)' = SlotOf(s) /\ (Move!LatestFor(s))' = Move!LatestFor(s)
        BY ListsStay
    <2>4. CASE here = at
        <3>1. SlotOf(s) = SlotOf(sc)
            BY <2>4
        <3>2. newest[sc] = run.list
            <4>1. newest[sc] <= run.list
                BY <1>1 DEF MoveInv, Begun, Reads
            <4>2. run.list <= newest[sc]
                BY <1>1, <2>1, <3>1 DEF NewestStill, Move!Undisturbed, Move!SlotOfList, SlotOf
            <4>3. newest[sc] \in Nat
                BY <1>1, <1>2 DEF MoveTypes
            <4> QED
                BY <1>1, <4>1, <4>2, <4>3
        <3>3. run.list \in Move!LatestFor(s)
            BY <1>1, <3>1, <3>2 DEF Move!LatestFor, SlotOf
        <3>4. current'[here] = new
            BY <1>2, <1>6, <2>4
        <3>5. current'[here] # Null /\ current'[here].list \in {0} \cup Move!LatestFor(s)
            BY <1>3, <1>5, <3>3, <3>4
        <3> QED
            BY <2>3, <3>5 DEF IsWritten
    <2>5. CASE here # at
        <3>2. IsWritten(s, p)' <=> IsWritten(s, p)
            BY <1>6, <2>2, <2>3, <2>5 DEF IsWritten
        <3>3. Todo(s, p) => Todo(s, p)'
            <4> SUFFICES ASSUME Todo(s, p) PROVE p # price
                BY <1>7 DEF Todo
            <4>1. newest[s] = run.list /\ snapshots[run.list].sc = s
                BY <2>1 DEF Todo, NewestStill, MoveInv, Begun, Move!ReadyOf
            <4> QED
                BY <2>5, <4>1
        <3> QED
            BY <1>1, <2>1, <3>2, <3>3 DEF MoveInv, Populating
    <2> QED
        BY <2>4, <2>5
<1>16. Backfilling'
    BY <1>7, <1>1 DEF MoveInv, Backfilling
<1>17. (Move!AttributesStayInSlot)'
    BY <1>10 DEF MoveInv, Move!AttributesStayInSlot, Move!SlotOfList
<1> QED
    BY <1>9, <1>12, <1>13, <1>14, <1>15, <1>16, <1>17 DEF MoveInv

LEMMA BatchIsWritten ==
    ASSUME MoveInv, UNCHANGED catalogue, Move!WriteRow
    PROVE  MoveInv'
<1>1. run.step = "write" /\ UNCHANGED <<snapshots, history, attached, published, newest, runs, edits>>
    BY DEF Move!WriteRow
<1>2. CASE run.batch = {} /\ run' = [run EXCEPT !.step = "batch"] /\ UNCHANGED current
    <2>1. run.mode = "populate" /\ run.list \in Move!Ready
        BY <1>1 DEF MoveInv, Left, Reads
    <2>2. run' = [mode |-> "populate", step |-> "batch", todo |-> run.todo, list |-> run.list,
                  left |-> run.left, batch |-> run.batch]
        BY <1>2, <2>1, RunIs
    <2>3. RunOK'
        BY <2>2, RunIs DEF RunOK, Reads, Move!Modes
    <2>4. Left'
        <3>1. (Move!Ready)' = Move!Ready /\ \A k : (Move!ReadyOf(k))' = Move!ReadyOf(k)
            BY <1>1 DEF Move!Ready, Move!ReadyOf
        <3> QED
            BY <1>1, <1>2, <2>1, <2>2, <3>1, CardinalityIs DEF MoveInv, Left, Reads
    <2>5. Begun' /\ Populating' /\ Backfilling'
        BY <1>1, <1>2, <2>1, <2>2, TodoStays DEF Reads
    <2> QED
        BY <1>1, <1>2, <2>3, <2>4, <2>5, OnlyRunMoves
<1>3. CASE run.batch # {}
    BY <1>1, <1>3, RowIsWritten DEF Move!WriteRow
<1> QED
    BY <1>2, <1>3 DEF Move!WriteRow

LEMMA BatchIsLogged ==
    ASSUME MoveInv, UNCHANGED catalogue, Move!BackfillBatch
    PROVE  MoveInv'
<1>1. /\ run.step = "flush" /\ run.mode = "backfill"
      /\ UNCHANGED <<snapshots, current, attached, published, newest, runs, edits>>
    BY DEF Move!BackfillBatch
<1>2. CASE run' = Move!NoRun /\ UNCHANGED history
    BY <1>1, <1>2, CommandEnds
<1>3. CASE /\ history' = [p \in DOMAIN history |->
                  IF p[1] = run.list /\ p[2] \in run.batch THEN history[p] + 1 ELSE history[p]]
           /\ run' = [run EXCEPT !.step = "batch", !.batch = {}]
    <2>1. MoveTypes /\ run.list \in Move!Ready /\ (run.left \cup run.batch) \cap catalogue.components = {}
        BY <1>1 DEF MoveInv, Left, Reads
    <2>2. run' = [mode |-> "backfill", step |-> "batch", todo |-> run.todo, list |-> run.list,
                  left |-> run.left, batch |-> {}]
        BY <1>1, <1>3, RunIs
    <2>3. RunOK'
        BY <2>2, RunIs DEF RunOK, Reads, Move!Modes
    <2>4. /\ DOMAIN history = (1 .. MaxLists) \X Price /\ DOMAIN history' = DOMAIN history
          /\ history' \in [(1 .. MaxLists) \X Price -> Nat]
          /\ \A p \in DOMAIN history :
                 /\ history[p] \in Nat /\ history'[p] \in Nat
                 /\ p[1] = run.list /\ p[2] \in run.batch => history'[p] = history[p] + 1
                 /\ ~(p[1] = run.list /\ p[2] \in run.batch) => history'[p] = history[p]
        BY <1>3, <2>1 DEF MoveTypes
    <2>5. MoveTypes'
        BY <1>1, <2>1, <2>3, <2>4 DEF MoveTypes, Move!Row, Move!Catalogue
    <2>6. (Move!Ready)' = Move!Ready /\ \A k : (Move!ReadyOf(k))' = Move!ReadyOf(k)
        BY <1>1 DEF Move!Ready, Move!ReadyOf
    <2>7. Left'
        BY <1>1, <2>1, <2>2, <2>6, FS_EmptySet, CardinalityIs, CataloguesAssumption DEF MoveInv, Left, Reads
    <2>8. Begun'
        BY <1>1, <2>2, <2>6 DEF MoveInv, Begun
    <2>9. Origins' /\ Populating' /\ (Move!AttributesStayInSlot)'
        BY <1>1, <2>2, <2>6 DEF MoveInv, Origins, Populating, Move!AttributesStayInSlot, Move!Row, Move!SlotOfList
    <2>10. Backfilling'
        <3> SUFFICES ASSUME NEW p \in DOMAIN history
                     PROVE  /\ history'[p] <= runs /\ (p[2] \in catalogue.components => history'[p] = 0)
                            /\ Waits(p)' => history'[p] < runs
                            /\ p[1] \in published /\ p[2] \in snapshots[p[1]].items \ catalogue.components =>
                                   Waits(p)' \/ history'[p] > 0
            BY <1>1, <2>4 DEF Backfilling
        <3>1. /\ history[p] <= runs /\ (p[2] \in catalogue.components => history[p] = 0)
              /\ Waits(p) => history[p] < runs
              /\ p[1] \in published /\ p[2] \in snapshots[p[1]].items \ catalogue.components =>
                     Waits(p) \/ history[p] > 0
            BY <1>1 DEF MoveInv, Backfilling
        <3>2. history[p] \in Nat /\ history'[p] \in Nat /\ runs \in Nat
            BY <2>1, <2>4 DEF MoveTypes
        <3>3. Waits(p)' <=> p[1] \in run.todo \/ (p[1] = run.list /\ p[2] \in run.left)
            BY <2>2 DEF Waits
        <3>4. CASE p[1] = run.list /\ p[2] \in run.batch
            <4>1. Waits(p) /\ p[2] \notin catalogue.components
                BY <2>1, <3>4 DEF Waits
            <4>2. ~Waits(p)'
                BY <1>1, <3>3, <3>4 DEF MoveInv, Left
            <4>3. history'[p] = history[p] + 1
                BY <2>4, <3>4
            <4> QED
                BY <3>1, <3>2, <4>1, <4>2, <4>3
        <3>5. CASE ~(p[1] = run.list /\ p[2] \in run.batch)
            <4>1. Waits(p)' <=> Waits(p)
                BY <3>3, <3>5 DEF Waits
            <4> QED
                BY <2>4, <3>1, <3>5, <4>1
        <3> QED
            BY <3>4, <3>5
    <2> QED
        BY <2>5, <2>7, <2>8, <2>9, <2>10 DEF MoveInv
<1> QED
    BY <1>2, <1>3 DEF Move!BackfillBatch, Move!Raise

LEMMA AttributesAttached ==
    ASSUME MoveInv, UNCHANGED catalogue, Move!AttachAttributes
    PROVE  MoveInv'
<1>1. PICK row \in run.todo :
          /\ run.step = "next" /\ run.mode = "attributes"
          /\ attached' = [attached EXCEPT ![row] = @ \cup Move!AttributesFor(row)]
          /\ run' = [run EXCEPT !.todo = @ \ {row}]
          /\ UNCHANGED <<snapshots, current, history, published, newest, runs, edits>>
    BY DEF Move!AttachAttributes
<1>2. MoveTypes /\ row \in Move!Row /\ attached \in [Move!Row -> SUBSET Attr]
    BY <1>1 DEF MoveInv, MoveTypes, Left
<1>3. \A attr \in Move!AttributesFor(row) :
          \E i \in Move!Ready : Move!SlotOfList(i) = row[1] /\ row[2] \in snapshots[i].items /\ attr \in snapshots[i].attrs
    BY DEF Move!AttributesFor
<1>4. Move!AttributesFor(row) \in SUBSET Attr
    BY <1>2, <1>3, SnapshotIs, ReadyIs
<1>5. attached' \in [Move!Row -> SUBSET Attr]
    BY <1>1, <1>2, <1>4
<1>6. run' = [mode |-> "attributes", step |-> "next", todo |-> run.todo \ {row}, list |-> run.list,
              left |-> run.left, batch |-> run.batch]
    BY <1>1, RunIs
<1>7. RunOK'
    BY <1>6, RunIs DEF RunOK, Move!Modes
<1>8. MoveTypes'
    BY <1>1, <1>2, <1>5, <1>7 DEF MoveTypes, Move!Row, Move!Catalogue
<1>9. /\ (Move!Ready)' = Move!Ready /\ \A k : (Move!ReadyOf(k))' = Move!ReadyOf(k)
      /\ (Move!Row)' = Move!Row
    BY <1>1 DEF Move!Ready, Move!ReadyOf, Move!Row
<1>10. Left'
    BY <1>1, <1>6, <1>9, CardinalityIs, CataloguesAssumption DEF MoveInv, Left, Reads, Move!Modes
<1>11. Begun' /\ Origins' /\ Populating' /\ Backfilling'
    BY <1>1, <1>6, <1>9 DEF MoveInv, Begun, Origins, Populating, Backfilling, Waits, Reads
<1>12. (Move!AttributesStayInSlot)'
    <2>1. \A r \in Move!Row : attached'[r] = IF r = row THEN attached[row] \cup Move!AttributesFor(row) ELSE attached[r]
        BY <1>1, <1>2
    <2>2. ASSUME NEW r \in Move!Row, NEW attr \in attached'[r]
          PROVE  \E i \in Move!Ready : Move!SlotOfList(i) = r[1] /\ r[2] \in snapshots[i].items /\ attr \in snapshots[i].attrs
        <3>1. attr \in attached[r] \/ (r = row /\ attr \in Move!AttributesFor(row))
            BY <2>1, <2>2
        <3> QED
            BY <1>3, <3>1 DEF MoveInv, Move!AttributesStayInSlot
    <2> QED
        BY <1>1, <1>9, <2>2 DEF Move!AttributesStayInSlot, Move!SlotOfList
<1> QED
    BY <1>8, <1>10, <1>11, <1>12 DEF MoveInv

LEMMA CommandIsDone ==
    ASSUME MoveInv, UNCHANGED catalogue, Move!Finish
    PROVE  MoveInv'
<1>1. /\ run.step = "next" /\ run.todo = {} /\ run' = [run EXCEPT !.step = "done"]
      /\ UNCHANGED <<snapshots, current, history, attached, published, newest, runs, edits>>
    BY DEF Move!Finish
<1>2. run' = [mode |-> run.mode, step |-> "done", todo |-> run.todo, list |-> run.list,
              left |-> run.left, batch |-> run.batch]
    BY <1>1, RunIs
<1>3. RunOK'
    BY <1>2, RunIs DEF RunOK
<1>4. Left'
    <2>1. (Move!Ready)' = Move!Ready /\ \A k : (Move!ReadyOf(k))' = Move!ReadyOf(k)
        BY <1>1 DEF Move!Ready, Move!ReadyOf
    <2> QED
        BY <1>1, <1>2, <2>1, CardinalityIs DEF MoveInv, Left, Reads
<1>5. Begun' /\ Populating' /\ Backfilling'
    BY <1>1, <1>2, TodoStays DEF Reads
<1> QED
    BY <1>1, <1>3, <1>4, <1>5, OnlyRunMoves


LEMMA MoveStep ==
    ASSUME MoveInv, Move!Next
    PROVE  MoveInv'
<1>1. UNCHANGED catalogue
    BY DEF Move!Next
<1>2. CASE \E sc \in SaleChannel, prices \in SUBSET catalogue.items, attrs \in SUBSET catalogue.attrs :
               Move!CreateList(sc, prices, attrs)
    BY <1>1, <1>2, ListIsAdded
<1>3. CASE \E i \in DOMAIN snapshots : Move!Publish(i)
    BY <1>1, <1>3, ListPublished
<1>4. CASE \E row \in Move!Row : Move!Edit(row)
    BY <1>1, <1>4, PriceIsEdited
<1>5. CASE \E mode \in Move!Modes : Move!Begin(mode)
    BY <1>1, <1>5, CommandBegins
<1>6. CASE Move!TakeChannel
    BY <1>1, <1>6, ChannelIsTaken
<1>7. CASE Move!TakeList
    BY <1>1, <1>7, ListIsTaken
<1>8. CASE Move!TakeBatch
    BY <1>1, <1>8, BatchIsTaken
<1>9. CASE Move!Flush
    BY <1>1, <1>9, BatchIsFlushed
<1>10. CASE Move!WriteRow
    BY <1>1, <1>10, BatchIsWritten
<1>11. CASE Move!BackfillBatch
    BY <1>1, <1>11, BatchIsLogged
<1>12. CASE Move!AttachAttributes
    BY <1>1, <1>12, AttributesAttached
<1>13. CASE Move!Finish
    BY <1>1, <1>13, CommandIsDone
<1>14. CASE Move!Exit
    BY <1>1, <1>14, CommandEnds DEF Move!Exit
<1> QED
    BY <1>2, <1>3, <1>4, <1>5, <1>6, <1>7, <1>8, <1>9, <1>10, <1>11, <1>12, <1>13, <1>14 DEF Move!Next

LEMMA MoveRests ==
    ASSUME MoveInv, UNCHANGED migrationVars
    PROVE  MoveInv'
<1>1. UNCHANGED <<catalogue, snapshots, current, history, attached, run, published, newest, runs, edits>>
    BY DEF migrationVars
<1>2. snapshots \in Seq(Snapshot) /\ Len(snapshots) \in Nat /\ Len(snapshots) <= MaxLists
    BY DEF MoveInv, MoveTypes
<1> QED
    BY <1>1, <1>2, ListsGrow

-----------------------------------------------------------------------------
(* What the invariant is for *)

\* A run of populate that has ended has written the newest list of each sale channel.
LEMMA WrittenInTheEnd ==
    ASSUME MoveInv, Move!Done("populate"), NEW sc \in SaleChannel, NewestStill(sc),
           NEW price \in snapshots[newest[sc]].items
    PROVE  IsWritten(sc, price)
<1>1. run.mode = "populate" /\ run.todo = {} /\ run.left \cup run.batch = {}
    BY DEF Move!Done, MoveInv, Left
<1> QED
    BY <1>1 DEF MoveInv, Populating, Todo

LEMMA PopulatedIs == MoveInv => Move!PopulatedFromLatest
<1> SUFFICES ASSUME MoveInv, Move!Done("populate"), NEW sc \in SaleChannel,
                    newest[sc] # 0, Move!Undisturbed(SlotOf(sc)), NEW price \in snapshots[newest[sc]].items
             PROVE  IsWritten(sc, price)
    BY DEF Move!PopulatedFromLatest, IsWritten, SlotOf
<1> QED
    BY WrittenInTheEnd DEF NewestStill

LEMMA ClampsAreReported == MoveInv => Move!VerifyReportsClamps
<1> SUFFICES ASSUME MoveInv, Move!Done("populate"), edits = 0,
                    NEW slot \in Slot, Move!Undisturbed(slot),
                    \A k, j \in Move!Ready :
                        Move!SlotOfList(k) = slot /\ Move!SlotOfList(j) = slot => snapshots[k].sc = snapshots[j].sc,
                    NEW price \in Move!Mismatches(slot)
             PROVE  price \in catalogue.floored
    BY DEF Move!VerifyReportsClamps
<1> DEFINE listed == {i \in Move!Ready : Move!SlotOfList(i) = slot}
           i == Move!Max(listed)
           row == <<slot, price>>
<1>1. MoveTypes
    BY DEF MoveInv
<1>2. /\ listed # {} /\ price \in snapshots[i].items
      /\ current[row] = Null \/ current[row].list # i \/ current[row].clamped
    BY DEF Move!Mismatches
<1>3. listed \in SUBSET DOMAIN snapshots
    BY <1>1, ReadyIs
<1>4. i \in listed /\ \A k \in listed : k <= i
    BY <1>1, <1>2, <1>3, MoveMax
<1> HIDE DEF i
<1> DEFINE sc == snapshots[i].sc
<1>5. /\ i \in DOMAIN snapshots /\ i \in Nat /\ 1 <= i /\ i \in Move!ReadyOf(sc)
      /\ sc \in SaleChannel /\ SlotOf(sc) = slot /\ price \in Price
    BY <1>1, <1>2, <1>3, <1>4, SnapshotIs, ReadyIs DEF Move!SlotOfList, SlotOf
<1>6. newest[sc] = i
    <2>1. newest[sc] \in Nat /\ i <= newest[sc]
        BY <1>1, <1>4, <1>5 DEF MoveTypes, Move!Undisturbed
    <2>2. newest[sc] \in Move!ReadyOf(sc)
        BY <1>5, <2>1 DEF MoveInv, Begun
    <2>3. newest[sc] \in listed
        BY <1>5, <2>2 DEF Move!ReadyOf, Move!SlotOfList, SlotOf
    <2>4. newest[sc] <= i
        BY <1>4, <2>3
    <2> QED
        BY <1>5, <2>1, <2>4
<1>7. NewestStill(sc)
    BY <1>5, <1>6 DEF NewestStill
<1> DEFINE owners == {other \in SaleChannel : catalogue.slotOf[other] = catalogue.slotOf[sc]}
<1>11. \A other \in owners : newest[other] \in {0, i}
    <2> SUFFICES ASSUME NEW other \in owners, newest[other] # 0
                 PROVE  newest[other] = i
        OBVIOUS
    <2>1. newest[other] \in Move!ReadyOf(other) /\ SlotOf(other) = slot
        BY <1>5 DEF MoveInv, Begun, SlotOf
    <2>2. newest[other] \in Move!Ready /\ Move!SlotOfList(newest[other]) = slot /\ snapshots[newest[other]].sc = other
        BY <2>1 DEF Move!ReadyOf, Move!SlotOfList, SlotOf
    <2>3. other = sc
        BY <1>4, <2>2
    <2> QED
        BY <1>6, <2>3
<1>12. Move!LatestFor(sc) \subseteq {0, i}
    BY <1>11 DEF Move!LatestFor
<1>8. IsWritten(sc, price)
    BY <1>2, <1>5, <1>6, <1>7, WrittenInTheEnd
<1>9. row \in Move!Row
    BY <1>5 DEF Move!Row
<1>10. current[row] # Null /\ current[row].list = i
    BY <1>5, <1>8, <1>9, <1>12 DEF IsWritten, MoveInv, Origins
<1> QED
    BY <1>2, <1>9, <1>10 DEF MoveInv, Origins

LEMMA BackfillIs == MoveInv => Move!BackfillIsWhole
<1> SUFFICES ASSUME MoveInv, Move!Done("backfill"), NEW i \in published,
                    NEW price \in snapshots[i].items \ catalogue.components
             PROVE  history[<<i, price>>] > 0
    BY DEF Move!BackfillIsWhole, MoveInv, Backfilling
<1>1. run.mode = "backfill" /\ run.todo = {} /\ run.left \cup run.batch = {}
    BY DEF Move!Done, MoveInv, Left
<1>2. i \in DOMAIN snapshots /\ MoveTypes
    BY ReadyIs DEF MoveInv, Begun
<1>3. <<i, price>> \in DOMAIN history
    BY <1>2, SnapshotIs DEF MoveTypes
<1> QED
    BY <1>1, <1>3 DEF MoveInv, Backfilling, Waits

LEMMA MoveTypesAre == MoveInv => Move!TypeOK
<1> SUFFICES ASSUME MoveInv PROVE Move!TypeOK
    OBVIOUS
<1>1. \A row \in Move!Row : current[row] # Null => current[row].list \in 0 .. Len(snapshots)
    <2>1. Len(snapshots) \in Nat
        BY DEF MoveInv, MoveTypes
    <2>2. \A row \in Move!Row : current[row] # Null => current[row].list \in Nat
        BY DEF MoveInv, MoveTypes, Origin
    <2> QED
        BY <2>1, <2>2 DEF MoveInv, Origins
<1>2. \A p \in DOMAIN history : history[p] \in Nat /\ (p[2] \in catalogue.components => history[p] = 0)
    BY DEF MoveInv, MoveTypes, Backfilling
<1> QED
    BY <1>1, <1>2, RunIs, CardinalityIs DEF Move!TypeOK, MoveInv, Left

LEMMA MoveOfSpec == MCSpec => [](Migrating => MoveInv)
<1>1. MCInit => (Migrating => MoveInv)
    BY MoveInitially DEF MCInit
<1>2. ASSUME Migrating => MoveInv, [MCNext]_<<scenario, upsertVars, migrationVars, vars>>
      PROVE  (Migrating => MoveInv)'
    <2> SUFFICES ASSUME Migrating' PROVE MoveInv'
        OBVIOUS
    <2>1. Migrating
        BY <1>2 DEF MCNext, Migrating
    <2>2. Move!Next \/ UNCHANGED migrationVars
        BY <1>2, <2>1 DEF MCNext
    <2> QED
        BY <1>2, <2>1, <2>2, MoveStep, MoveRests
<1> QED
    BY <1>1, <1>2, PTL DEF MCSpec

\* For any sale channels and slots, however often the command was killed before,
\* whatever is published or edited meanwhile and however rows fall into batches: a run
\* that ends has written the newest list there was for every sale channel, or those of
\* the channels that share its slot, or it has logged every price of every list there
\* was, once; --verify-only reports what the guard raised and no more, and attributes
\* stay in their slot (migration_service.py:32-282).
THEOREM MigrationIsWholeAlways == MCSpec => []MigrationIsWhole
<1>1. (Migrating => MoveInv) => MigrationIsWhole
    BY MoveTypesAre, PopulatedIs, ClampsAreReported, BackfillIs DEF MigrationIsWhole, MoveInv
<1> QED
    BY <1>1, MoveOfSpec, PTL
================================================================================
