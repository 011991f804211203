---------------------------- MODULE PriceListImport ----------------------------
(****************************************************************************)
(* What a price list is filled with.  read_from_file turns the rows of a    *)
(* CSV file into prices, saves them in batches and, while both stores are   *)
(* written, carries each batch over to CurrentPrice; create_pricelists      *)
(* derives a list of another country from it, one price at a time.  Between *)
(* their transactions an administrator edits prices, and a tax rate changes *)
(* and the rows at the old one are recalculated.                            *)
(* PriceLists has the lists themselves: overlapping imports and collection. *)
(****************************************************************************)
EXTENDS PriceWriteGuard, Sequences

CONSTANTS
    Sku, Attr, TaxClass,
    Home, Abroad,      \* the country files are for, and one generated from it
    Rate,              \* the tax rates there may be
    InitialRate,       \* the rates at the start; a class may lack one in a country
    Files,             \* the files there are to import: sequences of rows
    BatchSize,         \* 1 at least: PRICEMANAGER_BULK_CREATE_BATCH_SIZE
    MapOf,             \* the advertised price of a product, or Null
    EditTo,            \* amounts an administrator enters
    MaxLists, MaxEdits, MaxRateChanges    \* bounds of the model

Country == {Home, Abroad}

VARIABLES
    fromNetToGross,   \* calculate_direction of the channel, which is set once
    taxClass,    \* ProductRepresentation and AttributeRepresentation: their class, or Null
    rate,        \* TaxRate
    lists,       \* PriceList with its Price rows, in the order of creation
    current,     \* CurrentPrice
    history,     \* PriceHistory: the entries of each row
    imp, gen,    \* the importer and the generator
    vat,         \* the recalculation for a tax rate that was changed
    edits, rateChanges

vars == <<fromNetToGross, taxClass, rate, lists, current, history, imp, gen, vat, edits, rateChanges>>

(***************************** rows to prices *******************************)
\* A row is a record of sku, attrs, class, net, gross, snet and sgross.  Null
\* is an empty cell; for the special price also "0", "0.0", "0.00" and " ".
NamesNothing(row) == row.class = Null \/ (row.sku = Null /\ row.attrs = {})

Named(row) == ({row.sku} \cup row.attrs) \ {Null}

\* The tax class of a representation the file introduces: its first row's.
FirstClass(file, x) ==
    LET rows == {i \in DOMAIN file : ~NamesNothing(file[i]) /\ x \in Named(file[i])}
    IN  IF rows = {} THEN Null ELSE file[CHOOSE i \in rows : \A k \in rows : i <= k].class

\* The missing one of two amounts follows from the other.
Completed(net, gross, r) ==
    IF net = 0 THEN [net |-> NetPrice(gross, r), gross |-> gross]
    ELSE IF gross = 0 THEN [net |-> net, gross |-> GrossPrice(net, r)]
    ELSE [net |-> net, gross |-> gross]

Blank == {0, Null}
CompletedSpecial(net, gross, r) ==
    [net   |-> IF net \in Blank /\ gross \notin Blank THEN NetPrice(gross, r) ELSE net,
     gross |-> IF gross \in Blank /\ net \notin Blank THEN GrossPrice(net, r) ELSE gross]

PriceOf(row, r) ==
    [sku |-> row.sku, attrs |-> row.attrs, rate |-> r,
     values |-> [kind \in Kind |-> IF kind = "regular" THEN Completed(row.net, row.gross, r)
                                   ELSE CompletedSpecial(row.snet, row.sgross, r)]]

\* What the loop makes of a row, with the rates it read before: nothing, an
\* error that only counts if no later row succeeds, a crash, or a price.  Every
\* class of a row is taken to be in the cache: one that the database does not have, in
\* a row that introduces nothing, makes the loop pass over the row (:357-360).
Outcome(row, rates) ==
    IF NamesNothing(row) THEN "nothing"
    ELSE IF row.net = Null \/ row.gross = Null THEN "raises"
    ELSE IF rates[row.class] = Null THEN "error" ELSE "price"

(***************************** CurrentPrice *********************************)
\* update_or_create of one price in CurrentPrice, as the guard lets it through,
\* and what its history entry says of it.
Stored(country, price, writer, existing) ==
    LET decision == GuardPriceWrite(existing, price.values, writer, Null, MapOf[price.sku], price.rate, <<>>)
    IN  [values |-> decision.values, logged |-> decision.values, source |-> decision.source,
         by |-> writer, rate |-> price.rate]

LabelOf(country, sku) == IF current[country][sku] = Null THEN Null ELSE current[country][sku].source
Labels(country) == [sku \in Sku |-> LabelOf(country, sku)]

\* A row with the number of times it was written.
Written(country, sku, row) ==
    [values |-> row.values, source |-> row.source, by |-> row.by, rate |-> row.rate,
     at |-> IF current[country][sku] = Null THEN 1 ELSE current[country][sku].at + 1]

\* The history entry made for that write, with the writer that it names.  Its created_at
\* is not said: it is taken after the row's commit, and others may have written by then.
Entry(country, sku, row) ==
    [values |-> row.logged, source |-> row.by, at |-> Written(country, sku, row).at]

\* Entries are only ever added.
Recorded(country, log) ==
    [history EXCEPT ![country] = [sku \in Sku |->
        @[sku] \cup {one.entry : one \in {other \in log : other.sku = sku}}]]

(***************************** import ***************************************)
Idle == [step |-> "idle", file |-> <<>>, line |-> 1, list |-> 0, rates |-> <<>>, status |-> "in_progress",
         batch |-> <<>>, todo |-> <<>>, labels |-> <<>>, log |-> {}]

Ended == {"idle", "done", "failed"}

\* create_pricelist_from_csv: the list in progress.
ImportStart(file) ==
    /\ imp.step \in Ended
    /\ Len(lists) < MaxLists
    /\ lists' = Append(lists, [country |-> Home, status |-> "in_progress", prices |-> <<>>])
    /\ imp' = [Idle EXCEPT !.step = "products", !.file = file, !.list = Len(lists) + 1]
    /\ UNCHANGED <<taxClass, rate, current, history, gen, vat, edits, rateChanges>>

\* Pass 1: the products and attributes the file introduces.
ImportProducts ==
    /\ imp.step = "products"
    /\ taxClass' = [x \in Sku \cup Attr |->
                       IF taxClass[x] = Null THEN FirstClass(imp.file, x) ELSE taxClass[x]]
    /\ imp' = [imp EXCEPT !.step = "rates"]
    /\ UNCHANGED <<rate, lists, current, history, gen, vat, edits, rateChanges>>

\* The rates of the country, read once for the whole file.
ImportRates ==
    /\ imp.step = "rates"
    /\ imp' = [imp EXCEPT !.step = "row", !.rates = rate[Home]]
    /\ UNCHANGED <<taxClass, rate, lists, current, history, gen, vat, edits, rateChanges>>

\* The next row that can be read.  The last row that says anything decides the
\* status the list gets.
ImportRow ==
    LET row  == imp.file[imp.line]
        said == Outcome(row, imp.rates)
    IN  /\ imp.step = "row"
        /\ imp.line <= Len(imp.file)
        /\ Len(imp.batch) < BatchSize
        /\ said # "raises"
        /\ imp' = [imp EXCEPT
                !.line = @ + 1,
                !.status = IF said = "price" THEN "ready" ELSE IF said = "error" THEN "error" ELSE @,
                !.batch = IF said = "price" THEN Append(@, PriceOf(row, imp.rates[row.class])) ELSE @]
        /\ UNCHANGED <<taxClass, rate, lists, current, history, gen, vat, edits, rateChanges>>

\* A full batch of prices, or the rest, is saved in one transaction.
ImportBatch ==
    /\ imp.step = "row"
    /\ imp.batch # <<>>
    /\ Len(imp.batch) = BatchSize \/ imp.line > Len(imp.file)
    /\ lists' = [lists EXCEPT ![imp.list].prices = @ \o imp.batch]
    /\ imp' = [imp EXCEPT !.step = "labels", !.batch = <<>>, !.todo = imp.batch]
    /\ UNCHANGED <<taxClass, rate, current, history, gen, vat, edits, rateChanges>>

\* _dual_write_batch: the labels of the rows, read once for the batch.
ImportLabels ==
    /\ imp.step = "labels"
    /\ imp' = [imp EXCEPT !.step = "write", !.labels = Labels(Home)]
    /\ UNCHANGED <<taxClass, rate, lists, current, history, gen, vat, edits, rateChanges>>

\* Seeded fault: the prices of a row that is there are left alone.
ImportWrite_GetOrCreate ==
    LET price == Head(imp.todo)
        row   == IF current[Home][price.sku] = Null
                 THEN Stored(Home, price, "csv_import", Null)
                 ELSE [Stored(Home, price, "csv_import", Null) EXCEPT !.values = current[Home][price.sku].values]
    IN  /\ imp.step = "write"
        /\ imp.todo # <<>>
        /\ price.sku # Null
        /\ current' = [current EXCEPT ![Home][price.sku] = Written(Home, price.sku, row)]
        /\ imp' = [imp EXCEPT !.todo = Tail(@),
                              !.log = @ \cup {[sku |-> price.sku, entry |-> Entry(Home, price.sku, row)]}]
        /\ UNCHANGED <<taxClass, rate, lists, history, gen, vat, edits, rateChanges>>

\* One price of the batch, in a transaction of its own.
ImportWrite ==
    LET price == Head(imp.todo)
        row   == Stored(Home, price, "csv_import", imp.labels[price.sku])
    IN  /\ imp.step = "write"
        /\ imp.todo # <<>>
        /\ price.sku # Null
        /\ current' = [current EXCEPT ![Home][price.sku] = Written(Home, price.sku, row)]
        /\ imp' = [imp EXCEPT !.todo = Tail(@),
                              !.log = @ \cup {[sku |-> price.sku, entry |-> Entry(Home, price.sku, row)]}]
        /\ UNCHANGED <<taxClass, rate, lists, history, gen, vat, edits, rateChanges>>

\* A price of attributes alone has no row there.
ImportSkip ==
    /\ imp.step = "write"
    /\ imp.todo # <<>>
    /\ Head(imp.todo).sku = Null
    /\ imp' = [imp EXCEPT !.todo = Tail(@)]
    /\ UNCHANGED <<taxClass, rate, lists, current, history, gen, vat, edits, rateChanges>>

\* The history of the batch, in one more transaction.
ImportHistory ==
    /\ imp.step = "write"
    /\ imp.todo = <<>>
    /\ history' = Recorded(Home, imp.log)
    /\ imp' = [imp EXCEPT !.step = "row", !.log = {}]
    /\ UNCHANGED <<taxClass, rate, lists, current, gen, vat, edits, rateChanges>>

\* The status is saved last.
ImportFinish ==
    /\ imp.step = "row"
    /\ imp.batch = <<>>
    /\ imp.line > Len(imp.file)
    /\ lists' = [lists EXCEPT ![imp.list].status = imp.status]
    /\ imp' = [imp EXCEPT !.step = "done"]
    /\ UNCHANGED <<taxClass, rate, current, history, gen, vat, edits, rateChanges>>

\* An unreadable row, before its batch is saved: nothing is undone.
ImportFail ==
    /\ imp.step = "row"
    /\ imp.line <= Len(imp.file)
    /\ Len(imp.batch) < BatchSize
    /\ Outcome(imp.file[imp.line], imp.rates) = "raises"
    /\ imp' = [imp EXCEPT !.step = "failed"]
    /\ UNCHANGED <<taxClass, rate, lists, current, history, gen, vat, edits, rateChanges>>

(***************************** generation ***********************************)
\* The rate of a generated price: of the product's class, or of one of the
\* attributes' classes, whichever the database returns first.
TargetRates(price) ==
    LET classes == {taxClass[x] : x \in IF price.attrs = {} THEN {price.sku} ELSE price.attrs} \ {Null}
    IN  {rate[Abroad][c] : c \in classes} \ {Null}

Converted(price, r) ==
    LET pair(old) ==
            IF fromNetToGross
            THEN [net |-> old.net, gross |-> IF old.net = Null THEN Null ELSE GrossPrice(old.net, r)]
            ELSE [net |-> IF old.gross = Null THEN Null ELSE NetPrice(old.gross, r), gross |-> old.gross]
    IN  [price EXCEPT !.rate = r, !.values = [kind \in Kind |-> pair(@[kind])]]

\* create_pricelists: the source is the home list saved last, whatever its
\* status; its prices and the labels of the rows abroad are read up front.
GenerateStart ==
    LET sources == {i \in DOMAIN lists : lists[i].country = Home}
        source  == CHOOSE i \in sources : \A k \in sources : k <= i
    IN  /\ gen.step \in Ended
        /\ sources # {}
        /\ Len(lists) < MaxLists
        /\ lists' = Append(lists, [country |-> Abroad, status |-> "in_progress", prices |-> <<>>])
        /\ gen' = [Idle EXCEPT !.step = "price", !.list = Len(lists) + 1,
                               !.todo = lists[source].prices, !.labels = Labels(Abroad)]
        /\ UNCHANGED <<taxClass, rate, current, history, imp, vat, edits, rateChanges>>

\* create_price_from_source: the price itself.
GeneratePrice ==
    LET price == Head(gen.todo)
    IN  /\ gen.step = "price"
        /\ gen.todo # <<>>
        /\ \E r \in TargetRates(price) :
              /\ lists' = [lists EXCEPT ![gen.list].prices = Append(@, Converted(price, r))]
              /\ gen' = IF price.sku = Null THEN [gen EXCEPT !.todo = Tail(@)]
                        ELSE [gen EXCEPT !.step = "write", !.todo[1] = Converted(price, r)]
        /\ UNCHANGED <<taxClass, rate, current, history, imp, vat, edits, rateChanges>>

\* Its row in CurrentPrice, then its history entry, each on its own.
GenerateWrite ==
    LET price == Head(gen.todo)
        row   == Stored(Abroad, price, "generation", gen.labels[price.sku])
    IN  /\ gen.step = "write"
        /\ current' = [current EXCEPT ![Abroad][price.sku] = Written(Abroad, price.sku, row)]
        /\ gen' = [gen EXCEPT !.step = "log",
                              !.log = {[sku |-> price.sku, entry |-> Entry(Abroad, price.sku, row)]}]
        /\ UNCHANGED <<taxClass, rate, lists, history, imp, vat, edits, rateChanges>>

GenerateLog ==
    /\ gen.step = "log"
    /\ history' = Recorded(Abroad, gen.log)
    /\ gen' = [gen EXCEPT !.step = "price", !.todo = Tail(@), !.log = {}]
    /\ UNCHANGED <<taxClass, rate, lists, current, imp, vat, edits, rateChanges>>

GenerateFinish ==
    /\ gen.step = "price"
    /\ gen.todo = <<>>
    /\ lists' = [lists EXCEPT ![gen.list].status = "ready"]
    /\ gen' = [gen EXCEPT !.step = "done"]
    /\ UNCHANGED <<taxClass, rate, current, history, imp, vat, edits, rateChanges>>

\* No rate for a price.
GenerateFail ==
    /\ gen.step = "price"
    /\ gen.todo # <<>>
    /\ TargetRates(Head(gen.todo)) = {}
    /\ gen' = [gen EXCEPT !.step = "failed"]
    /\ UNCHANGED <<taxClass, rate, lists, current, history, imp, vat, edits, rateChanges>>

(***************************** the others ***********************************)
\* edit_price of the regular price, by an administrator, in one transaction
\* (CurrentPriceWrites has its steps).  The row then has no special price.
AdminEdit(country, sku, value) ==
    LET r     == rate[country][taxClass[sku]]
        pair  == PricePair(value, r, fromNetToGross)
        price == [sku |-> sku, attrs |-> {}, rate |-> r,
                  values |-> [kind \in Kind |-> IF kind = "regular"
                                                THEN pair ELSE NoPair]]
        row   == Stored(country, price, "admin_edit", LabelOf(country, sku))
    IN  /\ edits < MaxEdits
        /\ taxClass[sku] # Null
        /\ r # Null
        /\ MapOf[sku] # Null => pair.gross >= MapOf[sku]
        /\ current' = [current EXCEPT ![country][sku] = Written(country, sku, row)]
        /\ history' = Recorded(country, {[sku |-> sku, entry |-> Entry(country, sku, row)]})
        /\ edits' = edits + 1
        /\ UNCHANGED <<taxClass, rate, lists, imp, gen, vat, rateChanges>>

NoVat == [step |-> "idle", country |-> Home, class |-> Null, rows |-> <<>>, log |-> {}]

\* A rate is changed; the task is queued on commit.  One at a time: CurrentPriceWrites
\* has those that overlap, and what the queue does with them.
ChangeRate(country, class, r) ==
    /\ vat.step = "idle"
    /\ rateChanges < MaxRateChanges
    /\ rate[country][class] \notin {Null, r}
    /\ rate' = [rate EXCEPT ![country][class] = r]
    /\ vat' = [NoVat EXCEPT !.step = "queued", !.country = country, !.class = class]
    /\ rateChanges' = rateChanges + 1
    /\ UNCHANGED <<taxClass, lists, current, history, imp, gen, edits>>

\* What a row is recalculated to: a special price of nothing stays as it is.
Recalculated(country, sku, r) ==
    LET old   == current[country][sku]
        base(pair) == IF fromNetToGross THEN pair.net ELSE pair.gross
        new   == Converted([sku |-> sku, attrs |-> {}, rate |-> r, values |-> old.values], r)
        price == [new EXCEPT !.values = [kind \in Kind |->
                    IF kind = "special" /\ base(old.values[kind]) \in Blank THEN old.values[kind] ELSE @[kind]]]
    IN  Stored(country, price, "tax_rate_change", old.source)

\* The task reads the rate and the rows of its class ...
RecalculateRead ==
    LET rows == {sku \in Sku : current[vat.country][sku] # Null /\ taxClass[sku] = vat.class}
        r    == rate[vat.country][vat.class]
    IN  /\ vat.step = "queued"
        /\ vat' = [vat EXCEPT !.step = "write",
                              !.rows = [sku \in rows |-> Recalculated(vat.country, sku, r)]]
        /\ UNCHANGED <<taxClass, rate, lists, current, history, imp, gen, edits, rateChanges>>

\* ... updates them by their ids, whatever they have become; their labels stay ...
RecalculateWrite ==
    LET row(sku) == [vat.rows[sku] EXCEPT !.source = current[vat.country][sku].source]
    IN  /\ vat.step = "write"
        /\ current' = [current EXCEPT ![vat.country] = [sku \in Sku |->
                          IF sku \in DOMAIN vat.rows THEN Written(vat.country, sku, row(sku)) ELSE @[sku]]]
        /\ vat' = [vat EXCEPT !.step = "log",
                !.log = {[sku |-> sku, entry |-> Entry(vat.country, sku, row(sku))] : sku \in DOMAIN vat.rows}]
        /\ UNCHANGED <<taxClass, rate, lists, history, imp, gen, edits, rateChanges>>

\* ... and adds their history, in one more transaction.
RecalculateLog ==
    /\ vat.step = "log"
    /\ history' = Recorded(vat.country, vat.log)
    /\ vat' = NoVat
    /\ UNCHANGED <<taxClass, rate, lists, current, imp, gen, edits, rateChanges>>

\* The process of a job dies: nothing is undone.
ImportDies ==
    /\ imp.step \notin Ended
    /\ imp' = [imp EXCEPT !.step = "failed"]
    /\ UNCHANGED <<taxClass, rate, lists, current, history, gen, vat, edits, rateChanges>>

GenerateDies ==
    /\ gen.step \notin Ended
    /\ gen' = [gen EXCEPT !.step = "failed"]
    /\ UNCHANGED <<taxClass, rate, lists, current, history, imp, vat, edits, rateChanges>>

RecalculateDies ==
    /\ vat.step # "idle"
    /\ vat' = NoVat
    /\ UNCHANGED <<taxClass, rate, lists, current, history, imp, gen, edits, rateChanges>>

(****************************************************************************)
Init ==
    /\ fromNetToGross \in BOOLEAN
    /\ taxClass = [x \in Sku \cup Attr |-> Null]
    /\ rate = InitialRate
    /\ lists = <<>>
    /\ current = [country \in Country |-> [sku \in Sku |-> Null]]
    /\ history = [country \in Country |-> [sku \in Sku |-> {}]]
    /\ imp = Idle /\ gen = Idle /\ vat = NoVat
    /\ edits = 0 /\ rateChanges = 0

Import ==
    \/ \E file \in Files : ImportStart(file)
    \/ ImportProducts \/ ImportRates \/ ImportRow \/ ImportBatch \/ ImportLabels
    \/ ImportWrite \/ ImportSkip \/ ImportHistory \/ ImportFinish \/ ImportFail

Generate ==
    GenerateStart \/ GeneratePrice \/ GenerateWrite \/ GenerateLog \/ GenerateFinish \/ GenerateFail

Recalculate == RecalculateRead \/ RecalculateWrite \/ RecalculateLog

Run ==
    /\ \/ Import
       \/ Generate
       \/ Recalculate
       \/ \E country \in Country, sku \in Sku, value \in EditTo : AdminEdit(country, sku, value)
       \/ \E country \in Country, class \in TaxClass, r \in Rate : ChangeRate(country, class, r)
    /\ UNCHANGED fromNetToGross

Die == (ImportDies \/ GenerateDies \/ RecalculateDies) /\ UNCHANGED fromNetToGross

Next == Run \/ Die

Spec == Init /\ [][Next]_vars

-----------------------------------------------------------------------------
CsvRow ==
    [sku : Sku \cup {Null}, attrs : SUBSET Attr, class : TaxClass \cup {Null},
     net : Amount \cup {Null}, gross : Amount \cup {Null}, snet : Amount \cup {Null}, sgross : Amount \cup {Null}]
Price ==
    {price \in [sku : Sku \cup {Null}, attrs : SUBSET Attr, rate : Rate, values : [Kind -> Pair]] :
        price.sku # Null \/ price.attrs # {}}
PriceList == [country : Country, status : {"in_progress", "ready", "error"}, prices : Seq(Price)]
Row == [values : [Kind -> Pair], source : PriceSource, by : PriceSource, rate : Rate, at : Nat]
HistoryRow == [values : [Kind -> Pair], source : PriceSource, at : Nat]

\* The shape of the two stores, in which a row always has both prices and the
\* history never runs ahead of the row it describes.
TypeOK ==
    /\ taxClass \in [Sku \cup Attr -> TaxClass \cup {Null}]
    /\ rate \in [Country -> [TaxClass -> Rate \cup {Null}]]
    /\ lists \in Seq(PriceList)
    /\ current \in [Country -> [Sku -> Row \cup {Null}]]
    /\ \A country \in Country, sku \in Sku : \A entry \in history[country][sku] :
          /\ entry \in HistoryRow
          /\ current[country][sku] # Null /\ entry.at <= current[country][sku].at

\* Prices of a list for a product, as the rows of CurrentPrice they become.
LastFor(prices, sku) ==
    LET mine == {i \in DOMAIN prices : prices[i].sku = sku}
    IN  prices[CHOOSE i \in mine : \A k \in mine : k <= i]

Carries(list, country, sku, writer) ==
    LET row   == current[country][sku]
        price == LastFor(list.prices, sku)
    IN  row.by = writer => row.rate = price.rate /\ row.values = Stored(country, price, writer, Null).values

\* What a list that has been filled to its end holds for a product, CurrentPrice
\* holds too, at the floor at least, until another writer writes the row: whatever
\* died before, whatever the batches, also for a product named twice (the last row
\* of the file counts).  That writer may be a recalculation that had read the row
\* before the import wrote it, and puts its own result in place of the import's.
StoresAgree ==
    \A job \in {imp, gen} :
        job.step = "done" =>
            LET list   == lists[job.list]
                writer == IF list.country = Home THEN "csv_import" ELSE "generation"
            IN  \A i \in DOMAIN list.prices :
                    LET sku == list.prices[i].sku
                    IN  sku # Null => /\ current[list.country][sku] # Null
                                      /\ Carries(list, list.country, sku, writer)

\* No import and no generation brings a price below what is advertised into
\* CurrentPrice, whatever overtakes it.
FloorRespected ==
    \A country \in Country, sku \in Sku :
        LET row == current[country][sku]
        IN  row # Null /\ MapOf[sku] # Null =>
                \A kind \in Kind : row.values[kind].gross # Null => row.values[kind].gross >= MapOf[sku]

\* "Writes every price change to PriceHistory as an append-only audit log"
\* (docs/index.md:14): once nothing is under way, the history has one entry for each
\* write of a row, and that of the last write says what the row says, also when
\* edits and recalculations fell between a row and its batch's history.  Whether it is
\* the newest by created_at is not said, and not always so.
HistoryComplete ==
    imp.step \in Ended /\ gen.step \in Ended /\ vat.step = "idle" =>
        \A country \in Country, sku \in Sku :
            LET row == current[country][sku]
                entries == history[country][sku]
            IN  row # Null =>
                    /\ \A n \in 1..row.at : \E entry \in entries : entry.at = n
                    /\ \A entry, other \in entries : entry.at = other.at => entry = other
                    /\ \A entry \in entries : entry.at = row.at => entry.values = row.values
=============================================================================
