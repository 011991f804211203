-------------------------------- MODULE MCLists --------------------------------
(****************************************************************************)
(* Instances of the price lists, PriceLists and PriceListImport, small      *)
(* enough for TLC.  A behaviour is of one scenario: the processes of one of *)
(* them move, all the rest stays in its first state.                        *)
(****************************************************************************)
EXTENDS PriceLists, Integers, Sequences, TLC

CONSTANTS
    Scenarios,
    CentScale, RateScale, Sku, Attr, TaxClass, Home, Abroad, Rate, InitialRate,   \* of PriceListImport
    Files, BatchSize, MapOf, EditTo, MaxEdits, MaxRateChanges

\* PriceListImport's variables; `imported` are its lists.
VARIABLES
    scenario, fromNetToGross,
    taxClass, rate, imported, current, history, importer, generator, vat, edits, rateChanges

importVars ==
    <<fromNetToGross, taxClass, rate, imported, current, history, importer, generator, vat, edits, rateChanges>>

(******************************** PriceLists ********************************)
\* A source, another sale channel of its country for one customer, and a
\* generated one in another country.
Countries == [sc \in SaleChannel |-> IF sc = "gen" THEN Abroad ELSE Home]
Customers == [sc \in SaleChannel |-> IF sc = "own" THEN "someone" ELSE Null]

\* Enough of each status to have something to delete.
KeepOne == [status \in Status |-> 1]

ImportersAlike == Permutations(Importers)

\* Lists of these sale channels only; the collector comes to those without lists
\* last, and fails there when it is not the last one.
Only(scs) ==
    /\ \A l \in ListId : lists'[l] # Null => lists'[l].sc \in scs
    /\ gc'.sc \in scs \/ gc'.todo = {} \/ (gc'.at = "choose" /\ gc'.todo \cap scs = {})

\* Garbage is collected while nothing is written.
Apart == gc'.at # "idle" => made' = made /\ \A w \in Worker : job'[w].at = "idle"

\* Lists for anyone, generated abroad; lists at home, for anyone and for someone,
\* none of them uploaded in the Django admin; and such lists of one sale channel that
\* are written while the collector is at work.
ListStep ==
    \/ scenario = "generated" /\ Next /\ Only({"csv", "gen"}) /\ Apart
    \/ scenario = "customers" /\ Next /\ Only({"csv", "own"}) /\ Apart
        /\ job'["gen"] = NoJob /\ (made' # made => job' # job)
    \/ scenario = "collected" /\ Next /\ Only({"csv"}) /\ job'["gen"] = NoJob
        /\ (made' # made => job' # job) /\ (gc.at = "idle" /\ gc'.at # "idle" => made > 0)

(****************************** PriceListImport *****************************)
FileRow(sku, attrs, class, net, gross, snet, sgross) ==
    [sku |-> sku, attrs |-> attrs, class |-> class,
     net |-> net, gross |-> gross, snet |-> snet, sgross |-> sgross]

\* One product twice; amounts to be completed; a batch of two and a rest.
Twice == << FileRow("a", {}, "std", 5, 0, Null, 4), FileRow("b", {}, "std", 0, 12, Null, Null),
            FileRow("a", {}, "std", 3, 9, 8, 0) >>

\* The last row has a class without a rate at home: the list is in error.
NoRate == << FileRow("b", {}, "std", 8, 8, 0, Null), FileRow("a", {}, "red", 7, 8, Null, Null) >>

\* A product with an attribute, an attribute alone, nothing, an unreadable row.
Broken == << FileRow("a", {"x"}, "std", 2, 0, Null, Null), FileRow(Null, {"x"}, "red", 4, 0, Null, Null),
             FileRow(Null, {"x"}, "std", 4, 0, Null, Null), FileRow(Null, {}, "std", 4, 0, Null, Null),
             FileRow("b", {}, "std", Null, 3, Null, Null) >>

SomeFiles == {Twice, NoRate, Broken}
RatesAtStart == (Home :> ("std" :> 2 @@ "red" :> Null)) @@ (Abroad :> ("std" :> 1 @@ "red" :> 1))
OnlyA == "a" :> 6 @@ "b" :> Null

Import == INSTANCE PriceListImport WITH lists <- imported, imp <- importer, gen <- generator

ASSUME ImportAssumption ==
    /\ CentScale \in Nat \ {0} /\ RateScale \in Nat \ {0} /\ BatchSize \in Nat \ {0}
    /\ Null \notin Nat \cup Sku \cup Import!Row \cup Import!HistoryRow
    /\ Home # Abroad /\ Rate \subseteq Nat /\ EditTo \subseteq Nat
    /\ InitialRate \in [{Home, Abroad} -> [TaxClass -> Rate \cup {Null}]]
    /\ MapOf \in [Sku -> Nat \cup {Null}]
    /\ \A file \in Files : file \in Seq(Import!CsvRow)

\* The rate of one class may change; no price is edited.
OnlyStd == \A country \in {Home, Abroad} : rate'[country]["red"] = rate[country]["red"]
NoEdit == edits' = edits

\* Two files, or a file and what is generated from it, while prices are edited and a
\* rate changes; while jobs and a recalculation die at any step; and more of them
\* while jobs die.
ImportStep ==
    \/ scenario = "edited" /\ Import!Run /\ Len(imported') <= 2 /\ OnlyStd
    \/ scenario = "killed" /\ Import!Next /\ NoEdit /\ IF Len(imported') <= 2 THEN OnlyStd ELSE rateChanges' = 0

-----------------------------------------------------------------------------
\* A direction for each scenario.
MCInit == scenario \in Scenarios /\ Init /\ Import!Init /\ (fromNetToGross <=> scenario = "edited")

MCNext ==
    /\ UNCHANGED scenario
    /\ \/ ListStep /\ UNCHANGED importVars
       \/ ImportStep /\ UNCHANGED vars

MCSpec == MCInit /\ [][MCNext]_<<scenario, vars, importVars>>

-----------------------------------------------------------------------------
\* While files are imported and generated abroad, prices edited in both countries, a
\* rate changed and recalculated step by step, and jobs killed at any step: when a job
\* has ended, CurrentPrice has the prices of its list (pricelist_service.py:210-297,
\* workers.py:199-257) unless somebody wrote the row since, a recalculation that had
\* read the row before included; no price is ever below the advertised one
\* (pricelist_service.py:238); and unless a job was killed, the history gets one entry
\* for each write of a row, though each is stored later than the row (:296).
StoresAgree ==
    /\ Import!TypeOK /\ Import!StoresAgree /\ Import!FloorRespected
    /\ scenario = "edited" => Import!HistoryComplete
===============================================================================
