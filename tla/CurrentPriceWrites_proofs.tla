----------------------- MODULE CurrentPriceWrites_proofs -----------------------
(****************************************************************************)
(* The first part is what holds of the stored prices however the writers    *)
(* interleave, for any markets, rates, amounts, policies and number of      *)
(* processes: pairs that are not torn, the minimum advertised price, and,   *)
(* of the recalculation tasks, that no celery_once lock outlives them, that *)
(* a recalculation stays in its country and that the baseline it re-runs    *)
(* leaves special prices alone.                                             *)
(*                                                                          *)
(* The second part is what holds when calls do not overlap: with a single   *)
(* process, whatever the channel is told to do and in whatever order, the   *)
(* labels follow the precedence table, the tombstone keeps baseline prices  *)
(* away, the history has the newest prices, and every accepted change of a  *)
(* tax rate or of the cost reaches every price it is about.                 *)
(****************************************************************************)
EXTENDS CurrentPriceWrites, PriceWriteGuard_proofs

-----------------------------------------------------------------------------
(* The inductive invariant *)

\* A pair is sound when its sides belong together and it respects the minimum
\* advertised price; a row when its pairs are.
Whole(pair) == pair \in FullPair /\ \E r \in Rates : Coherent(pair, r)
SoundPair(pair) == Whole(pair) /\ (MapValue # Null => pair.gross >= MapValue)
SoundRow(row) ==
    row \in Row /\ SoundPair(row.regular) /\ (row.special = NoPair \/ SoundPair(row.special))

\* The rows are sound, and those with a tax rate have one that exists.
RowsOK(rs, rt) ==
    /\ rs \in [Market -> Row \cup {Null}]
    /\ \A m \in Market : rs[m] # Null => SoundRow(rs[m]) /\ (rs[m].taxed => rt[m[1]] # Null)

FloorsCover(l) ==
    MapValue # Null => \A c \in Country : l.floors[c] # Null /\ l.floors[c] >= MapValue

\* What a process has at hand for the step it is about to take.
Held(label, l) ==
    /\ label \in {"edit_rows", "edit_commit"} => l.req \in Request /\ l.req.value \in Amount
    /\ label \in {"special_write", "special_log"} =>
            /\ l.req \in Request
            /\ l.req.special # Null =>
                    \A m \in Market : l.seen[m] # Null => l.seen[m].taxed /\ l.rates[m[1]] # Null
    /\ label \in {"base_rows", "base_commit"} => l.cost \in Costs
    /\ label \in {"vat_rows", "vat_write", "vat_log"} => \A c \in l.scope : l.rates[c] # Null
    /\ label \in {"vat_write", "vat_log"} => \A m \in Market : l.seen[m] # Null => m[1] \in l.scope
    /\ label \in {"edit_rows", "edit_commit", "special_write", "special_log", "base_commit",
                  "vat_write", "vat_log"} => FloorsCover(l)
    /\ \A m \in Market : l.seen[m] # Null => SoundRow(l.seen[m])

\* A tax rate that was read and is not known to be deleted exists, and so do the
\* rows that were read and are not known to be deleted.
ProcOK(label, l, rs, rt) ==
    /\ label \in Labels /\ l \in Local
    /\ Held(label, l)
    /\ \A c \in Country : l.rates[c] # Null /\ c \notin l.lost => rt[c] # Null
    /\ \A m \in l.live : rs[m] \in Row

StoreOK ==
    /\ history \in [Market -> Entry \cup {Null}]
    /\ rate \in [Country -> Rates \cup {Null}]
    /\ cost \in Costs \cup {Null}
    /\ tombstone \in BOOLEAN
    /\ queued \subseteq Country
    /\ once \subseteq Country

IInv ==
    /\ RowsOK(rows, rate)
    /\ StoreOK
    /\ pc \in [Procs -> Labels] /\ local \in [Procs -> Local]
    /\ \A p \in Procs : ProcOK(pc[p], local[p], rows, rate)

-----------------------------------------------------------------------------
(* Pairs *)

\* A pair made from an amount is whole.
LEMMA PairOfAmount ==
    ASSUME NEW amount \in Amount, NEW r \in Rates
    PROVE  Whole(Pair_(amount, r))
<1>1. amount \in Nat /\ r \in Nat /\ FromNetToGross \in BOOLEAN
  BY AmountAssumption DEF Amount
<1>2. Pair_(amount, r) \in FullPair
  BY <1>1, PricePairType DEF Pair_, FullPair
<1>3. Coherent(Pair_(amount, r), r)
  BY DEF Pair_, PricePair, Coherent
<1> QED
  BY <1>2, <1>3 DEF Whole

\* What the guard stores of a whole pair is sound, if it was given a floor that
\* covers the minimum advertised price; what it stores of no pair is no pair.
LEMMA GuardedSound ==
    ASSUME NEW existing, NEW writer, NEW stored, NEW policy,
           NEW values, NEW kind \in DOMAIN values,
           NEW floor \in Amount \cup {Null}, NEW r \in Rates,
           MapValue # Null => floor # Null /\ floor >= MapValue,
           Whole(values[kind]) \/ values[kind] = NoPair,
           NEW decision,
           decision = GuardPriceWrite(existing, values, writer, stored, floor, r, policy),
           decision.status # "skipped"
    PROVE  /\ Whole(values[kind]) => SoundPair(decision.values[kind])
           /\ values[kind] = NoPair => decision.values[kind] = NoPair
<1> DEFINE pair == decision.values[kind]
<1>1. r \in Nat /\ r # Null /\ Null \notin Nat
  BY AmountAssumption, NullAssumption
<1>2. floor \in Nat \cup {Null} /\ r \in Nat \cup {Null}
  BY <1>1 DEF Amount
<1>3. values[kind] \in Filled \cup {NoPair}
  BY DEF Whole, Filled, FullPair
<1>4. HeldToFloor(values[kind], pair, floor, r)
  BY <1>2, <1>3, GuardedPair
<1> HIDE DEF pair
<1>5. MapValue \in Nat \cup {Null}
  BY AmountAssumption, NullAssumption DEF MapValue, BoundsRow
<1>6. values[kind] = NoPair => values[kind] \notin Filled
  BY <1>1 DEF NoPair, Filled, Amount
<1>7. ASSUME pair = values[kind], floor = Null \/ values[kind] = NoPair \/ values[kind].gross >= floor
      PROVE  (Whole(values[kind]) => SoundPair(pair)) /\ (values[kind] = NoPair => pair = NoPair)
  <2> SUFFICES ASSUME Whole(values[kind]) PROVE SoundPair(pair)
    BY <1>7
  <2>1. values[kind] \in Filled /\ values[kind].gross \in Nat
    BY DEF Whole, Filled, FullPair, Amount
  <2>2. MapValue # Null => floor \in Nat /\ floor >= MapValue /\ values[kind].gross >= floor
    BY <1>2, <1>6, <1>7, <2>1
  <2>3. MapValue # Null => values[kind].gross >= MapValue
    BY <1>5, <2>1, <2>2
  <2> QED
    BY <1>7, <2>3 DEF SoundPair
<1>8. ASSUME values[kind] \in Filled, floor \in Nat,
             pair = [net |-> IF r = Null THEN values[kind].net ELSE NetPrice(floor, r), gross |-> floor]
      PROVE  SoundPair(pair)
  <2>1. pair = [net |-> NetPrice(floor, r), gross |-> floor]
    BY <1>1, <1>8
  <2>2. NetPrice(floor, r) \in Nat
    BY <1>1, <1>8, ConversionType
  <2>3. pair \in FullPair /\ Coherent(pair, r)
    BY <1>8, <2>1, <2>2 DEF FullPair, Amount, Coherent
  <2>4. MapValue # Null => pair.gross >= MapValue
    BY <2>1
  <2> QED
    BY <2>3, <2>4 DEF SoundPair, Whole
<1>9. (Whole(values[kind]) => SoundPair(pair)) /\ (values[kind] = NoPair => pair = NoPair)
  BY <1>4, <1>6, <1>7, <1>8 DEF HeldToFloor
<1> QED
  BY <1>9 DEF pair

\* The floor a process was given for a country covers the minimum advertised price.
LEMMA CoveringFloor ==
    ASSUME NEW l \in Local, FloorsCover(l), NEW c \in Country
    PROVE  /\ l.floors[c] \in Amount \cup {Null}
           /\ MapValue # Null => l.floors[c] # Null /\ l.floors[c] >= MapValue
  BY DEF Local, FloorsCover

\* The label of a write is the name of a writer.
LEMMA LabelType ==
    ASSUME NEW existing, NEW values, NEW floor, NEW r, NEW policy,
           NEW writer \in PriceSource, NEW stored \in PriceSource \cup {Null},
           NEW decision,
           decision = GuardPriceWrite(existing, values, writer, stored, floor, r, policy),
           decision.status # "skipped"
    PROVE  decision.source \in PriceSource
  BY DecisionToWrite

-----------------------------------------------------------------------------
(* What each writer stores *)

\* An edit stores sound rows, for countries it has a tax rate of.
LEMMA EditStores ==
    ASSUME NEW l \in Local, Held("edit_commit", l), NEW m \in EditApplied(l)
    PROVE  /\ m \in Market /\ m[1] \in Country /\ l.rates[m[1]] # Null
           /\ SoundRow(NewRow(EditDecision(l, m)))
<1> DEFINE r == l.rates[m[1]]
           values == [regular |-> Pair_(l.req.value, r), special |-> OptionalPair(l.req.special, r)]
           decision == EditDecision(l, m)
<1>1. m \in Market /\ m[1] \in Country /\ r # Null /\ decision.status # "skipped"
  BY DEF EditApplied, EditTargets, Market
<1>2. r \in Rates
  BY <1>1 DEF Local
<1>3. /\ l.req.value \in Amount /\ l.req.special \in Amount \cup {Null}
      /\ l.req.source \in PriceSource /\ l.req.stored \in PriceSource \cup {Null}
  BY DEF Held, Request
<1>4. FloorsCover(l)
  BY DEF Held
<1>5. Whole(Pair_(l.req.value, r)) /\ Whole(values["regular"])
  BY <1>2, <1>3, PairOfAmount
<1>6. OptionalPair(l.req.special, r) = NoPair \/ Whole(OptionalPair(l.req.special, r))
  BY <1>2, <1>3, PairOfAmount DEF OptionalPair
<1>7. values["special"] = NoPair \/ Whole(values["special"])
  BY <1>6
<1>8. "regular" \in DOMAIN values /\ "special" \in DOMAIN values
  OBVIOUS
<1>9. decision = GuardPriceWrite(l.sources[m], values, l.req.source, l.req.stored,
                                 l.floors[m[1]], r, Policy)
  BY DEF EditDecision
<1> HIDE DEF values, decision, r
<1>10. SoundPair(decision.values["regular"])
  BY <1>1, <1>2, <1>4, <1>5, <1>8, <1>9, CoveringFloor, GuardedSound
<1>11. decision.values["special"] = NoPair \/ SoundPair(decision.values["special"])
  BY <1>1, <1>2, <1>4, <1>7, <1>8, <1>9, CoveringFloor, GuardedSound
<1>12. decision.source \in PriceSource
  BY <1>1, <1>3, <1>9, LabelType
<1>13. SoundRow(NewRow(decision))
  BY <1>10, <1>11, <1>12 DEF SoundRow, NewRow, Row, SpecialPair, SoundPair, Whole
<1> QED
  BY <1>1, <1>13 DEF decision, r

\* An edit of the special price stores no special price or a sound one, under the
\* label of the row it read.
LEMMA SpecialStores ==
    ASSUME NEW label \in {"special_write", "special_log"},
           NEW l \in Local, Held(label, l), NEW m \in SpecialApplied(l)
    PROVE  /\ m \in Market /\ l.seen[m] \in Row
           /\ SpecialDecision(l, m).source \in PriceSource
           /\ \/ SpecialDecision(l, m).values["special"] = NoPair
              \/ SoundPair(SpecialDecision(l, m).values["special"])
<1> DEFINE r == IF l.seen[m].taxed THEN l.rates[m[1]] ELSE Null
           values == [special |-> OptionalPair(l.req.special, r)]
           decision == SpecialDecision(l, m)
<1>1. m \in Market /\ m[1] \in Country /\ l.seen[m] # Null /\ decision.status # "skipped"
  BY DEF SpecialApplied, Market
<1>2. l.seen[m] \in Row /\ l.seen[m].source \in PriceSource
  BY <1>1 DEF Local, Row
<1>3. /\ l.req.special \in Amount \cup {Null} /\ l.req.source \in PriceSource
      /\ l.req.special # Null => r \in Rates
  BY <1>1 DEF Held, Request, Local
<1>4. FloorsCover(l)
  BY DEF Held
<1>5. decision = GuardPriceWrite(l.seen[m].source, values, l.req.source, l.seen[m].source,
                                 l.floors[m[1]], r, Policy)
  BY DEF SpecialDecision
<1>6. decision.source \in PriceSource
  BY <1>1, <1>2, <1>3, <1>5, LabelType
<1>7. "special" \in DOMAIN values
  OBVIOUS
<1>8. CASE l.req.special # Null
  <2>1. Whole(OptionalPair(l.req.special, r)) /\ r \in Rates
    BY <1>3, <1>8, PairOfAmount DEF OptionalPair
  <2>2. Whole(values["special"])
    BY <2>1
  <2> HIDE DEF values, decision, r
  <2>3. SoundPair(decision.values["special"])
    BY <1>1, <1>4, <1>5, <1>7, <2>1, <2>2, CoveringFloor, GuardedSound
  <2> QED
    BY <1>1, <1>2, <1>6, <2>3 DEF decision
<1>9. CASE l.req.special = Null
  <2>1. values["special"] = NoPair
    BY <1>9 DEF OptionalPair
  <2>2. Violations(values, l.floors[m[1]]) = {}
    BY <2>1 DEF Violations, NoPair
  <2> HIDE DEF values, decision, r
  <2>3. decision.values["special"] = NoPair
    BY <1>1, <1>5, <2>1, <2>2, DecisionToWrite
  <2> QED
    BY <1>1, <1>2, <1>6, <2>3 DEF decision
<1> QED
  BY <1>8, <1>9

\* A baseline recalculation stores sound prices, and no special price in a new row.
LEMMA BaseStores ==
    ASSUME NEW l \in Local, Held("base_commit", l), NEW m \in BaseApplied(l)
    PROVE  /\ m \in Market /\ m[1] \in Country /\ l.rates[m[1]] # Null
           /\ SoundPair(BaseDecision(l, m).values["regular"])
           /\ BaseDecision(l, m).source \in PriceSource
           /\ m \in BaseCreated(l) => BaseDecision(l, m).values["special"] = NoPair
<1> DEFINE r == l.rates[m[1]]
           gross == BaselineGross(l.cost, r, Markup, Rounding)
           pair == [net |-> NetPrice(gross, r), gross |-> gross]
           values == IF l.sources[m] = Null THEN [regular |-> pair, special |-> NoPair]
                                            ELSE [regular |-> pair]
           decision == BaseDecision(l, m)
<1>1. m \in Market /\ m[1] \in Country /\ r # Null /\ decision.status # "skipped"
  BY DEF BaseApplied, BaseTargets, Market
<1>2. r \in Rates /\ r \in Nat
  BY <1>1, AmountAssumption DEF Local
<1>3. FloorsCover(l) /\ l.cost \in Nat
  BY AmountAssumption DEF Held
<1>4. gross \in Nat
  BY <1>2, <1>3, BaselineType, AmountAssumption
<1>5. NetPrice(gross, r) \in Nat
  BY <1>2, <1>4, ConversionType
<1>6. pair \in FullPair /\ Coherent(pair, r)
  BY <1>4, <1>5 DEF FullPair, Amount, Coherent
<1>7. Whole(pair)
  BY <1>2, <1>6 DEF Whole
<1>8. values["regular"] = pair /\ "regular" \in DOMAIN values
  OBVIOUS
<1>9. l.sources[m] = Null => values["special"] = NoPair /\ "special" \in DOMAIN values
  OBVIOUS
<1>10. decision = GuardPriceWrite(l.sources[m], values, "baseline", Null, l.floors[m[1]], r, Policy)
  BY DEF BaseDecision
<1>11. "baseline" \in PriceSource /\ Null \in PriceSource \cup {Null}
  BY DEF PriceSource
<1>12. Whole(values["regular"])
  BY <1>7, <1>8
<1> HIDE DEF values, decision, r, pair, gross
<1>13. SoundPair(decision.values["regular"])
  BY <1>1, <1>2, <1>3, <1>8, <1>10, <1>12, CoveringFloor, GuardedSound
<1>14. decision.source \in PriceSource
  BY <1>1, <1>10, <1>11, LabelType
<1>15. l.sources[m] = Null => decision.values["special"] = NoPair
  BY <1>1, <1>2, <1>3, <1>9, <1>10, CoveringFloor, GuardedSound
<1> QED
  BY <1>1, <1>13, <1>14, <1>15 DEF decision, r, BaseCreated

\* A pair whose one side is computed anew is whole.
LEMMA ReconvertedWhole ==
    ASSUME NEW pair \in FullPair, NEW r \in Rates
    PROVE  Whole(Reconverted(pair, r))
<1>1. r \in Nat /\ pair.net \in Nat /\ pair.gross \in Nat
  BY AmountAssumption DEF FullPair, Amount
<1>2. GrossPrice(pair.net, r) \in Nat /\ NetPrice(pair.gross, r) \in Nat
  BY <1>1, ConversionType
<1>3. Reconverted(pair, r) \in FullPair /\ Coherent(Reconverted(pair, r), r)
  BY <1>2 DEF Reconverted, FullPair, Amount, Coherent
<1> QED
  BY <1>3 DEF Whole

\* A VAT recalculation stores sound prices, and a special price only where it read one.
LEMMA VatStores ==
    ASSUME NEW label \in {"vat_write", "vat_log"},
           NEW l \in Local, Held(label, l), NEW m \in VatApplied(l)
    PROVE  /\ m \in Market /\ m[1] \in Country /\ l.rates[m[1]] # Null
           /\ SoundPair(VatDecision(l, m).values["regular"])
           /\ \/ VatDecision(l, m).values["special"] = NoPair
              \/ SoundPair(VatDecision(l, m).values["special"])
<1> DEFINE r == l.rates[m[1]]
           row == l.seen[m]
           values == [regular |-> Reconverted(row.regular, r),
                      special |-> ReconvertedSpecial(row.special, r)]
           decision == VatDecision(l, m)
<1>1. m \in Market /\ m[1] \in Country /\ row # Null /\ decision.status # "skipped"
  BY DEF VatApplied, Market
<1>2. SoundRow(row) /\ r # Null /\ FloorsCover(l)
  BY <1>1 DEF Held
<1>3. r \in Rates
  BY <1>1, <1>2 DEF Local
<1>4. row.regular \in FullPair /\ (row.special = NoPair \/ Whole(row.special))
  BY <1>2 DEF SoundRow, SoundPair, Whole
<1>5. Whole(values["regular"])
  BY <1>3, <1>4, ReconvertedWhole
<1>6. values["special"] = NoPair \/ Whole(values["special"])
  <2>1. CASE row.special = NoPair
    BY <2>1 DEF ReconvertedSpecial, NoPair
  <2>2. CASE Whole(row.special)
    <3>1. Whole(Reconverted(row.special, r))
      BY <1>3, <2>2, ReconvertedWhole DEF Whole
    <3> QED
      BY <2>2, <3>1 DEF ReconvertedSpecial
  <2> QED
    BY <1>4, <2>1, <2>2
<1>7. decision = GuardPriceWrite(row.source, values, "tax_rate_change", Null, l.floors[m[1]], r, Policy)
  BY DEF VatDecision
<1>8. "regular" \in DOMAIN values /\ "special" \in DOMAIN values
  OBVIOUS
<1> HIDE DEF values, decision, r, row
<1>9. SoundPair(decision.values["regular"])
  BY <1>1, <1>2, <1>3, <1>5, <1>7, <1>8, CoveringFloor, GuardedSound
<1>10. decision.values["special"] = NoPair \/ SoundPair(decision.values["special"])
  BY <1>1, <1>2, <1>3, <1>6, <1>7, <1>8, CoveringFloor, GuardedSound
<1> QED
  BY <1>1, <1>2, <1>9, <1>10 DEF decision, r

-----------------------------------------------------------------------------
(* Steps of one process *)

\* What holds of a process goes on holding while no row and no rate disappears.
LEMMA ProcOKKept ==
    ASSUME NEW label, NEW l, NEW rs, NEW rt, NEW rs2, NEW rt2,
           ProcOK(label, l, rs, rt),
           \A m \in Market : rs[m] \in Row => rs2[m] \in Row,
           \A c \in Country : rt[c] # Null => rt2[c] # Null
    PROVE  ProcOK(label, l, rs2, rt2)
<1>1. l.live \subseteq Market
  BY DEF ProcOK, Local
<1> QED
  BY <1>1 DEF ProcOK

\* A process that is done holds nothing.
LEMMA BlankOK ==
    ASSUME NEW rs, NEW rt
    PROVE  Blank \in Local /\ ProcOK("idle", Blank, rs, rt)
<1>1. Blank \in Local
  BY DEF Blank, Local
<1>2. "idle" \in Labels
  BY DEF Labels
<1>3. /\ \A m \in Market : Blank.seen[m] = Null
      /\ \A c \in Country : Blank.rates[c] = Null
      /\ Blank.live = {}
  BY DEF Blank
<1>4. Held("idle", Blank)
  BY <1>3 DEF Held
<1> QED
  BY <1>1, <1>2, <1>3, <1>4 DEF ProcOK

\* A step of one process preserves the invariant if no row and no rate disappears
\* and it leaves the process with what its next step needs.
LEMMA StepOfOne ==
    ASSUME IInv, NEW p \in Procs, NEW label, NEW l,
           pc' = [pc EXCEPT ![p] = label], local' = [local EXCEPT ![p] = l],
           ProcOK(label, l, rows', rate'),
           \A m \in Market : rows[m] \in Row => rows'[m] \in Row,
           \A c \in Country : rate[c] # Null => rate'[c] # Null,
           RowsOK(rows', rate'), StoreOK'
    PROVE  IInv'
<1>1. label \in Labels /\ l \in Local
  BY DEF ProcOK
<1>2. pc' \in [Procs -> Labels] /\ local' \in [Procs -> Local]
  BY <1>1 DEF IInv
<1>3. ASSUME NEW q \in Procs PROVE ProcOK(pc'[q], local'[q], rows', rate')
  <2>1. CASE q = p
    BY <2>1 DEF IInv
  <2>2. CASE q # p
    <3>1. ProcOK(pc[q], local[q], rows, rate)
      BY DEF IInv
    <3>2. ProcOK(pc[q], local[q], rows', rate')
      BY <3>1, ProcOKKept
    <3> QED
      BY <2>2, <3>2 DEF IInv
  <2> QED
    BY <2>1, <2>2
<1> QED
  BY <1>2, <1>3 DEF IInv

\* The same for a step that only reads.
LEMMA ReadingStep ==
    ASSUME IInv, NEW p \in Procs, NEW label, NEW l,
           pc' = [pc EXCEPT ![p] = label], local' = [local EXCEPT ![p] = l],
           ProcOK(label, l, rows, rate), UNCHANGED <<rows, rate>>, StoreOK'
    PROVE  IInv'
<1>1. RowsOK(rows', rate') /\ ProcOK(label, l, rows', rate')
  BY DEF IInv
<1> QED
  BY <1>1, StepOfOne

\* The same for the step that ends a call.
LEMMA FinishingStep ==
    ASSUME IInv, NEW p \in Procs, pc' = [pc EXCEPT ![p] = "idle"],
           local' = [local EXCEPT ![p] = Blank],
           \A m \in Market : rows[m] \in Row => rows'[m] \in Row,
           \A c \in Country : rate[c] # Null => rate'[c] # Null,
           RowsOK(rows', rate'), StoreOK'
    PROVE  IInv'
<1>1. ProcOK("idle", Blank, rows', rate')
  BY BlankOK
<1> QED
  BY <1>1, StepOfOne

\* The floors computed at any moment cover the minimum advertised price.
LEMMA FloorsOK ==
    ASSUME StoreOK
    PROVE  /\ Floors \in [Country -> Amount \cup {Null}]
           /\ MapValue # Null =>
                \A c \in Country : Floors[c] # Null /\ Floors[c] >= MapValue
<1>1. ASSUME NEW c \in Country
      PROVE  /\ Floor(BoundsConfig, cost, rate[c]) \in Amount \cup {Null}
             /\ MapValue # Null =>
                    /\ Floor(BoundsConfig, cost, rate[c]) # Null
                    /\ Floor(BoundsConfig, cost, rate[c]) >= MapValue
  <2>1. cost \in Nat \cup {Null} /\ rate[c] \in Nat \cup {Null}
    BY AmountAssumption DEF StoreOK
  <2>2. BoundsConfig \in BoundsRow \cup {Null}
    BY AmountAssumption
  <2> QED
    BY <2>1, <2>2, FloorCoversMap DEF MapValue, Amount
<1> QED
  BY <1>1 DEF Floors

\* The history entry of a row.
LEMMA EntryOfRow ==
    ASSUME NEW row \in Row
    PROVE  EntryOf(row) \in Entry
  BY DEF EntryOf, Entry, Row

\* The rows, and the labels, that are read are those of the table.
LEMMA RowsRead ==
    ASSUME RowsOK(rows, rate), NEW ms \in SUBSET Market
    PROVE  /\ SourcesIn(ms) \in [Market -> PriceSource \cup {Null}]
           /\ RowsIn(ms) \in [Market -> Row \cup {Null}]
           /\ \A m \in Market : RowsIn(ms)[m] # Null => m \in ms /\ SoundRow(RowsIn(ms)[m])
           /\ \A m \in ms \cap Priced : rows[m] \in Row
<1>1. ASSUME NEW m \in Market, rows[m] # Null PROVE rows[m] \in Row /\ rows[m].source \in PriceSource
  BY <1>1 DEF RowsOK, Row
<1> QED
  BY <1>1 DEF SourcesIn, RowsIn, Priced, RowsOK

-----------------------------------------------------------------------------
(* The writers preserve the invariant *)

\* Each step of edit_price.
LEMMA EditSteps ==
    ASSUME IInv, NEW p \in Procs, Edit(p)
    PROVE  IInv'
<1>1. CASE EditBegin(p)
  <2>1. PICK req \in EditRequests :
            local' = [local EXCEPT ![p] = [Blank EXCEPT !.req = req, !.floors = Floors, !.rates = rate]]
    BY <1>1 DEF EditBegin
  <2> DEFINE l == [Blank EXCEPT !.req = req, !.floors = Floors, !.rates = rate]
  <2>2. req \in Request /\ req.value \in Amount
    BY AmountAssumption, SourceAssumption, MarketAssumption DEF EditRequests, Request, Amount
  <2>3. l \in Local
    BY <2>2, BlankOK, FloorsOK DEF Local, IInv, StoreOK
  <2>4. Held("edit_rows", l)
    BY <2>2, FloorsOK DEF Held, Blank, FloorsCover, IInv
  <2>5. ProcOK("edit_rows", l, rows, rate)
    BY <2>3, <2>4 DEF ProcOK, Labels, Blank
  <2>6. pc' = [pc EXCEPT ![p] = "edit_rows"] /\ UNCHANGED <<rows, rate>> /\ StoreOK'
    BY <1>1 DEF EditBegin, Goto, IInv, StoreOK
  <2> HIDE DEF l
  <2> QED
    BY <2>1, <2>5, <2>6, ReadingStep DEF l
<1>2. CASE EditReadRows(p)
  <2>1. PICK fallback \in SUBSET Currency :
            local' = [local EXCEPT ![p].sources = SourcesIn(Market), ![p].fallback = fallback]
    BY <1>2 DEF EditReadRows
  <2> DEFINE l == [local[p] EXCEPT !.sources = SourcesIn(Market), !.fallback = fallback]
  <2>2. ProcOK("edit_rows", local[p], rows, rate) /\ local[p] \in Local
    BY <1>2 DEF IInv, EditReadRows
  <2>3. local' = [local EXCEPT ![p] = l]
    BY <2>1 DEF IInv
  <2>4. l \in Local
    BY <2>2, RowsRead DEF Local, IInv
  <2>5. ProcOK("edit_commit", l, rows, rate)
    BY <2>2, <2>4 DEF ProcOK, Labels, Held, FloorsCover, Local
  <2>6. pc' = [pc EXCEPT ![p] = "edit_commit"] /\ UNCHANGED <<rows, rate>> /\ StoreOK'
    BY <1>2 DEF EditReadRows, Goto, IInv, StoreOK
  <2> HIDE DEF l
  <2> QED
    BY <2>3, <2>5, <2>6, ReadingStep
<1>3. CASE EditCommit(p)
  <2> DEFINE l == local[p]
             written == EditApplied(l)
  <2>1. l \in Local /\ ProcOK("edit_commit", l, rows, rate)
    BY <1>3 DEF IInv, EditCommit
  <2>2. ASSUME NEW m \in written
        PROVE  /\ m \in Market /\ m[1] \in Country /\ rate[m[1]] # Null
               /\ SoundRow(NewRow(EditDecision(l, m)))
    <3>1. /\ m \in Market /\ m[1] \in Country /\ l.rates[m[1]] # Null
          /\ SoundRow(NewRow(EditDecision(l, m)))
      BY <2>1, EditStores DEF ProcOK
    <3>2. m[1] \notin l.lost
      BY <1>3 DEF EditCommit
    <3> QED
      BY <2>1, <3>1, <3>2 DEF ProcOK
  <2> HIDE DEF l, written
  <2>3. ASSUME NEW m \in Market
        PROVE  rows'[m] = IF m \in written THEN NewRow(EditDecision(l, m)) ELSE rows[m]
    BY <1>3 DEF EditCommit, l, written
  <2>4. rows' = [m \in Market |-> rows'[m]]
    BY <1>3 DEF EditCommit
  <2>5. UNCHANGED rate
    BY <1>3 DEF EditCommit
  <2>6. RowsOK(rows', rate')
    BY <2>2, <2>3, <2>4, <2>5 DEF RowsOK, IInv, SoundRow
  <2>7. \A m \in Market : rows[m] \in Row => rows'[m] \in Row
    BY <2>2, <2>3 DEF SoundRow
  <2>8. history' \in [Market -> Entry \cup {Null}]
    <3>1. history' = [m \in Market |->
                IF m \in written THEN EntryOf(NewRow(EditDecision(l, m))) ELSE history[m]]
      BY <1>3 DEF EditCommit, l, written
    <3>2. ASSUME NEW m \in written PROVE EntryOf(NewRow(EditDecision(l, m))) \in Entry
      BY <2>2, EntryOfRow DEF SoundRow
    <3> QED
      BY <3>1, <3>2 DEF IInv, StoreOK
  <2>9. StoreOK'
    BY <1>3, <2>8 DEF EditCommit, Finish, IInv, StoreOK
  <2>10. pc' = [pc EXCEPT ![p] = "idle"] /\ local' = [local EXCEPT ![p] = Blank]
    BY <1>3 DEF EditCommit, Finish, Goto
  <2> QED
    BY <2>5, <2>6, <2>7, <2>9, <2>10, FinishingStep
<1> QED
  BY <1>1, <1>2, <1>3 DEF Edit

\* Each step of an edit of the special price.
LEMMA SpecialSteps ==
    ASSUME IInv, NEW p \in Procs, EditSpecial(p)
    PROVE  IInv'
<1>1. CASE SpecialBegin(p)
  <2>1. PICK special \in SpecialAmounts \cup {Null}, cur \in Currency :
            LET ms == InCurrency(cur) \cap Priced
            IN  /\ special # Null => \A m \in ms : rows[m].taxed
                /\ local' = [local EXCEPT ![p] = [Blank EXCEPT
                        !.req = SpecialRequest(special, cur), !.seen = RowsIn(ms), !.live = ms,
                        !.floors = Floors, !.rates = rate]]
    BY <1>1 DEF SpecialBegin
  <2> DEFINE req == SpecialRequest(special, cur)
             ms == InCurrency(cur) \cap Priced
             l == [Blank EXCEPT !.req = req, !.seen = RowsIn(ms), !.live = ms,
                                !.floors = Floors, !.rates = rate]
  <2>2. req \in Request /\ req.special = special
    BY AmountAssumption DEF SpecialRequest, Request, PriceSource, Amount
  <2>3. ms \in SUBSET Market
    BY DEF Priced
  <2> HIDE DEF req
  <2>4. l \in Local
    BY <2>2, <2>3, BlankOK, FloorsOK, RowsRead DEF Local, IInv, StoreOK
  <2>5. special # Null =>
            \A m \in Market : RowsIn(ms)[m] # Null => RowsIn(ms)[m].taxed /\ rate[m[1]] # Null
    BY <2>1, <2>3 DEF RowsIn, IInv, RowsOK
  <2>6. l.req = req /\ l.seen = RowsIn(ms) /\ l.rates = rate /\ l.floors = Floors /\ l.live = ms
    BY DEF Blank
  <2>7. \A m \in Market : RowsIn(ms)[m] # Null => SoundRow(RowsIn(ms)[m])
    BY <2>3, RowsRead DEF IInv
  <2>8. \A m \in ms : rows[m] \in Row
    BY <2>3, RowsRead DEF IInv
  <2>9. local' = [local EXCEPT ![p] = l]
    BY <2>1 DEF req
  <2> HIDE DEF l, ms
  <2>10. Held("special_write", l)
    BY <2>2, <2>5, <2>6, <2>7, FloorsOK DEF Held, FloorsCover, IInv
  <2>11. ProcOK("special_write", l, rows, rate)
    BY <2>4, <2>6, <2>8, <2>10 DEF ProcOK, Labels
  <2>12. pc' = [pc EXCEPT ![p] = "special_write"] /\ UNCHANGED <<rows, rate>> /\ StoreOK'
    BY <1>1 DEF SpecialBegin, Goto, IInv, StoreOK
  <2> QED
    BY <2>9, <2>11, <2>12, ReadingStep
<1>2. CASE SpecialWrite(p)
  <2> DEFINE l == local[p]
             written == SpecialApplied(l) \cap l.live
  <2>1. l \in Local /\ ProcOK("special_write", l, rows, rate)
    BY <1>2 DEF IInv, SpecialWrite
  <2>2. ASSUME NEW m \in written
        PROVE  LET row == [rows[m] EXCEPT !.special = SpecialDecision(l, m).values["special"],
                                          !.source = SpecialDecision(l, m).source]
               IN  m \in Market /\ SoundRow(row) /\ row.taxed = rows[m].taxed /\ rows[m] # Null
    <3> DEFINE special == SpecialDecision(l, m).values["special"]
               source == SpecialDecision(l, m).source
    <3>1. m \in Market /\ source \in PriceSource /\ (special = NoPair \/ SoundPair(special))
      BY <2>1, SpecialStores DEF ProcOK
    <3>2. rows[m] \in Row /\ rows[m] # Null
      BY <2>1, NullIsNoRow DEF ProcOK
    <3>3. SoundPair(rows[m].regular)
      BY <3>1, <3>2 DEF IInv, RowsOK, SoundRow
    <3> HIDE DEF special, source
    <3>4. SoundRow([rows[m] EXCEPT !.special = special, !.source = source])
      BY <3>1, <3>2, <3>3 DEF SoundRow, Row, SpecialPair, SoundPair, Whole
    <3> QED
      BY <3>1, <3>2, <3>4 DEF special, source, Row
  <2> HIDE DEF l, written
  <2>3. ASSUME NEW m \in Market
        PROVE  rows'[m] = IF m \in written
                          THEN [rows[m] EXCEPT !.special = SpecialDecision(l, m).values["special"],
                                               !.source = SpecialDecision(l, m).source]
                          ELSE rows[m]
    BY <1>2 DEF SpecialWrite, l, written
  <2>4. rows' = [m \in Market |-> rows'[m]]
    BY <1>2 DEF SpecialWrite
  <2>5. ASSUME NEW m \in Market
        PROVE  /\ rows'[m] \in Row \cup {Null} /\ (rows[m] \in Row => rows'[m] \in Row)
               /\ rows'[m] # Null => SoundRow(rows'[m]) /\ rows'[m].taxed = rows[m].taxed /\ rows[m] # Null
    BY <2>2, <2>3 DEF SoundRow, IInv, RowsOK
  <2>6. UNCHANGED <<rate, local>> /\ StoreOK'
    BY <1>2 DEF SpecialWrite, IInv, StoreOK
  <2>7. RowsOK(rows', rate')
    BY <2>4, <2>5, <2>6 DEF RowsOK, IInv
  <2>8. ProcOK("special_log", l, rows, rate)
    BY <2>1 DEF ProcOK, Held, Labels
  <2>9. ProcOK("special_log", l, rows', rate')
    BY <2>5, <2>6, <2>8, ProcOKKept
  <2>10. pc' = [pc EXCEPT ![p] = "special_log"] /\ local' = [local EXCEPT ![p] = l]
    BY <1>2, <2>6 DEF SpecialWrite, Goto, IInv, l
  <2> QED
    BY <2>5, <2>6, <2>7, <2>9, <2>10, StepOfOne
<1>3. CASE SpecialLog(p)
  <2> DEFINE l == local[p]
  <2>1. l \in Local /\ ProcOK("special_log", l, rows, rate)
    BY <1>3 DEF IInv, SpecialLog
  <2>2. ASSUME NEW m \in SpecialApplied(l)
        PROVE  [regular |-> l.seen[m].regular,
                special |-> SpecialDecision(l, m).values["special"]] \in Entry
    BY <2>1, SpecialStores DEF ProcOK, Entry, Row, SpecialPair, SoundPair, Whole
  <2>3. history' \in [Market -> Entry \cup {Null}]
    BY <1>3, <2>2 DEF SpecialLog, IInv, StoreOK
  <2>4. StoreOK' /\ UNCHANGED <<rows, rate>>
    BY <1>3, <2>3 DEF SpecialLog, Finish, IInv, StoreOK
  <2>5. pc' = [pc EXCEPT ![p] = "idle"] /\ local' = [local EXCEPT ![p] = Blank]
    BY <1>3 DEF SpecialLog, Finish, Goto
  <2> QED
    BY <2>4, <2>5, FinishingStep DEF IInv
<1> QED
  BY <1>1, <1>2, <1>3 DEF EditSpecial

\* The read of flush_special_prices and of delete_prices.
LEMMA ScopedReadStep ==
    ASSUME IInv, NEW p \in Procs, NEW label \in {"flush_commit", "delete_commit"},
           ScopedRead(p, label)
    PROVE  IInv'
<1>1. PICK cur \in Currency \cup {Null} :
          LET ms == InCurrency(cur) \cap Priced
          IN  local' = [local EXCEPT ![p] = [Blank EXCEPT
                            !.req = ScopedRequest(cur), !.seen = RowsIn(ms), !.live = ms,
                            !.rates = rate]]
  BY DEF ScopedRead
<1> DEFINE req == ScopedRequest(cur)
           ms == InCurrency(cur) \cap Priced
           l == [Blank EXCEPT !.req = req, !.seen = RowsIn(ms), !.live = ms, !.rates = rate]
<1>2. req \in Request
  BY DEF ScopedRequest, SpecialRequest, Request, PriceSource
<1>3. ms \in SUBSET Market
  BY DEF Priced
<1>4. local' = [local EXCEPT ![p] = l]
  BY <1>1
<1> HIDE DEF req
<1>5. l \in Local
  BY <1>2, <1>3, BlankOK, RowsRead DEF Local, IInv, StoreOK
<1>6. l.seen = RowsIn(ms) /\ l.live = ms /\ l.rates = rate
  BY DEF Blank
<1>7. \A m \in Market : RowsIn(ms)[m] # Null => SoundRow(RowsIn(ms)[m])
  BY <1>3, RowsRead DEF IInv
<1>8. \A m \in ms : rows[m] \in Row
  BY <1>3, RowsRead DEF IInv
<1> HIDE DEF l, ms
<1>9. ProcOK(label, l, rows, rate)
  BY <1>5, <1>6, <1>7, <1>8 DEF ProcOK, Labels, Held
<1>10. pc' = [pc EXCEPT ![p] = label] /\ UNCHANGED <<rows, rate>> /\ StoreOK'
  BY DEF ScopedRead, Goto, IInv, StoreOK
<1> QED
  BY <1>4, <1>9, <1>10, ReadingStep

\* The rows that were read make history entries.
LEMMA SeenLogged ==
    ASSUME NEW l \in Local, history \in [Market -> Entry \cup {Null}], LogSeen(l)
    PROVE  history' \in [Market -> Entry \cup {Null}]
<1>1. \A m \in Market : l.seen[m] # Null => EntryOf(l.seen[m]) \in Entry
  BY EntryOfRow DEF Local
<1> QED
  BY <1>1 DEF LogSeen

\* Each step of flush_special_prices.
LEMMA FlushSteps ==
    ASSUME IInv, NEW p \in Procs, Flush(p)
    PROVE  IInv'
<1>1. CASE FlushRead(p)
  BY <1>1, ScopedReadStep DEF FlushRead
<1>2. CASE FlushCommit(p)
  <2> DEFINE live == local[p].live
  <2>1. local[p] \in Local /\ \A m \in live : rows[m] \in Row
    BY <1>2 DEF IInv, ProcOK
  <2>2. ASSUME NEW m \in Market, m \in live
        PROVE  LET row == [rows[m] EXCEPT !.special = NoPair]
               IN  SoundRow(row) /\ row.taxed = rows[m].taxed /\ rows[m] # Null
    <3>1. rows[m] \in Row /\ rows[m] # Null /\ SoundPair(rows[m].regular)
      BY <2>1, <2>2, NullIsNoRow DEF IInv, RowsOK, SoundRow
    <3> QED
      BY <3>1 DEF SoundRow, Row, SpecialPair
  <2>3. ASSUME NEW m \in Market
        PROVE  rows'[m] = IF m \in live THEN [rows[m] EXCEPT !.special = NoPair] ELSE rows[m]
    BY <1>2 DEF FlushCommit
  <2>4. rows' = [m \in Market |-> rows'[m]]
    BY <1>2 DEF FlushCommit
  <2> HIDE DEF live
  <2>5. ASSUME NEW m \in Market
        PROVE  /\ rows'[m] \in Row \cup {Null} /\ (rows[m] \in Row => rows'[m] \in Row)
               /\ rows'[m] # Null => SoundRow(rows'[m]) /\ rows'[m].taxed = rows[m].taxed /\ rows[m] # Null
    BY <2>2, <2>3 DEF SoundRow, IInv, RowsOK
  <2>6. UNCHANGED rate
    BY <1>2 DEF FlushCommit
  <2>7. RowsOK(rows', rate')
    BY <2>4, <2>5, <2>6 DEF RowsOK, IInv
  <2>8. StoreOK'
    BY <1>2, <2>1, SeenLogged DEF FlushCommit, Finish, IInv, StoreOK
  <2>9. pc' = [pc EXCEPT ![p] = "idle"] /\ local' = [local EXCEPT ![p] = Blank]
    BY <1>2 DEF FlushCommit, Finish, Goto
  <2> QED
    BY <2>5, <2>6, <2>7, <2>8, <2>9, FinishingStep
<1> QED
  BY <1>1, <1>2 DEF Flush

\* Each step of delete_prices: the deleted rows are no process's live rows any more.
LEMMA DeleteSteps ==
    ASSUME IInv, NEW p \in Procs, Delete(p)
    PROVE  IInv'
<1>1. CASE DeleteRead(p)
  BY <1>1, ScopedReadStep DEF DeleteRead
<1>2. CASE DeleteCommit(p)
  <2> DEFINE deleted == local[p].live
             rest(q) == [local[q] EXCEPT !.live = @ \ deleted]
  <2>1. rows' = [m \in Market |-> IF m \in deleted THEN Null ELSE rows[m]] /\ UNCHANGED rate
    BY <1>2 DEF DeleteCommit
  <2>2. RowsOK(rows', rate')
    BY <2>1 DEF IInv, RowsOK
  <2>3. StoreOK'
    BY <1>2, SeenLogged DEF DeleteCommit, IInv, StoreOK
  <2>4. pc' = [pc EXCEPT ![p] = "idle"]
    BY <1>2 DEF DeleteCommit, Goto
  <2>5. \A q \in Procs : local'[q] = IF q = p THEN Blank ELSE rest(q)
    BY <1>2 DEF DeleteCommit
  <2>6. DOMAIN local' = Procs /\ local' = [q \in Procs |-> local'[q]]
    BY <1>2 DEF DeleteCommit
  <2>7. ASSUME NEW q \in Procs PROVE ProcOK(pc'[q], local'[q], rows', rate')
    <3>1. CASE q = p
      BY <2>4, <2>5, <3>1, BlankOK DEF IInv
    <3>2. CASE q # p
      <4>1. ProcOK(pc[q], local[q], rows, rate) /\ local[q] \in Local
        BY DEF IInv
      <4>2. rest(q) \in Local /\ rest(q).live = local[q].live \ deleted
        BY <4>1 DEF Local
      <4>3. /\ rest(q).req = local[q].req /\ rest(q).rates = local[q].rates
            /\ rest(q).floors = local[q].floors /\ rest(q).seen = local[q].seen
            /\ rest(q).lost = local[q].lost /\ rest(q).cost = local[q].cost
            /\ rest(q).scope = local[q].scope
        BY <4>1 DEF Local
      <4>4. \A m \in rest(q).live : rows'[m] \in Row
        BY <2>1, <4>1, <4>2 DEF ProcOK, Local
      <4>5. local'[q] = rest(q) /\ pc'[q] = pc[q]
        BY <2>4, <2>5, <3>2 DEF IInv
      <4> HIDE DEF rest, deleted
      <4>6. Held(pc[q], rest(q))
        BY <4>1, <4>3 DEF ProcOK, Held, FloorsCover
      <4> QED
        BY <2>1, <4>1, <4>2, <4>3, <4>4, <4>5, <4>6 DEF ProcOK
    <3> QED
      BY <3>1, <3>2
  <2>8. pc' \in [Procs -> Labels] /\ local' \in [Procs -> Local]
    <3> HIDE DEF rest, deleted
    <3> QED
      BY <2>4, <2>6, <2>7 DEF ProcOK, IInv, Labels
  <2> QED
    BY <2>2, <2>3, <2>7, <2>8 DEF IInv
<1> QED
  BY <1>1, <1>2 DEF Delete

\* Each step of a cost save and of the baseline recalculation.
LEMMA BaselineSteps ==
    ASSUME IInv, NEW p \in Procs, Baseline(p)
    PROVE  IInv'
<1> DEFINE here == local[p]
<1>0. here \in Local /\ ProcOK(pc[p], here, rows, rate)
  BY DEF IInv
<1>1. CASE SaveCost(p)
  <2> DEFINE l == [Blank EXCEPT !.scope = Country]
  <2>1. l \in Local
    BY BlankOK DEF Local
  <2>2. ProcOK("base_read", l, rows, rate)
    BY <2>1 DEF ProcOK, Labels, Held, Blank
  <2>3. /\ pc' = [pc EXCEPT ![p] = "base_read"] /\ local' = [local EXCEPT ![p] = l]
        /\ UNCHANGED <<rows, rate>> /\ StoreOK'
    BY <1>1 DEF SaveCost, Goto, IInv, StoreOK
  <2> HIDE DEF l
  <2> QED
    BY <2>2, <2>3, ReadingStep
<1>2. CASE BaseRead(p)
  <2>1. CASE Finish(p)
    <3>1. UNCHANGED <<rows, rate>> /\ StoreOK'
      BY <1>2, <2>1 DEF BaseRead, Finish, IInv, StoreOK
    <3> QED
      BY <2>1, <3>1, FinishingStep DEF Finish, Goto, IInv
  <2>2. CASE ~Finish(p)
    <3> DEFINE l == [Blank EXCEPT !.cost = cost, !.scope = here.scope, !.task = here.task]
    <3>1. /\ cost # Null /\ local' = [local EXCEPT ![p] = l]
          /\ pc' = [pc EXCEPT ![p] = "base_rows"] /\ UNCHANGED <<rows, rate>> /\ StoreOK'
      BY <1>2, <2>2 DEF BaseRead, Goto, IInv, StoreOK
    <3>2. l \in Local /\ cost \in Costs
      BY <1>0, <3>1, BlankOK DEF Local, IInv, StoreOK
    <3>3. ProcOK("base_rows", l, rows, rate)
      BY <3>2 DEF ProcOK, Labels, Held, Blank
    <3> HIDE DEF l
    <3> QED
      BY <3>1, <3>3, ReadingStep
  <2> QED
    BY <2>1, <2>2
<1>3. CASE BaseReadRows(p)
  <2> DEFINE ms == here.scope \X {CostCurrency}
             l == [here EXCEPT !.rates = rate, !.floors = Floors,
                               !.sources = SourcesIn(ms), !.live = ms \cap Priced]
  <2>1. local' = [local EXCEPT ![p] = l]
    BY <1>3 DEF BaseReadRows, IInv
  <2>2. ms \in SUBSET Market
    BY <1>0, MarketAssumption DEF Local, Market
  <2> HIDE DEF ms
  <2>3. l \in Local
    BY <1>0, <2>2, FloorsOK, RowsRead DEF Local, IInv, StoreOK
  <2>4. /\ l.cost = here.cost /\ l.scope = here.scope /\ l.seen = here.seen
        /\ l.rates = rate /\ l.floors = Floors /\ l.live = ms \cap Priced
    BY <1>0 DEF Local
  <2>5. \A m \in ms \cap Priced : rows[m] \in Row
    BY <2>2, RowsRead DEF IInv
  <2>6. pc[p] = "base_rows" /\ pc' = [pc EXCEPT ![p] = "base_commit"]
    BY <1>3 DEF BaseReadRows, Goto
  <2> HIDE DEF l, here
  <2>7. Held("base_commit", l)
    BY <1>0, <2>4, <2>6, FloorsOK DEF ProcOK, Held, FloorsCover, IInv
  <2>8. ProcOK("base_commit", l, rows, rate)
    BY <2>3, <2>4, <2>5, <2>7 DEF ProcOK, Labels
  <2>9. UNCHANGED <<rows, rate>> /\ StoreOK'
    BY <1>3 DEF BaseReadRows, IInv, StoreOK
  <2> QED
    BY <2>1, <2>6, <2>8, <2>9, ReadingStep
<1>4. CASE BaseCommit(p)
  <2> DEFINE created == BaseCreated(here)
             updated == BaseApplied(here) \cap here.live
             regular(m) == BaseDecision(here, m).values["regular"]
  <2>1. Held("base_commit", here)
    BY <1>0, <1>4 DEF ProcOK, BaseCommit
  <2>2. ASSUME NEW m \in BaseApplied(here)
        PROVE  m \in Market /\ SoundPair(regular(m)) /\ BaseDecision(here, m).source \in PriceSource
    BY <1>0, <2>1, BaseStores
  <2>3. ASSUME NEW m \in created \cup updated PROVE rate[m[1]] # Null
    <3>1. m \in BaseApplied(here)
      BY DEF BaseCreated
    <3>2. m[1] \in Country /\ here.rates[m[1]] # Null
      BY <1>0, <2>1, <3>1, BaseStores
    <3>3. m[1] \notin here.lost
      BY <1>4, <3>1 DEF BaseCommit
    <3> QED
      BY <1>0, <3>2, <3>3 DEF ProcOK
  <2>4. ASSUME NEW m \in created
        PROVE  SoundRow(NewRow(BaseDecision(here, m)))
    <3>1. m \in BaseApplied(here) /\ BaseDecision(here, m).values["special"] = NoPair
      BY <1>0, <2>1, BaseStores DEF BaseCreated
    <3> QED
      BY <2>2, <3>1 DEF SoundRow, NewRow, Row, SpecialPair, SoundPair, Whole
  <2>5. ASSUME NEW m \in updated
        PROVE  SoundRow(BaseUpdated(rows[m], BaseDecision(here, m)))
    <3> DEFINE decision == BaseDecision(here, m)
    <3>1. SoundPair(decision.values["regular"]) /\ decision.source \in PriceSource
      BY <2>2
    <3>2. m \in Market /\ rows[m] \in Row
      BY <1>0, <2>2 DEF ProcOK
    <3>3. SoundRow(rows[m])
      BY <3>2, NullIsNoRow DEF IInv, RowsOK
    <3> HIDE DEF decision
    <3> QED
      BY <3>1, <3>3 DEF SoundRow, BaseUpdated, Row, SoundPair, Whole, decision
  <2>6. rows' = [m \in Market |->
                    IF m \in created THEN NewRow(BaseDecision(here, m))
                    ELSE IF m \in updated THEN BaseUpdated(rows[m], BaseDecision(here, m))
                    ELSE rows[m]]
    BY <1>4 DEF BaseCommit
  <2>7. history' = [m \in Market |->
                    IF m \in BaseApplied(here) THEN [regular |-> regular(m), special |-> NoPair]
                    ELSE history[m]]
    BY <1>4 DEF BaseCommit
  <2>8. UNCHANGED <<rate, cost, tombstone, queued>> /\ once' \subseteq Country
    BY <1>4 DEF BaseCommit, Finish, IInv, StoreOK
  <2>9. pc' = [pc EXCEPT ![p] = "idle"] /\ local' = [local EXCEPT ![p] = Blank]
    BY <1>4 DEF BaseCommit, Finish, Goto
  <2> HIDE DEF created, updated, here
  <2>10. RowsOK(rows', rate')
    BY <2>3, <2>4, <2>5, <2>6, <2>8 DEF RowsOK, IInv, SoundRow
  <2>11. \A m \in Market : rows[m] \in Row => rows'[m] \in Row
    BY <2>4, <2>5, <2>6 DEF SoundRow
  <2>12. ASSUME NEW m \in BaseApplied(here)
         PROVE  [regular |-> regular(m), special |-> NoPair] \in Entry
    BY <2>2 DEF Entry, SpecialPair, SoundPair, Whole
  <2> HIDE DEF regular
  <2>13. StoreOK'
    BY <2>7, <2>8, <2>12 DEF IInv, StoreOK
  <2> QED
    BY <2>8, <2>9, <2>10, <2>11, <2>13, FinishingStep
<1> QED
  BY <1>1, <1>2, <1>3, <1>4 DEF Baseline

\* Each step of a rate update.
LEMMA UpdateRateSteps ==
    ASSUME IInv, NEW p \in Procs, UpdateRate(p)
    PROVE  IInv'
<1>1. CASE RateSave(p)
  <2>1. PICK c \in Country, r \in Rates :
            /\ rate[c] # Null /\ rate' = [rate EXCEPT ![c] = r]
            /\ local' = [local EXCEPT ![p] = [Blank EXCEPT !.scope = {c}]]
    BY <1>1 DEF RateSave
  <2> DEFINE l == [Blank EXCEPT !.scope = {c}]
  <2>2. r # Null
    BY AmountAssumption, NullAssumption
  <2>3. \A d \in Country : rate[d] # Null => rate'[d] # Null
    BY <2>1, <2>2 DEF IInv, StoreOK
  <2>4. StoreOK' /\ UNCHANGED rows /\ pc' = [pc EXCEPT ![p] = "rate_delay"]
    BY <1>1, <2>1 DEF RateSave, Goto, IInv, StoreOK
  <2>5. RowsOK(rows', rate')
    BY <2>3, <2>4 DEF RowsOK, IInv, Market
  <2>6. l \in Local
    BY BlankOK DEF Local
  <2>7. ProcOK("rate_delay", l, rows', rate')
    BY <2>6 DEF ProcOK, Labels, Held, Blank
  <2> HIDE DEF l
  <2> QED
    BY <2>1, <2>3, <2>4, <2>5, <2>7, StepOfOne DEF l
<1>2. CASE RateDelay(p)
  <2>1. local[p].scope \subseteq Country
    BY DEF IInv, Local
  <2>2. StoreOK' /\ UNCHANGED <<rows, rate>>
    BY <1>2, <2>1 DEF RateDelay, IInv, StoreOK
  <2> QED
    BY <1>2, <2>2, FinishingStep DEF RateDelay, Goto, IInv
<1> QED
  BY <1>1, <1>2 DEF UpdateRate

\* A new rate takes nothing away.
LEMMA RateCreateStep ==
    ASSUME IInv, NEW c \in Country, RateCreate(c)
    PROVE  IInv'
<1>1. \A d \in Country : rate[d] # Null => rate'[d] # Null
  BY DEF RateCreate, IInv, StoreOK
<1>2. StoreOK' /\ UNCHANGED <<rows, pc, local>>
  BY DEF RateCreate, IInv, StoreOK
<1>3. RowsOK(rows', rate')
  BY <1>1, <1>2 DEF RowsOK, IInv, Market
<1>4. ASSUME NEW q \in Procs PROVE ProcOK(pc[q], local[q], rows', rate')
  <2>1. ProcOK(pc[q], local[q], rows, rate)
    BY DEF IInv
  <2> QED
    BY <1>1, <1>2, <2>1, ProcOKKept
<1> QED
  BY <1>2, <1>3, <1>4 DEF IInv

\* A rate that goes leaves its rows untaxed, and every process that holds it knows.
LEMMA RateDestroyStep ==
    ASSUME IInv, NEW c \in Country, RateDestroy(c)
    PROVE  IInv'
<1> DEFINE losing(l) == IF l.rates[c] = Null THEN l ELSE [l EXCEPT !.lost = @ \cup {c}]
<1>1. rate' = [rate EXCEPT ![c] = Null] /\ UNCHANGED pc
  BY DEF RateDestroy
<1>2. local' = [p \in Procs |-> losing(local[p])]
  BY DEF RateDestroy
<1>3. StoreOK'
  BY DEF RateDestroy, IInv, StoreOK
<1>4. ASSUME NEW m \in Market
      PROVE  /\ rows'[m] \in Row \cup {Null} /\ (rows[m] \in Row => rows'[m] \in Row)
             /\ rows'[m] # Null => SoundRow(rows'[m]) /\ (rows'[m].taxed => rate'[m[1]] # Null)
  <2>1. rows[m] \in Row \cup {Null} /\ m[1] \in Country
        /\ (rows[m] # Null => SoundRow(rows[m]) /\ (rows[m].taxed => rate[m[1]] # Null))
    BY DEF IInv, RowsOK, Market
  <2>2. CASE m[1] = c /\ rows[m] # Null
    <3>1. rows'[m] = [rows[m] EXCEPT !.taxed = FALSE]
      BY <2>2 DEF RateDestroy
    <3> QED
      BY <2>1, <2>2, <3>1 DEF SoundRow, Row
  <2>3. CASE ~(m[1] = c /\ rows[m] # Null)
    <3>1. rows'[m] = rows[m]
      BY <2>3 DEF RateDestroy
    <3> QED
      BY <1>1, <2>1, <2>3, <3>1 DEF IInv, StoreOK
  <2> QED
    BY <2>2, <2>3
<1>5. RowsOK(rows', rate')
  <2>1. rows' = [m \in Market |-> rows'[m]]
    BY DEF RateDestroy
  <2> QED
    BY <1>4, <2>1 DEF RowsOK
<1>6. ASSUME NEW q \in Procs PROVE local'[q] \in Local /\ ProcOK(pc'[q], local'[q], rows', rate')
  <2> DEFINE l == losing(local[q])
  <2>1. local[q] \in Local /\ ProcOK(pc[q], local[q], rows, rate)
    BY DEF IInv
  <2>2. /\ l \in Local /\ l.req = local[q].req /\ l.rates = local[q].rates
        /\ l.floors = local[q].floors /\ l.seen = local[q].seen /\ l.live = local[q].live
        /\ l.cost = local[q].cost /\ l.scope = local[q].scope
        /\ local[q].lost \subseteq l.lost
        /\ local[q].rates[c] # Null => c \in l.lost
    BY <2>1 DEF Local
  <2>3. local'[q] = l
    BY <1>2
  <2> HIDE DEF losing, l
  <2>4. Held(pc[q], l)
    BY <2>1, <2>2 DEF ProcOK, Held, FloorsCover
  <2>5. \A d \in Country : l.rates[d] # Null /\ d \notin l.lost => rate'[d] # Null
    BY <1>1, <2>1, <2>2 DEF ProcOK, IInv, StoreOK
  <2>6. \A m \in l.live : rows'[m] \in Row
    BY <1>4, <2>1, <2>2 DEF ProcOK, Local
  <2> QED
    BY <1>1, <2>1, <2>2, <2>3, <2>4, <2>5, <2>6 DEF ProcOK
<1>7. pc' \in [Procs -> Labels] /\ local' \in [Procs -> Local]
  <2> HIDE DEF losing
  <2> QED
    BY <1>1, <1>2, <1>6 DEF IInv
<1> QED
  BY <1>3, <1>5, <1>6, <1>7 DEF IInv

\* Each step of the recalculation task.
LEMMA RecalculateVatSteps ==
    ASSUME IInv, NEW p \in Procs, RecalculateVat(p)
    PROVE  IInv'
<1> DEFINE here == local[p]
<1>0. here \in Local /\ ProcOK(pc[p], here, rows, rate)
  BY DEF IInv
<1>1. CASE VatBegin(p)
  <2>1. PICK c \in queued :
            /\ queued' = queued \ {c}
            /\ \/ once' = once \ {c} /\ UNCHANGED <<pc, local>>
               \/ /\ rate[c] # Null /\ Goto(p, "vat_rows") /\ UNCHANGED once
                  /\ local' = [local EXCEPT ![p] = [Blank EXCEPT
                            !.rates = [Blank.rates EXCEPT ![c] = rate[c]], !.scope = {c}, !.task = c]]
    BY <1>1 DEF VatBegin
  <2>2. UNCHANGED <<rows, history, rate, cost, tombstone>> /\ c \in Country
    BY <1>1 DEF VatBegin, IInv, StoreOK
  <2>3. CASE once' = once \ {c} /\ UNCHANGED <<pc, local>>
    <3>1. StoreOK'
      BY <2>1, <2>2, <2>3 DEF IInv, StoreOK
    <3> QED
      BY <2>2, <2>3, <3>1 DEF IInv
  <2>4. CASE /\ rate[c] # Null /\ Goto(p, "vat_rows") /\ UNCHANGED once
             /\ local' = [local EXCEPT ![p] = [Blank EXCEPT
                    !.rates = [Blank.rates EXCEPT ![c] = rate[c]], !.scope = {c}, !.task = c]]
    <3> DEFINE l == [Blank EXCEPT !.rates = [Blank.rates EXCEPT ![c] = rate[c]],
                                  !.scope = {c}, !.task = c]
    <3>1. /\ rate[c] # Null /\ pc' = [pc EXCEPT ![p] = "vat_rows"]
          /\ local' = [local EXCEPT ![p] = l]
      BY <2>4 DEF Goto
    <3>2. l \in Local
      BY <2>2, BlankOK DEF Local, IInv, StoreOK
    <3>3. /\ l.scope = {c} /\ l.live = {}
          /\ \A d \in Country : l.rates[d] = IF d = c THEN rate[c] ELSE Null
          /\ \A m \in Market : l.seen[m] = Null
      BY <2>2 DEF Blank
    <3>4. StoreOK'
      BY <2>1, <2>2, <2>4 DEF IInv, StoreOK
    <3> HIDE DEF l
    <3>5. Held("vat_rows", l)
      BY <2>2, <3>1, <3>3 DEF Held
    <3>6. ProcOK("vat_rows", l, rows, rate)
      BY <3>1, <3>2, <3>3, <3>5 DEF ProcOK, Labels
    <3> QED
      BY <2>2, <3>1, <3>4, <3>6, ReadingStep
  <2> QED
    BY <2>1, <2>3, <2>4
<1>2. CASE VatReadRows(p)
  <2>1. UNCHANGED <<rows, rate>> /\ pc[p] = "vat_rows"
    BY <1>2 DEF VatReadRows
  <2>2. CASE Finish(p)
    <3>1. StoreOK'
      BY <1>2, <2>2 DEF VatReadRows, Finish, IInv, StoreOK
    <3> QED
      BY <2>1, <2>2, <3>1, FinishingStep DEF Finish, Goto, IInv
  <2>3. CASE ~Finish(p)
    <3> DEFINE ms == (here.scope \X Currency) \cap Priced
               l == [here EXCEPT !.seen = RowsIn(ms), !.live = ms, !.floors = Floors]
    <3>1. local' = [local EXCEPT ![p] = l] /\ pc' = [pc EXCEPT ![p] = "vat_write"] /\ StoreOK'
      BY <1>2, <2>3 DEF VatReadRows, Goto, IInv, StoreOK
    <3>2. ms \in SUBSET Market /\ \A m \in ms : m[1] \in here.scope
      BY DEF Priced
    <3>3. \A m \in ms \cap Priced : rows[m] \in Row
      BY <3>2, RowsRead DEF IInv
    <3>4. ms \subseteq Priced
      OBVIOUS
    <3> HIDE DEF ms
    <3>5. /\ RowsIn(ms) \in [Market -> Row \cup {Null}]
          /\ \A m \in Market : RowsIn(ms)[m] # Null => m \in ms /\ SoundRow(RowsIn(ms)[m])
      BY <3>2, RowsRead DEF IInv
    <3>6. l \in Local
      BY <1>0, <3>2, <3>5, FloorsOK DEF Local, IInv
    <3>7. /\ l.seen = RowsIn(ms) /\ l.live = ms /\ l.floors = Floors
          /\ l.scope = here.scope /\ l.rates = here.rates /\ l.lost = here.lost
      BY <1>0 DEF Local
    <3> HIDE DEF l, here
    <3>8. Held("vat_write", l)
      BY <1>0, <2>1, <3>2, <3>5, <3>7, FloorsOK DEF ProcOK, Held, FloorsCover, IInv
    <3>9. ProcOK("vat_write", l, rows, rate)
      BY <1>0, <3>3, <3>4, <3>6, <3>7, <3>8 DEF ProcOK, Labels
    <3> QED
      BY <2>1, <3>1, <3>9, ReadingStep
  <2> QED
    BY <2>2, <2>3
<1>3. CASE VatWrite(p)
  <2> DEFINE written == VatApplied(here) \cap here.live
             new(m) == [rows[m] EXCEPT !.regular = VatDecision(here, m).values["regular"],
                                       !.special = VatDecision(here, m).values["special"],
                                       !.taxed = TRUE]
  <2>1. Held("vat_write", here)
    BY <1>0, <1>3 DEF ProcOK, VatWrite
  <2>2. ASSUME NEW m \in written
        PROVE  m \in Market /\ SoundRow(new(m)) /\ rate[m[1]] # Null
    <3> DEFINE values == VatDecision(here, m).values
    <3>1. /\ m \in Market /\ m[1] \in Country /\ here.rates[m[1]] # Null
          /\ SoundPair(values["regular"])
          /\ values["special"] = NoPair \/ SoundPair(values["special"])
      BY <1>0, <2>1, VatStores
    <3>2. rows[m] \in Row
      BY <1>0 DEF ProcOK
    <3> HIDE DEF values
    <3>3. SoundRow([rows[m] EXCEPT !.regular = values["regular"],
                                   !.special = values["special"], !.taxed = TRUE])
      BY <3>1, <3>2 DEF SoundRow, Row, SpecialPair, SoundPair, Whole
    <3>4. m[1] \notin here.lost
      BY <1>3 DEF VatWrite
    <3>5. rate[m[1]] # Null
      BY <1>0, <3>1, <3>4 DEF ProcOK
    <3> QED
      BY <3>1, <3>3, <3>5 DEF values
  <2>3. rows' = [m \in Market |-> IF m \in written THEN new(m) ELSE rows[m]]
    BY <1>3 DEF VatWrite
  <2>4. /\ pc[p] = "vat_write" /\ pc' = [pc EXCEPT ![p] = "vat_log"]
        /\ local' = [local EXCEPT ![p] = here]
    BY <1>3 DEF VatWrite, Goto, IInv
  <2>5. UNCHANGED rate /\ StoreOK'
    BY <1>3 DEF VatWrite, IInv, StoreOK
  <2> HIDE DEF written, new, here
  <2>6. RowsOK(rows', rate')
    BY <2>2, <2>3, <2>5 DEF RowsOK, IInv, SoundRow
  <2>7. \A m \in Market : rows[m] \in Row => rows'[m] \in Row
    BY <2>2, <2>3 DEF SoundRow
  <2>8. ProcOK("vat_log", here, rows, rate)
    BY <1>0, <2>1, <2>4 DEF ProcOK, Held, Labels
  <2>9. ProcOK("vat_log", here, rows', rate')
    BY <2>5, <2>7, <2>8, ProcOKKept
  <2> QED
    BY <2>4, <2>5, <2>6, <2>7, <2>9, StepOfOne
<1>4. CASE VatLog(p)
  <2> DEFINE l == [Blank EXCEPT !.scope = RerunScope(here), !.task = here.task]
  <2>1. Held("vat_log", here)
    BY <1>0, <1>4 DEF ProcOK, VatLog
  <2>2. ASSUME NEW m \in VatApplied(here)
        PROVE  m[1] \in Country /\ VatEntry(here, m) \in Entry
    BY <1>0, <2>1, VatStores DEF VatEntry, Entry, SpecialPair, SoundPair, Whole
  <2>3. history' \in [Market -> Entry \cup {Null}]
    BY <1>4, <2>2 DEF VatLog, IInv, StoreOK
  <2>4. l \in Local
    <3>1. RerunScope(here) \subseteq Country
      BY <2>2 DEF RerunScope
    <3>2. here.task \in Country \cup {Null}
      BY <1>0 DEF Local
    <3> HIDE DEF here
    <3> QED
      BY <3>1, <3>2, BlankOK DEF Local
  <2>5. ProcOK("base_read", l, rows, rate)
    BY <2>4 DEF ProcOK, Labels, Held, Blank
  <2>6. /\ pc' = [pc EXCEPT ![p] = "base_read"] /\ local' = [local EXCEPT ![p] = l]
        /\ UNCHANGED <<rows, rate>> /\ StoreOK'
    BY <1>4, <2>3 DEF VatLog, Goto, IInv, StoreOK
  <2> HIDE DEF l
  <2> QED
    BY <2>5, <2>6, ReadingStep
<1> QED
  BY <1>1, <1>2, <1>3, <1>4 DEF RecalculateVat

\* A call that the database refuses, or whose process is killed, leaves no trace
\* but perhaps its lock.
LEMMA FailureSteps ==
    ASSUME IInv, NEW p \in Procs, IntegrityError(p) \/ Crash(p)
    PROVE  IInv'
<1>1. /\ pc' = [pc EXCEPT ![p] = "idle"] /\ local' = [local EXCEPT ![p] = Blank]
      /\ UNCHANGED <<rows, rate>> /\ StoreOK'
  BY DEF IntegrityError, Crash, Finish, Goto, IInv, StoreOK
<1> QED
  BY <1>1, FinishingStep DEF IInv

-----------------------------------------------------------------------------
(* The theorems *)

\* The initial states satisfy the invariant.
LEMMA InitIInv == Init => IInv
<1> SUFFICES ASSUME Init PROVE IInv
  OBVIOUS
<1>1. \A p \in Procs : ProcOK(pc[p], local[p], rows, rate)
  BY BlankOK DEF Init
<1>2. StoreOK /\ RowsOK(rows, rate)
  BY DEF Init, StoreOK, RowsOK
<1>3. pc \in [Procs -> Labels] /\ local \in [Procs -> Local]
  BY BlankOK DEF Init, Labels
<1> QED
  BY <1>1, <1>2, <1>3 DEF IInv

\* So does every state reached from one that does.
LEMMA NextIInv == IInv /\ [Next]_vars => IInv'
<1> SUFFICES ASSUME IInv, [Next]_vars PROVE IInv'
  OBVIOUS
<1>1. ASSUME NEW p \in Procs,
             \/ Edit(p) \/ EditSpecial(p) \/ Flush(p) \/ Delete(p)
             \/ Baseline(p) \/ UpdateRate(p) \/ RecalculateVat(p)
             \/ IntegrityError(p) \/ Crash(p)
      PROVE  IInv'
  BY <1>1, EditSteps, SpecialSteps, FlushSteps, DeleteSteps, BaselineSteps,
     UpdateRateSteps, RecalculateVatSteps, FailureSteps
<1>2. CASE RemoveTombstone
  BY <1>2 DEF RemoveTombstone, IInv, StoreOK
<1>3. ASSUME NEW c \in Country, RateCreate(c) \/ RateDestroy(c) PROVE IInv'
  BY <1>3, RateCreateStep, RateDestroyStep
<1>4. ASSUME NEW c \in Country, OnceExpires(c) PROVE IInv'
  BY <1>4 DEF OnceExpires, IInv, StoreOK
<1>5. CASE UNCHANGED vars
  BY <1>5 DEF vars, IInv, StoreOK
<1> QED
  BY <1>1, <1>2, <1>3, <1>4, <1>5 DEF Next

\* The invariant holds throughout.
LEMMA Invariance == Spec => []IInv
BY InitIInv, NextIInv, PTL DEF Spec

\* No writer, process or failure ever leaves a state that is not well-formed.
THEOREM TypesAreCorrect == Spec => []TypeOK
<1>1. IInv => TypeOK
  BY DEF IInv, RowsOK, StoreOK, TypeOK
<1> QED
  BY <1>1, Invariance, PTL

\* No stored price, regular or special, is below the minimum advertised price:
\* whatever a writer read before others committed, its guard saw a floor.
THEOREM FloorIsRespected == Spec => []FloorRespected
<1>1. IInv => FloorRespected
  BY DEF IInv, RowsOK, SoundRow, SoundPair, FloorRespected, Priced
<1> QED
  BY <1>1, Invariance, PTL

\* Every stored pair is the conversion of one amount at one rate, however the
\* writes of different processes fall between each other.
THEOREM PairsAreNotTorn == Spec => []NoTornPair
<1>1. IInv => NoTornPair
  BY DEF IInv, RowsOK, SoundRow, SoundPair, Whole, NoTornPair, Priced
<1> QED
  BY <1>1, Invariance, PTL


-----------------------------------------------------------------------------
(* Who moves *)

StepOf(p) ==
    \/ Edit(p) \/ EditSpecial(p) \/ Flush(p) \/ Delete(p)
    \/ Baseline(p) \/ UpdateRate(p) \/ RecalculateVat(p)
    \/ IntegrityError(p) \/ Crash(p)

TaskLabels == {"vat_rows", "vat_write", "vat_log", "base_read", "base_rows", "base_commit"}

\* A step of one process is not a step of another.
LEMMA OneMoves ==
    ASSUME IInv, NEW p \in Procs, StepOf(p), NEW q \in Procs, q # p
    PROVE  pc'[q] = pc[q]
<1> SUFFICES (\E label : pc' = [pc EXCEPT ![p] = label]) \/ pc' = pc
  BY DEF IInv
<1>1. CASE Edit(p) \/ EditSpecial(p)
  BY <1>1 DEF Edit, EditSpecial, EditBegin, EditReadRows, EditCommit, SpecialBegin, SpecialWrite,
              SpecialLog, Finish, Goto
<1>2. CASE Flush(p) \/ Delete(p)
  BY <1>2 DEF Flush, Delete, FlushRead, FlushCommit, DeleteRead, DeleteCommit, ScopedRead, Finish, Goto
<1>3. CASE Baseline(p) \/ UpdateRate(p)
  BY <1>3 DEF Baseline, UpdateRate, SaveCost, BaseRead, BaseReadRows, BaseCommit, RateSave, RateDelay,
              Finish, Goto
<1>4. CASE RecalculateVat(p)
  BY <1>4 DEF RecalculateVat, VatBegin, VatReadRows, VatWrite, VatLog, Finish, Goto
<1>5. CASE IntegrityError(p) \/ Crash(p)
  BY <1>5 DEF IntegrityError, Crash, Finish, Goto
<1> QED
  BY <1>1, <1>2, <1>3, <1>4, <1>5 DEF StepOf

\* A process that moves on took a step of its own.
LEMMA MoverSteps ==
    ASSUME IInv, [Next]_vars, NEW p \in Procs, pc'[p] # pc[p]
    PROVE  StepOf(p)
<1>1. ASSUME NEW q \in Procs, StepOf(q) PROVE StepOf(p)
  BY <1>1, OneMoves
<1>2. ~RemoveTombstone /\ ~(UNCHANGED vars)
  BY DEF RemoveTombstone, vars
<1>3. \A c \in Country : ~RateCreate(c) /\ ~RateDestroy(c) /\ ~OnceExpires(c)
  BY DEF RateCreate, RateDestroy, OnceExpires
<1> QED
  BY <1>1, <1>2, <1>3 DEF Next, StepOf

\* What a process in the middle of a recalculation may do next.
LEMMA TaskSteps ==
    ASSUME NEW p \in Procs, pc[p] \in TaskLabels, StepOf(p)
    PROVE  \/ VatReadRows(p) \/ VatWrite(p) \/ VatLog(p)
           \/ BaseRead(p) \/ BaseReadRows(p) \/ BaseCommit(p)
           \/ IntegrityError(p) \/ Crash(p)
<1>1. ~Edit(p)
  BY DEF TaskLabels, Edit, EditBegin, EditReadRows, EditCommit
<1>2. ~EditSpecial(p)
  BY DEF TaskLabels, EditSpecial, SpecialBegin, SpecialWrite, SpecialLog
<1>3. ~Flush(p) /\ ~Delete(p)
  BY DEF TaskLabels, Flush, Delete, FlushRead, FlushCommit, DeleteRead, DeleteCommit, ScopedRead
<1>4. ~UpdateRate(p) /\ ~SaveCost(p) /\ ~VatBegin(p)
  BY DEF TaskLabels, UpdateRate, RateSave, RateDelay, SaveCost, VatBegin
<1> QED
  BY <1>1, <1>2, <1>3, <1>4 DEF StepOf, Baseline, RecalculateVat

-----------------------------------------------------------------------------
(* What a recalculation leaves alone *)

\* The special price of a row that exists when a baseline recalculation commits
\* stays what it is: the update writes the regular price only, and an insert
\* that meets a row fails.
THEOREM BaselineKeepsPromos == Spec => PromoSurvivesBaseline
<1>1. ASSUME IInv, [Next]_vars, NEW p \in Procs, pc[p] = "base_commit", pc'[p] = "idle",
             NEW m \in Priced, rows'[m] # Null
      PROVE  rows'[m].special = rows[m].special
  <2>1. StepOf(p)
    BY <1>1, MoverSteps
  <2>2. BaseCommit(p) \/ IntegrityError(p) \/ Crash(p)
    BY <1>1, <2>1, TaskSteps DEF TaskLabels, VatReadRows, VatWrite, VatLog, BaseRead, BaseReadRows
  <2>3. CASE BaseCommit(p)
    <3>1. m \in Market /\ rows[m] \in Row
      BY <1>1 DEF Priced, IInv, RowsOK
    <3>2. m \notin BaseCreated(local[p])
      BY <2>3 DEF BaseCommit
    <3>3. \/ rows'[m] = rows[m]
          \/ rows'[m] = BaseUpdated(rows[m], BaseDecision(local[p], m))
      BY <2>3, <3>1, <3>2 DEF BaseCommit
    <3> QED
      BY <3>1, <3>3 DEF BaseUpdated, Row
  <2>4. CASE IntegrityError(p) \/ Crash(p)
    BY <2>4 DEF IntegrityError, Crash
  <2> QED
    BY <2>2, <2>3, <2>4
<1>2. IInv /\ [Next]_vars =>
        [\A p \in Procs : pc[p] = "base_commit" /\ pc'[p] = "idle" =>
            \A m \in Priced : rows'[m] # Null => rows'[m].special = rows[m].special]_vars
  BY <1>1
<1> QED
  BY <1>2, Invariance, PTL DEF Spec, PromoSurvivesBaseline

\* A process that works for a task is in the middle of the recalculation, with
\* nothing but the task's country in its scope.
ScopeInv ==
    \A p \in Procs : local[p].task # Null =>
        pc[p] \in TaskLabels /\ local[p].scope \subseteq {local[p].task}

\* Steps that give no process another task or scope.
LEMMA ScopeKept ==
    ASSUME ScopeInv,
           \A q \in Procs : local'[q].task # Null =>
                /\ local'[q].task = local[q].task /\ local'[q].scope = local[q].scope
                /\ pc'[q] = pc[q] \/ pc'[q] \in TaskLabels
    PROVE  ScopeInv'
  BY DEF ScopeInv

\* A step of a process that leaves it without a task.
LEMMA ScopeDropped ==
    ASSUME IInv, ScopeInv, NEW p \in Procs, StepOf(p), NEW l, l.task = Null,
           local' = [local EXCEPT ![p] = l]
    PROVE  ScopeInv'
<1>1. ASSUME NEW q \in Procs, q # p PROVE local'[q] = local[q] /\ pc'[q] = pc[q]
  BY <1>1, OneMoves DEF IInv
<1>2. local'[p].task = Null
  BY DEF IInv
<1> QED
  BY <1>1, <1>2, ScopeKept

\* A step of a process that is running no task leaves it without one, if it only
\* adds to what the process has read.
LEMMA ScopeNotMine ==
    ASSUME IInv, ScopeInv, NEW p \in Procs, StepOf(p), pc[p] \notin TaskLabels,
           \A q \in Procs : local'[q].task = local[q].task /\ local'[q].scope = local[q].scope
    PROVE  ScopeInv'
<1>1. local'[p].task = Null
  BY DEF ScopeInv
<1>2. \A q \in Procs : q # p => pc'[q] = pc[q]
  BY OneMoves
<1> QED
  BY <1>1, <1>2, ScopeKept

\* Every step of a process keeps the scopes within the tasks' countries.
LEMMA StepsKeepScope ==
    ASSUME IInv, ScopeInv, NEW p \in Procs, StepOf(p)
    PROVE  ScopeInv'
<1>0. local \in [Procs -> Local] /\ Blank.task = Null
  BY DEF IInv, Blank
<1>1. CASE pc[p] \in TaskLabels
  <2>1. ASSUME NEW q \in Procs, q # p PROVE pc'[q] = pc[q]
    BY <2>1, OneMoves
  <2>2. CASE VatReadRows(p) /\ ~Finish(p)
    <3>1. \A q \in Procs : local'[q].task = local[q].task /\ local'[q].scope = local[q].scope
      <4> DEFINE ms == (local[p].scope \X Currency) \cap Priced
      <4>1. local' = [local EXCEPT ![p].seen = RowsIn(ms), ![p].live = ms, ![p].floors = Floors]
        BY <2>2 DEF VatReadRows
      <4> HIDE DEF ms
      <4> QED
        BY <1>0, <4>1 DEF Local
    <3>2. pc'[p] \in TaskLabels
      BY <2>2 DEF VatReadRows, Goto, IInv, TaskLabels
    <3> QED
      BY <2>1, <3>1, <3>2, ScopeKept
  <2>3. CASE VatWrite(p)
    <3>1. pc'[p] \in TaskLabels /\ local' = local
      BY <2>3 DEF VatWrite, Goto, IInv, TaskLabels
    <3> QED
      BY <2>1, <3>1, ScopeKept
  <2>4. CASE VatLog(p)
    <3>1. RerunScope(local[p]) \subseteq local[p].scope
      <4>1. Held(pc[p], local[p]) /\ pc[p] = "vat_log"
        BY <2>4 DEF VatLog, IInv, ProcOK
      <4> QED
        BY <4>1 DEF Held, RerunScope, VatApplied
    <3>2. PICK l : /\ l.task = local[p].task /\ l.scope = RerunScope(local[p])
                   /\ local' = [local EXCEPT ![p] = l]
      BY <2>4 DEF VatLog, Blank
    <3>3. pc'[p] \in TaskLabels
      BY <2>4 DEF VatLog, Goto, IInv, TaskLabels
    <3> QED
      BY <1>0, <2>1, <3>1, <3>2, <3>3 DEF ScopeInv
  <2>5. CASE BaseRead(p) /\ ~Finish(p)
    <3>1. PICK l : /\ l.task = local[p].task /\ l.scope = local[p].scope
                   /\ local' = [local EXCEPT ![p] = l]
      BY <2>5 DEF BaseRead, Blank
    <3>2. pc'[p] \in TaskLabels
      BY <2>5 DEF BaseRead, Goto, IInv, TaskLabels
    <3> QED
      BY <1>0, <2>1, <3>1, <3>2, ScopeKept
  <2>6. CASE BaseReadRows(p)
    <3>1. \A q \in Procs : local'[q].task = local[q].task /\ local'[q].scope = local[q].scope
      BY <1>0, <2>6 DEF BaseReadRows, Local
    <3>2. pc'[p] \in TaskLabels
      BY <2>6 DEF BaseReadRows, Goto, IInv, TaskLabels
    <3> QED
      BY <2>1, <3>1, <3>2, ScopeKept
  <2>7. CASE BaseCommit(p) \/ IntegrityError(p) \/ Crash(p) \/ Finish(p)
    <3>1. local' = [local EXCEPT ![p] = Blank]
      BY <2>7 DEF BaseCommit, IntegrityError, Crash, Finish
    <3> QED
      BY <1>0, <3>1, ScopeDropped
  <2> QED
    BY <1>1, <2>2, <2>3, <2>4, <2>5, <2>6, <2>7, TaskSteps
<1>2. CASE pc[p] \notin TaskLabels
  <2>1. CASE EditReadRows(p)
    <3>1. \A q \in Procs : local'[q].task = local[q].task /\ local'[q].scope = local[q].scope
      BY <1>0, <2>1 DEF EditReadRows, Local
    <3> QED
      BY <1>2, <3>1, ScopeNotMine
  <2>2. CASE SpecialWrite(p)
    BY <1>2, <2>2, ScopeNotMine DEF SpecialWrite
  <2>3. CASE DeleteCommit(p)
    <3>1. ASSUME NEW q \in Procs, q # p
          PROVE  /\ local'[q].task = local[q].task /\ local'[q].scope = local[q].scope
                 /\ pc'[q] = pc[q]
      <4>1. local[q] \in Local /\ pc'[q] = pc[q]
        BY <1>0, <3>1, OneMoves
      <4>2. local'[q] = [local[q] EXCEPT !.live = @ \ local[p].live]
        BY <2>3, <3>1 DEF DeleteCommit
      <4> QED
        BY <4>1, <4>2 DEF Local
    <3>2. local'[p].task = Null
      BY <1>0, <2>3 DEF DeleteCommit
    <3> QED
      BY <3>1, <3>2, ScopeKept
  <2>4. CASE VatBegin(p)
    <3>1. CASE UNCHANGED <<pc, local>>
      BY <3>1, ScopeKept
    <3>2. CASE ~UNCHANGED <<pc, local>>
      <4>1. PICK c : local' = [local EXCEPT ![p] = [Blank EXCEPT
                        !.rates = [Blank.rates EXCEPT ![c] = rate[c]], !.scope = {c}, !.task = c]]
        BY <2>4, <3>2 DEF VatBegin
      <4>2. local'[p].task = c /\ local'[p].scope = {c}
        BY <1>0, <4>1 DEF Blank
      <4>3. pc'[p] \in TaskLabels
        BY <2>4, <3>2 DEF VatBegin, Goto, IInv, TaskLabels
      <4>4. \A q \in Procs : q # p => local'[q] = local[q] /\ pc'[q] = pc[q]
        BY <1>0, <4>1, OneMoves
      <4> QED
        BY <4>2, <4>3, <4>4 DEF ScopeInv
    <3> QED
      BY <3>1, <3>2
  <2>5. CASE EditBegin(p) \/ SaveCost(p) \/ RateSave(p) \/ RateDelay(p)
    <3>1. PICK l : l.task = Null /\ local' = [local EXCEPT ![p] = l]
      BY <2>5 DEF EditBegin, SaveCost, RateSave, RateDelay, Blank
    <3> QED
      BY <3>1, ScopeDropped
  <2>6. CASE SpecialBegin(p) \/ FlushRead(p) \/ DeleteRead(p)
    <3>1. PICK l : l.task = Null /\ local' = [local EXCEPT ![p] = l]
      BY <2>6 DEF SpecialBegin, FlushRead, DeleteRead, ScopedRead, Blank
    <3> QED
      BY <3>1, ScopeDropped
  <2>7. CASE EditCommit(p) \/ SpecialLog(p) \/ FlushCommit(p) \/ IntegrityError(p) \/ Crash(p)
    <3>1. local' = [local EXCEPT ![p] = Blank]
      BY <2>7 DEF EditCommit, SpecialLog, FlushCommit, IntegrityError, Crash, Finish
    <3> QED
      BY <1>0, <3>1, ScopeDropped
  <2>8. ~BaseRead(p) /\ ~BaseReadRows(p) /\ ~BaseCommit(p) /\ ~VatReadRows(p) /\ ~VatWrite(p) /\ ~VatLog(p)
    BY <1>2 DEF TaskLabels, BaseRead, BaseReadRows, BaseCommit, VatReadRows, VatWrite, VatLog
  <2> QED
    BY <2>1, <2>2, <2>3, <2>4, <2>5, <2>6, <2>7, <2>8
       DEF StepOf, Edit, EditSpecial, Flush, Delete, Baseline, UpdateRate, RecalculateVat
<1> QED
  BY <1>1, <1>2

\* So does every other step.
LEMMA NextScopeInv == IInv /\ ScopeInv /\ [Next]_vars => ScopeInv'
<1> SUFFICES ASSUME IInv, ScopeInv, [Next]_vars PROVE ScopeInv'
  OBVIOUS
<1>1. ASSUME NEW p \in Procs, StepOf(p) PROVE ScopeInv'
  BY <1>1, StepsKeepScope
<1>2. CASE RemoveTombstone \/ UNCHANGED vars
  BY <1>2, ScopeKept DEF RemoveTombstone, vars
<1>3. ASSUME NEW c \in Country, RateCreate(c) \/ OnceExpires(c) PROVE ScopeInv'
  BY <1>3, ScopeKept DEF RateCreate, OnceExpires
<1>4. ASSUME NEW c \in Country, RateDestroy(c) PROVE ScopeInv'
  <2>1. ASSUME NEW q \in Procs
        PROVE  local'[q].task = local[q].task /\ local'[q].scope = local[q].scope
    <3>1. local[q] \in Local
      BY DEF IInv
    <3> QED
      BY <1>4, <3>1 DEF RateDestroy, Local
  <2> QED
    BY <1>4, <2>1, ScopeKept DEF RateDestroy
<1> QED
  BY <1>1, <1>2, <1>3, <1>4 DEF Next, StepOf

\* A recalculation for one country, and the baseline re-run after it, change no
\* price of another country.
THEOREM RecalculationIsLocal == Spec => RecalculationStaysInCountry
<1>1. ASSUME IInv, ScopeInv, [Next]_vars, NEW p \in Procs, local[p].task # Null, pc'[p] # pc[p],
             NEW m \in Market, m[1] # local[p].task
      PROVE  rows'[m] = rows[m]
  <2>1. pc[p] \in TaskLabels /\ local[p].scope \subseteq {local[p].task}
    BY <1>1 DEF ScopeInv
  <2>2. StepOf(p)
    BY <1>1, MoverSteps
  <2>3. m[1] \notin local[p].scope
    BY <1>1, <2>1
  <2>4. CASE VatWrite(p)
    <3>1. Held("vat_write", local[p])
      BY <1>1, <2>4 DEF VatWrite, IInv, ProcOK
    <3>2. m \notin VatApplied(local[p])
      BY <2>3, <3>1 DEF Held, VatApplied
    <3> QED
      BY <1>1, <2>4, <3>2 DEF VatWrite
  <2>5. CASE BaseCommit(p)
    <3>1. m \notin BaseApplied(local[p])
      BY <2>3 DEF BaseApplied, BaseTargets
    <3>2. m \notin BaseCreated(local[p])
      BY <3>1 DEF BaseCreated
    <3> QED
      BY <1>1, <2>5, <3>1, <3>2 DEF BaseCommit
  <2>6. CASE VatReadRows(p) \/ VatLog(p) \/ BaseRead(p) \/ BaseReadRows(p) \/ IntegrityError(p) \/ Crash(p)
    BY <2>6 DEF VatReadRows, VatLog, BaseRead, BaseReadRows, IntegrityError, Crash
  <2> QED
    BY <2>1, <2>2, <2>4, <2>5, <2>6, TaskSteps
<1>2. IInv /\ ScopeInv /\ [Next]_vars =>
        [\A p \in Procs : local[p].task # Null /\ pc'[p] # pc[p] =>
            \A m \in Market : m[1] # local[p].task => rows'[m] = rows[m]]_vars
  BY <1>1
<1>3. Init => ScopeInv
  BY DEF Init, ScopeInv, Blank
<1> QED
  BY <1>2, <1>3, NextScopeInv, Invariance, PTL DEF Spec, RecalculationStaysInCountry

-----------------------------------------------------------------------------
(* The lock is held while a task waits or runs *)

\* A step that neither sends nor takes a task ends its call, giving back the lock,
\* or keeps its task.
LEMMA TaskFate ==
    ASSUME IInv, ScopeInv, ~MayCrash, NEW p \in Procs, StepOf(p), ~RateDelay(p), ~VatBegin(p)
    PROVE  UNCHANGED queued /\ (Finish(p) \/ (UNCHANGED once /\ local'[p].task = local[p].task))
<1>0. /\ local[p] \in Local /\ local \in [Procs -> Local]
      /\ pc[p] \notin TaskLabels => local[p].task = Null
      /\ Blank.task = Null
  BY DEF IInv, ScopeInv, Blank
<1>1. CASE Edit(p)
  <2>1. CASE EditBegin(p)
    <3>1. PICK l : l.task = Null /\ local' = [local EXCEPT ![p] = l]
      BY <2>1 DEF EditBegin, Blank
    <3> QED
      BY <1>0, <2>1, <3>1 DEF EditBegin, TaskLabels
  <2>2. CASE EditReadRows(p)
    BY <1>0, <2>2 DEF EditReadRows, Local
  <2> QED
    BY <1>1, <2>1, <2>2 DEF Edit, EditCommit
<1>2. CASE EditSpecial(p)
  <2>1. CASE SpecialBegin(p)
    <3>1. PICK l : l.task = Null /\ local' = [local EXCEPT ![p] = l]
      BY <2>1 DEF SpecialBegin, Blank
    <3> QED
      BY <1>0, <2>1, <3>1 DEF SpecialBegin, TaskLabels
  <2> QED
    BY <1>2, <2>1 DEF EditSpecial, SpecialWrite, SpecialLog
<1>3. CASE Flush(p) \/ Delete(p)
  <2>1. ASSUME NEW label, ScopedRead(p, label) PROVE UNCHANGED <<queued, once>> /\ local'[p].task = local[p].task
    <3>1. PICK l : l.task = Null /\ local' = [local EXCEPT ![p] = l]
      BY <2>1 DEF ScopedRead, Blank
    <3> QED
      BY <1>0, <2>1, <3>1 DEF ScopedRead, TaskLabels
  <2>2. CASE DeleteCommit(p)
    <3>1. local'[p] = Blank
      BY <2>2 DEF DeleteCommit
    <3> QED
      BY <1>0, <2>2, <3>1 DEF DeleteCommit, TaskLabels
  <2> QED
    BY <1>3, <2>1, <2>2 DEF Flush, Delete, FlushRead, DeleteRead, FlushCommit
<1>4. CASE Baseline(p)
  <2>1. CASE SaveCost(p)
    <3>1. PICK l : l.task = Null /\ local' = [local EXCEPT ![p] = l]
      BY <2>1 DEF SaveCost, Blank
    <3> QED
      BY <1>0, <2>1, <3>1 DEF SaveCost, TaskLabels
  <2>2. CASE BaseRead(p)
    <3>1. CASE ~Finish(p)
      <4>1. PICK l : l.task = local[p].task /\ local' = [local EXCEPT ![p] = l]
        BY <2>2, <3>1 DEF BaseRead, Blank
      <4> QED
        BY <1>0, <2>2, <3>1, <4>1 DEF BaseRead
    <3> QED
      BY <2>2, <3>1 DEF BaseRead
  <2>3. CASE BaseReadRows(p)
    <3> DEFINE ms == local[p].scope \X {CostCurrency}
               l == [local[p] EXCEPT !.rates = rate, !.floors = Floors,
                                     !.sources = SourcesIn(ms), !.live = ms \cap Priced]
    <3>1. l.task = local[p].task
      BY <1>0 DEF Local
    <3>2. local' = [local EXCEPT ![p] = l]
      BY <1>0, <2>3 DEF BaseReadRows
    <3> HIDE DEF l
    <3> QED
      BY <1>0, <2>3, <3>1, <3>2 DEF BaseReadRows
  <2> QED
    BY <1>4, <2>1, <2>2, <2>3 DEF Baseline, BaseCommit
<1>5. CASE UpdateRate(p)
  <2>1. RateSave(p)
    BY <1>5 DEF UpdateRate
  <2>2. PICK l : l.task = Null /\ local' = [local EXCEPT ![p] = l]
    BY <2>1 DEF RateSave, Blank
  <2> QED
    BY <1>0, <2>1, <2>2 DEF RateSave, TaskLabels
<1>6. CASE RecalculateVat(p)
  <2>1. CASE VatReadRows(p)
    <3>1. CASE ~Finish(p)
      <4> DEFINE ms == (local[p].scope \X Currency) \cap Priced
                 l == [local[p] EXCEPT !.seen = RowsIn(ms), !.live = ms, !.floors = Floors]
      <4>1. l.task = local[p].task
        BY <1>0 DEF Local
      <4>2. local' = [local EXCEPT ![p] = l]
        BY <1>0, <2>1, <3>1 DEF VatReadRows
      <4> HIDE DEF l
      <4> QED
        BY <1>0, <2>1, <3>1, <4>1, <4>2 DEF VatReadRows
    <3> QED
      BY <2>1, <3>1 DEF VatReadRows
  <2>2. CASE VatLog(p)
    <3>1. PICK l : l.task = local[p].task /\ local' = [local EXCEPT ![p] = l]
      BY <2>2 DEF VatLog, Blank
    <3> QED
      BY <1>0, <2>2, <3>1 DEF VatLog
  <2> QED
    BY <1>6, <2>1, <2>2 DEF RecalculateVat, VatWrite
<1>7. CASE IntegrityError(p) \/ Crash(p)
  BY <1>7 DEF IntegrityError, Crash
<1> QED
  BY <1>1, <1>2, <1>3, <1>4, <1>5, <1>6, <1>7 DEF StepOf

\* Nor does it touch the tasks of other processes.
LEMMA OtherTasks ==
    ASSUME IInv, NEW p \in Procs, StepOf(p), NEW q \in Procs, q # p
    PROVE  local'[q].task = local[q].task
<1>1. CASE DeleteCommit(p)
  <2>1. local'[q] = [local[q] EXCEPT !.live = @ \ local[p].live]
    BY <1>1 DEF DeleteCommit
  <2> QED
    BY <2>1 DEF IInv, Local
<1>2. CASE ~DeleteCommit(p)
  <2> SUFFICES (\E l : local' = [local EXCEPT ![p] = l]) \/ local' = local
    BY DEF IInv
  <2>1. CASE Edit(p)
    <3>1. CASE EditReadRows(p)
      <4>1. PICK a, b : local' = [local EXCEPT ![p].sources = a, ![p].fallback = b]
        BY <3>1 DEF EditReadRows
      <4> QED
        BY <4>1 DEF IInv
    <3> QED
      BY <2>1, <3>1 DEF Edit, EditBegin, EditCommit, Finish
  <2>2. CASE EditSpecial(p)
    BY <2>2 DEF EditSpecial, SpecialBegin, SpecialWrite, SpecialLog, Finish
  <2>3. CASE Flush(p) \/ Delete(p)
    BY <1>2, <2>3 DEF Flush, Delete, FlushRead, FlushCommit, DeleteRead, ScopedRead, Finish
  <2>4. CASE Baseline(p)
    BY <2>4 DEF Baseline, SaveCost, BaseRead, BaseReadRows, BaseCommit, Finish, IInv
  <2>5. CASE UpdateRate(p)
    BY <2>5 DEF UpdateRate, RateSave, RateDelay
  <2>6. CASE RecalculateVat(p)
    <3>1. CASE VatReadRows(p)
      <4> DEFINE ms == (local[p].scope \X Currency) \cap Priced
      <4>1. \/ Finish(p)
            \/ local' = [local EXCEPT ![p].seen = RowsIn(ms), ![p].live = ms, ![p].floors = Floors]
        BY <3>1 DEF VatReadRows
      <4> QED
        BY <4>1 DEF Finish, IInv
    <3>2. CASE VatBegin(p)
      BY <3>2 DEF VatBegin
    <3> QED
      BY <2>6, <3>1, <3>2 DEF RecalculateVat, VatWrite, VatLog
  <2>7. CASE IntegrityError(p) \/ Crash(p)
    BY <2>7 DEF IntegrityError, Crash, Finish
  <2> QED
    BY <2>1, <2>2, <2>3, <2>4, <2>5, <2>6, <2>7 DEF StepOf
<1> QED
  BY <1>1, <1>2

\* A step of a process leaves no lock behind.
LEMMA StepUsesLock ==
    ASSUME IInv, ScopeInv, ~MayCrash, LocksAreInUse, NEW p \in Procs, StepOf(p)
    PROVE  LocksAreInUse'
<1>1. \A q \in Procs : q # p => local'[q].task = local[q].task
  BY OtherTasks
<1>2. \A c \in once : c # Null
  BY NullIsNoName DEF IInv, StoreOK
<1>3. CASE RateDelay(p)
  <2>1. local[p].task = Null
    BY <1>3 DEF ScopeInv, RateDelay, TaskLabels
  <2>2. ASSUME NEW c \in once' PROVE c \in queued' \/ \E q \in Procs : local'[q].task = c
    <3>1. CASE c \in once
      BY <1>1, <1>2, <1>3, <2>1, <3>1 DEF LocksAreInUse, RateDelay
    <3>2. CASE c \notin once
      BY <1>3, <2>2, <3>2 DEF RateDelay
    <3> QED
      BY <3>1, <3>2
  <2> QED
    BY <2>2 DEF LocksAreInUse
<1>4. CASE VatBegin(p)
  <2>1. local[p].task = Null
    BY <1>4 DEF ScopeInv, VatBegin, TaskLabels
  <2>2. PICK c \in queued :
            /\ queued' = queued \ {c}
            /\ \/ once' = once \ {c} /\ UNCHANGED local
               \/ /\ UNCHANGED once
                  /\ local' = [local EXCEPT ![p] = [Blank EXCEPT
                            !.rates = [Blank.rates EXCEPT ![c] = rate[c]], !.scope = {c}, !.task = c]]
    BY <1>4 DEF VatBegin
  <2>3. CASE once' = once \ {c} /\ UNCHANGED local
    BY <2>2, <2>3 DEF LocksAreInUse
  <2>4. CASE /\ UNCHANGED once
             /\ local' = [local EXCEPT ![p] = [Blank EXCEPT
                            !.rates = [Blank.rates EXCEPT ![c] = rate[c]], !.scope = {c}, !.task = c]]
    <3>1. local'[p].task = c
      BY <2>4 DEF IInv, Blank
    <3>2. ASSUME NEW d \in once', d # c PROVE d \in queued' \/ \E q \in Procs : local'[q].task = d
      BY <1>1, <1>2, <2>1, <2>2, <2>4, <3>2 DEF LocksAreInUse
    <3> QED
      BY <3>1, <3>2 DEF LocksAreInUse
  <2> QED
    BY <2>2, <2>3, <2>4
<1>5. CASE ~RateDelay(p) /\ ~VatBegin(p)
  <2>1. CASE Finish(p) /\ UNCHANGED queued
    <3>1. once' = once \ {local[p].task}
      BY <2>1 DEF Finish
    <3> QED
      BY <1>1, <2>1, <3>1 DEF LocksAreInUse
  <2>2. CASE UNCHANGED <<queued, once>> /\ local'[p].task = local[p].task
    BY <1>1, <2>2 DEF LocksAreInUse
  <2> QED
    BY <1>5, <2>1, <2>2, TaskFate
<1> QED
  BY <1>3, <1>4, <1>5

\* Neither does any other step.
LEMMA NextLocksAreInUse ==
    IInv /\ ScopeInv /\ ~MayCrash /\ LocksAreInUse /\ [Next]_vars => LocksAreInUse'
<1> SUFFICES ASSUME IInv, ScopeInv, ~MayCrash, LocksAreInUse, [Next]_vars PROVE LocksAreInUse'
  OBVIOUS
<1>1. CASE \E p \in Procs : StepOf(p)
  BY <1>1, StepUsesLock
<1>2. ASSUME NEW c \in Country, RateDestroy(c) PROVE LocksAreInUse'
  <2>1. ASSUME NEW q \in Procs PROVE local'[q].task = local[q].task
    <3>1. local'[q] = local[q] \/ local'[q] = [local[q] EXCEPT !.lost = @ \cup {c}]
      BY <1>2 DEF RateDestroy
    <3> QED
      BY <3>1 DEF IInv, Local
  <2> QED
    BY <1>2, <2>1 DEF RateDestroy, LocksAreInUse
<1>3. ASSUME NEW c \in Country, RateCreate(c) \/ OnceExpires(c) PROVE LocksAreInUse'
  BY <1>3 DEF RateCreate, OnceExpires, LocksAreInUse
<1>4. CASE RemoveTombstone \/ UNCHANGED vars
  BY <1>4 DEF RemoveTombstone, vars, LocksAreInUse
<1> QED
  BY <1>1, <1>2, <1>3, <1>4 DEF Next, StepOf

\* If no process is killed, a lock is held only while a recalculation of its country
\* waits or runs: whenever locks expire, whichever of two recalculations gives one
\* back, and whatever makes a recalculation fail.  A rate change is never refused for
\* the sake of a task that is no longer there.
THEOREM LocksServeTasks ==
    ASSUME ~MayCrash
    PROVE  Spec => []LocksAreInUse
<1>1. Init => ScopeInv /\ LocksAreInUse
  BY DEF Init, ScopeInv, LocksAreInUse, Blank
<1>2. IInv /\ ScopeInv /\ [Next]_vars => ScopeInv'
  BY NextScopeInv
<1>3. IInv /\ ScopeInv /\ LocksAreInUse /\ [Next]_vars => LocksAreInUse'
  BY NextLocksAreInUse
<1> QED
  BY <1>1, <1>2, <1>3, Invariance, PTL DEF Spec

-----------------------------------------------------------------------------
(* One process: calls that do not overlap *)

\* There is one process: a call begins when the one before it has ended.
OneProcess == \A p, q \in Procs : p = q

\* Only the baseline recalculation writes baseline prices, and only a pricefighter
\* has its name stored: the revert-to-baseline of a pricefighter (write-guard.md:16),
\* which no code here calls, stores any amount under the baseline's label.
OwnLabels ==
    "baseline" \notin EditSources \cup StoredSources /\ "pricefighter" \notin StoredSources

-----------------------------------------------------------------------------
(* What the process has read *)

SourceOf(rs, m) == IF rs[m] = Null THEN Null ELSE rs[m].source

\* The rows that were read are there, with the regular price and the label they had.
Following(l, rs) ==
    \A m \in Market : l.seen[m] # Null =>
        /\ m \in l.live /\ rs[m] # Null
        /\ rs[m].source = l.seen[m].source /\ rs[m].regular = l.seen[m].regular

SeenLabels == {"special_write", "special_log", "flush_commit", "delete_commit", "vat_write"}

\* What the process is about to use is what the tables have, and nothing that it
\* is about to treat has escaped it.
UpToDate(label, l, rs, paid, gone) ==
    /\ label \in {"base_rows", "base_commit"} => ~gone /\ paid # Null /\ l.cost = paid
    /\ label \in {"edit_rows", "edit_commit"} =>
        l.req.source \in EditSources /\ l.req.stored \in StoredSources \cup {Null}
    /\ label = "edit_commit" => \A m \in Market : l.sources[m] = SourceOf(rs, m)
    /\ label = "base_commit" =>
        \A m \in Market : m[1] \in l.scope /\ m[2] = CostCurrency =>
            l.sources[m] = SourceOf(rs, m) /\ (rs[m] # Null => m \in l.live)
    /\ label \in SeenLabels => Following(l, rs)
    /\ label = "delete_commit" /\ l.req.currency = Null =>
        \A m \in Market : rs[m] # Null => m \in l.live
    /\ label = "vat_write" => \A m \in Market : rs[m] # Null /\ m[1] \in l.scope => l.seen[m] # Null
    /\ label = "vat_log" =>
        /\ \A m \in Market : rs[m] # Null /\ m[1] \in l.scope => m \in VatApplied(l)
        /\ \A m \in VatApplied(l) :
                rs[m] # Null /\ rs[m].regular = VatDecision(l, m).values["regular"]

Reading == \A p \in Procs : UpToDate(pc[p], local[p], rows, cost, tombstone)

\* A step after which the process has what it is about to use.
LEMMA ReadingKept ==
    ASSUME IInv, OneProcess, NEW p \in Procs, NEW label, NEW l,
           pc' = [pc EXCEPT ![p] = label], local' = [local EXCEPT ![p] = l],
           UpToDate(label, l, rows', cost', tombstone')
    PROVE  Reading'
<1>1. \A q \in Procs : q = p /\ pc'[q] = label /\ local'[q] = l
  BY DEF OneProcess, IInv
<1> QED
  BY <1>1 DEF Reading

\* A process at rest is about to use nothing.
LEMMA ReadingNothing ==
    ASSUME NEW label \in {"idle", "rate_delay", "base_read", "vat_rows"},
           NEW l, NEW rs, NEW paid, NEW gone
    PROVE  UpToDate(label, l, rs, paid, gone)
  BY DEF UpToDate, SeenLabels

LEMMA ReadingFinished ==
    ASSUME IInv, OneProcess, NEW p \in Procs, Finish(p)
    PROVE  Reading'
  BY ReadingNothing, ReadingKept DEF Finish, Goto

\* A recalculation is never refused: every row it has read is recalculated.
LEMMA MandatoryWrite ==
    ASSUME NEW l, NEW m \in Market, l.seen[m] # Null
    PROVE  m \in VatApplied(l)
<1>1. VatDecision(l, m).status # "skipped"
  BY VatIsMandatory DEF VatDecision
<1> QED
  BY <1>1 DEF VatApplied

\* The rows of `ms`, as they are read, are the table's.
LEMMA RowsFollow ==
    ASSUME IInv, NEW ms \in SUBSET Market, NEW l,
           l.seen = RowsIn(ms), ms \cap Priced \subseteq l.live
    PROVE  Following(l, rows)
<1>1. \A m \in Market : l.seen[m] # Null => m \in ms /\ l.seen[m] = rows[m]
  BY DEF RowsIn
<1> QED
  BY <1>1 DEF Following, Priced

-----------------------------------------------------------------------------
(* The steps of the process keep what it has read *)

LEMMA EditReading ==
    ASSUME IInv, OneProcess, Reading, NEW p \in Procs, Edit(p)
    PROVE  Reading'
<1>1. CASE EditBegin(p)
  <2>1. PICK req \in EditRequests :
            local' = [local EXCEPT ![p] = [Blank EXCEPT !.req = req, !.floors = Floors, !.rates = rate]]
    BY <1>1 DEF EditBegin
  <2> DEFINE l == [Blank EXCEPT !.req = req, !.floors = Floors, !.rates = rate]
  <2>2. l.req.source \in EditSources /\ l.req.stored \in StoredSources \cup {Null}
    BY DEF Blank, EditRequests
  <2>3. local' = [local EXCEPT ![p] = l] /\ pc' = [pc EXCEPT ![p] = "edit_rows"]
    BY <1>1, <2>1 DEF EditBegin, Goto
  <2> HIDE DEF l
  <2>4. UpToDate("edit_rows", l, rows', cost', tombstone')
    BY <2>2 DEF UpToDate, SeenLabels
  <2> QED
    BY <2>3, <2>4, ReadingKept
<1>2. CASE EditReadRows(p)
  <2>1. PICK fallback :
            local' = [local EXCEPT ![p].sources = SourcesIn(Market), ![p].fallback = fallback]
    BY <1>2 DEF EditReadRows
  <2> DEFINE l == [local[p] EXCEPT !.sources = SourcesIn(Market), !.fallback = fallback]
  <2>2. local' = [local EXCEPT ![p] = l] /\ l.sources = SourcesIn(Market) /\ l.req = local[p].req
    BY <2>1 DEF IInv, Local
  <2>3. \A m \in Market : l.sources[m] = SourceOf(rows, m)
    BY <2>2 DEF SourcesIn, Priced, SourceOf
  <2>4. UNCHANGED rows /\ pc' = [pc EXCEPT ![p] = "edit_commit"]
    BY <1>2 DEF EditReadRows, Goto
  <2> HIDE DEF l
  <2>5. l.req.source \in EditSources /\ l.req.stored \in StoredSources \cup {Null}
    BY <1>2, <2>2 DEF EditReadRows, Reading, UpToDate
  <2>6. UpToDate("edit_commit", l, rows', cost', tombstone')
    BY <2>3, <2>4, <2>5 DEF UpToDate, SeenLabels
  <2> QED
    BY <2>2, <2>4, <2>6, ReadingKept
<1>3. CASE EditCommit(p)
  BY <1>3, ReadingFinished DEF EditCommit
<1> QED
  BY <1>1, <1>2, <1>3 DEF Edit

\* An edit of the special price keeps the label it has read.
LEMMA SpecialKeepsLabel ==
    ASSUME NEW l \in Local, NEW m \in SpecialApplied(l)
    PROVE  SpecialDecision(l, m).source = l.seen[m].source
<1>1. m \in Market /\ l.seen[m] # Null /\ SpecialDecision(l, m).status # "skipped"
  BY DEF SpecialApplied
<1>2. l.seen[m].source # Null
  BY <1>1, SourceAssumption DEF Local, Row
<1> QED
  BY <1>1, <1>2, DecisionToWrite DEF SpecialDecision

LEMMA SpecialReading ==
    ASSUME IInv, OneProcess, Reading, NEW p \in Procs, EditSpecial(p)
    PROVE  Reading'
<1>1. CASE SpecialBegin(p)
  <2>1. PICK special \in SpecialAmounts \cup {Null}, cur \in Currency :
            local' = [local EXCEPT ![p] = [Blank EXCEPT
                        !.req = SpecialRequest(special, cur),
                        !.seen = RowsIn(InCurrency(cur) \cap Priced),
                        !.live = InCurrency(cur) \cap Priced, !.floors = Floors, !.rates = rate]]
    BY <1>1 DEF SpecialBegin
  <2> DEFINE ms == InCurrency(cur) \cap Priced
             l == [Blank EXCEPT !.req = SpecialRequest(special, cur), !.seen = RowsIn(ms),
                                !.live = ms, !.floors = Floors, !.rates = rate]
  <2>2. l.seen = RowsIn(ms) /\ l.live = ms /\ ms \subseteq Market
    BY DEF Blank, Priced
  <2>3. local' = [local EXCEPT ![p] = l]
    BY <2>1
  <2> HIDE DEF l
  <2>4. Following(l, rows)
    BY <2>2, RowsFollow
  <2>5. UNCHANGED rows /\ pc' = [pc EXCEPT ![p] = "special_write"]
    BY <1>1 DEF SpecialBegin, Goto
  <2>6. UpToDate("special_write", l, rows', cost', tombstone')
    BY <2>4, <2>5 DEF UpToDate
  <2> QED
    BY <2>3, <2>5, <2>6, ReadingKept
<1>2. CASE SpecialWrite(p)
  <2> DEFINE l == local[p]
  <2>1. l \in Local /\ pc[p] = "special_write" /\ Held("special_write", l)
    BY <1>2 DEF SpecialWrite, IInv, ProcOK
  <2>2. Following(l, rows)
    BY <1>2 DEF Reading, UpToDate, SeenLabels, SpecialWrite
  <2>3. ASSUME NEW m \in Market, l.seen[m] # Null
        PROVE  /\ m \in l.live /\ rows'[m] # Null
               /\ rows'[m].source = l.seen[m].source /\ rows'[m].regular = l.seen[m].regular
    <3>1. rows[m] \in Row
      BY <2>2, <2>3 DEF Following, IInv, RowsOK
    <3>2. CASE m \in SpecialApplied(l) \cap l.live
      <4>1. rows'[m] = [rows[m] EXCEPT !.special = SpecialDecision(l, m).values["special"],
                                       !.source = SpecialDecision(l, m).source]
        BY <1>2, <3>2 DEF SpecialWrite
      <4>2. SpecialDecision(l, m).source = l.seen[m].source
        BY <2>1, <3>2, SpecialKeepsLabel
      <4>3. /\ SpecialDecision(l, m).source \in PriceSource
            /\ SpecialDecision(l, m).values["special"] \in SpecialPair
        BY <2>1, <3>2, SpecialStores DEF SoundPair, Whole, SpecialPair
      <4>4. rows'[m] \in Row /\ rows'[m].regular = rows[m].regular
            /\ rows'[m].source = SpecialDecision(l, m).source
        BY <3>1, <4>1, <4>3 DEF Row
      <4> QED
        BY <2>2, <2>3, <4>2, <4>4, NullIsNoRow DEF Following
    <3>3. CASE m \notin SpecialApplied(l) \cap l.live
      BY <1>2, <2>2, <2>3, <3>3 DEF SpecialWrite, Following
    <3> QED
      BY <3>2, <3>3
  <2>4. pc' = [pc EXCEPT ![p] = "special_log"] /\ local' = [local EXCEPT ![p] = l]
    BY <1>2 DEF SpecialWrite, Goto, IInv
  <2> HIDE DEF l
  <2>5. UpToDate("special_log", l, rows', cost', tombstone')
    BY <2>3 DEF UpToDate, Following
  <2> QED
    BY <2>4, <2>5, ReadingKept
<1>3. CASE SpecialLog(p)
  BY <1>3, ReadingFinished DEF SpecialLog
<1> QED
  BY <1>1, <1>2, <1>3 DEF EditSpecial

LEMMA ScopedReading ==
    ASSUME IInv, OneProcess, NEW p \in Procs,
           NEW label \in {"flush_commit", "delete_commit"}, ScopedRead(p, label)
    PROVE  Reading'
<1>1. PICK cur \in Currency \cup {Null} :
          local' = [local EXCEPT ![p] = [Blank EXCEPT
                        !.req = ScopedRequest(cur), !.seen = RowsIn(InCurrency(cur) \cap Priced),
                        !.live = InCurrency(cur) \cap Priced, !.rates = rate]]
  BY DEF ScopedRead
<1> DEFINE ms == InCurrency(cur) \cap Priced
           l == [Blank EXCEPT !.req = ScopedRequest(cur), !.seen = RowsIn(ms), !.live = ms,
                            !.rates = rate]
<1>2. l.seen = RowsIn(ms) /\ l.live = ms /\ ms \subseteq Market /\ l.req.currency = cur
  BY DEF Blank, Priced, ScopedRequest, SpecialRequest
<1>3. local' = [local EXCEPT ![p] = l]
  BY <1>1
<1>4. cur = Null => \A m \in Market : rows[m] # Null => m \in l.live
  BY <1>2 DEF InCurrency, Priced
<1> HIDE DEF l
<1>5. Following(l, rows)
  BY <1>2, RowsFollow
<1>6. UNCHANGED rows /\ pc' = [pc EXCEPT ![p] = label]
  BY DEF ScopedRead, Goto
<1>7. UpToDate(label, l, rows', cost', tombstone')
  BY <1>2, <1>4, <1>5, <1>6 DEF UpToDate
<1> QED
  BY <1>3, <1>6, <1>7, ReadingKept

LEMMA RemovalReading ==
    ASSUME IInv, OneProcess, Reading, NEW p \in Procs, Flush(p) \/ Delete(p)
    PROVE  Reading'
<1>1. CASE FlushRead(p) \/ DeleteRead(p)
  BY <1>1, ScopedReading DEF FlushRead, DeleteRead
<1>2. CASE FlushCommit(p)
  BY <1>2, ReadingFinished DEF FlushCommit
<1>3. CASE DeleteCommit(p)
  <2>1. \A q \in Procs : pc'[q] = "idle" /\ local'[q] = Blank
    BY <1>3 DEF DeleteCommit, Goto, IInv, OneProcess
  <2> QED
    BY <2>1, ReadingNothing DEF Reading
<1> QED
  BY <1>1, <1>2, <1>3 DEF Flush, Delete

LEMMA BaselineReading ==
    ASSUME IInv, OneProcess, Reading, NEW p \in Procs, Baseline(p)
    PROVE  Reading'
<1>1. CASE SaveCost(p)
  <2>1. PICK l : local' = [local EXCEPT ![p] = l]
    BY <1>1 DEF SaveCost
  <2> QED
    BY <1>1, <2>1, ReadingNothing, ReadingKept DEF SaveCost, Goto
<1>2. CASE BaseRead(p)
  <2>1. CASE Finish(p)
    BY <2>1, ReadingFinished
  <2>2. CASE ~Finish(p)
    <3> DEFINE l == [Blank EXCEPT !.cost = cost, !.scope = local[p].scope, !.task = local[p].task]
    <3>1. /\ ~tombstone /\ cost # Null /\ UNCHANGED <<cost, tombstone>>
          /\ local' = [local EXCEPT ![p] = l] /\ pc' = [pc EXCEPT ![p] = "base_rows"]
      BY <1>2, <2>2 DEF BaseRead, Goto
    <3>2. l.cost = cost
      BY DEF Blank
    <3> HIDE DEF l
    <3>3. UpToDate("base_rows", l, rows', cost', tombstone')
      BY <3>1, <3>2 DEF UpToDate, SeenLabels
    <3> QED
      BY <3>1, <3>3, ReadingKept
  <2> QED
    BY <2>1, <2>2
<1>3. CASE BaseReadRows(p)
  <2> DEFINE ms == local[p].scope \X {CostCurrency}
             l == [local[p] EXCEPT !.rates = rate, !.floors = Floors,
                                   !.sources = SourcesIn(ms), !.live = ms \cap Priced]
  <2>1. local' = [local EXCEPT ![p] = l] /\ l.sources = SourcesIn(ms) /\ l.live = ms \cap Priced
        /\ l.cost = local[p].cost /\ l.scope = local[p].scope
    BY <1>3 DEF BaseReadRows, IInv, Local
  <2>2. ~tombstone /\ cost # Null /\ local[p].cost = cost
    BY <1>3 DEF BaseReadRows, Reading, UpToDate
  <2>3. UNCHANGED <<rows, cost, tombstone>> /\ pc' = [pc EXCEPT ![p] = "base_commit"]
    BY <1>3 DEF BaseReadRows, Goto
  <2>4. ASSUME NEW m \in Market, m[1] \in l.scope, m[2] = CostCurrency
        PROVE  l.sources[m] = SourceOf(rows, m) /\ (rows[m] # Null => m \in l.live)
    <3>1. m \in ms
      BY <2>1, <2>4 DEF Market
    <3> QED
      BY <2>1, <3>1 DEF SourcesIn, SourceOf, Priced
  <2> HIDE DEF l
  <2>5. UpToDate("base_commit", l, rows', cost', tombstone')
    BY <2>1, <2>2, <2>3, <2>4 DEF UpToDate, SeenLabels
  <2> QED
    BY <2>1, <2>3, <2>5, ReadingKept
<1>4. CASE BaseCommit(p)
  BY <1>4, ReadingFinished DEF BaseCommit
<1> QED
  BY <1>1, <1>2, <1>3, <1>4 DEF Baseline

LEMMA RateReading ==
    ASSUME IInv, OneProcess, Reading, NEW p \in Procs, UpdateRate(p)
    PROVE  Reading'
<1>1. CASE RateSave(p)
  <2>1. PICK l : local' = [local EXCEPT ![p] = l]
    BY <1>1 DEF RateSave
  <2> QED
    BY <1>1, <2>1, ReadingNothing, ReadingKept DEF RateSave, Goto
<1>2. CASE RateDelay(p)
  BY <1>2, ReadingNothing, ReadingKept DEF RateDelay, Goto
<1> QED
  BY <1>1, <1>2 DEF UpdateRate

\* A step that changes neither the amounts nor the labels of the rows leaves what
\* was read as it is.
LEMMA ReadingUntouched ==
    ASSUME IInv, Reading, UNCHANGED <<pc, cost>>, tombstone' => tombstone,
           \A p \in Procs : local'[p] = local[p] \/ local'[p] = [local[p] EXCEPT !.lost = local'[p].lost],
           \A m \in Market : IF rows[m] = Null THEN rows'[m] = Null
                             ELSE /\ rows'[m] # Null /\ rows'[m].source = rows[m].source
                                  /\ rows'[m].regular = rows[m].regular
    PROVE  Reading'
<1> SUFFICES ASSUME NEW p \in Procs
             PROVE  UpToDate(pc[p], local'[p], rows', cost', tombstone')
  BY DEF Reading
<1> DEFINE l == local[p]
           n == local'[p]
<1>1. UpToDate(pc[p], l, rows, cost, tombstone) /\ l \in Local
  BY DEF Reading, IInv
<1>2. /\ n.seen = l.seen /\ n.live = l.live /\ n.sources = l.sources /\ n.scope = l.scope
      /\ n.req = l.req /\ n.cost = l.cost /\ n.rates = l.rates /\ n.floors = l.floors
  BY <1>1 DEF Local
<1>3. \A m : VatDecision(n, m) = VatDecision(l, m)
  BY <1>2 DEF VatDecision
<1>4. VatApplied(n) = VatApplied(l)
  BY <1>2, <1>3 DEF VatApplied
<1>5. \A m \in Market : SourceOf(rows', m) = SourceOf(rows, m)
  BY DEF SourceOf
<1>6. Following(l, rows) => Following(n, rows')
  BY <1>2 DEF Following
<1>7. VatApplied(l) \subseteq Market
  BY DEF VatApplied
<1> HIDE DEF n, l
<1>8. UpToDate(pc[p], n, rows', cost', tombstone')
  BY <1>1, <1>2, <1>3, <1>4, <1>5, <1>6, <1>7 DEF UpToDate
<1> QED
  BY <1>8 DEF n

LEMMA VatReading ==
    ASSUME IInv, OneProcess, Reading, NEW p \in Procs, RecalculateVat(p)
    PROVE  Reading'
<1>1. CASE VatBegin(p)
  <2>1. CASE pc' = pc /\ local' = local
    BY <1>1, <2>1, ReadingUntouched DEF VatBegin
  <2>2. CASE ~(pc' = pc /\ local' = local)
    <3>1. PICK l : local' = [local EXCEPT ![p] = l] /\ pc' = [pc EXCEPT ![p] = "vat_rows"]
      BY <1>1, <2>2 DEF VatBegin, Goto
    <3> QED
      BY <3>1, ReadingNothing, ReadingKept
  <2> QED
    BY <2>1, <2>2
<1>2. CASE VatReadRows(p)
  <2> DEFINE ms == (local[p].scope \X Currency) \cap Priced
             l == [local[p] EXCEPT !.seen = RowsIn(ms), !.live = ms, !.floors = Floors]
  <2>1. CASE Finish(p)
    BY <2>1, ReadingFinished
  <2>2. CASE ~Finish(p)
    <3>1. local' = [local EXCEPT ![p] = l] /\ pc' = [pc EXCEPT ![p] = "vat_write"] /\ UNCHANGED rows
      BY <1>2, <2>2 DEF VatReadRows, Goto, IInv
    <3>2. l.seen = RowsIn(ms) /\ l.live = ms /\ l.scope = local[p].scope /\ ms \subseteq Market
      BY DEF IInv, Local, Priced
    <3>3. \A m \in Market : rows[m] # Null /\ m[1] \in l.scope => l.seen[m] # Null
      BY <3>2 DEF RowsIn, Priced, Market
    <3> HIDE DEF l
    <3>4. Following(l, rows)
      BY <3>2, RowsFollow
    <3>5. UpToDate("vat_write", l, rows', cost', tombstone')
      BY <3>1, <3>3, <3>4 DEF UpToDate
    <3> QED
      BY <3>1, <3>5, ReadingKept
  <2> QED
    BY <2>1, <2>2
<1>3. CASE VatWrite(p)
  <2> DEFINE l == local[p]
             written == VatApplied(l) \cap l.live
  <2>1. pc' = [pc EXCEPT ![p] = "vat_log"] /\ local' = [local EXCEPT ![p] = l] /\ pc[p] = "vat_write"
    BY <1>3 DEF VatWrite, Goto, IInv
  <2>2. /\ Following(l, rows)
        /\ \A m \in Market : rows[m] # Null /\ m[1] \in l.scope => l.seen[m] # Null
    BY <2>1 DEF Reading, UpToDate, SeenLabels
  <2>3. VatApplied(l) \subseteq Market /\ \A m \in VatApplied(l) : l.seen[m] # Null
    BY DEF VatApplied
  <2>4. ASSUME NEW m \in Market, rows'[m] # Null, m[1] \in l.scope PROVE m \in VatApplied(l)
    <3>1. rows[m] # Null
      <4> SUFFICES ASSUME rows[m] = Null PROVE FALSE
        OBVIOUS
      <4>1. m \notin written
        BY <2>2, <2>3 DEF Following
      <4> QED
        BY <1>3, <2>4, <4>1 DEF VatWrite
    <3> QED
      BY <2>2, <2>4, <3>1, MandatoryWrite
  <2>5. ASSUME NEW m \in VatApplied(l)
        PROVE  rows'[m] # Null /\ rows'[m].regular = VatDecision(l, m).values["regular"]
    <3>1. m \in Market /\ m \in l.live /\ rows[m] \in Row
      BY <2>2, <2>3 DEF Following, IInv, RowsOK
    <3>2. rows'[m] = [rows[m] EXCEPT !.regular = VatDecision(l, m).values["regular"],
                                     !.special = VatDecision(l, m).values["special"], !.taxed = TRUE]
      BY <1>3, <3>1 DEF VatWrite
    <3>3. /\ VatDecision(l, m).values["regular"] \in FullPair
          /\ VatDecision(l, m).values["special"] \in SpecialPair
      <4>1. ProcOK("vat_write", l, rows, rate)
        BY <2>1 DEF IInv
      <4> QED
        BY <4>1, VatStores DEF ProcOK, SoundPair, Whole, SpecialPair
    <3>4. rows'[m] \in Row /\ rows'[m].regular = VatDecision(l, m).values["regular"]
      BY <3>1, <3>2, <3>3 DEF Row
    <3> QED
      BY <3>4, NullIsNoRow
  <2> HIDE DEF l
  <2>6. UpToDate("vat_log", l, rows', cost', tombstone')
    BY <2>4, <2>5 DEF UpToDate, SeenLabels
  <2> QED
    BY <2>1, <2>6, ReadingKept
<1>4. CASE VatLog(p)
  <2>1. PICK l : local' = [local EXCEPT ![p] = l]
    BY <1>4 DEF VatLog
  <2> QED
    BY <1>4, <2>1, ReadingNothing, ReadingKept DEF VatLog, Goto
<1> QED
  BY <1>1, <1>2, <1>3, <1>4 DEF RecalculateVat

LEMMA NextReading == IInv /\ OneProcess /\ Reading /\ [Next]_vars => Reading'
<1> SUFFICES ASSUME IInv, OneProcess, Reading, [Next]_vars PROVE Reading'
  OBVIOUS
<1>1. ASSUME NEW p \in Procs, StepOf(p) PROVE Reading'
  <2>1. CASE IntegrityError(p)
    BY <2>1, ReadingFinished DEF IntegrityError
  <2>2. CASE Crash(p)
    BY <2>2, ReadingNothing, ReadingKept DEF Crash, Goto
  <2> QED
    BY <1>1, <2>1, <2>2, EditReading, SpecialReading, RemovalReading, BaselineReading,
       RateReading, VatReading DEF StepOf
<1>2. CASE RemoveTombstone
  BY <1>2, ReadingUntouched DEF RemoveTombstone
<1>3. ASSUME NEW c \in Country, RateCreate(c) \/ OnceExpires(c) PROVE Reading'
  BY <1>3, ReadingUntouched DEF RateCreate, OnceExpires
<1>4. ASSUME NEW c \in Country, RateDestroy(c) PROVE Reading'
  <2>1. ASSUME NEW m \in Market
        PROVE  IF rows[m] = Null THEN rows'[m] = Null
               ELSE /\ rows'[m] # Null /\ rows'[m].source = rows[m].source
                    /\ rows'[m].regular = rows[m].regular
    <3>1. rows[m] = Null \/ rows[m] \in Row
      BY DEF IInv, RowsOK
    <3>2. rows'[m] = IF m[1] = c /\ rows[m] # Null THEN [rows[m] EXCEPT !.taxed = FALSE] ELSE rows[m]
      BY <1>4 DEF RateDestroy
    <3>3. rows[m] \in Row => [rows[m] EXCEPT !.taxed = FALSE] \in Row
      BY DEF Row
    <3> QED
      BY <3>1, <3>2, <3>3, NullIsNoRow DEF Row
  <2>2. ASSUME NEW p \in Procs
        PROVE  local'[p] = local[p] \/ local'[p] = [local[p] EXCEPT !.lost = local'[p].lost]
    <3>1. local'[p] = local[p] \/ local'[p] = [local[p] EXCEPT !.lost = @ \cup {c}]
      BY <1>4 DEF RateDestroy
    <3> QED
      BY <3>1 DEF IInv, Local
  <2> QED
    BY <1>4, <2>1, <2>2, ReadingUntouched DEF RateDestroy
<1>5. CASE UNCHANGED vars
  BY <1>5, ReadingUntouched DEF vars
<1> QED
  BY <1>1, <1>2, <1>3, <1>4, <1>5 DEF Next, StepOf


\* What the process has read is what the tables have, throughout.
LEMMA ReadingHolds ==
    ASSUME OneProcess
    PROVE  Spec => []Reading
<1>1. Init => Reading
  BY ReadingNothing DEF Init, Reading
<1>2. IInv /\ Reading /\ [Next]_vars => Reading'
  BY NextReading
<1> QED
  BY <1>1, <1>2, Invariance, PTL DEF Spec

-----------------------------------------------------------------------------
(* Labels *)

\* The steps that write rows.
LEMMA RowWritersOf ==
    ASSUME NEW p \in Procs, StepOf(p)
    PROVE  \/ UNCHANGED rows \/ EditCommit(p) \/ SpecialWrite(p) \/ FlushCommit(p)
           \/ DeleteCommit(p) \/ BaseCommit(p) \/ VatWrite(p)
<1>1. CASE Edit(p) \/ EditSpecial(p)
  BY <1>1 DEF Edit, EditBegin, EditReadRows, EditSpecial, SpecialBegin, SpecialLog
<1>2. CASE Flush(p) \/ Delete(p)
  BY <1>2 DEF Flush, Delete, FlushRead, DeleteRead, ScopedRead
<1>3. CASE Baseline(p) \/ UpdateRate(p)
  BY <1>3 DEF Baseline, SaveCost, BaseRead, BaseReadRows, UpdateRate, RateSave, RateDelay
<1>4. CASE RecalculateVat(p)
  BY <1>4 DEF RecalculateVat, VatBegin, VatReadRows, VatLog
<1>5. CASE IntegrityError(p) \/ Crash(p)
  BY <1>5 DEF IntegrityError, Crash
<1> QED
  BY <1>1, <1>2, <1>3, <1>4, <1>5 DEF StepOf

LEMMA RowWriters ==
    ASSUME [Next]_vars
    PROVE  \/ UNCHANGED rows
           \/ \E p \in Procs : \/ EditCommit(p) \/ SpecialWrite(p) \/ FlushCommit(p)
                               \/ DeleteCommit(p) \/ BaseCommit(p) \/ VatWrite(p)
           \/ \E c \in Country : RateDestroy(c)
  BY RowWritersOf DEF Next, StepOf, RemoveTombstone, RateCreate, OnceExpires, vars

\* A row gets another label from an edit or from a baseline recalculation only.
LEMMA LabelWriters ==
    ASSUME IInv, OneProcess, Reading, [Next]_vars, NEW m \in Market, rows'[m] # Null
    PROVE  \/ rows[m] # Null /\ rows'[m].source = rows[m].source
           \/ \E p \in Procs : /\ EditCommit(p) /\ m \in EditApplied(local[p])
                               /\ rows'[m] = NewRow(EditDecision(local[p], m))
           \/ \E p \in Procs : /\ BaseCommit(p) /\ m \in BaseApplied(local[p])
                               /\ rows'[m].source = BaseDecision(local[p], m).source
<1>1. rows[m] = Null \/ rows[m] \in Row
  BY DEF IInv, RowsOK
<1>2. CASE UNCHANGED rows
  BY <1>2
<1>3. ASSUME NEW p \in Procs, EditCommit(p)
      PROVE  rows'[m] = rows[m] \/ (m \in EditApplied(local[p]) /\ rows'[m] = NewRow(EditDecision(local[p], m)))
  BY <1>3 DEF EditCommit
<1>4. ASSUME NEW p \in Procs, SpecialWrite(p)
      PROVE  rows[m] # Null /\ rows'[m].source = rows[m].source
  <2> DEFINE l == local[p]
             written == SpecialApplied(l) \cap l.live
             new(n) == [rows[n] EXCEPT !.special = SpecialDecision(l, n).values["special"],
                                       !.source = SpecialDecision(l, n).source]
  <2>1. rows'[m] = IF m \in written THEN new(m) ELSE rows[m]
    BY <1>4 DEF SpecialWrite
  <2>2. CASE m \notin written
    BY <2>1, <2>2
  <2>3. CASE m \in written
    <3>1. l \in Local /\ Following(l, rows)
      BY <1>4 DEF SpecialWrite, IInv, Reading, UpToDate, SeenLabels
    <3>2. l.seen[m] # Null
      BY <2>3 DEF SpecialApplied
    <3>3. SpecialDecision(l, m).source = rows[m].source /\ rows[m] \in Row
      BY <1>1, <2>3, <3>1, <3>2, SpecialKeepsLabel DEF Following
    <3> HIDE DEF l
    <3>4. new(m).source = SpecialDecision(l, m).source
      BY <3>3 DEF Row
    <3> QED
      BY <2>1, <2>3, <3>3, <3>4, NullIsNoRow
  <2> QED
    BY <2>2, <2>3
<1>5. ASSUME NEW p \in Procs, FlushCommit(p)
      PROVE  rows[m] # Null /\ rows'[m].source = rows[m].source
  <2>1. \/ rows'[m] = rows[m]
        \/ m \in local[p].live /\ rows'[m] = [rows[m] EXCEPT !.special = NoPair]
    BY <1>5 DEF FlushCommit
  <2>2. m \in local[p].live => rows[m] \in Row
    BY DEF IInv, ProcOK
  <2> QED
    BY <1>1, <2>1, <2>2, NullIsNoRow DEF Row
<1>6. ASSUME NEW p \in Procs, DeleteCommit(p) PROVE rows'[m] = rows[m]
  BY <1>6 DEF DeleteCommit
<1>7. ASSUME NEW p \in Procs, BaseCommit(p)
      PROVE  rows'[m] = rows[m] \/ (m \in BaseApplied(local[p]) /\ rows'[m].source = BaseDecision(local[p], m).source)
  <2> DEFINE l == local[p]
             decision == BaseDecision(l, m)
  <2>1. \/ m \in BaseApplied(l) /\ rows'[m] = NewRow(decision)
        \/ m \in BaseApplied(l) \cap l.live /\ rows'[m] = BaseUpdated(rows[m], decision)
        \/ rows'[m] = rows[m]
    BY <1>7 DEF BaseCommit, BaseCreated
  <2>2. m \in l.live => rows[m] \in Row
    BY DEF IInv, ProcOK
  <2> HIDE DEF l, decision
  <2>3. rows[m] \in Row => BaseUpdated(rows[m], decision).source = decision.source
    BY DEF BaseUpdated, Row
  <2>4. NewRow(decision).source = decision.source
    BY DEF NewRow
  <2>5. rows'[m] = rows[m] \/ (m \in BaseApplied(l) /\ rows'[m].source = decision.source)
    BY <2>1, <2>2, <2>3, <2>4
  <2> QED
    BY <2>5 DEF l, decision
<1>8. ASSUME NEW p \in Procs, VatWrite(p)
      PROVE  rows[m] # Null /\ rows'[m].source = rows[m].source
  <2>1. \/ rows'[m] = rows[m]
        \/ /\ m \in local[p].live
           /\ rows'[m] = [rows[m] EXCEPT !.regular = VatDecision(local[p], m).values["regular"],
                                         !.special = VatDecision(local[p], m).values["special"],
                                         !.taxed = TRUE]
    BY <1>8 DEF VatWrite
  <2>2. m \in local[p].live => rows[m] \in Row
    BY DEF IInv, ProcOK
  <2> QED
    BY <1>1, <2>1, <2>2, NullIsNoRow DEF Row
<1>9. ASSUME NEW c \in Country, RateDestroy(c)
      PROVE  rows[m] # Null /\ rows'[m].source = rows[m].source
  <2>1. rows'[m] = rows[m] \/ (rows[m] # Null /\ rows'[m] = [rows[m] EXCEPT !.taxed = FALSE])
    BY <1>9 DEF RateDestroy
  <2> QED
    BY <1>1, <2>1 DEF Row
<1> QED
  BY <1>2, <1>3, <1>4, <1>5, <1>6, <1>7, <1>8, <1>9, RowWriters

\* The guard stores nothing that the precedence table does not allow.
LEMMA AllowedOnly ==
    ASSUME NEW existing, NEW values, NEW writer, NEW stored, NEW floor, NEW r, NEW policy,
           GuardPriceWrite(existing, values, writer, stored, floor, r, policy).status # "skipped"
    PROVE  PrecedenceAllows(writer, existing, policy)
  BY DEF GuardPriceWrite, Decision, Skipped

\* What an edit stores bears the label of a writer that was allowed to store it.
LEMMA EditLabel ==
    ASSUME IInv, Reading, OwnLabels, NEW p \in Procs, EditCommit(p), NEW m \in EditApplied(local[p])
    PROVE  /\ EditDecision(local[p], m).source # "baseline"
           /\ EditDecision(local[p], m).source = "pricefighter" => SourceOf(rows, m) # "admin_edit"
<1> DEFINE l == local[p]
           label == IF l.req.stored = Null THEN l.req.source ELSE l.req.stored
<1>1. /\ l.req.source \in EditSources /\ l.req.stored \in StoredSources \cup {Null}
      /\ \A n \in Market : l.sources[n] = SourceOf(rows, n)
  BY DEF EditCommit, Reading, UpToDate
<1>2. m \in Market /\ EditDecision(l, m).status # "skipped"
  BY DEF EditApplied, EditTargets
<1>3. EditDecision(l, m).source = label
  BY <1>2, DecisionToWrite DEF EditDecision
<1>4. PrecedenceAllows(l.req.source, l.sources[m], Policy)
  BY <1>2, AllowedOnly DEF EditDecision
<1> HIDE DEF l
<1>5. label # "baseline"
  BY <1>1 DEF OwnLabels
<1>6. label = "pricefighter" => l.req.source = "pricefighter"
  BY <1>1 DEF OwnLabels
<1>7. l.req.source = "pricefighter" => l.sources[m] # "admin_edit"
  BY <1>4, SourceAssumption DEF PrecedenceAllows, PriceSource
<1> QED
  BY <1>1, <1>2, <1>3, <1>5, <1>6, <1>7 DEF l

\* A baseline recalculation writes a new row, or one that it may overwrite.
LEMMA BaseLabel ==
    ASSUME IInv, Reading, NEW p \in Procs, BaseCommit(p), NEW m \in BaseApplied(local[p])
    PROVE  /\ BaseDecision(local[p], m).source = "baseline"
           /\ SourceOf(rows, m) \in Overwritable \cup {Null}
           /\ m[1] \in local[p].scope /\ m[2] = CostCurrency
           /\ ~tombstone /\ cost # Null
<1> DEFINE l == local[p]
<1>1. /\ m \in Market /\ m[1] \in l.scope /\ m[2] = CostCurrency
      /\ BaseDecision(l, m).status # "skipped"
  BY DEF BaseApplied, BaseTargets
<1>2. ~tombstone /\ cost # Null /\ l.sources[m] = SourceOf(rows, m)
  BY <1>1 DEF BaseCommit, Reading, UpToDate
<1>3. BaseDecision(l, m).source = "baseline"
  BY <1>1, DecisionToWrite DEF BaseDecision
<1>4. PrecedenceAllows("baseline", l.sources[m], Policy)
  BY <1>1, AllowedOnly DEF BaseDecision
<1>5. rows[m] # Null => SourceOf(rows, m) \in PriceSource
  BY <1>1 DEF IInv, RowsOK, SourceOf, Row
<1> HIDE DEF l
<1>6. SourceOf(rows, m) \in Overwritable \cup {Null}
  BY <1>2, <1>4, <1>5 DEF PrecedenceAllows, Overwritable, SourceOf
<1> QED
  BY <1>1, <1>2, <1>3, <1>6 DEF l

\* Without calls that overlap, the label of a row changes only as the precedence
\* table allows, edit by edit and recalculation by recalculation.
THEOREM LabelsKeepPrecedence ==
    ASSUME OneProcess, OwnLabels
    PROVE  Spec => LabelsFollowPrecedence
<1> DEFINE Follows ==
        \A m \in Priced :
            LET old == rows[m].source
                new == rows'[m].source
            IN  rows'[m] # Null /\ new # old =>
                    /\ new = "pricefighter" => old # "admin_edit"
                    /\ new = "baseline" => old \in Overwritable
<1>1. ASSUME IInv, Reading, [Next]_vars, NEW m \in Priced, rows'[m] # Null,
             rows'[m].source # rows[m].source
      PROVE  /\ rows'[m].source = "pricefighter" => rows[m].source # "admin_edit"
             /\ rows'[m].source = "baseline" => rows[m].source \in Overwritable
  <2>1. m \in Market /\ rows[m] # Null /\ SourceOf(rows, m) = rows[m].source /\ rows[m].source # Null
    BY <1>1, SourceAssumption DEF Priced, SourceOf, IInv, RowsOK, Row
  <2>2. CASE \E p \in Procs : /\ EditCommit(p) /\ m \in EditApplied(local[p])
                              /\ rows'[m] = NewRow(EditDecision(local[p], m))
    BY <1>1, <2>1, <2>2, EditLabel DEF NewRow
  <2>3. CASE \E p \in Procs : /\ BaseCommit(p) /\ m \in BaseApplied(local[p])
                              /\ rows'[m].source = BaseDecision(local[p], m).source
    BY <1>1, <2>1, <2>3, BaseLabel
  <2> QED
    BY <1>1, <2>1, <2>2, <2>3, LabelWriters
<1>2. IInv /\ Reading /\ [Next]_vars => [Follows]_vars
  BY <1>1
<1> QED
  BY <1>2, Invariance, ReadingHolds, PTL DEF Spec, LabelsFollowPrecedence

\* Without calls that overlap, no baseline price appears in a market while the
\* tombstone stands, not even from a recalculation that follows a change of a tax
\* rate.
THEOREM TombstoneIsRespected ==
    ASSUME OneProcess, OwnLabels
    PROVE  Spec => TombstoneRespected
<1>1. ASSUME IInv, Reading, [Next]_vars, NEW m \in Market, tombstone, rows[m] = Null, rows'[m] # Null
      PROVE  rows'[m].source # "baseline"
  <2>1. CASE \E p \in Procs : /\ EditCommit(p) /\ m \in EditApplied(local[p])
                              /\ rows'[m] = NewRow(EditDecision(local[p], m))
    BY <1>1, <2>1, EditLabel DEF NewRow
  <2>2. \A p \in Procs : BaseCommit(p) => m \notin BaseApplied(local[p])
    BY <1>1, BaseLabel
  <2> QED
    BY <1>1, <2>1, <2>2, LabelWriters
<1>2. IInv /\ Reading /\ [Next]_vars =>
        [\A m \in Market :
            tombstone /\ rows[m] = Null /\ rows'[m] # Null => rows'[m].source # "baseline"]_vars
  BY <1>1
<1> QED
  BY <1>2, Invariance, ReadingHolds, PTL DEF Spec, TombstoneRespected


-----------------------------------------------------------------------------
(* Conversions *)

\* Where net amounts are the given side, no floor is a fraction of a cent, and no
\* tax rate is 100% or more.  A special price that is raised to a lower floor, or
\* at a higher rate, may have a net amount of zero, and a recalculation passes
\* over special prices of zero.
PlainFloors ==
    FromNetToGross =>
        (\A r \in Rates : r < RateScale) /\ (MapValue \in {Null, 0} \/ MapValue >= CentScale)

PlainFloor(f) == PlainFloors /\ FromNetToGross => f \in {Null, 0} \/ f >= CentScale

\* Where floors are plain, a pair whose given side is zero is zero.
ZeroIsZero(pair) ==
    PlainFloors => IF FromNetToGross THEN pair.net = 0 => pair.gross = 0 ELSE pair.gross = 0 => pair.net = 0

\* No pair, or one that is converted at the rate.
ConvertedAt(pair, r) == pair = NoPair \/ (pair \in FullPair /\ Coherent(pair, r))

LEMMA WholeCents ==
    ASSUME NEW n \in Nat, NEW d \in Nat \ {0}
    PROVE  ToCents(n, d) = 0 \/ ToCents(n, d) >= CentScale
<1> DEFINE k == HalfEven(n, d * CentScale)
<1>1. d * CentScale \in Nat \ {0} /\ CentScale \in Nat \ {0}
  BY ProductType, ScaleAssumption
<1>2. k \in Nat
  BY <1>1, HalfEvenType
<1>3. ToCents(n, d) = CentScale * k
  BY DEF ToCents
<1> HIDE DEF k
<1>4. k = 0 \/ \E j \in Nat : k = j + 1
  <2>1. k # 0 => k - 1 \in Nat /\ k = (k - 1) + 1
    BY <1>2
  <2> QED
    BY <2>1
<1>5. ASSUME NEW j \in Nat, k = j + 1 PROVE CentScale * k >= CentScale
  <2>1. CentScale * (j + 1) = CentScale * j + CentScale /\ CentScale * j \in Nat
    BY <1>1, ProductType
  <2> QED
    BY <1>1, <1>5, <2>1
<1>6. k = 0 => CentScale * k = 0
  BY <1>1
<1> QED
  BY <1>3, <1>4, <1>5, <1>6

\* Nothing converts to nothing.
LEMMA NothingConverted ==
    ASSUME NEW r \in Nat
    PROVE  GrossPrice(0, r) = 0 /\ NetPrice(0, r) = 0
<1>1. RateScale \in Nat \ {0} /\ RateScale + r \in Nat \ {0} /\ CentScale \in Nat \ {0}
  BY ScaleAssumption
<1>2. ASSUME NEW d \in Nat \ {0} PROVE ToCents(0, d) = 0
  <2>1. d * CentScale \in Nat \ {0}
    BY <1>1, ProductType
  <2>2. \A e \in Nat \ {0} : HalfEven(0, e) = 0
    BY DEF HalfEven
  <2>3. HalfEven(0, d * CentScale) = 0
    BY <2>1, <2>2
  <2> QED
    BY <1>1, <2>3 DEF ToCents
<1>3. 0 * (RateScale + r) = 0 /\ 0 * RateScale = 0
  BY <1>1
<1> QED
  BY <1>1, <1>2, <1>3 DEF GrossPrice, NetPrice

\* A cent or more is a cent or more without tax, at a rate below 100%.
LEMMA CentStays ==
    ASSUME NEW f \in Nat, f >= CentScale, NEW r \in Nat, r < RateScale
    PROVE  NetPrice(f, r) # 0
<1> DEFINE S == RateScale
           n == f * S
           e == (S + r) * CentScale
<1>1. S \in Nat \ {0} /\ CentScale \in Nat \ {0} /\ S + r \in Nat \ {0}
  BY ScaleAssumption
<1>2. n \in Nat /\ e \in Nat \ {0} /\ CentScale * S \in Nat /\ CentScale * r \in Nat
  BY <1>1, ProductType
<1>3. PICK more \in Nat : f = CentScale + more
  <2>1. f - CentScale \in Nat /\ f = CentScale + (f - CentScale)
    BY <1>1
  <2> QED
    BY <2>1
<1>4. n >= CentScale * S
  <2>1. n = CentScale * S + more * S /\ more * S \in Nat
    BY <1>1, <1>3, ProductType
  <2> QED
    BY <1>2, <2>1
<1>5. PICK less \in Nat \ {0} : S = r + less
  <2>1. S - r \in Nat \ {0} /\ S = r + (S - r)
    BY <1>1
  <2> QED
    BY <2>1
<1>6. CentScale * S = CentScale * r + CentScale * less /\ CentScale * less \in Nat \ {0}
  BY <1>1, <1>5, ProductType
<1>7. e = CentScale * S + CentScale * r
  BY <1>1
<1>8. 2 * n > e
  <2>1. \A a, b, c, x, y \in Nat : x >= a /\ a = b + c /\ c # 0 /\ y = a + b => 2 * x > y
    OBVIOUS
  <2> HIDE DEF n, e, S
  <2> QED
    BY <1>2, <1>4, <1>6, <1>7, <2>1, Zenon
<1> HIDE DEF n, e
<1>9. HalfEven(n, e) # 0
  <2>1. n \div e \in Nat /\ n % e \in Nat /\ n = (n \div e) * e + (n % e)
    BY <1>2
  <2>2. CASE n \div e = 0
    <3>1. n % e = n
      BY <1>2, <2>1, <2>2
    <3> QED
      BY <1>2, <1>8, <2>2, <3>1 DEF HalfEven
  <2>3. CASE n \div e # 0
    BY <2>1, <2>3 DEF HalfEven
  <2> QED
    BY <2>2, <2>3
<1>10. NetPrice(f, r) = CentScale * HalfEven(n, e)
  BY DEF NetPrice, ToCents, n, e
<1>11. HalfEven(n, e) \in Nat
  BY <1>2, HalfEvenType
<1> QED
  BY <1>1, <1>9, <1>10, <1>11, ProductType

\* The floors of any moment are plain.
LEMMA FloorsPlain ==
    ASSUME StoreOK
    PROVE  \A c \in Country : PlainFloor(Floors[c])
<1> SUFFICES ASSUME NEW c \in Country PROVE PlainFloor(Floor(BoundsConfig, cost, rate[c]))
  BY DEF Floors
<1>1. cost \in Nat \cup {Null} /\ rate[c] \in Nat \cup {Null}
  BY AmountAssumption DEF StoreOK
<1>2. CASE BoundsConfig = Null
  BY <1>2 DEF Floor, PlainFloor
<1>3. CASE BoundsConfig # Null
  <2> DEFINE least == CostFloor(BoundsConfig, cost, rate[c])
  <2>1. BoundsConfig.min_margin \in Nat \cup {Null}
    BY <1>3, AmountAssumption DEF BoundsRow
  <2>2. least \in {Null, 0} \/ least >= CentScale
    <3>1. CASE BoundsConfig.min_margin # Null /\ cost # Null /\ rate[c] # Null
      <4>1. BoundsConfig.min_margin \in Nat /\ cost \in Nat /\ rate[c] \in Nat
        BY <1>1, <2>1, <3>1
      <4>2. /\ RateScale + BoundsConfig.min_margin \in Nat /\ RateScale + rate[c] \in Nat
            /\ RateScale \in Nat \ {0}
        BY <4>1, ScaleAssumption
      <4>3. /\ cost * (RateScale + BoundsConfig.min_margin) * (RateScale + rate[c]) \in Nat
            /\ RateScale * RateScale \in Nat \ {0}
        BY <4>1, <4>2, ProductType
      <4> QED
        BY <3>1, <4>3, WholeCents DEF CostFloor, GrossOfRaisedCost
    <3>2. CASE ~(BoundsConfig.min_margin # Null /\ cost # Null /\ rate[c] # Null)
      BY <3>2 DEF CostFloor
    <3> QED
      BY <3>1, <3>2
  <2>3. Floor(BoundsConfig, cost, rate[c]) \in {MapValue, least}
    BY <1>3 DEF Floor, MaxOptional, MapValue
  <2> HIDE DEF least
  <2> QED
    BY <2>2, <2>3 DEF PlainFloors, PlainFloor
<1> QED
  BY <1>2, <1>3


\* The guard stores a pair converted at the rate it is given, of one that is.
LEMMA GuardConverts ==
    ASSUME NEW existing, NEW values, NEW writer, NEW stored, NEW policy,
           NEW kind \in DOMAIN values,
           NEW floor \in Amount \cup {Null}, NEW r \in Rates,
           ConvertedAt(values[kind], r),
           NEW decision,
           decision = GuardPriceWrite(existing, values, writer, stored, floor, r, policy),
           decision.status # "skipped"
    PROVE  /\ ConvertedAt(decision.values[kind], r)
           /\ ZeroIsZero(values[kind]) /\ PlainFloor(floor)
                => ZeroIsZero(decision.values[kind])
<1> DEFINE pair == decision.values[kind]
<1>1. r \in Nat /\ r # Null
  BY AmountAssumption, NullAssumption
<1>2. floor \in Nat \cup {Null} /\ r \in Nat \cup {Null} /\ values[kind] \in Filled \cup {NoPair}
  BY <1>1 DEF Amount, ConvertedAt, Filled, FullPair
<1>3. HeldToFloor(values[kind], pair, floor, r)
  BY <1>2, GuardedPair
<1> HIDE DEF pair
<1>4. CASE pair = values[kind]
  BY <1>4 DEF pair
<1>5. CASE floor \in Nat /\ pair = [net |-> NetPrice(floor, r), gross |-> floor]
  <2>1. NetPrice(floor, r) \in Nat
    BY <1>1, <1>5, ConversionType
  <2>2. ConvertedAt(pair, r)
    BY <1>5, <2>1 DEF ConvertedAt, FullPair, Amount, Coherent
  <2>3. ASSUME PlainFloor(floor), PlainFloors PROVE ZeroIsZero(pair)
    <3>1. CASE ~FromNetToGross
      BY <1>1, <1>5, <3>1, NothingConverted DEF ZeroIsZero
    <3>2. CASE FromNetToGross /\ floor = 0
      BY <1>5, <3>2 DEF ZeroIsZero
    <3>3. CASE FromNetToGross /\ floor # 0
      <4>1. floor >= CentScale /\ r < RateScale
        BY <1>5, <2>3, <3>3, NullAssumption DEF PlainFloors, PlainFloor
      <4> QED
        BY <1>1, <1>5, <3>3, <4>1, CentStays DEF ZeroIsZero
    <3> QED
      BY <3>1, <3>2, <3>3
  <2> QED
    BY <2>2, <2>3 DEF pair, ZeroIsZero
<1> QED
  BY <1>1, <1>3, <1>4, <1>5 DEF HeldToFloor

\* The pair of an amount, if there is one.
LEMMA AmountConverts ==
    ASSUME NEW amount \in Amount \cup {Null}, NEW r \in Rates
    PROVE  /\ ConvertedAt(OptionalPair(amount, r), r) /\ ZeroIsZero(OptionalPair(amount, r))
           /\ amount # Null => OptionalPair(amount, r) = Pair_(amount, r)
<1>1. r \in Nat /\ FromNetToGross \in BOOLEAN
  BY AmountAssumption
<1>2. CASE amount = Null
  <2>1. ZeroIsZero(NoPair)
    BY NullAssumption DEF ZeroIsZero, NoPair
  <2> QED
    BY <1>2, <2>1 DEF OptionalPair, ConvertedAt
<1>3. CASE amount # Null
  <2>1. amount \in Nat
    BY <1>3 DEF Amount
  <2>2. Pair_(amount, r) \in FullPair /\ Coherent(Pair_(amount, r), r)
    BY <1>1, <2>1, PricePairType DEF Pair_, FullPair, PricePair, Coherent
  <2>3. ZeroIsZero(Pair_(amount, r))
    BY <1>1, NothingConverted DEF ZeroIsZero, Pair_, PricePair
  <2> QED
    BY <1>3, <2>2, <2>3 DEF OptionalPair, ConvertedAt
<1> QED
  BY <1>2, <1>3

\* A pair whose one side is computed anew; one of zero may be left as it is.
LEMMA ReconversionConverts ==
    ASSUME NEW r \in Rates
    PROVE  /\ \A pair \in FullPair :
                ConvertedAt(Reconverted(pair, r), r) /\ ZeroIsZero(Reconverted(pair, r))
           /\ \A pair \in SpecialPair : ZeroIsZero(pair) =>
                /\ PlainFloors => ConvertedAt(ReconvertedSpecial(pair, r), r)
                /\ ZeroIsZero(ReconvertedSpecial(pair, r))
<1>1. r \in Nat /\ Null \notin Nat
  BY AmountAssumption, NullAssumption
<1>2. ASSUME NEW pair \in FullPair
      PROVE  ConvertedAt(Reconverted(pair, r), r) /\ ZeroIsZero(Reconverted(pair, r))
  <2>1. Reconverted(pair, r) = IF FromNetToGross THEN [net |-> pair.net, gross |-> GrossPrice(pair.net, r)]
                               ELSE [net |-> NetPrice(pair.gross, r), gross |-> pair.gross]
    BY DEF Reconverted, FullPair
  <2>2. /\ pair.net \in Nat /\ pair.gross \in Nat
        /\ GrossPrice(pair.net, r) \in Nat /\ NetPrice(pair.gross, r) \in Nat
    BY <1>1, ConversionType DEF FullPair, Amount
  <2>3. Reconverted(pair, r) \in FullPair /\ Coherent(Reconverted(pair, r), r)
    BY <2>1, <2>2 DEF FullPair, Amount, Coherent
  <2>4. ZeroIsZero(Reconverted(pair, r))
    BY <1>1, <2>1, NothingConverted DEF ZeroIsZero
  <2> QED
    BY <2>3, <2>4 DEF ConvertedAt
<1>3. ASSUME NEW pair \in SpecialPair, ZeroIsZero(pair)
      PROVE  /\ PlainFloors => ConvertedAt(ReconvertedSpecial(pair, r), r)
             /\ ZeroIsZero(ReconvertedSpecial(pair, r))
  <2>1. CASE pair = NoPair
    BY <1>3, <2>1 DEF ReconvertedSpecial, ConvertedAt, NoPair
  <2>2. CASE pair \in FullPair
    <3>1. CASE ReconvertedSpecial(pair, r) = Reconverted(pair, r)
      BY <1>2, <2>2, <3>1
    <3>2. CASE ReconvertedSpecial(pair, r) # Reconverted(pair, r)
      <4>1. ReconvertedSpecial(pair, r) = pair /\ (IF FromNetToGross THEN pair.net ELSE pair.gross) = 0
        BY <1>1, <2>2, <3>2 DEF ReconvertedSpecial, FullPair, Amount
      <4>2. PlainFloors => pair.net = 0 /\ pair.gross = 0
        BY <1>3, <4>1 DEF ZeroIsZero
      <4>3. PlainFloors => Coherent(pair, r)
        BY <1>1, <4>2, NothingConverted DEF Coherent
      <4> QED
        BY <1>3, <2>2, <4>1, <4>3 DEF ConvertedAt
    <3> QED
      BY <3>1, <3>2
  <2> QED
    BY <2>1, <2>2 DEF SpecialPair
<1> QED
  BY <1>2, <1>3

-----------------------------------------------------------------------------
(* What each writer stores, at the rate it has read *)

LEMMA EditConverts ==
    ASSUME NEW l \in Local, Held("edit_commit", l), NEW m \in EditApplied(l),
           PlainFloor(l.floors[m[1]])
    PROVE  LET values == EditDecision(l, m).values
               r == l.rates[m[1]]
           IN  /\ ConvertedAt(values["regular"], r) /\ ConvertedAt(values["special"], r)
               /\ ZeroIsZero(values["special"])
<1> DEFINE r == l.rates[m[1]]
           values == [regular |-> Pair_(l.req.value, r), special |-> OptionalPair(l.req.special, r)]
           decision == EditDecision(l, m)
<1>1. m \in Market /\ m[1] \in Country /\ r # Null /\ decision.status # "skipped"
  BY DEF EditApplied, EditTargets, Market
<1>2. r \in Rates /\ l.floors[m[1]] \in Amount \cup {Null}
  BY <1>1 DEF Local
<1>3. l.req.value \in Amount /\ l.req.special \in Amount \cup {Null} /\ l.req.value # Null
  BY NullAssumption DEF Held, Request, Amount
<1>4. /\ ConvertedAt(values["regular"], r) /\ ConvertedAt(values["special"], r)
      /\ ZeroIsZero(values["special"])
  BY <1>2, <1>3, AmountConverts
<1>5. decision = GuardPriceWrite(l.sources[m], values, l.req.source, l.req.stored,
                                 l.floors[m[1]], r, Policy)
  BY DEF EditDecision
<1>6. "regular" \in DOMAIN values /\ "special" \in DOMAIN values
  OBVIOUS
<1> HIDE DEF values, decision, r
<1>7. ConvertedAt(decision.values["regular"], r)
  BY <1>1, <1>2, <1>4, <1>5, <1>6, GuardConverts
<1>8. ConvertedAt(decision.values["special"], r) /\ ZeroIsZero(decision.values["special"])
  BY <1>1, <1>2, <1>4, <1>5, <1>6, GuardConverts
<1> QED
  BY <1>7, <1>8 DEF decision, r

LEMMA SpecialConverts ==
    ASSUME NEW l \in Local, Held("special_write", l), NEW m \in SpecialApplied(l),
           PlainFloor(l.floors[m[1]]), l.seen[m].taxed
    PROVE  /\ ConvertedAt(SpecialDecision(l, m).values["special"], l.rates[m[1]])
           /\ ZeroIsZero(SpecialDecision(l, m).values["special"])
<1> DEFINE r == l.rates[m[1]]
           values == [special |-> OptionalPair(l.req.special, r)]
           decision == SpecialDecision(l, m)
<1>1. m \in Market /\ m[1] \in Country /\ l.seen[m] # Null /\ decision.status # "skipped"
  BY DEF SpecialApplied, Market
<1>2. l.floors[m[1]] \in Amount \cup {Null} /\ l.req.special \in Amount \cup {Null}
  BY <1>1 DEF Local, Held, Request
<1>3. decision = GuardPriceWrite(l.seen[m].source, values, l.req.source, l.seen[m].source,
                                 l.floors[m[1]], r, Policy)
  BY DEF SpecialDecision
<1>4. "special" \in DOMAIN values /\ values["special"] = OptionalPair(l.req.special, r)
  OBVIOUS
<1>5. CASE l.req.special # Null
  <2>1. r \in Rates
    BY <1>1, <1>5 DEF Held, Local
  <2>2. ConvertedAt(values["special"], r) /\ ZeroIsZero(values["special"])
    BY <1>2, <2>1, AmountConverts
  <2> HIDE DEF values, decision, r
  <2>3. ConvertedAt(decision.values["special"], r) /\ ZeroIsZero(decision.values["special"])
    BY <1>1, <1>2, <1>3, <1>4, <2>1, <2>2, GuardConverts
  <2> QED
    BY <2>3 DEF decision, r
<1>6. CASE l.req.special = Null
  <2>1. values["special"] = NoPair
    BY <1>6 DEF OptionalPair
  <2>2. Violations(values, l.floors[m[1]]) = {}
    BY <2>1 DEF Violations, NoPair
  <2> HIDE DEF values, decision, r
  <2>3. decision.values["special"] = NoPair
    BY <1>1, <1>3, <2>1, <2>2, DecisionToWrite
  <2>4. ZeroIsZero(NoPair)
    BY NullAssumption DEF ZeroIsZero, NoPair
  <2> QED
    BY <2>3, <2>4 DEF decision, ConvertedAt
<1> QED
  BY <1>5, <1>6

LEMMA BaseConverts ==
    ASSUME NEW l \in Local, Held("base_commit", l), NEW m \in BaseApplied(l)
    PROVE  ConvertedAt(BaseDecision(l, m).values["regular"], l.rates[m[1]])
<1> DEFINE r == l.rates[m[1]]
           gross == BaselineGross(l.cost, r, Markup, Rounding)
           pair == [net |-> NetPrice(gross, r), gross |-> gross]
           values == IF l.sources[m] = Null THEN [regular |-> pair, special |-> NoPair]
                                            ELSE [regular |-> pair]
           decision == BaseDecision(l, m)
<1>1. m \in Market /\ m[1] \in Country /\ r # Null /\ decision.status # "skipped"
  BY DEF BaseApplied, BaseTargets, Market
<1>2. r \in Rates /\ r \in Nat /\ l.cost \in Nat /\ l.floors[m[1]] \in Amount \cup {Null}
  BY <1>1, AmountAssumption DEF Local, Held
<1>3. gross \in Nat
  BY <1>2, BaselineType, AmountAssumption
<1>4. NetPrice(gross, r) \in Nat
  BY <1>2, <1>3, ConversionType
<1>5. values["regular"] = pair /\ "regular" \in DOMAIN values
  OBVIOUS
<1>6. ConvertedAt(values["regular"], r)
  BY <1>3, <1>4, <1>5 DEF ConvertedAt, FullPair, Amount, Coherent
<1>7. decision = GuardPriceWrite(l.sources[m], values, "baseline", Null, l.floors[m[1]], r, Policy)
  BY DEF BaseDecision
<1> HIDE DEF values, decision, r, pair, gross
<1>8. ConvertedAt(decision.values["regular"], r)
  BY <1>1, <1>2, <1>5, <1>6, <1>7, GuardConverts
<1> QED
  BY <1>8 DEF decision, r

LEMMA VatConverts ==
    ASSUME NEW l \in Local, Held("vat_write", l), NEW m \in VatApplied(l),
           PlainFloor(l.floors[m[1]]), ZeroIsZero(l.seen[m].special)
    PROVE  LET values == VatDecision(l, m).values
               r == l.rates[m[1]]
           IN  /\ ConvertedAt(values["regular"], r)
               /\ PlainFloors => ConvertedAt(values["special"], r)
               /\ ZeroIsZero(values["special"])
<1> DEFINE r == l.rates[m[1]]
           row == l.seen[m]
           values == [regular |-> Reconverted(row.regular, r),
                      special |-> ReconvertedSpecial(row.special, r)]
           decision == VatDecision(l, m)
<1>1. m \in Market /\ m[1] \in Country /\ row # Null /\ decision.status # "skipped"
  BY DEF VatApplied, Market
<1>2. r # Null
  BY <1>1 DEF Held
<1>3. r \in Rates /\ l.floors[m[1]] \in Amount \cup {Null}
  BY <1>1, <1>2 DEF Local
<1>4. row.regular \in FullPair /\ row.special \in SpecialPair
  BY <1>1 DEF Local, Row
<1>5. /\ ConvertedAt(values["regular"], r) /\ (PlainFloors => ConvertedAt(values["special"], r))
      /\ ZeroIsZero(values["special"])
  BY <1>3, <1>4, ReconversionConverts
<1>6. decision = GuardPriceWrite(row.source, values, "tax_rate_change", Null, l.floors[m[1]], r, Policy)
  BY DEF VatDecision
<1>7. "regular" \in DOMAIN values /\ "special" \in DOMAIN values
  OBVIOUS
<1> HIDE DEF values, decision, r, row
<1>8. ConvertedAt(decision.values["regular"], r)
  BY <1>1, <1>3, <1>5, <1>6, <1>7, GuardConverts
<1>9. PlainFloors => ConvertedAt(decision.values["special"], r) /\ ZeroIsZero(decision.values["special"])
  BY <1>1, <1>3, <1>5, <1>6, <1>7, GuardConverts
<1>10. ~PlainFloors => ZeroIsZero(decision.values["special"])
  BY DEF ZeroIsZero
<1> QED
  BY <1>8, <1>9, <1>10 DEF decision, r


-----------------------------------------------------------------------------
(* The rates that the process has read *)

\* What the process is about to use is the rate in force, and a floor that was
\* computed as floors are.
RatesHeld(label, l, rt, fl) ==
    /\ l.lost = {}
    /\ label \in {"edit_rows", "edit_commit", "special_write", "special_log", "base_commit"} =>
        l.rates = rt
    /\ label \in {"vat_rows", "vat_write", "vat_log"} =>
        l.task \in Country /\ l.scope = {l.task} /\ l.rates[l.task] = rt[l.task]
    /\ label \in {"edit_rows", "edit_commit", "special_write", "special_log", "vat_write", "vat_log"} =>
        \A c \in Country : PlainFloor(l.floors[c])
    /\ label = "base_commit" => l.floors = fl
    /\ \A m \in Market : l.seen[m] # Null => l.seen[m].taxed /\ ZeroIsZero(l.seen[m].special)

\* Every country has a rate and every row refers to it.
Steady ==
    /\ \A c \in Country : rate[c] # Null
    /\ \A m \in Market : rows[m] # Null => rows[m].taxed /\ ZeroIsZero(rows[m].special)
    /\ \A p \in Procs : RatesHeld(pc[p], local[p], rate, Floors)

\* A step after which the process holds what it should.
LEMMA RatesKept ==
    ASSUME IInv, OneProcess, NEW p \in Procs, NEW label, NEW l,
           pc' = [pc EXCEPT ![p] = label], local' = [local EXCEPT ![p] = l],
           RatesHeld(label, l, rate', Floors')
    PROVE  \A q \in Procs : RatesHeld(pc'[q], local'[q], rate', Floors')
<1>1. \A q \in Procs : q = p /\ pc'[q] = label /\ local'[q] = l
  BY DEF OneProcess, IInv
<1> QED
  BY <1>1

\* A process that has read neither rates nor rows.
LEMMA RatesUnread ==
    ASSUME NEW label \in {"idle", "rate_delay", "base_read", "base_rows"}, NEW l,
           l.lost = Blank.lost, l.seen = Blank.seen, NEW rt, NEW fl
    PROVE  RatesHeld(label, l, rt, fl)
  BY DEF RatesHeld, Blank

LEMMA RatesFinished ==
    ASSUME IInv, OneProcess, NEW p \in Procs, Finish(p)
    PROVE  \A q \in Procs : RatesHeld(pc'[q], local'[q], rate', Floors')
  BY RatesUnread, RatesKept DEF Finish, Goto

\* The rows read are as plain as the table's.
LEMMA PlainRead ==
    ASSUME Steady, NEW ms \in SUBSET Market
    PROVE  \A m \in Market : RowsIn(ms)[m] # Null =>
                RowsIn(ms)[m].taxed /\ ZeroIsZero(RowsIn(ms)[m].special)
  BY DEF Steady, RowsIn

LEMMA HeldByEdit ==
    ASSUME IInv, OneProcess, Steady, NEW p \in Procs, Edit(p) \/ EditSpecial(p)
    PROVE  \A q \in Procs : RatesHeld(pc'[q], local'[q], rate', Floors')
<1>0. RatesHeld(pc[p], local[p], rate, Floors) /\ local[p] \in Local
  BY DEF Steady, IInv
<1>1. CASE EditBegin(p)
  <2>1. PICK req \in EditRequests :
            local' = [local EXCEPT ![p] = [Blank EXCEPT !.req = req, !.floors = Floors, !.rates = rate]]
    BY <1>1 DEF EditBegin
  <2> DEFINE l == [Blank EXCEPT !.req = req, !.floors = Floors, !.rates = rate]
  <2>2. /\ l.floors = Floors /\ l.rates = rate /\ l.lost = {}
        /\ \A m \in Market : l.seen[m] = Null
    BY DEF Blank
  <2>3. local' = [local EXCEPT ![p] = l] /\ pc' = [pc EXCEPT ![p] = "edit_rows"] /\ UNCHANGED rate
    BY <1>1, <2>1 DEF EditBegin, Goto
  <2> HIDE DEF l
  <2>4. RatesHeld("edit_rows", l, rate', Floors')
    BY <2>2, <2>3, FloorsPlain DEF RatesHeld, IInv
  <2> QED
    BY <2>3, <2>4, RatesKept
<1>2. CASE EditReadRows(p)
  <2>1. PICK fallback :
            local' = [local EXCEPT ![p].sources = SourcesIn(Market), ![p].fallback = fallback]
    BY <1>2 DEF EditReadRows
  <2> DEFINE l == [local[p] EXCEPT !.sources = SourcesIn(Market), !.fallback = fallback]
  <2>2. /\ l.floors = local[p].floors /\ l.rates = local[p].rates /\ l.lost = local[p].lost
        /\ l.seen = local[p].seen
    BY <1>0 DEF Local
  <2>3. /\ local' = [local EXCEPT ![p] = l] /\ pc' = [pc EXCEPT ![p] = "edit_commit"]
        /\ UNCHANGED rate /\ pc[p] = "edit_rows"
    BY <1>2, <2>1 DEF EditReadRows, Goto, IInv
  <2> HIDE DEF l
  <2>4. RatesHeld("edit_commit", l, rate', Floors')
    BY <1>0, <2>2, <2>3 DEF RatesHeld
  <2> QED
    BY <2>3, <2>4, RatesKept
<1>3. CASE SpecialBegin(p)
  <2>1. PICK special \in SpecialAmounts \cup {Null}, cur \in Currency :
            local' = [local EXCEPT ![p] = [Blank EXCEPT
                        !.req = SpecialRequest(special, cur),
                        !.seen = RowsIn(InCurrency(cur) \cap Priced),
                        !.live = InCurrency(cur) \cap Priced, !.floors = Floors, !.rates = rate]]
    BY <1>3 DEF SpecialBegin
  <2> DEFINE ms == InCurrency(cur) \cap Priced
             l == [Blank EXCEPT !.req = SpecialRequest(special, cur), !.seen = RowsIn(ms),
                                !.live = ms, !.floors = Floors, !.rates = rate]
  <2>2. l.floors = Floors /\ l.rates = rate /\ l.lost = {} /\ l.seen = RowsIn(ms) /\ ms \subseteq Market
    BY DEF Blank, Priced
  <2>3. local' = [local EXCEPT ![p] = l] /\ pc' = [pc EXCEPT ![p] = "special_write"] /\ UNCHANGED rate
    BY <1>3, <2>1 DEF SpecialBegin, Goto
  <2> HIDE DEF l, ms
  <2>4. RatesHeld("special_write", l, rate', Floors')
    BY <2>2, <2>3, FloorsPlain, PlainRead DEF RatesHeld, IInv
  <2> QED
    BY <2>3, <2>4, RatesKept
<1>4. CASE SpecialWrite(p)
  <2>1. /\ local' = [local EXCEPT ![p] = local[p]] /\ pc' = [pc EXCEPT ![p] = "special_log"]
        /\ UNCHANGED rate /\ pc[p] = "special_write"
    BY <1>4 DEF SpecialWrite, Goto, IInv
  <2>2. RatesHeld("special_log", local[p], rate', Floors')
    BY <1>0, <2>1 DEF RatesHeld
  <2> QED
    BY <2>1, <2>2, RatesKept
<1>5. CASE EditCommit(p) \/ SpecialLog(p)
  BY <1>5, RatesFinished DEF EditCommit, SpecialLog
<1> QED
  BY <1>1, <1>2, <1>3, <1>4, <1>5 DEF Edit, EditSpecial

LEMMA HeldByRemoval ==
    ASSUME IInv, OneProcess, Steady, NEW p \in Procs, Flush(p) \/ Delete(p)
    PROVE  \A q \in Procs : RatesHeld(pc'[q], local'[q], rate', Floors')
<1>1. ASSUME NEW label \in {"flush_commit", "delete_commit"}, ScopedRead(p, label)
      PROVE  \A q \in Procs : RatesHeld(pc'[q], local'[q], rate', Floors')
  <2>1. PICK cur \in Currency \cup {Null} :
            local' = [local EXCEPT ![p] = [Blank EXCEPT
                        !.req = ScopedRequest(cur), !.seen = RowsIn(InCurrency(cur) \cap Priced),
                        !.live = InCurrency(cur) \cap Priced, !.rates = rate]]
    BY <1>1 DEF ScopedRead
  <2> DEFINE ms == InCurrency(cur) \cap Priced
             l == [Blank EXCEPT !.req = ScopedRequest(cur), !.seen = RowsIn(ms), !.live = ms,
                            !.rates = rate]
  <2>2. l.lost = {} /\ l.seen = RowsIn(ms) /\ ms \subseteq Market
    BY DEF Blank, Priced
  <2>3. local' = [local EXCEPT ![p] = l] /\ pc' = [pc EXCEPT ![p] = label]
    BY <1>1, <2>1 DEF ScopedRead, Goto
  <2> HIDE DEF l, ms
  <2>4. RatesHeld(label, l, rate', Floors')
    BY <2>2, PlainRead DEF RatesHeld
  <2> QED
    BY <2>3, <2>4, RatesKept
<1>2. CASE FlushCommit(p)
  BY <1>2, RatesFinished DEF FlushCommit
<1>3. CASE DeleteCommit(p)
  <2>1. \A q \in Procs : pc'[q] = "idle" /\ local'[q] = Blank
    BY <1>3 DEF DeleteCommit, Goto, IInv, OneProcess
  <2> QED
    BY <2>1, RatesUnread
<1> QED
  BY <1>1, <1>2, <1>3 DEF Flush, Delete, FlushRead, DeleteRead

LEMMA HeldByBaseline ==
    ASSUME IInv, OneProcess, Steady, NEW p \in Procs, Baseline(p) \/ UpdateRate(p)
    PROVE  \A q \in Procs : RatesHeld(pc'[q], local'[q], rate', Floors')
<1>0. RatesHeld(pc[p], local[p], rate, Floors) /\ local[p] \in Local
  BY DEF Steady, IInv
<1>1. CASE SaveCost(p)
  <2> DEFINE l == [Blank EXCEPT !.scope = Country]
  <2>1. l.lost = Blank.lost /\ l.seen = Blank.seen
    BY DEF Blank
  <2>2. local' = [local EXCEPT ![p] = l] /\ pc' = [pc EXCEPT ![p] = "base_read"]
    BY <1>1 DEF SaveCost, Goto
  <2> HIDE DEF l
  <2> QED
    BY <2>1, <2>2, RatesUnread, RatesKept
<1>2. CASE BaseRead(p)
  <2>1. CASE Finish(p)
    BY <2>1, RatesFinished
  <2>2. CASE ~Finish(p)
    <3> DEFINE l == [Blank EXCEPT !.cost = cost, !.scope = local[p].scope, !.task = local[p].task]
    <3>1. l.lost = Blank.lost /\ l.seen = Blank.seen
      BY DEF Blank
    <3>2. local' = [local EXCEPT ![p] = l] /\ pc' = [pc EXCEPT ![p] = "base_rows"]
      BY <1>2, <2>2 DEF BaseRead, Goto
    <3> HIDE DEF l
    <3> QED
      BY <3>1, <3>2, RatesUnread, RatesKept
  <2> QED
    BY <2>1, <2>2
<1>3. CASE BaseReadRows(p)
  <2> DEFINE ms == local[p].scope \X {CostCurrency}
             l == [local[p] EXCEPT !.rates = rate, !.floors = Floors,
                                   !.sources = SourcesIn(ms), !.live = ms \cap Priced]
  <2>1. /\ l.rates = rate /\ l.floors = Floors /\ l.lost = local[p].lost /\ l.seen = local[p].seen
    BY <1>0 DEF Local
  <2>2. local' = [local EXCEPT ![p] = l] /\ pc' = [pc EXCEPT ![p] = "base_commit"] /\ UNCHANGED <<rate, cost>>
    BY <1>3 DEF BaseReadRows, Goto, IInv
  <2>3. Floors' = Floors
    BY <2>2 DEF Floors
  <2> HIDE DEF l
  <2>4. RatesHeld("base_commit", l, rate', Floors')
    BY <1>0, <2>1, <2>2, <2>3 DEF RatesHeld
  <2> QED
    BY <2>2, <2>4, RatesKept
<1>4. CASE BaseCommit(p)
  BY <1>4, RatesFinished DEF BaseCommit
<1>5. CASE RateSave(p)
  <2>1. PICK c \in Country : local' = [local EXCEPT ![p] = [Blank EXCEPT !.scope = {c}]]
    BY <1>5 DEF RateSave
  <2> DEFINE l == [Blank EXCEPT !.scope = {c}]
  <2>2. l.lost = Blank.lost /\ l.seen = Blank.seen
    BY DEF Blank
  <2>3. local' = [local EXCEPT ![p] = l] /\ pc' = [pc EXCEPT ![p] = "rate_delay"]
    BY <1>5, <2>1 DEF RateSave, Goto
  <2> HIDE DEF l
  <2> QED
    BY <2>2, <2>3, RatesUnread, RatesKept
<1>6. CASE RateDelay(p)
  BY <1>6, RatesUnread, RatesKept DEF RateDelay, Goto
<1> QED
  BY <1>1, <1>2, <1>3, <1>4, <1>5, <1>6 DEF Baseline, UpdateRate

LEMMA HeldByTask ==
    ASSUME IInv, OneProcess, Steady, NEW p \in Procs, RecalculateVat(p)
    PROVE  \A q \in Procs : RatesHeld(pc'[q], local'[q], rate', Floors')
<1>0. RatesHeld(pc[p], local[p], rate, Floors) /\ local[p] \in Local
  BY DEF Steady, IInv
<1>1. CASE VatBegin(p)
  <2>1. PICK c \in queued :
            /\ local' = [local EXCEPT ![p] = [Blank EXCEPT
                            !.rates = [Blank.rates EXCEPT ![c] = rate[c]], !.scope = {c}, !.task = c]]
            /\ pc' = [pc EXCEPT ![p] = "vat_rows"]
    BY <1>1 DEF VatBegin, Steady, IInv, StoreOK, Goto
  <2> DEFINE l == [Blank EXCEPT !.rates = [Blank.rates EXCEPT ![c] = rate[c]], !.scope = {c}, !.task = c]
  <2>2. c \in Country
    BY DEF IInv, StoreOK
  <2>3. /\ l.task = c /\ l.scope = {c} /\ l.rates[c] = rate[c] /\ l.lost = {}
        /\ \A m \in Market : l.seen[m] = Null
    BY <2>2 DEF Blank
  <2>4. UNCHANGED rate /\ local' = [local EXCEPT ![p] = l]
    BY <1>1, <2>1 DEF VatBegin
  <2> HIDE DEF l
  <2>5. RatesHeld("vat_rows", l, rate', Floors')
    BY <2>2, <2>3, <2>4 DEF RatesHeld
  <2> QED
    BY <2>1, <2>4, <2>5, RatesKept
<1>2. CASE VatReadRows(p)
  <2> DEFINE ms == (local[p].scope \X Currency) \cap Priced
             l == [local[p] EXCEPT !.seen = RowsIn(ms), !.live = ms, !.floors = Floors]
  <2>1. CASE Finish(p)
    BY <2>1, RatesFinished
  <2>2. CASE ~Finish(p)
    <3>1. /\ local' = [local EXCEPT ![p] = l] /\ pc' = [pc EXCEPT ![p] = "vat_write"]
          /\ UNCHANGED rate /\ pc[p] = "vat_rows"
      BY <1>2, <2>2 DEF VatReadRows, Goto, IInv
    <3>2. /\ l.seen = RowsIn(ms) /\ l.floors = Floors /\ l.scope = local[p].scope /\ l.lost = local[p].lost
          /\ l.task = local[p].task /\ l.rates = local[p].rates /\ ms \subseteq Market
      BY <1>0 DEF Local, Priced
    <3> HIDE DEF l, ms
    <3>3. RatesHeld("vat_write", l, rate', Floors')
      BY <1>0, <3>1, <3>2, FloorsPlain, PlainRead DEF RatesHeld, IInv
    <3> QED
      BY <3>1, <3>3, RatesKept
  <2> QED
    BY <2>1, <2>2
<1>3. CASE VatWrite(p)
  <2>1. /\ local' = [local EXCEPT ![p] = local[p]] /\ pc' = [pc EXCEPT ![p] = "vat_log"]
        /\ UNCHANGED rate /\ pc[p] = "vat_write"
    BY <1>3 DEF VatWrite, Goto, IInv
  <2>2. RatesHeld("vat_log", local[p], rate', Floors')
    BY <1>0, <2>1 DEF RatesHeld
  <2> QED
    BY <2>1, <2>2, RatesKept
<1>4. CASE VatLog(p)
  <2> DEFINE l == [Blank EXCEPT !.scope = RerunScope(local[p]), !.task = local[p].task]
  <2>1. l.lost = Blank.lost /\ l.seen = Blank.seen
    BY DEF Blank
  <2>2. local' = [local EXCEPT ![p] = l] /\ pc' = [pc EXCEPT ![p] = "base_read"]
    BY <1>4 DEF VatLog, Goto
  <2> HIDE DEF l
  <2> QED
    BY <2>1, <2>2, RatesUnread, RatesKept
<1> QED
  BY <1>1, <1>2, <1>3, <1>4 DEF RecalculateVat


-----------------------------------------------------------------------------
(* What the steps of the process leave in the table *)

ConvertedRow(row, r) == ConvertedAt(row.regular, r) /\ ConvertedAt(row.special, r)

\* The rows a recalculation has in hand.
InHand(p, m) == VatWrite(p) /\ m[1] \in local[p].scope

\* Every writer leaves plain rows, converted at the rate in force: the ones it
\* writes anew, the ones that were, and all those that a recalculation has in hand.
LEMMA RowsLeft ==
    ASSUME IInv, OneProcess, Reading, Steady, NEW p \in Procs, StepOf(p),
           NEW m \in Market, rows'[m] # Null
    PROVE  /\ rows'[m].taxed /\ ZeroIsZero(rows'[m].special)
           /\ PlainFloors /\ (rows[m] = Null \/ ConvertedRow(rows[m], rate[m[1]]) \/ InHand(p, m))
                => ConvertedRow(rows'[m], rate[m[1]])
<1> DEFINE l == local[p]
           r == rate[m[1]]
<1>0. /\ RatesHeld(pc[p], l, rate, Floors) /\ l \in Local /\ Held(pc[p], l)
      /\ rows[m] = Null \/ (rows[m] \in Row /\ rows[m].taxed /\ ZeroIsZero(rows[m].special))
      /\ m \in l.live => rows[m] \in Row
      /\ m[1] \in Country
  <2>1. RatesHeld(pc[p], l, rate, Floors) /\ l \in Local /\ Held(pc[p], l)
    BY DEF Steady, IInv, ProcOK
  <2>2. rows[m] = Null \/ (rows[m] \in Row /\ rows[m].taxed /\ ZeroIsZero(rows[m].special))
    BY DEF Steady, IInv, RowsOK
  <2>3. m \in l.live => rows[m] \in Row
    BY DEF IInv, ProcOK
  <2> QED
    BY <2>1, <2>2, <2>3 DEF Market
<1>1. CASE rows'[m] = rows[m] /\ ~InHand(p, m)
  BY <1>0, <1>1
<1>2. CASE EditCommit(p) /\ m \in EditApplied(l)
  <2> DEFINE decision == EditDecision(l, m)
  <2>1. l.rates = rate /\ PlainFloor(l.floors[m[1]]) /\ Held("edit_commit", l)
    BY <1>0, <1>2 DEF EditCommit, RatesHeld
  <2>2. /\ ConvertedAt(decision.values["regular"], r) /\ ConvertedAt(decision.values["special"], r)
        /\ ZeroIsZero(decision.values["special"])
    BY <1>0, <1>2, <2>1, EditConverts
  <2>3. rows'[m] = NewRow(decision)
    BY <1>2 DEF EditCommit
  <2> HIDE DEF decision, r
  <2>4. /\ rows'[m].taxed = TRUE /\ rows'[m].regular = decision.values["regular"]
        /\ rows'[m].special = decision.values["special"]
    BY <2>3 DEF NewRow
  <2>5. rows'[m].taxed /\ ZeroIsZero(rows'[m].special) /\ ConvertedRow(rows'[m], r)
    BY <2>2, <2>4 DEF ConvertedRow
  <2> QED
    BY <2>5 DEF r
<1>3. CASE SpecialWrite(p) /\ m \in SpecialApplied(l) \cap l.live
  <2> DEFINE decision == SpecialDecision(l, m)
  <2>1. /\ l.rates = rate /\ PlainFloor(l.floors[m[1]]) /\ Held("special_write", l)
        /\ l.seen[m].taxed
    BY <1>0, <1>3 DEF SpecialWrite, RatesHeld, SpecialApplied
  <2>2. ConvertedAt(decision.values["special"], r) /\ ZeroIsZero(decision.values["special"])
    BY <1>0, <1>3, <2>1, SpecialConverts
  <2>3. rows'[m] = [rows[m] EXCEPT !.special = decision.values["special"], !.source = decision.source]
    BY <1>3 DEF SpecialWrite
  <2>4. rows[m] \in Row /\ rows[m].taxed /\ rows[m] # Null /\ ~InHand(p, m)
    BY <1>0, <1>3, NullIsNoRow DEF SpecialWrite, InHand, VatWrite
  <2> HIDE DEF decision, r, l
  <2>5. /\ rows'[m].taxed = rows[m].taxed /\ rows'[m].regular = rows[m].regular
        /\ rows'[m].special = decision.values["special"]
    BY <2>3, <2>4 DEF Row
  <2>6. /\ rows'[m].taxed /\ ZeroIsZero(rows'[m].special)
        /\ ConvertedRow(rows[m], r) => ConvertedRow(rows'[m], r)
    BY <2>2, <2>4, <2>5 DEF ConvertedRow
  <2> QED
    BY <2>4, <2>6 DEF r
<1>4. CASE FlushCommit(p) /\ m \in l.live
  <2>1. rows'[m] = [rows[m] EXCEPT !.special = NoPair]
    BY <1>4 DEF FlushCommit
  <2>2. rows[m] \in Row /\ rows[m].taxed /\ rows[m] # Null /\ ~InHand(p, m)
    BY <1>0, <1>4, NullIsNoRow DEF FlushCommit, InHand, VatWrite
  <2>3. ZeroIsZero(NoPair) /\ ConvertedAt(NoPair, r)
    BY NullAssumption DEF ZeroIsZero, NoPair, ConvertedAt
  <2> HIDE DEF l, r
  <2>4. /\ rows'[m].taxed = rows[m].taxed /\ rows'[m].regular = rows[m].regular
        /\ rows'[m].special = NoPair
    BY <2>1, <2>2 DEF Row
  <2>5. /\ rows'[m].taxed /\ ZeroIsZero(rows'[m].special)
        /\ ConvertedRow(rows[m], r) => ConvertedRow(rows'[m], r)
    BY <2>2, <2>3, <2>4 DEF ConvertedRow
  <2> QED
    BY <2>2, <2>5 DEF r
<1>5. CASE BaseCommit(p) /\ rows'[m] # rows[m]
  <2> DEFINE decision == BaseDecision(l, m)
  <2>1. \/ m \in BaseCreated(l) /\ rows'[m] = NewRow(decision)
        \/ m \in BaseApplied(l) \cap l.live /\ rows'[m] = BaseUpdated(rows[m], decision)
    BY <1>5 DEF BaseCommit
  <2>2. l.rates = rate /\ Held("base_commit", l) /\ ~InHand(p, m) /\ m \in BaseApplied(l)
    BY <1>0, <1>5, <2>1 DEF BaseCommit, RatesHeld, InHand, VatWrite, BaseCreated
  <2>3. ConvertedAt(decision.values["regular"], r)
    BY <1>0, <2>2, BaseConverts
  <2>4. CASE m \in BaseCreated(l) /\ rows'[m] = NewRow(decision)
    <3>1. decision.values["special"] = NoPair
      BY <1>0, <2>2, <2>4, BaseStores
    <3>2. ZeroIsZero(NoPair) /\ ConvertedAt(NoPair, r)
      BY NullAssumption DEF ZeroIsZero, NoPair, ConvertedAt
    <3> HIDE DEF decision, r
    <3>3. /\ rows'[m].taxed = TRUE /\ rows'[m].regular = decision.values["regular"]
          /\ rows'[m].special = NoPair
      BY <2>4, <3>1 DEF NewRow
    <3>4. rows'[m].taxed /\ ZeroIsZero(rows'[m].special) /\ ConvertedRow(rows'[m], r)
      BY <2>3, <3>2, <3>3 DEF ConvertedRow
    <3> QED
      BY <3>4 DEF r
  <2>5. CASE m \in l.live /\ rows'[m] = BaseUpdated(rows[m], decision)
    <3>1. rows[m] \in Row /\ rows[m] # Null /\ ZeroIsZero(rows[m].special)
      BY <1>0, <2>5, NullIsNoRow
    <3> HIDE DEF decision, r, l
    <3>2. /\ rows'[m].taxed = TRUE /\ rows'[m].regular = decision.values["regular"]
          /\ rows'[m].special = rows[m].special
      BY <2>5, <3>1 DEF BaseUpdated, Row
    <3>3. /\ rows'[m].taxed /\ ZeroIsZero(rows'[m].special)
          /\ ConvertedRow(rows[m], r) => ConvertedRow(rows'[m], r)
      BY <2>3, <3>1, <3>2 DEF ConvertedRow
    <3> QED
      BY <2>2, <3>1, <3>3 DEF r
  <2> QED
    BY <2>1, <2>4, <2>5
<1>6. CASE VatWrite(p)
  <2> DEFINE decision == VatDecision(l, m)
  <2>1. pc[p] = "vat_write" /\ Following(l, rows)
        /\ \A n \in Market : rows[n] # Null /\ n[1] \in l.scope => l.seen[n] # Null
    BY <1>6 DEF VatWrite, Reading, UpToDate, SeenLabels
  <2>2. CASE m \in VatApplied(l) \cap l.live
    <3>1. l.seen[m] # Null /\ Held("vat_write", l) /\ m[1] \in l.scope
      BY <1>0, <2>1, <2>2 DEF VatApplied, Held
    <3>2. l.rates[m[1]] = r /\ PlainFloor(l.floors[m[1]]) /\ ZeroIsZero(l.seen[m].special)
      BY <1>0, <2>1, <3>1 DEF RatesHeld
    <3>3. /\ ConvertedAt(decision.values["regular"], r)
          /\ PlainFloors => ConvertedAt(decision.values["special"], r)
          /\ ZeroIsZero(decision.values["special"])
      BY <1>0, <2>2, <3>1, <3>2, VatConverts
    <3>4. rows'[m] = [rows[m] EXCEPT !.regular = decision.values["regular"],
                                     !.special = decision.values["special"], !.taxed = TRUE]
      BY <1>6, <2>2 DEF VatWrite
    <3>5. rows[m] \in Row
      BY <1>0, <2>2
    <3> HIDE DEF decision, r, l
    <3>6. /\ rows'[m].taxed = TRUE /\ rows'[m].regular = decision.values["regular"]
          /\ rows'[m].special = decision.values["special"]
      BY <3>4, <3>5 DEF Row
    <3>7. /\ rows'[m].taxed /\ ZeroIsZero(rows'[m].special)
          /\ PlainFloors => ConvertedRow(rows'[m], r)
      BY <3>3, <3>6 DEF ConvertedRow
    <3> QED
      BY <3>7 DEF r
  <2>3. CASE m \notin VatApplied(l) \cap l.live
    <3>1. rows'[m] = rows[m] /\ rows[m] # Null
      BY <1>6, <2>3 DEF VatWrite
    <3>2. m[1] \notin l.scope
      BY <2>1, <2>3, <3>1, MandatoryWrite DEF Following
    <3> QED
      BY <1>1, <3>1, <3>2 DEF InHand
  <2> QED
    BY <2>2, <2>3
<1>7. \/ (rows'[m] = rows[m] /\ ~VatWrite(p)) \/ VatWrite(p)
      \/ EditCommit(p) /\ m \in EditApplied(l)
      \/ SpecialWrite(p) /\ m \in SpecialApplied(l) \cap l.live
      \/ FlushCommit(p) /\ m \in l.live
      \/ BaseCommit(p) /\ rows'[m] # rows[m]
  <2>1. CASE UNCHANGED rows
    BY <2>1
  <2>2. CASE EditCommit(p) \/ SpecialWrite(p) \/ FlushCommit(p) \/ DeleteCommit(p) \/ BaseCommit(p)
    BY <2>2 DEF EditCommit, SpecialWrite, FlushCommit, DeleteCommit
  <2> QED
    BY <2>1, <2>2, RowWritersOf
<1> QED
  BY <1>1, <1>2, <1>3, <1>4, <1>5, <1>6, <1>7 DEF InHand

\* Rates are saved by the tax rate views only.
LEMMA OnlyRateSave ==
    ASSUME NEW p \in Procs, StepOf(p), ~RateSave(p)
    PROVE  UNCHANGED rate
<1>1. CASE Edit(p) \/ EditSpecial(p)
  BY <1>1 DEF Edit, EditBegin, EditReadRows, EditCommit, EditSpecial, SpecialBegin, SpecialWrite, SpecialLog
<1>2. CASE Flush(p) \/ Delete(p)
  BY <1>2 DEF Flush, Delete, FlushRead, FlushCommit, DeleteRead, DeleteCommit, ScopedRead
<1>3. CASE Baseline(p) \/ UpdateRate(p)
  BY <1>3 DEF Baseline, SaveCost, BaseRead, BaseReadRows, BaseCommit, UpdateRate, RateDelay
<1>4. CASE RecalculateVat(p)
  BY <1>4 DEF RecalculateVat, VatBegin, VatReadRows, VatWrite, VatLog
<1>5. CASE IntegrityError(p) \/ Crash(p)
  BY <1>5 DEF IntegrityError, Crash
<1> QED
  BY <1>1, <1>2, <1>3, <1>4, <1>5 DEF StepOf


LEMMA StepSteady ==
    ASSUME IInv, OneProcess, Reading, Steady, NEW p \in Procs, StepOf(p)
    PROVE  Steady'
<1>1. \A q \in Procs : RatesHeld(pc'[q], local'[q], rate', Floors')
  <2>1. CASE IntegrityError(p)
    BY <2>1, RatesFinished DEF IntegrityError
  <2>2. CASE Crash(p)
    BY <2>2, RatesUnread, RatesKept DEF Crash, Goto
  <2> QED
    BY <2>1, <2>2, HeldByEdit, HeldByRemoval, HeldByBaseline, HeldByTask DEF StepOf
<1>2. \A c \in Country : rate'[c] # Null
  <2>1. CASE RateSave(p)
    BY <2>1, AmountAssumption, NullAssumption DEF RateSave, Steady, IInv, StoreOK
  <2>2. CASE ~RateSave(p)
    BY <2>2, OnlyRateSave DEF Steady
  <2> QED
    BY <2>1, <2>2
<1>3. \A m \in Market : rows'[m] # Null => rows'[m].taxed /\ ZeroIsZero(rows'[m].special)
  BY RowsLeft
<1> QED
  BY <1>1, <1>2, <1>3 DEF Steady

\* Where no tax rate is removed, all steps but those of the process change neither
\* rows nor rates nor what the process is doing.
LEMMA OtherSteps ==
    ASSUME ~RatesRemoved, Steady, [Next]_vars, \A p \in Procs : ~StepOf(p)
    PROVE  /\ UNCHANGED <<rows, history, rate, cost, queued, pc, local>>
           /\ tombstone' => tombstone
<1>1. \A c \in Country : ~RateCreate(c) /\ ~RateDestroy(c)
  BY DEF RateCreate, RateDestroy, Steady
<1> QED
  BY <1>1 DEF Next, StepOf, RemoveTombstone, OnceExpires, vars

LEMMA NextSteady ==
    ASSUME IInv, OneProcess, ~RatesRemoved, Reading, Steady, [Next]_vars
    PROVE  Steady'
<1>1. CASE \E p \in Procs : StepOf(p)
  BY <1>1, StepSteady
<1>2. CASE \A p \in Procs : ~StepOf(p)
  <2>1. UNCHANGED <<rows, rate, cost, pc, local>>
    BY <1>2, OtherSteps
  <2> QED
    BY <2>1 DEF Steady, Floors
<1> QED
  BY <1>1, <1>2

-----------------------------------------------------------------------------
(* Rates settle *)

\* A country whose prices are still to be treated: its task waits, or the process
\* is on its way with the country in its scope.
Busy(c, labels) == c \in queued \/ \E p \in Procs : pc[p] \in labels /\ c \in local[p].scope

VatDue == {"rate_delay", "vat_rows", "vat_write"}

\* Without calls that overlap no commit is refused.
LEMMA NeverRefused ==
    ASSUME IInv, Reading, Steady, NEW p \in Procs
    PROVE  ~IntegrityError(p)
<1>1. local[p].lost = {}
  BY DEF Steady, RatesHeld
<1>2. ASSUME NEW m \in Inserting(p), m \in Priced PROVE FALSE
  <2>1. pc[p] = "base_commit" /\ m \in BaseApplied(local[p]) /\ local[p].sources[m] = Null
    BY <1>2 DEF Inserting, BaseCreated
  <2>2. m \in Market /\ local[p].sources[m] = SourceOf(rows, m)
    BY <2>1 DEF Reading, UpToDate, BaseApplied, BaseTargets
  <2>3. rows[m].source # Null
    BY <1>2, <2>2, SourceAssumption DEF Priced, IInv, RowsOK, Row
  <2> QED
    BY <1>2, <2>1, <2>2, <2>3 DEF Priced, SourceOf
<1> QED
  BY <1>1, <1>2 DEF IntegrityError

\* The one step of a process that has saved a rate.
LEMMA DelayNext ==
    ASSUME NEW p \in Procs, pc[p] = "rate_delay", StepOf(p)
    PROVE  RateDelay(p) \/ IntegrityError(p) \/ Crash(p)
<1>1. ~Edit(p) /\ ~EditSpecial(p)
  BY DEF Edit, EditBegin, EditReadRows, EditCommit, EditSpecial, SpecialBegin, SpecialWrite, SpecialLog
<1>2. ~Flush(p) /\ ~Delete(p)
  BY DEF Flush, Delete, FlushRead, FlushCommit, DeleteRead, DeleteCommit, ScopedRead
<1>3. ~Baseline(p) /\ ~RateSave(p)
  BY DEF Baseline, SaveCost, BaseRead, BaseReadRows, BaseCommit, RateSave
<1>4. ~RecalculateVat(p)
  BY DEF RecalculateVat, VatBegin, VatReadRows, VatWrite, VatLog
<1> QED
  BY <1>1, <1>2, <1>3, <1>4 DEF StepOf, UpdateRate

\* The queue loses a task only to a process that takes it.
LEMMA QueueKept ==
    ASSUME IInv, ScopeInv, Steady, ~MayCrash, NEW p \in Procs, StepOf(p), NEW c \in queued
    PROVE  Busy(c, VatDue)'
<1>1. CASE VatBegin(p)
  <2>1. PICK d \in queued :
            /\ queued' = queued \ {d} /\ pc' = [pc EXCEPT ![p] = "vat_rows"]
            /\ local' = [local EXCEPT ![p] = [Blank EXCEPT
                            !.rates = [Blank.rates EXCEPT ![d] = rate[d]], !.scope = {d}, !.task = d]]
    BY <1>1 DEF VatBegin, Steady, IInv, StoreOK, Goto
  <2>2. pc'[p] = "vat_rows" /\ local'[p].scope = {d}
    BY <2>1 DEF IInv, Blank
  <2> QED
    BY <2>1, <2>2 DEF Busy, VatDue
<1>2. CASE RateDelay(p)
  BY <1>2 DEF RateDelay, Busy
<1>3. CASE ~VatBegin(p) /\ ~RateDelay(p)
  BY <1>3, TaskFate DEF Busy
<1> QED
  BY <1>1, <1>2, <1>3

\* A country stays to be treated until its rows are in hand, unless it has none.
LEMMA VatGoesOn ==
    ASSUME IInv, OneProcess, Reading, ScopeInv, Steady, LocksAreInUse, ~MayCrash,
           NEW p \in Procs, StepOf(p), NEW c \in Country, Busy(c, VatDue)
    PROVE  \/ Busy(c, VatDue)'
           \/ VatWrite(p) /\ c \in local[p].scope
           \/ \A m \in Market : m[1] = c => rows'[m] = Null
<1>0. \A q \in Procs : q = p
  BY DEF OneProcess
<1>1. CASE c \in queued
  BY <1>1, QueueKept
<1>2. CASE pc[p] = "rate_delay" /\ c \in local[p].scope
  <2>1. RateDelay(p)
    BY <1>2, DelayNext, NeverRefused DEF Crash
  <2>2. local[p].task = Null
    BY <1>2 DEF ScopeInv, TaskLabels
  <2>3. c \in once => c \in queued
    BY <1>0, <2>2, NullIsNoName DEF LocksAreInUse
  <2> QED
    BY <1>2, <2>1, <2>3 DEF RateDelay, Busy
<1>3. CASE pc[p] = "vat_rows" /\ c \in local[p].scope
  <2>1. VatReadRows(p)
    BY <1>3, TaskSteps, NeverRefused DEF TaskLabels, Crash, VatWrite, VatLog, BaseRead, BaseReadRows,
       BaseCommit
  <2> DEFINE ms == (local[p].scope \X Currency) \cap Priced
             l == [local[p] EXCEPT !.seen = RowsIn(ms), !.live = ms, !.floors = Floors]
  <2>2. CASE ms = {}
    <3>1. ASSUME NEW m \in Market, m[1] = c PROVE rows'[m] = Null
      <4>1. m \notin Priced
        BY <1>3, <2>2, <3>1 DEF Market
      <4> QED
        BY <2>1, <4>1 DEF VatReadRows, Priced
    <3> QED
      BY <3>1
  <2>3. CASE ms # {}
    <3>1. local' = [local EXCEPT ![p] = l] /\ pc' = [pc EXCEPT ![p] = "vat_write"]
      BY <2>1, <2>3 DEF VatReadRows, Goto, IInv
    <3>2. l.scope = local[p].scope
      BY DEF IInv, Local
    <3> HIDE DEF l
    <3>3. pc'[p] = "vat_write" /\ local'[p].scope = local[p].scope
      BY <3>1, <3>2 DEF IInv
    <3> QED
      BY <1>3, <3>3 DEF Busy, VatDue
  <2> QED
    BY <2>2, <2>3
<1>4. CASE pc[p] = "vat_write" /\ c \in local[p].scope
  <2>1. VatWrite(p)
    BY <1>4, TaskSteps, NeverRefused DEF TaskLabels, Crash, VatReadRows, VatLog, BaseRead, BaseReadRows,
       BaseCommit
  <2> QED
    BY <1>4, <2>1
<1> QED
  BY <1>0, <1>1, <1>2, <1>3, <1>4 DEF Busy, VatDue

\* A row is converted at the rate in force, or is going to be.
Converted ==
    \A m \in Market : rows[m] # Null => Busy(m[1], VatDue) \/ ConvertedRow(rows[m], rate[m[1]])

LEMMA NextConverted ==
    ASSUME IInv, OneProcess, ~RatesRemoved, ~MayCrash, PlainFloors,
           Reading, ScopeInv, Steady, LocksAreInUse, Converted, [Next]_vars
    PROVE  Converted'
<1>1. ASSUME NEW p \in Procs, StepOf(p), NEW m \in Market, rows'[m] # Null
      PROVE  Busy(m[1], VatDue)' \/ ConvertedRow(rows'[m], rate'[m[1]])
  <2>1. m[1] \in Country
    BY DEF Market
  <2>2. CASE rate'[m[1]] = rate[m[1]]
    <3>1. CASE rows[m] = Null \/ ConvertedRow(rows[m], rate[m[1]]) \/ InHand(p, m)
      BY <1>1, <2>2, <3>1, RowsLeft
    <3>2. CASE Busy(m[1], VatDue) /\ ~InHand(p, m)
      BY <1>1, <2>1, <3>2, VatGoesOn DEF InHand
    <3> QED
      BY <3>1, <3>2 DEF Converted
  <2>3. CASE rate'[m[1]] # rate[m[1]]
    <3>1. RateSave(p)
      BY <1>1, <2>3, OnlyRateSave
    <3>2. PICK c \in Country, r \in Rates :
              rate' = [rate EXCEPT ![c] = r] /\ local' = [local EXCEPT ![p] = [Blank EXCEPT !.scope = {c}]]
      BY <3>1 DEF RateSave
    <3>3. c = m[1]
      BY <2>1, <2>3, <3>2 DEF IInv, StoreOK
    <3>4. pc'[p] = "rate_delay" /\ local'[p].scope = {c}
      BY <3>1, <3>2 DEF RateSave, Goto, IInv, Blank
    <3> QED
      BY <3>3, <3>4 DEF Busy, VatDue
  <2> QED
    BY <2>2, <2>3
<1>2. CASE \E p \in Procs : StepOf(p)
  BY <1>1, <1>2 DEF Converted
<1>3. CASE \A p \in Procs : ~StepOf(p)
  <2>1. UNCHANGED <<rows, rate, queued, pc, local>>
    BY <1>3, OtherSteps
  <2> QED
    BY <2>1 DEF Converted, Busy
<1> QED
  BY <1>2, <1>3

\* What holds throughout of the process, the rates and the locks.
LEMMA SerialInvariance ==
    ASSUME OneProcess, ~RatesRemoved, ~MayCrash
    PROVE  Spec => [](IInv /\ Reading /\ ScopeInv /\ Steady /\ LocksAreInUse)
<1>1. Init => ScopeInv /\ Steady /\ LocksAreInUse
  <2> SUFFICES ASSUME Init PROVE ScopeInv /\ Steady /\ LocksAreInUse
    OBVIOUS
  <2>1. ScopeInv
    BY DEF Init, ScopeInv, Blank
  <2>2. Steady
    <3>1. \A c \in Country : rate[c] # Null
      <4>1. \A c \in Country : rate[c] \in Rates
        BY DEF Init
      <4>2. Rates \subseteq Nat
        BY AmountAssumption
      <4>3. Null \notin Nat
        BY NullAssumption
      <4> QED
        BY <4>1, <4>2, <4>3
    <3>2. \A m \in Market : rows[m] = Null
      BY DEF Init
    <3>3. \A p \in Procs : pc[p] = "idle" /\ local[p] = Blank
      BY DEF Init
    <3>4. \A p \in Procs : RatesHeld(pc[p], local[p], rate, Floors)
      BY <3>3, RatesUnread
    <3> QED
      BY <3>1, <3>2, <3>4 DEF Steady
  <2> QED
    BY <2>1, <2>2 DEF Init, LocksAreInUse
<1>2. IInv /\ ScopeInv /\ [Next]_vars => ScopeInv'
  BY NextScopeInv
<1>3. IInv /\ Reading /\ Steady /\ [Next]_vars => Steady'
  BY NextSteady
<1>4. IInv /\ ScopeInv /\ LocksAreInUse /\ [Next]_vars => LocksAreInUse'
  BY NextLocksAreInUse
<1> QED
  BY <1>1, <1>2, <1>3, <1>4, Invariance, ReadingHolds, PTL DEF Spec

-----------------------------------------------------------------------------
(* The history *)

\* The newest entry of a priced market has its regular price.
Current(m) == history[m] # Null /\ history[m].regular = rows[m].regular

\* Only a recalculation has rows that the history does not have yet, between its
\* two transactions.
Logged ==
    \A m \in Market : rows[m] # Null =>
        \/ Current(m)
        \/ \E p \in Procs : pc[p] = "vat_log" /\ m \in VatApplied(local[p])

\* While rates are not deleted, the history insert of a recalculation cannot fail.
LEMMA LogNeverFails ==
    ASSUME Steady, NEW p \in Procs, pc[p] = "vat_log", StepOf(p), ~MayCrash
    PROVE  VatLog(p)
<1>1. ~IntegrityError(p) /\ ~Crash(p)
  BY DEF Steady, RatesHeld, IntegrityError, Inserting, Crash
<1>2. ~VatReadRows(p) /\ ~VatWrite(p) /\ ~BaseRead(p) /\ ~BaseReadRows(p) /\ ~BaseCommit(p)
  BY DEF VatReadRows, VatWrite, BaseRead, BaseReadRows, BaseCommit
<1> QED
  BY <1>1, <1>2, TaskSteps DEF TaskLabels

\* A step of the process that begins with a complete history.
LEMMA StepLogs ==
    ASSUME IInv, OneProcess, Reading, NEW p \in Procs, StepOf(p), pc[p] # "vat_log", ~VatWrite(p),
           \A m \in Market : rows[m] # Null => Current(m)
    PROVE  \A m \in Market : rows'[m] # Null => Current(m)'
<1> SUFFICES ASSUME NEW m \in Market, rows'[m] # Null PROVE Current(m)'
  OBVIOUS
<1> DEFINE l == local[p]
<1>1. (rows[m] = Null \/ rows[m] \in Row) /\ l \in Local
  BY DEF IInv, RowsOK
<1>2. CASE UNCHANGED <<rows, history>>
  BY <1>2 DEF Current
<1>3. CASE EditCommit(p)
  <2>1. CASE m \in EditApplied(l)
    <3>1. /\ rows'[m] = NewRow(EditDecision(l, m))
          /\ history'[m] = EntryOf(NewRow(EditDecision(l, m)))
      BY <1>3, <2>1 DEF EditCommit
    <3>2. Held("edit_commit", l)
      BY <1>3 DEF EditCommit, IInv, ProcOK
    <3>3. history'[m] \in Entry
      BY <1>1, <2>1, <3>1, <3>2, EditStores, EntryOfRow DEF SoundRow
    <3> QED
      BY <3>1, <3>3, NullIsNoEntry DEF EntryOf, Current
  <2>2. CASE m \notin EditApplied(l)
    BY <1>3, <2>2 DEF EditCommit, Current
  <2> QED
    BY <2>1, <2>2
<1>4. CASE SpecialWrite(p)
  <2>1. rows[m] # Null /\ rows'[m].regular = rows[m].regular
    <3>1. m \in SpecialApplied(l) => rows[m] # Null \/ rows'[m] = rows[m]
      BY <1>4 DEF SpecialWrite, Reading, UpToDate, SeenLabels, Following, SpecialApplied
    <3>2. \/ rows'[m] = rows[m]
          \/ rows'[m] = [rows[m] EXCEPT !.special = SpecialDecision(l, m).values["special"],
                                        !.source = SpecialDecision(l, m).source]
             /\ m \in SpecialApplied(l)
      BY <1>4 DEF SpecialWrite
    <3> QED
      BY <1>1, <3>1, <3>2 DEF Row
  <2> QED
    BY <1>4, <2>1 DEF SpecialWrite, Current
<1>5. CASE SpecialLog(p)
  <2>1. CASE m \in SpecialApplied(l)
    <3>1. history'[m] = [regular |-> l.seen[m].regular,
                         special |-> SpecialDecision(l, m).values["special"]]
      BY <1>5, <2>1 DEF SpecialLog
    <3>2. l.seen[m] # Null /\ Following(l, rows) /\ Held("special_log", l)
      BY <1>5, <2>1 DEF SpecialLog, SpecialApplied, Reading, UpToDate, SeenLabels, IInv, ProcOK
    <3>3. SpecialDecision(l, m).values["special"] \in SpecialPair
      BY <1>1, <2>1, <3>2, SpecialStores DEF SoundPair, Whole, SpecialPair
    <3>4. history'[m] \in Entry
      BY <1>1, <3>1, <3>2, <3>3 DEF Local, Row, Entry
    <3> QED
      BY <1>5, <3>1, <3>2, <3>4, NullIsNoEntry DEF SpecialLog, Following, Current
  <2>2. CASE m \notin SpecialApplied(l)
    BY <1>5, <2>2 DEF SpecialLog, Current
  <2> QED
    BY <2>1, <2>2
<1>6. CASE FlushCommit(p) \/ DeleteCommit(p)
  <2>1. Following(l, rows)
    BY <1>6 DEF FlushCommit, DeleteCommit, Reading, UpToDate, SeenLabels
  <2>2. rows[m] # Null /\ rows'[m].regular = rows[m].regular
    <3>1. m \in l.live => rows[m] \in Row
      BY DEF IInv, ProcOK
    <3>2. \/ rows'[m] = rows[m]
          \/ m \in l.live /\ rows'[m] = [rows[m] EXCEPT !.special = NoPair]
      BY <1>6 DEF FlushCommit, DeleteCommit
    <3> QED
      BY <1>1, <3>1, <3>2, NullIsNoRow DEF Row
  <2>3. history'[m] = IF l.seen[m] # Null THEN EntryOf(l.seen[m]) ELSE history[m]
    BY <1>6 DEF FlushCommit, DeleteCommit, LogSeen
  <2>4. CASE l.seen[m] # Null
    <3>1. l.seen[m] \in Row
      BY <1>1, <2>4 DEF Local
    <3>2. EntryOf(l.seen[m]) \in Entry /\ EntryOf(l.seen[m]).regular = l.seen[m].regular
      BY <3>1, EntryOfRow DEF EntryOf
    <3> QED
      BY <2>1, <2>2, <2>3, <2>4, <3>2, NullIsNoEntry DEF Following, Current
  <2>5. CASE l.seen[m] = Null
    BY <2>2, <2>3, <2>5 DEF Current
  <2> QED
    BY <2>4, <2>5
<1>7. CASE BaseCommit(p)
  <2> DEFINE decision == BaseDecision(l, m)
  <2>1. CASE m \in BaseApplied(l)
    <3>1. /\ m[1] \in l.scope /\ m[2] = CostCurrency
      BY <2>1 DEF BaseApplied, BaseTargets
    <3>2. /\ l.sources[m] = SourceOf(rows, m) /\ (rows[m] # Null => m \in l.live)
          /\ Held("base_commit", l)
      BY <1>7, <3>1 DEF BaseCommit, Reading, UpToDate, IInv, ProcOK
    <3>3. m \notin BaseCreated(l) => rows[m] # Null /\ m \in l.live
      BY <2>1, <3>2 DEF BaseCreated, SourceOf
    <3>4. \/ rows'[m] = NewRow(decision)
          \/ rows'[m] = BaseUpdated(rows[m], decision) /\ rows[m] \in Row
      BY <1>1, <1>7, <2>1, <3>3 DEF BaseCommit
    <3>5. history'[m] = [regular |-> decision.values["regular"], special |-> NoPair]
      BY <1>7, <2>1 DEF BaseCommit
    <3>6. decision.values["regular"] \in FullPair
      BY <1>1, <2>1, <3>2, BaseStores DEF SoundPair, Whole
    <3> HIDE DEF decision
    <3>7. rows'[m].regular = decision.values["regular"]
      <4>1. NewRow(decision).regular = decision.values["regular"]
        BY DEF NewRow
      <4>2. rows[m] \in Row => BaseUpdated(rows[m], decision).regular = decision.values["regular"]
        BY DEF BaseUpdated, Row
      <4> QED
        BY <3>4, <4>1, <4>2
    <3>8. history'[m] \in Entry
      BY <3>5, <3>6 DEF Entry, SpecialPair
    <3> QED
      BY <3>5, <3>7, <3>8, NullIsNoEntry DEF Current
  <2>2. CASE m \notin BaseApplied(l)
    BY <1>7, <2>2 DEF BaseCommit, BaseCreated, Current
  <2> QED
    BY <2>1, <2>2
<1>8. \/ UNCHANGED <<rows, history>> \/ EditCommit(p) \/ SpecialWrite(p) \/ SpecialLog(p)
      \/ FlushCommit(p) \/ DeleteCommit(p) \/ BaseCommit(p)
  <2>1. CASE Edit(p) \/ EditSpecial(p)
    BY <2>1 DEF Edit, EditBegin, EditReadRows, EditSpecial, SpecialBegin
  <2>2. CASE Flush(p) \/ Delete(p)
    BY <2>2 DEF Flush, Delete, FlushRead, DeleteRead, ScopedRead
  <2>3. CASE Baseline(p) \/ UpdateRate(p)
    BY <2>3 DEF Baseline, SaveCost, BaseRead, BaseReadRows, UpdateRate, RateSave, RateDelay
  <2>4. CASE RecalculateVat(p)
    BY <2>4 DEF RecalculateVat, VatBegin, VatReadRows, VatLog
  <2>5. CASE IntegrityError(p) \/ Crash(p)
    BY <2>5 DEF IntegrityError, Crash
  <2> QED
    BY <2>1, <2>2, <2>3, <2>4, <2>5 DEF StepOf
<1> QED
  BY <1>2, <1>3, <1>4, <1>5, <1>6, <1>7, <1>8

LEMMA NextLogged ==
    ASSUME OneProcess, ~RatesRemoved, ~MayCrash, IInv, Reading, Steady, Logged, [Next]_vars
    PROVE  Logged'
<1>1. ASSUME NEW p \in Procs, StepOf(p), pc[p] = "vat_log" PROVE Logged'
  <2> DEFINE l == local[p]
  <2>1. VatLog(p)
    BY <1>1, LogNeverFails
  <2>2. /\ UNCHANGED rows
        /\ \A m \in Market : history'[m] = IF m \in VatApplied(l) THEN VatEntry(l, m) ELSE history[m]
    BY <2>1 DEF VatLog
  <2>3. ASSUME NEW m \in Market, rows[m] # Null PROVE Current(m)'
    <3>1. CASE m \in VatApplied(l)
      <4>1. rows[m].regular = VatDecision(l, m).values["regular"]
        BY <1>1, <3>1 DEF Reading, UpToDate
      <4>2. l \in Local /\ Held("vat_log", l)
        BY <1>1 DEF IInv, ProcOK
      <4>3. VatEntry(l, m) \in Entry /\ VatEntry(l, m).regular = VatDecision(l, m).values["regular"]
        BY <3>1, <4>2, VatStores DEF VatEntry, Entry, SpecialPair, SoundPair, Whole
      <4> QED
        BY <2>2, <3>1, <4>1, <4>3, NullIsNoEntry DEF Current
    <3>2. CASE m \notin VatApplied(l)
      BY <1>1, <2>2, <2>3, <3>2 DEF Logged, Current, OneProcess
    <3> QED
      BY <3>1, <3>2
  <2> QED
    BY <2>2, <2>3 DEF Logged
<1>2. ASSUME NEW p \in Procs, StepOf(p), pc[p] # "vat_log" PROVE Logged'
  <2>1. \A m \in Market : rows[m] # Null => Current(m)
    BY <1>2 DEF Logged, OneProcess
  <2>2. CASE VatWrite(p)
    <3>1. pc'[p] = "vat_log" /\ local'[p] = local[p] /\ UNCHANGED history
      BY <2>2 DEF VatWrite, Goto, IInv
    <3>2. \A m \in Market : m \notin VatApplied(local[p]) => rows'[m] = rows[m]
      BY <2>2 DEF VatWrite
    <3> QED
      BY <2>1, <3>1, <3>2 DEF Logged, Current
  <2>3. CASE ~VatWrite(p)
    BY <1>2, <2>1, <2>3, StepLogs DEF Logged
  <2> QED
    BY <2>2, <2>3
<1>3. CASE \A p \in Procs : ~StepOf(p)
  <2>1. UNCHANGED <<rows, history, pc, local>>
    BY <1>3, OtherSteps
  <2> QED
    BY <2>1 DEF Logged, Current
<1> QED
  BY <1>1, <1>2, <1>3

\* Without calls that overlap, killed processes and deleted rates, the newest history
\* entry of every priced market has its regular price when nothing is running or
\* waiting: the code logs what it writes.
THEOREM HistoryKeepsUp ==
    ASSUME OneProcess, ~RatesRemoved, ~MayCrash
    PROVE  Spec => []HistoryCurrent
<1> DEFINE Inv == IInv /\ Reading /\ ScopeInv /\ Steady /\ LocksAreInUse
<1>1. Init => Logged
  BY DEF Init, Logged
<1>2. Inv /\ Logged /\ [Next]_vars => Logged'
  BY NextLogged
<1>3. Logged => HistoryCurrent
  BY DEF Logged, Current, HistoryCurrent, Quiet, Priced
<1> HIDE DEF Inv
<1>4. Spec => []Inv
  BY SerialInvariance DEF Inv
<1> QED
  BY <1>1, <1>2, <1>3, <1>4, PTL DEF Spec


-----------------------------------------------------------------------------
(* The prices follow the rates *)

\* Without calls that overlap, every accepted change of a tax rate reaches every
\* price it is about: when nothing runs or waits, all prices are converted at the
\* rates in force.
THEOREM RatesReachPrices ==
    ASSUME OneProcess, ~RatesRemoved, ~MayCrash, PlainFloors
    PROVE  Spec => []RatesSettled
<1> DEFINE Inv == IInv /\ Reading /\ ScopeInv /\ Steady /\ LocksAreInUse
<1>1. Init => Converted
  BY DEF Init, Converted
<1>2. Inv /\ Converted /\ [Next]_vars => Converted'
  BY NextConverted
<1>3. Inv /\ Converted => RatesSettled
  <2> SUFFICES ASSUME Inv, Converted, Quiet, NEW m \in Priced, rows[m].taxed
               PROVE  /\ Coherent(rows[m].regular, rate[m[1]])
                      /\ rows[m].special # NoPair => Coherent(rows[m].special, rate[m[1]])
    BY DEF RatesSettled
  <2>1. m \in Market /\ rows[m] # Null /\ ~Busy(m[1], VatDue)
    BY DEF Priced, Busy, Quiet, VatDue
  <2>2. ConvertedRow(rows[m], rate[m[1]])
    BY <2>1 DEF Converted
  <2>3. rows[m].regular \in FullPair
    BY <2>1 DEF IInv, RowsOK, Row
  <2>4. NoPair \notin FullPair
    BY NullAssumption DEF NoPair, FullPair, Amount
  <2> HIDE DEF Inv
  <2> QED
    BY <2>2, <2>3, <2>4 DEF ConvertedRow, ConvertedAt
<1> HIDE DEF Inv
<1>4. Spec => []Inv
  BY SerialInvariance DEF Inv
<1> QED
  BY <1>1, <1>2, <1>3, <1>4, PTL DEF Spec


-----------------------------------------------------------------------------
(* The cost settles *)

\* The policy of the baseline source is not to reject prices below the floor (the
\* default of a policy, and what holds without one, is to raise them).  If it is,
\* a baseline price stays what it was when its new value would be below the floor.
BaselineClamps == EnforceMode("baseline", Policy) # "reject"

\* A gross amount that is the baseline of the cost and the rate in force, raised to
\* the floor.
AtBaseline(gross, c) ==
    gross = MaxOptional(BaselineGross(cost, rate[c], Markup, Rounding), Floors[c])

\* A baseline recalculation stores the baseline, raised to the floor.
LEMMA BaseExact ==
    ASSUME NEW l \in Local, Held("base_commit", l), NEW m \in BaseApplied(l)
    PROVE  BaseDecision(l, m).values["regular"].gross =
                MaxOptional(BaselineGross(l.cost, l.rates[m[1]], Markup, Rounding), l.floors[m[1]])
<1> DEFINE r == l.rates[m[1]]
           gross == BaselineGross(l.cost, r, Markup, Rounding)
           floor == l.floors[m[1]]
           pair == [net |-> NetPrice(gross, r), gross |-> gross]
           values == IF l.sources[m] = Null THEN [regular |-> pair, special |-> NoPair]
                                            ELSE [regular |-> pair]
           decision == BaseDecision(l, m)
           result == decision.values["regular"]
<1>1. m \in Market /\ m[1] \in Country /\ r # Null /\ decision.status # "skipped"
  BY DEF BaseApplied, BaseTargets, Market
<1>2. r \in Rates /\ r \in Nat /\ l.cost \in Nat /\ floor \in Nat \cup {Null}
  BY <1>1, AmountAssumption DEF Local, Held, Amount
<1>3. gross \in Nat
  BY <1>2, BaselineType, AmountAssumption
<1>4. NetPrice(gross, r) \in Nat
  BY <1>2, <1>3, ConversionType
<1>5. values["regular"] = pair /\ "regular" \in DOMAIN values
  OBVIOUS
<1>6. pair \in Filled /\ pair # NoPair /\ pair.gross = gross
  BY <1>3, <1>4, NullAssumption DEF Filled, Amount, NoPair
<1>7. decision = GuardPriceWrite(l.sources[m], values, "baseline", Null, floor, r, Policy)
  BY DEF BaseDecision
<1>8. result = IF floor # Null /\ Violations(values, floor) # {}
               THEN Clamped(values, floor, r)["regular"] ELSE values["regular"]
  <2> HIDE DEF values, decision, r, floor
  <2> QED
    BY <1>1, <1>7, DecisionToWrite
<1>9. floor # Null => ("regular" \in Violations(values, floor) <=> gross < floor)
  <2> HIDE DEF values, pair, floor, r, gross
  <2> QED
    BY <1>3, <1>5, <1>6, NullAssumption DEF Violations
<1>10. Clamped(values, floor, r)["regular"].gross =
            IF "regular" \in Violations(values, floor) THEN floor ELSE gross
  <2> HIDE DEF values, pair, floor, r, gross
  <2> QED
    BY <1>5, <1>6 DEF Clamped
<1>11. result.gross = IF floor # Null /\ gross < floor THEN floor ELSE gross
  <2> HIDE DEF values, pair, floor, r, gross, result
  <2> QED
    BY <1>5, <1>6, <1>8, <1>9, <1>10
<1>12. gross # Null
  BY <1>3, NullAssumption
<1> HIDE DEF values, pair, floor, r, gross, result
<1>13. result.gross = MaxOptional(gross, floor)
  BY <1>2, <1>3, <1>11, <1>12 DEF MaxOptional
<1> QED
  BY <1>13 DEF result, gross, floor, r

\* What a baseline recalculation decided to store is what the row has then.
LEMMA BaseWrites ==
    ASSUME IInv, Reading, NEW p \in Procs, BaseCommit(p), NEW m \in BaseApplied(local[p])
    PROVE  rows'[m].regular = BaseDecision(local[p], m).values["regular"]
<1> DEFINE l == local[p]
           decision == BaseDecision(l, m)
<1>1. m \in Market /\ m[1] \in l.scope /\ m[2] = CostCurrency
  BY DEF BaseApplied, BaseTargets
<1>2. l.sources[m] = SourceOf(rows, m) /\ (rows[m] # Null => m \in l.live)
  BY <1>1 DEF BaseCommit, Reading, UpToDate
<1>3. m \notin BaseCreated(l) => rows[m] # Null /\ m \in l.live
  BY <1>2 DEF BaseCreated, SourceOf
<1>4. \/ rows'[m] = NewRow(decision)
      \/ rows'[m] = BaseUpdated(rows[m], decision) /\ rows[m] \in Row
  <2>1. rows[m] = Null \/ rows[m] \in Row
    BY <1>1 DEF IInv, RowsOK
  <2> QED
    BY <1>1, <1>3, <2>1 DEF BaseCommit
<1> HIDE DEF decision
<1>5. NewRow(decision).regular = decision.values["regular"]
  BY DEF NewRow
<1>6. rows[m] \in Row => BaseUpdated(rows[m], decision).regular = decision.values["regular"]
  BY DEF BaseUpdated, Row
<1>7. rows'[m].regular = decision.values["regular"]
  BY <1>4, <1>5, <1>6
<1> QED
  BY <1>7 DEF decision

\* A baseline price is never passed over by a baseline recalculation.
LEMMA BaselineRewrites ==
    ASSUME IInv, Reading, Steady, BaselineClamps, NEW p \in Procs, pc[p] = "base_commit",
           NEW m \in Market, m[1] \in local[p].scope, m[2] = CostCurrency,
           rows[m] # Null, rows[m].source = "baseline"
    PROVE  m \in BaseApplied(local[p])
<1> DEFINE l == local[p]
<1>1. l.rates = rate /\ rate[m[1]] # Null
  BY DEF Steady, RatesHeld, Market
<1>2. l.sources[m] = "baseline"
  BY DEF Reading, UpToDate, SourceOf
<1>3. PrecedenceAllows("baseline", l.sources[m], Policy)
  BY <1>2 DEF PrecedenceAllows
<1>4. \A values, floor, r :
        GuardPriceWrite(l.sources[m], values, "baseline", Null, floor, r, Policy).status # "skipped"
  BY <1>3 DEF GuardPriceWrite, Decision, BaselineClamps
<1>5. BaseDecision(l, m).status # "skipped"
  BY <1>4 DEF BaseDecision
<1> QED
  BY <1>1, <1>5 DEF BaseApplied, BaseTargets


\* The steps that change the regular price of a row.
LEMMA RegularWriters ==
    ASSUME IInv, NEW p \in Procs, StepOf(p), NEW m \in Market, rows[m] # Null, rows'[m] # Null
    PROVE  \/ rows'[m].regular = rows[m].regular
           \/ EditCommit(p) /\ m \in EditApplied(local[p])
           \/ BaseCommit(p) /\ m \in BaseApplied(local[p])
           \/ VatWrite(p) /\ m[1] \in local[p].scope
<1> DEFINE l == local[p]
<1>1. rows[m] \in Row
  BY DEF IInv, RowsOK
<1>2. CASE UNCHANGED rows
  BY <1>2
<1>3. CASE EditCommit(p)
  BY <1>3 DEF EditCommit
<1>4. CASE SpecialWrite(p)
  <2>1. \/ rows'[m] = rows[m]
        \/ rows'[m] = [rows[m] EXCEPT !.special = SpecialDecision(l, m).values["special"],
                                      !.source = SpecialDecision(l, m).source]
    BY <1>4 DEF SpecialWrite
  <2> QED
    BY <1>1, <2>1 DEF Row
<1>5. CASE FlushCommit(p) \/ DeleteCommit(p)
  <2>1. rows'[m] = rows[m] \/ rows'[m] = [rows[m] EXCEPT !.special = NoPair]
    BY <1>5 DEF FlushCommit, DeleteCommit
  <2> QED
    BY <1>1, <2>1 DEF Row
<1>6. CASE BaseCommit(p)
  BY <1>6 DEF BaseCommit, BaseCreated
<1>7. CASE VatWrite(p)
  <2>1. rows'[m] = rows[m] \/ l.seen[m] # Null
    BY <1>7 DEF VatWrite, VatApplied
  <2>2. l.seen[m] # Null => m[1] \in l.scope
    BY <1>7 DEF VatWrite, IInv, ProcOK, Held
  <2> QED
    BY <1>7, <2>1, <2>2
<1> QED
  BY <1>2, <1>3, <1>4, <1>5, <1>6, <1>7, RowWritersOf

BaseDue == VatDue \cup {"vat_log", "base_read", "base_rows", "base_commit"}

\* A country's baseline prices stay to be computed until they are, unless it has
\* none or none may be computed.
LEMMA BaseGoesOn ==
    ASSUME IInv, OneProcess, Reading, ScopeInv, Steady, LocksAreInUse, ~MayCrash,
           NEW p \in Procs, StepOf(p), NEW c \in Country, Busy(c, BaseDue)
    PROVE  \/ Busy(c, BaseDue)'
           \/ BaseCommit(p) /\ c \in local[p].scope
           \/ tombstone \/ cost = Null
           \/ \A m \in Market : m[1] = c => rows'[m] = Null
<1>0. (\A q \in Procs : q = p) /\ local[p] \in Local
  BY DEF OneProcess, IInv
<1>1. ~IntegrityError(p) /\ ~Crash(p)
  BY NeverRefused DEF Crash
<1>2. CASE Busy(c, VatDue)
  <2>1. CASE VatWrite(p) /\ c \in local[p].scope
    <3>1. pc'[p] = "vat_log" /\ local'[p] = local[p]
      BY <2>1 DEF VatWrite, Goto, IInv
    <3> QED
      BY <2>1, <3>1 DEF Busy, BaseDue
  <2>2. Busy(c, VatDue)' => Busy(c, BaseDue)'
    BY DEF Busy, BaseDue
  <2> QED
    BY <1>2, <2>1, <2>2, VatGoesOn
<1>3. CASE pc[p] = "vat_log" /\ c \in local[p].scope
  <2>1. VatLog(p)
    BY <1>3, LogNeverFails
  <2>2. pc'[p] = "base_read" /\ local'[p].scope = RerunScope(local[p]) /\ UNCHANGED rows
    BY <2>1 DEF VatLog, Goto, IInv, Blank
  <2>3. \A m \in Market : rows[m] # Null /\ m[1] = c => c \in RerunScope(local[p])
    BY <1>3 DEF Reading, UpToDate, RerunScope
  <2> QED
    BY <2>2, <2>3 DEF Busy, BaseDue
<1>4. CASE pc[p] = "base_read" /\ c \in local[p].scope
  <2>1. BaseRead(p)
    BY <1>1, <1>4, TaskSteps DEF TaskLabels, VatReadRows, VatWrite, VatLog, BaseReadRows, BaseCommit
  <2>2. CASE ~tombstone /\ cost # Null
    <3>1. pc'[p] = "base_rows" /\ local'[p].scope = local[p].scope
      BY <2>1, <2>2 DEF BaseRead, Goto, IInv, Blank
    <3> QED
      BY <1>4, <3>1 DEF Busy, BaseDue
  <2> QED
    BY <2>2
<1>5. CASE pc[p] = "base_rows" /\ c \in local[p].scope
  <2> DEFINE ms == local[p].scope \X {CostCurrency}
             l == [local[p] EXCEPT !.rates = rate, !.floors = Floors,
                                   !.sources = SourcesIn(ms), !.live = ms \cap Priced]
  <2>1. BaseReadRows(p)
    BY <1>1, <1>5, TaskSteps DEF TaskLabels, VatReadRows, VatWrite, VatLog, BaseRead, BaseCommit
  <2>2. pc' = [pc EXCEPT ![p] = "base_commit"] /\ local' = [local EXCEPT ![p] = l]
    BY <2>1 DEF BaseReadRows, Goto, IInv
  <2>3. l.scope = local[p].scope
    BY <1>0 DEF Local
  <2> HIDE DEF l
  <2>4. pc'[p] = "base_commit" /\ local'[p].scope = local[p].scope
    BY <2>2, <2>3 DEF IInv
  <2> QED
    BY <1>5, <2>4 DEF Busy, BaseDue
<1>6. CASE pc[p] = "base_commit" /\ c \in local[p].scope
  <2>1. BaseCommit(p)
    BY <1>1, <1>6, TaskSteps DEF TaskLabels, VatReadRows, VatWrite, VatLog, BaseRead, BaseReadRows
  <2> QED
    BY <1>6, <2>1
<1> QED
  BY <1>0, <1>2, <1>3, <1>4, <1>5, <1>6 DEF Busy, BaseDue

\* The cost is saved with the purchase cost only.
LEMMA OnlySaveCost ==
    ASSUME NEW p \in Procs, StepOf(p), ~SaveCost(p)
    PROVE  UNCHANGED cost
<1>1. CASE Edit(p) \/ EditSpecial(p)
  BY <1>1 DEF Edit, EditBegin, EditReadRows, EditCommit, EditSpecial, SpecialBegin, SpecialWrite, SpecialLog
<1>2. CASE Flush(p) \/ Delete(p)
  BY <1>2 DEF Flush, Delete, FlushRead, FlushCommit, DeleteRead, DeleteCommit, ScopedRead
<1>3. CASE Baseline(p) \/ UpdateRate(p)
  BY <1>3 DEF Baseline, BaseRead, BaseReadRows, BaseCommit, UpdateRate, RateSave, RateDelay
<1>4. CASE RecalculateVat(p)
  BY <1>4 DEF RecalculateVat, VatBegin, VatReadRows, VatWrite, VatLog
<1>5. CASE IntegrityError(p) \/ Crash(p)
  BY <1>5 DEF IntegrityError, Crash
<1> QED
  BY <1>1, <1>2, <1>3, <1>4, <1>5 DEF StepOf

\* A tombstone is left by a delete only, which leaves no rows behind.
LEMMA TombstoneLeft ==
    ASSUME IInv, Reading, NEW p \in Procs, StepOf(p), tombstone' # tombstone
    PROVE  \A m \in Market : rows'[m] = Null
<1>1. DeleteCommit(p)
  <2>1. CASE Edit(p) \/ EditSpecial(p)
    BY <2>1 DEF Edit, EditBegin, EditReadRows, EditCommit, EditSpecial, SpecialBegin, SpecialWrite, SpecialLog
  <2>2. CASE Flush(p) \/ Delete(p)
    BY <2>2 DEF Flush, Delete, FlushRead, FlushCommit, DeleteRead, ScopedRead
  <2>3. CASE Baseline(p) \/ UpdateRate(p)
    BY <2>3 DEF Baseline, SaveCost, BaseRead, BaseReadRows, BaseCommit, UpdateRate, RateSave, RateDelay
  <2>4. CASE RecalculateVat(p)
    BY <2>4 DEF RecalculateVat, VatBegin, VatReadRows, VatWrite, VatLog
  <2>5. CASE IntegrityError(p) \/ Crash(p)
    BY <2>5 DEF IntegrityError, Crash
  <2> QED
    BY <2>1, <2>2, <2>3, <2>4, <2>5 DEF StepOf
<1>2. local[p].req.currency = Null
  BY <1>1 DEF DeleteCommit, IInv, StoreOK
<1>3. \A m \in Market : rows[m] # Null => m \in local[p].live
  BY <1>1, <1>2 DEF DeleteCommit, Reading, UpToDate
<1> QED
  BY <1>1, <1>3 DEF DeleteCommit


\* A baseline price is one in the currency of the cost, is there only while a cost
\* is and the tombstone is not, and is the baseline of the cost and the rate in
\* force or is going to be computed.
Baselined(m) ==
    /\ ~tombstone /\ cost # Null /\ m[2] = CostCurrency
    /\ Busy(m[1], BaseDue) \/ AtBaseline(rows[m].regular.gross, m[1])

BaselinesKept ==
    \A m \in Market : rows[m] # Null /\ rows[m].source = "baseline" => Baselined(m)

LEMMA StepBaselined ==
    ASSUME IInv, OneProcess, OwnLabels, BaselineClamps, ~MayCrash,
           Reading, ScopeInv, Steady, LocksAreInUse, BaselinesKept,
           NEW p \in Procs, StepOf(p),
           NEW m \in Market, rows'[m] # Null, rows'[m].source = "baseline"
    PROVE  Baselined(m)'
<1> DEFINE l == local[p]
           c == m[1]
<1>0. /\ \A q \in Procs : q = p
      /\ c \in Country
      /\ l \in Local
      /\ [Next]_vars
  BY DEF OneProcess, Market, IInv, Next, StepOf
<1>1. ~(EditCommit(p) /\ m \in EditApplied(l) /\ rows'[m] = NewRow(EditDecision(l, m)))
  BY EditLabel DEF NewRow
<1>2. CASE BaseCommit(p) /\ m \in BaseApplied(l)
  <2>1. ~tombstone /\ cost # Null /\ m[2] = CostCurrency
    BY <1>2, BaseLabel
  <2>2. UNCHANGED <<tombstone, cost, rate>>
    BY <1>2 DEF BaseCommit
  <2>3. l.rates = rate /\ l.floors = Floors /\ l.cost = cost /\ Held("base_commit", l)
    BY <1>2 DEF BaseCommit, Steady, RatesHeld, Reading, UpToDate, IInv, ProcOK
  <2>4. rows'[m].regular.gross =
            MaxOptional(BaselineGross(l.cost, l.rates[m[1]], Markup, Rounding), l.floors[m[1]])
    BY <1>0, <1>2, <2>3, BaseExact, BaseWrites
  <2>5. Floors' = Floors
    BY <2>2 DEF Floors
  <2> QED
    BY <2>1, <2>2, <2>3, <2>4, <2>5 DEF Baselined, AtBaseline
<1>3. CASE ~(BaseCommit(p) /\ m \in BaseApplied(l))
  <2>1. rows[m] # Null /\ rows[m].source = "baseline"
    BY <1>0, <1>1, <1>3, LabelWriters
  <2>2. Baselined(m)
    BY <2>1 DEF BaselinesKept
  <2>3. ~tombstone'
    BY <2>2, TombstoneLeft DEF Baselined
  <2>4. cost' # Null
    <3>1. CASE SaveCost(p)
      <4>1. Null \notin Costs
        <5>1. Costs \subseteq Nat
          BY AmountAssumption
        <5>2. Null \notin Nat
          BY NullAssumption
        <5> QED
          BY <5>1, <5>2
      <4> QED
        BY <3>1, <4>1 DEF SaveCost
    <3> QED
      BY <2>2, <3>1, OnlySaveCost DEF Baselined
  <2>5. Busy(c, BaseDue)' \/ AtBaseline(rows[m].regular.gross, c)'
    <3>1. CASE SaveCost(p)
      <4>1. pc'[p] = "base_read" /\ local'[p].scope = Country
        BY <3>1 DEF SaveCost, Goto, IInv, Blank
      <4> QED
        BY <1>0, <4>1 DEF Busy, BaseDue
    <3>2. CASE RateSave(p)
      <4>1. PICK d \in Country, r \in Rates :
                rate' = [rate EXCEPT ![d] = r] /\ local' = [local EXCEPT ![p] = [Blank EXCEPT !.scope = {d}]]
        BY <3>2 DEF RateSave
      <4>2. CASE d = c
        <5>1. pc'[p] = "rate_delay" /\ local'[p].scope = {c}
          BY <3>2, <4>1, <4>2 DEF RateSave, Goto, IInv, Blank
        <5> QED
          BY <5>1 DEF Busy, BaseDue, VatDue
      <4>3. CASE d # c
        <5>1. rate'[c] = rate[c] /\ UNCHANGED <<cost, queued, rows>>
          BY <1>0, <3>2, <4>1, <4>3 DEF RateSave, IInv, StoreOK
        <5>2. Floors'[c] = Floors[c]
          BY <1>0, <5>1 DEF Floors
        <5>3. Busy(c, BaseDue) => Busy(c, BaseDue)'
          BY <1>0, <3>2, <5>1 DEF RateSave, Busy, BaseDue, VatDue
        <5> QED
          BY <2>2, <5>1, <5>2, <5>3 DEF Baselined, AtBaseline
      <4> QED
        BY <4>2, <4>3
    <3>3. CASE ~SaveCost(p) /\ ~RateSave(p)
      <4>1. UNCHANGED <<cost, rate>>
        BY <3>3, OnlySaveCost, OnlyRateSave
      <4>2. Floors' = Floors
        BY <4>1 DEF Floors
      <4>3. CASE Busy(c, BaseDue)
        <5>1. ~(BaseCommit(p) /\ c \in l.scope)
          BY <1>3, <2>1, <2>2, BaselineRewrites DEF BaseCommit, Baselined
        <5> QED
          BY <1>0, <2>2, <4>3, <5>1, BaseGoesOn DEF Baselined
      <4>4. CASE VatWrite(p) /\ c \in l.scope
        <5>1. pc'[p] = "vat_log" /\ local'[p] = l
          BY <4>4 DEF VatWrite, Goto, IInv
        <5> QED
          BY <4>4, <5>1 DEF Busy, BaseDue
      <4>5. CASE ~Busy(c, BaseDue) /\ ~(VatWrite(p) /\ c \in l.scope)
        <5>1. ~(EditCommit(p) /\ m \in EditApplied(l))
          BY <1>1 DEF EditCommit
        <5>2. rows'[m].regular = rows[m].regular
          BY <1>3, <2>1, <4>5, <5>1, RegularWriters
        <5> QED
          BY <2>2, <4>1, <4>2, <4>5, <5>2 DEF Baselined, AtBaseline
      <4> QED
        BY <4>3, <4>4, <4>5
    <3> QED
      BY <3>1, <3>2, <3>3
  <2> QED
    BY <2>2, <2>3, <2>4, <2>5 DEF Baselined
<1> QED
  BY <1>2, <1>3

LEMMA NextBaselined ==
    ASSUME IInv, OneProcess, ~RatesRemoved, OwnLabels, BaselineClamps, ~MayCrash,
           Reading, ScopeInv, Steady, LocksAreInUse, BaselinesKept, [Next]_vars
    PROVE  BaselinesKept'
<1>1. CASE \E p \in Procs : StepOf(p)
  BY <1>1, StepBaselined DEF BaselinesKept
<1>2. CASE \A p \in Procs : ~StepOf(p)
  <2>1. UNCHANGED <<rows, rate, cost, queued, pc, local>> /\ (tombstone' => tombstone)
    BY <1>2, OtherSteps
  <2>2. Floors' = Floors
    BY <2>1 DEF Floors
  <2>3. \A m \in Market : Baselined(m) => Baselined(m)'
    BY <2>1, <2>2 DEF Baselined, Busy, AtBaseline
  <2> QED
    BY <2>1, <2>3 DEF BaselinesKept
<1> QED
  BY <1>1, <1>2

\* Without calls that overlap, every purchase cost and every change of a tax rate
\* reaches the baseline prices: when nothing runs or waits, a baseline price is the
\* baseline of the cost and the rate in force, raised to the floor, whatever edits,
\* promotions and deletes came between.
THEOREM CostsReachPrices ==
    ASSUME OneProcess, ~RatesRemoved, ~MayCrash, OwnLabels, BaselineClamps
    PROVE  Spec => []BaselineSettled
<1> DEFINE Inv == IInv /\ Reading /\ ScopeInv /\ Steady /\ LocksAreInUse
<1>1. Init => BaselinesKept
  BY DEF Init, BaselinesKept
<1>2. Inv /\ BaselinesKept /\ [Next]_vars => BaselinesKept'
  BY NextBaselined
<1>3. BaselinesKept => BaselineSettled
  <2> SUFFICES ASSUME BaselinesKept, Quiet, NEW m \in Priced, rows[m].source = "baseline"
               PROVE  AtBaseline(rows[m].regular.gross, m[1])
    BY DEF BaselineSettled, AtBaseline
  <2>1. m \in Market /\ rows[m] # Null /\ ~Busy(m[1], BaseDue)
    BY DEF Priced, Busy, Quiet, BaseDue, VatDue
  <2> QED
    BY <2>1 DEF BaselinesKept, Baselined
<1> HIDE DEF Inv
<1>4. Spec => []Inv
  BY SerialInvariance DEF Inv
<1> QED
  BY <1>1, <1>2, <1>3, <1>4, PTL DEF Spec
=============================================================================
