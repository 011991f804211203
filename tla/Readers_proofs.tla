----------------------------- MODULE Readers_proofs -----------------------------
(****************************************************************************)
(* What readers are told, for any toggles, any number of processes that     *)
(* read them, any TTL and both ways of saving; and for any SKUs, customers  *)
(* and price lists.                                                         *)
(****************************************************************************)
EXTENDS MCReaders, WellFoundedInduction, TLAPS

-----------------------------------------------------------------------------
(* SettingsCache *)


Entry == [value : BOOLEAN, left : 1..TTL]
Adm == [step : {"idle", "delete"}, row : [Key -> BOOLEAN] \cup {Null}, keys : SUBSET Key]
Rdr == [step : {"idle", "load", "set"}, key : Key \cup {Null}, value : BOOLEAN \cup {Null}]

Types ==
    /\ db \in [Key -> BOOLEAN]
    /\ cache \in [Key -> Entry \cup {Null}]
    /\ admin \in Adm
    /\ admin.step = "delete" => admin.row \in [Key -> BOOLEAN]
    /\ reader \in [Reader -> Rdr]
    /\ \A r \in Reader : reader[r].step # "idle" => reader[r].key \in Key
    /\ \A r \in Reader : reader[r].step = "set" => reader[r].value \in BOOLEAN
    /\ age \in [Key -> 0..TTL]

\* What a reader has loaded and not yet stored is the row's value, unless the row
\* changed, or the load failed, since the last tick.
LoadedIsFresh ==
    \A r \in Reader :
        reader[r].step = "set" /\ reader[r].value # db[reader[r].key] => age[reader[r].key] = 0

\* An entry that differs from the row dies before the event that explains it is
\* TTL old.
OldDies == \A k \in Key : ~Agrees(k) => age[k] + cache[k].left <= TTL

IInv == Types /\ LoadedIsFresh /\ OldDies

LEMMA TtlIsPositive == TTL \in Nat /\ TTL > 0
  BY SettingsAssumption

LEMMA InitIsInductive == Init => IInv
<1> SUFFICES ASSUME Init PROVE IInv
    OBVIOUS
<1>1. Types
    BY TtlIsPositive DEF Init, Types, Adm, Rdr, NoAdmin, NoReader
<1>2. LoadedIsFresh
    BY DEF Init, LoadedIsFresh, NoReader
<1>3. OldDies
    BY DEF Init, OldDies, Agrees
<1> QED
    BY <1>1, <1>2, <1>3 DEF IInv

\* A commit of a row keeps what the invariant says of entries and readers: where the
\* row changes, the age starts at 0.
LEMMA CommitKeeps ==
    ASSUME IInv, NEW row \in [Key -> BOOLEAN], Committed(row),
           cache' = cache, reader' = reader
    PROVE  /\ db' \in [Key -> BOOLEAN] /\ age' \in [Key -> 0..TTL]
           /\ LoadedIsFresh' /\ OldDies'
<1>1. db' \in [Key -> BOOLEAN] /\ age' \in [Key -> 0..TTL]
    BY TtlIsPositive DEF Committed, IInv, Types
<1>2. LoadedIsFresh'
    BY DEF Committed, IInv, Types, LoadedIsFresh
<1>3. ASSUME NEW k \in Key, ~Agrees(k)' PROVE age'[k] + cache'[k].left <= TTL
    <2>1. cache[k] # Null /\ cache[k].left \in 1..TTL
        BY <1>3 DEF Agrees, IInv, Types, Entry
    <2>2. CASE row[k] # db[k]
        BY <2>1, <2>2, TtlIsPositive DEF Committed
    <2>3. CASE row[k] = db[k]
        <3>1. ~Agrees(k) /\ age'[k] = age[k]
            BY <1>3, <2>3 DEF Agrees, Committed, IInv, Types
        <3> QED
            BY <3>1 DEF IInv, OldDies
    <2> QED
        BY <2>2, <2>3
<1> QED
    BY <1>1, <1>2, <1>3 DEF OldDies

LEMMA StepKeeps == IInv /\ [Next]_vars => IInv'
<1> SUFFICES ASSUME IInv, [Next]_vars PROVE IInv'
    OBVIOUS
<1> USE TtlIsPositive
<1>1. CASE Save
    <2> PICK row \in [Key -> BOOLEAN] :
            /\ admin' = [step |-> "delete", row |-> row, keys |-> Key]
            /\ IF Atomic THEN UNCHANGED <<db, age>> ELSE Committed(row)
            /\ UNCHANGED <<cache, reader>>
        BY <1>1 DEF Save
    <2>1. CASE Atomic
        BY <2>1 DEF IInv, Types, Adm, LoadedIsFresh, OldDies, Agrees
    <2>2. CASE ~Atomic
        BY <2>2, CommitKeeps DEF IInv, Types, Adm
    <2> QED
        BY <2>1, <2>2
<1>2. ASSUME NEW k \in Key, DeleteEntry(k) PROVE IInv'
    <2>1. Types'
        BY <1>2 DEF DeleteEntry, IInv, Types, Adm
    <2>2. LoadedIsFresh'
        BY <1>2 DEF DeleteEntry, IInv, LoadedIsFresh
    <2>3. OldDies'
        BY <1>2 DEF DeleteEntry, IInv, Types, OldDies, Agrees
    <2> QED
        BY <2>1, <2>2, <2>3 DEF IInv
<1>3. CASE Saved
    <2>1. NoAdmin \in Adm
        BY DEF NoAdmin, Adm
    <2>2. CASE Atomic
        BY <1>3, <2>1, <2>2, CommitKeeps DEF Saved, IInv, Types, NoAdmin
    <2>3. CASE ~Atomic
        BY <1>3, <2>1, <2>3 DEF Saved, IInv, Types, NoAdmin, LoadedIsFresh, OldDies, Agrees
    <2> QED
        BY <2>2, <2>3
<1>4. CASE RollBack
    BY <1>4 DEF RollBack, IInv, Types, Adm, NoAdmin, LoadedIsFresh, OldDies, Agrees
<1>5. CASE Tick
    <2>1. \A k \in Key : cache'[k] # Null =>
              /\ cache[k] # Null /\ cache[k].left > 1
              /\ cache'[k] = [cache[k] EXCEPT !.left = cache[k].left - 1]
        BY <1>5 DEF Tick, Expiry, IInv, Types, Entry
    <2>2. Types'
        <3>1. ASSUME NEW k \in Key, cache'[k] # Null PROVE cache'[k] \in Entry
            <4>1. cache[k] \in Entry /\ cache[k].left > 1
                BY <2>1, <3>1 DEF IInv, Types
            <4>2. cache[k].left - 1 \in 1..TTL
                BY <4>1 DEF Entry
            <4> QED
                BY <2>1, <3>1, <4>1, <4>2 DEF Entry
        <3>2. cache' \in [Key -> Entry \cup {Null}]
            BY <1>5, <3>1 DEF Tick
        <3> QED
            BY <1>5, <3>2 DEF Tick, IInv, Types
    <2>3. LoadedIsFresh'
        BY <1>5 DEF Tick, LoadedIsFresh
    <2>4. ASSUME NEW k \in Key, ~Agrees(k)' PROVE age'[k] + cache'[k].left <= TTL
        <3>1. /\ cache[k] \in Entry /\ cache[k].left > 1
              /\ cache'[k].left = cache[k].left - 1 /\ cache'[k].value = cache[k].value
            BY <2>1, <2>4 DEF Agrees, IInv, Types, Entry
        <3>2. ~Agrees(k)
            BY <1>5, <2>1, <2>4, <3>1 DEF Agrees, Tick
        <3>3. age[k] + cache[k].left <= TTL
            BY <3>2 DEF IInv, OldDies
        <3> QED
            BY <1>5, <3>1, <3>3 DEF Tick, IInv, Types, Entry
    <2> QED
        BY <2>2, <2>3, <2>4 DEF IInv, OldDies
<1>6. ASSUME NEW r \in Reader, NEW k \in Key, Miss(r, k) PROVE IInv'
    BY <1>6 DEF Miss, IInv, Types, Rdr, LoadedIsFresh, OldDies, Agrees
<1>7. ASSUME NEW r \in Reader, Load(r) PROVE IInv'
    BY <1>7 DEF Load, IInv, Types, Rdr, LoadedIsFresh, OldDies, Agrees
<1>8. ASSUME NEW r \in Reader, LoadFails(r) PROVE IInv'
    <2>1. Types'
        <3> DEFINE key == reader[r].key
        <3>1. key \in Key /\ Fallback[key] \in BOOLEAN
            BY <1>8, SettingsAssumption DEF LoadFails, IInv, Types
        <3>2. [reader[r] EXCEPT !.step = "set", !.value = Fallback[key]] \in Rdr
            BY <3>1 DEF IInv, Types, Rdr
        <3>3. reader' \in [Reader -> Rdr] /\ age' \in [Key -> 0..TTL]
            BY <1>8, <3>1, <3>2 DEF LoadFails, IInv, Types
        <3>4. \A q \in Reader : reader'[q].step # "idle" => reader'[q].key \in Key
            BY <1>8, <3>1 DEF LoadFails, IInv, Types, Rdr
        <3>5. \A q \in Reader : reader'[q].step = "set" => reader'[q].value \in BOOLEAN
            BY <1>8, <3>1 DEF LoadFails, IInv, Types, Rdr
        <3> QED
            BY <1>8, <3>3, <3>4, <3>5 DEF LoadFails, IInv, Types
    <2>2. LoadedIsFresh'
        BY <1>8 DEF LoadFails, IInv, Types, LoadedIsFresh
    <2>3. ASSUME NEW k \in Key, ~Agrees(k)' PROVE age'[k] + cache'[k].left <= TTL
        <3>1. ~Agrees(k) /\ cache[k].left \in 1..TTL /\ cache'[k] = cache[k]
            BY <1>8, <2>3 DEF LoadFails, Agrees, IInv, Types, Entry
        <3>2. age'[k] = 0 \/ age'[k] = age[k]
            BY <1>8 DEF LoadFails, IInv, Types
        <3> QED
            BY <3>1, <3>2 DEF IInv, OldDies
    <2> QED
        BY <2>1, <2>2, <2>3 DEF IInv, OldDies
<1>9. ASSUME NEW r \in Reader, Set(r) PROVE IInv'
    <2> DEFINE key == reader[r].key
    <2>1. key \in Key /\ reader[r].value \in BOOLEAN
        BY <1>9 DEF Set, IInv, Types
    <2>2. Types'
        <3>1. [value |-> reader[r].value, left |-> TTL] \in Entry
            BY <2>1 DEF Entry
        <3>2. NoReader \in Rdr /\ NoReader.step = "idle"
            BY DEF NoReader, Rdr
        <3> QED
            BY <1>9, <2>1, <3>1, <3>2 DEF Set, IInv, Types
    <2>3. LoadedIsFresh'
        BY <1>9 DEF Set, IInv, Types, LoadedIsFresh, NoReader
    <2>4. ASSUME NEW k \in Key, ~Agrees(k)' PROVE age'[k] + cache'[k].left <= TTL
        <3>1. CASE k = key
            <4>1. cache'[k] = [value |-> reader[r].value, left |-> TTL]
                BY <1>9, <3>1, <2>1 DEF Set, IInv, Types
            <4>2. reader[r].value # db[key]
                BY <1>9, <2>4, <3>1, <4>1 DEF Set, Agrees
            <4>3. age[key] = 0
                BY <1>9, <4>2 DEF Set, IInv, LoadedIsFresh
            <4> QED
                BY <1>9, <3>1, <4>1, <4>3 DEF Set
        <3>2. CASE k # key
            BY <1>9, <2>4, <3>2 DEF Set, IInv, Types, OldDies, Agrees
        <3> QED
            BY <3>1, <3>2
    <2> QED
        BY <2>2, <2>3, <2>4 DEF IInv, OldDies
<1>10. CASE UNCHANGED vars
    BY <1>10 DEF vars, IInv, Types, LoadedIsFresh, OldDies, Agrees
<1> QED
    BY <1>1, <1>2, <1>3, <1>4, <1>5, <1>6, <1>7, <1>8, <1>9, <1>10
    DEF Next, Saving, Reading

LEMMA AlwaysInductive == Spec => []IInv
  BY InitIsInductive, StepKeeps, PTL DEF Spec

\* "Invalidate cached toggles" (models/pm_settings.py:28) and the cache time of
\* read_from_current and is_matrix_signals_enabled: whatever the readers and the
\* admin do, an entry that differs from the row is younger than TTL.
THEOREM OldTogglesDie == Spec => []OldForAMinute
<1>1. IInv => OldForAMinute
    <2> SUFFICES ASSUME IInv, NEW k \in Key, ~Agrees(k) PROVE age[k] < TTL
        BY DEF OldForAMinute
    <2>1. cache[k] \in Entry
        BY DEF Agrees, IInv, Types
    <2> QED
        BY <2>1, TtlIsPositive DEF IInv, Types, OldDies, Entry
<1> QED
    BY <1>1, AlwaysInductive, PTL

\* Every state of the toggles and their cache is well-formed; a fallback is cached
\* like a value, so no reader is ever handed a missing one.
THEOREM SettingsTypes == Spec => []TypeOK
<1>1. IInv => TypeOK
    BY DEF IInv, Types, TypeOK, Entry, Adm
<1> QED
    BY <1>1, AlwaysInductive, PTL


-----------------------------------------------------------------------------
(* PriceOutput *)

\* In the composition, the lists of a scenario are its own.
Published ==
    /\ scenario = "dated" => lists \in Seq(DatedList) /\ now \in Nat
    /\ scenario = "shared" => lists \in Seq(SharedList)

LEMMA PublishedOfSpec == MCSpec => []Published
<1>1. MCInit => Published
    BY DEF MCInit, Dated!Init, Published
<1>2. ASSUME Published, [MCNext]_<<scenario, vars, outputVars>>
      PROVE  Published'
    <2>1. CASE UNCHANGED <<scenario, lists, now>>
        BY <1>2, <2>1 DEF Published
    <2>2. CASE scenario = "dated" /\ Dated!Next /\ UNCHANGED scenario
        BY <1>2, <2>2 DEF Published, Dated!Next, Dated!Publish, Dated!Tick
    <2>3. CASE scenario = "shared" /\ Shared!Next /\ UNCHANGED scenario
        BY <1>2, <2>3 DEF Published, Shared!Next, Shared!Publish, Shared!Tick
    <2>4. CASE scenario \in {"promo", "owned", "configured"} /\ UNCHANGED scenario
        BY <2>4 DEF Published
    <2> QED
        BY <1>2, <2>1, <2>2, <2>3, <2>4 DEF MCNext, OutputStep, outputVars
<1> QED
    BY <1>1, <1>2, PTL DEF MCSpec

\* The rows of a list, one by one.
LEMMA RowsAre ==
    /\ \A l : \A r \in Shared!RowsOf(l) :
           /\ l # 0 /\ r.list = l /\ r.slot \in SharedSlots
           /\ r = [list |-> l, slot |-> r.slot]
           /\ lists[l].price[r.slot] # Null
    /\ Shared!RowsOf(0) = {}
    BY DEF Shared!RowsOf

LEMMA SlotsAre ==
    \A s \in SharedSlots :
        /\ s.sku \in Product /\ s.sku # Null /\ s = [sku |-> s.sku, parent |-> s.parent]
        /\ s.parent = Null <=> s = Item(s.sku)
<1> SUFFICES ASSUME NEW s \in SharedSlots
             PROVE  /\ s.sku \in Product /\ s.sku # Null /\ s = [sku |-> s.sku, parent |-> s.parent]
                    /\ s.parent = Null <=> s = Item(s.sku)
    OBVIOUS
<1>1. kit # Null /\ Null \notin Product
    BY ReadersAssumption, Zenon
<1>2. PICK sku \in Product : s = Item(sku) \/ s = Part(sku)
    BY DEF SharedSlots
<1> QED
    BY <1>1, <1>2 DEF Item, Part

\* The rows of the customer's newest list, or of anyone's; those of products sold alone.
Own(who) == Shared!RowsOf(Shared!Newest(Shared!OwnedBy(who)))
Alone(who) == {r \in Own(who) : r.slot.parent = Null}
OwnOf(sku, who) == {r \in Alone(who) : r.slot.sku = sku}
Skus(rows) == {r.slot.sku : r \in rows}

\* The newest of a customer's lists is his.
LEMMA NewestIsOwned ==
    ASSUME lists \in Seq(SharedList), NEW who
    PROVE  LET newest == Shared!Newest(Shared!OwnedBy(who))
           IN  IF Shared!OwnedBy(who) = {} THEN newest = 0
               ELSE newest \in DOMAIN lists /\ newest # 0 /\ lists[newest].owner = who
<1> DEFINE S == Shared!OwnedBy(who)
           rest == {i \in Nat : \E k \in S : i + k = Len(lists)}
<1>1. CASE S = {}
    BY <1>1 DEF Shared!Newest
<1>2. CASE S # {}
    <2>1. S \in SUBSET (1 .. Len(lists)) /\ Len(lists) \in Nat /\ \A k \in S : k \in DOMAIN lists /\ lists[k].owner = who
        BY DEF Shared!OwnedBy
    <2>2. \A k \in S : k \in Nat /\ k # 0 /\ Len(lists) - k \in rest
        <3>1. \A k \in S : k \in Nat /\ k # 0 /\ k <= Len(lists)
            BY <2>1
        <3> QED
            BY <2>1, <3>1
    <2>3. PICK t \in rest : \A i \in rest : ~(<<i, t>> \in OpToRel(<, Nat))
        BY <1>2, <2>2, NatLessThanWellFounded, WFMin
    <2>4. \A i \in rest : t <= i
        <3>1. \A i \in rest : i \in Nat /\ t \in Nat /\ ~(i < t)
            BY <2>3 DEF OpToRel
        <3> QED
            BY <3>1
    <2>5. PICK m \in S : t + m = Len(lists)
        OBVIOUS
    <2>6. \A k \in S : m >= k
        <3>1. \A k \in S : k \in Nat /\ m \in Nat /\ Len(lists) - k \in Nat /\ t <= Len(lists) - k /\ t \in Nat
            BY <2>2, <2>4
        <3> QED
            BY <2>1, <2>5, <3>1
    <2> HIDE DEF S, rest
    <2>7. Shared!Max(S) \in S
        BY <2>6 DEF Shared!Max
    <2> QED
        BY <1>2, <2>1, <2>2, <2>7 DEF Shared!Newest, S
<1> QED
    BY <1>1, <1>2

\* Who has no list is shown anyone's.
LEMMA LatestRows ==
    ASSUME lists \in Seq(SharedList), NEW who \in Whoever
    PROVE  /\ Shared!Latest(who) = Shared!Newest(Shared!OwnedBy(IF Shared!OwnedBy(who) = {} THEN Null ELSE who))
           /\ Shared!RowsOf(Shared!Latest(who)) = IF Shared!OwnedBy(who) = {} THEN Own(Null) ELSE Own(who)
           /\ Shared!OwnedBy(who) = {} => Shared!Newest(Shared!OwnedBy(who)) = 0 /\ Own(who) = {}
           /\ Shared!Latest(who) # 0 =>
                  lists[Shared!Latest(who)].owner = IF Shared!OwnedBy(who) = {} THEN Null ELSE who
<1>1. Shared!Latest(who) = Shared!Newest(Shared!OwnedBy(IF Shared!OwnedBy(who) = {} THEN Null ELSE who))
    BY DEF Shared!Latest
<1>2. Shared!OwnedBy(who) = {} => Shared!Newest(Shared!OwnedBy(who)) = 0 /\ Own(who) = {}
    BY RowsAre, NewestIsOwned DEF Own
<1> QED
    BY <1>1, <1>2, NewestIsOwned DEF Own

\* Whose a row is.
LEMMA RowsAreOwned ==
    ASSUME lists \in Seq(SharedList), NEW who, NEW r \in Own(who)
    PROVE  Shared!OwnerOf(r) = who /\ r.list \in DOMAIN lists /\ r.list = Shared!Newest(Shared!OwnedBy(who))
<1>1. r.list = Shared!Newest(Shared!OwnedBy(who)) /\ r.list # 0
    BY RowsAre DEF Own
<1> QED
    BY <1>1, NewestIsOwned DEF Shared!OwnerOf

\* Slot by slot the customer's row, or anyone's, is what each reader finds.
Quoted(sku, who) == IF OwnOf(sku, who) = {} THEN OwnOf(sku, Null) ELSE OwnOf(sku, who)

LEMMA OfOneSku ==
    ASSUME NEW rows, NEW sku
    PROVE  /\ Shared!Standalone(Shared!OfSkus(rows, {sku})) = {r \in rows : r.slot.parent = Null /\ r.slot.sku = sku}
           /\ Shared!Standalone(Shared!OfSkus(rows, {})) = {r \in rows : r.slot.parent = Null}
    BY DEF Shared!Standalone, Shared!OfSkus

LEMMA CartQuotes ==
    ASSUME lists \in Seq(SharedList), NEW who \in Whoever, NEW sku
    PROVE  Shared!PriceFor(sku, who) = Quoted(sku, who)
<1> DEFINE found(w) == {r \in Shared!RowsOf(Shared!Latest(w)) : r.slot.parent = Null /\ r.slot.sku = sku}
<1>1. Shared!PriceFor(sku, who) = IF found(who) = {} /\ who # Null THEN found(Null) ELSE found(who)
    BY OfOneSku DEF Shared!PriceFor
<1>2. Null \in Whoever
    BY DEF Whoever
<1>3. found(Null) = OwnOf(sku, Null)
    BY <1>2, LatestRows DEF OwnOf, Alone
<1>4. found(who) = IF Shared!OwnedBy(who) = {} THEN OwnOf(sku, Null) ELSE OwnOf(sku, who)
    BY LatestRows DEF OwnOf, Alone
<1>5. Shared!OwnedBy(who) = {} => OwnOf(sku, who) = {}
    BY LatestRows DEF OwnOf, Alone
<1> HIDE DEF found
<1> QED
    BY <1>1, <1>3, <1>4, <1>5 DEF Quoted

\* All that a list prices, and what of it is a product sold alone.
PricedBy(who) == Shared!Priced(Shared!Newest(Shared!OwnedBy(who)))

LEMMA PricedIs ==
    ASSUME lists \in Seq(SharedList), NEW who
    PROVE  /\ Skus(Own(who)) \subseteq PricedBy(who)
           /\ Shared!OwnedBy(who) = {} => PricedBy(who) = {}
           /\ (\A l \in DOMAIN lists : lists[l].extras = <<>>) => PricedBy(who) = Skus(Own(who))
           /\ \A sku : OwnOf(sku, who) = {} <=> \A r \in Own(who) : r.slot # Item(sku)
<1> DEFINE newest == Shared!Newest(Shared!OwnedBy(who))
<1>1. PricedBy(who) = IF newest = 0 THEN {}
          ELSE Skus(Own(who)) \cup {lists[newest].extras[i].sku : i \in DOMAIN lists[newest].extras}
    BY DEF PricedBy, Shared!Priced, Skus, Own
<1>2. newest = 0 => Own(who) = {}
    BY RowsAre DEF Own
<1>3. newest # 0 => newest \in DOMAIN lists
    BY NewestIsOwned
<1>4. Shared!OwnedBy(who) = {} => newest = 0
    BY NewestIsOwned
<1>5. (\A l \in DOMAIN lists : lists[l].extras = <<>>) => PricedBy(who) = Skus(Own(who))
    <2> HAVE \A l \in DOMAIN lists : lists[l].extras = <<>>
    <2>1. CASE newest = 0
        BY <1>1, <1>2, <2>1 DEF Skus
    <2>2. CASE newest # 0
        <3>1. DOMAIN lists[newest].extras = {}
            BY <1>3, <2>2
        <3> HIDE DEF newest
        <3> QED
            BY <1>1, <2>2, <3>1
    <2> QED
        BY <2>1, <2>2
<1>6. \A sku : OwnOf(sku, who) = {} <=> \A r \in Own(who) : r.slot # Item(sku)
    <2>1. \A r \in Own(who) : r.slot \in SharedSlots
        BY RowsAre DEF Own
    <2>2. \A sku : \A r \in Own(who) : (r.slot.parent = Null /\ r.slot.sku = sku) <=> r.slot = Item(sku)
        BY <2>1, SlotsAre DEF Item
    <2> QED
        BY <2>2 DEF OwnOf, Alone
<1> HIDE DEF newest
<1>7. Skus(Own(who)) \subseteq PricedBy(who)
    BY <1>1, <1>2 DEF Skus
<1> QED
    BY <1>1, <1>4, <1>5, <1>6, <1>7

\* The catalogue for whom anyone's list is the latest.
LEMMA CatalogueOfAnyone ==
    ASSUME lists \in Seq(SharedList), NEW who \in Whoever, who = Null \/ Shared!OwnedBy(who) = {}
    PROVE  /\ \A sku : /\ Shared!CatalogueFor({sku}, who) = OwnOf(sku, Null)
                       /\ Quoted(sku, who) = OwnOf(sku, Null)
           /\ Shared!CatalogueFor({}, who) = Alone(Null)
           /\ Shared!CatalogueRaises(who) => Own(Null) = {}
<1> DEFINE own == Shared!Latest(who)
           shown(skus) == Shared!Standalone(Shared!OfSkus(Shared!RowsOf(own), skus))
<1>1. own = Shared!Newest(Shared!OwnedBy(Null)) /\ Shared!RowsOf(own) = Own(Null)
    BY LatestRows DEF Own
<1>2. own # 0 => lists[own].owner = Null
    BY <1>1, NewestIsOwned
<1>3. \A skus : Shared!CatalogueFor(skus, who) = shown(skus)
    BY <1>2 DEF Shared!CatalogueFor
<1>4. \A sku : OwnOf(sku, who) = {} \/ who = Null
    BY LatestRows DEF OwnOf, Alone
<1>5. \A sku : Quoted(sku, who) = OwnOf(sku, Null)
    BY <1>4 DEF Quoted
<1>6. ASSUME NEW sku PROVE shown({sku}) = OwnOf(sku, Null)
    <2>1. shown({sku}) = {r \in Shared!RowsOf(own) : r.slot.parent = Null /\ r.slot.sku = sku}
        BY OfOneSku
    <2> QED
        BY <1>1, <2>1 DEF OwnOf, Alone
<1>7. shown({}) = Alone(Null)
    BY <1>1, OfOneSku DEF Alone
<1>8. Shared!CatalogueRaises(who) => Own(Null) = {}
    BY <1>1, RowsAre DEF Shared!CatalogueRaises
<1> HIDE DEF own, shown
<1> QED
    BY <1>3, <1>5, <1>6, <1>7, <1>8

\* The catalogue of a customer with a list.
LEMMA CatalogueOfCustomer ==
    ASSUME lists \in Seq(SharedList), NEW who \in Whoever, who # Null, Shared!OwnedBy(who) # {}
    PROVE  /\ \A sku : Shared!CatalogueFor({sku}, who) =
                           {r \in OwnOf(sku, Null) : sku \notin PricedBy(who)} \cup OwnOf(sku, who)
           /\ Shared!CatalogueFor({}, who) =
                  {r \in Alone(Null) : Null \notin PricedBy(who) /\ r.slot.sku \notin PricedBy(who)} \cup Alone(who)
           /\ ~Shared!CatalogueRaises(who)
<1> DEFINE own == Shared!Latest(who)
           anyone == Shared!Latest(Null)
           shown(l, skus) == Shared!Standalone(Shared!OfSkus(Shared!RowsOf(l), skus))
<1>1. /\ own = Shared!Newest(Shared!OwnedBy(who)) /\ Shared!RowsOf(own) = Own(who)
      /\ own # 0 /\ lists[own].owner = who
    BY LatestRows, NewestIsOwned DEF Own
<1>2. Shared!RowsOf(anyone) = Own(Null)
    BY LatestRows DEF Own, Whoever
<1>3. Shared!Priced(own) = PricedBy(who)
    BY <1>1 DEF PricedBy
<1>4. ASSUME NEW skus
      PROVE  Shared!CatalogueFor(skus, who) =
                 (IF skus = {} /\ Null \in Shared!Priced(own) THEN {}
                  ELSE {r \in shown(anyone, skus) : r.slot.sku \notin Shared!Priced(own)}) \cup shown(own, skus)
    BY <1>1 DEF Shared!CatalogueFor
<1>5. ASSUME NEW sku
      PROVE  /\ shown(anyone, {sku}) = OwnOf(sku, Null) /\ shown(own, {sku}) = OwnOf(sku, who)
             /\ {r \in OwnOf(sku, Null) : r.slot.sku \notin PricedBy(who)} = {r \in OwnOf(sku, Null) : sku \notin PricedBy(who)}
    <2>1. shown(anyone, {sku}) = {r \in Shared!RowsOf(anyone) : r.slot.parent = Null /\ r.slot.sku = sku}
        BY OfOneSku
    <2>2. shown(own, {sku}) = {r \in Shared!RowsOf(own) : r.slot.parent = Null /\ r.slot.sku = sku}
        BY OfOneSku
    <2>3. \A w : OwnOf(sku, w) = {r \in Own(w) : r.slot.parent = Null /\ r.slot.sku = sku}
        BY DEF OwnOf, Alone
    <2> HIDE DEF own, anyone, shown
    <2> QED
        BY <1>1, <1>2, <2>1, <2>2, <2>3
<1>6. shown(anyone, {}) = Alone(Null) /\ shown(own, {}) = Alone(who)
    BY <1>1, <1>2, OfOneSku DEF Alone
<1>7. ~Shared!CatalogueRaises(who)
    BY <1>1 DEF Shared!CatalogueRaises
<1> HIDE DEF own, anyone, shown
<1>8. ASSUME NEW sku
      PROVE  Shared!CatalogueFor({sku}, who) =
                 {r \in OwnOf(sku, Null) : sku \notin PricedBy(who)} \cup OwnOf(sku, who)
    BY <1>3, <1>4, <1>5, {sku} # {}
<1>9. Shared!CatalogueFor({}, who) =
          {r \in Alone(Null) : Null \notin PricedBy(who) /\ r.slot.sku \notin PricedBy(who)} \cup Alone(who)
    BY <1>3, <1>4, <1>6
<1> QED
    BY <1>7, <1>8, <1>9

\* One row of a product is all of the quotes of that product.
LEMMA AloneBySku ==
    ASSUME NEW w
    PROVE  \A r \in Alone(w) : r.slot.sku \in Shared!Skus /\ r \in OwnOf(r.slot.sku, w)
<1>1. \A r \in Own(w) : r.slot \in SharedSlots
    BY RowsAre DEF Own
<1> QED
    BY <1>1 DEF Alone, OwnOf, Shared!Skus

LEMMA CatalogueMatches ==
    ASSUME lists \in Seq(SharedList), NEW who \in Whoever
    PROVE  CartMatchesCatalogue(who)
<1> DEFINE one(sku) == Shared!CatalogueFor({sku}, who)
           all == Shared!CatalogueFor({}, who)
<1>1. CASE who = Null \/ Shared!OwnedBy(who) = {}
    <2>1. \A sku : ~OnlyAsPart(sku, who)
        BY <1>1, PricedIs DEF OnlyAsPart, PricedBy
    <2>2. ~PricesAnyProduct(who)
        BY <1>1, PricedIs DEF PricesAnyProduct, PricedBy
    <2>3. /\ \A sku : one(sku) = OwnOf(sku, Null) /\ Shared!PriceFor(sku, who) = OwnOf(sku, Null)
          /\ all = Alone(Null)
          /\ Shared!CatalogueRaises(who) => Own(Null) = {}
        BY <1>1, CatalogueOfAnyone, CartQuotes
    <2> HIDE DEF one, all
    <2>4. Shared!CatalogueRaises(who) => \A sku : OwnOf(sku, Null) = {}
        BY <2>3 DEF OwnOf, Alone
    <2>5. Alone(Null) = UNION {OwnOf(sku, Null) : sku \in Shared!Skus}
        BY AloneBySku DEF OwnOf
    <2>6. all = {r \in UNION {one(sku) : sku \in Shared!Skus} : PricesAnyProduct(who) => Shared!OwnerOf(r) = who}
        BY <2>2, <2>3, <2>5
    <2> QED
        BY <2>1, <2>3, <2>4, <2>6 DEF CartMatchesCatalogue, one, all
<1>2. CASE who # Null /\ Shared!OwnedBy(who) # {}
    <2>1. /\ \A sku : one(sku) = {r \in OwnOf(sku, Null) : sku \notin PricedBy(who)} \cup OwnOf(sku, who)
          /\ all = {r \in Alone(Null) : Null \notin PricedBy(who) /\ r.slot.sku \notin PricedBy(who)} \cup Alone(who)
          /\ ~Shared!CatalogueRaises(who)
        BY <1>2, CatalogueOfCustomer
    <2> HIDE DEF one, all
    <2>2. \A sku : OwnOf(sku, who) # {} => sku \in PricedBy(who)
        BY PricedIs DEF OwnOf, Alone, Skus
    <2>3. \A sku : OnlyAsPart(sku, who) <=> sku \in PricedBy(who) /\ OwnOf(sku, who) = {}
        BY <1>2, PricedIs DEF OnlyAsPart, PricedBy, Own
    <2>4. ASSUME NEW sku
          PROVE  one(sku) = IF OnlyAsPart(sku, who) THEN {} ELSE Shared!PriceFor(sku, who)
        <3>1. Shared!PriceFor(sku, who) = Quoted(sku, who)
            BY CartQuotes
        <3>2. CASE sku \in PricedBy(who)
            BY <2>1, <2>3, <3>1, <3>2 DEF Quoted
        <3>3. CASE sku \notin PricedBy(who)
            BY <2>1, <2>2, <2>3, <3>1, <3>3 DEF Quoted
        <3> QED
            BY <3>2, <3>3
    <2>5. PricesAnyProduct(who) <=> Null \in PricedBy(who)
        BY <1>2 DEF PricesAnyProduct, PricedBy
    <2>6. /\ \A r \in Alone(Null) : Shared!OwnerOf(r) # who
          /\ \A r \in Alone(who) : Shared!OwnerOf(r) = who
        BY <1>2, RowsAreOwned DEF Alone
    <2> DEFINE rest == {r \in UNION {one(sku) : sku \in Shared!Skus} : PricesAnyProduct(who) => Shared!OwnerOf(r) = who}
    <2>7. ASSUME NEW r \in all PROVE r \in rest
        <3>1. CASE r \in Alone(who)
            <4>1. r.slot.sku \in Shared!Skus /\ r \in one(r.slot.sku)
                BY <2>1, <3>1, AloneBySku
            <4> QED
                BY <2>6, <3>1, <4>1
        <3>2. CASE r \in Alone(Null) /\ Null \notin PricedBy(who) /\ r.slot.sku \notin PricedBy(who)
            <4>1. r.slot.sku \in Shared!Skus /\ r \in one(r.slot.sku)
                BY <2>1, <3>2, AloneBySku
            <4> QED
                BY <2>5, <3>2, <4>1
        <3> QED
            BY <2>1, <2>7, <3>1, <3>2
    <2>8. ASSUME NEW r \in rest PROVE r \in all
        <3>1. PICK sku \in Shared!Skus : r \in one(sku)
            BY <2>8
        <3>2. CASE r \in OwnOf(sku, who)
            BY <2>1, <3>2 DEF OwnOf
        <3>3. CASE r \in OwnOf(sku, Null) /\ sku \notin PricedBy(who)
            <4>1. r \in Alone(Null) /\ r.slot.sku = sku
                BY <3>3 DEF OwnOf
            <4>2. Null \notin PricedBy(who)
                BY <2>5, <2>6, <2>8, <4>1
            <4> QED
                BY <2>1, <3>3, <4>1, <4>2
        <3> QED
            BY <2>1, <3>1, <3>2, <3>3
    <2>9. all = rest
        BY <2>7, <2>8
    <2> QED
        BY <2>1, <2>4, <2>9 DEF CartMatchesCatalogue, one, all
<1> QED
    BY <1>1, <1>2

-----------------------------------------------------------------------------
\* The two layers make the same item of a row.
LEMMA DatedItems ==
    ASSUME NEW row \in Row, NEW owner, NEW vat0 \in BOOLEAN
    PROVE  Dated!CurrentItem(row, owner, vat0) = Dated!LegacyItem(WithoutZero(row), owner, vat0)
<1> DEFINE new == WithoutZero(row)
<1>1. /\ new.gross = row.gross /\ new.net = row.net /\ new.rate = row.rate /\ new.from = row.from /\ new.to = row.to
      /\ new.specialGross = IF row.specialGross = 0 THEN Null ELSE row.specialGross
      /\ new.specialNet = IF row.specialNet = 0 THEN Null ELSE row.specialNet
    BY DEF WithoutZero, Row
<1>2. row.specialGross \in {0, Null} <=> row.specialNet \in {0, Null}
    BY DEF Row
<1>3. Dated!IsEligible(new) = Dated!IsEligible(row)
    BY <1>1 DEF Dated!IsEligible
<1> HIDE DEF new
<1>4. CASE row.specialGross \in {0, Null}
    BY <1>1, <1>2, <1>3, <1>4 DEF Dated!CurrentItem, Dated!LegacyItem, Dated!Truthy, Dated!Shown, new
<1>5. CASE row.specialGross \notin {0, Null}
    BY <1>1, <1>2, <1>3, <1>5 DEF Dated!CurrentItem, Dated!LegacyItem, Dated!Truthy, Dated!Shown, new
<1> QED
    BY <1>4, <1>5

LEMMA SharedItems ==
    ASSUME NEW row \in Row, NEW owner, NEW vat0 \in BOOLEAN, WithoutZero(row) = row
    PROVE  Shared!CurrentItem(row, owner, vat0) = Shared!LegacyItem(row, owner, vat0)
<1>1. row.specialGross # 0 /\ row.specialNet # 0
    <2>1. /\ WithoutZero(row).specialGross = IF row.specialGross = 0 THEN Null ELSE row.specialGross
          /\ WithoutZero(row).specialNet = IF row.specialNet = 0 THEN Null ELSE row.specialNet
        BY DEF WithoutZero, Row
    <2>2. Null # 0
        <3>1. Null \notin Int
            BY ReadersAssumption
        <3> QED
            BY <3>1
    <2> QED
        BY <2>1, <2>2
<1>2. row.specialGross = Null <=> row.specialNet = Null
    BY <1>1 DEF Row
<1>3. \A amount : amount # 0 => /\ Shared!Truthy(amount) <=> amount # Null
                              /\ Shared!Shown(amount) = IF amount = Null THEN Null ELSE Shared!ToCents(amount, 1)
    BY DEF Shared!Truthy, Shared!Shown
<1>4. CASE row.specialGross = Null
    BY <1>1, <1>2, <1>3, <1>4 DEF Shared!CurrentItem, Shared!LegacyItem
<1>5. CASE row.specialGross # Null
    BY <1>1, <1>2, <1>3, <1>5 DEF Shared!CurrentItem, Shared!LegacyItem
<1> QED
    BY <1>4, <1>5

LEMMA EligibilityAgrees ==
    ASSUME NEW row \in Row, now \in Nat
    PROVE  Dated!EligibleInSql(row) <=> Dated!IsEligible(row)
<1>1. row.from \in Nat \cup {Null} /\ row.to \in Nat \cup {Null} /\ Null \notin Nat
    BY ReadersAssumption DEF Row
<1>2. CASE row.from = Null /\ row.to = Null
    BY <1>2 DEF Dated!EligibleInSql, Dated!IsEligible
<1>3. CASE row.from # Null \/ row.to # Null
    BY <1>1, <1>3 DEF Dated!EligibleInSql, Dated!IsEligible
<1> QED
    BY <1>2, <1>3

\* CurrentPrice has the newest list of each customer.
LEMMA CurrentIs ==
    ASSUME lists \in Seq(SharedList), NEW who \in Whoever
    PROVE  Shared!Of(who) = Own(who)
<1>1. \A w : \A r \in Own(w) : Shared!OwnerOf(r) = w
    BY RowsAreOwned
<1>2. Shared!Current = UNION {Own(w) : w \in Whoever}
    BY DEF Shared!Current, Own, Whoever
<1> QED
    BY <1>1, <1>2 DEF Shared!Of

LEMMA CurrentQuotes ==
    ASSUME lists \in Seq(SharedList), NEW who \in Whoever
    PROVE  /\ \A sku : Shared!CurrentFor(sku, who) = Quoted(sku, who)
           /\ Shared!Standalone(Shared!CurrentRows({}, who)) =
                  Alone(who) \cup {r \in Alone(Null) : who = Null \/ r.slot.sku \notin Skus(Own(who))}
<1>1. Null \in Whoever
    BY DEF Whoever
<1>2. ASSUME NEW w \in Whoever, NEW sku
      PROVE  Shared!Standalone(Shared!OfSkus(Shared!Of(w), {sku})) = OwnOf(sku, w)
    <2>1. Shared!Of(w) = Own(w)
        BY CurrentIs
    <2>2. Shared!Standalone(Shared!OfSkus(Own(w), {sku})) = {r \in Own(w) : r.slot.parent = Null /\ r.slot.sku = sku}
        BY OfOneSku
    <2> QED
        BY <2>1, <2>2 DEF OwnOf, Alone
<1>3. \A sku : Shared!CurrentFor(sku, who) = Quoted(sku, who)
    <2> SUFFICES ASSUME NEW sku PROVE Shared!CurrentFor(sku, who) = Quoted(sku, who)
        OBVIOUS
    <2> DEFINE found(w) == Shared!Standalone(Shared!OfSkus(Shared!Of(w), {sku}))
    <2>1. Shared!CurrentFor(sku, who) = IF found(who) = {} THEN found(Null) ELSE found(who)
        BY DEF Shared!CurrentFor
    <2>2. found(who) = OwnOf(sku, who) /\ found(Null) = OwnOf(sku, Null)
        BY <1>1, <1>2
    <2> QED
        BY <2>1, <2>2 DEF Quoted
<1>4. Shared!Of(who) = Own(who) /\ Shared!Of(Null) = Own(Null)
    BY <1>1, CurrentIs
<1>5. Shared!CurrentRows({}, who) =
          Own(who) \cup {r \in Own(Null) : who = Null \/ r.slot.sku \notin Skus(Own(who))}
    BY <1>4 DEF Shared!CurrentRows, Shared!OfSkus, Skus
<1> QED
    BY <1>3, <1>5 DEF Shared!Standalone, Alone

\* What is quoted is in a list.
LEMMA QuotedRows ==
    ASSUME lists \in Seq(SharedList), NEW who \in Whoever, NEW sku, NEW r \in Quoted(sku, who)
    PROVE  Shared!RowAt(r) \in Row
<1>1. PICK w \in Whoever : r \in Own(w)
    BY DEF Quoted, OwnOf, Alone, Whoever
<1>2. r.list \in DOMAIN lists
    BY <1>1, RowsAreOwned
<1>3. r.slot \in SharedSlots /\ lists[r.list].price[r.slot] # Null
    BY <1>1, RowsAre DEF Own
<1>4. lists[r.list] \in SharedList
    BY <1>2
<1>5. \A list \in SharedList : list.price \in [SharedSlots -> Row \cup {Null}]
    BY ReadersAssumption, Zenon
<1>6. lists[r.list].price \in [SharedSlots -> Row \cup {Null}]
    BY <1>4, <1>5
<1> HIDE DEF Row, SharedSlots
<1> QED
    BY <1>3, <1>6 DEF Shared!RowAt

LEMMA AnswersAgree ==
    ASSUME lists \in Seq(SharedList), NEW who \in Whoever, NEW sku, NEW vat0 \in BOOLEAN,
           \A r \in Shared!PriceFor(sku, who) : WithoutZero(Shared!RowAt(r)) = Shared!RowAt(r)
    PROVE  Shared!CurrentAnswer(sku, who, vat0) = Shared!LegacyAnswer(sku, who, vat0).price
<1>1. \A r \in Quoted(sku, who) :
          Shared!CurrentItem(Shared!RowAt(r), Shared!OwnerOf(r), vat0) = Shared!LegacyItem(Shared!RowAt(r), Shared!OwnerOf(r), vat0)
    BY QuotedRows, SharedItems, CartQuotes
<1>2. Shared!CurrentAnswer(sku, who, vat0) =
          {Shared!CurrentItem(Shared!RowAt(r), Shared!OwnerOf(r), vat0) : r \in Quoted(sku, who)}
    BY CurrentQuotes DEF Shared!CurrentAnswer
<1>3. Shared!LegacyAnswer(sku, who, vat0).price =
          {Shared!LegacyItem(Shared!RowAt(r), Shared!OwnerOf(r), vat0) : r \in Quoted(sku, who)}
    BY CartQuotes DEF Shared!LegacyAnswer
<1> QED
    BY <1>1, <1>2, <1>3


LEMMA DatedAgree ==
    ASSUME Published, scenario = "dated"
    PROVE  ItemsAgree
<1>1. lists \in Seq(DatedList) /\ now \in Nat
    BY DEF Published
<1>2. ASSUME NEW r \in Rows
      PROVE  Dated!RowAt(r) \in Row
    <2>1. PICK l \in DOMAIN lists : r \in Dated!RowsOf(l)
        BY <1>2 DEF Rows
    <2>2. r.list = l /\ r.slot = Item(1) /\ lists[l].price[r.slot] # Null
        BY <2>1 DEF Dated!RowsOf
    <2>3. lists[l] \in DatedList
        BY <1>1, <2>1
    <2>4. \A list \in DatedList : list.price \in [{Item(1)} -> Row \cup {Null}]
        BY ReadersAssumption, Zenon
    <2>5. lists[l].price \in [{Item(1)} -> Row \cup {Null}]
        BY <2>3, <2>4
    <2> HIDE DEF Row
    <2> QED
        BY <2>2, <2>5 DEF Dated!RowAt
<1> HIDE DEF Row
<1> QED
    BY <1>1, <1>2, EligibilityAgrees, DatedItems DEF ItemsAgree

\* In bulk the new layer has the catalogue's rows.
LEMMA BulkAgrees ==
    ASSUME lists \in Seq(SharedList), NEW who \in Whoever, \A l \in DOMAIN lists : lists[l].extras = <<>>
    PROVE  Shared!Standalone(Shared!CurrentRows({}, who)) = Shared!CatalogueFor({}, who)
<1>1. Shared!Standalone(Shared!CurrentRows({}, who)) =
          Alone(who) \cup {r \in Alone(Null) : who = Null \/ r.slot.sku \notin Skus(Own(who))}
    BY CurrentQuotes
<1>2. PricedBy(who) = Skus(Own(who))
    BY PricedIs
<1>3. CASE who = Null \/ Shared!OwnedBy(who) = {}
    <2>1. Shared!CatalogueFor({}, who) = Alone(Null)
        BY <1>3, CatalogueOfAnyone
    <2>2. who = Null \/ (Alone(who) = {} /\ Skus(Own(who)) = {})
        BY <1>3, LatestRows DEF Alone, Skus
    <2> QED
        BY <1>1, <2>1, <2>2
<1>4. CASE who # Null /\ Shared!OwnedBy(who) # {}
    <2>1. Shared!CatalogueFor({}, who) =
              {r \in Alone(Null) : Null \notin PricedBy(who) /\ r.slot.sku \notin PricedBy(who)} \cup Alone(who)
        BY <1>4, CatalogueOfCustomer
    <2>2. Null \notin PricedBy(who)
        <3>1. \A r \in Own(who) : r.slot.sku # Null
            BY RowsAre, SlotsAre DEF Own
        <3> QED
            BY <1>2, <3>1 DEF Skus
    <2> QED
        BY <1>1, <1>2, <1>4, <2>1, <2>2
<1> QED
    BY <1>3, <1>4

LEMMA SharedAgree ==
    ASSUME lists \in Seq(SharedList), NEW who \in Whoever
    PROVE  CartMatchesCatalogue(who) /\ LayersAgree(who)
<1>1. ASSUME \A l \in DOMAIN lists : lists[l].extras = <<>>
      PROVE  Shared!Standalone(Shared!CurrentRows({}, who)) = Shared!CatalogueFor({}, who)
    BY <1>1, BulkAgrees
<1>2. \A sku : Shared!CurrentFor(sku, who) = Shared!PriceFor(sku, who)
    BY CartQuotes, CurrentQuotes
<1>3. ASSUME NEW sku, \A r \in Shared!PriceFor(sku, who) : WithoutZero(Shared!RowAt(r)) = Shared!RowAt(r),
             NEW vat0 \in BOOLEAN
      PROVE  Shared!CurrentAnswer(sku, who, vat0) = Shared!LegacyAnswer(sku, who, vat0).price
    BY <1>3, AnswersAgree
<1>4. LayersAgree(who)
    BY <1>1, <1>2, <1>3 DEF LayersAgree
<1> QED
    BY <1>4, CatalogueMatches

\* A product has one price, wherever a customer reads it, for any lists of products and
\* components with any special prices, those of 0 included: the cart and the catalogue
\* (product_representation_service.py:42, output.py:48) quote the same row, but for the
\* three exceptions of CartMatchesCatalogue; and so do the readers before and after
\* read_from_current is turned on (output.py:108) where no list has prices of attributes.
\* The database and Python agree at every moment on whether a special price applies.
THEOREM EveryReaderQuotesTheSameAlways == MCSpec => []EveryReaderQuotesTheSame
<1>1. Published => EveryReaderQuotesTheSame
    <2>1. ASSUME Published, scenario = "shared", NEW who \in Whoever
          PROVE  CartMatchesCatalogue(who) /\ LayersAgree(who)
        BY <2>1, SharedAgree DEF Published
    <2> QED
        BY <2>1, DatedAgree DEF EveryReaderQuotesTheSame
<1> QED
    BY <1>1, PublishedOfSpec, PTL

-----------------------------------------------------------------------------
\* The rows a bundle is added up from are of one list, and its flag is that list's.
LEMMA PartsAreOf ==
    ASSUME NEW q \in Requests, NEW r \in OwnedParts(q)
    PROVE  /\ \E l : OwnedParts(q) \subseteq Owned!RowsOf(l) /\ (lists[l].verified => q.verified)
           /\ Owned!Listed(q.quantities) \subseteq {s.slot.sku : s \in OwnedParts(q)}
<1> DEFINE found == Owned!Fetch(kit, Owned!Listed(q.quantities), q.who)
           rows(l) == {s \in Owned!OfSkus(Owned!RowsOf(l), Owned!Listed(q.quantities)) : s.slot.parent = kit}
<1>1. OwnedParts(q) = found.rows /\ (found.verifiedOnly => q.verified)
      /\ Owned!Listed(q.quantities) \subseteq {s.slot.sku : s \in found.rows}
    BY DEF OwnedParts, Owned!Parts
<1>2. PICK l : found = [exists |-> TRUE, rows |-> rows(l), verifiedOnly |-> lists[l].verified]
    <2>1. found # Owned!NoPrices
        BY <1>1 DEF Owned!NoPrices
    <2> QED
        BY <2>1 DEF Owned!Fetch
<1>3. found.rows = rows(l) /\ found.verifiedOnly = lists[l].verified
    BY <1>2
<1>4. rows(l) \subseteq Owned!RowsOf(l)
    BY DEF Owned!OfSkus
<1> QED
    BY <1>1, <1>3, <1>4

LEMMA OwnedRows == \A l : \A r \in Owned!RowsOf(l) : r.list = l
  BY DEF Owned!RowsOf

BundlesAreWhole == \A q \in Requests : PricedWhole(q)

\* A ranged bundle is priced whole or not at all, and from one list: no component is
\* missing from a quantity map, none is of another customer's list, and none of a list
\* for verified customers unless the caller says that this one is (output_bundle.py:35-115).
THEOREM BundlesArePricedWhole == MCSpec => []BundlesAreWhole
<1>1. BundlesAreWhole
    BY PartsAreOf, OwnedRows DEF PricedWhole, BundlesAreWhole
<1> QED
    BY <1>1, PTL
=============================================================================
