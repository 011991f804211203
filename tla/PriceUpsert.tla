------------------------------ MODULE PriceUpsert ------------------------------
(****************************************************************************)
(* The repository through which integrations write legacy price lists: a    *)
(* bulk import fills a new list and publishes it, a journal of single       *)
(* changes writes to the list that is published and to the one that is      *)
(* being filled, and a bulk refresh or the older unconditional call writes  *)
(* to the published list.                                                   *)
(*                                                                          *)
(* The integrations are other packages: that an import creates, fills and   *)
(* publishes, and what a journal entry does, is taken from the repository's *)
(* docstrings.  A price is the moment its data was read from the source.    *)
(****************************************************************************)
EXTENDS Naturals, FiniteSets, Sequences

CONSTANTS
    Proc,
    Settings,
    MaxCalls,     \* bound of the model
    Null

Kind == {"import", "refresh", "legacy", "journal"}

\* What the integrations are like: the callers that occur, whether the product is also
\* sold as a component of a bundle, and whether each bulk call, and each journal
\* entry, runs alone.
Setting == [kinds : SUBSET Kind, component : BOOLEAN, exclusive : BOOLEAN]

VARIABLES
    setting,
    channels,   \* sale channels of the channel and country, numbered by pk
    lists,      \* price lists, in the order of their creation
    rows,       \* prices: id, list, key, data, and the time in updated_at
    now,        \* counts the calls that read or write a time
    proc,       \* each caller: its step, and what it holds in memory
    journaled,  \* the data of the newest journal entry that was written
    calls

vars == <<setting, channels, lists, rows, now, proc, journaled, calls>>

\* The rows of one product in a list: its own, and the one it has in a bundle.
Key == IF setting.component THEN {"simple", "component"} ELSE {"simple"}

\* t: the time of the caller's data; at: what it compares with updated_at.
Idle == [kind |-> Null, step |-> "idle", sc |-> Null, todo |-> <<>>,
         t |-> Null, at |-> Null, seen |-> {}]

Goto(p, step) == proc' = [proc EXCEPT ![p].step = step]
End(p) == proc' = [proc EXCEPT ![p] = Idle]

\* Where other callers may come in between, and where they may not.
InCall(p) == proc[p].step \in {"channel_create", "create", "update", "active", "entry", "entry_create"}
MayStep(p) == setting.exclusive => \A q \in Proc \ {p} : ~InCall(q)

Of(list) == {row \in rows : row.list = list}
Latest(sc, status) == {i \in DOMAIN lists : lists[i] = [sc |-> sc, status |-> status]}
Newest(is) == CHOOSE i \in is : \A j \in is : j <= i

NewRow(list, key, data, at) ==
    [id |-> <<Cardinality(rows), key>>, list |-> list, key |-> key, data |-> data, at |-> at]

Begin(p, kind) ==
    /\ proc[p].step = "idle" /\ MayStep(p)
    /\ kind \in setting.kinds
    \* The entries of a journal are handled one after the other.
    /\ kind = "journal" => \A q \in Proc : proc[q].kind # "journal"
    /\ calls < MaxCalls
    /\ calls' = calls + 1
    /\ now' = now + 1
    /\ proc' = [proc EXCEPT ![p] = [Idle EXCEPT !.kind = kind, !.step = "channel", !.t = now',
                                                !.at = IF kind = "legacy" THEN Null ELSE now']]
    /\ UNCHANGED <<channels, lists, rows, journaled>>

\* sale_channel_get_or_create: of several, the one with the greatest pk.
ChannelFound == channels

AfterChannel(kind) ==
    CASE kind = "import" -> "list" [] kind = "journal" -> "active" [] OTHER -> "existing"

FindChannel(p) ==
    /\ proc[p].step = "channel" /\ MayStep(p)
    /\ proc' = [proc EXCEPT
           ![p].step = IF channels = 0 THEN "channel_create" ELSE AfterChannel(proc[p].kind),
           ![p].sc   = IF channels = 0 THEN Null ELSE ChannelFound]
    /\ UNCHANGED <<channels, lists, rows, now, journaled, calls>>

CreateChannel(p) ==
    /\ proc[p].step = "channel_create" /\ MayStep(p)
    /\ channels' = channels + 1
    /\ proc' = [proc EXCEPT ![p].step = AfterChannel(proc[p].kind), ![p].sc = channels + 1]
    /\ UNCHANGED <<lists, rows, now, journaled, calls>>

\* create_pricelist.  An import reads its source once its list is there.
CreateList(p) ==
    /\ proc[p].step = "list" /\ MayStep(p)
    /\ lists' = Append(lists, [sc |-> proc[p].sc, status |-> "IN_PROGRESS"])
    /\ now' = now + 1
    /\ proc' = [proc EXCEPT ![p].step = "read", ![p].todo = <<Len(lists) + 1>>, ![p].t = now', ![p].at = now']
    /\ UNCHANGED <<channels, rows, journaled, calls>>

\* get_existing_pricelist: it raises when nothing is published.
FindExisting(p) ==
    /\ proc[p].step = "existing" /\ MayStep(p)
    /\ LET ready == Latest(proc[p].sc, "READY")
       IN  IF ready = {} THEN End(p)
           ELSE proc' = [proc EXCEPT ![p].step = "read", ![p].todo = <<Newest(ready)>>]
    /\ UNCHANGED <<channels, lists, rows, now, journaled, calls>>

Published(list) ==
    [i \in DOMAIN lists |-> IF i = list THEN [lists[i] EXCEPT !.status = "READY"] ELSE lists[i]]

\* set_ready_pricelist_by_pks.
SetReady(p) ==
    /\ proc[p].step = "ready" /\ MayStep(p)
    /\ lists' = Published(Head(proc[p].todo))
    /\ End(p)
    /\ UNCHANGED <<channels, rows, now, journaled, calls>>

-----------------------------------------------------------------------------
\* price_bulk_update_or_create, for the prices of every key: what it reads, ...
Skips(row, at) == at # Null /\ row.at # Null /\ row.at >= at

Read(p) ==
    LET found == Of(Head(proc[p].todo))
        twice == \E r, s \in found : r # s /\ r.key = s.key
    IN  /\ proc[p].step = "read" /\ MayStep(p)
        \* The key is taken out of to_create once more than it is in there: ValueError.
        /\ IF twice
           THEN End(p)
           ELSE proc' = [proc EXCEPT ![p].step = "create", ![p].seen = found]
        /\ UNCHANGED <<channels, lists, rows, now, journaled, calls>>

\* ... what it creates, ...
Missing(seen) == Key \ {row.key : row \in seen}

\* auto_now: whatever updated_at the caller gave, a created row has the time.
Create(p) ==
    LET list == Head(proc[p].todo)
    IN  /\ proc[p].step = "create" /\ MayStep(p)
        /\ now' = now + 1
        /\ rows' = rows \cup
               {NewRow(list, key, proc[p].t, now') : key \in Missing(proc[p].seen)}
        /\ Goto(p, "update")
        /\ UNCHANGED <<channels, lists, journaled, calls>>

\* Seeded fault: the update is not made conditional.
Filter_None(row, at) == TRUE

\* ... and what it updates: filter_conditions is a condition of the UPDATE.
Filter(row, at) == at # Null => row.at # Null /\ row.at < at

Chosen(p, row) ==
    /\ \E old \in proc[p].seen : old.id = row.id /\ ~Skips(old, proc[p].at)
    /\ Filter(row, proc[p].at)

\* updated_at is what the caller gave, even if that is nothing.
Stored(p, row) == [row EXCEPT !.data = proc[p].t, !.at = proc[p].at]

Update(p) ==
    /\ proc[p].step = "update" /\ MayStep(p)
    /\ rows' = {IF Chosen(p, row) THEN Stored(p, row) ELSE row : row \in rows}
    /\ IF proc[p].kind = "import"
       THEN proc' = [proc EXCEPT ![p].step = "ready", ![p].seen = {}]
       ELSE End(p)
    /\ UNCHANGED <<channels, lists, now, journaled, calls>>

-----------------------------------------------------------------------------
\* Seeded fault: only the published list.
Active_Ready(sc) == LET ready == Latest(sc, "READY") IN IF ready = {} THEN <<>> ELSE <<Newest(ready)>>

\* get_active_pricelists.
Active(sc) ==
    LET newest(status) ==
            LET found == Latest(sc, status) IN IF found = {} THEN <<>> ELSE <<Newest(found)>>
    IN  newest("READY") \o newest("IN_PROGRESS")

FindActive(p) ==
    /\ proc[p].step = "active" /\ MayStep(p)
    /\ IF Active(proc[p].sc) = <<>> THEN End(p)
       ELSE proc' = [proc EXCEPT ![p].step = "entry", ![p].todo = Active(proc[p].sc)]
    /\ UNCHANGED <<channels, lists, rows, now, journaled, calls>>

Written(p) ==
    LET left == Tail(proc[p].todo)
    IN  /\ proc' = [proc EXCEPT
               ![p] = IF left = <<>> THEN Idle ELSE [@ EXCEPT !.step = "entry", !.todo = left]]
        /\ journaled' = IF proc[p].t > journaled THEN proc[p].t ELSE journaled

\* update_price_in_existing_pricelist.  The row is looked up by list and product,
\* a component's as well as the product's own.
Entry(p) ==
    LET found == Of(Head(proc[p].todo))
    IN  /\ proc[p].step = "entry" /\ MayStep(p)
        /\ \/ /\ Cardinality(found) = 1
              /\ now' = now + 1
              /\ rows' = (rows \ found) \cup {[row EXCEPT !.data = proc[p].t, !.at = now'] : row \in found}
              /\ Written(p)
           \/ /\ found = {}
              /\ Goto(p, "entry_create")
              /\ UNCHANGED <<rows, now, journaled>>
           \/ /\ Cardinality(found) > 1
              /\ End(p)  \* MultipleObjectsReturned
              /\ UNCHANGED <<rows, now, journaled>>
        /\ UNCHANGED <<channels, lists, calls>>

\* No constraint keeps another process from having created the row meanwhile.
EntryCreate(p) ==
    /\ proc[p].step = "entry_create" /\ MayStep(p)
    /\ now' = now + 1
    /\ rows' = rows \cup {NewRow(Head(proc[p].todo), "simple", proc[p].t, now')}
    /\ Written(p)
    /\ UNCHANGED <<channels, lists, calls>>

-----------------------------------------------------------------------------
\* Nothing yet, or one published list whose prices were read at 1 and stored at 2.
Init ==
    /\ setting \in Settings
    /\ \/ channels = 0 /\ lists = <<>> /\ rows = {}
       \/ /\ channels = 1 /\ lists = <<[sc |-> 1, status |-> "READY"]>>
          /\ rows = {[id |-> <<0, key>>, list |-> 1, key |-> key, data |-> 1, at |-> 2] : key \in Key}
    /\ now = 2
    /\ proc = [p \in Proc |-> Idle]
    /\ journaled = 0 /\ calls = 0

Step(p) ==
    \/ FindChannel(p) \/ CreateChannel(p) \/ CreateList(p) \/ FindExisting(p) \/ SetReady(p)
    \/ Read(p) \/ Create(p) \/ Update(p)
    \/ FindActive(p) \/ Entry(p) \/ EntryCreate(p)

Next ==
    /\ UNCHANGED setting
    /\ \E p \in Proc : (\E kind \in Kind : Begin(p, kind)) \/ Step(p)

Spec == Init /\ [][Next]_vars

-----------------------------------------------------------------------------
Quiet == \A p \in Proc : proc[p].step = "idle"

\* The shape of the state; a row is never stored before its data was read.
TypeOK ==
    /\ channels \in Nat /\ now \in Nat
    /\ \A i \in DOMAIN lists : lists[i].sc \in 1..channels /\ lists[i].status \in {"READY", "IN_PROGRESS"}
    /\ \A row \in rows :
           /\ row.list \in DOMAIN lists /\ row.key \in Key /\ row.data \in 1..now
           /\ row.at = Null \/ row.at >= row.data

\* "This prevents race condition where bulk import (old data) overwrites journal
\* update (fresh data)" (repository.py:223): whatever was written between the read
\* and the UPDATE of a bulk call that gives a time, it never replaces newer data.
NeverReverts ==
    \A p \in Proc : proc[p].step = "update" /\ proc'[p].step # "update" /\ proc[p].at # Null =>
        \A row \in rows : \E new \in rows' : new.id = row.id /\ new.data >= row.data

\* A price list has one row for a product, and one for it in a bundle, although no
\* constraint of the database says so; the callers rely on it (Read, Entry).
OneRowPerKey == \A r, s \in rows : r.list = s.list /\ r.key = s.key => r = s

\* A journal entry is never undone by an import, even one that read its source
\* before the entry and publishes its list after it.
JournalSurvivesImport ==
    LET shown == Latest(ChannelFound, "READY")
    IN  Quiet /\ shown # {} =>
            \A row \in Of(Newest(shown)) : row.key = "simple" => row.data >= journaled

=============================================================================
