----------------------------- MODULE SettingsCache -----------------------------
(****************************************************************************)
(* The toggles of PriceManagerSettings: one row in the database, edited in  *)
(* the Django admin, and one cache entry for each toggle, which readers     *)
(* fill and which expires.  The admin saves in a transaction and deletes    *)
(* the entries before it commits; any other caller of save() commits first. *)
(*                                                                          *)
(* Time is what is left of an entry, and the age of the last event that     *)
(* may explain an old entry; both end at TTL, so that time needs no bound.  *)
(****************************************************************************)
EXTENDS Naturals, FiniteSets

CONSTANTS
    Key,           \* matrix_signals_enabled, read_from_current
    Reader,        \* processes that ask for a toggle
    TTL,           \* 60 s, in ticks
    Fallback,      \* what a reader takes for the toggle when the load fails
    Atomic,        \* whether save() runs in a transaction
    MayFail,       \* whether loads may raise
    MaxSaves,      \* bound of the model
    Null

ASSUME SettingsAssumption ==
    /\ TTL \in Nat \ {0}
    /\ Fallback \in [Key -> BOOLEAN]
    /\ Atomic \in BOOLEAN /\ MayFail \in BOOLEAN

VARIABLES
    db,         \* the committed row
    cache,      \* for each key Null, or the value and the ticks it has left
    admin,      \* who saves: step, the row written, the keys yet to be deleted
    reader,     \* for each reader its step, key and loaded value
    age,        \* for each key the ticks since it was changed or a load failed
    saves

vars == <<db, cache, admin, reader, age, saves>>

NoAdmin == [step |-> "idle", row |-> Null, keys |-> {}]
NoReader == [step |-> "idle", key |-> Null, value |-> Null]

\* Once the row is committed, what changed is news to the cache.
Committed(row) ==
    /\ db' = row
    /\ age' = [k \in Key |-> IF row[k] # db[k] THEN 0 ELSE age[k]]

Save ==
    \E row \in [Key -> BOOLEAN] :
        /\ admin.step = "idle"
        /\ saves < MaxSaves
        /\ saves' = saves + 1
        /\ admin' = [step |-> "delete", row |-> row, keys |-> Key]
        /\ IF Atomic THEN UNCHANGED <<db, age>> ELSE Committed(row)
        /\ UNCHANGED <<cache, reader>>

\* cache.delete of one key; the two calls are modelled in either order.
DeleteEntry(k) ==
    /\ admin.step = "delete" /\ k \in admin.keys
    /\ admin' = [admin EXCEPT !.keys = @ \ {k}]
    /\ cache' = [cache EXCEPT ![k] = Null]
    /\ UNCHANGED <<db, reader, age, saves>>

Saved ==
    /\ admin.step = "delete" /\ admin.keys = {}
    /\ admin' = NoAdmin
    /\ IF Atomic THEN Committed(admin.row) ELSE UNCHANGED <<db, age>>
    /\ UNCHANGED <<cache, reader, saves>>

\* Something later in the transaction of the admin raises.
RollBack ==
    /\ Atomic /\ admin.step = "delete"
    /\ admin' = NoAdmin
    /\ UNCHANGED <<db, cache, reader, age, saves>>

\* is_matrix_signals_enabled and read_from_current, up to the load.
Miss(r, k) ==
    /\ reader[r].step = "idle"
    /\ cache[k] = Null
    /\ reader' = [reader EXCEPT ![r] = [step |-> "load", key |-> k, value |-> Null]]
    /\ UNCHANGED <<db, cache, admin, age, saves>>

Load(r) ==
    /\ reader[r].step = "load"
    /\ reader' = [reader EXCEPT ![r].step = "set", ![r].value = db[reader[r].key]]
    /\ UNCHANGED <<db, cache, admin, age, saves>>

\* The fallback is cached like a value.
LoadFails(r) ==
    /\ MayFail
    /\ reader[r].step = "load"
    /\ reader' = [reader EXCEPT ![r].step = "set", ![r].value = Fallback[reader[r].key]]
    /\ age' = [age EXCEPT ![reader[r].key] = 0]
    /\ UNCHANGED <<db, cache, admin, saves>>

\* Seeded fault: the entry is stored without an expiry.
Expiry_Never(left) == left

\* What a tick leaves of an entry.
Expiry(left) == left - 1

Set(r) ==
    /\ reader[r].step = "set"
    /\ cache' = [cache EXCEPT ![reader[r].key] = [value |-> reader[r].value, left |-> TTL]]
    /\ reader' = [reader EXCEPT ![r] = NoReader]
    /\ UNCHANGED <<db, admin, age, saves>>

\* A load and the set that follows it are quick: no tick falls between them.
Tick ==
    /\ \A r \in Reader : reader[r].step # "set"
    /\ cache' = [k \in Key |->
           IF cache[k] = Null THEN Null
           ELSE IF Expiry(cache[k].left) = 0 THEN Null
           ELSE [cache[k] EXCEPT !.left = Expiry(@)]]
    /\ age' = [k \in Key |-> IF age[k] < TTL THEN age[k] + 1 ELSE TTL]
    /\ UNCHANGED <<db, admin, reader, saves>>

-----------------------------------------------------------------------------
Init ==
    /\ db = [k \in Key |-> FALSE]
    /\ cache = [k \in Key |-> Null]
    /\ admin = NoAdmin
    /\ reader = [r \in Reader |-> NoReader]
    /\ age = [k \in Key |-> TTL]
    /\ saves = 0

Saving == (\E k \in Key : DeleteEntry(k)) \/ Saved \/ RollBack
Reading(r) == Load(r) \/ LoadFails(r) \/ Set(r)

Next ==
    \/ Save \/ Saving \/ Tick
    \/ \E r \in Reader : (\E k \in Key : Miss(r, k)) \/ Reading(r)

Spec == Init /\ [][Next]_vars

\* Time passes, and a request that has begun goes on.
FairSpec == Spec /\ WF_vars(Tick) /\ WF_vars(Saving) /\ \A r \in Reader : WF_vars(Reading(r))

-----------------------------------------------------------------------------
\* The shape of the state; an entry always holds a toggle, and some time to live.
TypeOK ==
    /\ db \in [Key -> BOOLEAN]
    /\ \A k \in Key : cache[k] # Null => cache[k].value \in BOOLEAN /\ cache[k].left \in 1..TTL
    /\ age \in [Key -> 0..TTL]
    /\ admin.keys \subseteq Key
    /\ \A r \in Reader : reader[r].step = "set" => reader[r].value \in BOOLEAN

Agrees(k) == cache[k] # Null => cache[k].value = db[k]

\* A process acts on an old value of a toggle for a minute at most: an entry that
\* differs from the row is younger than the last change, or than the last load
\* that failed, whatever readers and the admin were doing meanwhile.
OldForAMinute == \A k \in Key : ~Agrees(k) => age[k] < TTL

\* Whatever the readers do, the deletions and the expiry together bring every
\* process to the row's value in the end, and it stays there.
CacheSettles == \A k \in Key : <>[]Agrees(k)
=============================================================================
