-------------------------------- MODULE MCStores --------------------------------
(****************************************************************************)
(* Instances of the bulk writers, PriceUpsert, Migration and BulkEdit,      *)
(* small enough for TLC.  A behaviour is of one scenario: the variables of  *)
(* the other two modules stay Null.                                         *)
(****************************************************************************)
EXTENDS BulkEdit, TLC

CONSTANTS
    Scenarios,
    Callers, Settings, MaxCalls,                 \* of PriceUpsert
    SaleChannel, Slot, Price, Attr,              \* of Migration
    Catalogues, BatchSize, MaxLists, MaxRuns, MaxEdits,
    sc1, sc2, market, tier, a, b, d, x

\* The variables of PriceUpsert and Migration; `rows` and others are BulkEdit's.
VARIABLES
    scenario,
    setting, channels, lists, entries, now, proc, journaled, calls,
    catalogue, snapshots, current, history, attached, run, published, newest, runs, edits

upsertVars == <<setting, channels, lists, entries, now, proc, journaled, calls>>
migrationVars == <<catalogue, snapshots, current, history, attached, run, published, newest, runs, edits>>

CallersAndSkusAlike == Permutations(Callers) \cup Permutations(Sku)

(******************************* PriceUpsert ********************************)
Upsert == INSTANCE PriceUpsert WITH rows <- entries, Proc <- Callers

\* Callers of every kind; an import and the journal; bulk calls and entries that
\* overlap, with rows for the product itself and for it as a component.
SomeSettings ==
    {[kinds |-> {"import", "journal", "refresh", "legacy"}, component |-> FALSE, exclusive |-> TRUE],
     [kinds |-> {"import", "journal"}, component |-> FALSE, exclusive |-> TRUE],
     [kinds |-> {"import", "journal", "refresh"}, component |-> TRUE, exclusive |-> FALSE]}

ASSUME CallersAssumption == Settings \subseteq Upsert!Setting /\ Null \notin Nat \cup Upsert!Kind

(******************************** Migration *********************************)
Move == INSTANCE Migration WITH lists <- snapshots, Item <- Price

\* Prices of products and of a component; prices of attributes; and two sale channels
\* of the same channel, country and customer.
SomeCatalogues ==
    LET own == (sc1 :> market) @@ (sc2 :> tier)
    IN  {[items |-> {a, b, d}, components |-> {d}, attributeOnly |-> {}, floored |-> {b}, attrs |-> {}, slotOf |-> own],
         [items |-> {a, b}, components |-> {}, attributeOnly |-> {b}, floored |-> {}, attrs |-> {x}, slotOf |-> own],
         [items |-> {a, b}, components |-> {}, attributeOnly |-> {}, floored |-> {b}, attrs |-> {},
          slotOf |-> [sc \in SaleChannel |-> market]]}

ASSUME CataloguesAssumption ==
    /\ Catalogues \subseteq Move!Catalogue /\ IsFiniteSet(Price)
    /\ BatchSize \in Nat \ {0} /\ MaxLists \in Nat /\ MaxEdits \in Nat
    /\ Null \notin Move!Modes /\ Null \notin [list : Nat, clamped : BOOLEAN]

-----------------------------------------------------------------------------
Upserting == scenario = "upsert"
Migrating == scenario = "migration"
Editing == scenario = "batch"

NoUpsert ==
    /\ setting = Null /\ channels = Null /\ lists = Null /\ entries = Null /\ now = Null
    /\ proc = Null /\ journaled = Null /\ calls = Null

NoMigration ==
    /\ catalogue = Null /\ snapshots = Null /\ current = Null /\ history = Null /\ attached = Null
    /\ run = Null /\ published = Null /\ newest = Null /\ runs = Null /\ edits = Null

NoBulkEdit ==
    /\ deployment = Null /\ product = Null /\ rows = Null /\ logged = Null /\ queued = Null
    /\ items = Null /\ known = Null /\ batch = Null /\ item = Null
    /\ step = Null /\ saved = Null /\ written = Null /\ report = Null

MCInit ==
    /\ scenario \in Scenarios
    /\ IF Upserting THEN Upsert!Init ELSE NoUpsert
    /\ IF Migrating THEN Move!Init ELSE NoMigration
    /\ IF Editing THEN Init ELSE NoBulkEdit

MCNext ==
    /\ UNCHANGED scenario
    /\ \/ Upserting /\ Upsert!Next /\ UNCHANGED <<migrationVars, vars>>
       \/ Migrating /\ Move!Next /\ UNCHANGED <<upsertVars, vars>>
       \/ Editing /\ Next /\ UNCHANGED <<upsertVars, migrationVars>>

MCSpec == MCInit /\ [][MCNext]_<<scenario, upsertVars, migrationVars, vars>>

-----------------------------------------------------------------------------
\* While each call runs alone: a price list has one row for a product, and one for it
\* in a bundle, although no constraint of the database says so, and a journal entry is
\* never undone by an import, even one that read its source before the entry and
\* publishes its list after it (repository.py:125-160, 268-320).  Where a bulk call and
\* an entry overlap the code keeps neither promise: both may insert the row, and of
\* what repository.py:223 says is prevented only BulkNeverReverts holds.
UpsertKeepsRows ==
    Upserting =>
        /\ Upsert!TypeOK
        /\ setting.exclusive => Upsert!OneRowPerKey
        /\ setting.exclusive /\ setting.kinds \subseteq {"import", "journal"} /\ ~setting.component =>
               Upsert!JournalSurvivesImport

\* A bulk call that gives a time never replaces newer data, whatever was written
\* between its read and its UPDATE (repository.py:306).
BulkNeverReverts == [][Upserting => Upsert!NeverReverts]_upsertVars

\* When a step of the migration has ended, whatever happened to earlier runs: every
\* price of a sale channel's newest list has its row with a price of such a list
\* (migration_service.py:44-156), --verify-only reports the prices that the guard
\* raised and no others (:241-282), the history has every price of the lists there
\* were, and no more than once for each run (:159-208), and attributes are attached
\* within their slot (:219-229).  That a second run changes nothing is not claimed: it
\* logs everything again and overwrites edits, whatever docs/commands.md:18 says.
MigrationIsWhole ==
    Migrating =>
        /\ Move!TypeOK
        /\ Move!PopulatedFromLatest
        /\ Move!VerifyReportsClamps
        /\ Move!BackfillIsWhole
        /\ Move!AttributesStayInSlot

\* A batch keeps the promises of its items, whatever else is in it and whatever fails:
\* the floor (price_edit_service.py:593), a report of what was refused or raised (:602),
\* and, in a transaction, the history and the queue of what it changed, also of a
\* product it created (:710).
BatchKeepsPromises ==
    Editing => TypeOK /\ FloorHolds /\ NothingVanishes /\ ChangedIsLoggedAndQueued

\* In a transaction, which the deployment opens (ATOMIC_REQUESTS) and src/ does not,
\* an item that is reported as an error has changed nothing (price_edit_service.py:697).
ErrorsChangeNothing == [][Editing => ErrorChangesNothing]_vars
===============================================================================
