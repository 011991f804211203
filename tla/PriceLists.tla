------------------------------ MODULE PriceLists ------------------------------
(****************************************************************************)
(* The price lists (snapshots) of one channel: importers write them from    *)
(* CSV files, a generator derives lists for the other countries from the    *)
(* latest source list in one thread per country, a garbage collector        *)
(* deletes the old ones, and readers are shown the latest that is ready.    *)
(*                                                                          *)
(* Prices are counted in batches: `content` of a list is the number of      *)
(* batches it has.  Every query that commits is a step.                     *)
(****************************************************************************)
EXTENDS Naturals, FiniteSets

CONSTANTS
    SaleChannel,   \* the sale channels of the channel
    CountryOf,     \* their countries
    CustomerOf,    \* the customer a sale channel is for, or Null for anyone
    Source,        \* the one generation starts from (CSV, for anyone)
    Generated,     \* those that generation writes
    Currency,
    Customer,
    Null,
    Importers,     \* processes that import CSV files
    Batches,       \* the batches of a file
    Keep,          \* status -> how many lists the garbage collector spares
    MaxLists       \* bound: how many lists are ever written

ASSUME ChannelAssumption ==
    /\ Source \in SaleChannel /\ Generated \subseteq SaleChannel \ {Source}
    /\ CustomerOf \in [SaleChannel -> Customer \cup {Null}]
    /\ Null \notin Customer
    /\ Importers \cap Generated = {}
ASSUME CountAssumption == Batches \in Nat /\ MaxLists \in Nat

Status == {"ready", "error", "in_progress"}

ASSUME KeepAssumption == Keep \in [Status -> Nat]

VARIABLES
    lists,   \* PriceList: id -> row, or Null where there is none
    made,    \* how many have been written; the last id
    clock,   \* the time of the latest save
    job,     \* what each importer and each thread of the generator does
    gc       \* what the garbage collector does

vars == <<lists, made, clock, job, gc>>

-----------------------------------------------------------------------------
(* Data *)

ListId == 1..MaxLists
Worker == Importers \cup Generated

\* `whole` is how many batches its writer had for a list.
Row ==
    [status : Status, sc : SaleChannel, currency : Currency,
     created : Nat, modified : Nat, content : Nat, whole : Nat]

ASSUME NullIsNoList == Null \notin Row /\ Null \notin Currency

Job ==
    [at : {"idle", "start", "write"}, list : ListId \cup {0}, sc : SaleChannel \cup {Null},
     currency : Currency \cup {Null}, whole : Nat, left : Nat]
NoJob == [at |-> "idle", list |-> 0, sc |-> Null, currency |-> Null, whole |-> 0, left |-> 0]

\* `doomed` has the lists to be deleted, each with how many batches were found in it;
\* `chosen` is when those that stay were chosen, which only the properties look at.
Collector ==
    [at : {"idle", "choose", "select", "delete"}, sc : SaleChannel \cup {Null},
     todo : SUBSET SaleChannel, status : Status, stay : SUBSET ListId, chosen : Nat,
     doomed : UNION {[ls -> Nat] : ls \in SUBSET ListId}]
NoGc ==
    [at |-> "idle", sc |-> Null, todo |-> {}, status |-> "ready", stay |-> {}, chosen |-> 0, doomed |-> <<>>]

TypeOK ==
    /\ lists \in [ListId -> Row \cup {Null}]
    /\ made \in 0..MaxLists
    /\ clock \in Nat
    /\ job \in [Worker -> Job]
    /\ gc \in Collector

Existing == {l \in ListId : lists[l] # Null}

Lists(sc, status) == {l \in Existing : lists[l].sc = sc /\ lists[l].status = status}

Init ==
    /\ lists = [l \in ListId |-> Null]
    /\ made = 0
    /\ clock = 0
    /\ job = [w \in Worker |-> NoJob]
    /\ gc = NoGc

-----------------------------------------------------------------------------
(* Readers *)

\* Seeded fault: the list saved last instead of the one created last.
ShownAmong_ByModified(ls) ==
    {l \in ls : \A k \in ls : lists[k].modified <= lists[l].modified}

\* latest("created_on", "pk"): at most one list.
ShownAmong(ls) == {l \in ls : \A k \in ls : lists[k].created <= lists[l].created}

ReadyFor(country, currency, customer) ==
    {l \in Existing : /\ lists[l].status = "ready"
                      /\ lists[l].currency = currency
                      /\ CountryOf[lists[l].sc] = country
                      /\ CustomerOf[lists[l].sc] = customer}

\* get_latest_pricelist: the customer's own list, else the one for anyone.
Latest(country, currency, customer) ==
    IF customer = Null \/ ReadyFor(country, currency, customer) = {}
    THEN ShownAmong(ReadyFor(country, currency, Null))
    ELSE ShownAmong(ReadyFor(country, currency, customer))

\* get_latest_pricelist_by_source: the list of the source that was saved last.
LatestBySource ==
    LET ls == {l \in Existing : lists[l].sc = Source}
    IN  {l \in ls : \A k \in ls : lists[k].modified <= lists[l].modified}

-----------------------------------------------------------------------------
(* Writing lists *)

\* The first save of a list.
Create(w, sc, currency, whole, status, content) ==
    /\ made < MaxLists
    /\ made' = made + 1
    /\ clock' = clock + 1
    /\ lists' = [lists EXCEPT ![made + 1] =
            [status |-> status, sc |-> sc, currency |-> currency, created |-> clock + 1,
             modified |-> clock + 1, content |-> content, whole |-> whole]]

\* create_pricelist_from_csv, up to the call of read_from_file.
ImportStart(w) ==
    /\ w \in Importers /\ job[w].at = "idle"
    /\ \E sc \in SaleChannel \ Generated, currency \in Currency :
        /\ Create(w, sc, currency, Batches, "in_progress", 0)
        /\ job' = [job EXCEPT ![w] = [at |-> "write", list |-> made + 1, sc |-> sc,
                currency |-> currency, whole |-> Batches, left |-> Batches]]
    /\ UNCHANGED gc

\* A list uploaded in the Django admin: one transaction from the first save on.
AdminImport(w) ==
    /\ w \in Importers /\ job[w].at = "idle"
    /\ \E sc \in SaleChannel \ Generated, currency \in Currency, status \in Status :
        Create(w, sc, currency, Batches, status, Batches)
    /\ UNCHANGED <<job, gc>>

\* create_pricelists: the source list is chosen and its prices are read; the
\* executor then has a thread for each of the other countries.
GenerateRead ==
    /\ \A w \in Generated : job[w].at = "idle"
    /\ Generated # {}
    /\ \E source \in LatestBySource :
        job' = [w \in Worker |-> IF w \notin Generated THEN job[w] ELSE
            [at |-> "start", list |-> 0, sc |-> w, currency |-> lists[source].currency,
             whole |-> lists[source].content, left |-> lists[source].content]]
    /\ UNCHANGED <<lists, made, clock, gc>>

\* process_country, up to the loop over the prices.
GenerateStart(w) ==
    /\ job[w].at = "start"
    /\ Create(w, job[w].sc, job[w].currency, job[w].whole, "in_progress", 0)
    /\ job' = [job EXCEPT ![w].at = "write", ![w].list = made + 1]
    /\ UNCHANGED gc

\* The foreign key of a price refers to a list that exists.
WriteBatch(w) ==
    /\ job[w].at = "write" /\ job[w].left > 0
    /\ lists[job[w].list] # Null
    /\ lists' = [lists EXCEPT ![job[w].list].content = @ + 1]
    /\ job' = [job EXCEPT ![w].left = @ - 1]
    /\ UNCHANGED <<made, clock, gc>>

\* An exception (a deleted list is one reason), or a killed process.
JobFail(w) ==
    /\ job[w].at # "idle"
    /\ job' = [job EXCEPT ![w] = NoJob]
    /\ UNCHANGED <<lists, made, clock, gc>>

\* What an import or a thread that wrote all it had may set the list to.
Results(w) == IF w \in Generated THEN {"ready"} ELSE Status

\* Seeded fault: a list is finished when its last batch has not been written.
Finish_Early(w) ==
    /\ job[w].at = "write"
    /\ \E status \in Results(w) :
        lists' = [lists EXCEPT ![job[w].list] =
            IF @ = Null
            THEN [status |-> status, sc |-> job[w].sc, currency |-> job[w].currency,
                  created |-> clock + 1, modified |-> clock + 1,
                  content |-> 0, whole |-> job[w].whole]
            ELSE [@ EXCEPT !.status = status, !.modified = clock + 1]]
    /\ clock' = clock + 1
    /\ job' = [job EXCEPT ![w] = NoJob]
    /\ UNCHANGED <<made, gc>>

\* The last save.  save() updates the row by its id; when there is none, it
\* inserts the row again, created now, without the prices it had.
Finish(w) ==
    /\ job[w].at = "write" /\ job[w].left = 0
    /\ \E status \in Results(w) :
        lists' = [lists EXCEPT ![job[w].list] =
            IF @ = Null
            THEN [status |-> status, sc |-> job[w].sc, currency |-> job[w].currency,
                  created |-> clock + 1, modified |-> clock + 1,
                  content |-> 0, whole |-> job[w].whole]
            ELSE [@ EXCEPT !.status = status, !.modified = clock + 1]]
    /\ clock' = clock + 1
    /\ job' = [job EXCEPT ![w] = NoJob]
    /\ UNCHANGED <<made, gc>>

-----------------------------------------------------------------------------
(* The garbage collector; a lock file lets one run at a time *)

\* Seeded fault: the oldest lists are the ones that stay.
Spared_Oldest(ls, status) ==
    {l \in ls : Cardinality({k \in ls : lists[k].created < lists[l].created}) < Keep[status]}

\* order_by("-created_on")[0:Keep]
Spared(ls, status) ==
    {l \in ls : Cardinality({k \in ls : lists[k].created > lists[l].created}) < Keep[status]}

GcStart ==
    /\ gc.at = "idle"
    /\ \E sc \in SaleChannel :
        gc' = [NoGc EXCEPT !.at = "choose", !.sc = sc, !.todo = SaleChannel \ {sc}]
    /\ UNCHANGED <<lists, made, clock, job>>

GcChoose ==
    /\ gc.at = "choose"
    /\ gc' = [gc EXCEPT !.at = "select", !.chosen = clock,
                         !.stay = Spared(Lists(gc.sc, gc.status), gc.status)]
    /\ UNCHANGED <<lists, made, clock, job>>

\* delete() of the queryset selects the lists and their prices first ...
GcSelect ==
    /\ gc.at = "select"
    /\ gc' = [gc EXCEPT !.at = "delete",
                !.doomed = [l \in Lists(gc.sc, gc.status) \ gc.stay |-> lists[l].content]]
    /\ UNCHANGED <<lists, made, clock, job>>

\* ready, then error, then in_progress, then the next sale channel
StatusAfter == [ready |-> "error", error |-> "in_progress"]
GcAdvance ==
    \/ /\ gc.status # "in_progress"
       /\ gc' = [gc EXCEPT !.at = "choose", !.status = StatusAfter[gc.status],
                           !.stay = {}, !.chosen = 0, !.doomed = <<>>]
    \/ /\ gc.status = "in_progress"
       /\ \E sc \in gc.todo :
            gc' = [NoGc EXCEPT !.at = "choose", !.sc = sc, !.todo = gc.todo \ {sc}]
    \/ /\ gc.status = "in_progress" /\ gc.todo = {}
       /\ gc' = NoGc

\* ... and deletes them by their ids; a price that was written since refers to its list
\* and lets the deletion fail (GcFail).
GcDelete ==
    /\ gc.at = "delete"
    /\ \A l \in DOMAIN gc.doomed : lists[l] # Null /\ lists[l].content = gc.doomed[l]
    /\ lists' = [l \in ListId |-> IF l \in DOMAIN gc.doomed THEN Null ELSE lists[l]]
    /\ GcAdvance
    /\ UNCHANGED <<made, clock, job>>

GcFail ==
    /\ gc.at # "idle"
    /\ gc' = NoGc
    /\ UNCHANGED <<lists, made, clock, job>>

-----------------------------------------------------------------------------
Work(w) ==
    \/ ImportStart(w) \/ AdminImport(w)
    \/ GenerateStart(w) \/ WriteBatch(w) \/ JobFail(w) \/ Finish(w)

Next ==
    \/ \E w \in Worker : Work(w)
    \/ GenerateRead
    \/ GcStart \/ GcChoose \/ GcSelect \/ GcDelete \/ GcFail

Spec == Init /\ [][Next]_vars

-----------------------------------------------------------------------------
(* Properties *)

Market == {CountryOf[sc] : sc \in SaleChannel} \X Currency \X (Customer \cup {Null})
ShownIn(m) == Latest(m[1], m[2], m[3])

\* A list that is ready has all that its writer had for it: read_from_file and
\* process_country leave a list in progress until its last price is written, and
\* a failed writer never gets to set its status.  The one exception, which the code
\* has: the collector deletes a list while it is being written, and the writer's last
\* save inserts it again, without any price.
ReadyListIsWhole ==
    \A l \in Existing : lists[l].status = "ready" =>
        \/ lists[l].content = lists[l].whole
        \/ lists[l].content = 0 /\ lists[l].created = lists[l].modified

\* Saved after the collector had chosen the lists that stay, and yet to be deleted.
Overtaken == {l \in DOMAIN gc.doomed : lists[l] # Null /\ lists[l].modified > gc.chosen}

\* garbage_collector.start: "Removing all pricelists ... except N latest": whatever
\* the garbage collector removes from a market while others write lists, a list that
\* was shown in it stays, unless it was saved after the collector had chosen the N
\* latest (garbage_collector.py:55, :66); such a list the code does delete.
SparesShown ==
    [][gc.at = "delete" =>
        \A m \in Market : ShownIn(m) \subseteq {l \in ListId : lists'[l] # Null} \cup Overtaken]_vars

-----------------------------------------------------------------------------
(* What readers are promised *)

\* The list of a market itself; a customer without one is shown the one for anyone.
Own(m) == ShownAmong(ReadyFor(m[1], m[2], m[3]))
Version(m) == IF Own(m) = {} THEN 0 ELSE lists[CHOOSE l \in Own(m) : TRUE].created

Published == INSTANCE PublishedPrices
    WITH shown <- [m \in Market |-> Version(m)], overtaken <- gc.at = "delete" /\ Overtaken # {}

\* A market that has prices never loses them, and is only ever shown a list that was
\* begun later than the one it replaces, except when the collector deletes a list
\* that was saved after it had chosen the lists that stay (see SparesShown).
MarketsKeepPrices == Published!Spec
=============================================================================
