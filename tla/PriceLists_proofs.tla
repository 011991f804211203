--------------------------- MODULE PriceLists_proofs ---------------------------
(****************************************************************************)
(* Proofs about PriceLists: types, that ready lists are whole, that the     *)
(* collector leaves the lists that are shown, except those that were saved  *)
(* after it had chosen, and that the shop keeps its promise to readers,     *)
(* PublishedPrices.  Then about PriceListImport: CurrentPrice agrees with   *)
(* the list it was filled from, and the history is told of every write.     *)
(****************************************************************************)
EXTENDS MCLists, FiniteSetTheorems, WellFoundedInduction, TLAPS

\* Otherwise the lists of one currency push out those of another.
OneCurrency == \A c, d \in Currency : c = d
SparesSome == Keep["ready"] > 0

-----------------------------------------------------------------------------
(* The inductive invariant *)

\* Ids and times are given out once.
Fresh ==
    /\ \A l \in Existing :
        l <= made /\ lists[l].created \in 1..clock /\ lists[l].modified <= clock
    /\ \A l, k \in Existing : lists[l].created = lists[k].created => l = k

\* A worker that writes a list has it to itself, and what is still to be written to
\* it is what it lacks, unless the collector has deleted it.
OwnList(w) ==
    LET l == job[w].list
    IN  /\ l \in ListId /\ l <= made
        /\ lists[l] # Null =>
            lists[l].status = "in_progress" /\ lists[l].content + job[w].left = lists[l].whole
        /\ \A v \in Worker \ {w} : job[v].at = "write" => job[v].list # l

Writing ==
    \A w \in Worker :
        /\ job[w].at # "idle" => job[w].sc \in SaleChannel /\ job[w].currency \in Currency
        /\ job[w].at = "start" => job[w].left = job[w].whole
        /\ job[w].at = "write" => OwnList(w)

\* The collector spares a list that is newer than any other it has found; what is
\* not what it has found has been saved since it chose.
Collecting ==
    /\ gc.chosen <= clock
    /\ SparesSome /\ gc.at \in {"select", "delete"} /\ gc.status = "ready" =>
        \A l \in Lists(gc.sc, "ready") \ gc.stay :
            lists[l].modified <= gc.chosen =>
                \E k \in Lists(gc.sc, "ready") \cap gc.stay : lists[k].created > lists[l].created
    /\ gc.at = "delete" =>
        \A l \in DOMAIN gc.doomed :
            /\ l \notin gc.stay
            /\ lists[l] # Null /\ lists[l].modified <= gc.chosen => l \in Lists(gc.sc, gc.status)

\* A market with ready lists has a newest one.
HasNewest == \A m \in Market : ReadyFor(m[1], m[2], m[3]) # {} => Own(m) # {}

IInv == TypeOK /\ Fresh /\ Writing /\ Collecting /\ ReadyListIsWhole /\ HasNewest
-----------------------------------------------------------------------------
(* Types, whatever overlaps *)

\* A worker that is busy knows what its list is for.
Busy == \A w \in Worker :
    job[w].at # "idle" => job[w].sc \in SaleChannel /\ job[w].currency \in Currency

Typed == TypeOK /\ Busy

LEMMA NullRow == Null \notin Row /\ Null \notin Currency
BY NullIsNoList

LEMMA NothingDoomed == <<>> \in UNION {[ls -> Nat] : ls \in SUBSET ListId}
<1>1. <<>> \in [{} -> Nat]
  OBVIOUS
<1>2. {} \in SUBSET ListId
  OBVIOUS
<1> QED BY <1>1, <1>2

LEMMA BlankRecords == NoJob \in Job /\ NoGc \in Collector
BY NothingDoomed DEF NoJob, Job, NoGc, Collector, Status

LEMMA TypedInit == Init => Typed
BY BlankRecords, CountAssumption DEF Init, Typed, TypeOK, Busy, NoJob

LEMMA CreatedType ==
    ASSUME TypeOK, NEW w \in Worker, NEW sc \in SaleChannel, NEW currency \in Currency,
           NEW whole \in Nat, NEW status \in Status, NEW content \in Nat,
           Create(w, sc, currency, whole, status, content)
    PROVE  /\ lists' \in [ListId -> Row \cup {Null}]
           /\ made' \in 0..MaxLists
           /\ clock' \in Nat
           /\ made + 1 \in ListId
BY CountAssumption DEF TypeOK, Create, Row, ListId

LEMMA TypedWork == ASSUME Typed, NEW w \in Worker, Work(w) PROVE Typed'
<1> USE DEF Typed, TypeOK, Busy
<1>1. CASE ImportStart(w)
  <2>1. PICK sc \in SaleChannel, currency \in Currency :
            /\ Create(w, sc, currency, Batches, "in_progress", 0)
            /\ job' = [job EXCEPT ![w] = [at |-> "write", list |-> made + 1, sc |-> sc,
                    currency |-> currency, whole |-> Batches, left |-> Batches]]
    BY <1>1 DEF ImportStart
  <2>2. made + 1 \in ListId /\ lists' \in [ListId -> Row \cup {Null}] /\ made' \in 0..MaxLists /\ clock' \in Nat
    BY <2>1, CreatedType, CountAssumption DEF Status
  <2>3. job' \in [Worker -> Job]
    BY <2>1, <2>2, CountAssumption DEF Job
  <2> QED BY <1>1, <2>1, <2>2, <2>3 DEF ImportStart
<1>2. CASE AdminImport(w)
  <2>1. PICK sc \in SaleChannel, currency \in Currency, status \in Status :
            Create(w, sc, currency, Batches, status, Batches)
    BY <1>2 DEF AdminImport
  <2> QED BY <1>2, <2>1, CreatedType, CountAssumption DEF AdminImport
<1>3. CASE GenerateStart(w)
  <2>1. Create(w, job[w].sc, job[w].currency, job[w].whole, "in_progress", 0)
    BY <1>3 DEF GenerateStart
  <2>2. job[w] \in Job /\ job[w].at = "start"
    BY <1>3 DEF GenerateStart
  <2>3. made + 1 \in ListId /\ lists' \in [ListId -> Row \cup {Null}] /\ made' \in 0..MaxLists /\ clock' \in Nat
    BY <2>1, <2>2, CreatedType DEF Status, Job
  <2>4. job' = [job EXCEPT ![w] = [job[w] EXCEPT !.at = "write", !.list = made + 1]]
    BY <1>3, <2>2 DEF GenerateStart, Job
  <2>5. [job[w] EXCEPT !.at = "write", !.list = made + 1] \in Job
    BY <2>2, <2>3 DEF Job
  <2> QED BY <1>3, <2>2, <2>3, <2>4, <2>5 DEF GenerateStart, Job
<1>4. CASE WriteBatch(w)
  <2>1. job[w] \in Job /\ job[w].left > 0
    BY <1>4 DEF WriteBatch
  <2>2. job' = [job EXCEPT ![w] = [job[w] EXCEPT !.left = job[w].left - 1]]
    BY <1>4, <2>1 DEF WriteBatch, Job
  <2>3. [job[w] EXCEPT !.left = job[w].left - 1] \in Job
    BY <2>1 DEF Job
  <2>4. job' \in [Worker -> Job] /\ Busy'
    BY <2>1, <2>2, <2>3 DEF Job
  <2>5. lists' \in [ListId -> Row \cup {Null}]
    <3>1. CASE job[w].list \in ListId
      <4>1. lists[job[w].list] \in Row
        BY <1>4, <3>1 DEF WriteBatch
      <4>2. lists' = [lists EXCEPT ![job[w].list] =
                [lists[job[w].list] EXCEPT !.content = lists[job[w].list].content + 1]]
        BY <1>4, <3>1, <4>1 DEF WriteBatch, Row
      <4>3. [lists[job[w].list] EXCEPT !.content = lists[job[w].list].content + 1] \in Row
        BY <4>1 DEF Row
      <4> QED BY <4>2, <4>3
    <3>2. CASE job[w].list \notin ListId
      BY <1>4, <3>2 DEF WriteBatch
    <3> QED BY <3>1, <3>2
  <2> QED BY <1>4, <2>4, <2>5 DEF WriteBatch
<1>5. CASE JobFail(w)
  BY <1>5, BlankRecords DEF JobFail, NoJob
<1>6. CASE Finish(w)
  <2>1. PICK status \in Results(w) : lists' = [lists EXCEPT ![job[w].list] =
            IF @ = Null
            THEN [status |-> status, sc |-> job[w].sc, currency |-> job[w].currency,
                  created |-> clock + 1, modified |-> clock + 1,
                  content |-> 0, whole |-> job[w].whole]
            ELSE [@ EXCEPT !.status = status, !.modified = clock + 1]]
    BY <1>6 DEF Finish
  <2>2. status \in Status
    BY DEF Results, Status
  <2>3. job[w].sc \in SaleChannel /\ job[w].currency \in Currency /\ job[w] \in Job
    BY <1>6 DEF Finish
  <2>4. [status |-> status, sc |-> job[w].sc, currency |-> job[w].currency,
         created |-> clock + 1, modified |-> clock + 1, content |-> 0, whole |-> job[w].whole] \in Row
    BY <2>2, <2>3 DEF Row, Job
  <2>5. \A l \in ListId : lists[l] # Null =>
            [lists[l] EXCEPT !.status = status, !.modified = clock + 1] \in Row
    <3> SUFFICES ASSUME NEW l \in ListId, lists[l] # Null
                 PROVE  [lists[l] EXCEPT !.status = status, !.modified = clock + 1] \in Row
      OBVIOUS
    <3>1. lists[l] \in Row /\ clock + 1 \in Nat
      OBVIOUS
    <3> QED BY <3>1, <2>2 DEF Row
  <2>6. lists' \in [ListId -> Row \cup {Null}]
    BY <2>1, <2>4, <2>5
  <2> QED BY <1>6, <2>6, BlankRecords DEF Finish, NoJob
<1> QED BY <1>1, <1>2, <1>3, <1>4, <1>5, <1>6 DEF Work

LEMMA TypedGenerate == ASSUME Typed, GenerateRead PROVE Typed'
<1> USE DEF Typed, TypeOK, Busy
<1>1. PICK source \in LatestBySource :
        job' = [w \in Worker |-> IF w \notin Generated THEN job[w] ELSE
            [at |-> "start", list |-> 0, sc |-> w, currency |-> lists[source].currency,
             whole |-> lists[source].content, left |-> lists[source].content]]
  BY DEF GenerateRead
<1>2. lists[source] \in Row
  BY DEF LatestBySource, Existing
<1>3. \A w \in Generated : [at |-> "start", list |-> 0, sc |-> w, currency |-> lists[source].currency,
             whole |-> lists[source].content, left |-> lists[source].content] \in Job
  BY <1>2, ChannelAssumption DEF Job, Row
<1>4. job' \in [Worker -> Job]
  BY <1>1, <1>3
<1>5. Busy'
  BY <1>1, <1>2, <1>4, ChannelAssumption DEF Row
<1> QED BY <1>4, <1>5 DEF GenerateRead

LEMMA TypedCollect ==
    ASSUME Typed, GcStart \/ GcChoose \/ GcSelect \/ GcDelete \/ GcFail
    PROVE  Typed'
<1> USE DEF Typed, TypeOK, Busy
<1>1. gc' \in Collector
  <2>1. CASE GcStart
    <3>1. PICK sc \in SaleChannel :
              gc' = [at |-> "choose", sc |-> sc, todo |-> SaleChannel \ {sc},
                     status |-> "ready", stay |-> {}, chosen |-> 0, doomed |-> <<>>]
      BY <2>1 DEF GcStart, NoGc
    <3> QED BY <3>1, NothingDoomed DEF Collector, Status
  <2>2. CASE GcChoose
    BY <2>2 DEF GcChoose, Collector, Spared, Lists, Existing
  <2>3. CASE GcSelect
    <3> DEFINE ls == Lists(gc.sc, gc.status) \ gc.stay
               doomed == [l \in ls |-> lists[l].content]
    <3>1. ls \in SUBSET ListId /\ \A l \in ls : lists[l].content \in Nat
      BY DEF Lists, Existing, Row
    <3>2. doomed \in [ls -> Nat]
      BY <3>1
    <3>3. doomed \in UNION {[ks -> Nat] : ks \in SUBSET ListId}
      BY <3>1, <3>2
    <3>4. gc' = [gc EXCEPT !.at = "delete", !.doomed = doomed]
      BY <2>3 DEF GcSelect
    <3> HIDE DEF doomed
    <3> QED BY <3>3, <3>4 DEF Collector
  <2>4. CASE GcDelete
    <3>1. CASE gc.status # "in_progress"
      <4>1. StatusAfter[gc.status] \in Status
        BY <3>1 DEF StatusAfter, Status, Collector
      <4>2. gc' = [gc EXCEPT !.at = "choose", !.status = StatusAfter[gc.status],
                             !.stay = {}, !.chosen = 0, !.doomed = <<>>]
        BY <2>4, <3>1 DEF GcDelete, GcAdvance
      <4> QED BY <4>1, <4>2, NothingDoomed DEF Collector
    <3>2. ASSUME NEW sc \in gc.todo,
                 gc' = [NoGc EXCEPT !.at = "choose", !.sc = sc, !.todo = gc.todo \ {sc}]
          PROVE  gc' \in Collector
      BY <3>2, NothingDoomed DEF NoGc, Collector, Status
    <3> QED BY <2>4, <3>1, <3>2, BlankRecords DEF GcDelete, GcAdvance
  <2>5. CASE GcFail
    BY <2>5, BlankRecords DEF GcFail
  <2> QED BY <2>1, <2>2, <2>3, <2>4, <2>5
<1>2. lists' \in [ListId -> Row \cup {Null}]
  BY DEF GcStart, GcChoose, GcSelect, GcDelete, GcFail
<1> QED BY <1>1, <1>2 DEF GcStart, GcChoose, GcSelect, GcDelete, GcFail

\* Every state is well-formed, with any overlap of importers, the generator and the
\* garbage collector.
THEOREM ListTypes == Spec => []TypeOK
<1>1. Typed /\ [Next]_vars => Typed'
  <2>1. ASSUME Typed, UNCHANGED vars PROVE Typed'
    BY <2>1 DEF vars, Typed, TypeOK, Busy
  <2> QED BY <2>1, TypedWork, TypedGenerate, TypedCollect DEF Next
<1>2. Typed => TypeOK
  BY DEF Typed
<1> QED BY TypedInit, <1>1, <1>2, PTL DEF Spec
-----------------------------------------------------------------------------
(* What is shown, and how a step changes it *)

Ready == {l \in Existing : lists[l].status = "ready"}

\* The ready lists of the step's two ends that both have are the same lists.
Alike == \A l \in Ready \cap Ready' :
    /\ lists'[l].sc = lists[l].sc
    /\ lists'[l].currency = lists[l].currency
    /\ lists'[l].created = lists[l].created

LEMMA ReadyTypes == TypeOK => \A l \in Ready : l \in ListId /\ lists[l] \in Row /\ lists[l].created \in Nat
BY DEF TypeOK, Ready, Existing, Row

LEMMA OwnReady ==
    \A m \in Market : \A l : l \in Own(m) <=>
        /\ l \in Ready /\ lists[l].currency = m[2]
        /\ CountryOf[lists[l].sc] = m[1] /\ CustomerOf[lists[l].sc] = m[3]
        /\ \A k \in ReadyFor(m[1], m[2], m[3]) : lists[k].created <= lists[l].created
BY DEF Own, ShownAmong, ReadyFor, Ready

VersionIsNewest ==
    TypeOK => \A m \in Market :
        /\ Own(m) = {} => Version(m) = 0
        /\ \A l \in Own(m) : Version(m) = lists[l].created

LEMMA NewestVersion == VersionIsNewest
<1> USE DEF VersionIsNewest
<1> SUFFICES ASSUME TypeOK, NEW m \in Market, NEW l \in Own(m)
             PROVE  Version(m) = lists[l].created
  BY DEF Version
<1> DEFINE k == CHOOSE i \in Own(m) : TRUE
<1>1. k \in Own(m)
  OBVIOUS
<1>2. Version(m) = lists[k].created
  BY DEF Version
<1>3. l \in ReadyFor(m[1], m[2], m[3]) /\ k \in ReadyFor(m[1], m[2], m[3])
  BY <1>1 DEF Own, ShownAmong
<1>4. lists[k].created <= lists[l].created /\ lists[l].created <= lists[k].created
  BY <1>1, <1>3 DEF Own, ShownAmong
<1>5. lists[k].created \in Nat /\ lists[l].created \in Nat
  BY <1>3 DEF ReadyFor, TypeOK, Existing, Row
<1> QED BY <1>2, <1>4, <1>5

LEMMA NewestVersionNext ==
    TypeOK' => \A m \in Market :
        /\ (Own(m) = {} => Version(m) = 0)'
        /\ \A l \in Own(m)' : Version(m)' = lists'[l].created
<1>1. VersionIsNewest'
  BY NewestVersion, PTL
<1> QED BY <1>1 DEF VersionIsNewest

\* A step that neither readies nor removes a list that is shown.
LEMMA SameVersions ==
    ASSUME TypeOK, TypeOK', HasNewest, Alike, Ready' \subseteq Ready,
           \A m \in Market : Own(m) \subseteq Ready'
    PROVE  HasNewest' /\ \A m \in Market : Version(m)' = Version(m)
<1> DEFINE R(m) == ReadyFor(m[1], m[2], m[3])
<1>1. ASSUME NEW m \in Market PROVE R(m)' = R(m) \cap Ready'
  BY DEF ReadyFor, Ready, Alike
<1>2. ASSUME NEW m \in Market PROVE Own(m) \subseteq Own(m)'
  <2>1. \A l \in Own(m) : l \in R(m)' /\ \A k \in R(m)' : lists'[k].created <= lists'[l].created
    BY <1>1 DEF Own, ShownAmong, Alike, ReadyFor, Ready
  <2> QED BY <2>1 DEF Own, ShownAmong
<1>3. HasNewest'
  BY <1>1, <1>2 DEF HasNewest
<1>4. ASSUME NEW m \in Market PROVE Version(m)' = Version(m)
  <2>1. CASE Own(m) = {}
    <3>1. Own(m)' = {}
      BY <2>1, <1>1 DEF HasNewest, Own, ShownAmong
    <3> QED BY <2>1, <3>1, NewestVersion, NewestVersionNext DEF VersionIsNewest
  <2>2. CASE Own(m) # {}
    <3>1. PICK l \in Own(m) : l \in Own(m)' /\ l \in Ready \cap Ready'
      BY <2>2, <1>2 DEF Own, ShownAmong, ReadyFor, Ready
    <3> QED BY <3>1, NewestVersion, NewestVersionNext DEF Alike, VersionIsNewest
  <2> QED BY <2>1, <2>2
<1> QED BY <1>3, <1>4

\* A step that readies a list.
LEMMA NewerVersion ==
    ASSUME TypeOK, TypeOK', HasNewest, Alike,
           NEW l \in ListId, l \notin Ready, Ready' = Ready \cup {l},
           lists'[l].created > 0,
           \A k \in Ready : lists[k].created # lists'[l].created
    PROVE  /\ HasNewest'
           /\ \A m \in Market : Version(m)' # Version(m) =>
                Version(m)' = lists'[l].created /\ Version(m) < lists'[l].created
<1> DEFINE R(m) == ReadyFor(m[1], m[2], m[3])
<1>1. lists'[l].created \in Nat /\ l \in Ready'
  BY DEF TypeOK, Row, Ready, Existing
<1>2. SUFFICES ASSUME NEW m \in Market
               PROVE  /\ (R(m) # {} => Own(m) # {})'
                      /\ Version(m)' # Version(m) =>
                           Version(m)' = lists'[l].created /\ Version(m) < lists'[l].created
  BY DEF HasNewest
<1>3. CASE l \notin R(m)'
  <2>1. R(m)' = R(m) /\ \A k \in R(m) : lists'[k].created = lists[k].created
    BY <1>3 DEF ReadyFor, Ready, Alike
  <2>2. Own(m)' = Own(m) /\ \A k \in Own(m) : lists'[k].created = lists[k].created
    BY <2>1 DEF Own, ShownAmong
  <2>3. Version(m)' = Version(m)
    BY <2>2, NewestVersion, NewestVersionNext DEF VersionIsNewest
  <2> QED BY <2>1, <2>2, <2>3 DEF HasNewest
<1>4. CASE l \in R(m)' /\ R(m) = {}
  <2>1. R(m)' = {l}
    BY <1>4 DEF ReadyFor, Ready, Alike
  <2>2. Own(m)' = {l} /\ Own(m) = {}
    BY <2>1, <1>1, <1>4 DEF Own, ShownAmong
  <2> QED BY <2>2, <1>1, NewestVersion, NewestVersionNext DEF VersionIsNewest
<1>5. CASE l \in R(m)' /\ R(m) # {}
  <2>1. PICK n \in Own(m) : TRUE
    BY <1>5 DEF HasNewest
  <2>2. n \in R(m) /\ \A k \in R(m) : lists[k].created <= lists[n].created
    BY <2>1 DEF Own, ShownAmong
  <2>3. R(m)' = R(m) \cup {l} /\ \A k \in R(m) : lists'[k].created = lists[k].created
    BY <1>5 DEF ReadyFor, Ready, Alike
  <2>4. n \in Ready /\ lists[n].created \in Nat /\ lists[n].created # lists'[l].created
    BY <2>2, ReadyTypes DEF ReadyFor, Ready
  <2>5. Version(m) = lists[n].created
    BY <2>1, NewestVersion DEF VersionIsNewest
  <2>6. \A k \in R(m) : lists[k].created \in Nat
    BY ReadyTypes DEF ReadyFor, Ready
  <2>7. CASE lists[n].created < lists'[l].created
    <3>1. \A k \in R(m)' : lists'[k].created <= lists'[l].created
      BY <2>2, <2>3, <2>4, <2>6, <2>7, <1>1
    <3>2. l \in Own(m)'
      BY <3>1, <1>5 DEF Own, ShownAmong
    <3> QED BY <3>2, <2>5, <2>7, NewestVersionNext
  <2>8. CASE lists[n].created > lists'[l].created
    <3>1. \A k \in R(m)' : lists'[k].created <= lists'[n].created
      BY <2>2, <2>3, <2>4, <2>6, <2>8, <1>1
    <3>2. n \in Own(m)'
      BY <3>1, <2>2, <2>3 DEF Own, ShownAmong
    <3> QED BY <3>2, <2>2, <2>3, <2>5, NewestVersionNext
  <2> QED BY <2>4, <2>7, <2>8, <1>1
<1> QED BY <1>3, <1>4, <1>5
-----------------------------------------------------------------------------
(* The invariant, step by step *)

LEMMA LeastOf ==
    ASSUME NEW S \in SUBSET Nat, S # {}
    PROVE  \E i \in S : \A k \in S : i <= k
<1>1. PICK least \in S : \A n \in S : ~(<<n, least>> \in OpToRel(<, Nat))
    BY NatLessThanWellFounded, WFMin
<1>2. \A n \in S : n \in Nat /\ least \in Nat /\ ~(n < least)
    BY <1>1 DEF OpToRel
<1>3. \A n \in S : least <= n
    BY <1>2
<1> QED
    BY <1>3

LEMMA GreatestOf ==
    ASSUME NEW n \in Nat, NEW S \in SUBSET (1 .. n), S # {}
    PROVE  \E i \in S : \A k \in S : k <= i
<1> DEFINE rest == {n - i : i \in S}
<1>1. rest \in SUBSET Nat /\ rest # {}
    <2>1. \A i \in S : n - i \in Nat
        OBVIOUS
    <2> QED
        BY <2>1
<1>2. PICK least \in rest : \A k \in rest : least <= k
    BY <1>1, LeastOf
<1>3. PICK i \in S : least = n - i
    OBVIOUS
<1>4. \A k \in S : k <= i
    <2>1. \A k \in S : n - i <= n - k
        BY <1>2, <1>3
    <2> QED
        BY <2>1
<1> QED
    BY <1>4

NewestIsThere == TypeOK /\ Fresh => HasNewest

LEMMA NewestExists == NewestIsThere
<1> SUFFICES ASSUME TypeOK, Fresh, NEW m \in Market, ReadyFor(m[1], m[2], m[3]) # {}
             PROVE  Own(m) # {}
  BY DEF NewestIsThere, HasNewest
<1> DEFINE ls == ReadyFor(m[1], m[2], m[3])
           times == {lists[l].created : l \in ls}
<1>1. clock \in Nat /\ times \in SUBSET (1..clock) /\ times # {}
  BY DEF TypeOK, Fresh, ReadyFor, Existing
<1>2. PICK t \in times : \A u \in times : u <= t
  BY <1>1, GreatestOf
<1>3. PICK l \in ls : t = lists[l].created
  OBVIOUS
<1>4. \A k \in ls : lists[k].created <= lists[l].created
  BY <1>2, <1>3
<1> QED BY <1>3, <1>4 DEF Own, ShownAmong

LEMMA NewestExistsNext == TypeOK' /\ Fresh' => HasNewest'
<1>1. NewestIsThere'
  BY NewestExists, PTL
<1> QED BY <1>1 DEF NewestIsThere

\* Ready lists stay as they are; another one whose row is not as it was, except for
\* its prices, has been saved.
Rewrites ==
    /\ \A l \in Ready : lists'[l] = lists[l]
    /\ \A l \in Existing' :
        \/ lists'[l].modified = clock + 1
        \/ /\ l \in Existing
           /\ lists'[l].sc = lists[l].sc /\ lists'[l].status = lists[l].status
           /\ lists'[l].created = lists[l].created /\ lists'[l].modified = lists[l].modified

LEMMA CollectorUndisturbed ==
    ASSUME IInv, Rewrites, gc' = gc, clock' \in {clock, clock + 1}
    PROVE  Collecting'
<1> USE DEF IInv
<1>1. /\ clock \in Nat /\ gc.chosen \in Nat /\ gc.chosen <= clock
      /\ DOMAIN gc.doomed \subseteq ListId
  BY DEF TypeOK, Collector, Collecting
<1>2. \A l \in Existing' : lists'[l].modified <= gc.chosen =>
        /\ l \in Existing
        /\ lists'[l].sc = lists[l].sc /\ lists'[l].status = lists[l].status
        /\ lists'[l].created = lists[l].created /\ lists'[l].modified = lists[l].modified
  BY <1>1 DEF Rewrites
<1>3. ASSUME SparesSome, gc.at \in {"select", "delete"}, gc.status = "ready",
             NEW l \in Lists(gc.sc, "ready")', l \notin gc.stay, lists'[l].modified <= gc.chosen
      PROVE  \E k \in Lists(gc.sc, "ready")' \cap gc.stay : lists'[k].created > lists'[l].created
  <2>1. l \in Lists(gc.sc, "ready") \ gc.stay /\ lists[l].modified <= gc.chosen
        /\ lists'[l].created = lists[l].created
    BY <1>2, <1>3 DEF Lists
  <2>2. PICK k \in Lists(gc.sc, "ready") \cap gc.stay : lists[k].created > lists[l].created
    BY <1>3, <2>1 DEF Collecting
  <2>3. lists'[k] = lists[k] /\ k \in Lists(gc.sc, "ready")'
    BY <1>3, <2>2 DEF Rewrites, Ready, Lists, Existing
  <2> QED BY <2>1, <2>2, <2>3
<1>4. ASSUME gc.at = "delete", NEW l \in DOMAIN gc.doomed
      PROVE  /\ l \notin gc.stay
             /\ lists'[l] # Null /\ lists'[l].modified <= gc.chosen => l \in Lists(gc.sc, gc.status)'
  <2>1. l \in ListId
    BY <1>1, <1>4
  <2>2. l \notin gc.stay /\ (lists[l] # Null /\ lists[l].modified <= gc.chosen => l \in Lists(gc.sc, gc.status))
    BY <1>4 DEF Collecting
  <2>3. ASSUME lists'[l] # Null, lists'[l].modified <= gc.chosen PROVE l \in Lists(gc.sc, gc.status)'
    <3>1. l \in Existing'
      BY <2>1, <2>3 DEF Existing
    <3>2. l \in Lists(gc.sc, gc.status) /\ lists'[l].sc = lists[l].sc /\ lists'[l].status = lists[l].status
      BY <1>2, <2>2, <2>3, <3>1 DEF Existing
    <3> QED BY <3>1, <3>2 DEF Lists
  <2> QED BY <2>2, <2>3
<1>5. gc.chosen <= clock'
  BY <1>1
<1>6. (SparesSome /\ gc.at \in {"select", "delete"} /\ gc.status = "ready" =>
        \A l \in Lists(gc.sc, "ready") \ gc.stay :
            lists[l].modified <= gc.chosen =>
                \E k \in Lists(gc.sc, "ready") \cap gc.stay : lists[k].created > lists[l].created)'
  BY <1>3
<1>7. (gc.at = "delete" =>
        \A l \in DOMAIN gc.doomed :
            /\ l \notin gc.stay
            /\ lists[l] # Null /\ lists[l].modified <= gc.chosen => l \in Lists(gc.sc, gc.status))'
  BY <1>4
<1> QED BY <1>5, <1>6, <1>7 DEF Collecting

\* What a step does to what readers are shown.
Shows ==
    /\ HasNewest'
    /\ \E version \in Nat : \A m \in Market :
        Version(m)' # Version(m) => Version(m)' = version /\ Version(m) < version

\* The part of the invariant that is about the lists.
Sound == Fresh /\ ReadyListIsWhole

LEMMA Unshown ==
    ASSUME TypeOK, TypeOK', HasNewest, Alike, Ready' = Ready
    PROVE  Shows
BY SameVersions, OwnReady DEF Shows

LEMMA CreateKeeps ==
    ASSUME IInv, TypeOK', NEW w \in Worker, NEW sc \in SaleChannel, NEW currency \in Currency,
           NEW whole \in Nat, NEW status \in Status, NEW content \in Nat,
           status = "ready" => content = whole,
           Create(w, sc, currency, whole, status, content)
    PROVE  /\ Sound' /\ Shows /\ Rewrites
           /\ made + 1 \in ListId \ Existing /\ made + 1 \in Existing'
           /\ lists'[made + 1] =
                [status |-> status, sc |-> sc, currency |-> currency, created |-> clock + 1,
                 modified |-> clock + 1, content |-> content, whole |-> whole]
           /\ \A k \in ListId \ {made + 1} : lists'[k] = lists[k]
<1> USE DEF IInv
<1>1. made + 1 \in ListId /\ made \in Nat /\ clock \in Nat /\ made' = made + 1 /\ clock' = clock + 1
  BY CountAssumption DEF TypeOK, Create, ListId
<1>2. made + 1 \notin Existing
  BY <1>1 DEF Fresh
<1>3. lists'[made + 1] =
        [status |-> status, sc |-> sc, currency |-> currency, created |-> clock + 1,
         modified |-> clock + 1, content |-> content, whole |-> whole]
  BY <1>1 DEF TypeOK, Create
<1>4. \A k \in ListId \ {made + 1} : lists'[k] = lists[k]
  BY <1>1 DEF TypeOK, Create
<1>5. lists'[made + 1] # Null
  BY <1>1, <1>3, NullRow DEF Row
<1>6. Existing' = Existing \cup {made + 1}
  BY <1>1, <1>4, <1>5 DEF Existing
<1>7. Fresh'
  <2>1. \A l \in Existing :
            /\ l \in Nat /\ l <= made /\ lists'[l] = lists[l]
            /\ lists[l].created \in 1..clock /\ lists[l].modified \in Nat /\ lists[l].modified <= clock
    BY <1>2, <1>4 DEF Fresh, Existing, ListId, TypeOK, Row
  <2> QED BY <1>1, <1>3, <1>6, <2>1 DEF Fresh
<1>8. ReadyListIsWhole'
  BY <1>2, <1>3, <1>4, <1>6 DEF ReadyListIsWhole, Existing
<1>9. Alike
  BY <1>2, <1>4, <1>6 DEF Alike, Ready, Existing
<1>10. Shows
  <2>1. CASE status # "ready"
    <3>1. Ready' = Ready
      BY <1>2, <1>3, <1>4, <1>6, <2>1 DEF Ready, Existing
    <3> QED BY <1>9, <3>1, Unshown
  <2>2. CASE status = "ready"
    <3>1. Ready' = Ready \cup {made + 1} /\ made + 1 \notin Ready
      BY <1>2, <1>3, <1>4, <1>6, <2>2 DEF Ready, Existing
    <3>2. lists'[made + 1].created = clock + 1 /\ clock + 1 > 0
      BY <1>1, <1>3
    <3>3. \A k \in Ready : lists[k].created # clock + 1
      BY <1>1 DEF Fresh, Ready
    <3> QED BY <1>1, <1>9, <3>1, <3>2, <3>3, NewerVersion DEF Shows
  <2> QED BY <2>1, <2>2
<1>11. Rewrites
  BY <1>2, <1>3, <1>4, <1>6 DEF Rewrites, Ready, Existing
<1> QED BY <1>1, <1>2, <1>3, <1>4, <1>6, <1>7, <1>8, <1>10, <1>11 DEF Sound

\* Another worker's list is not touched by a step that leaves its row alone.
LEMMA OthersKeep ==
    ASSUME IInv, NEW w \in Worker, \A v \in Worker \ {w} : job'[v] = job[v],
           \A v \in Worker \ {w} : job[v].at = "write" => lists'[job[v].list] = lists[job[v].list],
           made \in Nat, made' \in {made, made + 1},
           Rewrites, gc' = gc, clock' \in {clock, clock + 1},
           job'[w].at # "idle" => job'[w].sc \in SaleChannel /\ job'[w].currency \in Currency,
           job'[w].at = "start" => job'[w].left = job'[w].whole,
           job'[w].at = "write" => OwnList(w)'
    PROVE  Writing' /\ Collecting'
<1> USE DEF IInv
<1>1. ASSUME NEW v \in Worker \ {w}, job[v].at = "write" PROVE OwnList(v)'
  <2>1. OwnList(v)
    BY <1>1 DEF Writing
  <2>2. job[v].list \in ListId /\ job[v].list <= made'
    BY <2>1 DEF OwnList, ListId
  <2>3. job'[w].at = "write" => job'[w].list # job'[v].list
    BY <1>1 DEF OwnList
  <2> QED BY <1>1, <2>1, <2>2, <2>3 DEF OwnList
<1>2. Writing'
  BY <1>1 DEF Writing
<1> QED BY <1>2, CollectorUndisturbed

LEMMA ImportStartKeeps ==
    ASSUME IInv, TypeOK', NEW w \in Worker, ImportStart(w)
    PROVE  IInv' /\ Shows
<1> USE DEF IInv
<1>1. PICK sc \in SaleChannel, currency \in Currency :
        /\ Create(w, sc, currency, Batches, "in_progress", 0)
        /\ job' = [job EXCEPT ![w] = [at |-> "write", list |-> made + 1, sc |-> sc,
                currency |-> currency, whole |-> Batches, left |-> Batches]]
  BY DEF ImportStart
<1>2. /\ Sound' /\ Shows /\ Rewrites
      /\ made + 1 \in ListId \ Existing /\ made + 1 \in Existing'
      /\ lists'[made + 1] =
            [status |-> "in_progress", sc |-> sc, currency |-> currency, created |-> clock + 1,
             modified |-> clock + 1, content |-> 0, whole |-> Batches]
      /\ \A k \in ListId \ {made + 1} : lists'[k] = lists[k]
  BY <1>1, CreateKeeps, CountAssumption DEF Status
<1>7. gc' = gc /\ made \in Nat /\ made' = made + 1 /\ clock' = clock + 1
  BY <1>1 DEF ImportStart, Create, TypeOK
<1>3. \A v \in Worker \ {w} : job'[v] = job[v]
  BY <1>1 DEF TypeOK
<1>4. \A v \in Worker : job[v].at = "write" =>
        job[v].list # made + 1 /\ lists'[job[v].list] = lists[job[v].list]
  BY <1>2, <1>7 DEF Writing, OwnList, ListId
<1>5. job'[w] = [at |-> "write", list |-> made + 1, sc |-> sc,
                 currency |-> currency, whole |-> Batches, left |-> Batches]
  BY <1>1 DEF TypeOK
<1>6. OwnList(w)'
  BY <1>2, <1>3, <1>4, <1>5, <1>7, CountAssumption DEF OwnList
<1>8. Writing' /\ Collecting'
  BY <1>2, <1>3, <1>4, <1>5, <1>6, <1>7, OthersKeep
<1> QED BY <1>2, <1>8 DEF Sound, Shows

LEMMA AdminImportKeeps ==
    ASSUME IInv, TypeOK', NEW w \in Worker, AdminImport(w)
    PROVE  IInv' /\ Shows
<1> USE DEF IInv
<1>1. PICK sc \in SaleChannel, currency \in Currency, status \in Status :
        Create(w, sc, currency, Batches, status, Batches)
  BY DEF AdminImport
<1>2. /\ Sound' /\ Shows /\ Rewrites
      /\ made + 1 \in ListId \ Existing
      /\ \A k \in ListId \ {made + 1} : lists'[k] = lists[k]
  BY <1>1, CreateKeeps, CountAssumption
<1>3. /\ job' = job /\ gc' = gc /\ job[w].at = "idle"
      /\ made \in Nat /\ made' = made + 1 /\ clock' = clock + 1
  BY <1>1 DEF AdminImport, Create, TypeOK
<1>4. \A v \in Worker : job[v].at = "write" => lists'[job[v].list] = lists[job[v].list]
  BY <1>2, <1>3 DEF Writing, OwnList, ListId
<1>5. Writing' /\ Collecting'
  BY <1>2, <1>3, <1>4, OthersKeep
<1> QED BY <1>2, <1>5 DEF Sound, Shows

LEMMA GenerateStartKeeps ==
    ASSUME IInv, TypeOK', NEW w \in Worker, GenerateStart(w)
    PROVE  IInv' /\ Shows
<1> USE DEF IInv
<1>1. /\ job[w] \in Job /\ job[w].at = "start" /\ job[w].left = job[w].whole
      /\ job[w].sc \in SaleChannel /\ job[w].currency \in Currency
      /\ Create(w, job[w].sc, job[w].currency, job[w].whole, "in_progress", 0)
  BY DEF GenerateStart, TypeOK, Writing
<1>2. job[w].whole \in Nat /\ job[w].left \in Nat
  BY <1>1 DEF Job
<1>3. /\ Sound' /\ Shows /\ Rewrites
      /\ made + 1 \in ListId \ Existing /\ made + 1 \in Existing'
      /\ lists'[made + 1] =
            [status |-> "in_progress", sc |-> job[w].sc, currency |-> job[w].currency,
             created |-> clock + 1, modified |-> clock + 1, content |-> 0, whole |-> job[w].whole]
      /\ \A k \in ListId \ {made + 1} : lists'[k] = lists[k]
  BY <1>1, <1>2, CreateKeeps DEF Status
<1>9. gc' = gc /\ made \in Nat /\ made' = made + 1 /\ clock' = clock + 1
  BY <1>1 DEF GenerateStart, Create, TypeOK
<1>4. \A v \in Worker \ {w} : job'[v] = job[v]
  BY DEF GenerateStart, TypeOK
<1>5. \A v \in Worker : job[v].at = "write" =>
        job[v].list # made + 1 /\ lists'[job[v].list] = lists[job[v].list]
  BY <1>3, <1>9 DEF Writing, OwnList, ListId
<1>6. job'[w] = [job[w] EXCEPT !.at = "write", !.list = made + 1]
  BY <1>1 DEF GenerateStart, TypeOK, Job
<1>7. /\ job'[w].at = "write" /\ job'[w].list = made + 1 /\ job'[w].left = job[w].left
      /\ job'[w].sc = job[w].sc /\ job'[w].currency = job[w].currency
  BY <1>1, <1>6 DEF Job
<1>8. OwnList(w)'
  BY <1>1, <1>2, <1>3, <1>4, <1>5, <1>7, <1>9 DEF OwnList
<1>10. Writing' /\ Collecting'
  BY <1>1, <1>3, <1>4, <1>5, <1>7, <1>8, <1>9, OthersKeep
<1> QED BY <1>3, <1>10 DEF Sound, Shows

LEMMA GenerateReadKeeps ==
    ASSUME IInv, TypeOK', GenerateRead
    PROVE  IInv' /\ Shows
<1> USE DEF IInv
<1>1. PICK source \in LatestBySource :
        job' = [w \in Worker |-> IF w \notin Generated THEN job[w] ELSE
            [at |-> "start", list |-> 0, sc |-> w, currency |-> lists[source].currency,
             whole |-> lists[source].content, left |-> lists[source].content]]
  BY DEF GenerateRead
<1>2. lists[source].currency \in Currency
  BY DEF LatestBySource, Existing, TypeOK, Row
<1>3. lists' = lists /\ made' = made /\ clock' = clock /\ gc' = gc
  BY DEF GenerateRead
<1>4. \A w \in Worker : job'[w].at = "write" => job'[w] = job[w]
  BY <1>1
<1>5. Writing'
  <2>1. ASSUME NEW w \in Worker, job'[w].at = "write" PROVE OwnList(w)'
    BY <1>3, <1>4, <2>1 DEF Writing, OwnList, Existing
  <2>2. ASSUME NEW w \in Worker, job'[w].at # "idle"
        PROVE  job'[w].sc \in SaleChannel /\ job'[w].currency \in Currency
    BY <1>1, <1>2, <2>2, ChannelAssumption DEF Writing
  <2>3. ASSUME NEW w \in Worker, job'[w].at = "start" PROVE job'[w].left = job'[w].whole
    BY <1>1, <2>3 DEF Writing
  <2> QED BY <1>3, <2>1, <2>2, <2>3 DEF Writing
<1>6. Fresh' /\ ReadyListIsWhole' /\ Ready' = Ready /\ Alike /\ Rewrites
  BY <1>3 DEF Fresh, ReadyListIsWhole, Existing, Ready, Alike, Rewrites
<1>7. Collecting'
  BY <1>3, <1>6, CollectorUndisturbed
<1> QED BY <1>5, <1>6, <1>7, Unshown DEF Shows

LEMMA WriteBatchKeeps ==
    ASSUME IInv, TypeOK', NEW w \in Worker, WriteBatch(w)
    PROVE  IInv' /\ Shows
<1> USE DEF IInv
<1> DEFINE l == job[w].list
<1>1. /\ job[w] \in Job /\ job[w].at = "write" /\ job[w].left > 0 /\ OwnList(w)
      /\ job[w].sc \in SaleChannel /\ job[w].currency \in Currency
  BY DEF WriteBatch, Writing, TypeOK
<1>2. l \in Existing /\ l \in ListId /\ lists[l] \in Row /\ lists[l].status = "in_progress"
  BY <1>1 DEF WriteBatch, OwnList, Existing, TypeOK
<1>3. lists' = [lists EXCEPT ![l] = [lists[l] EXCEPT !.content = lists[l].content + 1]]
  BY <1>2 DEF WriteBatch, Row
<1>4. \A k \in ListId \ {l} : lists'[k] = lists[k]
  BY <1>2, <1>3 DEF TypeOK
<1>5. /\ lists'[l] # Null /\ lists'[l].status = "in_progress" /\ lists'[l].created = lists[l].created
      /\ lists'[l].sc = lists[l].sc /\ lists'[l].modified = lists[l].modified
      /\ lists'[l].whole = lists[l].whole /\ lists'[l].content = lists[l].content + 1
  <2>1. lists'[l] = [lists[l] EXCEPT !.content = lists[l].content + 1]
    BY <1>2, <1>3 DEF TypeOK
  <2>2. lists'[l] \in Row
    BY <1>2, <2>1 DEF Row
  <2> QED BY <1>2, <2>1, <2>2, NullRow DEF Row
<1>6. Existing' = Existing
  BY <1>2, <1>4, <1>5 DEF Existing
<1>7. Fresh' /\ ReadyListIsWhole' /\ Ready' = Ready /\ Alike
  <2>1. made' = made /\ clock' = clock /\ \A k \in Existing :
            lists'[k].created = lists[k].created /\ lists'[k].modified = lists[k].modified
    BY <1>4, <1>5 DEF WriteBatch, Existing
  <2>2. Ready' = Ready
    BY <1>2, <1>4, <1>5, <1>6 DEF Ready, Existing
  <2>3. \A k \in Ready : lists'[k] = lists[k]
    BY <1>2, <1>4 DEF Ready, Existing
  <2> QED BY <1>6, <2>1, <2>2, <2>3 DEF Fresh, ReadyListIsWhole, Ready, Alike
<1>8. job'[w] = [job[w] EXCEPT !.left = job[w].left - 1] /\ \A v \in Worker \ {w} : job'[v] = job[v]
  BY <1>1 DEF WriteBatch, TypeOK, Job
<1>9. /\ job'[w].at = "write" /\ job'[w].list = l /\ job'[w].left = job[w].left - 1
      /\ job'[w].sc = job[w].sc /\ job'[w].currency = job[w].currency
  BY <1>1, <1>8 DEF Job
<1>12. gc' = gc /\ made \in Nat /\ made' = made /\ clock' = clock /\ Rewrites
  BY <1>2, <1>4, <1>5, <1>6 DEF WriteBatch, TypeOK, Rewrites, Ready, Existing
<1>10. OwnList(w)'
  <2>1. lists'[l].content + job'[w].left = lists'[l].whole
    <3>1. lists[l].content \in Nat /\ lists[l].whole \in Nat /\ job[w].left \in Nat
      BY <1>1, <1>2 DEF Row, Job
    <3>2. lists[l].content + job[w].left = lists[l].whole
      BY <1>1, <1>2 DEF OwnList, Existing
    <3>3. /\ lists'[l].content = lists[l].content + 1 /\ lists'[l].whole = lists[l].whole
          /\ job'[w].left = job[w].left - 1
      BY <1>5, <1>9
    <3> HIDE DEF l
    <3> QED BY <3>1, <3>2, <3>3
  <2>2. \A v \in Worker \ {w} : job'[v].at = "write" => job'[v].list # l
    BY <1>1, <1>8 DEF OwnList
  <2> QED BY <1>1, <1>2, <1>5, <1>9, <1>12, <2>1, <2>2 DEF OwnList
<1>11. \A v \in Worker \ {w} : job[v].at = "write" => lists'[job[v].list] = lists[job[v].list]
  BY <1>1, <1>4 DEF OwnList, Writing
<1>13. Writing' /\ Collecting'
  BY <1>1, <1>8, <1>9, <1>10, <1>11, <1>12, OthersKeep
<1> QED BY <1>7, <1>13, Unshown DEF Shows

LEMMA JobFailKeeps ==
    ASSUME IInv, TypeOK', NEW w \in Worker, JobFail(w)
    PROVE  IInv' /\ Shows
<1> USE DEF IInv
<1>1. lists' = lists /\ made' = made /\ clock' = clock /\ gc' = gc /\ made \in Nat
  BY DEF JobFail, TypeOK
<1>2. job'[w].at = "idle" /\ \A v \in Worker \ {w} : job'[v] = job[v]
  BY DEF JobFail, TypeOK, NoJob
<1>3. Writing' /\ Collecting'
  <2>1. Rewrites
    BY <1>1 DEF Rewrites, Existing
  <2> QED BY <1>1, <1>2, <2>1, OthersKeep
<1>4. Fresh' /\ ReadyListIsWhole' /\ Ready' = Ready /\ Alike
  BY <1>1 DEF Fresh, ReadyListIsWhole, Existing, Ready, Alike
<1> QED BY <1>3, <1>4, Unshown DEF Shows

LEMMA FinishKeeps ==
    ASSUME IInv, TypeOK', NEW w \in Worker, Finish(w)
    PROVE  IInv' /\ Shows
<1> USE DEF IInv
<1> DEFINE l == job[w].list
<1>1. /\ job[w] \in Job /\ job[w].at = "write" /\ job[w].left = 0 /\ OwnList(w)
      /\ job[w].sc \in SaleChannel /\ job[w].currency \in Currency
  BY DEF Finish, Writing, TypeOK
<1>2. l \in ListId /\ l <= made /\ made \in Nat /\ clock \in Nat
  BY <1>1 DEF OwnList, TypeOK
<1>3. PICK status \in Status : lists' = [lists EXCEPT ![l] =
            IF lists[l] = Null
            THEN [status |-> status, sc |-> job[w].sc, currency |-> job[w].currency,
                  created |-> clock + 1, modified |-> clock + 1,
                  content |-> 0, whole |-> job[w].whole]
            ELSE [lists[l] EXCEPT !.status = status, !.modified = clock + 1]]
  <2>1. \A status \in Results(w) : status \in Status
    BY DEF Results, Status
  <2> QED BY <1>2, <2>1 DEF Finish, TypeOK
<1>4. made' = made /\ clock' = clock + 1 /\ gc' = gc
  BY DEF Finish
<1>5. \A k \in ListId \ {l} : lists'[k] = lists[k]
  BY <1>2, <1>3 DEF TypeOK
<1>6. /\ lists'[l] \in Row /\ lists'[l].status = status /\ lists'[l].modified = clock + 1
      /\ lists[l] # Null =>
            /\ lists[l] \in Row /\ lists[l].status = "in_progress" /\ lists[l].content = lists[l].whole
            /\ lists'[l].created = lists[l].created
            /\ lists'[l].whole = lists[l].whole /\ lists'[l].content = lists[l].content
      /\ lists[l] = Null =>
            lists'[l].created = clock + 1 /\ lists'[l].content = 0
  <2>1. CASE lists[l] = Null
    <3>1. lists'[l] = [status |-> status, sc |-> job[w].sc, currency |-> job[w].currency,
                  created |-> clock + 1, modified |-> clock + 1, content |-> 0, whole |-> job[w].whole]
      BY <1>2, <1>3, <2>1 DEF TypeOK
    <3> QED BY <1>1, <1>2, <2>1, <3>1 DEF Row, Job
  <2>2. CASE lists[l] # Null
    <3>1. lists'[l] = [lists[l] EXCEPT !.status = status, !.modified = clock + 1]
      BY <1>2, <1>3, <2>2 DEF TypeOK
    <3>2. /\ lists[l] \in Row /\ lists[l].status = "in_progress"
          /\ lists[l].content = lists[l].whole
      BY <1>1, <1>2, <2>2 DEF OwnList, TypeOK, Row
    <3>3. /\ lists'[l].status = status /\ lists'[l].modified = clock + 1
          /\ lists'[l].created = lists[l].created
          /\ lists'[l].whole = lists[l].whole /\ lists'[l].content = lists[l].content
      BY <3>1, <3>2 DEF Row
    <3>4. lists'[l] \in Row
      <4>1. clock + 1 \in Nat /\ lists[l] \in Row
        BY <1>2, <3>2
      <4> HIDE DEF l
      <4> QED BY <3>1, <4>1 DEF Row
    <3> QED BY <2>2, <3>2, <3>3, <3>4
  <2> QED BY <2>1, <2>2
<1>7. lists'[l] # Null /\ lists'[l].created \in 1..clock'
      /\ \A k \in Existing \ {l} : lists[k].created # lists'[l].created
  BY <1>2, <1>4, <1>6, NullRow DEF Fresh, Existing
<1>8. Existing' = Existing \cup {l}
  BY <1>2, <1>5, <1>7 DEF Existing
<1>9. Fresh'
  <2>1. \A k \in Existing \ {l} :
            /\ k \in ListId /\ k <= made /\ lists'[k] = lists[k]
            /\ lists[k].created \in 1..clock /\ lists[k].modified \in Nat /\ lists[k].modified <= clock
            /\ lists[k].created # lists'[l].created
    BY <1>5, <1>7 DEF Fresh, Existing, TypeOK, Row
  <2>2. ASSUME NEW k \in Existing'
        PROVE  k <= made' /\ lists'[k].created \in 1..clock' /\ lists'[k].modified <= clock'
    BY <1>2, <1>4, <1>6, <1>7, <1>8, <2>1, <2>2
  <2>3. ASSUME NEW i \in Existing', NEW k \in Existing', lists'[i].created = lists'[k].created
        PROVE  i = k
    BY <1>8, <2>1, <2>3 DEF Fresh
  <2> QED BY <2>2, <2>3 DEF Fresh
<1>10. ReadyListIsWhole'
  <2>1. \A k \in Existing' \ {l} : k \in Existing /\ lists'[k] = lists[k]
    BY <1>5, <1>8 DEF Existing
  <2>2. \/ lists'[l].content = lists'[l].whole
        \/ lists'[l].content = 0 /\ lists'[l].created = lists'[l].modified
    BY <1>6
  <2> QED BY <2>1, <2>2 DEF ReadyListIsWhole
<1>11. job'[w].at = "idle" /\ \A v \in Worker \ {w} : job'[v] = job[v]
  BY DEF Finish, TypeOK, NoJob
<1>12. \A v \in Worker \ {w} : job[v].at = "write" => lists'[job[v].list] = lists[job[v].list]
  BY <1>1, <1>5 DEF OwnList, Writing
<1>13. l \notin Ready /\ \A k \in Ready : k \in ListId \ {l} /\ lists'[k] = lists[k]
  BY <1>5, <1>6 DEF Ready, Existing
<1>14. Rewrites
  BY <1>5, <1>6, <1>8, <1>13 DEF Rewrites, Existing
<1>15. Writing' /\ Collecting'
  BY <1>2, <1>4, <1>11, <1>12, <1>14, OthersKeep
<1>16. Alike
  BY <1>13 DEF Alike
<1>17. Shows
  <2>1. CASE status # "ready"
    <3>1. Ready' = Ready
      BY <1>5, <1>6, <1>8, <1>13, <2>1 DEF Ready, Existing
    <3> QED BY <1>16, <3>1, Unshown
  <2>2. CASE status = "ready"
    <3>1. Ready' = Ready \cup {l}
      BY <1>5, <1>6, <1>8, <1>13, <2>2 DEF Ready, Existing
    <3>2. lists'[l].created \in Nat /\ lists'[l].created > 0
      BY <1>4, <1>2, <1>7
    <3>3. \A k \in Ready : lists[k].created # lists'[l].created
      BY <1>7, <1>13 DEF Ready
    <3> QED BY <1>2, <1>13, <1>16, <3>1, <3>2, <3>3, NewerVersion DEF Shows
  <2> QED BY <2>1, <2>2
<1> QED BY <1>9, <1>10, <1>15, <1>17 DEF Shows

LEMMA NewestIsSpared ==
    ASSUME SparesSome, NEW ls, NEW l \in ls,
           \A k \in ls : lists[k].created \in Nat /\ lists[k].created <= lists[l].created
    PROVE  l \in Spared(ls, "ready")
<1>1. {k \in ls : lists[k].created > lists[l].created} = {}
  OBVIOUS
<1>2. Cardinality({}) = 0
  BY FS_EmptySet
<1>3. Keep["ready"] > 0
  BY DEF SparesSome
<1>4. Cardinality({k \in ls : lists[k].created > lists[l].created}) < Keep["ready"]
  BY <1>1, <1>2, <1>3, KeepAssumption DEF Status
<1> QED BY <1>4 DEF Spared

\* The lists that are shown are not among those that are about to be deleted, unless
\* they have been saved since the collector chose.
LEMMA ShownIsSpared ==
    ASSUME OneCurrency, SparesSome, IInv, gc.at = "delete", NEW m \in Market, NEW l \in Own(m)
    PROVE  l \in DOMAIN gc.doomed => l \in Overtaken
<1> USE DEF IInv
<1> SUFFICES ASSUME l \in DOMAIN gc.doomed, l \notin Overtaken PROVE FALSE
  OBVIOUS
<1>1. l \in Ready /\ lists[l] # Null /\ lists[l].modified \in Nat /\ gc.chosen \in Nat
  BY OwnReady DEF Ready, Existing, TypeOK, Row, Collector
<1>2. lists[l].modified <= gc.chosen
  BY <1>1 DEF Overtaken
<1>3. l \in Lists(gc.sc, gc.status) \ gc.stay
  BY <1>1, <1>2 DEF Collecting
<1>4. gc.status = "ready"
  BY <1>1, <1>3 DEF Lists, Ready
<1>5. PICK k \in Lists(gc.sc, "ready") \cap gc.stay : lists[k].created > lists[l].created
  BY <1>2, <1>3, <1>4 DEF Collecting
<1>6. k \in Ready /\ lists[k].sc = lists[l].sc /\ lists[k].currency = lists[l].currency
  BY <1>1, <1>3, <1>4, <1>5, ReadyTypes DEF Lists, Ready, Existing, Row, OneCurrency
<1>7. k \in ReadyFor(m[1], m[2], m[3])
  BY <1>6, OwnReady DEF ReadyFor, Ready
<1>8. lists[k].created <= lists[l].created /\ lists[k].created \in Nat /\ lists[l].created \in Nat
  BY <1>1, <1>6, <1>7, OwnReady, ReadyTypes
<1> QED BY <1>5, <1>8

\* The lists the collector has just chosen include the newest.
LEMMA ChosenIsNewest ==
    ASSUME IInv, SparesSome, NEW sc,
           NEW l \in Lists(sc, "ready"), l \notin Spared(Lists(sc, "ready"), "ready")
    PROVE  \E k \in Lists(sc, "ready") \cap Spared(Lists(sc, "ready"), "ready") :
                lists[k].created > lists[l].created
<1> USE DEF IInv
<1> DEFINE ls == Lists(sc, "ready")
           times == {lists[k].created : k \in ls}
<1>1. clock \in Nat /\ \A k \in ls : k \in Existing /\ lists[k].created \in 1..clock
  BY DEF TypeOK, Fresh, Lists
<1>2. PICK t \in times : \A u \in times : u <= t
  <2>1. times \in SUBSET (1..clock) /\ times # {}
    BY <1>1
  <2> QED BY <1>1, <2>1, GreatestOf
<1>3. PICK k \in ls : t = lists[k].created
  OBVIOUS
<1>4. \A i \in ls : lists[i].created \in Nat /\ lists[i].created <= lists[k].created
  BY <1>1, <1>2, <1>3
<1>5. k \in Spared(ls, "ready")
  BY <1>4, NewestIsSpared
<1>6. lists[k].created # lists[l].created
  BY <1>1, <1>5 DEF Fresh
<1> QED BY <1>4, <1>5, <1>6

\* A collector that deletes a list that became the one shown takes it from its markets.
Withdraws ==
    /\ gc.at = "delete" /\ Overtaken # {}
    /\ \A m \in Market : Version(m)' <= Version(m)

LEMMA DeleteKeeps ==
    ASSUME IInv, TypeOK', GcDelete
    PROVE  IInv' /\ (OneCurrency /\ SparesSome => Shows \/ Withdraws)
<1> USE DEF IInv
<1>1. job' = job /\ made' = made /\ clock' = clock /\ gc.at = "delete"
  BY DEF GcDelete
<1>2. \A k \in ListId : lists'[k] = IF k \in DOMAIN gc.doomed THEN Null ELSE lists[k]
  BY DEF GcDelete
<1>3. Existing' = Existing \ DOMAIN gc.doomed
  BY <1>2 DEF Existing
<1>4. \A k \in Existing' : lists'[k] = lists[k] /\ k \in Existing
  BY <1>2, <1>3 DEF Existing
<1>5. Fresh' /\ ReadyListIsWhole'
  BY <1>1, <1>4 DEF Fresh, ReadyListIsWhole
<1>6. Writing'
  <2>1. ASSUME NEW w \in Worker, job[w].at = "write" PROVE OwnList(w)'
    <3>1. OwnList(w)
      BY <2>1 DEF Writing
    <3>2. lists'[job[w].list] # Null => lists'[job[w].list] = lists[job[w].list]
      BY <1>2, <3>1 DEF OwnList
    <3> QED BY <1>1, <3>1, <3>2 DEF OwnList
  <2> QED BY <1>1, <2>1 DEF Writing
<1>7. Collecting'
  <2>1. gc'.at \in {"choose", "idle"} /\ gc'.chosen = 0
    <3>1. CASE gc.status # "in_progress"
      BY <3>1 DEF GcDelete, GcAdvance, TypeOK, Collector
    <3>2. ASSUME NEW sc \in gc.todo,
                 gc' = [NoGc EXCEPT !.at = "choose", !.sc = sc, !.todo = gc.todo \ {sc}]
          PROVE  gc'.at \in {"choose", "idle"} /\ gc'.chosen = 0
      BY <3>2 DEF NoGc
    <3>3. CASE gc' = NoGc
      BY <3>3 DEF NoGc
    <3> QED BY <3>1, <3>2, <3>3 DEF GcDelete, GcAdvance
  <2> QED BY <1>1, <2>1 DEF Collecting, TypeOK
<1>8. Ready' = Ready \ DOMAIN gc.doomed /\ Alike
  BY <1>3, <1>4 DEF Ready, Alike
<1>9. HasNewest'
  BY <1>5, NewestExistsNext
<1>10. ASSUME OneCurrency, SparesSome PROVE Shows \/ Withdraws
  <2>1. CASE Overtaken = {}
    <3>1. \A m \in Market : Own(m) \subseteq Ready'
      BY <1>1, <1>8, <1>10, <2>1, ShownIsSpared, OwnReady
    <3> QED BY <1>8, <3>1, SameVersions DEF Shows
  <2>2. CASE Overtaken # {}
    <3>1. ASSUME NEW m \in Market PROVE Version(m)' <= Version(m)
      <4> DEFINE R == ReadyFor(m[1], m[2], m[3])
      <4>1. \A l \in Own(m)' : l \in R /\ lists'[l].created = lists[l].created /\ lists[l].created \in Nat
        BY <1>8, ReadyTypes DEF Own, ShownAmong, ReadyFor, Ready, Alike
      <4>2. R # {} => Own(m) # {}
        BY DEF HasNewest
      <4>3. CASE Own(m)' = {}
        <5>1. Version(m)' = 0
          BY <4>3, NewestVersionNext
        <5>2. Version(m) \in Nat
          BY NewestVersion, OwnReady, ReadyTypes DEF VersionIsNewest
        <5> QED BY <5>1, <5>2
      <4>4. CASE Own(m)' # {}
        <5>1. PICK l \in Own(m)' : l \in R /\ lists'[l].created = lists[l].created /\ lists[l].created \in Nat
          BY <4>1, <4>4
        <5>2. PICK n \in Own(m) : lists[l].created <= lists[n].created
          BY <4>2, <5>1 DEF Own, ShownAmong
        <5>3. Version(m)' = lists[l].created /\ Version(m) = lists[n].created
          BY <5>1, <5>2, NewestVersion, NewestVersionNext DEF VersionIsNewest
        <5> QED BY <5>2, <5>3
      <4> QED BY <4>3, <4>4
    <3> QED BY <1>1, <2>2, <3>1 DEF Withdraws
  <2> QED BY <2>1, <2>2
<1> QED BY <1>5, <1>6, <1>7, <1>9, <1>10

LEMMA CollectKeeps ==
    ASSUME IInv, TypeOK', GcStart \/ GcChoose \/ GcSelect \/ GcFail
    PROVE  IInv' /\ Shows
<1> USE DEF IInv
<1>1. job' = job /\ made' = made /\ clock' = clock /\ lists' = lists /\ clock \in Nat
  BY DEF GcStart, GcChoose, GcSelect, GcFail, TypeOK
<1>2. Fresh' /\ Writing' /\ ReadyListIsWhole' /\ Ready' = Ready /\ Alike
  BY <1>1 DEF Fresh, Writing, OwnList, ReadyListIsWhole, Existing, Ready, Alike
<1>3. \A sc, status : Lists(sc, status)' = Lists(sc, status)
  BY <1>1 DEF Lists, Existing
<1>4. Collecting'
  <2>1. CASE GcStart
    <3>1. gc'.at = "choose" /\ gc'.chosen = 0
      BY <2>1 DEF GcStart, NoGc
    <3> QED BY <1>1, <3>1 DEF Collecting
  <2>2. CASE GcChoose
    <3>1. /\ gc'.at = "select" /\ gc'.sc = gc.sc /\ gc'.status = gc.status /\ gc'.chosen = clock
          /\ gc'.stay = Spared(Lists(gc.sc, gc.status), gc.status)
      BY <2>2 DEF GcChoose, TypeOK, Collector
    <3> QED BY <1>1, <1>3, <3>1, ChosenIsNewest DEF Collecting
  <2>3. CASE GcSelect
    <3>1. /\ gc'.at = "delete" /\ gc'.sc = gc.sc /\ gc'.status = gc.status
          /\ gc'.stay = gc.stay /\ gc'.chosen = gc.chosen
          /\ DOMAIN gc'.doomed = Lists(gc.sc, gc.status) \ gc.stay
      BY <2>3 DEF GcSelect, TypeOK, Collector
    <3>2. gc.at = "select" /\ gc.chosen <= clock
      BY <2>3 DEF GcSelect, Collecting
    <3> QED BY <1>1, <1>3, <3>1, <3>2 DEF Collecting
  <2>4. CASE GcFail
    BY <1>1, <2>4 DEF GcFail, NoGc, Collecting
  <2> QED BY <2>1, <2>2, <2>3, <2>4
<1> QED BY <1>2, <1>4, Unshown DEF Shows

-----------------------------------------------------------------------------
(* Theorems *)

LEMMA InvariantInit == Init => IInv
<1> SUFFICES ASSUME Init PROVE IInv
  OBVIOUS
<1>1. TypeOK
  BY TypedInit DEF Typed
<1>2. Existing = {}
  BY DEF Init, Existing
<1>3. Fresh /\ ReadyListIsWhole
  BY <1>2 DEF Fresh, ReadyListIsWhole
<1>4. HasNewest
  BY <1>2 DEF HasNewest, ReadyFor
<1>5. Writing /\ Collecting
  BY DEF Init, Writing, Collecting, NoJob, NoGc
<1> QED BY <1>1, <1>3, <1>4, <1>5 DEF IInv

LEMMA InvariantNext ==
    ASSUME Typed, IInv, Next
    PROVE  IInv' /\ (OneCurrency /\ SparesSome => Shows \/ Withdraws)
<1>1. TypeOK'
  BY TypedWork, TypedGenerate, TypedCollect DEF Next, Typed
<1>2. ASSUME NEW w \in Worker, Work(w) PROVE IInv' /\ Shows
  BY <1>1, <1>2, ImportStartKeeps, AdminImportKeeps, GenerateStartKeeps, WriteBatchKeeps,
     JobFailKeeps, FinishKeeps DEF Work
<1> QED BY <1>1, <1>2, GenerateReadKeeps, CollectKeeps, DeleteKeeps DEF Next

LEMMA Stuttering == ASSUME IInv, UNCHANGED vars PROVE IInv' /\ Shows
<1> USE DEF IInv
<1>1. lists' = lists /\ made' = made /\ clock' = clock /\ job' = job /\ gc' = gc
  BY DEF vars
<1>2. TypeOK' /\ Fresh' /\ ReadyListIsWhole' /\ Writing'
  BY <1>1 DEF TypeOK, Fresh, ReadyListIsWhole, Writing, OwnList, Existing
<1>3. \A sc, status : Lists(sc, status)' = Lists(sc, status)
  BY <1>1 DEF Lists, Existing
<1>4. Collecting'
  BY <1>1, <1>3 DEF Collecting
<1>5. Ready' = Ready /\ Alike
  BY <1>1 DEF Ready, Existing, Alike
<1> QED BY <1>2, <1>4, <1>5, Unshown DEF Shows

LEMMA Inductive == Spec => [](Typed /\ IInv)
<1>1. Typed /\ IInv /\ [Next]_vars => (Typed /\ IInv)'
  <2>1. Typed /\ [Next]_vars => Typed'
    <3>1. ASSUME Typed, UNCHANGED vars PROVE Typed'
      BY <3>1 DEF vars, Typed, TypeOK, Busy
    <3> QED BY <3>1, TypedWork, TypedGenerate, TypedCollect DEF Next
  <2> QED BY <2>1, InvariantNext, Stuttering
<1> QED BY <1>1, TypedInit, InvariantInit, PTL DEF Spec

\* A list that is ready is whole, whoever wrote it and whoever failed meanwhile, the
\* collector at work or not; the one exception is the empty list that a writer inserts
\* again after the collector has deleted it, and the theorem has it too.
THEOREM ReadyListsAreWhole == Spec => []ReadyListIsWhole
<1>1. IInv => ReadyListIsWhole
  BY DEF IInv
<1> QED BY <1>1, Inductive, PTL

\* What a market shows is its own newest list, or the newest of the one for anyone.
LEMMA ShownIsOwn ==
    ASSUME NEW m \in Market
    PROVE  \E other \in Market : ShownIn(m) = Own(other)
<1> DEFINE anyone == <<m[1], m[2], Null>>
<1>1. anyone \in Market /\ anyone[1] = m[1] /\ anyone[2] = m[2] /\ anyone[3] = Null
  BY DEF Market
<1>2. ShownIn(m) = Own(anyone) \/ ShownIn(m) = Own(m)
  BY <1>1 DEF ShownIn, Latest, Own
<1> QED BY <1>1, <1>2

\* No writer touches a list that is ready.
LEMMA WorkSparesReady ==
    ASSUME IInv, NEW w \in Worker, Work(w), NEW l \in Ready
    PROVE  lists'[l] = lists[l]
<1> USE DEF IInv
<1>1. l \in ListId /\ l <= made /\ made \in Nat /\ lists[l] # Null /\ lists[l].status = "ready"
  BY DEF Ready, Existing, Fresh, TypeOK
<1>2. ASSUME NEW sc, NEW currency, NEW whole, NEW status, NEW content,
             Create(w, sc, currency, whole, status, content)
      PROVE  lists'[l] = lists[l]
  <2>1. l # made + 1
    BY <1>1
  <2> QED BY <1>1, <1>2, <2>1 DEF Create, TypeOK
<1>3. job[w].at = "write" => l # job[w].list
  BY <1>1 DEF Writing, OwnList
<1>4. CASE ImportStart(w) \/ AdminImport(w) \/ GenerateStart(w)
  BY <1>2, <1>4 DEF ImportStart, AdminImport, GenerateStart
<1>5. CASE WriteBatch(w) \/ JobFail(w) \/ Finish(w)
  BY <1>1, <1>3, <1>5 DEF WriteBatch, JobFail, Finish, TypeOK
<1> QED BY <1>4, <1>5 DEF Work

\* garbage_collector.start: as long as lists of one currency do not push out those of
\* another, the collector leaves every list that a market shows, wherever it fails and
\* whoever writes lists meanwhile; except a list that was saved after the collector
\* had chosen the ones that stay, which it may delete although it is shown.
THEOREM CollectorSparesShown ==
    ASSUME OneCurrency, SparesSome
    PROVE  Spec => SparesShown
<1>1. ASSUME Typed, IInv, [Next]_vars, gc.at = "delete",
             NEW m \in Market, NEW l \in ShownIn(m)
      PROVE  l \in {k \in ListId : lists'[k] # Null} \cup Overtaken
  <2>1. l \in Existing /\ l \in ListId /\ lists[l] # Null /\ l \in Ready
    BY <1>1 DEF ShownIn, Latest, ShownAmong, ReadyFor, Existing, Ready
  <2>2. l \in DOMAIN gc.doomed => l \in Overtaken
    BY <1>1, ShownIsOwn, ShownIsSpared
  <2>3. CASE GcDelete
    BY <2>1, <2>2, <2>3 DEF GcDelete
  <2>4. CASE ~GcDelete
    <3>1. lists'[l] = lists[l]
      <4>1. CASE UNCHANGED vars
        BY <4>1 DEF vars
      <4>2. ASSUME NEW w \in Worker, Work(w) PROVE lists'[l] = lists[l]
        BY <1>1, <2>1, <4>2, WorkSparesReady
      <4>3. CASE GenerateRead \/ GcStart \/ GcChoose \/ GcSelect \/ GcFail
        BY <4>3 DEF GenerateRead, GcStart, GcChoose, GcSelect, GcFail
      <4> QED BY <1>1, <2>4, <4>1, <4>2, <4>3 DEF Next
    <3> QED BY <2>1, <3>1
  <2> QED BY <2>3, <2>4
<1>2. Typed /\ IInv /\ [Next]_vars =>
        (gc.at = "delete" => \A m \in Market :
            ShownIn(m) \subseteq {l \in ListId : lists'[l] # Null} \cup Overtaken)
  BY <1>1
<1> QED BY <1>2, Inductive, PTL DEF Spec, SparesShown

\* The price lists implement PublishedPrices: every step shows readers the same lists
\* or, in some markets, one that was begun later; or it is the deletion of lists of
\* which one was saved after the collector had chosen, and withdraws some.
THEOREM ImplementsPublished ==
    ASSUME OneCurrency, SparesSome
    PROVE  Spec => MarketsKeepPrices
<1>1. Init => Published!Init
  <2>1. ASSUME Init, NEW m \in Market PROVE Version(m) = 0
    <3>1. Own(m) = {}
      BY <2>1 DEF Init, Own, ShownAmong, ReadyFor, Existing
    <3> QED BY <3>1 DEF Version
  <2> QED BY <2>1 DEF Published!Init
<1>2. Typed /\ IInv /\ IInv' /\ [Next]_vars =>
        [Published!Publish \/ Published!Withdraw]_[m \in Market |-> Version(m)]
  <2> SUFFICES ASSUME Typed, IInv, IInv', [Next]_vars
               PROVE  [Published!Publish \/ Published!Withdraw]_[m \in Market |-> Version(m)]
    OBVIOUS
  <2>1. Shows \/ Withdraws
    BY InvariantNext, Stuttering
  <2>2. \A m \in Market : Version(m)' \in Nat
    <3> SUFFICES ASSUME NEW m \in Market PROVE Version(m)' \in Nat
      OBVIOUS
    <3>1. TypeOK'
      BY DEF IInv
    <3>2. ASSUME NEW l \in Own(m)' PROVE lists'[l].created \in Nat
      BY <3>1, <3>2 DEF Own, ShownAmong, ReadyFor, Existing, TypeOK, Row
    <3> QED BY <3>1, <3>2, NewestVersionNext
  <2>3. CASE Shows
    <3>1. PICK version \in Nat : \A m \in Market :
            Version(m)' # Version(m) => Version(m)' = version /\ Version(m) < version
      BY <2>3 DEF Shows
    <3> QED BY <2>2, <3>1 DEF Published!Publish, Published!Changed
  <2>4. CASE Withdraws
    <3>1. \A m \in Market : Version(m) \in Nat
      BY NewestVersion, OwnReady, ReadyTypes DEF VersionIsNewest, IInv
    <3>2. \A m \in Market : Version(m)' # Version(m) => Version(m)' < Version(m)
      BY <2>2, <2>4, <3>1 DEF Withdraws
    <3> QED BY <2>2, <2>4, <3>2 DEF Withdraws, Published!Withdraw, Published!Changed
  <2> QED BY <2>1, <2>3, <2>4
<1> QED BY <1>1, <1>2, Inductive, PTL DEF Spec, MarketsKeepPrices, Published!Spec

-----------------------------------------------------------------------------
(* PriceListImport: arithmetic and what the guard lets through *)

LEMMA ImportedCents ==
    ASSUME NEW n \in Nat, NEW d \in Nat \ {0}
    PROVE  Import!ToCents(n, d) \in Nat
<1>1. CentScale \in Nat \ {0}
    BY ImportAssumption
<1>2. d * CentScale \in Nat \ {0}
    BY <1>1
<1>3. Import!HalfEven(n, d * CentScale) \in Nat
    <2> DEFINE e == d * CentScale
    <2>1. n \div e \in Nat
        BY <1>2
    <2> QED
        BY <2>1 DEF Import!HalfEven
<1> QED
    BY <1>1, <1>3 DEF Import!ToCents

LEMMA ImportedConversions ==
    ASSUME NEW amount \in Nat, NEW r \in Rate
    PROVE  Import!GrossPrice(amount, r) \in Nat /\ Import!NetPrice(amount, r) \in Nat
<1>1. r \in Nat /\ RateScale \in Nat \ {0}
    BY ImportAssumption
<1>2. RateScale + r \in Nat \ {0}
    BY <1>1
<1>3. amount * (RateScale + r) \in Nat /\ amount * RateScale \in Nat
    BY <1>1, <1>2
<1> QED
    BY <1>1, <1>2, <1>3, ImportedCents DEF Import!GrossPrice, Import!NetPrice

Writers == {"csv_import", "generation", "admin_edit", "tax_rate_change"}

\* None of these amounts is below the advertised price.
Floored(sku, values) ==
    MapOf[sku] # Null =>
        \A kind \in Import!Kind : values[kind].gross # Null => values[kind].gross >= MapOf[sku]

\* These writers overwrite any row; only an edit is refused when it is below the floor.
LEMMA WhatIsStored ==
    ASSUME NEW country, NEW price \in Import!Price, NEW writer \in Writers, NEW existing,
           price.sku \in Sku, writer = "admin_edit" => Floored(price.sku, price.values)
    PROVE  LET stored == Import!Stored(country, price, writer, existing)
           IN  /\ stored = Import!Stored(country, price, writer, Null)
               /\ stored.values \in [Import!Kind -> Import!Pair] /\ Floored(price.sku, stored.values)
               /\ stored.logged = stored.values
               /\ stored.source = writer /\ stored.by = writer /\ stored.rate = price.rate
<1> DEFINE floor == MapOf[price.sku]
           values == price.values
           r == price.rate
           bad == Import!Violations(values, floor)
           below == floor # Null /\ bad # {}
           result == IF below THEN Import!Clamped(values, floor, r) ELSE values
           status == IF below THEN "clamped" ELSE "applied"
<1>1. floor \in Nat \cup {Null} /\ r \in Rate /\ r \in Nat /\ Null \notin Nat
    BY ImportAssumption DEF Import!Price
<1>2. values \in [Import!Kind -> Import!Pair]
    BY DEF Import!Price
<1>3. \A kind \in Import!Kind : values[kind].gross \in Nat \cup {Null} /\ values[kind].net \in Nat \cup {Null}
    BY <1>2 DEF Import!Pair, Import!Amount
<1>4. writer = "admin_edit" => ~below
    BY <1>1, <1>2, <1>3 DEF Floored, Import!Violations
<1>5. \A e : Import!GuardPriceWrite(e, values, writer, Null, floor, r, <<>>) =
               [status |-> status, values |-> result, source |-> writer]
    <2>1. \A e : Import!PrecedenceAllows(writer, e, <<>>)
        BY DEF Import!PrecedenceAllows, Writers
    <2>2. ~(below /\ Import!EnforceMode(writer, <<>>) = "reject")
        <3>1. writer \notin DOMAIN <<>>
            OBVIOUS
        <3> HIDE DEF below
        <3> QED
            BY <1>4, <3>1 DEF Import!EnforceMode, Writers
    <2> QED
        BY <2>1, <2>2 DEF Import!GuardPriceWrite, Import!Decision
<1>6. \A e : Import!Stored(country, price, writer, e) =
               [values |-> result, logged |-> result, source |-> writer, by |-> writer, rate |-> r]
    <2> SUFFICES ASSUME NEW e
                 PROVE  Import!Stored(country, price, writer, e) =
                            [values |-> result, logged |-> result, source |-> writer, by |-> writer, rate |-> r]
        OBVIOUS
    <2> DEFINE decision == Import!GuardPriceWrite(e, values, writer, Null, floor, r, <<>>)
    <2>1. Import!Stored(country, price, writer, e) =
              [values |-> decision.values, logged |-> decision.values, source |-> decision.source,
               by |-> writer, rate |-> r]
        BY DEF Import!Stored
    <2> HIDE DEF result, status
    <2>2. decision.values = result /\ decision.source = writer
        BY <1>5
    <2> HIDE DEF decision
    <2> QED
        BY <2>1, <2>2
<1>7. result \in [Import!Kind -> Import!Pair] /\ Floored(price.sku, result)
    <2>1. CASE ~below
        BY <1>1, <1>2, <1>3, <2>1 DEF Floored, Import!Violations
    <2>2. CASE below
        <3>1. floor \in Nat /\ Import!NetPrice(floor, r) \in Nat
            BY <1>1, <2>2, ImportedConversions
        <3>2. result = [k \in Import!Kind |-> IF k \in bad THEN [net |-> Import!NetPrice(floor, r), gross |-> floor]
                                              ELSE values[k]]
            BY <1>1, <1>2, <2>2 DEF Import!Clamped
        <3>3. [net |-> Import!NetPrice(floor, r), gross |-> floor] \in Import!Pair
            BY <3>1 DEF Import!Pair, Import!Amount
        <3>4. \A k \in Import!Kind : k \in bad <=> values[k].gross # Null /\ values[k].gross < floor
            BY <1>2 DEF Import!Violations
        <3> HIDE DEF bad, result
        <3>5. result \in [Import!Kind -> Import!Pair]
            BY <1>2, <3>2, <3>3
        <3>6. \A k \in Import!Kind : result[k].gross # Null => result[k].gross >= floor
            BY <1>3, <3>1, <3>2, <3>4
        <3> QED
            BY <3>5, <3>6 DEF Floored
    <2> QED
        BY <2>1, <2>2
<1> HIDE DEF result, r
<1> QED
    BY <1>6, <1>7 DEF r

\* A row that can be priced becomes a price.
LEMMA RowsBecomePrices ==
    ASSUME NEW row \in Import!CsvRow, NEW rates \in [TaxClass -> Rate \cup {Null}],
           Import!Outcome(row, rates) = "price"
    PROVE  Import!PriceOf(row, rates[row.class]) \in Import!Price
<1> DEFINE r == rates[row.class]
<1>1. /\ row.class \in TaxClass /\ r \in Rate
      /\ row.net \in Nat /\ row.gross \in Nat
      /\ row.snet \in Nat \cup {Null} /\ row.sgross \in Nat \cup {Null}
      /\ row.sku \in Sku \cup {Null} /\ row.attrs \in SUBSET Attr
      /\ row.sku # Null \/ row.attrs # {}
    BY DEF Import!Outcome, Import!NamesNothing, Import!CsvRow, Import!Amount
<1>2. \A amount \in Nat : Import!GrossPrice(amount, r) \in Nat /\ Import!NetPrice(amount, r) \in Nat
    BY <1>1, ImportedConversions
<1> HIDE DEF r
<1>3. Import!Completed(row.net, row.gross, r) \in Import!Pair
    BY <1>1, <1>2 DEF Import!Completed, Import!Pair, Import!Amount
<1>4. Import!CompletedSpecial(row.snet, row.sgross, r) \in Import!Pair
    BY <1>1, <1>2 DEF Import!CompletedSpecial, Import!Blank, Import!Pair, Import!Amount
<1> QED
    BY <1>1, <1>3, <1>4 DEF Import!PriceOf, Import!Price, r

\* A price converted to another rate is a price.
LEMMA ConvertedPrices ==
    ASSUME NEW price \in Import!Price, NEW r \in Rate
    PROVE  /\ Import!Converted(price, r) \in Import!Price
           /\ Import!Converted(price, r).sku = price.sku /\ Import!Converted(price, r).rate = r
<1> DEFINE pair(old) ==
            IF fromNetToGross
            THEN [net |-> old.net, gross |-> IF old.net = Null THEN Null ELSE Import!GrossPrice(old.net, r)]
            ELSE [net |-> IF old.gross = Null THEN Null ELSE Import!NetPrice(old.gross, r), gross |-> old.gross]
           values == [kind \in Import!Kind |-> pair(price.values[kind])]
<1>1. Import!Converted(price, r) = [price EXCEPT !.rate = r, !.values = values]
    BY DEF Import!Converted
<1>2. \A old \in Import!Pair : pair(old) \in Import!Pair
    BY ImportedConversions DEF Import!Pair, Import!Amount
<1>3. values \in [Import!Kind -> Import!Pair]
    BY <1>2 DEF Import!Price
<1> HIDE DEF values
<1> QED
    BY <1>1, <1>3 DEF Import!Price

-----------------------------------------------------------------------------
(* PriceListImport: the invariant *)

Both == {Home, Abroad}
LogRow == [sku : Sku, entry : Import!HistoryRow]
Steps ==
    {"idle", "products", "rates", "row", "labels", "write", "price", "log", "done", "failed"}
RatesRead == [TaxClass -> Rate \cup {Null}]
JobRow ==
    [step : Steps, file : Seq(Import!CsvRow), line : Nat \ {0}, list : Nat, rates : RatesRead \cup {<<>>},
     status : {"in_progress", "ready", "error"}, batch : Seq(Import!Price), todo : Seq(Import!Price),
     labels : {<<>>} \cup [Sku -> Import!PriceSource \cup {Null}], log : SUBSET LogRow]

Tables ==
    /\ fromNetToGross \in BOOLEAN
    /\ taxClass \in [Sku \cup Attr -> TaxClass \cup {Null}]
    /\ rate \in [Both -> RatesRead]
    /\ imported \in Seq(Import!PriceList)
    /\ current \in [Both -> [Sku -> Import!Row \cup {Null}]]
    /\ history \in [Both -> [Sku -> SUBSET Import!HistoryRow]]

\* A job has a list of its country.
Filling(work, country) ==
    work.step # "idle" => work.list \in DOMAIN imported /\ imported[work.list].country = country

Jobs ==
    /\ importer \in JobRow /\ generator \in JobRow
    /\ Filling(importer, Home) /\ Filling(generator, Abroad)
    /\ importer.step \notin {"price", "log"}
    /\ generator.step \notin {"products", "rates", "row", "labels"}
    /\ importer.step \in {"row", "labels", "write"} => importer.rates \in RatesRead

Floors == \A country \in Both, sku \in Sku :
    current[country][sku] # Null => Floored(sku, current[country][sku].values)

\* CurrentPrice has this price, unless somebody else has priced the product since.
Held(rows, price, country, writer) ==
    LET row == rows[price.sku]
    IN  /\ row # Null
        /\ row.by = writer =>
               row.rate = price.rate /\ row.values = Import!Stored(country, price, writer, Null).values

\* And so for the first n prices of a list, of which the last of a product counts.
HeldUpTo(rows, prices, n, country, writer) ==
    \A i \in 1 .. n :
        prices[i].sku # Null /\ (\A k \in (i + 1) .. n : prices[k].sku # prices[i].sku) =>
            Held(rows, prices[i], country, writer)

\* What the importer still has to write is the rest of its list.
ImportCarries ==
    LET prices == imported[importer.list].prices
        left   == Len(importer.todo)
    IN  importer.step \notin {"idle", "failed"} =>
            /\ importer.step \notin {"labels", "write"} => importer.todo = <<>>
            /\ left <= Len(prices)
            /\ \A k \in 1 .. left : importer.todo[k] = prices[Len(prices) - left + k]
            /\ HeldUpTo(current[Home], prices, Len(prices) - left, Home, "csv_import")

\* The generator writes each price as soon as it is in the list.
GenerateCarries ==
    LET prices == imported[generator.list].prices
    IN  generator.step \notin {"idle", "failed"} =>
            /\ generator.step = "write" =>
                   /\ generator.todo # <<>> /\ prices # <<>>
                   /\ Head(generator.todo) = prices[Len(prices)] /\ Head(generator.todo).sku # Null
            /\ generator.step = "log" => generator.todo # <<>> /\ \E one \in LogRow : generator.log = {one}
            /\ HeldUpTo(current[Abroad], prices,
                        IF generator.step = "write" THEN Len(prices) - 1 ELSE Len(prices), Abroad, "generation")

\* What a recalculation has made of the rows it read, and what it has to do.
Result ==
    [values : [Import!Kind -> Import!Pair], logged : [Import!Kind -> Import!Pair], source : Import!PriceSource,
     by : {"tax_rate_change"}, rate : Rate]
VatJob ==
    [step : {"idle", "queued", "write", "log"}, country : Both, class : TaxClass \cup {Null},
     rows : {<<>>} \cup UNION {[skus -> Result] : skus \in SUBSET Sku}, log : SUBSET LogRow]
VatRow(rows) == DOMAIN rows \subseteq Sku /\ \A sku \in DOMAIN rows :
    /\ current[vat.country][sku] # Null
    /\ rows[sku] \in Result /\ rows[sku].logged = rows[sku].values /\ Floored(sku, rows[sku].values)
VatRuns ==
    /\ vat \in VatJob
    /\ vat.step # "log" => vat.log = {}
    /\ vat.step = "queued" => vat.class \in TaxClass /\ rate[vat.country][vat.class] \in Rate
    /\ vat.step = "write" => VatRow(vat.rows)

\* The history of a row, and what is still to be added to it.
LogOf(country) ==
    (IF country = Home THEN importer.log ELSE generator.log) \cup (IF country = vat.country THEN vat.log ELSE {})
Pending(country, sku) == {one.entry : one \in {other \in LogOf(country) : other.sku = sku}}
Entries(country, sku) == history[country][sku] \cup Pending(country, sku)

\* No entry is of a write to come; there is one at most of each, and that of the last
\* write says what the row says.
Truthful ==
    \A country \in Both, sku \in Sku : \A entry \in Entries(country, sku) :
        /\ current[country][sku] # Null
        /\ entry.at <= current[country][sku].at
        /\ entry.at = current[country][sku].at => entry.values = current[country][sku].values
        /\ \A other \in Entries(country, sku) : other.at = entry.at => other = entry

\* Unless a job was killed, there is one of each.
Logs ==
    scenario = "edited" =>
        /\ importer.step # "write" => importer.log = {}
        /\ generator.step # "log" => generator.log = {}
Told ==
    scenario = "edited" =>
        \A country \in Both, sku \in Sku :
            current[country][sku] # Null =>
                \A n \in 1 .. current[country][sku].at :
                    \E entry \in Entries(country, sku) : entry.at = n

ImportInv == Tables /\ Jobs /\ VatRuns /\ Floors /\ ImportCarries /\ GenerateCarries /\ Truthful /\ Logs /\ Told

LEMMA ImportConstants ==
    /\ Import!Country = Both /\ Home # Abroad
    /\ Null \notin Nat /\ Null \notin Sku /\ Null \notin Import!Row /\ Null \notin Import!HistoryRow
    /\ Rate \subseteq Nat
  BY ImportAssumption DEF Import!Country, Both

LEMMA ImportInitially == Import!Init => ImportInv
<1> SUFFICES ASSUME Import!Init PROVE ImportInv
    OBVIOUS
<1>1. Import!Idle \in JobRow
    BY DEF Import!Idle, JobRow, Steps
<1>2. Tables
    BY ImportAssumption DEF Import!Init, Tables, Import!Country, Both, RatesRead
<1>3. Jobs
    BY <1>1 DEF Import!Init, Jobs, Filling, Import!Idle
<1>4. Floors /\ \A country \in Both, sku \in Sku : Entries(country, sku) = {}
    BY DEF Import!Init, Floors, Import!Country, Both, Entries, Pending, LogOf, Import!Idle, Import!NoVat
<1>5. VatRuns
    <2>1. Import!NoVat \in VatJob
        BY DEF Import!NoVat, VatJob, Both
    <2> QED
        BY <2>1 DEF Import!Init, VatRuns, Import!NoVat
<1> QED
    BY <1>2, <1>3, <1>4, <1>5 DEF Import!Init, ImportInv, ImportCarries, GenerateCarries, Truthful, Logs, Told,
       Import!Idle, Import!Country, Both

-----------------------------------------------------------------------------
(* PriceListImport: rows and their history *)

LEMMA EntryTypes ==
    ASSUME Tables, Jobs, VatRuns, NEW country \in Both, NEW sku \in Sku
    PROVE  /\ Entries(country, sku) \subseteq Import!HistoryRow
           /\ current[country][sku] \in Import!Row \cup {Null}
           /\ current[country][sku] # Null => current[country][sku].at \in Nat
           /\ \A entry \in Entries(country, sku) : entry.at \in Nat
<1>1. history[country][sku] \subseteq Import!HistoryRow /\ current[country][sku] \in Import!Row \cup {Null}
    BY DEF Tables
<1>2. LogOf(country) \in SUBSET LogRow
    BY DEF Jobs, JobRow, VatRuns, VatJob, LogOf
<1>3. \A one \in LogOf(country) : one.entry \in Import!HistoryRow
    BY <1>2 DEF LogRow
<1>4. Entries(country, sku) \subseteq Import!HistoryRow
    BY <1>1, <1>3 DEF Entries, Pending
<1> QED
    BY <1>1, <1>4 DEF Import!HistoryRow, Import!Row

\* The number of the next write of a row.
NextAt(country, sku) == IF current[country][sku] = Null THEN 1 ELSE current[country][sku].at + 1

\* A row is left alone, and so is its history; or it is written anew with an entry of
\* its own.  A job that starts anew after it was killed throws its log away.
Kept(country, sku) ==
    /\ current'[country][sku] = current[country][sku]
    /\ Entries(country, sku)' \subseteq Entries(country, sku)
    /\ scenario = "edited" => Entries(country, sku)' = Entries(country, sku)
Anew(country, sku) ==
    LET row == current'[country][sku]
    IN  /\ row # Null /\ row.at = NextAt(country, sku)
        /\ \E entry \in Entries(country, sku)' :
               /\ entry.at = row.at /\ entry.values = row.values
               /\ \A other \in Entries(country, sku)' : other \in Entries(country, sku) \/ other = entry
        /\ scenario = "edited" => Entries(country, sku) \subseteq Entries(country, sku)'

LEMMA HistoryFollows ==
    ASSUME ImportInv, Tables', UNCHANGED scenario,
           \A country \in Both, sku \in Sku : Kept(country, sku) \/ Anew(country, sku)
    PROVE  Truthful' /\ Told'
<1> USE DEF ImportInv
<1>1. ASSUME NEW country \in Both, NEW sku \in Sku, NEW entry \in Entries(country, sku)'
      PROVE  /\ current'[country][sku] # Null
             /\ entry.at <= current'[country][sku].at
             /\ entry.at = current'[country][sku].at => entry.values = current'[country][sku].values
             /\ \A other \in Entries(country, sku)' : other.at = entry.at => other = entry
    <2>1. CASE Kept(country, sku)
        BY <1>1, <2>1 DEF Kept, Truthful
    <2>2. CASE Anew(country, sku)
        <3> DEFINE row == current'[country][sku]
        <3>1. row # Null /\ row \in Import!Row /\ row.at \in Nat
            BY <2>2 DEF Anew, Tables, Import!Row
        <3>2. PICK own : /\ own.at = row.at /\ own.values = row.values
                         /\ \A other \in Entries(country, sku)' : other \in Entries(country, sku) \/ other = own
            BY <2>2 DEF Anew
        <3>3. \A e \in Entries(country, sku) : e.at < row.at /\ e.at \in Nat
            <4> TAKE e \in Entries(country, sku)
            <4>1. current[country][sku] # Null /\ e.at <= current[country][sku].at
                BY DEF Truthful
            <4>2. e.at \in Nat /\ current[country][sku].at \in Nat /\ row.at = current[country][sku].at + 1
                BY <2>2, <4>1, EntryTypes DEF Anew, NextAt
            <4> QED
                BY <4>1, <4>2
        <3>4. \A e, f \in Entries(country, sku) : e.at = f.at => e = f
            BY DEF Truthful
        <3> QED
            BY <1>1, <3>1, <3>2, <3>3, <3>4
    <2> QED
        BY <1>1, <2>1, <2>2
<1>2. ASSUME scenario = "edited", NEW country \in Both, NEW sku \in Sku, current'[country][sku] # Null,
             NEW n \in 1 .. current'[country][sku].at
      PROVE  \E entry \in Entries(country, sku)' : entry.at = n
    <2>1. CASE Kept(country, sku)
        BY <1>2, <2>1 DEF Kept, Told
    <2>2. CASE Anew(country, sku)
        <3>1. CASE n = current'[country][sku].at
            BY <2>2, <3>1 DEF Anew
        <3>2. CASE n # current'[country][sku].at
            <4>1. current'[country][sku].at = NextAt(country, sku) /\ n \in Nat \ {0}
                BY <1>2, <2>2 DEF Anew
            <4>2. current[country][sku] # Null /\ current[country][sku].at \in Nat
                BY <1>2, <3>2, <4>1, EntryTypes DEF NextAt
            <4>3. n \in 1 .. current[country][sku].at
                BY <1>2, <3>2, <4>1, <4>2 DEF NextAt
            <4> QED
                BY <1>2, <2>2, <4>2, <4>3 DEF Anew, Told
        <3> QED
            BY <3>1, <3>2
    <2> QED
        BY <1>2, <2>1, <2>2
<1> QED
    BY <1>1, <1>2 DEF Truthful, Told

\* One write of a row, and the entry made for it.
LEMMA RowIsWritten ==
    ASSUME ImportInv, NEW country \in Both, NEW sku \in Sku,
           NEW saved, saved.values \in [Import!Kind -> Import!Pair], saved.logged = saved.values,
           saved.source \in Import!PriceSource, saved.by \in Import!PriceSource, saved.rate \in Rate,
           NEW row, row = Import!Written(country, sku, saved),
           NEW entry, entry = Import!Entry(country, sku, saved)
    PROVE  /\ row \in Import!Row /\ row # Null /\ row.by = saved.by /\ row.rate = saved.rate
           /\ row.values = saved.values /\ row.at = NextAt(country, sku)
           /\ entry \in Import!HistoryRow /\ entry.at = row.at /\ entry.values = row.values
<1>1. NextAt(country, sku) \in Nat
    BY EntryTypes DEF ImportInv, NextAt
<1>2. row = [values |-> saved.values, source |-> saved.source, by |-> saved.by, rate |-> saved.rate,
             at |-> NextAt(country, sku)]
    BY DEF Import!Written, NextAt
<1>3. entry = [values |-> saved.values, source |-> saved.by, at |-> NextAt(country, sku)]
    BY DEF Import!Entry, Import!Written, NextAt
<1>4. row \in Import!Row /\ entry \in Import!HistoryRow
    BY <1>1, <1>2, <1>3 DEF Import!Row, Import!HistoryRow
<1> QED
    BY <1>2, <1>3, <1>4, ImportConstants

LEMMA OwnRowIsWritten ==
    ASSUME ImportInv, NEW country \in Both, NEW price \in Import!Price, price.sku \in Sku,
           NEW writer \in Writers, NEW existing,
           writer = "admin_edit" => Floored(price.sku, price.values),
           NEW row, row = Import!Written(country, price.sku, Import!Stored(country, price, writer, existing)),
           NEW entry, entry = Import!Entry(country, price.sku, Import!Stored(country, price, writer, existing))
    PROVE  /\ row \in Import!Row /\ row # Null /\ row.by = writer /\ row.rate = price.rate
           /\ row.values = Import!Stored(country, price, writer, Null).values
           /\ Floored(price.sku, row.values) /\ row.at = NextAt(country, price.sku)
           /\ entry \in Import!HistoryRow /\ entry.at = row.at /\ entry.values = row.values
<1> DEFINE stored == Import!Stored(country, price, writer, existing)
<1>1. /\ stored = Import!Stored(country, price, writer, Null)
      /\ stored.values \in [Import!Kind -> Import!Pair] /\ Floored(price.sku, stored.values)
      /\ stored.logged = stored.values
      /\ stored.source = writer /\ stored.by = writer /\ stored.rate = price.rate
    BY WhatIsStored
<1>2. writer \in Import!PriceSource /\ price.rate \in Rate
    BY DEF Writers, Import!PriceSource, Import!Price
<1> HIDE DEF stored
<1>3. row = Import!Written(country, price.sku, stored) /\ entry = Import!Entry(country, price.sku, stored)
    BY DEF stored
<1>4. /\ row \in Import!Row /\ row # Null /\ row.by = stored.by /\ row.rate = stored.rate
      /\ row.values = stored.values /\ row.at = NextAt(country, price.sku)
      /\ entry \in Import!HistoryRow /\ entry.at = row.at /\ entry.values = row.values
    <2> DEFINE sku == price.sku
    <2>1. sku \in Sku /\ row = Import!Written(country, sku, stored) /\ entry = Import!Entry(country, sku, stored)
        BY <1>3
    <2> HIDE DEF sku
    <2>2. /\ row \in Import!Row /\ row # Null /\ row.by = stored.by /\ row.rate = stored.rate
          /\ row.values = stored.values /\ row.at = NextAt(country, sku)
          /\ entry \in Import!HistoryRow /\ entry.at = row.at /\ entry.values = row.values
        BY <1>1, <1>2, <2>1, RowIsWritten
    <2> QED
        BY <2>2 DEF sku
<1> QED
    BY <1>1, <1>4

\* A recalculation goes on as it was while others work.
LEMMA VatStays ==
    ASSUME VatRuns, vat' = vat, rate' = rate,
           \A country \in Both, sku \in Sku : current[country][sku] # Null => current'[country][sku] # Null
    PROVE  VatRuns'
<1>1. vat' \in VatJob /\ (vat'.step # "log" => vat'.log = {})
    BY DEF VatRuns
<1>2. vat'.step = "queued" => vat'.class \in TaxClass /\ rate'[vat'.country][vat'.class] \in Rate
    BY DEF VatRuns
<1>3. vat'.step = "write" => VatRow(vat.rows)'
    <2>1. vat.country \in Both
        BY DEF VatRuns, VatJob
    <2> QED
        BY <2>1 DEF VatRuns, VatRow
<1> QED
    BY <1>1, <1>2, <1>3 DEF VatRuns

-----------------------------------------------------------------------------
(* PriceListImport: what is carried over *)

\* Rows that are left alone, or priced by somebody else, break no promise.
LEMMA HeldStays ==
    ASSUME NEW rows, NEW later, NEW prices \in Seq(Import!Price), NEW n \in Nat, n <= Len(prices),
           NEW country, NEW writer, HeldUpTo(rows, prices, n, country, writer),
           \A sku \in Sku : later[sku] = rows[sku] \/ (later[sku] # Null /\ later[sku].by # writer)
    PROVE  HeldUpTo(later, prices, n, country, writer)
<1>1. \A i \in 1 .. n : prices[i] \in Import!Price
    BY DEF Import!Price
<1>2. \A i \in 1 .. n : prices[i].sku # Null => prices[i].sku \in Sku
    BY <1>1 DEF Import!Price
<1> QED
    BY <1>2 DEF HeldUpTo, Held

\* Only the prices that count matter, not those that come after them.
LEMMA HeldPrefix ==
    ASSUME NEW rows, NEW prices, NEW longer, NEW n \in Nat, NEW country, NEW writer,
           HeldUpTo(rows, prices, n, country, writer), \A i \in 1 .. n : longer[i] = prices[i]
    PROVE  HeldUpTo(rows, longer, n, country, writer)
<1>1. \A i \in 1 .. n : \A k \in (i + 1) .. n : k \in 1 .. n
    OBVIOUS
<1> QED
    BY <1>1 DEF HeldUpTo

\* One price more: it is in CurrentPrice, or of no product, and the rest is untouched.
LEMMA HeldGrows ==
    ASSUME NEW rows, NEW later, NEW prices \in Seq(Import!Price), NEW n \in Nat, n + 1 <= Len(prices),
           NEW country, NEW writer, HeldUpTo(rows, prices, n, country, writer),
           prices[n + 1].sku # Null => Held(later, prices[n + 1], country, writer),
           \A sku \in Sku : sku # prices[n + 1].sku => later[sku] = rows[sku]
    PROVE  HeldUpTo(later, prices, n + 1, country, writer)
<1> SUFFICES ASSUME NEW i \in 1 .. (n + 1), prices[i].sku # Null,
                    \A k \in (i + 1) .. (n + 1) : prices[k].sku # prices[i].sku
             PROVE  Held(later, prices[i], country, writer)
    BY DEF HeldUpTo
<1>1. CASE i = n + 1
    BY <1>1
<1>2. CASE i \in 1 .. n
    <2>1. prices[i] \in Import!Price /\ prices[i].sku \in Sku
        <3>1. prices[i] \in Import!Price
            BY <1>2
        <3> QED
            BY <3>1 DEF Import!Price
    <2>2. n + 1 \in (i + 1) .. (n + 1)
        BY <1>2
    <2>3. later[prices[i].sku] = rows[prices[i].sku]
        BY <2>1, <2>2
    <2>4. Held(rows, prices[i], country, writer)
        <3>1. \A k \in (i + 1) .. n : k \in (i + 1) .. (n + 1)
            OBVIOUS
        <3> QED
            BY <1>2, <3>1 DEF HeldUpTo
    <2> QED
        BY <2>3, <2>4 DEF Held
<1>3. i = n + 1 \/ i \in 1 .. n
    OBVIOUS
<1> QED
    BY <1>1, <1>2, <1>3

\* What a job works on.
LEMMA JobTypes ==
    ASSUME Tables, Jobs, NEW work \in {importer, generator}
    PROVE  /\ work \in JobRow
           /\ work.step \in Steps /\ work.file \in Seq(Import!CsvRow) /\ work.line \in Nat \ {0}
           /\ work.list \in Nat /\ work.rates \in RatesRead \cup {<<>>}
           /\ work.status \in {"in_progress", "ready", "error"}
           /\ work.batch \in Seq(Import!Price) /\ work.todo \in Seq(Import!Price)
           /\ work.labels \in {<<>>} \cup [Sku -> Import!PriceSource \cup {Null}] /\ work.log \in SUBSET LogRow
<1>1. work \in JobRow
    BY DEF Jobs
<1> QED
    BY <1>1 DEF JobRow

LEMMA ListsOfJobs ==
    ASSUME Tables, Jobs
    PROVE  /\ \A l \in DOMAIN imported :
                  /\ imported[l] \in Import!PriceList /\ imported[l].prices \in Seq(Import!Price)
                  /\ imported[l].country \in Both /\ imported[l].status \in {"in_progress", "ready", "error"}
           /\ importer.step # "idle" => importer.list \in DOMAIN imported /\ imported[importer.list].country = Home
           /\ generator.step # "idle" => generator.list \in DOMAIN imported /\ imported[generator.list].country = Abroad
           /\ importer.step # "idle" /\ generator.step # "idle" => importer.list # generator.list
<1>1. \A l \in DOMAIN imported : imported[l] \in Import!PriceList
    BY DEF Tables
<1>2. /\ importer.step # "idle" => importer.list \in DOMAIN imported /\ imported[importer.list].country = Home
      /\ generator.step # "idle" => generator.list \in DOMAIN imported /\ imported[generator.list].country = Abroad
    BY DEF Jobs, Filling
<1> QED
    BY <1>1, <1>2, ImportConstants DEF Import!PriceList

\* The importer's promise, when it does nothing and its rows are left alone or priced
\* by others; and the generator's.
LEMMA ImporterRests ==
    ASSUME ImportInv, importer' = importer,
           importer.step # "idle" => imported'[importer.list].prices = imported[importer.list].prices,
           \A sku \in Sku : \/ current'[Home][sku] = current[Home][sku]
                            \/ current'[Home][sku] # Null /\ current'[Home][sku].by # "csv_import"
    PROVE  ImportCarries'
<1> USE DEF ImportInv
<1> SUFFICES ASSUME importer.step \notin {"idle", "failed"}
             PROVE  ImportCarries'
    BY DEF ImportCarries
<1> DEFINE prices == imported[importer.list].prices
           left == Len(importer.todo)
           n == Len(prices) - left
<1>1. prices \in Seq(Import!Price) /\ importer.todo \in Seq(Import!Price)
    BY ListsOfJobs, JobTypes
<1>2. HeldUpTo(current[Home], prices, n, Home, "csv_import")
    BY DEF ImportCarries
<1>3. n \in Nat /\ n <= Len(prices)
    <2>1. Len(prices) \in Nat /\ left \in Nat
        BY <1>1
    <2>2. left <= Len(prices)
        BY DEF ImportCarries
    <2> HIDE DEF left, prices
    <2>3. \A k \in Nat, l \in Nat : l <= k => k - l \in Nat /\ k - l <= k
        OBVIOUS
    <2> QED
        BY <2>1, <2>2, <2>3
<1>4. HeldUpTo(current'[Home], prices, n, Home, "csv_import")
    BY <1>1, <1>2, <1>3, HeldStays
<1> QED
    BY <1>4 DEF ImportCarries

LEMMA GeneratorRests ==
    ASSUME ImportInv, generator' = generator,
           generator.step # "idle" => imported'[generator.list].prices = imported[generator.list].prices,
           \A sku \in Sku : \/ current'[Abroad][sku] = current[Abroad][sku]
                            \/ current'[Abroad][sku] # Null /\ current'[Abroad][sku].by # "generation"
    PROVE  GenerateCarries'
<1> USE DEF ImportInv
<1> SUFFICES ASSUME generator.step \notin {"idle", "failed"}
             PROVE  GenerateCarries'
    BY DEF GenerateCarries
<1> DEFINE prices == imported[generator.list].prices
           n == IF generator.step = "write" THEN Len(prices) - 1 ELSE Len(prices)
<1>1. prices \in Seq(Import!Price)
    BY ListsOfJobs
<1>2. HeldUpTo(current[Abroad], prices, n, Abroad, "generation")
    BY DEF GenerateCarries
<1>3. n \in Nat /\ n <= Len(prices)
    <2>1. generator.step = "write" => prices # <<>>
        BY DEF GenerateCarries
    <2> HIDE DEF prices
    <2> QED
        BY <1>1, <2>1
<1>4. HeldUpTo(current'[Abroad], prices, n, Abroad, "generation")
    BY <1>1, <1>2, <1>3, HeldStays
<1> QED
    BY <1>4 DEF GenerateCarries

\* The rows and their history, when neither changes and a log is only thrown away by
\* a job that starts anew after it was killed.
LEMMA LogsRest ==
    ASSUME ImportInv, Tables', UNCHANGED <<scenario, current, history>>,
           \A country \in Both : /\ LogOf(country)' \subseteq LogOf(country)
                                 /\ scenario = "edited" => LogOf(country)' = LogOf(country)
    PROVE  Floors' /\ Truthful' /\ Told'
<1>1. Floors'
    BY DEF ImportInv, Floors
<1>2. \A country \in Both, sku \in Sku : Kept(country, sku)
    BY DEF Kept, Entries, Pending
<1> QED
    BY <1>1, <1>2, HistoryFollows

LEMMA RowsRest ==
    ASSUME ImportInv, Tables', UNCHANGED <<scenario, rate, current, history, vat>>,
           importer'.log \subseteq importer.log, generator'.log \subseteq generator.log,
           scenario = "edited" => importer'.log = importer.log /\ generator'.log = generator.log
    PROVE  Floors' /\ Truthful' /\ Told' /\ VatRuns'
<1>1. \A country \in Both : /\ LogOf(country)' \subseteq LogOf(country)
                            /\ scenario = "edited" => LogOf(country)' = LogOf(country)
    BY DEF LogOf
<1> QED
    BY <1>1, LogsRest, VatStays DEF ImportInv

\* The lists keep what they are of and what they hold, up to their status.
SameLists ==
    /\ DOMAIN imported' = DOMAIN imported
    /\ \A l \in DOMAIN imported :
          imported'[l].country = imported[l].country /\ imported'[l].prices = imported[l].prices

\* A job that goes on, or ends, with the same to do.
LEMMA ImporterMoves ==
    ASSUME ImportInv, Tables', SameLists, UNCHANGED <<scenario, rate, current, history, generator, vat>>,
           importer' \in JobRow, importer'.list = importer.list, importer'.todo = importer.todo,
           importer'.log = importer.log, importer.step \notin {"idle", "failed"},
           importer'.step \notin {"idle", "price", "log"},
           importer'.step \in {"row", "labels", "write"} => importer'.rates \in RatesRead,
           importer'.step \notin {"labels", "write", "failed"} => importer.todo = <<>>,
           scenario = "edited" /\ importer'.step # "write" => importer.log = {}
    PROVE  ImportInv'
<1>1. Jobs'
    BY ListsOfJobs DEF ImportInv, Jobs, Filling, SameLists
<1>2. imported'[importer.list].prices = imported[importer.list].prices
    BY ListsOfJobs DEF ImportInv, SameLists
<1>3. ImportCarries'
    <2>1. ImportCarries
        BY DEF ImportInv
    <2> QED
        BY <1>2, <2>1 DEF ImportCarries
<1>4. GenerateCarries'
    BY ListsOfJobs, GeneratorRests DEF ImportInv, SameLists
<1>5. Logs'
    BY DEF ImportInv, Logs
<1>6. Floors' /\ Truthful' /\ Told' /\ VatRuns'
    BY RowsRest
<1> QED
    BY <1>1, <1>3, <1>4, <1>5, <1>6 DEF ImportInv

LEMMA GeneratorMoves ==
    ASSUME ImportInv, Tables', SameLists, UNCHANGED <<scenario, rate, current, history, importer, vat>>,
           generator' \in JobRow, generator'.list = generator.list, generator'.todo = generator.todo,
           generator'.log = generator.log, generator.step \notin {"idle", "failed"},
           generator'.step \in {"done", "failed"}, generator'.step = "done" => generator.step = "price",
           scenario = "edited" => generator.log = {}
    PROVE  ImportInv'
<1>1. Jobs'
    BY ListsOfJobs DEF ImportInv, Jobs, Filling, SameLists
<1>2. imported'[generator.list].prices = imported[generator.list].prices
    BY ListsOfJobs DEF ImportInv, SameLists
<1>3. GenerateCarries'
    <2>1. GenerateCarries
        BY DEF ImportInv
    <2> QED
        BY <1>2, <2>1 DEF GenerateCarries
<1>4. ImportCarries'
    BY ListsOfJobs, ImporterRests DEF ImportInv, SameLists
<1>5. Logs'
    BY DEF ImportInv, Logs
<1>6. Floors' /\ Truthful' /\ Told' /\ VatRuns'
    BY RowsRest
<1> QED
    BY <1>1, <1>3, <1>4, <1>5, <1>6 DEF ImportInv

-----------------------------------------------------------------------------
(* PriceListImport: the importer *)

LEMMA ImportStartCarries ==
    ASSUME ImportInv, NEW file \in Files, Import!ImportStart(file), UNCHANGED <<scenario, fromNetToGross>>
    PROVE  ImportInv'
<1> DEFINE fresh == [country |-> Home, status |-> "in_progress", prices |-> <<>>]
<1>1. fresh \in Import!PriceList /\ imported \in Seq(Import!PriceList)
    BY ImportConstants DEF Import!PriceList, Both, ImportInv, Tables
<1>2. imported' = Append(imported, fresh)
    BY DEF Import!ImportStart
<1>3. UNCHANGED <<taxClass, rate, current, history, generator, vat>>
    BY DEF Import!ImportStart
<1>4. importer' = [step |-> "products", file |-> file, line |-> 1, list |-> Len(imported) + 1, rates |-> <<>>,
                   status |-> "in_progress", batch |-> <<>>, todo |-> <<>>, labels |-> <<>>, log |-> {}]
    BY DEF Import!ImportStart, Import!Idle
<1>5. Tables'
    BY <1>1, <1>2, <1>3 DEF ImportInv, Tables
<1>6. /\ \A l \in DOMAIN imported : l \in DOMAIN imported' /\ imported'[l] = imported[l]
      /\ Len(imported) + 1 \in DOMAIN imported' /\ imported'[Len(imported) + 1] = fresh
    <2> HIDE DEF fresh
    <2> QED
        BY <1>1, <1>2
<1>7. importer' \in JobRow
    BY <1>4, ImportAssumption DEF JobRow, Steps
<1>8. Jobs'
    BY <1>3, <1>4, <1>6, <1>7, ListsOfJobs DEF ImportInv, Jobs, Filling
<1>9. ImportCarries'
    BY <1>4, <1>6 DEF ImportCarries, HeldUpTo
<1>10. GenerateCarries'
    BY <1>3, <1>6, ListsOfJobs, GeneratorRests DEF ImportInv
<1>11. scenario = "edited" => importer.log = {}
    BY DEF Import!ImportStart, Import!Ended, ImportInv, Logs
<1>12. Logs'
    BY <1>3, <1>4 DEF ImportInv, Logs
<1>13. Floors' /\ Truthful' /\ Told' /\ VatRuns'
    BY <1>3, <1>4, <1>5, <1>11, RowsRest
<1> QED
    BY <1>5, <1>8, <1>9, <1>10, <1>12, <1>13 DEF ImportInv

LEMMA ClassesOfFiles ==
    ASSUME NEW file \in Seq(Import!CsvRow), NEW x
    PROVE  Import!FirstClass(file, x) \in TaxClass \cup {Null}
<1> DEFINE rows == {i \in DOMAIN file : ~Import!NamesNothing(file[i]) /\ x \in Import!Named(file[i])}
           first == CHOOSE i \in rows : \A k \in rows : i <= k
<1>1. Import!FirstClass(file, x) = IF rows = {} THEN Null ELSE file[first].class
    BY DEF Import!FirstClass
<1>2. rows # {} => first \in rows
    <2>1. rows \in SUBSET Nat
        OBVIOUS
    <2> HIDE DEF rows
    <2> QED
        BY <2>1, LeastOf
<1>3. rows # {} => file[first] \in Import!CsvRow
    BY <1>2
<1>4. \A row \in Import!CsvRow : row.class \in TaxClass \cup {Null}
    BY DEF Import!CsvRow
<1> HIDE DEF rows, first
<1> QED
    BY <1>1, <1>3, <1>4

LEMMA ImportProductsCarries ==
    ASSUME ImportInv, Import!ImportProducts, UNCHANGED <<scenario, fromNetToGross>>
    PROVE  ImportInv'
<1>1. /\ importer.step = "products" /\ importer' = [importer EXCEPT !.step = "rates"]
      /\ taxClass' = [x \in Sku \cup Attr |->
                         IF taxClass[x] = Null THEN Import!FirstClass(importer.file, x) ELSE taxClass[x]]
      /\ UNCHANGED <<rate, imported, current, history, generator, vat>>
    BY DEF Import!ImportProducts
<1>2. importer \in JobRow /\ importer.file \in Seq(Import!CsvRow)
    BY JobTypes DEF ImportInv
<1>3. taxClass' \in [Sku \cup Attr -> TaxClass \cup {Null}]
    BY <1>1, <1>2, ClassesOfFiles DEF ImportInv, Tables
<1>4. Tables' /\ SameLists
    BY <1>1, <1>3 DEF ImportInv, Tables, SameLists
<1>5. importer' \in JobRow
    BY <1>1, <1>2 DEF JobRow, Steps
<1>6. importer.todo = <<>> /\ (scenario = "edited" => importer.log = {})
    BY <1>1 DEF ImportInv, ImportCarries, Logs
<1>7. /\ importer'.list = importer.list /\ importer'.todo = importer.todo /\ importer'.log = importer.log
      /\ importer'.step = "rates"
    BY <1>1, <1>2 DEF JobRow
<1> QED
    BY <1>1, <1>4, <1>5, <1>6, <1>7, ImporterMoves

LEMMA ImportRatesCarries ==
    ASSUME ImportInv, Import!ImportRates, UNCHANGED <<scenario, fromNetToGross>>
    PROVE  ImportInv'
<1>1. /\ importer.step = "rates" /\ importer' = [importer EXCEPT !.step = "row", !.rates = rate[Home]]
      /\ UNCHANGED <<taxClass, rate, imported, current, history, generator, vat>>
    BY DEF Import!ImportRates
<1>2. importer \in JobRow /\ rate[Home] \in RatesRead
    BY JobTypes DEF ImportInv, Tables, Both
<1>3. Tables' /\ SameLists
    BY <1>1 DEF ImportInv, Tables, SameLists
<1>4. importer' \in JobRow
    BY <1>1, <1>2 DEF JobRow, Steps
<1>5. importer.todo = <<>> /\ (scenario = "edited" => importer.log = {})
    BY <1>1 DEF ImportInv, ImportCarries, Logs
<1>6. /\ importer'.list = importer.list /\ importer'.todo = importer.todo /\ importer'.log = importer.log
      /\ importer'.step = "row" /\ importer'.rates = rate[Home]
    BY <1>1, <1>2 DEF JobRow
<1> QED
    BY <1>1, <1>2, <1>3, <1>4, <1>5, <1>6, ImporterMoves

LEMMA ImportRowCarries ==
    ASSUME ImportInv, Import!ImportRow, UNCHANGED <<scenario, fromNetToGross>>
    PROVE  ImportInv'
<1> DEFINE row == importer.file[importer.line]
           said == Import!Outcome(row, importer.rates)
           price == Import!PriceOf(row, importer.rates[row.class])
           status == IF said = "price" THEN "ready" ELSE IF said = "error" THEN "error" ELSE importer.status
           line == importer.line + 1
           batch == IF said = "price" THEN Append(importer.batch, price) ELSE importer.batch
<1>1. /\ importer.step = "row" /\ importer.line <= Len(importer.file)
      /\ importer' = [importer EXCEPT !.line = line, !.status = status, !.batch = batch]
      /\ UNCHANGED <<taxClass, rate, imported, current, history, generator, vat>>
    BY DEF Import!ImportRow
<1>2. /\ importer \in JobRow /\ importer.file \in Seq(Import!CsvRow) /\ importer.line \in Nat \ {0}
      /\ importer.batch \in Seq(Import!Price) /\ importer.status \in {"in_progress", "ready", "error"}
    BY JobTypes DEF ImportInv
<1>3. importer.rates \in RatesRead
    BY <1>1 DEF ImportInv, Jobs
<1>4. row \in Import!CsvRow
    BY <1>1, <1>2
<1>5. said = "price" => price \in Import!Price
    <2> HIDE DEF row
    <2> QED
        BY <1>3, <1>4, RowsBecomePrices DEF RatesRead
<1>6. batch \in Seq(Import!Price) /\ status \in {"in_progress", "ready", "error"} /\ line \in Nat \ {0}
    <2> HIDE DEF price, said
    <2> QED
        BY <1>2, <1>5
<1> HIDE DEF batch, status, line
<1>7. Tables' /\ SameLists
    BY <1>1 DEF ImportInv, Tables, SameLists
<1>8. importer' \in JobRow
    BY <1>1, <1>2, <1>6 DEF JobRow, Steps
<1>9. importer.todo = <<>> /\ (scenario = "edited" => importer.log = {})
    BY <1>1 DEF ImportInv, ImportCarries, Logs
<1>10. /\ importer'.list = importer.list /\ importer'.todo = importer.todo /\ importer'.log = importer.log
       /\ importer'.step = "row" /\ importer'.rates = importer.rates
    BY <1>1, <1>2 DEF JobRow
<1> QED
    BY <1>1, <1>3, <1>7, <1>8, <1>9, <1>10, ImporterMoves

LEMMA LabelsAreSources ==
    ASSUME Tables, NEW country \in Both
    PROVE  Import!Labels(country) \in [Sku -> Import!PriceSource \cup {Null}]
<1>1. \A sku \in Sku : current[country][sku] \in Import!Row \cup {Null}
    BY DEF Tables
<1> QED
    BY <1>1 DEF Import!Labels, Import!LabelOf, Import!Row

LEMMA ImportLabelsCarries ==
    ASSUME ImportInv, Import!ImportLabels, UNCHANGED <<scenario, fromNetToGross>>
    PROVE  ImportInv'
<1>1. /\ importer.step = "labels" /\ importer' = [importer EXCEPT !.step = "write", !.labels = Import!Labels(Home)]
      /\ UNCHANGED <<taxClass, rate, imported, current, history, generator, vat>>
    BY DEF Import!ImportLabels
<1>2. importer \in JobRow /\ importer.rates \in RatesRead /\ Import!Labels(Home) \in [Sku -> Import!PriceSource \cup {Null}]
    BY <1>1, JobTypes, LabelsAreSources DEF ImportInv, Jobs, Both
<1>3. Tables' /\ SameLists
    BY <1>1 DEF ImportInv, Tables, SameLists
<1>4. importer' \in JobRow
    BY <1>1, <1>2 DEF JobRow, Steps
<1>5. /\ importer'.list = importer.list /\ importer'.todo = importer.todo /\ importer'.log = importer.log
      /\ importer'.step = "write" /\ importer'.rates = importer.rates
    BY <1>1, <1>2 DEF JobRow
<1> QED
    BY <1>1, <1>2, <1>3, <1>4, <1>5, ImporterMoves

LEMMA ImportFailCarries ==
    ASSUME ImportInv, Import!ImportFail, UNCHANGED <<scenario, fromNetToGross>>
    PROVE  ImportInv'
<1>1. /\ importer.step = "row" /\ importer' = [importer EXCEPT !.step = "failed"]
      /\ UNCHANGED <<taxClass, rate, imported, current, history, generator, vat>>
    BY DEF Import!ImportFail
<1>2. importer \in JobRow /\ (scenario = "edited" => importer.log = {})
    BY <1>1, JobTypes DEF ImportInv, Logs
<1>3. Tables' /\ SameLists
    BY <1>1 DEF ImportInv, Tables, SameLists
<1>4. importer' \in JobRow
    BY <1>1, <1>2 DEF JobRow, Steps
<1>5. /\ importer'.list = importer.list /\ importer'.todo = importer.todo /\ importer'.log = importer.log
      /\ importer'.step = "failed"
    BY <1>1, <1>2 DEF JobRow
<1> QED
    BY <1>1, <1>2, <1>3, <1>4, <1>5, ImporterMoves

LEMMA ImportDiesCarries ==
    ASSUME ImportInv, Import!ImportDies, UNCHANGED <<scenario, fromNetToGross>>, scenario # "edited"
    PROVE  ImportInv'
<1>1. /\ importer.step \notin {"idle", "failed"} /\ importer' = [importer EXCEPT !.step = "failed"]
      /\ UNCHANGED <<taxClass, rate, imported, current, history, generator, vat>>
    BY DEF Import!ImportDies, Import!Ended
<1>2. importer \in JobRow
    BY JobTypes DEF ImportInv
<1>3. Tables' /\ SameLists
    BY <1>1 DEF ImportInv, Tables, SameLists
<1>4. importer' \in JobRow
    BY <1>1, <1>2 DEF JobRow, Steps
<1>5. /\ importer'.list = importer.list /\ importer'.todo = importer.todo /\ importer'.log = importer.log
      /\ importer'.step = "failed"
    BY <1>1, <1>2 DEF JobRow
<1> QED
    BY <1>1, <1>3, <1>4, <1>5, ImporterMoves

\* One list is saved again with another status.
LEMMA StatusSaved ==
    ASSUME Tables, NEW l \in DOMAIN imported, NEW status \in {"in_progress", "ready", "error"},
           imported' = [imported EXCEPT ![l].status = status]
    PROVE  imported' \in Seq(Import!PriceList) /\ SameLists
<1>1. imported \in Seq(Import!PriceList) /\ l \in 1 .. Len(imported)
    BY DEF Tables
<1>2. [imported[l] EXCEPT !.status = status] \in Import!PriceList
    <2>1. imported[l] \in Import!PriceList
        BY <1>1
    <2> QED
        BY <2>1 DEF Import!PriceList
<1>3. imported' = [imported EXCEPT ![l] = [imported[l] EXCEPT !.status = status]]
    BY <1>1
<1>4. imported' \in Seq(Import!PriceList)
    BY <1>1, <1>2, <1>3
<1>5. \A k \in DOMAIN imported : imported[k] \in Import!PriceList
    BY <1>1
<1> QED
    BY <1>1, <1>3, <1>4, <1>5 DEF SameLists, Import!PriceList

LEMMA ImportFinishCarries ==
    ASSUME ImportInv, Import!ImportFinish, UNCHANGED <<scenario, fromNetToGross>>
    PROVE  ImportInv'
<1>1. /\ importer.step = "row" /\ importer' = [importer EXCEPT !.step = "done"]
      /\ imported' = [imported EXCEPT ![importer.list].status = importer.status]
      /\ UNCHANGED <<taxClass, rate, current, history, generator, vat>>
    BY DEF Import!ImportFinish
<1>2. /\ importer \in JobRow /\ importer.status \in {"in_progress", "ready", "error"}
      /\ importer.list \in DOMAIN imported
    BY <1>1, JobTypes, ListsOfJobs DEF ImportInv
<1>3. importer.todo = <<>> /\ (scenario = "edited" => importer.log = {})
    BY <1>1 DEF ImportInv, ImportCarries, Logs
<1>4. Tables' /\ SameLists
    BY <1>1, <1>2, StatusSaved DEF ImportInv, Tables
<1>5. importer' \in JobRow
    BY <1>1, <1>2 DEF JobRow, Steps
<1>6. /\ importer'.list = importer.list /\ importer'.todo = importer.todo /\ importer'.log = importer.log
      /\ importer'.step = "done"
    BY <1>1, <1>2 DEF JobRow
<1> QED
    BY <1>1, <1>3, <1>4, <1>5, <1>6, ImporterMoves

\* A row is written, and what is said of it goes to the log of the job.
LEMMA RowIsLogged ==
    ASSUME ImportInv, NEW country \in Both, NEW sku \in Sku, NEW row, NEW entry, row # Null,
           entry.at = row.at, entry.values = row.values, row.at = NextAt(country, sku),
           current' = [current EXCEPT ![country][sku] = row], history' = history,
           NEW one, one = [sku |-> sku, entry |-> entry],
           one \in LogOf(country)', LogOf(country)' \subseteq LogOf(country) \cup {one},
           scenario = "edited" => LogOf(country) \subseteq LogOf(country)',
           \A other \in Both : other # country => LogOf(other)' = LogOf(other)
    PROVE  \A c \in Both, s \in Sku : Kept(c, s) \/ Anew(c, s)
<1>1. current \in [Both -> [Sku -> Import!Row \cup {Null}]]
    BY DEF ImportInv, Tables
<1>2. /\ current'[country][sku] = row
      /\ \A c \in Both, s \in Sku : c # country \/ s # sku => current'[c][s] = current[c][s]
    BY <1>1
<1>3. one.sku = sku /\ one.entry = entry
    OBVIOUS
<1>4. Anew(country, sku)
    <2>1. entry \in Entries(country, sku)'
        BY <1>3 DEF Entries, Pending
    <2>2. \A other \in Entries(country, sku)' : other \in Entries(country, sku) \/ other = entry
        BY <1>3 DEF Entries, Pending
    <2>3. scenario = "edited" => Entries(country, sku) \subseteq Entries(country, sku)'
        BY DEF Entries, Pending
    <2> QED
        BY <1>2, <2>1, <2>2, <2>3 DEF Anew
<1>5. ASSUME NEW c \in Both, NEW s \in Sku, c # country \/ s # sku
      PROVE  Kept(c, s)
    <2>1. Entries(c, s)' \subseteq Entries(c, s) /\ (scenario = "edited" => Entries(c, s)' = Entries(c, s))
        <3>1. CASE c # country
            BY <3>1 DEF Entries, Pending
        <3>2. CASE c = country /\ s # sku
            BY <1>3, <3>2 DEF Entries, Pending
        <3> QED
            BY <1>5, <3>1, <3>2
    <2> QED
        BY <1>2, <1>5, <2>1 DEF Kept
<1> QED
    BY <1>4, <1>5

LEMMA ImportBatchCarries ==
    ASSUME ImportInv, Import!ImportBatch, UNCHANGED <<scenario, fromNetToGross>>
    PROVE  ImportInv'
<1> DEFINE l == importer.list
           old == imported[l].prices
           batch == importer.batch
           new == old \o batch
<1>1. /\ importer.step = "row" /\ imported' = [imported EXCEPT ![l].prices = new]
      /\ importer' = [importer EXCEPT !.step = "labels", !.batch = <<>>, !.todo = batch]
      /\ UNCHANGED <<taxClass, rate, current, history, generator, vat>>
    BY DEF Import!ImportBatch
<1>2. /\ importer \in JobRow /\ batch \in Seq(Import!Price) /\ importer.rates \in RatesRead
      /\ l \in DOMAIN imported /\ imported[l] \in Import!PriceList /\ old \in Seq(Import!Price)
      /\ imported[l].country = Home
    BY <1>1, JobTypes, ListsOfJobs DEF ImportInv, Jobs
<1>3. /\ importer.todo = <<>> /\ (scenario = "edited" => importer.log = {})
      /\ HeldUpTo(current[Home], old, Len(old), Home, "csv_import")
    <2>1. importer.todo = <<>>
        BY <1>1 DEF ImportInv, ImportCarries
    <2>2. HeldUpTo(current[Home], old, Len(old) - Len(importer.todo), Home, "csv_import")
        BY <1>1 DEF ImportInv, ImportCarries
    <2>3. Len(old) - Len(importer.todo) = Len(old)
        BY <1>2, <2>1
    <2> QED
        BY <1>1, <2>1, <2>2, <2>3 DEF ImportInv, Logs
<1>4. /\ new \in Seq(Import!Price) /\ Len(new) = Len(old) + Len(batch)
      /\ \A k \in 1 .. Len(old) : new[k] = old[k]
      /\ \A k \in 1 .. Len(batch) : new[Len(old) + k] = batch[k]
      /\ Len(old) \in Nat /\ Len(batch) \in Nat
    <2> HIDE DEF old, batch
    <2> QED
        BY <1>2
<1> HIDE DEF new
<1>5. /\ DOMAIN imported' = DOMAIN imported /\ imported' \in Seq(Import!PriceList)
      /\ imported'[l].prices = new
      /\ \A k \in DOMAIN imported : imported'[k].country = imported[k].country
      /\ \A k \in DOMAIN imported : k # l => imported'[k] = imported[k]
    <2>1. imported \in Seq(Import!PriceList)
        BY DEF ImportInv, Tables
    <2>2. [imported[l] EXCEPT !.prices = new] \in Import!PriceList
        BY <1>2, <1>4 DEF Import!PriceList
    <2>3. imported' = [imported EXCEPT ![l] = [imported[l] EXCEPT !.prices = new]]
        BY <1>1
    <2>4. imported' \in Seq(Import!PriceList)
        BY <1>2, <2>1, <2>2, <2>3
    <2> QED
        BY <1>2, <2>1, <2>3, <2>4 DEF Import!PriceList
<1>6. Tables'
    BY <1>1, <1>5 DEF ImportInv, Tables
<1>7. importer' \in JobRow
    <2> HIDE DEF batch
    <2>1. <<>> \in Seq(Import!Price)
        OBVIOUS
    <2> QED
        BY <1>1, <1>2, <2>1 DEF JobRow, Steps
<1>8. /\ importer'.list = l /\ importer'.todo = batch /\ importer'.log = importer.log
      /\ importer'.step = "labels" /\ importer'.rates = importer.rates
    BY <1>1, <1>2 DEF JobRow
<1>9. Jobs'
    BY <1>1, <1>2, <1>5, <1>7, <1>8, ListsOfJobs DEF ImportInv, Jobs, Filling
<1>10. ImportCarries'
    <2>1. Len(new) - Len(batch) = Len(old) /\ Len(batch) <= Len(new)
        <3>1. \A k \in Nat, m \in Nat : (k + m) - m = k /\ m <= k + m
            OBVIOUS
        <3> HIDE DEF batch, old
        <3> QED
            BY <1>4, <3>1
    <2>2. HeldUpTo(current[Home], new, Len(old), Home, "csv_import")
        BY <1>3, <1>4, HeldPrefix
    <2>3. \A k \in 1 .. Len(batch) : batch[k] = new[Len(new) - Len(batch) + k]
        BY <1>4, <2>1
    <2> HIDE DEF batch, old
    <2> QED
        BY <1>1, <1>5, <1>8, <2>1, <2>2, <2>3 DEF ImportCarries
<1>11. GenerateCarries'
    <2>1. generator.step # "idle" => generator.list \in DOMAIN imported /\ generator.list # l
        BY <1>1, ListsOfJobs DEF ImportInv
    <2> QED
        BY <1>1, <1>5, <2>1, GeneratorRests
<1>12. Logs'
    BY <1>1, <1>3, <1>8 DEF ImportInv, Logs
<1>13. Floors' /\ Truthful' /\ Told' /\ VatRuns'
    BY <1>1, <1>6, <1>8, RowsRest
<1> QED
    BY <1>6, <1>9, <1>10, <1>11, <1>12, <1>13 DEF ImportInv

\* The next price of the batch is off the list of what is to do.
LEMMA NextOfBatch ==
    ASSUME ImportInv, importer.step = "write", importer.todo # <<>>,
           NEW prices, prices = imported[importer.list].prices,
           NEW n, n = Len(prices) - Len(importer.todo)
    PROVE  /\ prices \in Seq(Import!Price) /\ n \in Nat /\ n + 1 <= Len(prices)
           /\ Head(importer.todo) = prices[n + 1] /\ Head(importer.todo) \in Import!Price
           /\ HeldUpTo(current[Home], prices, n, Home, "csv_import")
           /\ Tail(importer.todo) \in Seq(Import!Price)
           /\ Len(Tail(importer.todo)) <= Len(prices) /\ Len(prices) - Len(Tail(importer.todo)) = n + 1
           /\ \A k \in 1 .. Len(Tail(importer.todo)) : Tail(importer.todo)[k] = prices[n + 1 + k]
<1> DEFINE todo == importer.todo
           left == Len(todo)
<1>1. todo \in Seq(Import!Price) /\ todo # <<>> /\ prices \in Seq(Import!Price)
    BY JobTypes, ListsOfJobs DEF ImportInv
<1>2. HeldUpTo(current[Home], prices, n, Home, "csv_import")
    BY DEF ImportInv, ImportCarries
<1>3. left <= Len(prices) /\ \A k \in 1 .. left : todo[k] = prices[n + k]
    BY DEF ImportInv, ImportCarries
<1> HIDE DEF todo
<1>4. /\ left \in Nat \ {0} /\ Len(prices) \in Nat /\ n = Len(prices) - left
      /\ Head(todo) = todo[1] /\ Head(todo) \in Import!Price /\ Tail(todo) \in Seq(Import!Price)
      /\ Len(Tail(todo)) = left - 1 /\ \A k \in 1 .. (left - 1) : Tail(todo)[k] = todo[k + 1]
    BY <1>1 DEF todo
<1> HIDE DEF left
<1>5. n \in Nat /\ n + 1 <= Len(prices) /\ left - 1 <= Len(prices) /\ Len(prices) - (left - 1) = n + 1
    <2>1. \A k \in Nat, m \in Nat \ {0} : m <= k => /\ k - m \in Nat /\ (k - m) + 1 <= k
                                                  /\ m - 1 <= k /\ k - (m - 1) = (k - m) + 1
        OBVIOUS
    <2>2. left <= Len(prices)
        BY <1>3
    <2> QED
        BY <1>4, <2>1, <2>2
<1>6. todo[1] = prices[n + 1]
    <2>1. 1 \in 1 .. left
        BY <1>4
    <2> QED
        BY <1>3, <2>1
<1>7. \A k \in 1 .. (left - 1) : k + 1 \in 1 .. left /\ n + (k + 1) = n + 1 + k
    <2>1. left \in Nat /\ n \in Nat
        BY <1>4, <1>5
    <2>2. \A m \in Nat, j \in Nat : \A k \in 1 .. (m - 1) : k + 1 \in 1 .. m /\ j + (k + 1) = j + 1 + k
        OBVIOUS
    <2> QED
        BY <2>1, <2>2
<1>8. \A k \in 1 .. (left - 1) : todo[k + 1] = prices[n + 1 + k]
    <2> TAKE k \in 1 .. (left - 1)
    <2>1. todo[k + 1] = prices[n + (k + 1)]
        BY <1>3, <1>7
    <2> QED
        BY <1>7, <2>1
<1> QED
    BY <1>1, <1>2, <1>4, <1>5, <1>6, <1>8 DEF todo

LEMMA ImportWriteCarries ==
    ASSUME ImportInv, Import!ImportWrite, UNCHANGED <<scenario, fromNetToGross>>
    PROVE  ImportInv'
<1> DEFINE price == Head(importer.todo)
           sku == price.sku
           stored == Import!Stored(Home, price, "csv_import", importer.labels[sku])
           row == Import!Written(Home, sku, stored)
           entry == Import!Entry(Home, sku, stored)
           one == [sku |-> sku, entry |-> entry]
           todo == Tail(importer.todo)
           log == importer.log \cup {one}
           prices == imported[importer.list].prices
           n == Len(prices) - Len(importer.todo)
<1>1. /\ importer.step = "write" /\ importer.todo # <<>> /\ sku # Null
      /\ current' = [current EXCEPT ![Home][sku] = row]
      /\ importer' = [importer EXCEPT !.todo = todo, !.log = log]
      /\ UNCHANGED <<taxClass, rate, imported, history, generator, vat>>
    BY DEF Import!ImportWrite
<1>2. importer \in JobRow /\ importer.rates \in RatesRead /\ importer.log \in SUBSET LogRow
    BY <1>1, JobTypes DEF ImportInv, Jobs
<1>3. /\ prices \in Seq(Import!Price) /\ n \in Nat /\ n + 1 <= Len(prices)
      /\ price = prices[n + 1] /\ price \in Import!Price
      /\ HeldUpTo(current[Home], prices, n, Home, "csv_import")
      /\ todo \in Seq(Import!Price)
      /\ Len(todo) <= Len(prices) /\ Len(prices) - Len(todo) = n + 1
      /\ \A k \in 1 .. Len(todo) : todo[k] = prices[n + 1 + k]
    BY <1>1, NextOfBatch
<1>4. sku \in Sku
    BY <1>1, <1>3 DEF Import!Price
<1>5. /\ row \in Import!Row /\ row # Null /\ row.by = "csv_import" /\ row.rate = price.rate
      /\ row.values = Import!Stored(Home, price, "csv_import", Null).values
      /\ Floored(sku, row.values)
      /\ row.at = NextAt(Home, sku)
      /\ entry \in Import!HistoryRow /\ entry.at = row.at /\ entry.values = row.values
    <2>1. "csv_import" \in Writers /\ Home \in Both
        BY DEF Writers, Both
    <2> QED
        BY <1>3, <1>4, <2>1, OwnRowIsWritten
<1> HIDE DEF stored, row, entry
<1>6. Home \in Both /\ current \in [Both -> [Sku -> Import!Row \cup {Null}]]
    BY DEF ImportInv, Tables, Both
<1>7. /\ current' \in [Both -> [Sku -> Import!Row \cup {Null}]]
      /\ current'[Home][sku] = row
      /\ \A s \in Sku : s # sku => current'[Home][s] = current[Home][s]
      /\ current'[Abroad] = current[Abroad]
    BY <1>1, <1>4, <1>5, <1>6, ImportConstants
<1>8. Tables' /\ SameLists
    BY <1>1, <1>7 DEF ImportInv, Tables, SameLists
<1>9. one \in LogRow /\ log \in SUBSET LogRow
    BY <1>2, <1>4, <1>5 DEF LogRow
<1>10. importer' \in JobRow
    <2> HIDE DEF log, todo
    <2> QED
        BY <1>1, <1>2, <1>3, <1>9 DEF JobRow
<1>11. /\ importer'.list = importer.list /\ importer'.todo = todo /\ importer'.log = log
       /\ importer'.step = "write" /\ importer'.rates = importer.rates
    BY <1>1, <1>2 DEF JobRow
<1>12. Jobs'
    BY <1>1, <1>2, <1>8, <1>10, <1>11, ListsOfJobs DEF ImportInv, Jobs, Filling
<1>13. Floors'
    BY <1>1, <1>5, <1>7 DEF ImportInv, Floors, Both
<1>14. ImportCarries'
    <2>1. Held(current'[Home], prices[n + 1], Home, "csv_import")
        BY <1>3, <1>5, <1>7 DEF Held
    <2>2. \A s \in Sku : s # prices[n + 1].sku => current'[Home][s] = current[Home][s]
        BY <1>3, <1>7
    <2>3. HeldUpTo(current'[Home], prices, n + 1, Home, "csv_import")
        <3> HIDE DEF prices, n
        <3> QED
            BY <1>3, <2>1, <2>2, HeldGrows
    <2> HIDE DEF n, todo
    <2> QED
        BY <1>1, <1>3, <1>11, <2>3 DEF ImportCarries
<1>15. GenerateCarries'
    BY <1>1, <1>7, GeneratorRests
<1>16. Logs'
    BY <1>1, <1>11 DEF ImportInv, Logs
<1>17. \A c \in Both, s \in Sku : Kept(c, s) \/ Anew(c, s)
    <2>1. LogOf(Home)' = LogOf(Home) \cup {one} /\ \A other \in Both : other # Home => LogOf(other)' = LogOf(other)
        <3> HIDE DEF one
        <3> QED
            BY <1>1, <1>11, ImportConstants DEF LogOf, Both
    <2> HIDE DEF one, sku
    <2>2. one = [sku |-> sku, entry |-> entry]
        BY DEF one
    <2> QED
        BY <1>1, <1>4, <1>5, <1>6, <2>1, <2>2, RowIsLogged
<1>18. Truthful' /\ Told'
    BY <1>8, <1>17, HistoryFollows
<1>19. VatRuns'
    <2>1. \A c \in Both, s \in Sku : current[c][s] # Null => current'[c][s] # Null
        BY <1>5, <1>7 DEF Both
    <2> QED
        BY <1>1, <2>1, VatStays DEF ImportInv
<1> QED
    BY <1>8, <1>12, <1>13, <1>14, <1>15, <1>16, <1>18, <1>19 DEF ImportInv

LEMMA ImportSkipCarries ==
    ASSUME ImportInv, Import!ImportSkip, UNCHANGED <<scenario, fromNetToGross>>
    PROVE  ImportInv'
<1> DEFINE price == Head(importer.todo)
           todo == Tail(importer.todo)
           prices == imported[importer.list].prices
           n == Len(prices) - Len(importer.todo)
<1>1. /\ importer.step = "write" /\ importer.todo # <<>> /\ price.sku = Null
      /\ importer' = [importer EXCEPT !.todo = todo]
      /\ UNCHANGED <<taxClass, rate, imported, current, history, generator, vat>>
    BY DEF Import!ImportSkip
<1>2. importer \in JobRow /\ importer.rates \in RatesRead
    BY <1>1, JobTypes DEF ImportInv, Jobs
<1>3. /\ prices \in Seq(Import!Price) /\ n \in Nat /\ n + 1 <= Len(prices)
      /\ price = prices[n + 1] /\ price \in Import!Price
      /\ HeldUpTo(current[Home], prices, n, Home, "csv_import")
      /\ todo \in Seq(Import!Price)
      /\ Len(todo) <= Len(prices) /\ Len(prices) - Len(todo) = n + 1
      /\ \A k \in 1 .. Len(todo) : todo[k] = prices[n + 1 + k]
    BY <1>1, NextOfBatch
<1>4. Tables' /\ SameLists
    BY <1>1 DEF ImportInv, Tables, SameLists
<1>5. importer' \in JobRow
    <2> HIDE DEF todo
    <2> QED
        BY <1>1, <1>2, <1>3 DEF JobRow
<1>6. /\ importer'.list = importer.list /\ importer'.todo = todo /\ importer'.log = importer.log
      /\ importer'.step = "write" /\ importer'.rates = importer.rates
    BY <1>1, <1>2 DEF JobRow
<1>7. Jobs'
    BY <1>1, <1>2, <1>4, <1>5, <1>6, ListsOfJobs DEF ImportInv, Jobs, Filling
<1>8. ImportCarries'
    <2>1. HeldUpTo(current[Home], prices, n + 1, Home, "csv_import")
        <3>1. prices[n + 1].sku = Null
            BY <1>1, <1>3
        <3> HIDE DEF prices, n
        <3> QED
            BY <1>3, <3>1, HeldGrows
    <2> HIDE DEF n, todo
    <2> QED
        BY <1>1, <1>3, <1>6, <2>1 DEF ImportCarries
<1>9. GenerateCarries'
    BY <1>1, GeneratorRests
<1>10. Logs'
    BY <1>1, <1>6 DEF ImportInv, Logs
<1>11. Floors' /\ Truthful' /\ Told' /\ VatRuns'
    BY <1>1, <1>4, <1>6, RowsRest
<1> QED
    BY <1>4, <1>7, <1>8, <1>9, <1>10, <1>11 DEF ImportInv

\* What a log says is added to the history of its country, and the log is emptied:
\* the entries there are, stored or not, stay the same.
LEMMA HistoryIsStored ==
    ASSUME ImportInv, NEW country \in Both, NEW log \in SUBSET LogRow, log \subseteq LogOf(country),
           history' = Import!Recorded(country, log), current' = current,
           LogOf(country)' \subseteq LogOf(country), LogOf(country) \subseteq LogOf(country)' \cup log,
           \A other \in Both : other # country => LogOf(other)' = LogOf(other)
    PROVE  /\ history' \in [Both -> [Sku -> SUBSET Import!HistoryRow]]
           /\ \A c \in Both, s \in Sku : Kept(c, s)
<1> DEFINE told(s) == {one.entry : one \in {other \in log : other.sku = s}}
           after == [s \in Sku |-> history[country][s] \cup told(s)]
<1>1. history \in [Both -> [Sku -> SUBSET Import!HistoryRow]]
    BY DEF ImportInv, Tables
<1>2. history' = [history EXCEPT ![country] = after]
    BY <1>1 DEF Import!Recorded
<1>3. \A s \in Sku : told(s) \subseteq Import!HistoryRow /\ told(s) \subseteq Pending(country, s)
    <2>1. \A one \in log : one.entry \in Import!HistoryRow
        BY DEF LogRow
    <2> QED
        BY <2>1 DEF Pending
<1>4. after \in [Sku -> SUBSET Import!HistoryRow] /\ \A s \in Sku : after[s] = history[country][s] \cup told(s)
    <2> HIDE DEF told
    <2> QED
        BY <1>1, <1>3
<1> HIDE DEF after
<1>5. /\ history' \in [Both -> [Sku -> SUBSET Import!HistoryRow]]
      /\ history'[country] = after
      /\ \A c \in Both : c # country => history'[c] = history[c]
    BY <1>1, <1>2, <1>4
<1>6. \A s \in Sku : Entries(country, s)' = Entries(country, s)
    <2> TAKE s \in Sku
    <2>1. Pending(country, s)' \subseteq Pending(country, s) /\ Pending(country, s) \subseteq Pending(country, s)' \cup told(s)
        BY DEF Pending
    <2>2. history'[country][s] = history[country][s] \cup told(s) /\ told(s) \subseteq Pending(country, s)
        BY <1>3, <1>4, <1>5
    <2> HIDE DEF told
    <2> QED
        BY <2>1, <2>2 DEF Entries
<1>7. \A c \in Both, s \in Sku : c # country => Entries(c, s)' = Entries(c, s)
    BY <1>5 DEF Entries, Pending
<1> QED
    BY <1>5, <1>6, <1>7 DEF Kept

LEMMA ImportHistoryCarries ==
    ASSUME ImportInv, Import!ImportHistory, UNCHANGED <<scenario, fromNetToGross>>
    PROVE  ImportInv'
<1>1. /\ importer.step = "write" /\ importer.todo = <<>>
      /\ history' = Import!Recorded(Home, importer.log)
      /\ importer' = [importer EXCEPT !.step = "row", !.log = {}]
      /\ UNCHANGED <<taxClass, rate, imported, current, generator, vat>>
    BY DEF Import!ImportHistory
<1>2. importer \in JobRow /\ importer.rates \in RatesRead /\ importer.log \in SUBSET LogRow
    BY <1>1, JobTypes DEF ImportInv, Jobs
<1>3. /\ importer'.list = importer.list /\ importer'.todo = importer.todo /\ importer'.log = {}
      /\ importer'.step = "row" /\ importer'.rates = importer.rates
    BY <1>1, <1>2 DEF JobRow
<1>4. /\ Home \in Both /\ importer.log \subseteq LogOf(Home)
      /\ LogOf(Home)' \subseteq LogOf(Home) /\ LogOf(Home) \subseteq LogOf(Home)' \cup importer.log
      /\ \A other \in Both : other # Home => LogOf(other)' = LogOf(other)
    BY <1>1, <1>3, ImportConstants DEF LogOf, Both
<1>5. /\ history' \in [Both -> [Sku -> SUBSET Import!HistoryRow]]
      /\ \A c \in Both, s \in Sku : Kept(c, s)
    BY <1>1, <1>2, <1>4, HistoryIsStored
<1>6. Tables' /\ SameLists
    BY <1>1, <1>5 DEF ImportInv, Tables, SameLists
<1>7. importer' \in JobRow
    BY <1>1, <1>2 DEF JobRow, Steps
<1>8. Jobs'
    BY <1>1, <1>2, <1>3, <1>6, <1>7, ListsOfJobs DEF ImportInv, Jobs, Filling
<1>9. Floors'
    BY <1>1 DEF ImportInv, Floors
<1>10. ImportCarries'
    <2>1. ImportCarries
        BY DEF ImportInv
    <2> QED
        BY <1>1, <1>3, <2>1 DEF ImportCarries
<1>11. GenerateCarries'
    BY <1>1, GeneratorRests
<1>12. Logs'
    BY <1>1, <1>3 DEF ImportInv, Logs
<1>13. Truthful' /\ Told' /\ VatRuns'
    BY <1>1, <1>5, <1>6, HistoryFollows, VatStays DEF ImportInv
<1> QED
    BY <1>6, <1>8, <1>9, <1>10, <1>11, <1>12, <1>13 DEF ImportInv

-----------------------------------------------------------------------------
(* PriceListImport: the generator *)

LEMMA GenerateFinishCarries ==
    ASSUME ImportInv, Import!GenerateFinish, UNCHANGED <<scenario, fromNetToGross>>
    PROVE  ImportInv'
<1>1. /\ generator.step = "price" /\ generator' = [generator EXCEPT !.step = "done"]
      /\ imported' = [imported EXCEPT ![generator.list].status = "ready"]
      /\ UNCHANGED <<taxClass, rate, current, history, importer, vat>>
    BY DEF Import!GenerateFinish
<1>2. generator \in JobRow /\ generator.list \in DOMAIN imported
    BY <1>1, JobTypes, ListsOfJobs DEF ImportInv
<1>3. scenario = "edited" => generator.log = {}
    BY <1>1 DEF ImportInv, Logs
<1>4. Tables' /\ SameLists
    BY <1>1, <1>2, StatusSaved DEF ImportInv, Tables
<1>5. generator' \in JobRow
    BY <1>1, <1>2 DEF JobRow, Steps
<1>6. /\ generator'.list = generator.list /\ generator'.todo = generator.todo /\ generator'.log = generator.log
      /\ generator'.step = "done"
    BY <1>1, <1>2 DEF JobRow
<1> QED
    BY <1>1, <1>3, <1>4, <1>5, <1>6, GeneratorMoves

LEMMA GenerateFailCarries ==
    ASSUME ImportInv, Import!GenerateFail, UNCHANGED <<scenario, fromNetToGross>>
    PROVE  ImportInv'
<1>1. /\ generator.step = "price" /\ generator' = [generator EXCEPT !.step = "failed"]
      /\ UNCHANGED <<taxClass, rate, imported, current, history, importer, vat>>
    BY DEF Import!GenerateFail
<1>2. generator \in JobRow /\ (scenario = "edited" => generator.log = {})
    BY <1>1, JobTypes DEF ImportInv, Logs
<1>3. Tables' /\ SameLists
    BY <1>1 DEF ImportInv, Tables, SameLists
<1>4. generator' \in JobRow
    BY <1>1, <1>2 DEF JobRow, Steps
<1>5. /\ generator'.list = generator.list /\ generator'.todo = generator.todo /\ generator'.log = generator.log
      /\ generator'.step = "failed"
    BY <1>1, <1>2 DEF JobRow
<1> QED
    BY <1>1, <1>2, <1>3, <1>4, <1>5, GeneratorMoves

LEMMA GenerateDiesCarries ==
    ASSUME ImportInv, Import!GenerateDies, UNCHANGED <<scenario, fromNetToGross>>, scenario # "edited"
    PROVE  ImportInv'
<1>1. /\ generator.step \notin {"idle", "failed"} /\ generator' = [generator EXCEPT !.step = "failed"]
      /\ UNCHANGED <<taxClass, rate, imported, current, history, importer, vat>>
    BY DEF Import!GenerateDies, Import!Ended
<1>2. generator \in JobRow
    BY JobTypes DEF ImportInv
<1>3. Tables' /\ SameLists
    BY <1>1 DEF ImportInv, Tables, SameLists
<1>4. generator' \in JobRow
    BY <1>1, <1>2 DEF JobRow, Steps
<1>5. /\ generator'.list = generator.list /\ generator'.todo = generator.todo /\ generator'.log = generator.log
      /\ generator'.step = "failed"
    BY <1>1, <1>2 DEF JobRow
<1> QED
    BY <1>1, <1>3, <1>4, <1>5, GeneratorMoves

LEMMA GenerateStartCarries ==
    ASSUME ImportInv, Import!GenerateStart, UNCHANGED <<scenario, fromNetToGross>>
    PROVE  ImportInv'
<1> DEFINE fresh == [country |-> Abroad, status |-> "in_progress", prices |-> <<>>]
           sources == {i \in DOMAIN imported : imported[i].country = Home}
           source == CHOOSE i \in sources : \A k \in sources : k <= i
           todo == imported[source].prices
<1>1. fresh \in Import!PriceList /\ imported \in Seq(Import!PriceList)
    BY ImportConstants DEF Import!PriceList, Both, ImportInv, Tables
<1>2. /\ imported' = Append(imported, fresh) /\ sources # {} /\ generator.step \in Import!Ended
      /\ UNCHANGED <<taxClass, rate, current, history, importer, vat>>
    BY DEF Import!GenerateStart
<1>3. generator' = [step |-> "price", file |-> <<>>, line |-> 1, list |-> Len(imported) + 1, rates |-> <<>>,
                    status |-> "in_progress", batch |-> <<>>, todo |-> todo, labels |-> Import!Labels(Abroad),
                    log |-> {}]
    BY DEF Import!GenerateStart, Import!Idle
<1>4. todo \in Seq(Import!Price)
    <2>1. sources \in SUBSET (1 .. Len(imported)) /\ Len(imported) \in Nat
        BY <1>1
    <2>2. source \in sources
        <3> HIDE DEF sources
        <3> QED
            BY <1>2, <2>1, GreatestOf
    <2> QED
        BY <2>2, ListsOfJobs DEF ImportInv
<1> HIDE DEF todo, sources
<1>5. Tables'
    BY <1>1, <1>2 DEF ImportInv, Tables
<1>6. /\ \A l \in DOMAIN imported : l \in DOMAIN imported' /\ imported'[l] = imported[l]
      /\ Len(imported) + 1 \in DOMAIN imported' /\ imported'[Len(imported) + 1] = fresh
      /\ Len(imported) + 1 \in Nat
    <2> HIDE DEF fresh
    <2> QED
        BY <1>1, <1>2
<1>7. generator' \in JobRow
    <2>1. Import!Labels(Abroad) \in [Sku -> Import!PriceSource \cup {Null}]
        BY LabelsAreSources DEF ImportInv, Both
    <2> QED
        BY <1>3, <1>4, <1>6, <2>1 DEF JobRow, Steps
<1>8. Jobs'
    BY <1>2, <1>3, <1>6, <1>7, ListsOfJobs DEF ImportInv, Jobs, Filling
<1>9. GenerateCarries'
    BY <1>3, <1>6 DEF GenerateCarries, HeldUpTo
<1>10. ImportCarries'
    BY <1>2, <1>6, ListsOfJobs, ImporterRests DEF ImportInv
<1>11. scenario = "edited" => generator.log = {}
    BY <1>2 DEF Import!Ended, ImportInv, Logs
<1>12. Logs'
    BY <1>2, <1>3 DEF ImportInv, Logs
<1>13. Floors' /\ Truthful' /\ Told' /\ VatRuns'
    BY <1>2, <1>3, <1>5, <1>11, RowsRest
<1> QED
    BY <1>5, <1>8, <1>9, <1>10, <1>12, <1>13 DEF ImportInv

LEMMA RatesAbroad ==
    ASSUME Tables, NEW price \in Import!Price
    PROVE  Import!TargetRates(price) \subseteq Rate
<1> DEFINE named == IF price.attrs = {} THEN {price.sku} ELSE price.attrs
<1>1. \A x \in named : x \in Sku \cup Attr
    BY DEF Import!Price
<1>2. \A x \in named : taxClass[x] \in TaxClass \cup {Null}
    BY <1>1 DEF Tables
<1>3. \A c \in TaxClass : rate[Abroad][c] \in Rate \cup {Null}
    BY DEF Tables, Both, RatesRead
<1>4. Import!TargetRates(price) = {rate[Abroad][c] : c \in {taxClass[x] : x \in named} \ {Null}} \ {Null}
    BY DEF Import!TargetRates
<1> HIDE DEF named
<1> QED
    BY <1>2, <1>3, <1>4

LEMMA GeneratePriceCarries ==
    ASSUME ImportInv, Import!GeneratePrice, UNCHANGED <<scenario, fromNetToGross>>
    PROVE  ImportInv'
<1> DEFINE l == generator.list
           price == Head(generator.todo)
           prices == imported[l].prices
<1>1. /\ generator.step = "price" /\ generator.todo # <<>>
      /\ UNCHANGED <<taxClass, rate, current, history, importer, vat>>
    BY DEF Import!GeneratePrice
<1>2. PICK r \in Import!TargetRates(price) :
          /\ imported' = [imported EXCEPT ![l].prices = Append(@, Import!Converted(price, r))]
          /\ generator' = IF price.sku = Null THEN [generator EXCEPT !.todo = Tail(@)]
                          ELSE [generator EXCEPT !.step = "write", !.todo[1] = Import!Converted(price, r)]
    BY DEF Import!GeneratePrice
<1> DEFINE next == Import!Converted(price, r)
           new == Append(prices, next)
           todo == IF price.sku = Null THEN Tail(generator.todo) ELSE [generator.todo EXCEPT ![1] = next]
           step == IF price.sku = Null THEN "price" ELSE "write"
<1>3. /\ generator \in JobRow /\ generator.todo \in Seq(Import!Price) /\ price \in Import!Price
      /\ l \in DOMAIN imported /\ imported[l] \in Import!PriceList /\ prices \in Seq(Import!Price)
      /\ imported[l].country = Abroad
    <2>1. generator.todo \in Seq(Import!Price)
        BY JobTypes DEF ImportInv
    <2>2. price \in Import!Price
        BY <1>1, <2>1
    <2> QED
        BY <1>1, <2>1, <2>2, JobTypes, ListsOfJobs DEF ImportInv
<1>4. next \in Import!Price /\ next.sku = price.sku
    <2>1. r \in Rate
        BY <1>3, RatesAbroad DEF ImportInv
    <2> QED
        BY <1>3, <2>1, ConvertedPrices
<1> HIDE DEF next
<1>5. /\ todo \in Seq(Import!Price)
      /\ price.sku # Null => todo # <<>> /\ Head(todo) = next
    BY <1>1, <1>3, <1>4
<1>6. /\ new \in Seq(Import!Price) /\ Len(new) = Len(prices) + 1 /\ new[Len(new)] = next /\ new # <<>>
      /\ \A k \in 1 .. Len(prices) : new[k] = prices[k]
      /\ Len(prices) \in Nat
    <2> HIDE DEF prices
    <2> QED
        BY <1>3, <1>4
<1>7. generator' = [generator EXCEPT !.step = step, !.todo = todo]
    BY <1>1, <1>2, <1>3 DEF next, JobRow
<1>8. HeldUpTo(current[Abroad], prices, Len(prices), Abroad, "generation")
    BY <1>1 DEF ImportInv, GenerateCarries
<1>9. imported' = [imported EXCEPT ![l].prices = new]
    BY <1>2 DEF next
<1> HIDE DEF new, todo
<1>10. /\ DOMAIN imported' = DOMAIN imported /\ imported' \in Seq(Import!PriceList)
       /\ imported'[l].prices = new
       /\ \A k \in DOMAIN imported : imported'[k].country = imported[k].country
       /\ \A k \in DOMAIN imported : k # l => imported'[k] = imported[k]
    <2>1. imported \in Seq(Import!PriceList)
        BY DEF ImportInv, Tables
    <2>2. [imported[l] EXCEPT !.prices = new] \in Import!PriceList
        BY <1>3, <1>6 DEF Import!PriceList
    <2>3. imported' = [imported EXCEPT ![l] = [imported[l] EXCEPT !.prices = new]]
        BY <1>9
    <2>4. imported' \in Seq(Import!PriceList)
        BY <1>3, <2>1, <2>2, <2>3
    <2> QED
        BY <1>3, <2>1, <2>3, <2>4 DEF Import!PriceList
<1>11. Tables'
    BY <1>1, <1>10 DEF ImportInv, Tables
<1>12. generator' \in JobRow
    BY <1>3, <1>5, <1>7 DEF JobRow, Steps
<1>13. /\ generator'.list = l /\ generator'.todo = todo /\ generator'.log = generator.log
       /\ generator'.step = step
    BY <1>3, <1>7 DEF JobRow
<1>14. Jobs'
    BY <1>1, <1>3, <1>10, <1>12, <1>13, ListsOfJobs DEF ImportInv, Jobs, Filling
<1>15. GenerateCarries'
    <2>1. HeldUpTo(current[Abroad], new, Len(prices), Abroad, "generation")
        BY <1>6, <1>8, HeldPrefix
    <2>2. CASE price.sku = Null
        <3>1. new[Len(prices) + 1].sku = Null
            BY <1>4, <1>6, <2>2
        <3>2. Len(prices) + 1 <= Len(new)
            BY <1>6
        <3>3. HeldUpTo(current[Abroad], new, Len(prices) + 1, Abroad, "generation")
            BY <1>6, <2>1, <3>1, <3>2, HeldGrows
        <3> QED
            BY <1>1, <1>6, <1>10, <1>13, <2>2, <3>3 DEF GenerateCarries
    <2>3. CASE price.sku # Null
        <3>1. Len(new) - 1 = Len(prices)
            BY <1>6
        <3> QED
            BY <1>1, <1>4, <1>5, <1>6, <1>10, <1>13, <2>1, <2>3, <3>1 DEF GenerateCarries
    <2> QED
        BY <2>2, <2>3
<1>16. ImportCarries'
    <2>1. importer.step # "idle" => importer.list \in DOMAIN imported /\ importer.list # l
        BY <1>1, ListsOfJobs DEF ImportInv
    <2> QED
        BY <1>1, <1>10, <2>1, ImporterRests
<1>17. Logs'
    BY <1>1, <1>13 DEF ImportInv, Logs
<1>18. Floors' /\ Truthful' /\ Told' /\ VatRuns'
    BY <1>1, <1>11, <1>13, RowsRest
<1> QED
    BY <1>11, <1>14, <1>15, <1>16, <1>17, <1>18 DEF ImportInv

LEMMA GenerateWriteCarries ==
    ASSUME ImportInv, Import!GenerateWrite, UNCHANGED <<scenario, fromNetToGross>>
    PROVE  ImportInv'
<1> DEFINE price == Head(generator.todo)
           sku == price.sku
           stored == Import!Stored(Abroad, price, "generation", generator.labels[sku])
           row == Import!Written(Abroad, sku, stored)
           entry == Import!Entry(Abroad, sku, stored)
           one == [sku |-> sku, entry |-> entry]
           prices == imported[generator.list].prices
           n == Len(prices) - 1
<1>1. /\ generator.step = "write"
      /\ current' = [current EXCEPT ![Abroad][sku] = row]
      /\ generator' = [generator EXCEPT !.step = "log", !.log = {one}]
      /\ UNCHANGED <<taxClass, rate, imported, history, importer, vat>>
    BY DEF Import!GenerateWrite
<1>2. /\ generator.todo # <<>> /\ prices # <<>> /\ price = prices[Len(prices)] /\ sku # Null
      /\ HeldUpTo(current[Abroad], prices, n, Abroad, "generation")
    BY <1>1 DEF ImportInv, GenerateCarries
<1>3. generator \in JobRow /\ generator.todo \in Seq(Import!Price) /\ prices \in Seq(Import!Price)
    BY <1>1, JobTypes, ListsOfJobs DEF ImportInv
<1>4. price \in Import!Price /\ n \in Nat /\ n + 1 = Len(prices)
    <2> HIDE DEF prices
    <2> QED
        BY <1>2, <1>3
<1>5. sku \in Sku
    BY <1>2, <1>4 DEF Import!Price
<1>6. /\ row \in Import!Row /\ row # Null /\ row.by = "generation" /\ row.rate = price.rate
      /\ row.values = Import!Stored(Abroad, price, "generation", Null).values
      /\ Floored(sku, row.values)
      /\ row.at = NextAt(Abroad, sku)
      /\ entry \in Import!HistoryRow /\ entry.at = row.at /\ entry.values = row.values
    <2>1. "generation" \in Writers /\ Abroad \in Both
        BY DEF Writers, Both
    <2> QED
        BY <1>4, <1>5, <2>1, OwnRowIsWritten
<1> HIDE DEF stored, row, entry
<1>7. Abroad \in Both /\ current \in [Both -> [Sku -> Import!Row \cup {Null}]]
    BY DEF ImportInv, Tables, Both
<1>8. /\ current' \in [Both -> [Sku -> Import!Row \cup {Null}]]
      /\ current'[Abroad][sku] = row
      /\ \A s \in Sku : s # sku => current'[Abroad][s] = current[Abroad][s]
      /\ current'[Home] = current[Home]
    BY <1>1, <1>5, <1>6, <1>7, ImportConstants
<1>9. Tables' /\ SameLists
    BY <1>1, <1>8 DEF ImportInv, Tables, SameLists
<1>10. one \in LogRow
    BY <1>5, <1>6 DEF LogRow
<1>11. generator' \in JobRow
    <2> HIDE DEF one
    <2> QED
        BY <1>1, <1>3, <1>10 DEF JobRow, Steps
<1>12. /\ generator'.list = generator.list /\ generator'.todo = generator.todo /\ generator'.log = {one}
       /\ generator'.step = "log"
    BY <1>1, <1>3 DEF JobRow
<1>13. Jobs'
    BY <1>1, <1>9, <1>11, <1>12, ListsOfJobs DEF ImportInv, Jobs, Filling
<1>14. Floors'
    BY <1>1, <1>6, <1>8 DEF ImportInv, Floors, Both
<1>15. GenerateCarries'
    <2>1. Held(current'[Abroad], prices[n + 1], Abroad, "generation")
        BY <1>2, <1>4, <1>6, <1>8 DEF Held
    <2>2. \A s \in Sku : s # prices[n + 1].sku => current'[Abroad][s] = current[Abroad][s]
        BY <1>2, <1>4, <1>8
    <2>3. HeldUpTo(current'[Abroad], prices, n + 1, Abroad, "generation")
        <3>1. n + 1 <= Len(prices)
            BY <1>3, <1>4
        <3> HIDE DEF prices, n
        <3> QED
            BY <1>2, <1>3, <1>4, <2>1, <2>2, <3>1, HeldGrows
    <2> HIDE DEF n, one
    <2> QED
        BY <1>1, <1>2, <1>4, <1>10, <1>12, <2>3 DEF GenerateCarries
<1>16. ImportCarries'
    BY <1>1, <1>8, ImporterRests
<1>17. Logs'
    BY <1>1, <1>12 DEF ImportInv, Logs
<1>18. \A c \in Both, s \in Sku : Kept(c, s) \/ Anew(c, s)
    <2>1. /\ one \in LogOf(Abroad)' /\ LogOf(Abroad)' \subseteq LogOf(Abroad) \cup {one}
          /\ \A other \in Both : other # Abroad => LogOf(other)' = LogOf(other)
        <3> HIDE DEF one
        <3> QED
            BY <1>1, <1>12, ImportConstants DEF LogOf, Both
    <2>2. scenario = "edited" => LogOf(Abroad) \subseteq LogOf(Abroad)'
        <3>1. scenario = "edited" => generator.log = {}
            BY <1>1 DEF ImportInv, Logs
        <3> HIDE DEF one
        <3> QED
            BY <1>1, <1>12, <3>1 DEF LogOf
    <2> HIDE DEF one, sku
    <2>3. one = [sku |-> sku, entry |-> entry]
        BY DEF one
    <2> QED
        BY <1>1, <1>5, <1>6, <1>7, <2>1, <2>2, <2>3, RowIsLogged
<1>19. Truthful' /\ Told'
    BY <1>9, <1>18, HistoryFollows
<1>20. VatRuns'
    <2>1. \A c \in Both, s \in Sku : current[c][s] # Null => current'[c][s] # Null
        BY <1>6, <1>8 DEF Both
    <2> QED
        BY <1>1, <2>1, VatStays DEF ImportInv
<1> QED
    BY <1>9, <1>13, <1>14, <1>15, <1>16, <1>17, <1>19, <1>20 DEF ImportInv

LEMMA GenerateLogCarries ==
    ASSUME ImportInv, Import!GenerateLog, UNCHANGED <<scenario, fromNetToGross>>
    PROVE  ImportInv'
<1> DEFINE todo == Tail(generator.todo)
<1>1. /\ generator.step = "log" /\ generator' = [generator EXCEPT !.step = "price", !.todo = todo, !.log = {}]
      /\ history' = Import!Recorded(Abroad, generator.log)
      /\ UNCHANGED <<taxClass, rate, imported, current, importer, vat>>
    BY DEF Import!GenerateLog
<1>2. /\ generator \in JobRow /\ generator.todo \in Seq(Import!Price) /\ generator.todo # <<>>
      /\ generator.log \in SUBSET LogRow
    BY <1>1, JobTypes DEF ImportInv, GenerateCarries
<1>3. todo \in Seq(Import!Price)
    BY <1>2
<1> HIDE DEF todo
<1>4. /\ generator'.list = generator.list /\ generator'.todo = todo /\ generator'.log = {}
      /\ generator'.step = "price"
    BY <1>1, <1>2 DEF JobRow
<1>5. /\ Abroad \in Both /\ generator.log \subseteq LogOf(Abroad)
      /\ LogOf(Abroad)' \subseteq LogOf(Abroad) /\ LogOf(Abroad) \subseteq LogOf(Abroad)' \cup generator.log
      /\ \A other \in Both : other # Abroad => LogOf(other)' = LogOf(other)
    BY <1>1, <1>4, ImportConstants DEF LogOf, Both
<1>6. /\ history' \in [Both -> [Sku -> SUBSET Import!HistoryRow]]
      /\ \A c \in Both, s \in Sku : Kept(c, s)
    BY <1>1, <1>2, <1>5, HistoryIsStored
<1>7. Tables' /\ SameLists
    BY <1>1, <1>6 DEF ImportInv, Tables, SameLists
<1>8. generator' \in JobRow
    BY <1>1, <1>2, <1>3 DEF JobRow, Steps
<1>9. Jobs'
    BY <1>1, <1>4, <1>7, <1>8, ListsOfJobs DEF ImportInv, Jobs, Filling
<1>10. Floors'
    BY <1>1 DEF ImportInv, Floors
<1>11. GenerateCarries'
    <2>1. GenerateCarries
        BY DEF ImportInv
    <2> QED
        BY <1>1, <1>4, <2>1 DEF GenerateCarries
<1>12. ImportCarries'
    BY <1>1, ImporterRests
<1>13. Logs'
    BY <1>1, <1>4 DEF ImportInv, Logs
<1>14. Truthful' /\ Told' /\ VatRuns'
    BY <1>1, <1>6, <1>7, HistoryFollows, VatStays DEF ImportInv
<1> QED
    BY <1>7, <1>9, <1>10, <1>11, <1>12, <1>13, <1>14 DEF ImportInv

-----------------------------------------------------------------------------
(* PriceListImport: the others *)

\* A row is written together with its history.
LEMMA RowAndHistory ==
    ASSUME ImportInv, NEW country \in Both, NEW sku \in Sku, NEW row, NEW entry \in Import!HistoryRow,
           row # Null, entry.at = row.at, entry.values = row.values, row.at = NextAt(country, sku),
           current' = [current EXCEPT ![country][sku] = row],
           history' = Import!Recorded(country, {[sku |-> sku, entry |-> entry]}),
           \A c \in Both : LogOf(c)' = LogOf(c)
    PROVE  /\ history' \in [Both -> [Sku -> SUBSET Import!HistoryRow]]
           /\ \A c \in Both, s \in Sku : Kept(c, s) \/ Anew(c, s)
<1> DEFINE added == [sku |-> sku, entry |-> entry]
           told(s) == {one.entry : one \in {other \in {added} : other.sku = s}}
           after == [s \in Sku |-> history[country][s] \cup told(s)]
<1>1. /\ history \in [Both -> [Sku -> SUBSET Import!HistoryRow]]
      /\ current \in [Both -> [Sku -> Import!Row \cup {Null}]]
    BY DEF ImportInv, Tables
<1>2. history' = [history EXCEPT ![country] = after]
    BY <1>1 DEF Import!Recorded
<1>3. told(sku) = {entry} /\ \A s \in Sku : s # sku => told(s) = {}
    <2>1. added.sku = sku /\ added.entry = entry
        OBVIOUS
    <2> HIDE DEF added
    <2>2. {other \in {added} : other.sku = sku} = {added} /\ \A s \in Sku : s # sku => {other \in {added} : other.sku = s} = {}
        BY <2>1
    <2> QED
        BY <2>1, <2>2
<1>4. /\ after \in [Sku -> SUBSET Import!HistoryRow] /\ after[sku] = history[country][sku] \cup {entry}
      /\ \A s \in Sku : s # sku => after[s] = history[country][s]
    <2>1. \A s \in Sku : told(s) \subseteq Import!HistoryRow
        BY <1>3
    <2> HIDE DEF told
    <2> QED
        BY <1>1, <1>3, <2>1
<1> HIDE DEF added, told, after
<1>5. /\ history' \in [Both -> [Sku -> SUBSET Import!HistoryRow]]
      /\ history'[country] = after
      /\ \A c \in Both : c # country => history'[c] = history[c]
    BY <1>1, <1>2, <1>4
<1>6. /\ current'[country][sku] = row
      /\ \A c \in Both, s \in Sku : c # country \/ s # sku => current'[c][s] = current[c][s]
    BY <1>1
<1>7. \A c \in Both, s \in Sku : Pending(c, s)' = Pending(c, s)
    BY DEF Pending
<1>8. Anew(country, sku)
    <2>1. Entries(country, sku)' = Entries(country, sku) \cup {entry}
        BY <1>4, <1>5, <1>7 DEF Entries
    <2> QED
        BY <1>6, <2>1 DEF Anew
<1>9. ASSUME NEW c \in Both, NEW s \in Sku, c # country \/ s # sku
      PROVE  Kept(c, s)
    <2>1. history'[c][s] = history[c][s]
        BY <1>4, <1>5, <1>9
    <2>2. Entries(c, s)' = Entries(c, s)
        BY <1>7, <2>1 DEF Entries
    <2> QED
        BY <1>6, <1>9, <2>2 DEF Kept
<1> QED
    BY <1>5, <1>8, <1>9

LEMMA AdminEditCarries ==
    ASSUME ImportInv, NEW country \in Both, NEW sku \in Sku, NEW value \in EditTo,
           Import!AdminEdit(country, sku, value), UNCHANGED <<scenario, fromNetToGross>>
    PROVE  ImportInv'
<1> DEFINE r == rate[country][taxClass[sku]]
           pair == Import!PricePair(value, r, fromNetToGross)
           values == [kind \in Import!Kind |-> IF kind = "regular" THEN pair ELSE Import!NoPair]
           price == [sku |-> sku, attrs |-> {}, rate |-> r, values |-> values]
           label == Import!LabelOf(country, sku)
           stored == Import!Stored(country, price, "admin_edit", label)
           row == Import!Written(country, sku, stored)
           entry == Import!Entry(country, sku, stored)
<1>1. /\ taxClass[sku] # Null /\ r # Null /\ (MapOf[sku] # Null => pair.gross >= MapOf[sku])
      /\ current' = [current EXCEPT ![country][sku] = row]
      /\ history' = Import!Recorded(country, {[sku |-> sku, entry |-> entry]})
      /\ UNCHANGED <<taxClass, rate, imported, importer, generator, vat>>
    BY DEF Import!AdminEdit
<1>2. r \in Rate /\ value \in Nat
    BY <1>1, ImportAssumption DEF ImportInv, Tables, RatesRead
<1> HIDE DEF r
<1>3. pair \in Import!Pair /\ Import!NoPair \in Import!Pair /\ Import!NoPair.gross = Null
    <2>1. Import!GrossPrice(value, r) \in Nat /\ Import!NetPrice(value, r) \in Nat
        BY <1>2, ImportedConversions
    <2> QED
        BY <1>2, <2>1 DEF Import!PricePair, Import!Pair, Import!Amount, Import!NoPair
<1>4. values \in [Import!Kind -> Import!Pair] /\ Floored(sku, values)
    <2> HIDE DEF pair
    <2> QED
        BY <1>1, <1>3 DEF Floored
<1> HIDE DEF pair, values
<1>5. price \in Import!Price /\ price.sku = sku /\ price.values = values
    BY <1>2, <1>4, ImportConstants DEF Import!Price
<1> HIDE DEF price, label
<1>6. /\ row \in Import!Row /\ row # Null /\ row.by = "admin_edit" /\ Floored(sku, row.values)
      /\ row.at = NextAt(country, sku)
      /\ entry \in Import!HistoryRow /\ entry.at = row.at /\ entry.values = row.values
    <2>1. "admin_edit" \in Writers
        BY DEF Writers
    <2>2. Floored(price.sku, price.values)
        BY <1>4, <1>5
    <2>3. /\ row = Import!Written(country, price.sku, Import!Stored(country, price, "admin_edit", label))
          /\ entry = Import!Entry(country, price.sku, Import!Stored(country, price, "admin_edit", label))
        BY <1>5
    <2> HIDE DEF row, entry
    <2>4. /\ row \in Import!Row /\ row # Null /\ row.by = "admin_edit" /\ Floored(price.sku, row.values)
          /\ row.at = NextAt(country, price.sku)
          /\ entry \in Import!HistoryRow /\ entry.at = row.at /\ entry.values = row.values
        BY <1>5, <2>1, <2>2, <2>3, OwnRowIsWritten
    <2> QED
        BY <1>5, <2>4
<1> HIDE DEF stored, row, entry
<1>7. current \in [Both -> [Sku -> Import!Row \cup {Null}]]
    BY DEF ImportInv, Tables
<1>8. /\ current' \in [Both -> [Sku -> Import!Row \cup {Null}]]
      /\ current'[country][sku] = row
      /\ \A c \in Both, s \in Sku : c # country \/ s # sku => current'[c][s] = current[c][s]
    BY <1>1, <1>6, <1>7
<1>9. \A c \in Both : LogOf(c)' = LogOf(c)
    BY <1>1 DEF LogOf
<1>10. /\ history' \in [Both -> [Sku -> SUBSET Import!HistoryRow]]
       /\ \A c \in Both, s \in Sku : Kept(c, s) \/ Anew(c, s)
    BY <1>1, <1>6, <1>9, RowAndHistory
<1>11. Tables' /\ SameLists
    BY <1>1, <1>8, <1>10 DEF ImportInv, Tables, SameLists
<1>12. Jobs'
    BY <1>1 DEF ImportInv, Jobs, Filling
<1>13. Floors'
    BY <1>6, <1>8 DEF ImportInv, Floors
<1>14. ImportCarries' /\ GenerateCarries'
    <2>1. \A c \in Both, s \in Sku : \/ current'[c][s] = current[c][s]
                                     \/ current'[c][s] # Null /\ current'[c][s].by = "admin_edit"
        BY <1>6, <1>8
    <2>2. Home \in Both /\ Abroad \in Both
        BY DEF Both
    <2> QED
        BY <1>1, <2>1, <2>2, ImporterRests, GeneratorRests
<1>15. Logs'
    BY <1>1 DEF ImportInv, Logs
<1>16. Truthful' /\ Told'
    BY <1>10, <1>11, HistoryFollows
<1>17. VatRuns'
    <2>1. \A c \in Both, s \in Sku : current[c][s] # Null => current'[c][s] # Null
        BY <1>6, <1>8
    <2> QED
        BY <1>1, <2>1, VatStays DEF ImportInv
<1> QED
    BY <1>11, <1>12, <1>13, <1>14, <1>15, <1>16, <1>17 DEF ImportInv

LEMMA ChangeRateCarries ==
    ASSUME ImportInv, NEW country \in Both, NEW class \in TaxClass, NEW r \in Rate,
           Import!ChangeRate(country, class, r), UNCHANGED <<scenario, fromNetToGross>>
    PROVE  ImportInv'
<1>1. /\ vat.step = "idle" /\ rate' = [rate EXCEPT ![country][class] = r]
      /\ vat' = [Import!NoVat EXCEPT !.step = "queued", !.country = country, !.class = class]
      /\ UNCHANGED <<taxClass, imported, current, history, importer, generator>>
    BY DEF Import!ChangeRate
<1>2. rate \in [Both -> RatesRead]
    BY DEF ImportInv, Tables
<1>3. rate' \in [Both -> RatesRead] /\ rate'[country][class] = r
    BY <1>1, <1>2 DEF RatesRead
<1>4. vat' = [step |-> "queued", country |-> country, class |-> class, rows |-> <<>>, log |-> {}]
    BY <1>1 DEF Import!NoVat
<1>5. vat' \in VatJob
    BY <1>4 DEF VatJob
<1>6. VatRuns'
    BY <1>3, <1>4, <1>5 DEF VatRuns
<1>7. Tables' /\ SameLists
    BY <1>1, <1>3 DEF ImportInv, Tables, SameLists
<1>8. Jobs' /\ Logs'
    BY <1>1 DEF ImportInv, Jobs, Filling, Logs
<1>9. ImportCarries' /\ GenerateCarries'
    BY <1>1, ImporterRests, GeneratorRests
<1>10. vat.log = {}
    BY <1>1 DEF ImportInv, VatRuns
<1>11. \A c \in Both : LogOf(c)' = LogOf(c)
    <2>1. vat'.log = {}
        BY <1>4
    <2> QED
        BY <1>1, <1>10, <2>1 DEF LogOf
<1>12. Floors' /\ Truthful' /\ Told'
    BY <1>1, <1>7, <1>11, LogsRest
<1> QED
    BY <1>6, <1>7, <1>8, <1>9, <1>12 DEF ImportInv

\* What the task makes of a row is a row at the new rate, at the floor at least.
LEMMA RowIsRecalculated ==
    ASSUME ImportInv, NEW country \in Both, NEW sku \in Sku, NEW r \in Rate, current[country][sku] # Null
    PROVE  LET result == Import!Recalculated(country, sku, r)
           IN  result \in Result /\ result.logged = result.values /\ Floored(sku, result.values)
<1> DEFINE old == current[country][sku]
           base(pair) == IF fromNetToGross THEN pair.net ELSE pair.gross
           as == [sku |-> sku, attrs |-> {}, rate |-> r, values |-> old.values]
           new == Import!Converted(as, r)
           values == [kind \in Import!Kind |->
                          IF kind = "special" /\ base(old.values[kind]) \in Import!Blank
                          THEN old.values[kind] ELSE new.values[kind]]
           price == [new EXCEPT !.values = values]
           result == Import!Stored(country, price, "tax_rate_change", old.source)
<1>1. old \in Import!Row
    BY DEF ImportInv, Tables
<1>2. old.values \in [Import!Kind -> Import!Pair] /\ old.source \in Import!PriceSource
    BY <1>1 DEF Import!Row
<1>3. as \in Import!Price /\ as.sku = sku
    BY <1>2, ImportConstants DEF Import!Price
<1> HIDE DEF as
<1>4. new \in Import!Price /\ new.sku = sku /\ new.rate = r
    BY <1>3, ConvertedPrices
<1>5. new.values \in [Import!Kind -> Import!Pair]
    BY <1>4 DEF Import!Price
<1>6. result = Import!Recalculated(country, sku, r)
    <2>1. values = [kind \in Import!Kind |->
                      IF kind = "special" /\ base(old.values[kind]) \in Import!Blank
                      THEN old.values[kind] ELSE new.values[kind]]
        OBVIOUS
    <2> QED
        BY <1>4 DEF Import!Recalculated, as, Import!Price
<1> HIDE DEF new
<1>7. values \in [Import!Kind -> Import!Pair]
    BY <1>2, <1>5
<1> HIDE DEF values, old
<1>8. price \in Import!Price /\ price.sku = sku /\ price.rate = r
    BY <1>4, <1>7 DEF Import!Price
<1> HIDE DEF price
<1>9. "tax_rate_change" \in Writers /\ "tax_rate_change" # "admin_edit" /\ "tax_rate_change" \in Import!PriceSource
    BY DEF Writers, Import!PriceSource
<1>10. /\ result.values \in [Import!Kind -> Import!Pair] /\ Floored(sku, result.values)
       /\ result.logged = result.values
       /\ result.source = "tax_rate_change" /\ result.by = "tax_rate_change" /\ result.rate = r
    <2> DEFINE source == old.source
               writer == "tax_rate_change"
               s == Import!Stored(country, price, writer, source)
    <2>1. /\ s.values \in [Import!Kind -> Import!Pair] /\ Floored(price.sku, s.values)
          /\ s.logged = s.values
          /\ s.source = "tax_rate_change" /\ s.by = "tax_rate_change" /\ s.rate = price.rate
        <3>1. price.sku \in Sku
            BY <1>8
        <3>2. writer \in Writers /\ writer # "admin_edit"
            BY <1>9
        <3>3. writer = "tax_rate_change"
            OBVIOUS
        <3> HIDE DEF source, writer
        <3> QED
            BY <1>8, <3>1, <3>2, <3>3, WhatIsStored
    <2> QED
        BY <1>8, <2>1
<1>11. \E v, l, s, b, q : result = [values |-> v, logged |-> l, source |-> s, by |-> b, rate |-> q]
    BY DEF Import!Stored
<1> HIDE DEF result
<1>12. result = [values |-> result.values, logged |-> result.logged, source |-> result.source,
                 by |-> result.by, rate |-> result.rate]
    BY <1>11
<1>13. result \in Result
    BY <1>9, <1>10, <1>12 DEF Result
<1> QED
    BY <1>6, <1>10, <1>13

LEMMA RecalculateReadCarries ==
    ASSUME ImportInv, Import!RecalculateRead, UNCHANGED <<scenario, fromNetToGross>>
    PROVE  ImportInv'
<1> DEFINE country == vat.country
           r == rate[country][vat.class]
           skus == {sku \in Sku : current[country][sku] # Null /\ taxClass[sku] = vat.class}
           rows == [sku \in skus |-> Import!Recalculated(country, sku, r)]
<1>1. /\ vat.step = "queued" /\ vat' = [vat EXCEPT !.step = "write", !.rows = rows]
      /\ UNCHANGED <<taxClass, rate, imported, current, history, importer, generator>>
    BY DEF Import!RecalculateRead
<1>2. vat \in VatJob /\ country \in Both /\ r \in Rate /\ vat.log = {}
    BY <1>1 DEF ImportInv, VatRuns, VatJob
<1>3. /\ DOMAIN rows = skus /\ skus \subseteq Sku
      /\ \A sku \in skus : current[country][sku] # Null /\ rows[sku] = Import!Recalculated(country, sku, r)
    OBVIOUS
<1> HIDE DEF r, rows, skus
<1>4. \A sku \in skus : rows[sku] \in Result /\ rows[sku].logged = rows[sku].values /\ Floored(sku, rows[sku].values)
    BY <1>2, <1>3, RowIsRecalculated
<1>5. rows \in [skus -> Result]
    BY <1>4 DEF rows
<1>6. vat' \in VatJob /\ vat'.step = "write" /\ vat'.rows = rows /\ vat'.country = country /\ vat'.log = {}
    <2>1. rows \in {<<>>} \cup UNION {[some -> Result] : some \in SUBSET Sku}
        BY <1>3, <1>5
    <2>2. vat' \in VatJob
        BY <1>1, <1>2, <2>1 DEF VatJob
    <2>3. vat'.step = "write" /\ vat'.rows = rows /\ vat'.country = country /\ vat'.log = {}
        BY <1>1, <1>2 DEF VatJob
    <2> QED
        BY <2>2, <2>3
<1>7. VatRuns'
    BY <1>1, <1>3, <1>4, <1>6 DEF VatRuns, VatRow
<1>8. Tables' /\ SameLists
    BY <1>1 DEF ImportInv, Tables, SameLists
<1>9. Jobs' /\ Logs'
    BY <1>1 DEF ImportInv, Jobs, Filling, Logs
<1>10. ImportCarries' /\ GenerateCarries'
    BY <1>1, ImporterRests, GeneratorRests
<1>11. \A c \in Both : LogOf(c)' = LogOf(c)
    BY <1>1, <1>2, <1>6 DEF LogOf
<1>12. Floors' /\ Truthful' /\ Told'
    BY <1>1, <1>8, <1>11, LogsRest
<1> QED
    BY <1>7, <1>8, <1>9, <1>10, <1>12 DEF ImportInv

LEMMA RecalculateWriteCarries ==
    ASSUME ImportInv, Import!RecalculateWrite, UNCHANGED <<scenario, fromNetToGross>>
    PROVE  ImportInv'
<1> DEFINE country == vat.country
           skus == DOMAIN vat.rows
           saved(sku) == [vat.rows[sku] EXCEPT !.source = current[country][sku].source]
           row(sku) == Import!Written(country, sku, saved(sku))
           entry(sku) == Import!Entry(country, sku, saved(sku))
           log == {[sku |-> sku, entry |-> entry(sku)] : sku \in skus}
<1>1. /\ vat.step = "write" /\ vat' = [vat EXCEPT !.step = "log", !.log = log]
      /\ current' = [current EXCEPT ![country] = [sku \in Sku |-> IF sku \in skus THEN row(sku) ELSE @[sku]]]
      /\ UNCHANGED <<taxClass, rate, imported, history, importer, generator>>
    BY DEF Import!RecalculateWrite
<1>2. /\ vat \in VatJob /\ country \in Both /\ vat.log = {} /\ skus \subseteq Sku
      /\ \A sku \in skus : /\ current[country][sku] # Null /\ vat.rows[sku] \in Result
                           /\ vat.rows[sku].logged = vat.rows[sku].values /\ Floored(sku, vat.rows[sku].values)
    BY <1>1 DEF ImportInv, VatRuns, VatJob, VatRow
<1>3. current \in [Both -> [Sku -> Import!Row \cup {Null}]]
    BY DEF ImportInv, Tables
<1>4. ASSUME NEW sku \in skus
      PROVE  /\ row(sku) \in Import!Row /\ row(sku) # Null /\ row(sku).by = "tax_rate_change"
             /\ Floored(sku, row(sku).values) /\ row(sku).at = NextAt(country, sku)
             /\ entry(sku) \in Import!HistoryRow /\ entry(sku).at = row(sku).at
             /\ entry(sku).values = row(sku).values
    <2>1. sku \in Sku /\ current[country][sku].source \in Import!PriceSource
        <3>1. current[country][sku] \in Import!Row
            BY <1>2, <1>3
        <3> QED
            BY <1>2, <3>1 DEF Import!Row
    <2> DEFINE result == vat.rows[sku]
    <2>2. result \in Result /\ result.logged = result.values /\ Floored(sku, result.values)
        BY <1>2
    <2> HIDE DEF result
    <2>3. saved(sku) = [result EXCEPT !.source = current[country][sku].source]
        BY DEF result
    <2>4. /\ saved(sku).values = result.values /\ saved(sku).logged = result.values
          /\ saved(sku).source = current[country][sku].source
          /\ saved(sku).by = "tax_rate_change" /\ saved(sku).rate \in Rate
          /\ saved(sku).values \in [Import!Kind -> Import!Pair]
        BY <2>2, <2>3 DEF Result
    <2>5. saved(sku).by \in Import!PriceSource
        BY <2>4 DEF Import!PriceSource
    <2> DEFINE s == saved(sku)
               w == row(sku)
               e == entry(sku)
    <2>6. w = Import!Written(country, sku, s) /\ e = Import!Entry(country, sku, s)
        OBVIOUS
    <2>7. /\ s.values \in [Import!Kind -> Import!Pair] /\ s.logged = s.values
          /\ s.source \in Import!PriceSource /\ s.by \in Import!PriceSource /\ s.rate \in Rate
        BY <2>1, <2>4, <2>5
    <2> HIDE DEF saved, row, entry, s, w, e
    <2>8. /\ w \in Import!Row /\ w # Null /\ w.by = s.by /\ w.rate = s.rate
          /\ w.values = s.values /\ w.at = NextAt(country, sku)
          /\ e \in Import!HistoryRow /\ e.at = w.at /\ e.values = w.values
        BY <1>2, <2>1, <2>6, <2>7, RowIsWritten
    <2> QED
        BY <2>2, <2>4, <2>8 DEF s, w, e
<1>5. /\ \A one \in log : one.sku \in skus /\ one.entry = entry(one.sku)
      /\ \A sku \in skus : \E one \in log : one.sku = sku /\ one.entry = entry(sku)
    <2> HIDE DEF entry
    <2> DEFINE added(sku) == [sku |-> sku, entry |-> entry(sku)]
    <2>1. \A sku \in skus : added(sku) \in log /\ added(sku).sku = sku /\ added(sku).entry = entry(sku)
        OBVIOUS
    <2>2. \A one \in log : \E sku \in skus : one = added(sku)
        OBVIOUS
    <2> HIDE DEF added, log
    <2> QED
        BY <2>1, <2>2
<1>6. log \in SUBSET LogRow
    <2> SUFFICES ASSUME NEW sku \in skus
                 PROVE  [sku |-> sku, entry |-> entry(sku)] \in LogRow
        OBVIOUS
    <2>1. sku \in Sku /\ entry(sku) \in Import!HistoryRow
        BY <1>2, <1>4
    <2> HIDE DEF entry
    <2> QED
        BY <2>1 DEF LogRow
<1> HIDE DEF row, entry, saved, log
<1>7. /\ current' \in [Both -> [Sku -> Import!Row \cup {Null}]]
      /\ \A s \in skus : current'[country][s] = row(s)
      /\ \A c \in Both, s \in Sku : c # country \/ s \notin skus => current'[c][s] = current[c][s]
    BY <1>1, <1>2, <1>3, <1>4
<1>8. vat' \in VatJob /\ vat'.step = "log" /\ vat'.country = country /\ vat'.log = log
    <2>1. vat' \in VatJob
        BY <1>1, <1>2, <1>6 DEF VatJob
    <2>2. vat'.step = "log" /\ vat'.country = country /\ vat'.log = log
        BY <1>1, <1>2 DEF VatJob
    <2> QED
        BY <2>1, <2>2
<1>9. VatRuns'
    BY <1>8 DEF VatRuns
<1>10. Tables' /\ SameLists
    BY <1>1, <1>7 DEF ImportInv, Tables, SameLists
<1>11. Jobs' /\ Logs'
    BY <1>1 DEF ImportInv, Jobs, Filling, Logs
<1>12. Floors'
    BY <1>2, <1>4, <1>7 DEF ImportInv, Floors
<1>13. ImportCarries' /\ GenerateCarries'
    <2>1. \A c \in Both, s \in Sku : \/ current'[c][s] = current[c][s]
                                     \/ current'[c][s] # Null /\ current'[c][s].by = "tax_rate_change"
        BY <1>4, <1>7
    <2>2. Home \in Both /\ Abroad \in Both
        BY DEF Both
    <2> QED
        BY <1>1, <2>1, <2>2, ImporterRests, GeneratorRests
<1>14. /\ LogOf(country)' = LogOf(country) \cup log
       /\ \A c \in Both : c # country => LogOf(c)' = LogOf(c)
    BY <1>1, <1>2, <1>8 DEF LogOf
<1>15. ASSUME NEW s \in skus
       PROVE  Anew(country, s)
    <2>1. \A e \in Pending(country, s)' : e \in Pending(country, s) \/ e = entry(s)
        BY <1>5, <1>14 DEF Pending
    <2>2. entry(s) \in Pending(country, s)' /\ Pending(country, s) \subseteq Pending(country, s)'
        BY <1>5, <1>14 DEF Pending
    <2>3. /\ entry(s) \in Entries(country, s)' /\ Entries(country, s) \subseteq Entries(country, s)'
          /\ \A e \in Entries(country, s)' : e \in Entries(country, s) \/ e = entry(s)
        BY <1>1, <2>1, <2>2 DEF Entries
    <2> QED
        BY <1>4, <1>7, <2>3 DEF Anew
<1>16. ASSUME NEW c \in Both, NEW s \in Sku, c # country \/ s \notin skus
       PROVE  Kept(c, s)
    <2>1. Pending(c, s)' = Pending(c, s)
        <3>1. CASE c # country
            BY <1>14, <3>1 DEF Pending
        <3>2. CASE c = country /\ s \notin skus
            <4>1. LogOf(c)' = LogOf(c) \cup log
                BY <1>8, <1>14, <3>2
            <4>2. {other \in LogOf(c)' : other.sku = s} = {other \in LogOf(c) : other.sku = s}
                BY <1>5, <3>2, <4>1
            <4> QED
                BY <4>2 DEF Pending
        <3> QED
            BY <1>16, <3>1, <3>2
    <2>2. Entries(c, s)' = Entries(c, s)
        BY <1>1, <2>1 DEF Entries
    <2> QED
        BY <1>7, <1>16, <2>2 DEF Kept
<1>17. \A c \in Both, s \in Sku : Kept(c, s) \/ Anew(c, s)
    BY <1>15, <1>16
<1>18. Truthful' /\ Told'
    BY <1>1, <1>10, <1>17, HistoryFollows
<1> QED
    BY <1>9, <1>10, <1>11, <1>12, <1>13, <1>18 DEF ImportInv

LEMMA NoVatIsAJob == Import!NoVat \in VatJob /\ Import!NoVat.step = "idle" /\ Import!NoVat.log = {}
    BY DEF Import!NoVat, VatJob, Both

LEMMA RecalculateLogCarries ==
    ASSUME ImportInv, Import!RecalculateLog, UNCHANGED <<scenario, fromNetToGross>>
    PROVE  ImportInv'
<1>1. /\ vat.step = "log" /\ vat' = Import!NoVat
      /\ history' = Import!Recorded(vat.country, vat.log)
      /\ UNCHANGED <<taxClass, rate, imported, current, importer, generator>>
    BY DEF Import!RecalculateLog
<1>2. vat.country \in Both /\ vat.log \in SUBSET LogRow
    BY DEF ImportInv, VatRuns, VatJob
<1>3. PICK country \in Both, log \in SUBSET LogRow : country = vat.country /\ log = vat.log
    BY <1>2
<1>4. VatRuns'
    BY <1>1, NoVatIsAJob DEF VatRuns
<1>5. /\ log \subseteq LogOf(country) /\ LogOf(country)' \subseteq LogOf(country)
      /\ LogOf(country) \subseteq LogOf(country)' \cup log
      /\ \A other \in Both : other # country => LogOf(other)' = LogOf(other)
    <2>1. \A c \in Both : LogOf(c)' = IF c = Home THEN importer.log ELSE generator.log
        <3>1. vat'.log = {}
            BY <1>1, NoVatIsAJob
        <3> QED
            BY <1>1, <3>1 DEF LogOf
    <2>2. \A c \in Both : LogOf(c) = (IF c = Home THEN importer.log ELSE generator.log)
                                   \cup (IF c = country THEN log ELSE {})
        BY <1>3 DEF LogOf
    <2> QED
        BY <1>3, <2>1, <2>2
<1>6. history' = Import!Recorded(country, log)
    BY <1>3, <1>1
<1>7. /\ history' \in [Both -> [Sku -> SUBSET Import!HistoryRow]]
      /\ \A c \in Both, s \in Sku : Kept(c, s)
    BY <1>1, <1>5, <1>6, HistoryIsStored
<1>8. Tables' /\ SameLists
    BY <1>1, <1>7 DEF ImportInv, Tables, SameLists
<1>9. Jobs' /\ Logs'
    BY <1>1 DEF ImportInv, Jobs, Filling, Logs
<1>10. Floors'
    BY <1>1 DEF ImportInv, Floors
<1>11. ImportCarries' /\ GenerateCarries'
    BY <1>1, ImporterRests, GeneratorRests
<1>12. Truthful' /\ Told'
    BY <1>1, <1>7, <1>8, HistoryFollows
<1> QED
    BY <1>4, <1>8, <1>9, <1>10, <1>11, <1>12 DEF ImportInv

LEMMA RecalculateDiesCarries ==
    ASSUME ImportInv, Import!RecalculateDies, UNCHANGED <<scenario, fromNetToGross>>, scenario # "edited"
    PROVE  ImportInv'
<1>1. vat' = Import!NoVat /\ UNCHANGED <<taxClass, rate, imported, current, history, importer, generator>>
    BY DEF Import!RecalculateDies
<1>2. VatRuns'
    BY <1>1, NoVatIsAJob DEF VatRuns
<1>3. \A c \in Both : LogOf(c)' \subseteq LogOf(c)
    BY <1>1, NoVatIsAJob DEF LogOf
<1>4. Tables' /\ SameLists
    BY <1>1 DEF ImportInv, Tables, SameLists
<1>5. Jobs' /\ Logs'
    BY <1>1 DEF ImportInv, Jobs, Filling, Logs
<1>6. ImportCarries' /\ GenerateCarries'
    BY <1>1, ImporterRests, GeneratorRests
<1>7. Floors' /\ Truthful' /\ Told'
    BY <1>1, <1>3, <1>4, LogsRest
<1> QED
    BY <1>2, <1>4, <1>5, <1>6, <1>7 DEF ImportInv

-----------------------------------------------------------------------------
(* The two stores agree *)

LEMMA ImportRests ==
    ASSUME ImportInv, UNCHANGED <<scenario, importVars>>
    PROVE  ImportInv'
<1>1. UNCHANGED <<fromNetToGross, taxClass, rate, imported, current, history, importer, generator, vat>>
    BY DEF importVars
<1>2. Tables' /\ Jobs' /\ Logs'
    BY <1>1 DEF ImportInv, Tables, Jobs, Filling, Logs
<1>3. ImportCarries' /\ GenerateCarries'
    BY <1>1, ImporterRests, GeneratorRests
<1>4. Floors' /\ Truthful' /\ Told' /\ VatRuns'
    BY <1>1, <1>2, RowsRest
<1> QED
    BY <1>2, <1>3, <1>4 DEF ImportInv

LEMMA ImportInvNext ==
    ASSUME ImportInv, MCNext
    PROVE  ImportInv'
<1>1. CASE UNCHANGED <<scenario, importVars>>
    BY <1>1, ImportRests
<1>2. ASSUME UNCHANGED <<scenario, fromNetToGross>>, Import!Import \/ Import!Generate \/ Import!Recalculate
      PROVE  ImportInv'
    BY <1>2, ImportStartCarries, ImportProductsCarries, ImportRatesCarries, ImportRowCarries, ImportBatchCarries,
       ImportLabelsCarries, ImportWriteCarries, ImportSkipCarries, ImportHistoryCarries, ImportFinishCarries,
       ImportFailCarries, GenerateStartCarries, GeneratePriceCarries, GenerateWriteCarries, GenerateLogCarries,
       GenerateFinishCarries, GenerateFailCarries, RecalculateReadCarries, RecalculateWriteCarries,
       RecalculateLogCarries DEF Import!Import, Import!Generate, Import!Recalculate
<1>3. ASSUME UNCHANGED scenario, Import!Run
      PROVE  ImportInv'
    BY <1>2, <1>3, AdminEditCarries, ChangeRateCarries, ImportConstants DEF Import!Run
<1>4. ASSUME UNCHANGED scenario, Import!Die, scenario # "edited"
      PROVE  ImportInv'
    BY <1>4, ImportDiesCarries, GenerateDiesCarries, RecalculateDiesCarries DEF Import!Die
<1> QED
    BY <1>1, <1>3, <1>4 DEF MCNext, ImportStep, Import!Next

\* The last price of a list for a product is the one that counts.
LEMMA LastOfProduct ==
    ASSUME NEW prices \in Seq(Import!Price), NEW i \in DOMAIN prices, prices[i].sku # Null,
           NEW rows, NEW country, NEW writer, HeldUpTo(rows, prices, Len(prices), country, writer)
    PROVE  LET price == Import!LastFor(prices, prices[i].sku)
           IN  price.sku = prices[i].sku /\ Held(rows, price, country, writer)
<1> DEFINE sku == prices[i].sku
           mine == {k \in DOMAIN prices : prices[k].sku = sku}
           last == CHOOSE k \in mine : \A j \in mine : j <= k
<1>1. mine \in SUBSET (1 .. Len(prices)) /\ Len(prices) \in Nat /\ i \in mine
    OBVIOUS
<1>2. last \in mine /\ \A j \in mine : j <= last
    <2> HIDE DEF mine
    <2> QED
        BY <1>1, GreatestOf
<1> HIDE DEF last
<1>3. last \in 1 .. Len(prices) /\ prices[last].sku = sku
    BY <1>1, <1>2
<1>4. \A k \in (last + 1) .. Len(prices) : prices[k].sku # sku
    <2> SUFFICES ASSUME NEW k \in (last + 1) .. Len(prices), prices[k].sku = sku
                 PROVE  FALSE
        OBVIOUS
    <2>1. k \in 1 .. Len(prices) /\ ~(k <= last)
        BY <1>1, <1>3
    <2> QED
        BY <1>1, <1>2, <2>1
<1>5. Held(rows, prices[last], country, writer)
    BY <1>3, <1>4 DEF HeldUpTo
<1>6. Import!LastFor(prices, sku) = prices[last]
    BY DEF Import!LastFor, last
<1> QED
    BY <1>3, <1>5, <1>6

LEMMA ImportInvAgrees ==
    ASSUME ImportInv
    PROVE  StoresAgree
<1>1. Import!TypeOK
    <2>1. \A country \in Both, sku \in Sku : \A entry \in history[country][sku] :
              /\ entry \in Import!HistoryRow
              /\ current[country][sku] # Null /\ entry.at <= current[country][sku].at
        BY DEF ImportInv, Tables, Truthful, Entries
    <2> QED
        BY <2>1, ImportConstants DEF ImportInv, Tables, RatesRead, Import!TypeOK
<1>2. Import!StoresAgree
    <2>1. ASSUME NEW job_ \in {importer, generator}, job_.step = "done",
                 NEW i \in DOMAIN imported[job_.list].prices, imported[job_.list].prices[i].sku # Null,
                 NEW country, country = imported[job_.list].country,
                 NEW writer, writer = IF country = Home THEN "csv_import" ELSE "generation"
          PROVE  /\ current[country][imported[job_.list].prices[i].sku] # Null
                 /\ Import!Carries(imported[job_.list], country, imported[job_.list].prices[i].sku, writer)
        <3> DEFINE prices == imported[job_.list].prices
                   sku == prices[i].sku
                   price == Import!LastFor(prices, sku)
        <3>1. /\ prices \in Seq(Import!Price) /\ country \in Both
              /\ job_ = importer => country = Home
              /\ job_ = generator => country = Abroad
            BY <2>1, ListsOfJobs DEF ImportInv
        <3>2. HeldUpTo(current[country], prices, Len(prices), country, writer)
            <4>1. CASE job_ = importer
                <5>1. /\ importer.todo = <<>>
                      /\ HeldUpTo(current[Home], prices, Len(prices) - Len(importer.todo), Home, "csv_import")
                    BY <2>1, <4>1 DEF ImportInv, ImportCarries
                <5>2. Len(prices) - Len(importer.todo) = Len(prices)
                    BY <3>1, <5>1
                <5> QED
                    BY <2>1, <3>1, <4>1, <5>1, <5>2
            <4>2. CASE job_ = generator
                <5>1. HeldUpTo(current[Abroad], prices, Len(prices), Abroad, "generation")
                    BY <2>1, <4>2 DEF ImportInv, GenerateCarries
                <5> QED
                    BY <2>1, <3>1, <4>2, <5>1, ImportConstants
            <4> QED
                BY <4>1, <4>2
        <3>3. price.sku = sku /\ Held(current[country], price, country, writer)
            <4> HIDE DEF prices
            <4>1. i \in DOMAIN prices /\ prices[i].sku # Null
                BY <2>1 DEF prices
            <4> QED
                BY <3>1, <3>2, <4>1, LastOfProduct
        <3> QED
            BY <3>3 DEF Held, Import!Carries
    <2> QED
        BY <2>1 DEF Import!StoresAgree
<1>3. Import!FloorRespected
    BY ImportConstants DEF ImportInv, Floors, Floored, Import!FloorRespected
<1>4. ASSUME scenario = "edited"
      PROVE  Import!HistoryComplete
    <2> SUFFICES ASSUME importer.step \in Import!Ended, generator.step \in Import!Ended, vat.step = "idle",
                        NEW country \in Both, NEW sku \in Sku, current[country][sku] # Null
                 PROVE  LET row == current[country][sku]
                            entries == history[country][sku]
                        IN  /\ \A n \in 1 .. row.at : \E entry \in entries : entry.at = n
                            /\ \A entry, other \in entries : entry.at = other.at => entry = other
                            /\ \A entry \in entries : entry.at = row.at => entry.values = row.values
        BY ImportConstants DEF Import!HistoryComplete
    <2>1. LogOf(country) = {}
        BY <1>4 DEF ImportInv, Logs, VatRuns, LogOf, Import!Ended
    <2>2. Entries(country, sku) = history[country][sku]
        BY <2>1 DEF Entries, Pending
    <2>3. \A n \in 1 .. current[country][sku].at : \E entry \in Entries(country, sku) : entry.at = n
        BY <1>4 DEF ImportInv, Told
    <2>4. \A entry \in Entries(country, sku) :
              /\ entry.at = current[country][sku].at => entry.values = current[country][sku].values
              /\ \A other \in Entries(country, sku) : other.at = entry.at => other = entry
        BY DEF ImportInv, Truthful
    <2> QED
        BY <2>2, <2>3, <2>4
<1> QED
    BY <1>1, <1>2, <1>3, <1>4 DEF StoresAgree

\* For any files, rates, products and bounds: when an import or a generation has
\* ended, CurrentPrice has the prices of its list, the last row of a product counting,
\* however the batches fell and whatever was edited, recalculated or killed meanwhile,
\* unless another writer wrote the row since (a recalculation that had read it before
\* included); no price is ever below the advertised one; and unless a job was killed,
\* the history has one entry for each write of a row, not necessarily in the order of
\* created_at (pricelist_service.py:210-297, workers.py:199-257, tasks.py:60-136).
THEOREM StoresAgreeAlways == MCSpec => []StoresAgree
<1>1. MCInit => ImportInv
    BY ImportInitially DEF MCInit
<1>2. ImportInv /\ [MCNext]_<<scenario, vars, importVars>> => ImportInv'
    BY ImportRests, ImportInvNext
<1> QED
    BY <1>1, <1>2, ImportInvAgrees, PTL DEF MCSpec
===============================================================================
