---------------------------- MODULE MatrixSync_proofs ----------------------------
(****************************************************************************)
(* What holds of the read model's queue for any items and channels, any     *)
(* number of writers and any bound on the tasks: versions only go forward,  *)
(* the set is never left without somebody who will have it flushed, and     *)
(* what was queued after its commit is in the read model when all is done.  *)
(****************************************************************************)
EXTENDS MatrixSync, TLAPS

\* None is not a version of a price.
NullIsNoVersion == Null \notin Nat

\* Where prices are queued after their commit: bulk_edit_prices, and the VAT
\* recalculation, which is not queued at all.
AfterCommit == Kinds \subseteq {"bulk", "vat"}

-----------------------------------------------------------------------------
(* The shape of the state *)

Steps == {"idle", "zadd", "lock", "send", "commit", "end"}
Proc == [step : Steps, item : Item \cup {Null}, draft : Nat \cup {Null}]

StoreOK ==
    /\ price \in [Item -> Nat] /\ matrix \in [Item -> Nat]
    /\ enabled \in BOOLEAN /\ lock \in BOOLEAN /\ tasks \in Nat /\ changes \in Nat
    /\ pending \subseteq Item
    /\ flush \in [step : {"idle", "take", "apply"}, items : SUBSET Item]
    /\ flush.items # {} => flush.step = "apply"

\* What a writer holds: an item unless it is idle, and a version from the change to
\* the end of its transaction.
ProcOK(x) ==
    /\ x \in Proc
    /\ x.step # "idle" => x.item \in Item
    /\ x.step \in {"idle", "end"} => x.draft = Null
    /\ x.step = "commit" => x.draft # Null

\* Versions are handed out one by one.  One that is not committed yet is newer than
\* the committed one, and the only one of its price: its transaction holds the row.
Ahead(x) == x.draft # Null => price[x.item] < x.draft /\ x.draft <= changes
Versions ==
    /\ \A item \in Item : matrix[item] <= price[item] /\ price[item] <= changes
    /\ \A w \in Writer : Ahead(proc[w])
    /\ \A v, w \in Writer :
        v # w /\ proc[v].draft # Null /\ proc[w].draft # Null => proc[v].item # proc[w].item

Shape ==
    /\ StoreOK
    /\ proc \in [Writer -> Proc] /\ \A w \in Writer : ProcOK(proc[w])
    /\ Versions

\* A writer's step that leaves its item and its version alone.
LEMMA MovesOn ==
    ASSUME NullIsNoVersion, Shape, NEW w \in Writer, NEW step \in Steps, Goto(w, step),
           proc[w].step # "idle",
           step \in {"idle", "end"} => proc[w].draft = Null,
           step = "commit" => proc[w].draft # Null,
           UNCHANGED <<price, matrix, changes>>, StoreOK'
    PROVE  Shape'
<1>1. proc' = [proc EXCEPT ![w] = [proc[w] EXCEPT !.step = step]]
  BY DEF Goto, Shape
<1> DEFINE x == [proc[w] EXCEPT !.step = step]
<1>2. /\ x \in Proc /\ x.step = step /\ x.item = proc[w].item /\ x.draft = proc[w].draft
  BY DEF Shape, Proc
<1> HIDE DEF x
<1>3. proc' \in [Writer -> Proc] /\ \A v \in Writer : proc'[v] = IF v = w THEN x ELSE proc[v]
  BY <1>1, <1>2 DEF Shape, x
<1>4. ProcOK(x)
  BY <1>2 DEF Shape, ProcOK
<1>5. \A v \in Writer : proc'[v].item = proc[v].item /\ proc'[v].draft = proc[v].draft
  BY <1>2, <1>3
<1>6. Versions'
  BY <1>5 DEF Shape, Versions, Ahead
<1> QED
  BY <1>3, <1>4, <1>6 DEF Shape

LEMMA InitShape == NullIsNoVersion /\ Init => Shape
<1> SUFFICES ASSUME Init PROVE Shape
  OBVIOUS
<1>1. /\ price = [item \in Item |-> 0] /\ matrix = price /\ enabled = TRUE /\ pending = {}
      /\ lock = FALSE /\ tasks = 0 /\ changes = 0 /\ flush = [step |-> "idle", items |-> {}]
  BY DEF Init, NoFlush
<1>2. \A item \in Item : price[item] = 0 /\ matrix[item] = 0
  BY <1>1
<1>3. StoreOK
  BY <1>1 DEF StoreOK
<1>4. Idle \in Proc /\ Idle.draft = Null /\ Idle.step = "idle"
  BY DEF Proc, Steps, Idle
<1>5. proc \in [Writer -> Proc] /\ \A w \in Writer : proc[w] = Idle
  BY <1>4 DEF Init
<1>6. \A w \in Writer : ProcOK(proc[w])
  BY <1>4, <1>5 DEF ProcOK
<1>7. Versions
  BY <1>1, <1>2, <1>4, <1>5 DEF Versions, Ahead
<1> QED
  BY <1>3, <1>5, <1>6, <1>7 DEF Shape

\* Where a writer goes once it has queued its item.
LEMMA AfterQueueingOK ==
    ASSUME NEW w \in Writer
    PROVE  /\ AfterQueueing(w) \in Steps \ {"idle", "lock", "send", "zadd"}
           /\ AfterQueueing(w) = "end" <=> proc[w].draft = Null
           /\ AfterQueueing(w) = "commit" <=> proc[w].draft # Null
  BY DEF AfterQueueing, Steps

LEMMA ChangeShape ==
    ASSUME NullIsNoVersion, Shape, NEW w \in Writer, NEW kind \in Kind, NEW item \in Item,
           Change(w, kind, item)
    PROVE  Shape'
<1> DEFINE version == changes + 1
           inside == kind \in {"signal", "service"}
           x == [step  |-> IF kind = "vat" THEN "end"
                           ELSE IF Skipped(kind, item) THEN "commit" ELSE "zadd",
                 item  |-> item, draft |-> IF inside THEN version ELSE Null]
<1>1. /\ proc' = [proc EXCEPT ![w] = x] /\ changes' = version
      /\ price' = (IF inside THEN price ELSE [price EXCEPT ![item] = version])
      /\ UNCHANGED <<matrix, enabled, pending, lock, tasks, flush>>
      /\ \A v \in Writer : proc[v].draft # Null => proc[v].item # item
  BY DEF Change
<1>2. changes \in Nat /\ version \in Nat /\ version # Null
  BY DEF Shape, StoreOK, NullIsNoVersion
<1>3. x \in Proc /\ x.item = item
  BY <1>2 DEF Proc, Steps
<1>4. x.draft # Null => inside /\ x.draft = version
  OBVIOUS
<1>5. ProcOK(x)
  <2>1. x.step # "idle" /\ (x.step = "end" => kind = "vat") /\ (x.step = "commit" => kind = "signal")
    BY DEF Skipped
  <2> QED
    BY <1>2, <1>3, <2>1 DEF ProcOK
<1> HIDE DEF x
<1>6. proc' \in [Writer -> Proc] /\ \A v \in Writer : proc'[v] = IF v = w THEN x ELSE proc[v]
  BY <1>1, <1>3 DEF Shape
<1>7. price' \in [Item -> Nat] /\ \A i \in Item : price'[i] \in {price[i], version}
  BY <1>1, <1>2 DEF Shape, StoreOK
<1>8. StoreOK'
  BY <1>1, <1>2, <1>7 DEF Shape, StoreOK
<1>9. \A i \in Item : price[i] <= changes /\ matrix[i] <= price[i] /\ price[i] \in Nat /\ matrix[i] \in Nat
  BY DEF Shape, StoreOK, Versions
<1>10. \A i \in Item : matrix'[i] <= price'[i] /\ price'[i] <= changes'
  BY <1>1, <1>2, <1>7, <1>9
<1>11. ASSUME NEW v \in Writer, proc'[v].draft # Null
      PROVE  price'[proc'[v].item] < proc'[v].draft /\ proc'[v].draft <= changes'
  <2>1. CASE v = w
    <3>1. x.draft # Null => price'[item] = price[item]
      BY <1>1, <1>4
    <3> QED
      BY <1>1, <1>2, <1>3, <1>4, <1>6, <1>9, <1>11, <2>1, <3>1
  <2>2. CASE v # w
    <3>1. proc'[v] = proc[v] /\ ProcOK(proc[v]) /\ Ahead(proc[v])
      BY <1>6, <2>2 DEF Shape, Versions
    <3>2. proc[v].draft # Null => proc[v].item \in Item \ {item} /\ proc[v].draft \in Nat
      BY <1>1, <3>1 DEF ProcOK, Proc, Steps
    <3>3. proc[v].draft # Null => price'[proc[v].item] = price[proc[v].item]
      BY <1>1, <3>2 DEF Shape, StoreOK
    <3> QED
      BY <1>1, <1>2, <1>11, <2>2, <3>1, <3>2, <3>3 DEF Ahead, Shape, StoreOK
  <2> QED
    BY <2>1, <2>2
<1>12. \A v, u \in Writer :
            v # u /\ proc'[v].draft # Null /\ proc'[u].draft # Null => proc'[v].item # proc'[u].item
  BY <1>1, <1>3, <1>6 DEF Shape, Versions
<1>13. Versions'
  BY <1>10, <1>11, <1>12 DEF Versions, Ahead
<1> QED
  BY <1>5, <1>6, <1>8, <1>13 DEF Shape


\* The end of a transaction, with or without its version, and the end of a request.
LEMMA LetsGo ==
    ASSUME NullIsNoVersion, Shape, NEW w \in Writer, NEW step \in {"idle", "end"}, NEW held,
           held = IF step = "end" THEN proc[w].item ELSE Null,
           step = "end" => proc[w].step = "commit",
           proc' = [proc EXCEPT ![w] = [step |-> step, item |-> held, draft |-> Null]],
           \/ price' = price
           \/ proc[w].step = "commit" /\ price' = [price EXCEPT ![proc[w].item] = proc[w].draft],
           UNCHANGED <<matrix, enabled, pending, lock, tasks, flush, changes>>
    PROVE  Shape' /\ \A item \in Item : price'[item] >= price[item]
<1> DEFINE y == [step |-> step, item |-> held, draft |-> Null]
<1>1. ProcOK(proc[w]) /\ Ahead(proc[w])
  BY DEF Shape, Versions
<1>2. held \in Item \cup {Null} /\ (step = "end" => held \in Item)
  BY <1>1 DEF ProcOK
<1>3. y \in Proc /\ ProcOK(y) /\ y.draft = Null
  BY <1>2 DEF ProcOK, Proc, Steps
<1> HIDE DEF y
<1>4. proc' \in [Writer -> Proc] /\ \A v \in Writer : proc'[v] = IF v = w THEN y ELSE proc[v]
  BY <1>3 DEF Shape, y
<1>5. \A i \in Item : price[i] \in Nat /\ matrix[i] \in Nat /\ matrix[i] <= price[i] /\ price[i] <= changes
  BY DEF Shape, StoreOK, Versions
<1>6. /\ price' \in [Item -> Nat]
      /\ \A i \in Item : price'[i] >= price[i] /\ price'[i] <= changes
      /\ \A i \in Item : price'[i] # price[i] => i = proc[w].item /\ proc[w].draft # Null
  <2>1. CASE price' = price
    BY <1>5, <2>1 DEF Shape, StoreOK
  <2>2. CASE proc[w].step = "commit" /\ price' = [price EXCEPT ![proc[w].item] = proc[w].draft]
    <3>1. proc[w].item \in Item /\ proc[w].draft \in Nat /\ proc[w].draft # Null
      BY <1>1, <2>2 DEF ProcOK, Proc
    <3>2. price[proc[w].item] < proc[w].draft /\ proc[w].draft <= changes
      BY <1>1, <3>1 DEF Ahead
    <3> QED
      BY <1>5, <2>2, <3>1, <3>2 DEF Shape, StoreOK
  <2> QED
    BY <2>1, <2>2
<1>7. StoreOK'
  BY <1>6 DEF Shape, StoreOK
<1>8. \A i \in Item : matrix'[i] <= price'[i] /\ price'[i] <= changes'
  BY <1>5, <1>6 DEF Shape, StoreOK
<1>9. ASSUME NEW v \in Writer, proc'[v].draft # Null
      PROVE  price'[proc'[v].item] < proc'[v].draft /\ proc'[v].draft <= changes'
  <2>1. v # w /\ proc'[v] = proc[v]
    BY <1>3, <1>4, <1>9
  <2>2. proc[v].item \in Item /\ price[proc[v].item] < proc[v].draft /\ proc[v].draft <= changes
    BY <1>9, <2>1 DEF Shape, Versions, Ahead, ProcOK
  <2>3. price'[proc[v].item] = price[proc[v].item]
    BY <1>6, <1>9, <2>1, <2>2 DEF Shape, Versions
  <2> QED
    BY <2>1, <2>2, <2>3
<1>10. \A v, u \in Writer :
            v # u /\ proc'[v].draft # Null /\ proc'[u].draft # Null => proc'[v].item # proc'[u].item
  BY <1>3, <1>4 DEF Shape, Versions
<1>11. Versions'
  BY <1>8, <1>9, <1>10 DEF Versions, Ahead
<1> QED
  BY <1>3, <1>4, <1>6, <1>7, <1>11 DEF Shape

LEMMA StepShape ==
    ASSUME NullIsNoVersion, Shape, NEW w \in Writer, Step(w)
    PROVE  Shape' /\ matrix' = matrix /\ \A item \in Item : price'[item] >= price[item]
<1>1. ProcOK(proc[w]) /\ proc[w] \in Proc /\ \A item \in Item : price[item] \in Nat
  BY DEF Shape, StoreOK, ProcOK
<1>2. CASE Zadd(w)
  <2>1. proc[w].item \in Item
    BY <1>1, <1>2 DEF Zadd, ProcOK
  <2>2. StoreOK'
    BY <1>2, <2>1 DEF Zadd, Shape, StoreOK
  <2>3. Shape'
    BY <1>2, <2>2, MovesOn DEF Zadd, Steps
  <2> QED
    BY <1>1, <1>2, <2>3 DEF Zadd
<1>3. CASE SetLock(w)
  <2>1. StoreOK'
    BY <1>3 DEF SetLock, Shape, StoreOK
  <2> DEFINE step == IF lock THEN AfterQueueing(w) ELSE "send"
  <2>2. step \in Steps /\ step # "idle"
        /\ (step = "end" => proc[w].draft = Null) /\ (step = "commit" => proc[w].draft # Null)
    BY AfterQueueingOK DEF Steps
  <2>3. proc[w].step # "idle" /\ Goto(w, step) /\ UNCHANGED <<price, matrix, changes>>
    BY <1>3 DEF SetLock
  <2> HIDE DEF step
  <2>4. Shape'
    BY <2>1, <2>2, <2>3, MovesOn
  <2> QED
    BY <1>1, <2>3, <2>4
<1>4. CASE SendTask(w) \/ EnqueueFails(w)
  <2>1. StoreOK'
    BY <1>4 DEF SendTask, EnqueueFails, Shape, StoreOK
  <2>2. proc[w].step # "idle" /\ Goto(w, AfterQueueing(w)) /\ UNCHANGED <<price, matrix, changes>>
    BY <1>4 DEF SendTask, EnqueueFails
  <2>3. Shape'
    BY <2>1, <2>2, AfterQueueingOK, MovesOn
  <2> QED
    BY <1>1, <2>2, <2>3
<1>5. CASE Commit(w) \/ Rollback(w)
  <2>1. proc[w].step = "commit" /\ UNCHANGED <<matrix, enabled, pending, lock, tasks, flush, changes>>
    BY <1>5 DEF Commit, Rollback
  <2>2. proc' = [proc EXCEPT ![w] = [step |-> "end", item |-> proc[w].item, draft |-> Null]]
    BY <1>1, <1>5 DEF Commit, Rollback, Proc
  <2>3. \/ price' = price
        \/ proc[w].step = "commit" /\ price' = [price EXCEPT ![proc[w].item] = proc[w].draft]
    BY <1>5 DEF Commit, Rollback
  <2> QED
    BY <2>1, <2>2, <2>3, LetsGo
<1>6. CASE End(w)
  <2>1. proc' = [proc EXCEPT ![w] = [step |-> "idle", item |-> Null, draft |-> Null]]
        /\ price' = price /\ UNCHANGED <<matrix, enabled, pending, lock, tasks, flush, changes>>
    BY <1>6 DEF End, Idle
  <2> QED
    BY <2>1, LetsGo
<1> QED
  BY <1>2, <1>3, <1>4, <1>5, <1>6 DEF Step

LEMMA FlushShape ==
    ASSUME Shape, Flushing \/ LockExpires \/ Toggle
    PROVE  /\ Shape' /\ price' = price
           /\ \A item \in Item : matrix'[item] >= matrix[item] /\ matrix'[item] <= price[item]
<1>1. UNCHANGED <<price, proc, changes>>
  BY DEF Flushing, FlushStart, FlushTake, FlushApply, LockExpires, Toggle
<1>2. \A i \in Item : price[i] \in Nat /\ matrix[i] \in Nat /\ matrix[i] <= price[i]
  BY DEF Shape, StoreOK, Versions
<1>3. /\ matrix' \in [Item -> Nat]
      /\ \A i \in Item : matrix'[i] >= matrix[i] /\ matrix'[i] <= price[i]
  <2>1. CASE UNCHANGED matrix
    BY <1>2, <2>1 DEF Shape, StoreOK
  <2>2. CASE FlushApply
    BY <1>2, <2>2 DEF FlushApply, Shape, StoreOK
  <2> QED
    BY <2>1, <2>2 DEF Flushing, FlushStart, FlushTake, LockExpires, Toggle
<1>4. StoreOK'
  <2>1. flush' \in [step : {"idle", "take", "apply"}, items : SUBSET Item]
        /\ (flush'.items # {} => flush'.step = "apply")
    BY DEF Flushing, FlushStart, FlushTake, FlushApply, LockExpires, Toggle, Shape, StoreOK, NoFlush
  <2>2. lock' \in BOOLEAN /\ pending' \subseteq Item
    BY DEF Flushing, FlushStart, FlushTake, FlushApply, LockExpires, Toggle, Shape, StoreOK
  <2>3. enabled' \in BOOLEAN
    BY DEF Flushing, FlushStart, FlushTake, FlushApply, LockExpires, Toggle, Shape, StoreOK
  <2>4. tasks' \in Nat
    <3>1. tasks \in Nat
      BY DEF Shape, StoreOK
    <3>2. tasks' = tasks \/ (tasks > 0 /\ tasks' = tasks - 1)
      BY DEF Flushing, FlushStart, FlushTake, FlushApply, LockExpires, Toggle
    <3> QED
      BY <3>1, <3>2
  <2> QED
    BY <1>1, <1>3, <2>1, <2>2, <2>3, <2>4 DEF Shape, StoreOK
<1>5. Versions'
  BY <1>1, <1>3 DEF Shape, Versions, Ahead
<1> QED
  BY <1>1, <1>3, <1>4, <1>5 DEF Shape, ProcOK

LEMMA NextShape == NullIsNoVersion /\ Shape /\ [Next]_vars => Shape'
<1> SUFFICES ASSUME NullIsNoVersion, Shape, [Next]_vars PROVE Shape'
  OBVIOUS
<1>1. CASE Next
  BY <1>1, ChangeShape, StepShape, FlushShape DEF Next
<1>2. CASE UNCHANGED vars
  BY <1>2 DEF vars, Shape, StoreOK, ProcOK, Versions, Ahead
<1> QED
  BY <1>1, <1>2

\* At any time, the state has the shape that TypeOK states, and no two transactions
\* hold a version of one price: the read model is never ahead of what is committed,
\* and a version that is committed is the newest of its price.
THEOREM MatrixTypes ==
    ASSUME NullIsNoVersion
    PROVE  Spec => [](TypeOK /\ Versions)
<1>1. Init => Shape
  BY InitShape
<1>2. Shape /\ [Next]_vars => Shape'
  BY NextShape
<1>3. Shape => TypeOK /\ Versions
  BY DEF Shape, TypeOK, StoreOK, ProcOK, Versions
<1> QED
  BY <1>1, <1>2, <1>3, PTL DEF Spec

\* Whatever the writers, the flush and the toggle do, a price and its copy in the read
\* model only move on to newer versions: a flush that read the price before a commit
\* never puts an older one back.
THEOREM VersionsGoForward ==
    ASSUME NullIsNoVersion
    PROVE  Spec => [][\A item \in Item : price'[item] >= price[item] /\ matrix'[item] >= matrix[item]]_vars
<1> DEFINE Forward == \A item \in Item : price'[item] >= price[item] /\ matrix'[item] >= matrix[item]
<1>1. Init => Shape
  BY InitShape
<1>2. Shape /\ [Next]_vars => Shape'
  BY NextShape
<1>3. ASSUME Shape, Next PROVE Forward
  <2>1. \A i \in Item : price[i] \in Nat /\ matrix[i] \in Nat /\ price[i] <= changes /\ changes \in Nat
    BY <1>3 DEF Shape, StoreOK, Versions
  <2>2. ASSUME NEW w \in Writer, NEW kind \in Kind, NEW item \in Item, Change(w, kind, item)
        PROVE  Forward
    <3>1. matrix' = matrix /\ (price' = price \/ price' = [price EXCEPT ![item] = changes + 1])
      BY <2>2 DEF Change
    <3> QED
      BY <1>3, <2>1, <3>1 DEF Shape, StoreOK
  <2>3. ASSUME NEW w \in Writer, Step(w) PROVE Forward
    BY <1>3, <2>1, <2>3, StepShape
  <2>4. ASSUME Flushing \/ LockExpires \/ Toggle PROVE Forward
    BY <1>3, <2>1, <2>4, FlushShape
  <2> QED
    BY <1>3, <2>2, <2>3, <2>4 DEF Next
<1>4. Shape /\ [Next]_vars => [Forward]_vars
  BY <1>3
<1> HIDE DEF Forward
<1>5. Spec => [][Forward]_vars
  BY <1>1, <1>2, <1>4, PTL DEF Spec
<1> QED
  BY <1>5 DEF Forward


-----------------------------------------------------------------------------
(* Nobody waits in vain *)

\* While the lock keeps the others from sending a task, one waits or is being sent.
LockIsBacked == lock => tasks > 0 \/ \E w \in Writer : proc[w].step = "send"
Served == NobodyWaitsInVain /\ LockIsBacked

LEMMA NextServed ==
    ASSUME Shape, Served, ~MayFail, [Next]_vars
    PROVE  Served'
<1>1. tasks \in Nat /\ proc \in [Writer -> Proc]
  BY DEF Shape, StoreOK
<1>2. ASSUME NEW w \in Writer, NEW kind \in Kind, NEW item \in Item, Change(w, kind, item)
      PROVE  Served'
  <2>1. proc[w].step = "idle" /\ UNCHANGED <<pending, lock, tasks, flush>>
        /\ \A v \in Writer : v # w => proc'[v] = proc[v]
    BY <1>1, <1>2 DEF Change
  <2> QED
    BY <2>1 DEF Served, NobodyWaitsInVain, LockIsBacked
<1>3. ASSUME NEW w \in Writer, Zadd(w) PROVE Served'
  <2>1. proc'[w].step = "lock" /\ proc[w].step = "zadd" /\ UNCHANGED <<lock, tasks, flush>>
        /\ \A v \in Writer : v # w => proc'[v] = proc[v]
    BY <1>1, <1>3 DEF Zadd, Goto, Proc
  <2> QED
    BY <2>1 DEF Served, NobodyWaitsInVain, LockIsBacked
<1>4. ASSUME NEW w \in Writer, SetLock(w) PROVE Served'
  <2>1. proc[w].step = "lock" /\ UNCHANGED <<pending, tasks, flush>>
        /\ \A v \in Writer : v # w => proc'[v] = proc[v]
    BY <1>1, <1>4 DEF SetLock, Goto
  <2>2. CASE lock
    BY <2>1, <2>2 DEF Served, NobodyWaitsInVain, LockIsBacked
  <2>3. CASE ~lock
    <3>1. proc'[w].step = "send"
      BY <1>1, <1>4, <2>3 DEF SetLock, Goto, Proc
    <3> QED
      BY <3>1 DEF Served, NobodyWaitsInVain, LockIsBacked
  <2> QED
    BY <2>2, <2>3
<1>5. ASSUME NEW w \in Writer, SendTask(w) PROVE Served'
  <2>1. tasks' > 0
    BY <1>1, <1>5 DEF SendTask
  <2> QED
    BY <2>1 DEF Served, NobodyWaitsInVain, LockIsBacked
<1>6. ASSUME NEW w \in Writer, Commit(w) \/ Rollback(w) \/ End(w) PROVE Served'
  <2>1. proc[w].step \in {"commit", "end"} /\ UNCHANGED <<pending, lock, tasks, flush>>
        /\ \A v \in Writer : v # w => proc'[v] = proc[v]
    BY <1>1, <1>6 DEF Commit, Rollback, End
  <2> QED
    BY <2>1 DEF Served, NobodyWaitsInVain, LockIsBacked
<1>7. CASE Flushing \/ LockExpires \/ Toggle
  <2>1. CASE FlushStart
    <3>1. flush'.step = "take" /\ ~lock'
      BY <2>1 DEF FlushStart, Shape, StoreOK
    <3> QED
      BY <3>1 DEF Served, NobodyWaitsInVain, LockIsBacked
  <2>2. CASE FlushTake
    BY <2>2 DEF FlushTake, Served, NobodyWaitsInVain, LockIsBacked
  <2>3. CASE FlushApply \/ LockExpires \/ Toggle
    BY <2>3 DEF FlushApply, LockExpires, Toggle, NoFlush, Served, NobodyWaitsInVain, LockIsBacked
  <2> QED
    BY <1>7, <2>1, <2>2, <2>3 DEF Flushing
<1>8. CASE UNCHANGED vars
  BY <1>8 DEF vars, Served, NobodyWaitsInVain, LockIsBacked
<1>9. \A w \in Writer : ~EnqueueFails(w)
  BY DEF EnqueueFails
<1> QED
  BY <1>2, <1>3, <1>4, <1>5, <1>6, <1>7, <1>8, <1>9 DEF Next, Step

LEMMA ShapeHolds ==
    ASSUME NullIsNoVersion
    PROVE  Spec => []Shape
  BY InitShape, NextShape, PTL DEF Spec

LEMMA ServedHolds ==
    ASSUME NullIsNoVersion, ~MayFail
    PROVE  Spec => []Served
<1>1. Init => Served
  BY DEF Init, Served, NobodyWaitsInVain, LockIsBacked
<1>2. Shape /\ Served /\ [Next]_vars => Served'
  BY NextServed
<1> QED
  BY <1>1, <1>2, ShapeHolds, PTL DEF Spec

\* While Redis and the broker answer, no item stays in the set without a flush that
\* will take it, or a writer that is about to have one: the lock is never held in the
\* name of a task that nobody sends (enqueue_price_sync, for any number of writers).
THEOREM QueueIsNeverLeft ==
    ASSUME NullIsNoVersion, ~MayFail
    PROVE  Spec => []NobodyWaitsInVain
<1>1. Served => NobodyWaitsInVain
  BY DEF Served
<1> QED
  BY <1>1, ServedHolds, PTL

-----------------------------------------------------------------------------
(* What was sent is synced *)

\* Without a transaction around it, nobody holds a version that is not committed.
NoDrafts == \A w \in Writer : proc[w].draft = Null

\* The flush that takes the set has been sent for, or has it in hand.
InHand(item) ==
    \/ matrix[item] = price[item]
    \/ item \in pending /\ (tasks > 0 \/ flush.step = "take")
    \/ item \in flush.items

Sent == promised \subseteq Item /\ \A item \in promised : InHand(item)

LEMMA NextNoDrafts ==
    ASSUME AfterCommit, Shape, NoDrafts, [Next]_vars
    PROVE  NoDrafts' /\ \A w \in Writer : ~Commit(w) /\ ~Rollback(w)
<1>1. proc \in [Writer -> Proc]
  BY DEF Shape
<1>2. ASSUME NEW w \in Writer, NEW kind \in Kind, NEW item \in Item, Change(w, kind, item)
      PROVE  NoDrafts'
  <2>1. kind \notin {"signal", "service"}
    BY <1>2 DEF Change, AfterCommit
  <2>2. proc'[w].draft = Null /\ \A v \in Writer : v # w => proc'[v] = proc[v]
    BY <1>1, <1>2, <2>1 DEF Change
  <2> QED
    BY <2>2 DEF NoDrafts
<1>3. ASSUME NEW w \in Writer, NEW step \in Steps, Goto(w, step) PROVE NoDrafts'
  <2>1. proc'[w].draft = proc[w].draft /\ \A v \in Writer : v # w => proc'[v] = proc[v]
    BY <1>1, <1>3 DEF Goto, Proc
  <2> QED
    BY <2>1 DEF NoDrafts
<1>4. ASSUME NEW w \in Writer, Step(w) PROVE NoDrafts'
  <2>1. CASE Zadd(w) \/ SetLock(w) \/ SendTask(w) \/ EnqueueFails(w)
    <3>1. AfterQueueing(w) \in Steps /\ {"lock", "send"} \subseteq Steps
      BY AfterQueueingOK DEF Steps
    <3>2. (IF lock THEN AfterQueueing(w) ELSE "send") \in Steps
      BY <3>1
    <3> QED
      BY <1>3, <2>1, <3>1, <3>2 DEF Zadd, SetLock, SendTask, EnqueueFails
  <2>2. CASE Commit(w) \/ Rollback(w) \/ End(w)
    <3>1. proc'[w].draft = Null /\ \A v \in Writer : v # w => proc'[v] = proc[v]
      BY <1>1, <2>2 DEF Commit, Rollback, End, Idle, Proc
    <3> QED
      BY <3>1 DEF NoDrafts
  <2> QED
    BY <1>4, <2>1, <2>2 DEF Step
<1>5. ASSUME Flushing \/ LockExpires \/ Toggle \/ UNCHANGED vars PROVE NoDrafts'
  <2>1. proc' = proc
    BY <1>5 DEF Flushing, FlushStart, FlushTake, FlushApply, LockExpires, Toggle, vars
  <2> QED
    BY <2>1 DEF NoDrafts
<1>6. \A w \in Writer : ~Commit(w) /\ ~Rollback(w)
  BY DEF NoDrafts, Shape, ProcOK, Commit, Rollback
<1> QED
  BY <1>2, <1>4, <1>5, <1>6 DEF Next


LEMMA NextSent ==
    ASSUME AfterCommit, Shape, NoDrafts, Sent, [Next]_vars
    PROVE  Sent'
<1>1. pending \subseteq Item /\ tasks \in Nat /\ (flush.items # {} => flush.step = "apply")
  BY DEF Shape, StoreOK
<1>2. ASSUME NEW w \in Writer, NEW kind \in Kind, NEW item \in Item, Change(w, kind, item)
      PROVE  Sent'
  <2>1. promised' = promised \ {item} /\ UNCHANGED <<matrix, pending, tasks, flush>>
    BY <1>2 DEF Change
  <2>2. \A i \in Item : i # item => price'[i] = price[i]
    BY <1>2 DEF Change, Shape, StoreOK
  <2> QED
    BY <2>1, <2>2 DEF Sent, InHand
<1>3. ASSUME NEW w \in Writer, Zadd(w) PROVE Sent'
  BY <1>3 DEF Zadd, Sent, InHand
<1>4. ASSUME NEW w \in Writer, SendTask(w) PROVE Sent'
  <2>1. tasks' > 0 /\ promised' = promised \cup pending /\ UNCHANGED <<price, matrix, pending, flush>>
    BY <1>1, <1>4 DEF SendTask
  <2> QED
    BY <1>1, <2>1 DEF Sent, InHand
<1>5. ASSUME NEW w \in Writer, SetLock(w) \/ EnqueueFails(w) \/ End(w) PROVE Sent'
  BY <1>5 DEF SetLock, EnqueueFails, End, Sent, InHand
<1>6. CASE FlushStart
  <2>1. flush'.step = "take" /\ flush'.items = flush.items /\ UNCHANGED <<price, matrix, pending, promised>>
    BY <1>6 DEF FlushStart, Shape, StoreOK
  <2> QED
    BY <2>1 DEF Sent, InHand
<1>7. CASE FlushTake
  <2>1. flush.items = {} /\ flush'.items = pending /\ UNCHANGED <<price, matrix, promised>>
    BY <1>1, <1>7 DEF FlushTake
  <2> QED
    BY <2>1 DEF Sent, InHand
<1>8. CASE FlushApply
  <2>1. \A i \in Item : matrix'[i] = IF i \in flush.items THEN price[i] ELSE matrix[i]
    BY <1>8 DEF FlushApply
  <2>2. flush.step = "apply" /\ UNCHANGED <<price, pending, tasks, promised>>
    BY <1>8 DEF FlushApply
  <2> QED
    BY <2>1, <2>2 DEF Sent, InHand
<1>9. CASE LockExpires \/ Toggle \/ UNCHANGED vars
  BY <1>9 DEF LockExpires, Toggle, vars, Sent, InHand
<1> QED
  BY <1>2, <1>3, <1>4, <1>5, <1>6, <1>7, <1>8, <1>9, NextNoDrafts DEF Next, Step, Flushing

LEMMA SentHolds ==
    ASSUME NullIsNoVersion, AfterCommit
    PROVE  Spec => [](NoDrafts /\ Sent)
<1>1. Init => NoDrafts /\ Sent
  <2>1. Init => NoDrafts
    BY DEF Init, NoDrafts, Idle
  <2>2. Init => Sent
    BY DEF Init, Sent
  <2> QED
    BY <2>1, <2>2
<1>2. Shape /\ NoDrafts /\ Sent /\ [Next]_vars => NoDrafts' /\ Sent'
  BY NextNoDrafts, NextSent
<1> QED
  BY <1>1, <1>2, ShapeHolds, PTL DEF Spec

\* What was in the set when a task was sent is in the read model once every task has
\* run, with its latest price, whoever queued it and whatever Redis and the broker
\* refused in between: one call's failure is made up for by a later one's task.
THEOREM SentIsMadeUp ==
    ASSUME NullIsNoVersion, AfterCommit
    PROVE  Spec => []SentIsSynced
<1>1. Sent => SentIsSynced
  BY DEF Sent, SentIsSynced, InHand, Settled, NoFlush
<1> QED
  BY <1>1, SentHolds, PTL

-----------------------------------------------------------------------------
(* A queue that does not fail *)

\* bulk_edit_prices alone: each change is queued, after its commit.
BulkOnly == Kinds \subseteq {"bulk"}

\* Whoever changed the price has yet to queue it, or it is on its way.
Queued(item) ==
    \/ matrix[item] = price[item]
    \/ item \in pending \cup flush.items
    \/ \E w \in Writer : proc[w].step = "zadd" /\ proc[w].item = item
AllQueued == \A item \in Item : Queued(item)

LEMMA NextAllQueued ==
    ASSUME BulkOnly, ~MayFail, Shape, NoDrafts, AllQueued, [Next]_vars
    PROVE  AllQueued'
<1>1. proc \in [Writer -> Proc] /\ (flush.items # {} => flush.step = "apply")
  BY DEF Shape, StoreOK
<1>2. ASSUME NEW w \in Writer, NEW kind \in Kind, NEW item \in Item, Change(w, kind, item)
      PROVE  AllQueued'
  <2>1. kind = "bulk"
    BY <1>2 DEF Change, BulkOnly
  <2>2. proc'[w].step = "zadd" /\ proc'[w].item = item
    BY <1>1, <1>2, <2>1 DEF Change, Skipped
  <2>3. /\ \A v \in Writer : v # w => proc'[v] = proc[v]
        /\ proc[w].step = "idle" /\ UNCHANGED <<matrix, pending, flush>>
    BY <1>1, <1>2 DEF Change
  <2>4. \A i \in Item : i # item => price'[i] = price[i]
    BY <1>2 DEF Change, Shape, StoreOK
  <2> QED
    BY <2>2, <2>3, <2>4 DEF AllQueued, Queued
<1>3. ASSUME NEW w \in Writer, Zadd(w) PROVE AllQueued'
  <2>1. pending' = pending \cup {proc[w].item} /\ UNCHANGED <<price, matrix, flush>>
        /\ \A v \in Writer : v # w => proc'[v] = proc[v]
    BY <1>1, <1>3 DEF Zadd, Goto
  <2> QED
    BY <2>1 DEF AllQueued, Queued
<1>4. ASSUME NEW w \in Writer, SetLock(w) \/ SendTask(w) \/ End(w) PROVE AllQueued'
  <2>1. proc[w].step # "zadd" /\ UNCHANGED <<price, matrix, pending, flush>>
        /\ \A v \in Writer : v # w => proc'[v] = proc[v]
    BY <1>1, <1>4 DEF SetLock, SendTask, End, Goto
  <2> QED
    BY <2>1 DEF AllQueued, Queued
<1>5. CASE FlushStart
  <2>1. flush'.items = flush.items /\ UNCHANGED <<price, matrix, pending, proc>>
    BY <1>5 DEF FlushStart, Shape, StoreOK
  <2> QED
    BY <2>1 DEF AllQueued, Queued
<1>6. CASE FlushTake
  <2>1. flush.items = {} /\ flush'.items = pending /\ UNCHANGED <<price, matrix, proc>>
    BY <1>1, <1>6 DEF FlushTake
  <2> QED
    BY <2>1 DEF AllQueued, Queued
<1>7. CASE FlushApply
  <2>1. \A i \in Item : matrix'[i] = IF i \in flush.items THEN price[i] ELSE matrix[i]
    BY <1>7 DEF FlushApply
  <2>2. UNCHANGED <<price, pending, proc>>
    BY <1>7 DEF FlushApply
  <2> QED
    BY <2>1, <2>2 DEF AllQueued, Queued
<1>8. CASE LockExpires \/ Toggle \/ UNCHANGED vars
  BY <1>8 DEF LockExpires, Toggle, vars, AllQueued, Queued
<1>9. AfterCommit /\ \A w \in Writer : ~EnqueueFails(w)
  BY DEF AfterCommit, BulkOnly, EnqueueFails
<1> QED
  BY <1>2, <1>3, <1>4, <1>5, <1>6, <1>7, <1>8, <1>9, NextNoDrafts DEF Next, Step, Flushing

\* What bulk_edit_prices changes reaches the read model: while Redis and the broker
\* answer, the two agree on every price whenever all requests and tasks are done.
THEOREM BulkReachesMatrix ==
    ASSUME NullIsNoVersion, BulkOnly, ~MayFail
    PROVE  Spec => [](Settled => \A item \in Item : matrix[item] = price[item])
<1>1. AfterCommit
  BY DEF AfterCommit, BulkOnly
<1>2. Init => AllQueued
  BY DEF Init, AllQueued, Queued
<1>3. Shape /\ NoDrafts /\ AllQueued /\ [Next]_vars => AllQueued'
  BY NextAllQueued
<1>4. Shape /\ Served /\ AllQueued => (Settled => \A item \in Item : matrix[item] = price[item])
  BY DEF Served, NobodyWaitsInVain, AllQueued, Queued, Settled, Working, NoFlush
<1> QED
  BY <1>1, <1>2, <1>3, <1>4, ShapeHolds, ServedHolds, SentHolds, PTL DEF Spec
=============================================================================
