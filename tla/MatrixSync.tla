------------------------------ MODULE MatrixSync ------------------------------
(****************************************************************************)
(* How a changed price reaches the read model of django_matrix: the changed *)
(* (sku, channel) goes into a set in Redis, and whoever finds the lock free *)
(* sends the task that flushes the set after a delay.  The lock, a key with *)
(* an expiry, keeps the others from sending one more.                       *)
(*                                                                          *)
(* The flush belongs to django_matrix: it frees the lock, takes the set and *)
(* reads the prices that are committed.                                     *)
(****************************************************************************)
EXTENDS Naturals, FiniteSets

CONSTANTS
    Item,         \* sku and channel
    Writer,       \* processes that change prices
    Kinds,        \* the ways of changing them that occur
    Denied,       \* items of channels on the denylist
    MayFail,      \* whether Redis and the broker may refuse a call
    MaxChanges,   \* bound of the model: prices changed
    MaxToggles,   \* bound of the model: changes of the toggle
    MaxTasks,     \* bound of the model: tasks that wait
    Null

\* "signal": a row saved on its own, in a transaction, whose post_save handler
\*   asks the kill switch (imports, the repository, the Django admin).
\* "service": edit_price, flush_special_prices, delete_prices, the baseline;
\*   signals are suppressed, and the item is queued at the end of the transaction.
\* "bulk": the special prices of bulk_edit_prices; queued after their commit.
\* "vat": the VAT recalculation; bulk_update fires no signal.
Kind == {"signal", "service", "bulk", "vat"}

VARIABLES
    price,      \* the committed version of each price
    matrix,     \* the version in the read model
    enabled,    \* the toggle, as the processes see it
    pending,    \* the set in Redis
    lock,       \* the key in Redis
    tasks,      \* flush tasks that wait for a worker
    flush,      \* the one that runs: its step and the items it took
    proc,       \* each writer's step, item and uncommitted version
    promised,   \* items that were in the set when a task was sent after their change
    changes, toggles

vars == <<price, matrix, enabled, pending, lock, tasks, flush, proc, promised, changes, toggles>>

Idle == [step |-> "idle", item |-> Null, draft |-> Null]
NoFlush == [step |-> "idle", items |-> {}]

Goto(w, step) == proc' = [proc EXCEPT ![w].step = step]

\* Where a writer goes once it has queued its item, or failed to.
AfterQueueing(w) == IF proc[w].draft = Null THEN "end" ELSE "commit"

\* should_skip.
Skipped(kind, item) == kind = "signal" /\ (~enabled \/ item \in Denied)

\* A price is changed: at once, or in a transaction that commits later.
Change(w, kind, item) ==
    LET version == changes + 1
        inside  == kind \in {"signal", "service"}
    IN  /\ proc[w].step = "idle"
        /\ kind \in Kinds
        /\ changes < MaxChanges
        \* A row that another transaction has written is locked.
        /\ \A v \in Writer : proc[v].draft # Null => proc[v].item # item
        /\ changes' = version
        /\ price' = IF inside THEN price ELSE [price EXCEPT ![item] = version]
        /\ proc' = [proc EXCEPT ![w] =
               [step  |-> IF kind = "vat" THEN "end"
                               ELSE IF Skipped(kind, item) THEN "commit" ELSE "zadd",
                item  |-> item,
                draft |-> IF inside THEN version ELSE Null]]
        /\ promised' = promised \ {item}
        /\ UNCHANGED <<matrix, enabled, pending, lock, tasks, flush, toggles>>

\* Seeded fault: the set is written anew by each caller.
Zadd_Replaces(w) ==
    /\ proc[w].step = "zadd"
    /\ pending' = {proc[w].item}
    /\ Goto(w, "lock")
    /\ UNCHANGED <<price, matrix, enabled, lock, tasks, flush, changes, toggles, promised>>

\* enqueue_price_sync, command by command.
Zadd(w) ==
    /\ proc[w].step = "zadd"
    /\ pending' = pending \cup {proc[w].item}
    /\ Goto(w, "lock")
    /\ UNCHANGED <<price, matrix, enabled, lock, tasks, flush, changes, toggles, promised>>

\* Seeded fault: the task is taken for sent whether the lock was free or not.
SetLock_NeverSends(w) ==
    /\ proc[w].step = "lock"
    /\ lock' = TRUE
    /\ Goto(w, AfterQueueing(w))
    /\ UNCHANGED <<price, matrix, enabled, pending, tasks, flush, changes, toggles, promised>>

SetLock(w) ==
    /\ proc[w].step = "lock"
    /\ lock' = TRUE
    /\ Goto(w, IF lock THEN AfterQueueing(w) ELSE "send")
    /\ UNCHANGED <<price, matrix, enabled, pending, tasks, flush, changes, toggles, promised>>

SendTask(w) ==
    /\ proc[w].step = "send"
    /\ tasks < MaxTasks
    /\ tasks' = tasks + 1
    /\ promised' = promised \cup pending
    /\ Goto(w, AfterQueueing(w))
    /\ UNCHANGED <<price, matrix, enabled, pending, lock, flush, changes, toggles>>

\* An exception of Redis or the broker is swallowed.
EnqueueFails(w) ==
    /\ MayFail
    /\ proc[w].step \in {"zadd", "lock", "send"}
    /\ Goto(w, AfterQueueing(w))
    /\ UNCHANGED <<price, matrix, enabled, pending, lock, tasks, flush, changes, toggles, promised>>

Commit(w) ==
    /\ proc[w].step = "commit"
    /\ price' = [price EXCEPT ![proc[w].item] = proc[w].draft]
    /\ proc' = [proc EXCEPT ![w].step = "end", ![w].draft = Null]
    /\ UNCHANGED <<matrix, enabled, pending, lock, tasks, flush, changes, toggles, promised>>

\* A failed transaction; what it queued stays queued.
Rollback(w) ==
    /\ proc[w].step = "commit"
    /\ proc' = [proc EXCEPT ![w].step = "end", ![w].draft = Null]
    /\ UNCHANGED <<price, matrix, enabled, pending, lock, tasks, flush, changes, toggles, promised>>

End(w) ==
    /\ proc[w].step = "end"
    /\ proc' = [proc EXCEPT ![w] = Idle]
    /\ UNCHANGED <<price, matrix, enabled, pending, lock, tasks, flush, changes, toggles, promised>>

\* The lock's expiry, one second after the task is due.
LockExpires ==
    /\ lock
    /\ lock' = FALSE
    /\ UNCHANGED <<price, matrix, enabled, pending, tasks, flush, proc, changes, toggles, promised>>

FlushStart ==
    /\ flush.step = "idle" /\ tasks > 0
    /\ tasks' = tasks - 1
    /\ lock' = FALSE
    /\ flush' = [flush EXCEPT !.step = "take"]
    /\ UNCHANGED <<price, matrix, enabled, pending, proc, changes, toggles, promised>>

FlushTake ==
    /\ flush.step = "take"
    /\ flush' = [step |-> "apply", items |-> pending]
    /\ pending' = {}
    /\ UNCHANGED <<price, matrix, enabled, lock, tasks, proc, changes, toggles, promised>>

FlushApply ==
    /\ flush.step = "apply"
    /\ matrix' = [item \in Item |-> IF item \in flush.items THEN price[item] ELSE matrix[item]]
    /\ flush' = NoFlush
    /\ UNCHANGED <<price, enabled, pending, lock, tasks, proc, changes, toggles, promised>>

Toggle ==
    /\ toggles < MaxToggles
    /\ toggles' = toggles + 1
    /\ enabled' = ~enabled
    /\ UNCHANGED <<price, matrix, pending, lock, tasks, flush, proc, changes, promised>>

-----------------------------------------------------------------------------
Init ==
    /\ price = [item \in Item |-> 0] /\ matrix = price
    /\ enabled = TRUE
    /\ pending = {} /\ lock = FALSE /\ tasks = 0
    /\ flush = NoFlush
    /\ proc = [w \in Writer |-> Idle]
    /\ promised = {} /\ changes = 0 /\ toggles = 0

Step(w) ==
    \/ Zadd(w) \/ SetLock(w) \/ SendTask(w) \/ EnqueueFails(w)
    \/ Commit(w) \/ Rollback(w) \/ End(w)

Flushing == FlushStart \/ FlushTake \/ FlushApply

Next ==
    \/ \E w \in Writer : (\E kind \in Kind, item \in Item : Change(w, kind, item)) \/ Step(w)
    \/ Flushing \/ LockExpires \/ Toggle

Spec == Init /\ [][Next]_vars

\* A request that has begun goes on, and a worker takes the tasks.
FairSpec == Spec /\ (\A w \in Writer : WF_vars(Step(w))) /\ WF_vars(Flushing)

-----------------------------------------------------------------------------
Working(w) == proc[w].step # "idle"
Settled == (\A w \in Writer : ~Working(w)) /\ tasks = 0 /\ flush = NoFlush

\* The shape of the state; the flush holds items only while it applies them,
\* and only a writer in a transaction has a version that is not committed.
TypeOK ==
    /\ price \in [Item -> Nat] /\ matrix \in [Item -> Nat]
    /\ enabled \in BOOLEAN /\ lock \in BOOLEAN /\ tasks \in Nat
    /\ pending \subseteq Item
    /\ flush \in [step : {"idle", "take", "apply"}, items : SUBSET Item]
    /\ flush.items # {} => flush.step = "apply"
    /\ \A w \in Writer : proc[w].step \in {"idle", "end"} => proc[w].draft = Null
    /\ \A item \in Item : matrix[item] <= price[item]

\* As long as Redis and the broker answer, an item in the set is never left to
\* the next edit: a flush has yet to take the set, or a writer has yet to send it.
NobodyWaitsInVain ==
    pending # {} =>
        \/ tasks > 0 \/ flush.step = "take"
        \/ \E w \in Writer : proc[w].step \in {"lock", "send"}

\* "Enable automatic Matrix read model sync on price changes" (pm_settings.py:12):
\* after the last change the read model comes to have the price, and keeps it.
MatrixCatchesUp == \A item \in Item : <>[](matrix[item] = price[item])

\* What one call fails to have flushed, a later one makes up for: once a task has
\* been sent, everything in the set, whoever put it there, reaches the read model
\* with its latest price.  (For changes that are queued after their commit.)
SentIsSynced == Settled => \A item \in promised : matrix[item] = price[item]

=============================================================================
