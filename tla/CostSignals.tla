------------------------------ MODULE CostSignals ------------------------------
(****************************************************************************)
(* From a purchase cost to the baseline price.  A saved PurchaseCost puts   *)
(* its (product, channel) into a dictionary on the database connection and  *)
(* has one recalculation run after the commit; a cost of the supplier       *)
(* stream is itself applied in a callback after the commit of the           *)
(* transaction that announced it.  Transactions have savepoints, and        *)
(* rolling one back takes its callbacks away.                               *)
(*                                                                          *)
(* Transactions, savepoints and run_on_commit are Django's and modelled     *)
(* from how the signal handlers use them.  Each frame of a connection's     *)
(* stack holds what was written and registered since its savepoint, the     *)
(* first since the transaction began; the stack is empty in autocommit.     *)
(****************************************************************************)
EXTENDS Naturals, Sequences

CONSTANTS
    Conn,        \* database connections: one per thread
    Pair,        \* (product, channel)
    Null,
    Primary,     \* pairs whose supplier is linked, preferred and resolves
    Saves,       \* whether costs are saved directly (Django admin, commands)
    Stream,      \* whether the supplier stream announces costs
    MayRaise,    \* whether a recalculation may raise
    MaxCosts,    \* bound of the model: costs saved or announced
    MaxDepth     \* bound of the model: frames of a transaction

ASSUME CostAssumption ==
    /\ Primary \subseteq Pair
    /\ Saves \in BOOLEAN /\ Stream \in BOOLEAN /\ MayRaise \in BOOLEAN
    /\ Null \notin Nat \cup Pair

VARIABLES
    cost,      \* PurchaseCost, as committed
    price,     \* the cost each baseline price was computed from
    stack,     \* the frames of each connection
    pending,   \* the dictionary on each connection; None is the empty one
    running,   \* the callbacks each connection still has to run after a commit
    seen,      \* what a recalculation has read
    offered,   \* the costs announced by committed transactions, by the last one
    costs      \* costs saved or announced so far, which makes each one new

vars == <<cost, price, stack, pending, running, seen, offered, costs>>

\* A callback: _flush_pending, or _handle of an announced cost.
Event(pair, value) == [pair |-> pair, value |-> value]
Flush == Event(Null, 0)
Hook == {Flush} \cup [pair : Pair, value : Nat]

NoWrites == [pair \in Pair |-> Null]
Over(old, new) == [pair \in Pair |-> IF new[pair] = Null THEN old[pair] ELSE new[pair]]

Frame == [writes : [Pair -> Nat \cup {Null}], hooks : Seq(Hook)]
NewFrame == [writes |-> NoWrites, hooks |-> <<>>]

InTransaction(c) == stack[c] # <<>>
Depth(c) == Len(stack[c])
Quiet(c) == stack[c] = <<>> /\ running[c] = <<>>

Registered(hooks, hook) == \E i \in DOMAIN hooks : hooks[i] = hook
Scheduled(c) == \E d \in DOMAIN stack[c] : Registered(stack[c][d].hooks, Flush)

\* A row another transaction has written and not committed is locked.
Free(c, pair) ==
    \A other \in Conn \ {c} : \A d \in DOMAIN stack[other] : stack[other][d].writes[pair] = Null

(************************** signals/baseline.py *****************************)
\* Seeded fault: a dictionary that is there is taken for a scheduled flush.
AlreadyScheduled_Flag(c) == pending[c] # {}

AlreadyScheduled(c) == Scheduled(c)

\* on_purchase_cost_saved: the pair goes into the dictionary, a new one unless
\* a flush is scheduled.
Collected(c, pair) ==
    IF AlreadyScheduled(c) THEN pending[c] \cup {pair} ELSE {pair}

\* Seeded fault: the price is computed in the transaction that saves the cost.
Save_AtOnce(c, pair) ==
    /\ Saves /\ InTransaction(c) /\ running[c] = <<>>
    /\ costs < MaxCosts
    /\ costs' = costs + 1
    /\ stack' = [stack EXCEPT ![c][Depth(c)].writes[pair] = costs + 1]
    /\ price' = [price EXCEPT ![pair] = costs + 1]
    /\ UNCHANGED <<cost, pending, running, seen, offered>>

\* A cost is saved in a transaction: the flush is registered in the innermost
\* frame, if none is registered in any.
Save(c, pair) ==
    LET top == Depth(c)
    IN  /\ Saves /\ InTransaction(c) /\ running[c] = <<>>
        /\ costs < MaxCosts
        /\ Free(c, pair)
        /\ costs' = costs + 1
        /\ pending' = [pending EXCEPT ![c] = Collected(c, pair)]
        /\ stack' = [stack EXCEPT ![c][top] =
                        [writes |-> [@.writes EXCEPT ![pair] = costs + 1],
                         hooks  |-> IF AlreadyScheduled(c) THEN @.hooks ELSE Append(@.hooks, Flush)]]
        /\ UNCHANGED <<cost, price, running, seen, offered>>

\* A cost is saved in autocommit: on_commit runs the flush on the spot.
SaveAutocommit(c, pair) ==
    /\ Saves /\ Quiet(c)
    /\ costs < MaxCosts
    /\ Free(c, pair)
    /\ costs' = costs + 1
    /\ cost' = [cost EXCEPT ![pair] = costs + 1]
    /\ pending' = [pending EXCEPT ![c] = Collected(c, pair)]
    /\ running' = [running EXCEPT ![c] = <<Flush>>]
    /\ UNCHANGED <<price, stack, seen, offered>>

\* _flush_pending takes the dictionary; recalculate_baseline_bulk reads costs,
\* and is done when there are none.
FlushRead(c) ==
    LET read == [pair \in Pair |-> IF pair \in pending[c] THEN cost[pair] ELSE Null]
    IN  /\ running[c] # <<>> /\ Head(running[c]) = Flush /\ seen[c] = NoWrites
        /\ pending' = [pending EXCEPT ![c] = {}]
        /\ seen' = [seen EXCEPT ![c] = read]
        /\ running' = [running EXCEPT ![c] = IF read = NoWrites THEN Tail(@) ELSE @]
        /\ UNCHANGED <<cost, price, stack, offered, costs>>

\* It writes prices in a transaction of its own.
FlushWrite(c) ==
    /\ seen[c] # NoWrites
    /\ price' = Over(price, seen[c])
    /\ seen' = [seen EXCEPT ![c] = NoWrites]
    /\ running' = [running EXCEPT ![c] = Tail(@)]
    /\ UNCHANGED <<cost, stack, pending, offered, costs>>

\* It raises, or the process dies: what was to run after it does not run.
FlushFail(c) ==
    /\ MayRaise
    /\ seen[c] # NoWrites
    /\ seen' = [seen EXCEPT ![c] = NoWrites]
    /\ running' = [running EXCEPT ![c] = <<>>]
    /\ UNCHANGED <<cost, price, stack, pending, offered, costs>>

(*********************** signals/supplier_cost.py ***************************)
\* cost_updated_signal: the announced cost is kept in a callback.  Outside a
\* transaction the callback runs on the spot.
Announce(c, pair) ==
    LET event == Event(pair, costs + 1)
        top   == Depth(c)
    IN  /\ Stream /\ running[c] = <<>>
        /\ costs < MaxCosts
        /\ costs' = costs + 1
        /\ \/ /\ InTransaction(c)
              /\ stack' = [stack EXCEPT ![c][top].hooks = Append(@, event)]
              /\ UNCHANGED <<running, offered>>
           \/ /\ ~InTransaction(c)
              /\ running' = [running EXCEPT ![c] = <<event>>]
              /\ offered' = [offered EXCEPT ![pair] = costs + 1]
              /\ UNCHANGED stack
        /\ UNCHANGED <<cost, price, pending, seen>>

\* _handle and apply_supplier_cost: nothing for a pair that is not resolved or
\* has another preferred supplier, nor for the cost there is; otherwise the cost
\* is saved in a transaction of its own, whose flush runs at its commit, before
\* the callbacks that are left.  run_on_commit is empty by then, so the
\* dictionary is a new one.
Apply(c) ==
    LET event == Head(running[c])
        pair  == event.pair
    IN  /\ running[c] # <<>> /\ event # Flush
        /\ IF pair \in Primary /\ cost[pair] # event.value
           THEN /\ Free(c, pair)
                /\ cost' = [cost EXCEPT ![pair] = event.value]
                /\ pending' = [pending EXCEPT ![c] = Collected(c, pair)]
                /\ running' = [running EXCEPT ![c] = <<Flush>> \o Tail(@)]
           ELSE /\ running' = [running EXCEPT ![c] = Tail(@)]
                /\ UNCHANGED <<cost, pending>>
        /\ UNCHANGED <<price, stack, seen, offered, costs>>

(************************ transactions (Django) *****************************)
Begin(c) ==
    /\ Quiet(c)
    /\ costs < MaxCosts
    /\ stack' = [stack EXCEPT ![c] = <<NewFrame>>]
    /\ UNCHANGED <<cost, price, pending, running, seen, offered, costs>>

Savepoint(c) ==
    /\ InTransaction(c) /\ Depth(c) < MaxDepth
    /\ stack' = [stack EXCEPT ![c] = Append(@, NewFrame)]
    /\ UNCHANGED <<cost, price, pending, running, seen, offered, costs>>

Last(s) == s[Len(s)]
Front(s) == [i \in 1 .. Len(s) - 1 |-> s[i]]

\* What a savepoint held belongs to the frame around it.
Release(c) ==
    LET top   == Last(stack[c])
        below == Front(stack[c])
        outer == Last(below)
    IN  /\ Depth(c) > 1
        /\ stack' = [stack EXCEPT ![c] =
                        [below EXCEPT ![Len(below)] = [writes |-> Over(outer.writes, top.writes),
                                                       hooks  |-> outer.hooks \o top.hooks]]]
        /\ UNCHANGED <<cost, price, pending, running, seen, offered, costs>>

\* Its writes and its callbacks are gone; the dictionary is not.
RollbackSavepoint(c) ==
    /\ Depth(c) > 1
    /\ stack' = [stack EXCEPT ![c] = Front(@)]
    /\ UNCHANGED <<cost, price, pending, running, seen, offered, costs>>

\* Seeded fault: the callbacks run whether the transaction commits or not.
Rollback_RunsHooks(c) ==
    /\ InTransaction(c)
    /\ running' = [running EXCEPT ![c] = stack[c][1].hooks]
    /\ stack' = [stack EXCEPT ![c] = <<>>]
    /\ UNCHANGED <<cost, price, pending, seen, offered, costs>>

Rollback(c) ==
    /\ InTransaction(c)
    /\ stack' = [stack EXCEPT ![c] = <<>>]
    /\ UNCHANGED <<cost, price, pending, running, seen, offered, costs>>

\* The last cost a frame's callbacks announce for a pair, or Null.
Announced(hooks, pair) ==
    LET its == {i \in DOMAIN hooks : hooks[i].pair = pair}
    IN  IF its = {} THEN Null ELSE hooks[CHOOSE i \in its : \A k \in its : k <= i].value

Commit(c) ==
    LET all == stack[c][1]
    IN  /\ Depth(c) = 1
        /\ cost' = Over(cost, all.writes)
        /\ offered' = Over(offered, [pair \in Pair |-> Announced(all.hooks, pair)])
        /\ running' = [running EXCEPT ![c] = all.hooks]
        /\ stack' = [stack EXCEPT ![c] = <<>>]
        /\ UNCHANGED <<price, pending, seen, costs>>

-----------------------------------------------------------------------------
Init ==
    /\ cost = NoWrites /\ price = NoWrites /\ offered = NoWrites
    /\ stack = [c \in Conn |-> <<>>]
    /\ pending = [c \in Conn |-> {}]
    /\ running = [c \in Conn |-> <<>>]
    /\ seen = [c \in Conn |-> NoWrites]
    /\ costs = 0

Next == \E c \in Conn :
    \/ \E pair \in Pair : Save(c, pair) \/ SaveAutocommit(c, pair) \/ Announce(c, pair)
    \/ FlushRead(c) \/ FlushWrite(c) \/ FlushFail(c) \/ Apply(c)
    \/ Begin(c) \/ Savepoint(c) \/ Release(c) \/ RollbackSavepoint(c)
    \/ Rollback(c) \/ Commit(c)

Spec == Init /\ [][Next]_vars

-----------------------------------------------------------------------------
\* The shape of a connection: callbacks run only outside transactions, a
\* recalculation is that of the first one, and a transaction has registered one
\* flush at most, in whichever frames its saves were.
TypeOK ==
    /\ cost \in [Pair -> Nat \cup {Null}]
    /\ price \in [Pair -> Nat \cup {Null}]
    /\ offered \in [Pair -> Nat \cup {Null}]
    /\ stack \in [Conn -> Seq(Frame)]
    /\ pending \in [Conn -> SUBSET Pair]
    /\ running \in [Conn -> Seq(Hook)]
    /\ seen \in [Conn -> [Pair -> Nat \cup {Null}]]
    /\ costs \in Nat
    /\ \A c \in Conn :
          /\ running[c] # <<>> => stack[c] = <<>>
          /\ seen[c] # NoWrites => running[c] # <<>> /\ Head(running[c]) = Flush
          /\ \A d, e \in DOMAIN stack[c] : \A i \in DOMAIN stack[c][d].hooks, k \in DOMAIN stack[c][e].hooks :
                stack[c][d].hooks[i] = Flush /\ stack[c][e].hooks[k] = Flush => d = e /\ i = k

\* While a cost saved in a transaction may still be committed, it is in the
\* dictionary and a flush is registered that no rollback can take away from it:
\* one in its own frame or in one around it (signals/baseline.py:60-72).
NothingStarved ==
    \A c \in Conn : \A d \in DOMAIN stack[c] : \A pair \in Pair :
        stack[c][d].writes[pair] # Null =>
            /\ pair \in pending[c]
            /\ \E e \in 1 .. d : Registered(stack[c][e].hooks, Flush)

\* Once every transaction and its callbacks have ended, each baseline price has
\* been computed from the cost there is: no commit goes without its
\* recalculation, however savepoints came and went ("Triggered by post_save on
\* PurchaseCost", docs/write-guard.md:46).
CostsArePriced == (\A c \in Conn : Quiet(c)) => price = cost

\* A price is computed from a cost that is committed, never from one that may
\* still be rolled back: the trigger waits for the commit (signals/baseline.py:65).
PricedFromCommitted ==
    \A c \in Conn : \A d \in DOMAIN stack[c] : \A pair \in Pair :
        price[pair] # Null => stack[c][d].writes[pair] # price[pair]

\* "Project the primary-source cost into PurchaseCost" (signals/supplier_cost.py:5):
\* once every callback has run, the cost is the one announced last.
StreamIsProjected ==
    (\A c \in Conn : Quiet(c)) => \A pair \in Primary : offered[pair] # Null => cost[pair] = offered[pair]
=============================================================================
