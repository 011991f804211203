------------------------------- MODULE MCSignals -------------------------------
(****************************************************************************)
(* Instances of what runs behind a saved row, CostSignals and MatrixSync,   *)
(* small enough for TLC.  A behaviour is of one scenario: the connections   *)
(* and writers of one of them move, all the rest stays in its first state.  *)
(****************************************************************************)
EXTENDS CostSignals, TLC

CONSTANT Scenarios

\* MatrixSync's variables under their own names; `price` and others are taken.
VARIABLES
    scenario,
    version, matrix, enabled, set, lock, tasks, flush, writer, promised, changes, toggles

matrixVars ==
    <<version, matrix, enabled, set, lock, tasks, flush, writer, promised, changes, toggles>>

(******************************* CostSignals ********************************)
\* Costs saved, and costs announced, by one connection; costs saved by both,
\* whose recalculations may raise.
Saved == INSTANCE CostSignals WITH Stream <- FALSE, MayRaise <- FALSE
Announced1 == INSTANCE CostSignals WITH Saves <- FALSE, MayRaise <- FALSE
Overlapping == INSTANCE CostSignals WITH Stream <- FALSE

Alone == LET first == CHOOSE c \in Conn : TRUE IN \A c \in Conn \ {first} : Quiet(c)'

Small == costs' <= 3 /\ \A c \in Conn : Len(stack[c]') <= 2

CostStep ==
    \/ scenario = "saves" /\ Saved!Next /\ Alone
    \/ scenario = "stream" /\ Announced1!Next /\ Alone
    \/ scenario = "overlap" /\ Overlapping!Next /\ Small
    \/ scenario = "mixed" /\ Next /\ Alone

(******************************** MatrixSync ********************************)
\* Writers of every kind while the toggle is switched; Redis refusing calls;
\* prices queued after their commit.
Queue == INSTANCE MatrixSync WITH
    price <- version, pending <- set, proc <- writer,
    Item <- {"a", "b"}, Denied <- {"b"}, Writer <- {"w1", "w2"},
    Kinds <- {"signal", "service", "bulk", "vat"}, MayFail <- FALSE,
    MaxChanges <- 3, MaxToggles <- 1, MaxTasks <- 3
Refused == INSTANCE MatrixSync WITH
    price <- version, pending <- set, proc <- writer,
    Item <- {"a", "b"}, Denied <- {"b"}, Writer <- {"w1", "w2"},
    Kinds <- {"bulk", "vat"}, MayFail <- TRUE,
    MaxChanges <- 4, MaxToggles <- 0, MaxTasks <- 3
Bulk == INSTANCE MatrixSync WITH
    price <- version, pending <- set, proc <- writer,
    Item <- {"a", "b"}, Denied <- {"b"}, Writer <- {"w1", "w2"},
    Kinds <- {"bulk"}, MayFail <- FALSE,
    MaxChanges <- 3, MaxToggles <- 0, MaxTasks <- 3

MatrixStep ==
    \/ scenario = "queue" /\ Queue!Next
    \/ scenario = "refused" /\ Refused!Next
    \/ scenario = "bulk" /\ Bulk!Next

-----------------------------------------------------------------------------
MCInit == scenario \in Scenarios /\ Init /\ Queue!Init

MCNext ==
    /\ UNCHANGED scenario
    /\ \/ CostStep /\ UNCHANGED matrixVars
       \/ MatrixStep /\ UNCHANGED vars

MCSpec == MCInit /\ [][MCNext]_<<scenario, vars, matrixVars>>

\* Fairness is for the scenario whose property needs it.
BulkWriter(w) == scenario = "bulk" /\ Bulk!Step(w) /\ UNCHANGED <<scenario, vars>>
BulkFlush == scenario = "bulk" /\ Bulk!Flushing /\ UNCHANGED <<scenario, vars>>

FairMCSpec ==
    /\ MCSpec
    /\ \A w \in {"w1", "w2"} : WF_matrixVars(BulkWriter(w))
    /\ WF_matrixVars(BulkFlush)

-----------------------------------------------------------------------------
\* Of connections that do not overlap: with savepoints released and rolled back, a
\* cost that was saved and committed is recalculated, and one that was announced and
\* committed is applied, the last one last (signals/baseline.py:27-72,
\* signals/supplier_cost.py:92).
CostsArriveInOrder ==
    /\ TypeOK
    /\ StreamIsProjected
    /\ scenario # "overlap" => CostsArePriced

\* No item of the set is left to the next edit, with writers of every kind
\* (signals/dispatch.py:27-42); and what a task was sent for reaches the read model
\* though Redis and the broker refuse calls (signals/dispatch.py:41).
QueueIsServed ==
    /\ Queue!TypeOK
    /\ scenario = "queue" => Queue!NobodyWaitsInVain
    /\ scenario = "refused" => Refused!SentIsSynced

\* After the last change the read model comes to have each price, and keeps it.
MatrixCatchesUp == scenario = "bulk" => Bulk!MatrixCatchesUp
=============================================================================
