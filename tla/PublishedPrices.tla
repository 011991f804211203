---------------------------- MODULE PublishedPrices ----------------------------
(****************************************************************************)
(* What the price lists of a shop promise those who read prices from them:  *)
(* a market's price list is only ever replaced by one that was begun later; *)
(* prices are only withdrawn when a collection of old lists was overtaken.  *)
(****************************************************************************)
EXTENDS Naturals

CONSTANT Market     \* a country, a currency and a customer

VARIABLES
    shown,      \* the version each market is shown, 0 before there is any
    overtaken   \* whether a list that is about to be deleted has become a new one

Init == shown = [m \in Market |-> 0]

Changed == {m \in Market : shown'[m] # shown[m]}

\* A list becomes the one shown in some markets, where it is the newest.
Publish ==
    /\ shown' \in [Market -> Nat]
    /\ \A m \in Changed : shown[m] < shown'[m]
    /\ \A m, n \in Changed : shown'[m] = shown'[n]

\* Some markets lose the list they are shown.
Withdraw ==
    /\ overtaken
    /\ shown' \in [Market -> Nat]
    /\ \A m \in Changed : shown'[m] < shown[m]

Spec == Init /\ [][Publish \/ Withdraw]_shown
=============================================================================
