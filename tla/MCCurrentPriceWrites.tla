------------------------- MODULE MCCurrentPriceWrites -------------------------
(****************************************************************************)
(* Instances of CurrentPriceWrites small enough for TLC.                    *)
(****************************************************************************)
EXTENDS CurrentPriceWrites, TLC

\* A minimum advertised price of 12, and a minimum margin of 10%.
MapOnly == [map_value |-> 12, min_margin |-> Null]
MapAndMargin == [map_value |-> 12, min_margin |-> 1]

\* Edits of the whole channel in all its currencies, and all the narrower ones.
WholeChannel == {[currency |-> Null, country |-> Null]}
AllScopes == [currency : Currency \cup {Null}, country : Country \cup {Null}]

\* No policy row: the guard's defaults.
NoPolicy == <<>>

\* Baseline may overwrite API prices; admin edits are clamped, not rejected.
SeededPolicy ==
    [s \in {"api", "admin_edit"} |->
        IF s = "api" THEN [enforce_mode |-> "reject", recalc_overwritable |-> TRUE]
                     ELSE [enforce_mode |-> "clamp", recalc_overwritable |-> FALSE]]

\* What a process has read and still needs: when only the history is left to write, no
\* amounts, but which entries refer to a tax rate.
StillUsed(p) ==
    IF pc[p] \in {"special_log", "flush_commit", "delete_commit", "vat_log"}
    THEN [local[p] EXCEPT !.seen = Referring(p), !.floors = Null,
                          !.rates = {c \in Country : local[p].rates[c] # Null}]
    ELSE local[p]

\* The history is only ever written, so a run whose properties do not read it may
\* take states that differ in nothing else for one.  (The last components are TRUE;
\* they have TLC evaluate both before it stores a state.)
WithoutHistory ==
    <<rows, rate, cost, tombstone, queued, once, pc, [p \in Procs |-> StillUsed(p)],
      history = history, local = local>>

\* Processes that serve requests and tasks alike may change places.
ProcsAlike == Permutations(WebProcs)
=============================================================================
