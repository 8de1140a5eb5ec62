----------------------------- MODULE MCReading -----------------------------
(***************************************************************************)
(* The first Dataset holds any of eight transfers among four addresses:    *)
(* they have equal times, one transaction with two events, a transfer to   *)
(* oneself, one of nothing, and cycles of two, three and four transfers    *)
(* (one more than MaximumCycleHops).  The second holds two of them.        *)
(***************************************************************************)
EXTENDS Reading

Moved(at, tx, log, from, to, amount) ==
    [at |-> at, tx |-> tx, log |-> log, from |-> from, to |-> to, amount |-> amount]

Universe ==
    {Moved(1, 2, 0, 1, 2, 10), Moved(1, 2, 1, 2, 1, 10), Moved(2, 1, 0, 2, 3, 8),
     Moved(2, 3, 0, 3, 1, 7), Moved(3, 4, 0, 3, 4, 8), Moved(3, 5, 0, 2, 2, 5),
     Moved(4, 6, 0, 4, 1, 6), Moved(4, 7, 0, 1, 3, 0)}

MCContents == <<SUBSET Universe, {{t \in Universe : t.at = 2}}>>
=============================================================================
