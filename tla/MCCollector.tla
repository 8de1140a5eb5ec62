---------------------------- MODULE MCCollector ----------------------------
(***************************************************************************)
(* Four addresses in a chain 2 - 1 - 3 - 4 around the target 2, a transfer *)
(* of the target to itself, and four events in three transactions.  The    *)
(* second and the third share one: they may be twins, on one page or       *)
(* (behind the first) across two.                                          *)
(***************************************************************************)
EXTENDS Collector

Edges == {<<2, 1>>, <<1, 3>>, <<3, 4>>, <<2, 2>>, <<3, 2>>}
Transactions == <<2, 1, 1, 3>>

MCLedgers ==
    {[e \in 1..4 |-> [tx |-> Transactions[e], from |-> edge[e][1], to |-> edge[e][2],
                      kind |-> IF e = 4 THEN kind ELSE "valid"]] :
        edge \in [1..4 -> Edges], kind \in EventKinds}

\* The second log of the shared transaction has the smaller name.
MCLogKey == <<1, 3, 2, 4>>
=============================================================================
