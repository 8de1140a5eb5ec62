---------------------------- MODULE MCAgentTurn ----------------------------
(***************************************************************************)
(* Two turns on either of two Investigations, one of which gets two        *)
(* Datasets, with a store that holds a single session: each opening evicts *)
(* the session of the other Investigation.                                 *)
(***************************************************************************)
EXTENDS AgentTurn

MCInvestigations == {"a", "b"}
MCLastDataset == [a |-> 2, b |-> 0]
=============================================================================
