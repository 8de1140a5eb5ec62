--------------------------- MODULE MCConversation ---------------------------
(* Small instances of Conversation for TLC. *)
EXTENDS Conversation, TLC

Symmetry == Permutations(Keys) \cup Permutations(Calls) \cup Permutations(Investigations)
=============================================================================
