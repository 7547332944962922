--------------------------- MODULE MCConversation ---------------------------
(* ConversationMemory on small instances. *)
EXTENDS ConversationMemory, TLC

CONSTANTS t1, t2

TwoTurns == {t1, t2}
AnyOrder == Permutations(Turns)
=============================================================================
