------------------------- MODULE MCConversationTurn -------------------------
(* Instances of ConversationTurn for TLC: two read-only rounds (one of them *)
(* without a path), a mutating one and one that is neither.                 *)
EXTENDS ConversationTurn

CONSTANTS read, readEmpty, write, other

MCSigs == {read, readEmpty, write, other}
MCReadOnly == {read, readEmpty}
MCMutating == {write}
MCEmptyPath == {readEmpty}
=============================================================================
