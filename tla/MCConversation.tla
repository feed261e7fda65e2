--------------------------- MODULE MCConversation ---------------------------
(* Instances of Conversation for TLC.                                       *)
EXTENDS Conversation, TLC

CONSTANTS h1, h2, d1, d2

TwoTimes == 1..2
TwoHandlers == {h1, h2}
TwoDialogs == {d1, d2}

\* The handlers differ in nothing but their names, and so do the dialogs.
Renamings == Permutations(TwoHandlers) \cup Permutations(TwoDialogs)
=============================================================================
