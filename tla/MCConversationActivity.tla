----------------------- MODULE MCConversationActivity -----------------------
(***************************************************************************)
(* Small instances of ConversationActivity.                                *)
(***************************************************************************)
EXTENDS ConversationActivity

CONSTANTS u1, u2

TwoUsers == {u1, u2}
AlikeUsers ==
  Permutations(TwoUsers) \cup Permutations(Requests) \cup Permutations(Conversations)
=============================================================================
