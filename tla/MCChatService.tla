---------------------------- MODULE MCChatService ----------------------------
(***************************************************************************)
(* Small instances of ChatService for model checking.                      *)
(***************************************************************************)
EXTENDS ChatService, TLC

CONSTANTS u1, u2, u3

ThreeUsers == {u1, u2, u3}
OneAdmin == {u1}

\* Users who are not admins, the calls and the conversations are alike.
AlikeOneAdmin ==
  Permutations({u2, u3}) \cup Permutations(Requests) \cup Permutations(Conversations)
=============================================================================
