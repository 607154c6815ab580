---------------------------- MODULE MCChatGateway ----------------------------
(***************************************************************************)
(* Small instances of ChatGateway: an owner and a member of one or two     *)
(* groups that exist already, and their sockets.                           *)
(***************************************************************************)
EXTENDS ChatGateway, TLC

CONSTANTS
  u1, u2, s1, s2, s3,
  Later   \* the conversations that do not exist yet

TwoUsers == {u1, u2}
Owner == {u1}
MemberHasTabA == s2 :> u2
OwnerHasOneTab == s1 :> u1
TwoTabs == (s2 :> u2) @@ (s3 :> u2)

Old == Conversations \ Later

\* The other conversations are groups of u1, their owner, and u2, as
\* createConversation leaves them; its calls are over.
GroupsExist ==
  /\ NoEvents
  /\ kind = [c \in Conversations |-> IF c \in Old THEN "GROUP" ELSE "NONE"]
  /\ participant = [c \in Conversations |->
                      IF c \in Old THEN InitialRows(u1, {u2}) ELSE InitialRows(None, {})]
  /\ messages = [c \in Conversations |->
                   IF c \in Old THEN InitialMessages("GROUP", {u2}) ELSE << >>]
  /\ request = [r \in Requests |-> Idle]

GroupSpec == GroupsExist /\ [][GwNext]_gwvars
FairGroupSpec == GroupSpec /\ Fairness
=============================================================================
