---------------------------- MODULE MCClientFeed ----------------------------
(***************************************************************************)
(* Small instances of ClientFeed, on the groups of MCChatGateway.          *)
(***************************************************************************)
EXTENDS ClientFeed, MCChatGateway

ThreeTabs == (s1 :> u1) @@ (s2 :> u2) @@ (s3 :> u2)

\* The two tabs of u2, the calls and the joins may be exchanged.
Alike == Permutations({s2, s3}) \cup Permutations(Requests) \cup Permutations(Joins)

FeedGroupSpec == GroupsExist /\ FeedEmpty /\ [][FeedNext]_feedvars
=============================================================================
