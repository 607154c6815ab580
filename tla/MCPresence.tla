----------------------------- MODULE MCPresence -----------------------------
(***************************************************************************)
(* Small instances of Presence.                                            *)
(***************************************************************************)
EXTENDS Presence, TLC

CONSTANTS u1, s1, s2

\* u1 has two tabs.
TwoTabs == (s1 :> u1) @@ (s2 :> u1)
=============================================================================
