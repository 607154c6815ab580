------------------------- MODULE MCPushSubscription -------------------------
(***************************************************************************)
(* A small instance of PushSubscription: two users share two browsers.     *)
(***************************************************************************)
EXTENDS PushSubscription

CONSTANTS u1, u2, b1, b2, s1, s2

TwoUsers == {u1, u2}
TwoBrowsers == {b1, b2}
TwoSends == {s1, s2}
=============================================================================
