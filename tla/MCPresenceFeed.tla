--------------------------- MODULE MCPresenceFeed ---------------------------
(***************************************************************************)
(* Small instances of PresenceFeed.                                        *)
(***************************************************************************)
EXTENDS PresenceFeed, TLC

CONSTANTS u1, u2, s1, s2, s3

\* u1 opens two connections, u2 one.
ThreeSockets == (s1 :> u1) @@ (s2 :> u1) @@ (s3 :> u2)
Together == {{u1, u2}}
=============================================================================
