------------------------------ MODULE MCHttpApi ------------------------------
(***************************************************************************)
(* Small instances of HttpApi.  Some logins and passwords hold a colon,    *)
(* and one login is empty.                                                 *)
(***************************************************************************)
EXTENDS HttpApi, TLC

RootLogin == <<"root">>
SomeLogins == {<<"bob">>, <<"">>, <<"bob", "b">>}
SomePasswords == {<<"secret">>, <<"secret", "s">>, <<"", "secret">>}
Secret == <<"secret">>

AllRoutes == DOMAIN Routes
\* Users, sign-in, and the three routes of invitations.
AccountRoutes == 1 .. 6
Alike == Permutations(Invitations) \cup Permutations(Calls)
=============================================================================
