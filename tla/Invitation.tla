----------------------------- MODULE Invitation -----------------------------
(***************************************************************************)
(* Invitations and the accounts they turn into: InvitationService.create   *)
(* and acceptByPublicId, with UserService.create.                          *)
(*                                                                         *)
(* Accepting an invitation is three database operations, not one: find it  *)
(* PENDING, insert the user, make it ACCEPTED.  Calls overlap, and each    *)
(* may fail between two of them.                                           *)
(***************************************************************************)
EXTENDS Naturals, FiniteSets

CONSTANTS
  Invitations,   \* identities an invitation may get
  Logins,        \* the logins people choose; unique among users
  Calls,         \* the acceptances attempted, each once
  Concurrency,   \* bound: how many of them may be in progress together
  Failures,      \* whether an awaited operation may fail
  None

ASSUME FailuresAssumption == Failures \in BOOLEAN
ASSUME ConcurrencyAssumption == Concurrency \in Nat
ASSUME NoneAssumption == None \notin Invitations

VARIABLES
  status,    \* status[i]: "NONE" until i is created, then PENDING or ACCEPTED
  account,   \* account[l]: the invitation whose acceptance made user l, or None
  call,      \* call[a]: how far acceptance a is, for which invitation and login
  torn       \* history: invitations an acceptance of which failed after its insert

vars == <<status, account, call, torn>>

Steps == {"idle", "found", "inserted", "ended"}
Call == [step : Steps, inv : Invitations \cup {None}, login : Logins \cup {None}]
Idle == [step |-> "idle", inv |-> None, login |-> None]
Ended == [step |-> "ended", inv |-> None, login |-> None]

Init ==
  /\ status = [i \in Invitations |-> "NONE"]
  /\ account = [l \in Logins |-> None]
  /\ call = [a \in Calls |-> Idle]
  /\ torn = {}

At(a, step) == call[a].step = step
InFlight == {a \in Calls : call[a].step \in {"found", "inserted"}}
Becomes(a, q) == call' = [call EXCEPT ![a] = q]

\* An admin creates an invitation.
Create(i) ==
  /\ status[i] = "NONE"
  /\ status' = [status EXCEPT ![i] = "PENDING"]
  /\ UNCHANGED <<account, call, torn>>

\* Mutated form: any invitation is found.
Acceptable_AnyStatus(i) == status[i] # "NONE"

\* getByPublicId: the invitation exists under these names and is PENDING.
Acceptable(i) == status[i] = "PENDING"

\* acceptByPublicId starts; NOT_FOUND and NOT_PENDING end it.
Find(a) ==
  /\ At(a, "idle") /\ Cardinality(InFlight) < Concurrency
  /\ \E i \in Invitations, l \in Logins :
       Becomes(a, IF Acceptable(i) THEN [step |-> "found", inv |-> i, login |-> l]
                                   ELSE Ended)
  /\ UNCHANGED <<status, account, torn>>

\* Mutated form: nothing keeps logins apart.
InsertUser_AnyLogin(a) ==
  LET q == call[a] IN
  /\ At(a, "found")
  /\ account' = [account EXCEPT ![q.login] = q.inv]
  /\ Becomes(a, [q EXCEPT !.step = "inserted"])
  /\ UNCHANGED <<status, torn>>

\* UserService.create: the password is hashed and the row inserted.  A login
\* that is taken violates the unique index and the acceptance ends there.
InsertUser(a) ==
  LET q == call[a] IN
  /\ At(a, "found")
  /\ IF account[q.login] = None
     THEN /\ account' = [account EXCEPT ![q.login] = q.inv]
          /\ Becomes(a, [q EXCEPT !.step = "inserted"])
     ELSE /\ Becomes(a, Ended)
          /\ UNCHANGED account
  /\ UNCHANGED <<status, torn>>

\* Mutated form: the invitation is made ACCEPTED before the user is inserted.
MarkAccepted_First(a) ==
  /\ At(a, "found")
  /\ status' = [status EXCEPT ![call[a].inv] = "ACCEPTED"]
  /\ UNCHANGED <<account, call, torn>>

\* Mutated form: the status is not written.
MarkAccepted_Forgotten(a) ==
  /\ At(a, "inserted")
  /\ Becomes(a, Ended)
  /\ UNCHANGED <<status, account, torn>>

\* invitation.update finds the row by its id and names: it does not ask whether
\* the invitation is still PENDING.
MarkAccepted(a) ==
  /\ At(a, "inserted")
  /\ status' = [status EXCEPT ![call[a].inv] = "ACCEPTED"]
  /\ Becomes(a, Ended)
  /\ UNCHANGED <<account, torn>>

\* An operation fails or the process dies; an inserted user stays.
Abort(a) ==
  /\ Failures
  /\ a \in InFlight
  /\ Becomes(a, Ended)
  /\ torn' = IF At(a, "inserted") THEN torn \cup {call[a].inv} ELSE torn
  /\ UNCHANGED <<status, account>>

AllEnded ==
  /\ \A a \in Calls : At(a, "ended")
  /\ \A i \in Invitations : status[i] # "NONE"
  /\ UNCHANGED vars

Next ==
  \/ \E i \in Invitations : Create(i)
  \/ \E a \in Calls : Find(a) \/ InsertUser(a) \/ MarkAccepted(a) \/ Abort(a)
  \/ AllEnded

Spec == Init /\ [][Next]_vars

-----------------------------------------------------------------------------
\* Invitations, accounts and acceptances keep their types.
TypeOK ==
  /\ status \in [Invitations -> {"NONE", "PENDING", "ACCEPTED"}]
  /\ account \in [Logins -> Invitations \cup {None}]
  /\ call \in [Calls -> Call]
  /\ torn \subseteq Invitations

AccountsOf(i) == {l \in Logins : account[l] = i}

\* An invitation is only ever ACCEPTED if somebody got an account from it: no
\* overlap, login conflict or failure uses it up in vain.
AcceptedMadeAccount ==
  \A i \in Invitations : status[i] = "ACCEPTED" => AccountsOf(i) # {}

\* An account from an invitation that is not ACCEPTED yet belongs to an acceptance
\* about to mark it, or an acceptance of it was torn by a failure.
PendingIsUnused ==
  \A i \in Invitations : status[i] # "ACCEPTED" /\ AccountsOf(i) # {} =>
    \/ \E a \in Calls : At(a, "inserted") /\ call[a].inv = i
    \/ i \in torn

\* The look at PENDING is not atomic with the insert, so one invitation may make
\* several accounts; unless an acceptance is torn it makes no more than there
\* are acceptances that overlap: one, if they come one at a time.
AccountsBoundedByOverlap ==
  \A i \in Invitations \ torn : Cardinality(AccountsOf(i)) <= Concurrency

\* What each acceptance in progress relies on.
CallOK(q) ==
  /\ q.step \in {"found", "inserted"} =>
       /\ q.inv \in Invitations /\ q.login \in Logins
       /\ status[q.inv] # "NONE"
  /\ q.step = "inserted" => account[q.login] = q.inv

\* An acceptance about to mark its invitation has made the account, which stays.
AccountInvariant ==
  /\ TypeOK
  /\ AcceptedMadeAccount
  /\ PendingIsUnused
  /\ \A a \in Calls : CallOK(call[a])
=============================================================================
