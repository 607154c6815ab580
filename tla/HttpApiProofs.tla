---------------------------- MODULE HttpApiProofs ----------------------------
(***************************************************************************)
(* Theorems about invitations and the HTTP interface, for every set of     *)
(* invitations, logins, passwords, connections and acceptances, every      *)
(* overlap of them, and failures at every await.                           *)
(***************************************************************************)
EXTENDS HttpApi, FiniteSetTheorems, SequenceTheorems, WellFoundedInduction, TLAPS

-----------------------------------------------------------------------------
(***************************************************************************)
(* Invitation: the account of an acceptance is there before its invitation *)
(* is marked.                                                              *)
(***************************************************************************)

\* The account an acceptance is about to mark its invitation for is there.
LEMMA InsertedHasAccount ==
  ASSUME AccountInvariant, NEW a \in Calls, At(a, "inserted")
  PROVE  /\ call[a].inv \in Invitations /\ call[a].login \in Logins
         /\ account[call[a].login] = call[a].inv
         /\ status[call[a].inv] # "NONE"
BY DEF AccountInvariant, CallOK, At

LEMMA InitAccounts == Init => AccountInvariant
<1> SUFFICES ASSUME Init PROVE AccountInvariant
  OBVIOUS
<1> USE DEF Init
<1>1. TypeOK
  BY DEF TypeOK, Call, Steps, Idle
<1>2. AcceptedMadeAccount /\ PendingIsUnused
  BY NoneAssumption DEF AcceptedMadeAccount, PendingIsUnused, AccountsOf
<1>3. \A a \in Calls : CallOK(call[a])
  BY DEF CallOK, Idle
<1> QED BY <1>1, <1>2, <1>3 DEF AccountInvariant

\* A new invitation is named by no acceptance and by no account but torn ones'.
LEMMA CreateAccounts ==
  ASSUME AccountInvariant, NEW i \in Invitations, Create(i)
  PROVE  AccountInvariant'
<1> USE DEF AccountInvariant, Create
<1>1. TypeOK'
  BY DEF TypeOK
<1>2. AcceptedMadeAccount'
  BY DEF TypeOK, AcceptedMadeAccount, AccountsOf
<1>3. (\A a \in Calls : CallOK(call[a]))'
  BY DEF TypeOK, CallOK
<1>4. PendingIsUnused'
  BY DEF TypeOK, PendingIsUnused, AccountsOf, At
<1> QED BY <1>1, <1>2, <1>3, <1>4

\* Finding an invitation, being refused, and failing before the insert.
LEMMA CallMoves ==
  ASSUME AccountInvariant, NEW a \in Calls, NEW q \in Call, Becomes(a, q), CallOK(q),
         UNCHANGED <<status, account>>, torn' \in SUBSET Invitations, torn \subseteq torn',
         At(a, "inserted") => call[a].inv \in torn'
  PROVE  AccountInvariant'
<1> USE DEF AccountInvariant, Becomes
<1>1. call'[a] = q /\ \A b \in Calls \ {a} : call'[b] = call[b]
  BY DEF TypeOK
<1>2. TypeOK'
  BY DEF TypeOK
<1>3. AcceptedMadeAccount'
  BY DEF AcceptedMadeAccount, AccountsOf
<1>4. (\A b \in Calls : CallOK(call[b]))'
  BY <1>1 DEF CallOK
<1>5. PendingIsUnused'
  <2> SUFFICES ASSUME NEW i \in Invitations, status[i] # "ACCEPTED", AccountsOf(i) # {}, i \notin torn'
               PROVE  \E b \in Calls : call'[b].step = "inserted" /\ call'[b].inv = i
    BY DEF PendingIsUnused, AccountsOf, At
  <2>1. PICK b \in Calls : At(b, "inserted") /\ call[b].inv = i
    BY DEF PendingIsUnused
  <2>2. b # a
    BY <2>1
  <2> QED BY <1>1, <2>1, <2>2 DEF At
<1> QED BY <1>2, <1>3, <1>4, <1>5

LEMMA CallTypes ==
  /\ Ended \in Call /\ CallOK(Ended)
  /\ \A i \in Invitations, l \in Logins : [step |-> "found", inv |-> i, login |-> l] \in Call
  /\ \A q \in Call : [q EXCEPT !.step = "inserted"] \in Call
<1>1. Ended \in Call /\ CallOK(Ended)
  BY DEF Ended, Call, Steps, CallOK
<1>2. \A i \in Invitations, l \in Logins : [step |-> "found", inv |-> i, login |-> l] \in Call
  BY DEF Call, Steps
<1>3. \A q \in Call : [q EXCEPT !.step = "inserted"] \in Call
  BY DEF Call, Steps
<1> QED BY <1>1, <1>2, <1>3

LEMMA FindAccounts ==
  ASSUME AccountInvariant, NEW a \in Calls, Find(a)
  PROVE  AccountInvariant'
<1>1. PICK i \in Invitations, l \in Logins :
        Becomes(a, IF Acceptable(i) THEN [step |-> "found", inv |-> i, login |-> l] ELSE Ended)
  BY DEF Find
<1>2. /\ ~At(a, "inserted") /\ UNCHANGED <<status, account>>
      /\ torn' \in SUBSET Invitations /\ torn \subseteq torn'
  BY DEF Find, At, AccountInvariant, TypeOK
<1>3. CASE Acceptable(i)
  <2> PICK q : q = [step |-> "found", inv |-> i, login |-> l]
    OBVIOUS
  <2>1. q \in Call /\ CallOK(q)
    BY <1>3, CallTypes DEF CallOK, Acceptable
  <2>2. Becomes(a, q)
    BY <1>1, <1>3
  <2> QED BY <1>2, <2>1, <2>2, CallMoves
<1>4. CASE ~Acceptable(i)
  <2>1. Becomes(a, Ended)
    BY <1>1, <1>4
  <2> QED BY <1>2, <2>1, CallTypes, CallMoves
<1> QED BY <1>3, <1>4

LEMMA AbortAccounts ==
  ASSUME AccountInvariant, NEW a \in Calls, Abort(a)
  PROVE  AccountInvariant'
<1>1. At(a, "inserted") => call[a].inv \in Invitations
  BY InsertedHasAccount
<1>2. /\ UNCHANGED <<status, account>> /\ Becomes(a, Ended)
      /\ torn' = IF At(a, "inserted") THEN torn \cup {call[a].inv} ELSE torn
  BY DEF Abort
<1>3. torn' \in SUBSET Invitations /\ torn \subseteq torn'
  BY <1>1, <1>2 DEF AccountInvariant, TypeOK
<1>4. At(a, "inserted") => call[a].inv \in torn'
  BY <1>2
<1> QED BY <1>2, <1>3, <1>4, CallTypes, CallMoves

\* The insert: a free login, so no other acceptance's account is overwritten.
LEMMA InsertAccounts ==
  ASSUME AccountInvariant, NEW a \in Calls, InsertUser(a)
  PROVE  AccountInvariant'
<1> USE DEF AccountInvariant
<1> PICK q : q = call[a]
  OBVIOUS
<1>1. /\ q \in Call /\ q.step = "found"
      /\ q.inv \in Invitations /\ q.login \in Logins /\ status[q.inv] # "NONE"
  BY DEF TypeOK, CallOK, InsertUser, At
<1>2. CASE account[q.login] = None
  <2> PICK next : next = [q EXCEPT !.step = "inserted"]
    OBVIOUS
  <2>1. /\ account' = [account EXCEPT ![q.login] = q.inv]
        /\ Becomes(a, next) /\ UNCHANGED <<status, torn>>
    BY <1>2 DEF InsertUser
  <2>2. next \in Call /\ next.step = "inserted" /\ next.inv = q.inv /\ next.login = q.login
    BY <1>1, CallTypes DEF Call
  <2>3. call'[a] = next /\ \A b \in Calls \ {a} : call'[b] = call[b]
    BY <2>1 DEF TypeOK, Becomes
  <2>4. /\ account'[q.login] = q.inv
        /\ \A l \in Logins : account[l] # None => account'[l] = account[l]
    BY <1>1, <1>2, <2>1 DEF TypeOK
  <2>5. TypeOK'
    BY <1>1, <2>1, <2>2 DEF TypeOK, Becomes
  <2>6. AcceptedMadeAccount'
    BY <2>1, <2>4, NoneAssumption DEF AcceptedMadeAccount, AccountsOf
  <2>7. (\A b \in Calls : CallOK(call[b]))'
    <3>1. CallOK(next)'
      BY <1>1, <2>1, <2>2, <2>4 DEF CallOK
    <3>2. ASSUME NEW b \in Calls \ {a} PROVE CallOK(call[b])'
      <4>1. CallOK(call[b])
        OBVIOUS
      <4> QED BY <2>1, <2>3, <2>4, <4>1, NoneAssumption DEF CallOK
    <3>3. ASSUME NEW b \in Calls PROVE CallOK(call[b])'
      <4>1. CASE b = a
        BY <2>3, <3>1, <4>1 DEF CallOK
      <4> QED BY <3>2, <4>1
    <3> QED BY <3>3
  <2>8. PendingIsUnused'
    <3> SUFFICES ASSUME NEW i \in Invitations, status[i] # "ACCEPTED", i \notin torn,
                        NEW l \in Logins, account'[l] = i
                 PROVE  \E b \in Calls : call'[b].step = "inserted" /\ call'[b].inv = i
      BY <2>1 DEF PendingIsUnused, AccountsOf, At
    <3>1. CASE i = q.inv
      BY <2>2, <2>3, <3>1
    <3>2. CASE i # q.inv
      <4>1. account[l] = i
        BY <2>1, <3>2 DEF TypeOK
      <4>2. PICK b \in Calls : At(b, "inserted") /\ call[b].inv = i
        BY <4>1 DEF PendingIsUnused, AccountsOf
      <4>3. b # a
        BY <1>1, <4>2 DEF At
      <4> QED BY <2>3, <4>2, <4>3 DEF At
    <3> QED BY <3>1, <3>2
  <2> QED BY <2>5, <2>6, <2>7, <2>8
<1>3. CASE account[q.login] # None
  <2>1. /\ Becomes(a, Ended) /\ UNCHANGED <<status, account>> /\ ~At(a, "inserted")
        /\ torn' \in SUBSET Invitations /\ torn \subseteq torn'
    BY <1>1, <1>3 DEF InsertUser, At, TypeOK
  <2> QED BY <2>1, CallTypes, CallMoves
<1> QED BY <1>2, <1>3

LEMMA MarkAccounts ==
  ASSUME AccountInvariant, NEW a \in Calls, MarkAccepted(a)
  PROVE  AccountInvariant'
<1> USE DEF AccountInvariant
<1> PICK i : i = call[a].inv
  OBVIOUS
<1>1. /\ At(a, "inserted") /\ Becomes(a, Ended)
      /\ status' = [status EXCEPT ![i] = "ACCEPTED"] /\ UNCHANGED <<account, torn>>
  BY DEF MarkAccepted
<1>2. i \in Invitations /\ AccountsOf(i) # {}
  BY <1>1, InsertedHasAccount DEF AccountsOf
<1>3. call'[a] = Ended /\ \A b \in Calls \ {a} : call'[b] = call[b]
  BY <1>1 DEF TypeOK, Becomes
<1>4. status'[i] = "ACCEPTED" /\ \A j \in Invitations \ {i} : status'[j] = status[j]
  BY <1>1, <1>2 DEF TypeOK
<1>5. TypeOK'
  BY <1>1, CallTypes DEF TypeOK, Becomes
<1>6. AcceptedMadeAccount'
  BY <1>1, <1>2, <1>4 DEF AcceptedMadeAccount, AccountsOf
<1>7. (\A b \in Calls : CallOK(call[b]))'
  BY <1>1, <1>2, <1>3, <1>4, CallTypes DEF CallOK, Ended
<1>8. PendingIsUnused'
  <2> SUFFICES ASSUME NEW j \in Invitations \ {i}, status[j] # "ACCEPTED", AccountsOf(j) # {},
                      j \notin torn
               PROVE  \E b \in Calls : call'[b].step = "inserted" /\ call'[b].inv = j
    BY <1>1, <1>2, <1>4 DEF PendingIsUnused, AccountsOf, At
  <2>1. PICK b \in Calls : At(b, "inserted") /\ call[b].inv = j
    BY DEF PendingIsUnused
  <2> QED BY <1>3, <2>1 DEF At
<1> QED BY <1>5, <1>6, <1>7, <1>8

LEMMA NextAccounts == AccountInvariant /\ [Next]_vars => AccountInvariant'
<1> SUFFICES ASSUME AccountInvariant, [Next]_vars PROVE AccountInvariant'
  OBVIOUS
<1>1. CASE UNCHANGED vars
  BY <1>1 DEF vars, AccountInvariant, TypeOK, AcceptedMadeAccount, PendingIsUnused,
              AccountsOf, CallOK, At
<1> QED BY <1>1, CreateAccounts, FindAccounts, InsertAccounts, MarkAccounts, AbortAccounts
        DEF Next, AllEnded

\* Acceptances in progress keep the account they made and the invitation they
\* found, whatever overlaps.
THEOREM AccountsStay == Spec => []AccountInvariant
BY InitAccounts, NextAccounts, PTL DEF Spec

\* Whatever overlaps or fails, an invitation is ACCEPTED only when somebody got
\* an account from it.
THEOREM AcceptedAlwaysMadeAccount == Spec => []AcceptedMadeAccount
<1>1. AccountInvariant => AcceptedMadeAccount
  BY DEF AccountInvariant
<1> QED BY <1>1, AccountsStay, PTL

\* An account whose invitation is not ACCEPTED is about to have it marked, or
\* the acceptance that made it was torn by a failure.
THEOREM PendingAlwaysUnused == Spec => []PendingIsUnused
<1>1. AccountInvariant => PendingIsUnused
  BY DEF AccountInvariant
<1> QED BY <1>1, AccountsStay, PTL

(***************************************************************************)
(* Invitation: how many accounts one invitation may make.                  *)
(***************************************************************************)
FoundFor(i) == {a \in Calls : At(a, "found") /\ call[a].inv = i}
MadeFor(i) == {a \in Calls : At(a, "inserted") /\ call[a].inv = i}

\* Accounts from an invitation that is not ACCEPTED are each about to mark it;
\* once it is, nobody finds it any more and only those who had go on.
BoundOn(i) ==
  /\ IsFiniteSet(AccountsOf(i))
  /\ status[i] # "ACCEPTED" =>
       \A l \in AccountsOf(i) : \E a \in MadeFor(i) : call[a].login = l
  /\ status[i] = "ACCEPTED" =>
       Cardinality(AccountsOf(i)) + Cardinality(FoundFor(i)) <= Concurrency

OverlapInvariant ==
  /\ AccountInvariant
  /\ IsFiniteSet(InFlight) /\ Cardinality(InFlight) <= Concurrency
  /\ \A i \in Invitations \ torn : BoundOn(i)

\* The acceptances of one invitation are some of those in progress, each once.
LEMMA FlightParts ==
  ASSUME OverlapInvariant, NEW i
  PROVE  /\ IsFiniteSet(FoundFor(i)) /\ Cardinality(FoundFor(i)) \in Nat
         /\ IsFiniteSet(MadeFor(i)) /\ Cardinality(MadeFor(i)) \in Nat
         /\ Cardinality(FoundFor(i)) + Cardinality(MadeFor(i)) <= Concurrency
<1>1. IsFiniteSet(InFlight) /\ Cardinality(InFlight) <= Concurrency
  BY DEF OverlapInvariant
<1>2. /\ FoundFor(i) \in SUBSET InFlight /\ MadeFor(i) \in SUBSET InFlight
      /\ FoundFor(i) \cap MadeFor(i) = {}
  BY DEF FoundFor, MadeFor, InFlight, At
<1>3. IsFiniteSet(FoundFor(i)) /\ IsFiniteSet(MadeFor(i))
  BY <1>1, <1>2, FS_Subset
<1>4. /\ Cardinality(FoundFor(i)) \in Nat /\ Cardinality(MadeFor(i)) \in Nat
      /\ Cardinality(InFlight) \in Nat
  BY <1>1, <1>3, FS_CardinalityType
<1>5. Cardinality(FoundFor(i) \cup MadeFor(i)) = Cardinality(FoundFor(i)) + Cardinality(MadeFor(i)) - Cardinality(FoundFor(i) \cap MadeFor(i))
  BY <1>3, FS_Union
<1>6. Cardinality(FoundFor(i) \cap MadeFor(i)) = 0
  BY <1>2, FS_EmptySet
<1>7. (FoundFor(i) \cup MadeFor(i)) \in SUBSET InFlight
  BY <1>2
<1>8. Cardinality(FoundFor(i) \cup MadeFor(i)) <= Cardinality(InFlight)
  BY <1>1, <1>7, FS_Subset
<1> QED BY <1>1, <1>3, <1>4, <1>5, <1>6, <1>8, ConcurrencyAssumption

\* As long as each account has its acceptance, they are no more than those.
LEMMA MadePerAccount ==
  ASSUME OverlapInvariant, NEW i \in Invitations,
         \A l \in AccountsOf(i) : \E a \in MadeFor(i) : call[a].login = l
  PROVE  /\ IsFiniteSet(AccountsOf(i)) /\ Cardinality(AccountsOf(i)) \in Nat
         /\ Cardinality(AccountsOf(i)) <= Cardinality(MadeFor(i))
<1> DEFINE maker == [l \in AccountsOf(i) |-> CHOOSE a \in MadeFor(i) : call[a].login = l]
<1>1. \A l \in AccountsOf(i) : maker[l] \in MadeFor(i) /\ call[maker[l]].login = l
  OBVIOUS
<1>2. maker \in [AccountsOf(i) -> MadeFor(i)]
  BY <1>1
<1> HIDE DEF maker
<1>3. maker \in Injection(AccountsOf(i), MadeFor(i))
  BY <1>1, <1>2 DEF Injection, IsInjective
<1>4. IsFiniteSet(MadeFor(i))
  BY FlightParts
<1>5. IsFiniteSet(AccountsOf(i)) /\ Cardinality(AccountsOf(i)) <= Cardinality(MadeFor(i))
  BY <1>3, <1>4, FS_Injection
<1> QED BY <1>5, FS_CardinalityType

LEMMA OverlapBound == OverlapInvariant => AccountsBoundedByOverlap
<1> SUFFICES ASSUME OverlapInvariant, NEW i \in Invitations \ torn
             PROVE  Cardinality(AccountsOf(i)) <= Concurrency
  BY DEF AccountsBoundedByOverlap
<1>1. BoundOn(i)
  BY DEF OverlapInvariant
<1>2. CASE status[i] = "ACCEPTED"
  <2>1. Cardinality(AccountsOf(i)) \in Nat
    BY <1>1, FS_CardinalityType DEF BoundOn
  <2> QED BY <1>1, <1>2, <2>1, FlightParts, ConcurrencyAssumption DEF BoundOn
<1>3. CASE status[i] # "ACCEPTED"
  BY <1>1, <1>3, MadePerAccount, FlightParts, ConcurrencyAssumption DEF BoundOn
<1> QED BY <1>2, <1>3

LEMMA InitOverlap == Init => OverlapInvariant
<1> SUFFICES ASSUME Init PROVE OverlapInvariant
  OBVIOUS
<1>1. InFlight = {}
  BY DEF Init, InFlight, Idle
<1>2. \A i \in Invitations : AccountsOf(i) = {} /\ status[i] # "ACCEPTED"
  BY NoneAssumption DEF Init, AccountsOf
<1>3. \A i \in Invitations : BoundOn(i)
  BY <1>2, FS_EmptySet DEF BoundOn
<1> QED BY <1>1, <1>3, InitAccounts, FS_EmptySet, ConcurrencyAssumption DEF OverlapInvariant

\* An acceptance that leaves the flight, or one that finds an invitation, where
\* neither makes an account.
LEMMA FlightMoves ==
  ASSUME OverlapInvariant, AccountInvariant', NEW a \in Calls, NEW q \in Call, Becomes(a, q),
         UNCHANGED <<status, account>>, torn \subseteq torn',
         q.step # "inserted",
         At(a, "inserted") => call[a].inv \in torn',
         q.step = "found" => /\ At(a, "idle") /\ Cardinality(InFlight) < Concurrency
                             /\ status[q.inv] # "ACCEPTED"
  PROVE  OverlapInvariant'
<1>1. call'[a] = q /\ \A b \in Calls \ {a} : call'[b] = call[b]
  BY DEF Becomes, OverlapInvariant, AccountInvariant, TypeOK
<1>2. IsFiniteSet(InFlight) /\ Cardinality(InFlight) <= Concurrency
  BY DEF OverlapInvariant
<1>3. IsFiniteSet(InFlight)' /\ Cardinality(InFlight)' <= Concurrency
  <2>1. CASE q.step = "found"
    <3>1. InFlight' = InFlight \cup {a} /\ a \notin InFlight
      BY <1>1, <2>1 DEF InFlight, At
    <3>2. Cardinality(InFlight) \in Nat
      BY <1>2, FS_CardinalityType
    <3> QED BY <1>2, <2>1, <3>1, <3>2, FS_AddElement, ConcurrencyAssumption
  <2>2. CASE q.step # "found"
    <3>1. InFlight' \in SUBSET InFlight
      BY <1>1, <2>2 DEF InFlight
    <3>2. IsFiniteSet(InFlight') /\ Cardinality(InFlight') <= Cardinality(InFlight)
      BY <1>2, <3>1, FS_Subset
    <3>3. Cardinality(InFlight) \in Nat /\ Cardinality(InFlight') \in Nat
      BY <1>2, <3>2, FS_CardinalityType
    <3> QED BY <1>2, <3>2, <3>3, ConcurrencyAssumption
  <2> QED BY <2>1, <2>2
<1>4. ASSUME NEW i \in Invitations, i \notin torn' PROVE BoundOn(i)'
  <2>1. BoundOn(i) /\ AccountsOf(i)' = AccountsOf(i) /\ status'[i] = status[i]
    BY <1>4 DEF OverlapInvariant, AccountsOf
  <2>2. CASE status[i] # "ACCEPTED"
    <3>1. MadeFor(i)' = MadeFor(i) /\ \A b \in MadeFor(i) : call'[b] = call[b]
      BY <1>1, <1>4 DEF MadeFor, At
    <3> QED BY <2>1, <2>2, <3>1 DEF BoundOn
  <2>3. CASE status[i] = "ACCEPTED"
    <3>1. FoundFor(i)' \in SUBSET FoundFor(i)
      BY <1>1, <2>3 DEF FoundFor, At
    <3>2. IsFiniteSet(FoundFor(i)) /\ Cardinality(FoundFor(i)) \in Nat
      BY FlightParts
    <3>3. IsFiniteSet(FoundFor(i)') /\ Cardinality(FoundFor(i)') <= Cardinality(FoundFor(i))
      BY <3>1, <3>2, FS_Subset
    <3>4. Cardinality(FoundFor(i)') \in Nat /\ Cardinality(AccountsOf(i)) \in Nat
      BY <2>1, <3>3, FS_CardinalityType DEF BoundOn
    <3> QED BY <2>1, <2>3, <3>2, <3>3, <3>4, ConcurrencyAssumption DEF BoundOn
  <2> QED BY <2>2, <2>3
<1> QED BY <1>3, <1>4 DEF OverlapInvariant

LEMMA FindOverlap ==
  ASSUME OverlapInvariant, AccountInvariant', NEW a \in Calls, Find(a)
  PROVE  OverlapInvariant'
<1>1. PICK i \in Invitations, l \in Logins :
        Becomes(a, IF Acceptable(i) THEN [step |-> "found", inv |-> i, login |-> l] ELSE Ended)
  BY DEF Find
<1>2. /\ At(a, "idle") /\ UNCHANGED <<status, account, torn>>
      /\ Cardinality(InFlight) < Concurrency
  BY DEF Find
<1>3. CASE Acceptable(i)
  <2> PICK q : q = [step |-> "found", inv |-> i, login |-> l]
    OBVIOUS
  <2>1. q \in Call /\ q.step = "found" /\ status[q.inv] # "ACCEPTED"
    BY <1>3, CallTypes DEF Acceptable
  <2>2. Becomes(a, q)
    BY <1>1, <1>3
  <2> QED BY <1>2, <2>1, <2>2, FlightMoves DEF At
<1>4. CASE ~Acceptable(i)
  <2>1. Becomes(a, Ended) /\ Ended.step = "ended"
    BY <1>1, <1>4 DEF Ended
  <2> QED BY <1>2, <2>1, CallTypes, FlightMoves DEF At
<1> QED BY <1>3, <1>4

LEMMA AbortOverlap ==
  ASSUME OverlapInvariant, AccountInvariant', NEW a \in Calls, Abort(a)
  PROVE  OverlapInvariant'
<1>1. /\ UNCHANGED <<status, account>> /\ Becomes(a, Ended) /\ Ended.step = "ended"
      /\ torn \subseteq torn'
      /\ At(a, "inserted") => call[a].inv \in torn'
  BY DEF Abort, Ended
<1> QED BY <1>1, CallTypes, FlightMoves

LEMMA CreateOverlap ==
  ASSUME OverlapInvariant, AccountInvariant', NEW i \in Invitations, Create(i)
  PROVE  OverlapInvariant'
<1>1. /\ status' = [status EXCEPT ![i] = "PENDING"] /\ status[i] = "NONE"
      /\ UNCHANGED <<account, call, torn>>
  BY DEF Create
<1>2. status \in [Invitations -> {"NONE", "PENDING", "ACCEPTED"}]
  BY DEF OverlapInvariant, AccountInvariant, TypeOK
<1>3. InFlight' = InFlight
  BY <1>1 DEF InFlight
<1>4. ASSUME NEW j \in Invitations \ torn PROVE BoundOn(j)'
  <2>1. /\ AccountsOf(j)' = AccountsOf(j) /\ MadeFor(j)' = MadeFor(j)
        /\ FoundFor(j)' = FoundFor(j)
    BY <1>1 DEF AccountsOf, MadeFor, FoundFor, At
  <2>2. status'[j] = "ACCEPTED" <=> status[j] = "ACCEPTED"
    BY <1>1, <1>2
  <2> QED BY <1>1, <2>1, <2>2 DEF BoundOn, OverlapInvariant
<1> QED BY <1>1, <1>3, <1>4 DEF OverlapInvariant

\* The insert moves an acceptance from those that found to those that made.
LEMMA InsertOverlap ==
  ASSUME OverlapInvariant, AccountInvariant', NEW a \in Calls, InsertUser(a)
  PROVE  OverlapInvariant'
<1> PICK q : q = call[a]
  OBVIOUS
<1>1. /\ q \in Call /\ q.step = "found" /\ q.inv \in Invitations /\ q.login \in Logins
      /\ call \in [Calls -> Call] /\ account \in [Logins -> Invitations \cup {None}]
  BY DEF OverlapInvariant, AccountInvariant, TypeOK, CallOK, InsertUser, At
<1>2. CASE account[q.login] = None
  <2> PICK next : next = [q EXCEPT !.step = "inserted"]
    OBVIOUS
  <2>1. /\ account' = [account EXCEPT ![q.login] = q.inv]
        /\ Becomes(a, next) /\ UNCHANGED <<status, torn>>
    BY <1>2 DEF InsertUser
  <2>2. next.step = "inserted" /\ next.inv = q.inv /\ next.login = q.login
    BY <1>1 DEF Call
  <2>3. call'[a] = next /\ \A b \in Calls \ {a} : call'[b] = call[b]
    BY <1>1, <2>1 DEF Becomes
  <2>4. InFlight' = InFlight
    BY <1>1, <2>2, <2>3 DEF InFlight
  <2>5. ASSUME NEW i \in Invitations \ torn PROVE BoundOn(i)'
    <3>1. BoundOn(i) /\ status'[i] = status[i]
      BY <2>1 DEF OverlapInvariant
    <3>2. CASE i # q.inv
      <4>1. AccountsOf(i)' = AccountsOf(i)
        BY <1>1, <1>2, <2>1, <3>2, NoneAssumption DEF AccountsOf
      <4>2. FoundFor(i)' = FoundFor(i)
        BY <1>1, <2>2, <2>3, <3>2 DEF FoundFor, At
      <4>3. /\ a \notin MadeFor(i)
            /\ call'[a].inv # i
        BY <1>1, <2>2, <2>3, <3>2 DEF MadeFor, At
      <4>4. MadeFor(i)' = MadeFor(i) /\ \A b \in MadeFor(i) : call'[b] = call[b]
        BY <2>3, <4>3 DEF MadeFor, At
      <4> QED BY <3>1, <4>1, <4>2, <4>4 DEF BoundOn
    <3>3. CASE i = q.inv
      <4> PICK login : login = q.login
        OBVIOUS
      <4>a. AccountsOf(i)' = AccountsOf(i) \cup {login} /\ login \notin AccountsOf(i)
        BY <1>1, <1>2, <2>1, <3>3, NoneAssumption DEF AccountsOf
      <4>b. FoundFor(i)' = FoundFor(i) \ {a} /\ a \in FoundFor(i)
        BY <1>1, <2>2, <2>3, <3>3 DEF FoundFor, At
      <4>c. MadeFor(i)' = MadeFor(i) \cup {a}
        BY <1>1, <2>2, <2>3, <3>3 DEF MadeFor, At
      <4>1. /\ AccountsOf(i)' = AccountsOf(i) \cup {login} /\ login \notin AccountsOf(i)
            /\ FoundFor(i)' = FoundFor(i) \ {a} /\ a \in FoundFor(i)
            /\ MadeFor(i)' = MadeFor(i) \cup {a} /\ a \notin MadeFor(i)
        BY <1>1, <4>a, <4>b, <4>c DEF MadeFor, At
      <4>2. /\ IsFiniteSet(AccountsOf(i)')
            /\ Cardinality(AccountsOf(i)') = Cardinality(AccountsOf(i)) + 1
        <5>1. IsFiniteSet(AccountsOf(i))
          BY <3>1 DEF BoundOn
        <5> QED BY <4>1, <5>1, FS_AddElement
      <4>3. Cardinality(FoundFor(i)') = Cardinality(FoundFor(i)) - 1
        BY <4>1, FlightParts, FS_RemoveElement
      <4>4. /\ Cardinality(FoundFor(i)) \in Nat /\ Cardinality(AccountsOf(i)) \in Nat
        BY <3>1, FlightParts, FS_CardinalityType DEF BoundOn
      <4>5. status'[i] # "ACCEPTED" =>
              \A l \in AccountsOf(i)' : \E b \in MadeFor(i)' : call'[b].login = l
        <5> SUFFICES ASSUME status[i] # "ACCEPTED", NEW l \in AccountsOf(i) \cup {login}
                     PROVE  \E b \in MadeFor(i) \cup {a} : call'[b].login = l
          BY <3>1, <4>1
        <5>1. CASE l = login
          BY <2>2, <2>3, <5>1
        <5>2. CASE l \in AccountsOf(i)
          <6>1. PICK b \in MadeFor(i) : call[b].login = l
            BY <3>1, <5>2 DEF BoundOn
          <6> QED BY <2>3, <4>1, <6>1 DEF MadeFor
        <5> QED BY <5>1, <5>2
      <4>6. status'[i] = "ACCEPTED" =>
              Cardinality(AccountsOf(i)') + Cardinality(FoundFor(i)') <= Concurrency
        BY <3>1, <4>2, <4>3, <4>4, ConcurrencyAssumption DEF BoundOn
      <4> QED BY <4>2, <4>5, <4>6 DEF BoundOn
    <3> QED BY <3>2, <3>3
  <2> QED BY <2>1, <2>4, <2>5 DEF OverlapInvariant
<1>3. CASE account[q.login] # None
  <2>1. /\ Becomes(a, Ended) /\ UNCHANGED <<status, account, torn>> /\ ~At(a, "inserted")
        /\ Ended.step = "ended"
    BY <1>1, <1>3 DEF InsertUser, At, Ended
  <2> QED BY <2>1, CallTypes, FlightMoves
<1> QED BY <1>2, <1>3

\* The first mark: every account so far has an acceptance in progress, and so has
\* everyone who may still make one.
LEMMA MarkOverlap ==
  ASSUME OverlapInvariant, AccountInvariant', NEW a \in Calls, MarkAccepted(a)
  PROVE  OverlapInvariant'
<1> PICK i : i = call[a].inv
  OBVIOUS
<1>1. /\ At(a, "inserted") /\ Becomes(a, Ended)
      /\ status' = [status EXCEPT ![i] = "ACCEPTED"] /\ UNCHANGED <<account, torn>>
  BY DEF MarkAccepted
<1>2. i \in Invitations
  BY <1>1, InsertedHasAccount DEF OverlapInvariant
<1>3. /\ call'[a] = Ended /\ \A b \in Calls \ {a} : call'[b] = call[b]
      /\ status'[i] = "ACCEPTED" /\ \A j \in Invitations \ {i} : status'[j] = status[j]
  BY <1>1, <1>2 DEF OverlapInvariant, AccountInvariant, TypeOK, Becomes
<1>4. IsFiniteSet(InFlight) /\ Cardinality(InFlight) <= Concurrency
  BY DEF OverlapInvariant
<1>5. IsFiniteSet(InFlight)' /\ Cardinality(InFlight)' <= Concurrency
  <2>1. InFlight' \in SUBSET InFlight
    BY <1>3 DEF InFlight, Ended
  <2>2. IsFiniteSet(InFlight') /\ Cardinality(InFlight') <= Cardinality(InFlight)
    BY <1>4, <2>1, FS_Subset
  <2>3. Cardinality(InFlight) \in Nat /\ Cardinality(InFlight') \in Nat
    BY <1>4, <2>2, FS_CardinalityType
  <2> QED BY <1>4, <2>2, <2>3, ConcurrencyAssumption
<1>6. ASSUME NEW j \in Invitations \ torn PROVE BoundOn(j)'
  <2>1. /\ BoundOn(j) /\ AccountsOf(j)' = AccountsOf(j) /\ FoundFor(j)' = FoundFor(j)
    BY <1>1, <1>3 DEF OverlapInvariant, AccountsOf, FoundFor, At, Ended
  <2>2. CASE j # i
    <3>1. MadeFor(j)' = MadeFor(j) /\ \A b \in MadeFor(j) : call'[b] = call[b]
      BY <1>3, <2>2 DEF MadeFor, At, Ended
    <3> QED BY <1>3, <2>1, <2>2, <3>1 DEF BoundOn
  <2>3. CASE j = i
    <3>1. Cardinality(AccountsOf(i)) + Cardinality(FoundFor(i)) <= Concurrency
      <4>1. CASE status[i] = "ACCEPTED"
        BY <2>1, <2>3, <4>1 DEF BoundOn
      <4>2. CASE status[i] # "ACCEPTED"
        BY <1>2, <2>1, <2>3, <4>2, MadePerAccount, FlightParts, ConcurrencyAssumption
           DEF BoundOn
      <4> QED BY <4>1, <4>2
    <3> QED BY <1>3, <2>1, <2>3, <3>1 DEF BoundOn
  <2> QED BY <2>2, <2>3
<1> QED BY <1>1, <1>5, <1>6 DEF OverlapInvariant

LEMMA NextOverlap == OverlapInvariant /\ [Next]_vars => OverlapInvariant'
<1> SUFFICES ASSUME OverlapInvariant, [Next]_vars PROVE OverlapInvariant'
  OBVIOUS
<1>1. AccountInvariant'
  BY NextAccounts DEF OverlapInvariant
<1>2. CASE UNCHANGED vars
  <2>1. UNCHANGED <<status, account, call, torn>>
    BY <1>2 DEF vars
  <2>2. InFlight' = InFlight
    BY <2>1 DEF InFlight
  <2>3. ASSUME NEW i \in Invitations \ torn PROVE BoundOn(i)'
    <3>1. /\ AccountsOf(i)' = AccountsOf(i) /\ FoundFor(i)' = FoundFor(i)
          /\ MadeFor(i)' = MadeFor(i)
      BY <2>1 DEF AccountsOf, FoundFor, MadeFor, At
    <3> QED BY <2>1, <3>1 DEF BoundOn, OverlapInvariant
  <2> QED BY <1>1, <2>1, <2>2, <2>3 DEF OverlapInvariant
<1> QED BY <1>1, <1>2, CreateOverlap, FindOverlap, InsertOverlap, MarkOverlap, AbortOverlap
        DEF Next, AllEnded

\* An invitation that no failure tore makes no more accounts than there are
\* acceptances in progress together: one, if they come one at a time.
THEOREM AccountsAlwaysBounded == Spec => []AccountsBoundedByOverlap
BY InitOverlap, NextOverlap, OverlapBound, PTL DEF Spec

-----------------------------------------------------------------------------
\* Each step is one of Invitation's or leaves it alone.
LEMMA ApiIsInvitation ==
  ASSUME [ApiNext]_apivars
  PROVE  [Next]_vars
<1>1. CASE UNCHANGED apivars
  BY <1>1 DEF apivars
<1>2. ASSUME NEW h \in Connections,
             Receive(h) \/ FindUser(h) \/ Compare(h) \/ Handle(h) \/ Refuse(h)
      PROVE  [Next]_vars
  BY <1>2 DEF Receive, FindUser, Compare, Handle, Refuse, Next
<1>3. ASSUME NEW a \in Calls, Accept(a) \/ MarkAccepted(a) \/ Abort(a) PROVE Next
  BY <1>3 DEF Accept, Next
<1> QED BY <1>1, <1>2, <1>3 DEF ApiNext

(***************************************************************************)
(* Accounts and passwords.                                                 *)
(***************************************************************************)
SecretOK ==
  /\ secret \in [Logins -> Passwords \cup {None}]
  /\ \A l \in Logins : secret[l] = None <=> account[l] = None

\* An account that exists keeps its origin and its password.
Kept ==
  \A l \in Logins : account[l] # None => account'[l] = account[l] /\ secret'[l] = secret[l]

\* A step that inserts no user changes no account and no password.
LEMMA OthersKeep ==
  ASSUME ApiNext
  PROVE  (\E a \in Calls : Accept(a)) \/ UNCHANGED <<account, secret>>
<1>1. ASSUME NEW h \in Connections,
             Receive(h) \/ FindUser(h) \/ Compare(h) \/ Handle(h) \/ Refuse(h)
      PROVE  UNCHANGED <<account, secret>>
  BY <1>1 DEF Receive, FindUser, Compare, Handle, Refuse, Create, Find, vars
<1>2. ASSUME NEW a \in Calls,
             (MarkAccepted(a) /\ UNCHANGED api) \/ (Abort(a) /\ UNCHANGED api)
      PROVE  UNCHANGED <<account, secret>>
  BY <1>2 DEF MarkAccepted, Abort, api
<1> QED BY <1>1, <1>2 DEF ApiNext

\* UserService.create inserts one user, at a login nobody has, or nothing.
LEMMA AcceptFacts ==
  ASSUME AccountInvariant, SecretOK, NEW a \in Calls, Accept(a)
  PROVE  SecretOK' /\ Kept
<1> PICK i, j : i = call[a].login /\ j = call[a].inv
  OBVIOUS
<1>1. /\ account \in [Logins -> Invitations \cup {None}]
      /\ i \in Logins /\ j \in Invitations
  BY DEF AccountInvariant, TypeOK, CallOK, Accept, InsertUser, At
<1>2. CASE account[i] = None
  <2>1. account' = [account EXCEPT ![i] = j] /\ account' # account
    BY <1>1, <1>2, NoneAssumption DEF Accept, InsertUser
  <2>2. PICK p \in Passwords : secret' = [secret EXCEPT ![i] = p]
    BY <2>1 DEF Accept
  <2> QED BY <1>1, <1>2, <2>1, <2>2, NoneAssumption, NoPasswordAssumption DEF SecretOK, Kept
<1>3. CASE account[i] # None
  <2>1. account' = account
    BY <1>3 DEF Accept, InsertUser
  <2>2. secret' = secret
    BY <2>1 DEF Accept
  <2> QED BY <2>1, <2>2 DEF SecretOK, Kept
<1> QED BY <1>2, <1>3

LEMMA AccountsKept ==
  ASSUME AccountInvariant, SecretOK, [ApiNext]_apivars
  PROVE  AccountInvariant' /\ SecretOK' /\ Kept
<1>1. AccountInvariant'
  BY ApiIsInvitation, NextAccounts
<1>2. CASE UNCHANGED <<account, secret>>
  BY <1>1, <1>2 DEF SecretOK, Kept
<1>3. CASE \E a \in Calls : Accept(a)
  BY <1>1, <1>3, AcceptFacts
<1>4. CASE UNCHANGED apivars
  BY <1>2, <1>4 DEF apivars, api, vars
<1> QED BY <1>1, <1>2, <1>3, <1>4, OthersKeep

(***************************************************************************)
(* Routes.                                                                 *)
(***************************************************************************)
\* A set of natural numbers that is not empty has a least element: the intervals
\* up to its elements are finite, and inclusion is well founded on finite sets.
LEMMA LeastExists ==
  ASSUME NEW S \in SUBSET Nat, S # {}
  PROVE  \E m \in S : \A k \in S : m <= k
<1> DEFINE below == {0 .. m : m \in S}
           R == StrictSubsetOrdering(Nat)
<1>1. below # {}
  OBVIOUS
<1>2. \A m \in S : 0 .. m \in FiniteSubsetsOf(Nat)
  BY FS_Interval DEF FiniteSubsetsOf
<1>3. below \subseteq FiniteSubsetsOf(Nat)
  BY <1>2
<1>4. IsWellFoundedOn(R, FiniteSubsetsOf(Nat))
  BY FS_StrictSubsetOrderingWellFounded
<1>5. \E T \in below : \A U \in below : ~(<<U, T>> \in R)
  BY <1>1, <1>3, <1>4, WFMin
<1>6. PICK m \in S : \A k \in S : ~(<<0 .. k, 0 .. m>> \in R)
  BY <1>5
<1>7. ASSUME NEW k \in S, k < m PROVE <<0 .. k, 0 .. m>> \in R
  <2>1. 0 .. k \subseteq 0 .. m /\ m \in 0 .. m /\ m \notin 0 .. k /\ 0 .. m \subseteq Nat
    BY <1>7
  <2> QED BY <2>1 DEF StrictSubsetOrdering
<1>8. \A k \in S : ~(k < m)
  BY <1>6, <1>7
<1> QED BY <1>8

\* The handlers of @AuthOptions({ checkAdminRole: true }).
ForAdmins == {"getAll", "createInvitation", "createConversation"}

\* What every entry of the table satisfies.
RouteOK(r) ==
  /\ r.guard \in {"NONE", "USER", "ADMIN"}
  /\ r.handler \in ForAdmins => r.guard = "ADMIN"
RoutesOK(s) == \E R : s \in Seq(R) /\ \A r \in R : RouteOK(r)

LEMMA RoutesTogether ==
  ASSUME NEW s, NEW t, RoutesOK(s), RoutesOK(t)
  PROVE  RoutesOK(s \o t)
<1>1. PICK R : s \in Seq(R) /\ \A r \in R : RouteOK(r)
  BY DEF RoutesOK
<1>2. PICK Q : t \in Seq(Q) /\ \A r \in Q : RouteOK(r)
  BY DEF RoutesOK
<1>3. s \in Seq(R \cup Q) /\ t \in Seq(R \cup Q)
  BY <1>1, <1>2
<1>4. s \o t \in Seq(R \cup Q)
  BY <1>3
<1> QED BY <1>1, <1>2, <1>4 DEF RoutesOK

\* The three kinds of entry.
LEMMA EntriesOK ==
  ASSUME NEW method, NEW path, NEW handler
  PROVE  /\ RouteOK(AdminOnly(method, path, handler))
         /\ handler \notin ForAdmins => /\ RouteOK(Open(method, path, handler))
                                       /\ RouteOK(Guarded(method, path, handler))
BY DEF RouteOK, Open, Guarded, AdminOnly

LEMMA UserRoutesOK == RoutesOK(UserRoutes)
<1> DEFINE R == {UserRoutes[1], UserRoutes[2]}
<1>1. UserRoutes \in Seq(R)
  BY DEF UserRoutes
<1>2. \A r \in R : RouteOK(r)
  <2>1. RouteOK(UserRoutes[1])
    <3>1. RouteOK(AdminOnly("GET", <<"users">>, "getAll"))
      BY EntriesOK DEF ForAdmins
    <3> QED BY <3>1 DEF UserRoutes
  <2>2. RouteOK(UserRoutes[2])
    <3>1. RouteOK(Guarded("PATCH", <<"users", "notifications">>, "updateNotificationsStatus"))
      BY EntriesOK DEF ForAdmins
    <3> QED BY <3>1 DEF UserRoutes
  <2> QED BY <2>1, <2>2
<1> QED BY <1>1, <1>2 DEF RoutesOK

LEMMA AuthRoutesOK == RoutesOK(AuthRoutes)
<1> DEFINE R == {AuthRoutes[1]}
<1>1. AuthRoutes \in Seq(R)
  BY DEF AuthRoutes
<1>2. \A r \in R : RouteOK(r)
  <2>1. RouteOK(AuthRoutes[1])
    <3>1. RouteOK(Open("POST", <<"auth", "sign-in">>, "signIn"))
      BY EntriesOK DEF ForAdmins
    <3> QED BY <3>1 DEF AuthRoutes
  <2> QED BY <2>1
<1> QED BY <1>1, <1>2 DEF RoutesOK

LEMMA InvitationRoutesOK == RoutesOK(InvitationRoutes)
<1> DEFINE R == {InvitationRoutes[1], InvitationRoutes[2], InvitationRoutes[3]}
<1>1. InvitationRoutes \in Seq(R)
  BY DEF InvitationRoutes
<1>2. \A r \in R : RouteOK(r)
  <2>1. RouteOK(InvitationRoutes[1])
    <3>1. RouteOK(AdminOnly("POST", <<"invitations">>, "createInvitation"))
      BY EntriesOK DEF ForAdmins
    <3> QED BY <3>1 DEF InvitationRoutes
  <2>2. RouteOK(InvitationRoutes[2])
    <3>1. RouteOK(Open("GET", <<"invitations", "*">>, "getInvitation"))
      BY EntriesOK DEF ForAdmins
    <3> QED BY <3>1 DEF InvitationRoutes
  <2>3. RouteOK(InvitationRoutes[3])
    <3>1. RouteOK(Open("POST", <<"invitations", "*", "accept">>, "acceptInvitation"))
      BY EntriesOK DEF ForAdmins
    <3> QED BY <3>1 DEF InvitationRoutes
  <2> QED BY <2>1, <2>2, <2>3
<1> QED BY <1>1, <1>2 DEF RoutesOK

LEMMA ChatRoutesOK == RoutesOK(ChatRoutes)
<1> DEFINE R == {ChatRoutes[1], ChatRoutes[2], ChatRoutes[3], ChatRoutes[4], ChatRoutes[5]}
<1>1. ChatRoutes \in Seq(R)
  BY DEF ChatRoutes
<1>2. \A r \in R : RouteOK(r)
  <2>1. RouteOK(ChatRoutes[1])
    <3>1. RouteOK(AdminOnly("POST", <<"chat", "conversations">>, "createConversation"))
      BY EntriesOK DEF ForAdmins
    <3> QED BY <3>1 DEF ChatRoutes
  <2>2. RouteOK(ChatRoutes[2])
    <3>1. RouteOK(Guarded("GET", <<"chat", "conversations">>, "getConversations"))
      BY EntriesOK DEF ForAdmins
    <3> QED BY <3>1 DEF ChatRoutes
  <2>3. RouteOK(ChatRoutes[3])
    <3>1. RouteOK(Guarded("GET", <<"chat", "conversations", "*">>, "getConversation"))
      BY EntriesOK DEF ForAdmins
    <3> QED BY <3>1 DEF ChatRoutes
  <2>4. RouteOK(ChatRoutes[4])
    <3>1. RouteOK(Guarded("POST", <<"chat", "conversations", "*", "participants">>, "addParticipants"))
      BY EntriesOK DEF ForAdmins
    <3> QED BY <3>1 DEF ChatRoutes
  <2>5. RouteOK(ChatRoutes[5])
    <3>1. RouteOK(Guarded("DELETE", <<"chat", "conversations", "*", "participants", "*">>, "removeParticipant"))
      BY EntriesOK DEF ForAdmins
    <3> QED BY <3>1 DEF ChatRoutes
  <2> QED BY <2>1, <2>2, <2>3, <2>4, <2>5
<1> QED BY <1>1, <1>2 DEF RoutesOK

LEMMA PushSubscriptionRoutesOK == RoutesOK(PushSubscriptionRoutes)
<1> DEFINE R == {PushSubscriptionRoutes[1], PushSubscriptionRoutes[2], PushSubscriptionRoutes[3], PushSubscriptionRoutes[4], PushSubscriptionRoutes[5]}
<1>1. PushSubscriptionRoutes \in Seq(R)
  BY DEF PushSubscriptionRoutes
<1>2. \A r \in R : RouteOK(r)
  <2>1. RouteOK(PushSubscriptionRoutes[1])
    <3>1. RouteOK(Guarded("GET", <<"push-subscriptions", "vapid-public-key">>, "getVapidPublicKey"))
      BY EntriesOK DEF ForAdmins
    <3> QED BY <3>1 DEF PushSubscriptionRoutes
  <2>2. RouteOK(PushSubscriptionRoutes[2])
    <3>1. RouteOK(Guarded("POST", <<"push-subscriptions">>, "subscribe"))
      BY EntriesOK DEF ForAdmins
    <3> QED BY <3>1 DEF PushSubscriptionRoutes
  <2>3. RouteOK(PushSubscriptionRoutes[3])
    <3>1. RouteOK(Guarded("GET", <<"push-subscriptions">>, "getActiveSubscriptions"))
      BY EntriesOK DEF ForAdmins
    <3> QED BY <3>1 DEF PushSubscriptionRoutes
  <2>4. RouteOK(PushSubscriptionRoutes[4])
    <3>1. RouteOK(Guarded("GET", <<"push-subscriptions">>, "getByData"))
      BY EntriesOK DEF ForAdmins
    <3> QED BY <3>1 DEF PushSubscriptionRoutes
  <2>5. RouteOK(PushSubscriptionRoutes[5])
    <3>1. RouteOK(Open("PATCH", <<"push-subscriptions", "mark-as-unsubscribed">>, "unsubscribe"))
      BY EntriesOK DEF ForAdmins
    <3> QED BY <3>1 DEF PushSubscriptionRoutes
  <2> QED BY <2>1, <2>2, <2>3, <2>4, <2>5
<1> QED BY <1>1, <1>2 DEF RoutesOK

LEMMA TableOK == RoutesOK(Routes)
<1>1. RoutesOK(UserRoutes \o AuthRoutes)
  BY RoutesTogether, UserRoutesOK, AuthRoutesOK
<1>2. RoutesOK(UserRoutes \o AuthRoutes \o InvitationRoutes)
  BY <1>1, RoutesTogether, InvitationRoutesOK
<1>3. RoutesOK(UserRoutes \o AuthRoutes \o InvitationRoutes \o ChatRoutes)
  BY <1>2, RoutesTogether, ChatRoutesOK
<1> QED BY <1>3, RoutesTogether, PushSubscriptionRoutesOK DEF Routes

\* A route matches the path made for it, so that there is a first match:
\* Dispatch returns an entry of the table.
LEMMA DispatchOK ==
  ASSUME NEW n \in DOMAIN Routes
  PROVE  LET route == Dispatch(Routes[n].method, Sample(Routes[n])) IN
         RouteOK(route) /\ \E m \in DOMAIN Routes : route = Routes[m]
<1> PICK method, path : method = Routes[n].method /\ path = Sample(Routes[n])
  OBVIOUS
<1> DEFINE hits == {m \in DOMAIN Routes : Matches(Routes[m], method, path)}
<1>1. Matches(Routes[n], method, path)
  BY DEF Matches, Sample
<1>2. PICK R : Routes \in Seq(R) /\ \A r \in R : RouteOK(r)
  BY TableOK DEF RoutesOK
<1>3. hits \in SUBSET Nat /\ n \in hits
  BY <1>1, <1>2
<1>4. \E m \in hits : \A k \in hits : m <= k
  BY <1>3, LeastExists
<1>5. \E m \in DOMAIN Routes : Dispatch(method, path) = Routes[m]
  BY <1>2, <1>3, <1>4 DEF Dispatch
<1> QED BY <1>2, <1>5

(***************************************************************************)
(* Requests.                                                               *)
(***************************************************************************)

\* What the server relies on at each step, and what becomes of a caller whose
\* credentials were right on arrival.
KnownOK(q) ==
  /\ Exists(q.given.login) /\ q.given.login \in People
  /\ PasswordOf(q.given.login) = q.given.password
  /\ q.handler = "signIn" \/ Portable(q.given) => q.read = q.given

RequestOK(q) ==
  /\ q.handler \in ForAdmins => q.guard = "ADMIN"
  /\ q.step \in {"comparing", "running"} /\ q.guard # "NONE" => Exists(q.read.login)
  /\ q.step = "running" /\ q.guard # "NONE" =>
       /\ PasswordOf(q.read.login) = q.read.password
       /\ q.guard = "ADMIN" => q.read.login = Root
  /\ q.known => KnownOK(q)
  /\ q.step = "refused" /\ q.known =>
       \/ q.guard = "ADMIN" /\ q.given.login # Root
       \/ q.handler # "signIn" /\ ~Portable(q.given)

ApiInvariant ==
  /\ AccountInvariant
  /\ SecretOK
  /\ http \in [Connections -> Request]
  /\ \A h \in Connections : RequestOK(http[h])

\* What a request relies on stays true while accounts are made.
LEMMA RequestStays ==
  ASSUME Kept, NEW q, RequestOK(q)
  PROVE  RequestOK(q)'
<1>1. \A l : Exists(l) => Exists(l)' /\ PasswordOf(l)' = PasswordOf(l)
  BY DEF Kept, Exists, PasswordOf
<1>2. q.known => KnownOK(q)'
  BY <1>1 DEF RequestOK, KnownOK
<1> QED BY <1>1, <1>2 DEF RequestOK

LEMMA ShortTexts ==
  ASSUME NEW S
  PROVE  << >> \in Seq(S) /\ \A x \in S : <<x>> \in Seq(S)
OBVIOUS

\* header.split(':') gives back what has no colon and is not empty.
LEMMA ParseFacts ==
  ASSUME NEW login \in Seq(STRING), NEW password \in Seq(STRING)
  PROVE  /\ ParseAuthorizationHeader(login \o password) \in Credentials
         /\ Portable([login |-> login, password |-> password]) /\ password[1] # "" =>
              ParseAuthorizationHeader(login \o password) = [login |-> login, password |-> password]
<1> PICK text : text = login \o password
  OBVIOUS
<1>1. text \in Seq(STRING)
  BY ConcatProperties
<1>2. ParseAuthorizationHeader(text) \in Credentials
  <2>1. NoCredentials \in Credentials
    BY ShortTexts DEF NoCredentials, Credentials
  <2>2. CASE Len(text) < 2
    BY <2>1, <2>2 DEF ParseAuthorizationHeader
  <2>3. CASE ~(Len(text) < 2)
    <3>1. text[1] \in STRING /\ text[2] \in STRING
      BY <1>1, <2>3
    <3>2. <<text[1]>> \in Seq(STRING) /\ <<text[2]>> \in Seq(STRING)
      BY <3>1, ShortTexts
    <3> QED BY <2>1, <3>2 DEF ParseAuthorizationHeader, Credentials
  <2> QED BY <2>2, <2>3
<1>3. Len(login) = 1 /\ Len(password) = 1 =>
        /\ Len(text) = 2 /\ text[1] = login[1] /\ text[2] = password[1]
        /\ login = <<text[1]>> /\ password = <<text[2]>>
  <2> SUFFICES ASSUME Len(login) = 1, Len(password) = 1
               PROVE  /\ Len(text) = 2 /\ text[1] = login[1] /\ text[2] = password[1]
                      /\ login = <<text[1]>> /\ password = <<text[2]>>
    OBVIOUS
  <2>1. /\ Len(text) = Len(login) + Len(password)
        /\ \A i \in 1 .. Len(login) + Len(password) :
             text[i] = IF i <= Len(login) THEN login[i] ELSE password[i - Len(login)]
    BY ConcatProperties
  <2>2. Len(text) = 2
    BY <2>1
  <2>3. text[1] = login[1]
    BY <2>1
  <2>4. text[2] = password[1]
    BY <2>1
  <2>5. login = <<login[1]>> /\ password = <<password[1]>>
    OBVIOUS
  <2> QED BY <2>2, <2>3, <2>4, <2>5
<1>4. ASSUME Len(login) = 1, Len(password) = 1, login[1] # "", password[1] # ""
      PROVE  ParseAuthorizationHeader(text) = [login |-> login, password |-> password]
  <2>1. /\ Len(text) = 2 /\ text[1] = login[1] /\ text[2] = password[1]
        /\ login = <<text[1]>> /\ password = <<text[2]>>
    BY <1>4, <1>3, Zenon
  <2>2. ~(Len(text) < 2)
    BY <2>1
  <2>3. text[1] # "" /\ text[2] # ""
    BY <1>4, <2>1, Zenon
  <2> QED BY <2>1, <2>2, <2>3, Zenon DEF ParseAuthorizationHeader
<1> QED BY <1>2, <1>4 DEF Portable

\* A step of the request itself, to the next stage.
LEMMA TurnOK ==
  ASSUME http \in [Connections -> Request], NEW h \in Connections, NEW step \in Stages,
         Turns(h, step)
  PROVE  /\ http' \in [Connections -> Request]
         /\ \A g \in Connections \ {h} : http'[g] = http[g]
         /\ http'[h] = [http[h] EXCEPT !.step = step]
         /\ [http[h] EXCEPT !.step = step] \in Request
<1>1. [http[h] EXCEPT !.step = step] \in Request
  BY DEF Request
<1> QED BY <1>1 DEF Turns

LEMMA ReceiveOK ==
  ASSUME ApiInvariant, NEW h \in Connections, Receive(h)
  PROVE  \E q \in Request : http' = [http EXCEPT ![h] = q] /\ RequestOK(q)
<1>1. PICK n \in Asked, l \in People, p \in Passwords :
        LET route == Dispatch(Routes[n].method, Sample(Routes[n]))
            given == [login |-> l, password |-> p]
            read == CredentialsRead(route.handler, given)
            checked == route.guard # "NONE" \/ route.handler = "signIn"
        IN http' = [http EXCEPT ![h] =
             [step    |-> IF ~checked THEN "running"
                          ELSE IF read = NoCredentials THEN "refused" ELSE "finding",
              wanted  |-> Routes[n].handler,
              handler |-> route.handler,
              guard   |-> route.guard,
              given   |-> IF checked THEN given ELSE NoCredentials,
              read    |-> IF checked THEN read ELSE NoCredentials,
              known   |-> checked /\ Exists(l) /\ PasswordOf(l) = p]]
  BY DEF Receive
<1> PICK route : route = Dispatch(Routes[n].method, Sample(Routes[n]))
  OBVIOUS
<1> PICK given : given = [login |-> l, password |-> p]
  OBVIOUS
<1> PICK read : read = CredentialsRead(route.handler, given)
  OBVIOUS
<1> DEFINE checked == route.guard # "NONE" \/ route.handler = "signIn"
           q == [step    |-> IF ~checked THEN "running"
                             ELSE IF read = NoCredentials THEN "refused" ELSE "finding",
                 wanted  |-> Routes[n].handler,
                 handler |-> route.handler,
                 guard   |-> route.guard,
                 given   |-> IF checked THEN given ELSE NoCredentials,
                 read    |-> IF checked THEN read ELSE NoCredentials,
                 known   |-> checked /\ Exists(l) /\ PasswordOf(l) = p]
<1>2. http' = [http EXCEPT ![h] = q]
  BY <1>1
<1>3. /\ RouteOK(route) /\ route.handler \in Handlers /\ Routes[n].handler \in Handlers
  BY DispatchOK, AskedAssumption DEF Handlers
<1>4. /\ l \in Seq(STRING) /\ l # << >>
      /\ p \in Seq(STRING) /\ p # << >> /\ (Len(p) = 1 => p[1] # "")
  BY TextAssumption DEF Texts, People
<1>5. /\ given \in Credentials /\ read \in Credentials
      /\ route.handler = "signIn" \/ Portable(given) => read = given
  <2>1. given.login = l /\ given.password = p /\ given \in Credentials
    BY <1>4 DEF Credentials
  <2>2. CASE route.handler = "signIn"
    BY <2>1, <2>2 DEF CredentialsRead
  <2>3. CASE route.handler # "signIn"
    <3>1. read = ParseAuthorizationHeader(l \o p)
      BY <2>1, <2>3 DEF CredentialsRead
    <3>2. Portable(given) => p[1] # ""
      BY <1>4, <2>1 DEF Portable
    <3> QED BY <1>4, <2>1, <2>3, <3>1, <3>2, ParseFacts
  <2> QED BY <2>2, <2>3
<1>6. NoCredentials \in Credentials /\ given # NoCredentials
  BY <1>4, ShortTexts DEF NoCredentials, Credentials
<1>7. q \in Request
  BY <1>3, <1>5, <1>6 DEF Request, RouteOK, Stages
<1>8. RequestOK(q)
  BY <1>3, <1>5, <1>6 DEF RequestOK, KnownOK, RouteOK
<1> QED BY <1>2, <1>7, <1>8

LEMMA FindUserOK ==
  ASSUME ApiInvariant, NEW h \in Connections, FindUser(h)
  PROVE  \E r \in Request : http' = [http EXCEPT ![h] = r] /\ RequestOK(r)
<1> PICK q : q = http[h]
  OBVIOUS
<1>1. q \in Request /\ RequestOK(q) /\ q.step = "finding"
  BY DEF ApiInvariant, FindUser, Asks
<1> PICK step \in Stages : step = IF Exists(q.read.login) THEN "comparing" ELSE "refused"
  BY DEF Stages
<1> PICK r : r = [q EXCEPT !.step = step]
  OBVIOUS
<1>2. /\ r \in Request /\ r.step = step
      /\ r.handler = q.handler /\ r.guard = q.guard /\ r.given = q.given
      /\ r.read = q.read /\ r.known = q.known
  BY <1>1 DEF Request
<1>3. http' = [http EXCEPT ![h] = r]
  BY DEF FindUser, Turns
<1>4. KnownOK(q) => KnownOK(r)
  BY <1>2 DEF KnownOK
<1>5. RequestOK(r)
  BY <1>1, <1>2, <1>4 DEF RequestOK, KnownOK
<1> QED BY <1>2, <1>3, <1>5

LEMMA CompareOK ==
  ASSUME ApiInvariant, NEW h \in Connections, Compare(h)
  PROVE  \E r \in Request : http' = [http EXCEPT ![h] = r] /\ RequestOK(r)
<1> PICK q : q = http[h]
  OBVIOUS
<1>1. q \in Request /\ RequestOK(q) /\ q.step = "comparing"
  BY DEF ApiInvariant, Compare, Asks
<1> PICK step \in Stages : step = IF Admits(q) THEN "running" ELSE "refused"
  BY DEF Stages
<1> PICK r : r = [q EXCEPT !.step = step]
  OBVIOUS
<1>2. /\ r \in Request /\ r.step = step
      /\ r.handler = q.handler /\ r.guard = q.guard /\ r.given = q.given
      /\ r.read = q.read /\ r.known = q.known
  BY <1>1 DEF Request
<1>3. http' = [http EXCEPT ![h] = r]
  BY DEF Compare, Turns
<1>4. KnownOK(q) => KnownOK(r)
  BY <1>2 DEF KnownOK
<1>5. RequestOK(r)
  BY <1>1, <1>2, <1>4 DEF RequestOK, KnownOK, Admits
<1> QED BY <1>2, <1>3, <1>5

LEMMA NoRequestOK == NoRequest \in Request /\ RequestOK(NoRequest)
<1>1. NoCredentials \in Credentials
  BY ShortTexts DEF NoCredentials, Credentials
<1>2. NoRequest \in Request
  BY <1>1 DEF NoRequest, Request, Stages, Handlers
<1> QED BY <1>2 DEF NoRequest, RequestOK, ForAdmins

LEMMA ConnectionMoves ==
  ASSUME ApiInvariant, [ApiNext]_apivars
  PROVE  \/ UNCHANGED http
         \/ \E h \in Connections, r \in Request :
              http' = [http EXCEPT ![h] = r] /\ RequestOK(r)
<1>1. CASE UNCHANGED apivars
  BY <1>1 DEF apivars, api
<1>2. ASSUME NEW h \in Connections,
             Receive(h) \/ FindUser(h) \/ Compare(h) \/ Handle(h) \/ Refuse(h)
      PROVE  \E r \in Request : http' = [http EXCEPT ![h] = r] /\ RequestOK(r)
  <2>1. CASE Handle(h) \/ Refuse(h)
    BY <2>1, NoRequestOK DEF Handle, Refuse
  <2> QED BY <1>2, <2>1, ReceiveOK, FindUserOK, CompareOK
<1>3. ASSUME NEW a \in Calls,
             Accept(a) \/ (MarkAccepted(a) /\ UNCHANGED api) \/ (Abort(a) /\ UNCHANGED api)
      PROVE  UNCHANGED http
  BY <1>3 DEF Accept, api
<1> QED BY <1>1, <1>2, <1>3 DEF ApiNext

LEMMA ApiStep ==
  ASSUME ApiInvariant, [ApiNext]_apivars
  PROVE  ApiInvariant' /\ Kept
<1>1. AccountInvariant' /\ SecretOK' /\ Kept
  BY AccountsKept DEF ApiInvariant
<1>2. /\ http \in [Connections -> Request]
      /\ \A h \in Connections : RequestOK(http[h])
  BY DEF ApiInvariant
<1>3. \A q \in Request : RequestOK(q) => RequestOK(q)'
  BY <1>1, RequestStays
<1>4. CASE UNCHANGED http
  <2>1. \A h \in Connections : RequestOK(http[h])'
    <3> TAKE h \in Connections
    <3> PICK q : q = http[h]
      OBVIOUS
    <3>1. q \in Request /\ RequestOK(q) /\ http'[h] = q
      BY <1>2, <1>4
    <3>2. RequestOK(q)'
      BY <1>3, <3>1
    <3> QED BY <3>1, <3>2
  <2> QED BY <1>1, <1>2, <1>4, <2>1 DEF ApiInvariant
<1>5. ASSUME NEW h \in Connections, NEW r \in Request, http' = [http EXCEPT ![h] = r], RequestOK(r)
      PROVE  ApiInvariant'
  <2>1. \A g \in Connections : RequestOK(http[g])'
    <3> TAKE g \in Connections
    <3> PICK q : q = http'[g]
      OBVIOUS
    <3>1. q \in Request /\ RequestOK(q)
      BY <1>2, <1>5
    <3>2. RequestOK(q)'
      BY <1>3, <3>1
    <3> QED BY <3>2
  <2> QED BY <1>1, <1>2, <1>5, <2>1 DEF ApiInvariant
<1> QED BY <1>1, <1>4, <1>5, ConnectionMoves

(***************************************************************************)
(* The theorems.                                                           *)
(***************************************************************************)

\* The HTTP interface creates and accepts invitations only as Invitation does:
\* what is proved of them holds behind it.
THEOREM HttpImplementsInvitation == ApiSpec => Spec
<1>1. ApiInit => Init
  BY DEF ApiInit
<1>2. [ApiNext]_apivars => [Next]_vars
  BY ApiIsInvitation
<1> QED BY <1>1, <1>2, PTL DEF ApiSpec, Spec

LEMMA InitApi == ApiInit => ApiInvariant
<1> SUFFICES ASSUME ApiInit PROVE ApiInvariant
  OBVIOUS
<1>1. AccountInvariant
  BY InitAccounts DEF ApiInit
<1>2. SecretOK
  BY DEF ApiInit, Init, SecretOK
<1> QED BY <1>1, <1>2, NoRequestOK DEF ApiInit, ApiInvariant

\* AuthGuard, AuthService and the accounts behind them: what each step of a
\* request relies on stays true while other requests and acceptances go on.
THEOREM RequestsStay == ApiSpec => []ApiInvariant
<1>1. ApiInvariant /\ [ApiNext]_apivars => ApiInvariant'
  BY ApiStep
<1> QED BY InitApi, <1>1, PTL DEF ApiSpec

\* Requests, what is read from them and passwords keep their types.
THEOREM ApiAlwaysTyped == ApiSpec => []ApiTypeOK
<1>1. ApiInvariant => ApiTypeOK
  BY DEF ApiInvariant, SecretOK, ApiTypeOK
<1> QED BY <1>1, RequestsStay, PTL

\* AuthGuard: a handler behind it runs for an account that exists, with the
\* password read from the request, and for the administrator where only an
\* administrator may.
THEOREM AlwaysRunsAsCaller == ApiSpec => []RunsAsCaller
<1>1. ApiInvariant => RunsAsCaller
  BY DEF ApiInvariant, RequestOK, RunsAsCaller, Asks, ForAdmins
<1> QED BY <1>1, RequestsStay, PTL

\* AuthGuard and parseAuthorizationHeader: who presents the credentials of an
\* account is refused only for want of the role, or for a colon or an empty
\* login that the header does not carry.
THEOREM EntitledAlwaysAdmitted == ApiSpec => []EntitledAreAdmitted
<1>1. ApiInvariant => EntitledAreAdmitted
  BY DEF ApiInvariant, RequestOK, EntitledAreAdmitted, Asks
<1> QED BY <1>1, RequestsStay, PTL

\* Behind the HTTP interface, too, an invitation that no failure tore makes no
\* more accounts than acceptances overlap.
THEOREM HttpBoundsAccounts == ApiSpec => []AccountsBoundedByOverlap
BY HttpImplementsInvitation, AccountsAlwaysBounded, PTL

\* UserService.create: however acceptances overlap, fail or choose a login that
\* is taken, an account that exists keeps its origin and its password.
THEOREM CredentialsAlwaysStay == ApiSpec => CredentialsStay
<1>1. ApiInvariant /\ [ApiNext]_apivars =>
        [\A l \in Logins : account[l] # None =>
           account'[l] = account[l] /\ secret'[l] = secret[l]]_apivars
  BY ApiStep DEF Kept
<1> QED BY <1>1, RequestsStay, PTL DEF ApiSpec, CredentialsStay
=============================================================================
