--------------------- MODULE ConversationActivityProofs ---------------------
(***************************************************************************)
(* Theorems about the times the store records: what is shown in the order  *)
(* of createdAt and of updatedAt respects the order of calls that do not   *)
(* overlap, two DIRECT conversations of one pair come from calls that do,  *)
(* and a conversation without overlapping calls reads as a story.          *)
(***************************************************************************)
EXTENDS ConversationActivity, ChatRosterProofs,
        FiniteSetTheorems, FunctionTheorems, SequenceTheorems, WellFoundedInduction

(***************************************************************************)
(* The invariant, in layers.  Each later one is inductive on top of        *)
(* TimesInvariant.                                                         *)
(***************************************************************************)
Transacting == {"create.checked", "add.split", "remove.checked", "send.checked"}
Uncommitted == Transacting \cup {"idle", "add.checked"}

TimesTypeOK ==
  /\ clock \in Nat
  /\ now \in [Requests -> Nat]
  /\ stamp \in [Requests -> Nat]
  /\ wrote \in [Conversations -> Seq([call : Requests, stamp : Nat])]
  /\ updatedAt \in [Conversations -> Nat]
  /\ before \in [Requests -> SUBSET Requests]

\* A call has taken its times exactly while it needs them, comes after calls that
\* have committed, and is not past its commit before it has committed.
CallTimed(r) ==
  /\ stamp[r] <= clock /\ now[r] <= clock
  /\ stamp[r] # 0 => request[r].step \in Transacting /\ now[r] # 0
  /\ now[r] # 0 => request[r].step \in Transacting \cup {"add.checked"}
  /\ At(r, "add.split") => now[r] # 0
  /\ before[r] \subseteq Committed
  /\ r \in Committed => request[r].step \notin Uncommitted

\* Each message has a stamp, and just the conversations that exist have messages.
LogTimed(c) ==
  /\ Len(wrote[c]) = Len(messages[c])
  /\ c \in Existing <=> Len(messages[c]) > 0
  /\ \A i \in DOMAIN wrote[c] : wrote[c][i].stamp <= clock
  /\ updatedAt[c] <= clock

TimesInvariant ==
  /\ RosterInvariant
  /\ TimesTypeOK
  /\ IsFiniteSet(Existing)
  /\ \A r \in Requests : CallTimed(r)
  /\ \A c \in Conversations : LogTimed(c)

\* createdAt: a call that comes after another has a later stamp.
StampsOrdered(c) ==
  /\ \A i \in DOMAIN wrote[c], r \in Requests :
       stamp[r] # 0 /\ ComesAfter(r, wrote[c][i].call) => wrote[c][i].stamp < stamp[r]
  /\ \A i, j \in DOMAIN wrote[c] :
       ComesAfter(wrote[c][j].call, wrote[c][i].call) => wrote[c][i].stamp < wrote[c][j].stamp

\* updatedAt: a call that comes after all of a conversation takes a later time.
AllBefore(a, r) == WritersOf(a) \subseteq before[r]
LastCall(c) == Last(wrote[c]).call

UpdatesOrdered(a) ==
  /\ \A r \in Requests : now[r] # 0 =>
       updatedAt[a] # now[r] /\ (AllBefore(a, r) => updatedAt[a] < now[r])
  /\ \A b \in Existing :
       /\ a # b => updatedAt[a] # updatedAt[b]
       /\ AllBefore(a, LastCall(b)) => updatedAt[a] < updatedAt[b]

NowsApart == \A r, q \in Requests : now[r] # 0 /\ now[r] = now[q] => r = q

\* The look-up of a creation has seen every pair created before it.
Creator(c) == wrote[c][1].call

PairSeen(r) ==
  At(r, "create.checked") /\ request[r].kind = "DIRECT" =>
    \A d \in Existing : kind[d] = "DIRECT" /\ ComesAfter(r, Creator(d)) =>
      RowsIn(d) # request[r].users \cup {request[r].by}

\* What a call has checked of who takes part, when nothing runs beside it.
StillTrue(q) ==
  /\ q.step \in {"add.checked", "add.split"} => q.users \cap ActiveIn(q.conv) = {}
  /\ q.step = "remove.checked" => q.users \subseteq ActiveIn(q.conv)
  /\ q.step = "send.checked" => q.by \in ActiveIn(q.conv)

StoryOf(h, outsiders) ==
  \A n \in DOMAIN h, u \in outsiders :
    /\ Says(h[n], "JOINED", u) => ~WasIn(h, u, n - 1)
    /\ Says(h[n], "LEFT", u) => WasIn(h, u, n - 1)
    /\ Says(h[n], "TEXT", u) => WasIn(h, u, n - 1)

AloneOK(c) ==
  /\ \A r, q \in InFlight : request[r].conv = c /\ request[q].conv = c => r = q
  /\ \A r \in InFlight : request[r].conv = c =>
       /\ StillTrue(request[r])
       /\ stamp[r] # 0 => \A i \in DOMAIN wrote[c] : wrote[c][i].stamp <= stamp[r]
  /\ \A i, j \in DOMAIN wrote[c] : i < j => wrote[c][i].stamp <= wrote[c][j].stamp
  /\ kind[c] = "GROUP" => StoryOf(messages[c], Users \ OwnersIn(c))

\* What r is going to write contradicts no message of a call it comes after.
Pending(q, type, u) ==
  \/ q.step \in {"add.checked", "add.split"} /\ type = "JOINED" /\ u \in q.users
  \/ q.step = "remove.checked" /\ type = "LEFT" /\ u \in q.users
  \/ q.step = "send.checked" /\ type = "TEXT" /\ u = q.by

ReadyIn(r, c) ==
  request[r].conv = c /\ kind[c] = "GROUP" =>
    \A u \in Users \ OwnersIn(c), t \in Turns, d \in DOMAIN messages[c] :
      /\ Pending(request[r], t.says, u)
      /\ ComesAfter(r, wrote[c][d].call) /\ Says(messages[c][d], t.said, u)
      => \E i \in DOMAIN messages[c] : i > d /\ Says(messages[c][i], t.between, u)

OrderInvariant == TimesInvariant /\ \A c \in Conversations : StampsOrdered(c)
ListInvariant == TimesInvariant /\ NowsApart /\ \A a \in Existing : UpdatesOrdered(a)
TwinsInvariant == TimesInvariant /\ TwinsOverlapped /\ \A r \in Requests : PairSeen(r)
StoryInvariant == TimesInvariant /\ \A c \in Conversations \ overlapped : AloneOK(c)
TurnsInvariant ==
  TimesInvariant /\ MessagesTakeTurns /\ \A r \in Requests, c \in Conversations : ReadyIn(r, c)
(***************************************************************************)
(* What orderBy returns.                                                   *)
(***************************************************************************)

\* A finite set ordered by a strict total order: every place holds an element,
\* every element has a place, and earlier places hold what precedes.
LEMMA InOrderPlaces ==
  ASSUME NEW S, IsFiniteSet(S), NEW R,
         \A x \in S : <<x, x>> \notin R,
         \A x, y, z \in S : <<x, y>> \in R /\ <<y, z>> \in R => <<x, z>> \in R,
         \A x, y \in S : x # y => <<x, y>> \in R \/ <<y, x>> \in R
  PROVE  /\ Cardinality(S) \in Nat
         /\ InOrder(S, R) \in [1 .. Cardinality(S) -> S]
         /\ \A i, j \in 1 .. Cardinality(S) :
              i < j => <<InOrder(S, R)[i], InOrder(S, R)[j]>> \in R
         /\ \A n \in 1 .. Cardinality(S) :
              Cardinality({y \in S : <<y, InOrder(S, R)[n]>> \in R}) = n - 1
         /\ \A x \in S : \E n \in 1 .. Cardinality(S) : InOrder(S, R)[n] = x
<1> DEFINE N == Cardinality(S)
           Below(x) == {y \in S : <<y, x>> \in R}
           place == [x \in S |-> Cardinality(Below(x)) + 1]
<1>1. N \in Nat
  BY FS_CardinalityType
<1>2. ASSUME NEW x \in S PROVE IsFiniteSet(Below(x)) /\ Cardinality(Below(x)) \in Nat
  BY FS_Subset, FS_CardinalityType
<1>3. ASSUME NEW x \in S, NEW y \in S, <<x, y>> \in R
      PROVE  Cardinality(Below(x)) < Cardinality(Below(y))
  <2>1. Below(x) \subseteq Below(y) /\ x \in Below(y) /\ x \notin Below(x)
    BY <1>3
  <2>2. Cardinality(Below(x)) <= Cardinality(Below(y))
        /\ Cardinality(Below(x)) # Cardinality(Below(y))
    <3> HIDE DEF Below
    <3> QED BY <1>2, <2>1, FS_Subset
  <2> QED BY <1>2, <2>2
<1>4. ASSUME NEW x \in S PROVE Cardinality(Below(x)) < N
  <2>1. Below(x) \subseteq S /\ x \notin Below(x)
    OBVIOUS
  <2>2. Cardinality(Below(x)) <= N /\ Cardinality(Below(x)) # N
    <3> HIDE DEF Below
    <3> QED BY <2>1, FS_Subset
  <2> QED BY <1>1, <1>2, <2>2
<1> HIDE DEF Below
<1>5. \A x \in S : place[x] \in 1 .. N
  BY <1>1, <1>2, <1>4
<1>6. ASSUME NEW x \in S, NEW y \in S, place[x] = place[y] PROVE x = y
  <2>1. Cardinality(Below(x)) = Cardinality(Below(y))
    BY <1>2, <1>6
  <2>2. <<x, y>> \notin R /\ <<y, x>> \notin R
    BY <1>2, <1>3, <2>1
  <2> QED BY <2>2
<1>7. place \in Injection(S, 1 .. N)
  BY <1>5, <1>6 DEF Injection, IsInjective
<1>8. IsFiniteSet(1 .. N) /\ Cardinality(1 .. N) = N
  BY <1>1, FS_Interval
<1>9. place \in Surjection(S, 1 .. N)
  BY <1>7, <1>8, FS_Injection
<1>10. \A n \in 1 .. N : \E x \in S : place[x] = n
  BY <1>9 DEF Surjection
<1>11. ASSUME NEW n \in 1 .. N
       PROVE  InOrder(S, R)[n] \in S /\ place[InOrder(S, R)[n]] = n
  <2>1. InOrder(S, R)[n] = CHOOSE x \in S : Cardinality(Below(x)) = n - 1
    BY DEF InOrder, Below
  <2>2. \E x \in S : Cardinality(Below(x)) = n - 1
    BY <1>1, <1>2, <1>10
  <2>3. InOrder(S, R)[n] \in S /\ Cardinality(Below(InOrder(S, R)[n])) = n - 1
    BY <2>1, <2>2
  <2> QED BY <1>1, <2>3
<1>12. InOrder(S, R) \in [1 .. N -> S]
  <2> DEFINE Held(n) == CHOOSE x \in S : Cardinality({y \in S : <<y, x>> \in R}) = n - 1
  <2>1. InOrder(S, R) = [n \in 1 .. N |-> Held(n)]
    BY DEF InOrder
  <2> HIDE DEF Held
  <2>2. \A n \in 1 .. N : Held(n) = InOrder(S, R)[n]
    BY <2>1
  <2>3. \A n \in 1 .. N : Held(n) \in S
    BY <1>11, <2>2
  <2> QED BY <2>1, <2>3
<1>13. ASSUME NEW i \in 1 .. N, NEW j \in 1 .. N, i < j
       PROVE  <<InOrder(S, R)[i], InOrder(S, R)[j]>> \in R
  <2> PICK x \in S, y \in S : x = InOrder(S, R)[i] /\ y = InOrder(S, R)[j]
    BY <1>11
  <2>1. place[x] = i /\ place[y] = j
    BY <1>11
  <2>2. x # y
    BY <1>1, <1>13, <2>1
  <2>3. <<y, x>> \notin R
    BY <1>1, <1>2, <1>3, <1>13, <2>1
  <2> QED BY <2>2, <2>3
<1>14. ASSUME NEW x \in S PROVE \E n \in 1 .. N : InOrder(S, R)[n] = x
  BY <1>5, <1>6, <1>11
<1>15. ASSUME NEW n \in 1 .. N
       PROVE  Cardinality({y \in S : <<y, InOrder(S, R)[n]>> \in R}) = n - 1
  <2> PICK x \in S : x = InOrder(S, R)[n]
    BY <1>11
  <2>1. Cardinality(Below(x)) \in Nat /\ place[x] = n
    BY <1>2, <1>11
  <2>2. Cardinality(Below(x)) + 1 = n
    BY <2>1
  <2>3. Cardinality(Below(x)) = n - 1
    BY <2>1, <2>2
  <2> QED BY <2>3 DEF Below
<1> QED BY <1>1, <1>12, <1>13, <1>14, <1>15

\* The messages of c, newest first: every message once, a newer one before an
\* older one.
LEMMA NewestFirstOrders ==
  ASSUME NEW c \in Conversations, TimesTypeOK, messages[c] \in Seq(Message), LogTimed(c)
  PROVE  /\ DOMAIN messages[c] = 1 .. Len(messages[c])
         /\ NewestFirst(c) \in [1 .. Len(messages[c]) -> 1 .. Len(messages[c])]
         /\ \A i, j \in 1 .. Len(messages[c]) :
              i < j => IsNewer(c, NewestFirst(c)[i], NewestFirst(c)[j])
         /\ \A n \in 1 .. Len(messages[c]) :
              Cardinality({k \in 1 .. Len(messages[c]) : IsNewer(c, k, NewestFirst(c)[n])}) = n - 1
         /\ \A k \in 1 .. Len(messages[c]) :
              \E n \in 1 .. Len(messages[c]) : NewestFirst(c)[n] = k
<1> DEFINE places == DOMAIN messages[c]
           R == {p \in places \X places : IsNewer(c, p[1], p[2])}
<1>1. Len(messages[c]) \in Nat /\ places = 1 .. Len(messages[c])
  OBVIOUS
<1>2. IsFiniteSet(places) /\ Cardinality(places) = Len(messages[c])
  BY <1>1, FS_Interval
<1>3. \A i \in places : wrote[c][i].stamp \in Nat
  <2>1. wrote[c] \in Seq([call : Requests, stamp : Nat])
    BY DEF TimesTypeOK
  <2>2. Len(wrote[c]) = Len(messages[c])
    BY DEF LogTimed
  <2>3. \A i \in places : wrote[c][i] \in [call : Requests, stamp : Nat]
    <3>1. \A i \in 1 .. Len(wrote[c]) : wrote[c][i] \in [call : Requests, stamp : Nat]
      <4> HIDE DEF places
      <4> QED BY <2>1, ElementOfSeq
    <3> QED BY <1>1, <2>2, <3>1
  <2> QED BY <2>3
<1>4. \A i, j \in places : <<i, j>> \in R <=> IsNewer(c, i, j)
  OBVIOUS
<1>5. NewestFirst(c) = InOrder(places, R)
  BY DEF NewestFirst
<1> HIDE DEF R
<1>6. \A x \in places : <<x, x>> \notin R
  BY <1>1, <1>3, <1>4 DEF IsNewer
<1>7. \A x, y, z \in places : <<x, y>> \in R /\ <<y, z>> \in R => <<x, z>> \in R
  BY <1>1, <1>3, <1>4 DEF IsNewer
<1>8. \A x, y \in places : x # y => <<x, y>> \in R \/ <<y, x>> \in R
  BY <1>1, <1>3, <1>4 DEF IsNewer
<1> HIDE DEF places
<1> PICK N : N = Cardinality(places)
  OBVIOUS
<1> PICK s : s = InOrder(places, R)
  OBVIOUS
<1>9. /\ s \in [1 .. N -> places]
      /\ \A i, j \in 1 .. N : i < j => <<s[i], s[j]>> \in R
      /\ \A k \in places : \E n \in 1 .. N : s[n] = k
      /\ \A n \in 1 .. N : Cardinality({k \in places : <<k, s[n]>> \in R}) = n - 1
  BY <1>2, <1>6, <1>7, <1>8, InOrderPlaces
<1>10. ASSUME NEW n \in 1 .. N
       PROVE  Cardinality({k \in places : IsNewer(c, k, s[n])}) = n - 1
  <2> PICK x \in places : x = s[n]
    BY <1>9
  <2>1. {k \in places : IsNewer(c, k, x)} = {k \in places : <<k, x>> \in R}
    BY <1>4
  <2> QED BY <1>9, <2>1
<1>11. \A i, j \in 1 .. N : i < j => IsNewer(c, s[i], s[j])
  BY <1>4, <1>9
<1>12. N = Len(messages[c]) /\ places = 1 .. N /\ DOMAIN messages[c] = 1 .. N /\ s = NewestFirst(c)
  BY <1>1, <1>2, <1>5 DEF places
<1> QED BY <1>9, <1>10, <1>11, <1>12
(***************************************************************************)
(* What the steps do.                                                      *)
(***************************************************************************)

LEMMA ActivityIsStore ==
  ASSUME [ActNext]_actvars
  PROVE  [Next]_vars
BY DEF ActNext, actvars, BeginCall, TakeNow, ReadLeftAfterNow, StartTransaction,
       CommitTransaction, FinishCall, AbortCall, Next, Continue, Work

\* Nothing happens to call t, it reads who has left, or it goes on after its
\* commit or ends.
CallPasses(t) ==
  \/ request'[t] = request[t] /\ now'[t] = now[t] /\ stamp'[t] = stamp[t]
  \/ /\ At(t, "add.checked") /\ now[t] # 0
     /\ request'[t].step = "add.split" /\ now'[t] = now[t] /\ stamp'[t] = stamp[t]
     /\ request'[t].conv = request[t].conv /\ request'[t].users = request[t].users
  \/ /\ t \in InFlight /\ request'[t].step \notin Uncommitted
     /\ now'[t] = 0 /\ stamp'[t] = 0
     /\ request'[t].step # "ended" => request'[t].conv = request[t].conv

Passes ==
  /\ UNCHANGED <<store, clock, wrote, updatedAt, before, overlapped>>
  /\ \A t \in Requests : CallPasses(t)

\* The calls, typed.
LEMMA Calls ==
  ASSUME TimesInvariant
  PROVE  /\ OwnerInvariant
         /\ request \in [Requests -> Request]
         /\ now \in [Requests -> Nat] /\ stamp \in [Requests -> Nat]
BY DEF TimesInvariant, RosterInvariant, OwnerInvariant, TypeOK, TimesTypeOK

LEMMA ReadLeftPasses ==
  ASSUME TimesInvariant, NEW r \in Requests, ReadLeftAfterNow(r)
  PROVE  Passes
<1>1. request \in [Requests -> Request]
  BY Calls
<1>2. \A t \in Requests \ {r} : CallPasses(t)
  BY <1>1 DEF CallPasses, ReadLeftAfterNow, ReadLeft, Becomes, activity, times
<1>3. CallPasses(r)
  <2> PICK q : q = request[r]
    OBVIOUS
  <2>1. q \in Request
    BY <1>1
  <2>2. request'[r] = [q EXCEPT !.step = "add.split", !.left = q.users \cap LeftIn(q.conv)]
    BY <1>1 DEF ReadLeftAfterNow, ReadLeft, Becomes
  <2>3. /\ request'[r].step = "add.split" /\ request'[r].conv = q.conv
        /\ request'[r].users = q.users
    BY <2>1, <2>2 DEF Request
  <2> QED BY <2>3 DEF CallPasses, ReadLeftAfterNow, ReadLeft, activity, times
<1> QED BY <1>2, <1>3 DEF Passes, ReadLeftAfterNow, ReadLeft, activity, times

\* A call under way that goes on after its commit, or ends.
LEMMA FinishPasses ==
  ASSUME TimesInvariant, NEW r \in Requests, FinishCall(r)
  PROVE  Passes
<1>1. request \in [Requests -> Request]
  BY Calls
<1> PICK q : q = request[r]
  OBVIOUS
<1>2. /\ UNCHANGED <<store, activity>>
      /\ q.step \in {"add.committed", "remove.committed", "create.committed", "add.reread",
                     "remove.reread", "send.committed"}
  BY DEF FinishCall, RereadAdd, RereadRemove, Reread, Answer, EmitCreated, EmitAdded,
         EmitRemoved, ReturnMessage, At
<1>3. now[r] = 0 /\ stamp[r] = 0
  BY <1>2 DEF TimesInvariant, CallTimed, Transacting
<1>4. \E step \in {"add.reread", "remove.reread"} :
        Becomes(r, Ended) \/ Becomes(r, [q EXCEPT !.step = step, !.seen = ActiveIn(q.conv)])
  BY DEF FinishCall, RereadAdd, RereadRemove, Reread, Proceed, Answer, EmitCreated, EmitAdded,
         EmitRemoved, ReturnMessage
<1>5. /\ request'[r].step \notin Uncommitted
      /\ request'[r].step # "ended" => request'[r].conv = q.conv
  <2>1. CASE Becomes(r, Ended)
    BY <1>1, <2>1, EndedOK DEF Becomes, Uncommitted, Transacting
  <2>2. ASSUME NEW step \in {"add.reread", "remove.reread"},
               Becomes(r, [q EXCEPT !.step = step, !.seen = ActiveIn(q.conv)])
        PROVE  request'[r].step = step /\ request'[r].conv = q.conv
    BY <1>1, <2>2 DEF Becomes, Request
  <2> QED BY <1>4, <2>1, <2>2 DEF Uncommitted, Transacting
<1>6. CallPasses(r)
  BY <1>2, <1>3, <1>5 DEF CallPasses, InFlight, activity, times
<1>7. \A t \in Requests \ {r} : CallPasses(t)
  BY <1>1, <1>2, <1>4 DEF CallPasses, Becomes, activity, times
<1> QED BY <1>2, <1>6, <1>7 DEF Passes, activity, times

LEMMA AbortPasses ==
  ASSUME TimesInvariant, NEW r \in Requests, AbortCall(r)
  PROVE  Passes
<1>1. request \in [Requests -> Request]
  BY Calls
<1>2. request'[r].step = "ended"
  BY <1>1, EndedOK DEF AbortCall, Abort, Becomes
<1>3. CallPasses(r)
  BY <1>2, Calls DEF CallPasses, AbortCall, Abort, Uncommitted, Transacting
<1>4. \A t \in Requests \ {r} : CallPasses(t)
  BY <1>1, Calls DEF CallPasses, AbortCall, Abort, Becomes
<1> QED BY <1>3, <1>4 DEF Passes, AbortCall, Abort

\* Nothing written.
LEMMA NothingWritten ==
  ASSUME NEW S, NEW seq \in Seq(S), NEW e
  PROVE  seq \o [i \in 1 .. 0 |-> e] = seq
<1>1. [i \in 1 .. 0 |-> e] = << >>
  OBVIOUS
<1> QED BY <1>1

\* A commit writes one or two messages into the conversation of its call, or is
\* rolled back.
LEMMA CommitFacts ==
  ASSUME TimesInvariant, NEW r \in Requests, CommitTransaction(r), NEW c, c = request[r].conv
  PROVE  /\ c \in Conversations /\ request[r].step \in Transacting /\ r \in InFlight
         /\ \A t \in Requests \ {r} : request'[t] = request[t]
         /\ \A d \in Conversations \ {c} :
              /\ kind'[d] = kind[d] /\ participant'[d] = participant[d]
              /\ messages'[d] = messages[d]
         /\ \/ UNCHANGED store /\ request'[r].step = "ended"
            \/ /\ request'[r].step \notin Uncommitted \cup {"ended"}
               /\ request'[r].conv = c /\ kind'[c] # "NONE"
               /\ Len(messages'[c]) \in {Len(messages[c]) + 1, Len(messages[c]) + 2}
<1> PICK q : q = request[r]
  OBVIOUS
<1>1. request \in [Requests -> Request] /\ q \in Request /\ CallOK(q)
  BY Calls DEF OwnerInvariant
<1>2. q.step \in Transacting /\ r \in InFlight
  BY DEF CommitTransaction, CommitCreate, CommitAdd, CommitRemove, CommitSend, At, InFlight,
         Transacting
<1>3. c \in Conversations
  BY <1>1, <1>2 DEF CallOK, InFlight
<1>4. /\ kind \in [Conversations -> {"NONE", "DIRECT", "GROUP"}]
      /\ participant \in [Conversations -> [Users -> Row]]
      /\ messages \in [Conversations -> Seq(Message)]
  BY DEF TimesInvariant, RosterInvariant, OwnerInvariant, TypeOK
<1>5. ASSUME NEW e, messages' = [messages EXCEPT ![c] = Append(@, e)]
      PROVE  Len(messages'[c]) = Len(messages[c]) + 1
  <2>1. messages[c] \in Seq(Message) /\ messages'[c] = Append(messages[c], e)
    BY <1>3, <1>4, <1>5
  <2> QED BY <2>1
<1>6. CASE CommitCreate(r)
  <2>1. kind'[c] # "NONE" /\ kind[c] = "NONE"
    BY <1>1, <1>3, <1>4, <1>6 DEF CommitCreate, CallOK, At
  <2>2. Len(messages[c]) = 0
    <3>1. Len(messages[c]) \in Nat /\ ~(Len(messages[c]) > 0)
      BY <1>3, <1>4, <2>1 DEF TimesInvariant, LogTimed, Existing
    <3> QED BY <3>1
  <2>3. messages'[c] = InitialMessages(q.kind, q.users)
    BY <1>3, <1>4, <1>6 DEF CommitCreate
  <2>4. Len(InitialMessages(q.kind, q.users)) \in {1, 2}
    BY DEF InitialMessages
  <2>5. request'[r] = [q EXCEPT !.step = "create.committed", !.seen = q.users \cup {q.by}]
    BY <1>1, <1>6 DEF CommitCreate, Becomes
  <2>6. request'[r].step = "create.committed" /\ request'[r].conv = c
    BY <1>1, <2>5 DEF Request
  <2>7. \A t \in Requests \ {r} : request'[t] = request[t]
    BY <1>1, <1>6 DEF CommitCreate, Becomes
  <2>8. \A d \in Conversations \ {c} :
          kind'[d] = kind[d] /\ participant'[d] = participant[d] /\ messages'[d] = messages[d]
    BY <1>4, <1>6 DEF CommitCreate
  <2>9. request'[r].step \notin Uncommitted \cup {"ended"}
    BY <2>6 DEF Uncommitted, Transacting
  <2> QED BY <1>2, <1>3, <2>1, <2>2, <2>3, <2>4, <2>6, <2>7, <2>8, <2>9
<1>7. CASE CommitAdd(r)
  <2>1. kind[c] = "GROUP" /\ UNCHANGED kind
    BY <1>1, <1>7 DEF CommitAdd, CallOK, At, store
  <2>2. \A t \in Requests \ {r} : request'[t] = request[t]
    BY <1>1, <1>7 DEF CommitAdd, Becomes
  <2>3. CASE (q.users \ q.left) \cap RowsIn(c) = {}
    <3>1. request'[r] = [q EXCEPT !.step = "add.committed"]
      BY <1>1, <1>7, <2>3 DEF CommitAdd, Becomes
    <3>2. request'[r].step = "add.committed" /\ request'[r].conv = c
      BY <1>1, <3>1 DEF Request
    <3>3. /\ messages' = [messages EXCEPT ![c] = Append(@, Entry("JOINED", q.users))]
          /\ participant' = [participant EXCEPT ![c] = RowsAfterAdd(c, q.users)]
      BY <1>7, <2>3 DEF CommitAdd
    <3>4. Len(messages'[c]) = Len(messages[c]) + 1
      BY <1>5, <3>3
    <3>5. \A d \in Conversations \ {c} :
            participant'[d] = participant[d] /\ messages'[d] = messages[d]
      BY <1>4, <3>3
    <3> QED BY <1>2, <1>3, <2>1, <2>2, <3>2, <3>4, <3>5 DEF Uncommitted, Transacting
  <2>4. CASE (q.users \ q.left) \cap RowsIn(c) # {}
    <3>1. UNCHANGED store /\ Becomes(r, Ended)
      BY <1>7, <2>4 DEF CommitAdd
    <3>2. request'[r].step = "ended"
      BY <1>1, <3>1, EndedOK DEF Becomes
    <3> QED BY <1>2, <1>3, <2>2, <3>1, <3>2 DEF store
  <2> QED BY <2>3, <2>4
<1>8. CASE CommitRemove(r)
  <2>1. kind[c] = "GROUP" /\ UNCHANGED kind
    BY <1>1, <1>8 DEF CommitRemove, CallOK, At
  <2>2. request'[r] = [q EXCEPT !.step = "remove.committed"]
    BY <1>1, <1>8 DEF CommitRemove, Becomes
  <2>3. request'[r].step = "remove.committed" /\ request'[r].conv = c
    BY <1>1, <2>2 DEF Request
  <2>4. /\ messages' = [messages EXCEPT ![c] = Append(@, Entry("LEFT", q.users))]
        /\ participant' = [participant EXCEPT ![c] = RowsAfterRemove(c, q.users)]
    BY <1>8 DEF CommitRemove
  <2>5. \A d \in Conversations \ {c} :
          participant'[d] = participant[d] /\ messages'[d] = messages[d]
    BY <1>4, <2>4
  <2>6. \A t \in Requests \ {r} : request'[t] = request[t]
    BY <1>1, <1>8 DEF CommitRemove, Becomes
  <2>7. Len(messages'[c]) = Len(messages[c]) + 1
    BY <1>5, <2>4
  <2> QED BY <1>2, <1>3, <2>1, <2>3, <2>5, <2>6, <2>7 DEF Uncommitted, Transacting
<1>9. CASE CommitSend(r)
  <2>1. kind[c] # "NONE" /\ UNCHANGED <<kind, participant>>
    BY <1>1, <1>9 DEF CommitSend, CallOK, At
  <2>2. request'[r] = [q EXCEPT !.step = "send.committed", !.seen = ActiveIn(c)]
    BY <1>1, <1>9 DEF CommitSend, Becomes
  <2>3. request'[r].step = "send.committed" /\ request'[r].conv = c
    BY <1>1, <2>2 DEF Request
  <2>4. messages' = [messages EXCEPT ![c] = Append(@, Entry("TEXT", {q.by}))]
    BY <1>9 DEF CommitSend
  <2>5. \A d \in Conversations \ {c} : messages'[d] = messages[d]
    BY <1>4, <2>4
  <2>6. \A t \in Requests \ {r} : request'[t] = request[t]
    BY <1>1, <1>9 DEF CommitSend, Becomes
  <2>7. Len(messages'[c]) = Len(messages[c]) + 1
    BY <1>5, <2>4
  <2> QED BY <1>2, <1>3, <2>1, <2>3, <2>5, <2>6, <2>7 DEF Uncommitted, Transacting
<1> QED BY <1>6, <1>7, <1>8, <1>9 DEF CommitTransaction

\* An addition that is rolled back.
LEMMA RollbackPasses ==
  ASSUME TimesInvariant, NEW r \in Requests, CommitTransaction(r), request'[r].step = "ended"
  PROVE  Passes
<1> PICK c : c = request[r].conv
  OBVIOUS
<1>1. /\ c \in Conversations /\ r \in InFlight /\ UNCHANGED store
      /\ \A t \in Requests \ {r} : request'[t] = request[t]
  BY CommitFacts
<1>2. wrote \in [Conversations -> Seq([call : Requests, stamp : Nat])]
  BY DEF TimesInvariant, TimesTypeOK
<1>3. Len(messages'[c]) - Len(messages[c]) = 0
  <2>1. messages[c] \in Seq(Message)
    BY <1>1 DEF TimesInvariant, RosterInvariant, OwnerInvariant, TypeOK
  <2>2. Len(messages[c]) \in Nat /\ messages'[c] = messages[c]
    BY <1>1, <2>1 DEF store
  <2> QED BY <2>2
<1>4. wrote' = [wrote EXCEPT ![c] = @ \o [i \in 1 .. 0 |-> [call |-> r, stamp |-> stamp[r]]]]
  BY <1>3 DEF CommitTransaction
<1>5. wrote' = wrote
  <2>1. wrote[c] \in Seq([call : Requests, stamp : Nat])
    BY <1>1, <1>2
  <2>2. wrote[c] \o [i \in 1 .. 0 |-> [call |-> r, stamp |-> stamp[r]]] = wrote[c]
    BY <2>1, NothingWritten
  <2> QED BY <1>2, <1>4, <2>2
<1>6. updatedAt' = updatedAt /\ UNCHANGED <<clock, before, overlapped>>
  BY <1>3 DEF CommitTransaction
<1>7. /\ now' = [now EXCEPT ![r] = 0] /\ stamp' = [stamp EXCEPT ![r] = 0]
  BY DEF CommitTransaction
<1>8. now'[r] = 0 /\ stamp'[r] = 0
  BY <1>7, Calls
<1>9. CallPasses(r)
  BY <1>1, <1>8 DEF CallPasses, Uncommitted, Transacting
<1>10. \A t \in Requests \ {r} : CallPasses(t)
  BY <1>1, <1>7, Calls DEF CallPasses
<1> QED BY <1>1, <1>5, <1>6, <1>9, <1>10 DEF Passes
\* Everything but a call that begins, takes a time or writes.
LEMMA PassingSteps ==
  ASSUME TimesInvariant
  PROVE  /\ \A r \in Requests :
              \/ ReadLeftAfterNow(r) \/ FinishCall(r) \/ AbortCall(r)
              \/ CommitTransaction(r) /\ request'[r].step = "ended"
              => Passes
         /\ (AllAnswered /\ UNCHANGED activity) \/ UNCHANGED actvars => Passes
<1>1. ASSUME (AllAnswered /\ UNCHANGED activity) \/ UNCHANGED actvars PROVE Passes
  BY <1>1 DEF AllAnswered, actvars, vars, activity, times, Passes, CallPasses, store
<1> QED BY <1>1, ReadLeftPasses, FinishPasses, AbortPasses, RollbackPasses

\* A time is taken: a call's updatedAt, the stamp of its transaction, or both.
Ticks(r) ==
  /\ UNCHANGED <<vars, wrote, updatedAt, before, overlapped>>
  /\ clock' = clock + 1
  /\ \A t \in Requests \ {r} : now'[t] = now[t] /\ stamp'[t] = stamp[t]
  /\ now'[r] \in {now[r], clock + 1} /\ now'[r] # 0
  /\ stamp'[r] \in {stamp[r], clock + 1}
  /\ request[r].step \in Transacting \cup {"add.checked"}
  /\ stamp'[r] # 0 => request[r].step \in Transacting

LEMMA TickFacts ==
  ASSUME TimesInvariant, NEW r \in Requests, TakeNow(r) \/ StartTransaction(r)
  PROVE  Ticks(r)
<1>1. now \in [Requests -> Nat] /\ stamp \in [Requests -> Nat] /\ clock \in Nat /\ CallTimed(r)
  BY DEF TimesInvariant, TimesTypeOK
<1>2. CASE TakeNow(r)
  <2>1. clock' = clock + 1 /\ now' = [now EXCEPT ![r] = clock + 1]
    BY <1>2 DEF TakeNow
  <2>2. now'[r] = clock + 1 /\ clock + 1 # 0
    BY <1>1, <2>1
  <2> QED BY <1>1, <1>2, <2>1, <2>2 DEF TakeNow, Ticks, At, CallTimed
<1>3. CASE StartTransaction(r)
  <2>1. /\ clock' = clock + 1 /\ clock + 1 # 0
        /\ stamp' = [stamp EXCEPT ![r] = clock + 1]
        /\ now' = [now EXCEPT ![r] = IF At(r, "add.split") THEN @ ELSE clock + 1]
    BY <1>1, <1>3 DEF StartTransaction
  <2>2. stamp'[r] = clock + 1 /\ now'[r] = IF At(r, "add.split") THEN now[r] ELSE clock + 1
    BY <1>1, <2>1
  <2>3. now'[r] # 0
    BY <1>1, <2>1, <2>2 DEF CallTimed
  <2> QED BY <1>1, <1>3, <2>1, <2>2, <2>3 DEF StartTransaction, Ticks, Transacting
<1> QED BY <1>2, <1>3

\* A call begins, if it is not refused with what it has checked.
Begun(q) ==
  \/ q.step = "ended" /\ q.conv = None
  \/ q.step = "create.checked" /\ CreateAccepts(q.by, q.kind, q.users)
  \/ q.step \in {"add.checked", "remove.checked", "send.checked"} /\ StillTrue(q)

Begins(r) ==
  /\ UNCHANGED <<store, times>>
  /\ At(r, "idle") /\ Begun(request'[r])
  /\ before'[r] = Committed
  /\ \A t \in Requests \ {r} : request'[t] = request[t] /\ before'[t] = before[t]
  /\ overlapped' = overlapped \cup
       ({request[q].conv : q \in InFlight} \cap {request'[r].conv})

LEMMA BeginFacts ==
  ASSUME TimesInvariant, NEW r \in Requests, BeginCall(r)
  PROVE  Begins(r)
<1>1. request \in [Requests -> Request] /\ before \in [Requests -> SUBSET Requests]
  BY Calls DEF TimesInvariant, TimesTypeOK
<1>2. Begun(Ended)
  BY DEF Begun, Ended, Idle
<1>3. Begin(r) /\ UNCHANGED store /\ At(r, "idle")
  BY DEF BeginCall, Begin, BeginHttp, RefuseIds, BeginCreate, BeginAdd, BeginRemove, BeginSend,
         StartSend, CanBegin
<1>4. \E q : Becomes(r, q) /\ Begun(q)
  <2>1. CASE RefuseIds(r)
    BY <1>2, <2>1 DEF RefuseIds
  <2>2. CASE BeginCreate(r)
    <3>1. PICK i, k, c, us :
            Proceed(r, CreateAccepts(i, k, us), Call("create.checked", i, c, k, us))
      BY <2>2 DEF BeginCreate
    <3>2. CreateAccepts(i, k, us) => Begun(Call("create.checked", i, c, k, us))
      BY DEF Begun, Call
    <3> QED BY <1>2, <3>1, <3>2 DEF Proceed
  <2>3. CASE BeginAdd(r)
    <3>1. PICK i \in Users, c \in Existing, us \in SUBSET Users :
            Proceed(r, AddAccepts(c, i, us), Call("add.checked", i, c, "NONE", us))
      BY <2>3 DEF BeginAdd
    <3>2. AddAccepts(c, i, us) => Begun(Call("add.checked", i, c, "NONE", us))
      BY DEF Begun, Call, AddAccepts, StillTrue
    <3> QED BY <1>2, <3>1, <3>2 DEF Proceed
  <2>4. CASE BeginRemove(r)
    <3>1. PICK i \in Users, c \in Existing, t \in Users :
            Proceed(r, RemoveAccepts(c, i, t), Call("remove.checked", i, c, "NONE", {t}))
      BY <2>4 DEF BeginRemove
    <3>2. RemoveAccepts(c, i, t) => Begun(Call("remove.checked", i, c, "NONE", {t}))
      BY DEF Begun, Call, RemoveAccepts, StillTrue
    <3> QED BY <1>2, <3>1, <3>2 DEF Proceed
  <2>5. CASE BeginSend(r)
    <3>1. PICK u \in Users, c \in Existing :
            Proceed(r, SendAccepts(c, u), Call("send.checked", u, c, "NONE", {}))
      BY <2>5 DEF BeginSend, StartSend
    <3>2. SendAccepts(c, u) => Begun(Call("send.checked", u, c, "NONE", {}))
      BY DEF Begun, Call, SendAccepts, StillTrue
    <3> QED BY <1>2, <3>1, <3>2 DEF Proceed
  <2> QED BY <1>3, <2>1, <2>2, <2>3, <2>4, <2>5 DEF Begin, BeginHttp
<1>5. PICK q : Becomes(r, q) /\ Begun(q)
  BY <1>4
<1>6. request'[r] = q /\ \A t \in Requests \ {r} : request'[t] = request[t]
  BY <1>1, <1>5 DEF Becomes
<1>7. before'[r] = Committed /\ \A t \in Requests \ {r} : before'[t] = before[t]
  BY <1>1 DEF BeginCall
<1>8. /\ UNCHANGED times
      /\ overlapped' = overlapped \cup
           ({request[t].conv : t \in InFlight} \cap {request'[r].conv})
  BY DEF BeginCall
<1>9. Begun(request'[r])
  BY <1>5, <1>6
<1> QED BY <1>3, <1>6, <1>7, <1>8, <1>9 DEF Begins

\* A call writes its entries after those of its conversation, and the time it has.
Writes(r, c) ==
  /\ c \in Conversations /\ request[r].conv = c
  /\ r \in InFlight /\ request[r].step \in Transacting
  /\ request'[r].step \notin Uncommitted \cup {"ended"} /\ request'[r].conv = c
  /\ stamp[r] # 0 /\ now[r] # 0 /\ stamp'[r] = 0 /\ now'[r] = 0
  /\ \A t \in Requests \ {r} :
       request'[t] = request[t] /\ now'[t] = now[t] /\ stamp'[t] = stamp[t]
  /\ Existing' = Existing \cup {c}
  /\ \A d \in Conversations \ {c} :
       /\ kind'[d] = kind[d] /\ participant'[d] = participant[d] /\ messages'[d] = messages[d]
       /\ wrote'[d] = wrote[d] /\ updatedAt'[d] = updatedAt[d]
  /\ Len(wrote'[c]) = Len(messages'[c]) /\ Len(wrote[c]) < Len(wrote'[c])
  /\ \A i \in 1 .. Len(wrote[c]) : wrote'[c][i] = wrote[c][i]
  /\ \A i \in Len(wrote[c]) + 1 .. Len(wrote'[c]) :
       wrote'[c][i] = [call |-> r, stamp |-> stamp[r]]
  /\ updatedAt'[c] = now[r]
  /\ UNCHANGED <<clock, before, overlapped>>

\* What is written stands behind what was there.
LEMMA EntriesStand ==
  ASSUME NEW S, NEW seq \in Seq(S), NEW e \in S, NEW n \in {1, 2},
         NEW longer, longer = seq \o [i \in 1 .. n |-> e]
  PROVE  /\ longer \in Seq(S) /\ Len(longer) = Len(seq) + n
         /\ \A i \in 1 .. Len(seq) : longer[i] = seq[i]
         /\ \A i \in Len(seq) + 1 .. Len(longer) : longer[i] = e
<1> DEFINE es == [i \in 1 .. n |-> e]
<1>1. n \in Nat
  OBVIOUS
<1>2. es \in Seq(S) /\ Len(es) = n
  BY <1>1
<1>3. \A i \in 1 .. n : es[i] = e
  OBVIOUS
<1> HIDE DEF es
<1>4. /\ seq \o es \in Seq(S) /\ Len(seq \o es) = Len(seq) + Len(es)
      /\ \A i \in 1 .. Len(seq) + Len(es) :
           (seq \o es)[i] = IF i <= Len(seq) THEN seq[i] ELSE es[i - Len(seq)]
  BY <1>2, ConcatProperties
<1>5. Len(seq) \in Nat
  OBVIOUS
<1>6. /\ \A i \in 1 .. Len(seq) : (seq \o es)[i] = seq[i]
      /\ \A i \in Len(seq) + 1 .. Len(seq) + n : (seq \o es)[i] = e
  BY <1>1, <1>2, <1>3, <1>4, <1>5
<1> QED BY <1>2, <1>4, <1>6 DEF es
LEMMA WriteFacts ==
  ASSUME TimesInvariant, NEW r \in Requests, CommitTransaction(r), request'[r].step # "ended",
         NEW c, c = request[r].conv
  PROVE  Writes(r, c) /\ wrote' \in [Conversations -> Seq([call : Requests, stamp : Nat])]
<1> PICK n : n = Len(messages'[c]) - Len(messages[c])
  OBVIOUS
<1> PICK e : e = [call |-> r, stamp |-> stamp[r]]
  OBVIOUS
<1>1. /\ c \in Conversations /\ request[r].step \in Transacting /\ r \in InFlight
      /\ \A t \in Requests \ {r} : request'[t] = request[t]
      /\ \A d \in Conversations \ {c} :
           kind'[d] = kind[d] /\ participant'[d] = participant[d] /\ messages'[d] = messages[d]
      /\ request'[r].step \notin Uncommitted \cup {"ended"}
      /\ request'[r].conv = c /\ kind'[c] # "NONE"
      /\ Len(messages'[c]) \in {Len(messages[c]) + 1, Len(messages[c]) + 2}
  BY CommitFacts
<1>2. Len(messages[c]) \in Nat /\ n \in {1, 2} /\ Len(messages'[c]) = Len(messages[c]) + n
  <2>1. messages[c] \in Seq(Message)
    BY <1>1 DEF TimesInvariant, RosterInvariant, OwnerInvariant, TypeOK
  <2>2. Len(messages[c]) \in Nat
    BY <2>1
  <2> QED BY <1>1, <2>2
<1>3. wrote \in [Conversations -> Seq([call : Requests, stamp : Nat])] /\ stamp[r] \in Nat
  BY DEF TimesInvariant, TimesTypeOK
<1>4. wrote' = [wrote EXCEPT ![c] = @ \o [i \in 1 .. n |-> e]]
  BY DEF CommitTransaction
<1>5. PICK seq : seq = wrote[c]
  OBVIOUS
<1>6. seq \in Seq([call : Requests, stamp : Nat]) /\ Len(seq) = Len(messages[c])
  BY <1>1, <1>3, <1>5 DEF TimesInvariant, LogTimed
<1>7. e \in [call : Requests, stamp : Nat]
  BY <1>3
<1>8. PICK longer : longer = seq \o [i \in 1 .. n |-> e]
  OBVIOUS
<1>9. /\ longer \in Seq([call : Requests, stamp : Nat]) /\ Len(longer) = Len(seq) + n
      /\ \A i \in 1 .. Len(seq) : longer[i] = seq[i]
      /\ \A i \in Len(seq) + 1 .. Len(longer) : longer[i] = e
  <2>1. n \in {1, 2} /\ seq \in Seq([call : Requests, stamp : Nat])
    BY <1>2, <1>6
  <2> QED BY ONLY <1>7, <1>8, <2>1, EntriesStand
<1>10. wrote' = [wrote EXCEPT ![c] = longer]
  BY <1>4, <1>5, <1>8
<1>11. /\ wrote'[c] = longer /\ \A d \in Conversations \ {c} : wrote'[d] = wrote[d]
       /\ wrote' \in [Conversations -> Seq([call : Requests, stamp : Nat])]
  BY <1>1, <1>3, <1>9, <1>10
<1>12. Len(wrote'[c]) = Len(messages'[c]) /\ Len(wrote[c]) < Len(wrote'[c])
  BY <1>2, <1>5, <1>6, <1>9, <1>11
<1>13. /\ \A i \in 1 .. Len(wrote[c]) : wrote'[c][i] = wrote[c][i]
       /\ \A i \in Len(wrote[c]) + 1 .. Len(wrote'[c]) : wrote'[c][i] = e
  BY <1>5, <1>9, <1>11
<1>14. updatedAt' = [updatedAt EXCEPT ![c] = now[r]]
  BY <1>2 DEF CommitTransaction, Touched
<1>15. updatedAt'[c] = now[r] /\ \A d \in Conversations \ {c} : updatedAt'[d] = updatedAt[d]
  BY <1>1, <1>14 DEF TimesInvariant, TimesTypeOK
<1>16. /\ now' = [now EXCEPT ![r] = 0] /\ stamp' = [stamp EXCEPT ![r] = 0]
       /\ UNCHANGED <<clock, before, overlapped>> /\ stamp[r] # 0
  BY DEF CommitTransaction
<1>17. /\ now'[r] = 0 /\ stamp'[r] = 0 /\ now[r] # 0
       /\ \A t \in Requests \ {r} : now'[t] = now[t] /\ stamp'[t] = stamp[t]
  BY <1>16, Calls DEF TimesInvariant, CallTimed
<1>18. Existing' = Existing \cup {c}
  <2>1. \A d \in Conversations : d \in Existing' <=> d \in Existing \cup {c}
    BY <1>1 DEF Existing
  <2> QED BY <1>1, <2>1 DEF Existing
<1> QED BY <1>1, <1>11, <1>12, <1>13, <1>15, <1>16, <1>17, <1>18 DEF Writes

\* Every step is of one of these kinds.
LEMMA StepKinds ==
  ASSUME TimesInvariant, [ActNext]_actvars
  PROVE  \/ Passes
         \/ \E r \in Requests : Begins(r) \/ Ticks(r)
         \/ /\ \E r \in Requests, c \in Conversations : CommitTransaction(r) /\ Writes(r, c)
            /\ wrote' \in [Conversations -> Seq([call : Requests, stamp : Nat])]
<1>1. ASSUME NEW r \in Requests, CommitTransaction(r), request'[r].step # "ended"
      PROVE  /\ \E c \in Conversations : Writes(r, c)
             /\ wrote' \in [Conversations -> Seq([call : Requests, stamp : Nat])]
  <2> PICK c : c = request[r].conv
    OBVIOUS
  <2>1. Writes(r, c) /\ wrote' \in [Conversations -> Seq([call : Requests, stamp : Nat])]
    BY <1>1, WriteFacts
  <2>2. c \in Conversations
    BY <2>1 DEF Writes
  <2> QED BY <2>1, <2>2
<1> QED BY <1>1, PassingSteps, BeginFacts, TickFacts DEF ActNext

(***************************************************************************)
(* The writers of a conversation.                                          *)
(***************************************************************************)
LEMMA WritersAre ==
  ASSUME TimesTypeOK, NEW c \in Conversations
  PROVE  /\ Len(wrote[c]) \in Nat /\ DOMAIN wrote[c] = 1 .. Len(wrote[c])
         /\ \A i \in DOMAIN wrote[c] :
              wrote[c][i].call \in WritersOf(c) /\ wrote[c][i].stamp \in Nat
         /\ WritersOf(c) \subseteq Committed /\ Committed \subseteq Requests
<1>1. \A d \in Conversations : wrote[d] \in Seq([call : Requests, stamp : Nat])
  BY DEF TimesTypeOK
<1>2. \A d \in Conversations : \A i \in DOMAIN wrote[d] :
        wrote[d][i].call \in Requests /\ wrote[d][i].stamp \in Nat
  <2>1. \A d \in Conversations : \A i \in 1 .. Len(wrote[d]) :
          wrote[d][i] \in [call : Requests, stamp : Nat]
    BY <1>1, ElementOfSeq
  <2> QED BY <1>1, <2>1
<1>3. \A i \in DOMAIN wrote[c] : wrote[c][i].call \in WritersOf(c)
  BY DEF WritersOf
<1>4. WritersOf(c) \subseteq Committed /\ Committed \subseteq Requests
  BY <1>2 DEF Committed, WritersOf
<1>5. Len(wrote[c]) \in Nat /\ DOMAIN wrote[c] = 1 .. Len(wrote[c])
  BY <1>1
<1> QED BY <1>2, <1>3, <1>4, <1>5

\* What a write makes of them.
LEMMA WritersNext ==
  ASSUME TimesInvariant, TimesTypeOK', NEW r \in Requests, NEW c \in Conversations, Writes(r, c)
  PROVE  /\ r \notin Committed /\ Committed' = Committed \cup {r}
         /\ WritersOf(c)' = WritersOf(c) \cup {r} /\ LastCall(c)' = r
         /\ \A d \in Conversations \ {c} :
              WritersOf(d)' = WritersOf(d) /\ LastCall(d)' = LastCall(d)
<1>1. /\ wrote[c] \in Seq([call : Requests, stamp : Nat])
      /\ wrote'[c] \in Seq([call : Requests, stamp : Nat])
  BY DEF TimesInvariant, TimesTypeOK
<1>2. /\ Len(wrote[c]) \in Nat /\ DOMAIN wrote[c] = 1 .. Len(wrote[c])
      /\ Len(wrote'[c]) \in Nat /\ DOMAIN wrote'[c] = 1 .. Len(wrote'[c])
      /\ Len(wrote[c]) < Len(wrote'[c])
  BY <1>1 DEF Writes
<1>3. /\ \A i \in DOMAIN wrote[c] : i \in DOMAIN wrote'[c] /\ wrote'[c][i] = wrote[c][i]
      /\ \A i \in DOMAIN wrote'[c] : i \in DOMAIN wrote[c] \/ wrote'[c][i].call = r
      /\ Len(wrote'[c]) \in DOMAIN wrote'[c] /\ wrote'[c][Len(wrote'[c])].call = r
  BY <1>2 DEF Writes
<1>4. WritersOf(c)' = WritersOf(c) \cup {r}
  <2>1. WritersOf(c)' \subseteq WritersOf(c) \cup {r}
    BY <1>3 DEF WritersOf
  <2>2. WritersOf(c) \subseteq WritersOf(c)'
    BY <1>3 DEF WritersOf
  <2>3. r \in WritersOf(c)'
    BY <1>3 DEF WritersOf
  <2> QED BY <2>1, <2>2, <2>3
<1>5. LastCall(c)' = r
  BY <1>3 DEF LastCall, Last
<1>6. \A d \in Conversations \ {c} : WritersOf(d)' = WritersOf(d) /\ LastCall(d)' = LastCall(d)
  BY DEF Writes, WritersOf, LastCall
<1>7. Committed' = Committed \cup {r}
  BY <1>4, <1>6 DEF Committed
<1>8. r \notin Committed
  BY DEF TimesInvariant, CallTimed, Writes, Uncommitted
<1> QED BY <1>4, <1>5, <1>6, <1>7, <1>8
(***************************************************************************)
(* The first layer.                                                        *)
(***************************************************************************)
LEMMA TimesTyped ==
  ASSUME TimesInvariant, [ActNext]_actvars
  PROVE  TimesTypeOK'
<1> USE DEF TimesTypeOK
<1>1. TimesTypeOK /\ Committed \subseteq Requests
  <2>1. \A c \in Conversations : WritersOf(c) \subseteq Requests
    BY WritersAre DEF TimesInvariant
  <2> QED BY <2>1 DEF TimesInvariant, Committed
<1>2. CASE UNCHANGED activity
  BY <1>1, <1>2 DEF activity, times
<1>3. ASSUME NEW r \in Requests, BeginCall(r) PROVE TimesTypeOK'
  BY <1>1, <1>3 DEF BeginCall, times
<1>4. ASSUME NEW r \in Requests, TakeNow(r) \/ StartTransaction(r) PROVE TimesTypeOK'
  <2>1. clock' \in Nat /\ UNCHANGED <<wrote, updatedAt, before>>
    BY <1>1, <1>4 DEF TakeNow, StartTransaction
  <2>2. \E n \in Nat : now' = [now EXCEPT ![r] = n]
    BY <1>1, <1>4, <2>1 DEF TakeNow, StartTransaction
  <2>3. \E n \in Nat : stamp' = [stamp EXCEPT ![r] = n]
    BY <1>1, <1>4, <2>1 DEF TakeNow, StartTransaction
  <2>4. now' \in [Requests -> Nat] /\ stamp' \in [Requests -> Nat]
    BY <1>1, <2>2, <2>3
  <2> QED BY <1>1, <2>1, <2>4
<1>5. ASSUME NEW r \in Requests, AbortCall(r) PROVE TimesTypeOK'
  BY <1>1, <1>5 DEF AbortCall
<1>6. ASSUME NEW r \in Requests, CommitTransaction(r) PROVE TimesTypeOK'
  <2> PICK c : c = request[r].conv
    OBVIOUS
  <2>1. c \in Conversations
    BY <1>6, CommitFacts
  <2>2. wrote' \in [Conversations -> Seq([call : Requests, stamp : Nat])]
    <3>1. CASE request'[r].step = "ended"
      BY <1>1, <1>6, <3>1, RollbackPasses DEF Passes
    <3>2. CASE request'[r].step # "ended"
      BY <1>6, <3>2, WriteFacts
    <3> QED BY <3>1, <3>2
  <2>3. updatedAt' = updatedAt \/ updatedAt' = [updatedAt EXCEPT ![c] = now[r]]
    BY <1>6 DEF CommitTransaction, Touched
  <2>4. updatedAt' \in [Conversations -> Nat]
    BY <1>1, <2>1, <2>3
  <2> QED BY <1>1, <1>6, <2>2, <2>4 DEF CommitTransaction
<1> QED
  BY <1>2, <1>3, <1>4, <1>5, <1>6 DEF ActNext, actvars, ReadLeftAfterNow, FinishCall

LEMMA CallsTimed ==
  ASSUME TimesInvariant, [ActNext]_actvars, NEW t \in Requests
  PROVE  CallTimed(t)'
<1>1. TimesTypeOK /\ TimesTypeOK' /\ CallTimed(t)
  BY TimesTyped DEF TimesInvariant
<1>2. ASSUME wrote' = wrote PROVE Committed' = Committed
  BY <1>2 DEF Committed, WritersOf
<1>3. CASE Passes
  BY <1>1, <1>2, <1>3
     DEF Passes, CallPasses, CallTimed, At, Transacting, Uncommitted, TimesTypeOK
<1>4. ASSUME NEW r \in Requests, Begins(r) PROVE CallTimed(t)'
  <2>1. /\ Committed' = Committed /\ UNCHANGED <<clock, now, stamp>>
        /\ t # r => request'[t] = request[t] /\ before'[t] = before[t]
    BY <1>2, <1>4 DEF Begins, times
  <2>2. CASE t # r
    BY <1>1, <2>1, <2>2 DEF CallTimed, At
  <2>3. CASE t = r
    <3>1. request[r].step = "idle" /\ request'[r].step # "add.split" /\ before'[r] = Committed
      BY <1>4 DEF Begins, At, Begun
    <3> QED BY <1>1, <2>1, <2>3, <3>1 DEF CallTimed, At, Transacting, Uncommitted
  <2> QED BY <2>2, <2>3
<1>5. ASSUME NEW r \in Requests, Ticks(r) PROVE CallTimed(t)'
  <2>1. /\ Committed' = Committed /\ clock' = clock + 1
        /\ UNCHANGED <<request, before>>
        /\ clock \in Nat /\ now[t] \in Nat /\ stamp[t] \in Nat
    BY <1>1, <1>2, <1>5 DEF Ticks, vars, TimesTypeOK
  <2>2. CASE t # r
    BY <1>1, <1>5, <2>1, <2>2 DEF CallTimed, Ticks, At
  <2>3. CASE t = r
    BY <1>1, <1>5, <2>1, <2>3 DEF CallTimed, Ticks, At
  <2> QED BY <2>2, <2>3
<1>6. ASSUME NEW r \in Requests, NEW c \in Conversations, Writes(r, c) PROVE CallTimed(t)'
  <2>1. Committed' = Committed \cup {r}
    BY <1>1, <1>6, WritersNext
  <2>2. CASE t # r
    BY <1>1, <1>6, <2>1, <2>2 DEF CallTimed, Writes, At
  <2>3. CASE t = r
    BY <1>1, <1>6, <2>1, <2>3
       DEF CallTimed, Writes, At, Uncommitted, Transacting, TimesTypeOK
  <2> QED BY <2>2, <2>3
<1> QED BY <1>3, <1>4, <1>5, <1>6, StepKinds

LEMMA LogsTimed ==
  ASSUME TimesInvariant, [ActNext]_actvars, NEW d \in Conversations
  PROVE  LogTimed(d)' /\ IsFiniteSet(Existing)'
<1>1. TimesTypeOK /\ TimesTypeOK' /\ LogTimed(d) /\ IsFiniteSet(Existing)
  BY TimesTyped DEF TimesInvariant
<1>2. ASSUME UNCHANGED <<kind, messages, wrote, updatedAt>>, clock <= clock'
      PROVE  LogTimed(d)' /\ IsFiniteSet(Existing)'
  <2>1. /\ Existing' = Existing /\ clock \in Nat /\ clock' \in Nat /\ updatedAt[d] \in Nat
        /\ \A i \in DOMAIN wrote[d] : wrote[d][i].stamp \in Nat
    BY <1>1, <1>2, WritersAre DEF Existing, TimesTypeOK
  <2> QED BY <1>1, <1>2, <2>1 DEF LogTimed
<1>3. CASE Passes
  BY <1>1, <1>2, <1>3 DEF Passes, store, TimesTypeOK
<1>4. ASSUME NEW r \in Requests, Begins(r) \/ Ticks(r) PROVE LogTimed(d)' /\ IsFiniteSet(Existing)'
  BY <1>1, <1>2, <1>4 DEF Begins, Ticks, times, vars, store, TimesTypeOK
<1>5. ASSUME NEW r \in Requests, NEW c \in Conversations, Writes(r, c)
      PROVE  LogTimed(d)' /\ IsFiniteSet(Existing)'
  <2>1. Existing' = Existing \cup {c}
    BY <1>5 DEF Writes
  <2>2. IsFiniteSet(Existing)'
    BY <1>1, <2>1, FS_AddElement
  <2>3. CASE d # c
    <3>1. d \in Existing' <=> d \in Existing
      BY <2>1, <2>3
    <3> QED BY <1>1, <1>5, <2>2, <2>3, <3>1 DEF Writes, LogTimed
  <2>4. CASE d = c
    <3>1. /\ Len(wrote'[c]) = Len(messages'[c]) /\ Len(wrote[c]) < Len(wrote'[c])
          /\ clock' = clock /\ updatedAt'[c] = now[r] /\ c \in Existing'
      BY <1>5, <2>1 DEF Writes
    <3>2. /\ Len(wrote[c]) \in Nat /\ DOMAIN wrote[c] = 1 .. Len(wrote[c])
          /\ Len(wrote'[c]) \in Nat /\ DOMAIN wrote'[c] = 1 .. Len(wrote'[c])
      BY <1>1 DEF TimesTypeOK
    <3>3. stamp[r] <= clock /\ now[r] <= clock
      BY DEF TimesInvariant, CallTimed
    <3>4. \A i \in DOMAIN wrote'[c] : wrote'[c][i].stamp <= clock
      BY <1>1, <1>5, <2>4, <3>1, <3>2, <3>3 DEF Writes, LogTimed
    <3> QED BY <2>2, <2>4, <3>1, <3>2, <3>3, <3>4 DEF LogTimed
  <2> QED BY <2>3, <2>4
<1> QED BY <1>3, <1>4, <1>5, StepKinds
LEMMA InitTimes == ActInit => TimesInvariant
<1> SUFFICES ASSUME ActInit PROVE TimesInvariant
  OBVIOUS
<1>1. RosterInvariant
  BY InitRoster DEF ActInit
<1>2. TimesTypeOK
  BY DEF ActInit, TimesTypeOK
<1>3. Existing = {}
  BY DEF ActInit, Init, Existing
<1>4. IsFiniteSet(Existing)
  BY <1>3, FS_EmptySet
<1>5. ASSUME NEW r \in Requests PROVE CallTimed(r)
  <2>1. request[r].step = "idle"
    BY DEF ActInit, Init, Idle
  <2>2. Committed = {}
    BY DEF ActInit, Committed, WritersOf
  <2> QED BY <2>1, <2>2 DEF ActInit, CallTimed, At
<1>6. ASSUME NEW c \in Conversations PROVE LogTimed(c)
  <2>1. wrote[c] = << >> /\ messages[c] = << >> /\ updatedAt[c] = 0 /\ clock = 0
    BY DEF ActInit, Init
  <2> QED BY <1>3, <2>1 DEF LogTimed
<1> QED BY <1>1, <1>2, <1>4, <1>5, <1>6 DEF TimesInvariant

LEMMA TimesStep ==
  ASSUME TimesInvariant, [ActNext]_actvars
  PROVE  TimesInvariant'
<1>1. RosterInvariant'
  BY ActivityIsStore, NextRoster DEF TimesInvariant
<1>2. IsFiniteSet(Existing)'
  <2>1. CASE \E c \in Conversations : TRUE
    BY <2>1, LogsTimed
  <2>2. CASE Conversations = {}
    <3>1. Existing' = {}
      BY <2>2 DEF Existing
    <3> QED BY <3>1, FS_EmptySet
  <2> QED BY <2>1, <2>2
<1> QED BY <1>1, <1>2, TimesTyped, CallsTimed, LogsTimed DEF TimesInvariant

\* The store's part of the layers: what is proved of the calls holds.
LEMMA TimesAlways == ActSpec => []TimesInvariant
BY InitTimes, TimesStep, PTL DEF ActSpec

(***************************************************************************)
(* createdAt.                                                              *)
(***************************************************************************)

\* Nobody comes after a call that has not committed, and who has written began.
LEMMA Comings ==
  ASSUME TimesInvariant, NEW r \in Requests, request[r].step \in Uncommitted
  PROVE  /\ r \notin Committed
         /\ \A q \in Requests : ~ComesAfter(q, r)
         /\ \A c \in Conversations : r \notin WritersOf(c)
<1>1. r \notin Committed
  BY DEF TimesInvariant, CallTimed
<1>2. \A c \in Conversations : r \notin WritersOf(c)
  BY <1>1 DEF Committed
<1> QED BY <1>1, <1>2 DEF TimesInvariant, CallTimed, ComesAfter

LEMMA StampsStay ==
  ASSUME OrderInvariant, [ActNext]_actvars, NEW c \in Conversations
  PROVE  StampsOrdered(c)'
<1>1. TimesInvariant /\ TimesTypeOK /\ TimesTypeOK' /\ StampsOrdered(c)
  BY TimesTyped DEF OrderInvariant, TimesInvariant
<1>2. \A i \in DOMAIN wrote[c] :
        /\ wrote[c][i].call \in WritersOf(c) /\ wrote[c][i].call \in Requests
        /\ wrote[c][i].stamp \in Nat /\ wrote[c][i].stamp <= clock
  BY <1>1, WritersAre DEF TimesInvariant, LogTimed
<1>3. CASE Passes
  BY <1>1, <1>3 DEF Passes, CallPasses, StampsOrdered, ComesAfter
<1>4. ASSUME NEW r \in Requests, Begins(r) PROVE StampsOrdered(c)'
  <2>1. /\ UNCHANGED <<wrote, stamp>> /\ request[r].step = "idle"
        /\ \A t \in Requests \ {r} : before'[t] = before[t]
    BY <1>4 DEF Begins, times, At
  <2>2. stamp[r] = 0 /\ r \notin WritersOf(c)
    BY <1>1, <2>1, Comings DEF TimesInvariant, CallTimed, Transacting, Uncommitted
  <2> QED BY <1>1, <1>2, <2>1, <2>2 DEF StampsOrdered, ComesAfter
<1>5. ASSUME NEW r \in Requests, Ticks(r) PROVE StampsOrdered(c)'
  <2>1. /\ UNCHANGED <<wrote, before>> /\ clock \in Nat
        /\ \A t \in Requests : stamp'[t] = stamp[t] \/ stamp'[t] = clock + 1
    BY <1>1, <1>5 DEF Ticks, TimesTypeOK
  <2>2. \A i \in DOMAIN wrote[c] : wrote[c][i].stamp < clock + 1
    BY <1>2, <2>1
  <2> QED BY <1>1, <2>1, <2>2 DEF StampsOrdered, ComesAfter
<1>6. ASSUME NEW r \in Requests, NEW k \in Conversations, Writes(r, k) PROVE StampsOrdered(c)'
  <2>1. /\ before' = before /\ stamp'[r] = 0 /\ stamp[r] # 0
        /\ \A t \in Requests \ {r} : stamp'[t] = stamp[t]
    BY <1>6 DEF Writes
  <2>2. CASE c # k
    <3>1. wrote'[c] = wrote[c]
      BY <1>6, <2>2 DEF Writes
    <3> QED BY <1>1, <2>1, <3>1 DEF StampsOrdered, ComesAfter
  <2>3. CASE c = k
    <3>1. \A q \in Requests : ~ComesAfter(q, r)
      BY <1>1, <1>6, Comings DEF Writes, Uncommitted
    <3>2. /\ DOMAIN wrote[c] = 1 .. Len(wrote[c]) /\ Len(wrote[c]) \in Nat
          /\ DOMAIN wrote'[c] = 1 .. Len(wrote'[c]) /\ Len(wrote'[c]) \in Nat
      BY <1>1 DEF TimesTypeOK
    <3>3. \A i \in DOMAIN wrote'[c] :
            \/ i \in DOMAIN wrote[c] /\ wrote'[c][i] = wrote[c][i]
            \/ wrote'[c][i].call = r /\ wrote'[c][i].stamp = stamp[r]
      BY <1>6, <2>3, <3>2 DEF Writes
    <3>4. \A q, t : ComesAfter(q, t)' <=> ComesAfter(q, t)
      BY <2>1 DEF ComesAfter
    <3>5. \A i \in DOMAIN wrote'[c], t \in Requests :
            stamp'[t] # 0 /\ ComesAfter(t, wrote'[c][i].call) => wrote'[c][i].stamp < stamp'[t]
      BY <1>1, <2>1, <3>1, <3>3 DEF StampsOrdered
    <3>6. ASSUME NEW i \in DOMAIN wrote'[c], NEW j \in DOMAIN wrote'[c],
                 ComesAfter(wrote'[c][j].call, wrote'[c][i].call)
          PROVE  wrote'[c][i].stamp < wrote'[c][j].stamp
      <4>1. wrote'[c][j].call \in Requests
        BY <1>2, <3>3
      <4>2. i \in DOMAIN wrote[c] /\ wrote'[c][i] = wrote[c][i]
        BY <3>1, <3>3, <3>6, <4>1
      <4> QED BY <1>1, <2>1, <3>3, <3>6, <4>2 DEF StampsOrdered
    <3> QED BY <3>4, <3>5, <3>6 DEF StampsOrdered
  <2> QED BY <2>2, <2>3
<1> QED BY <1>1, <1>3, <1>4, <1>5, <1>6, StepKinds

LEMMA InitStamps == ActInit => \A c \in Conversations : StampsOrdered(c)
BY DEF ActInit, StampsOrdered

LEMMA OrderAlways == ActSpec => []OrderInvariant
<1>1. ActInit => OrderInvariant
  BY InitTimes, InitStamps DEF OrderInvariant
<1>2. OrderInvariant /\ [ActNext]_actvars => OrderInvariant'
  BY TimesStep, StampsStay DEF OrderInvariant
<1> QED BY <1>1, <1>2, PTL DEF ActSpec
\* The messages of c as they are shown, oldest first.
LEMMA OpenedOrders ==
  ASSUME TimesInvariant, NEW c \in Conversations, NEW N, N = Len(messages[c])
  PROVE  /\ N \in Nat /\ DOMAIN wrote[c] = 1 .. N /\ DOMAIN messages[c] = 1 .. N
         /\ DOMAIN Opened(c) = 1 .. N /\ Len(NewestFirst(c)) = N
         /\ \A i \in 1 .. N : Opened(c)[i] \in 1 .. N /\ NewestFirst(c)[i] \in 1 .. N
         /\ \A i, j \in 1 .. N : i < j => /\ IsNewer(c, NewestFirst(c)[i], NewestFirst(c)[j])
                                          /\ IsNewer(c, Opened(c)[j], Opened(c)[i])
         /\ \A k \in 1 .. N : \E n \in 1 .. N : NewestFirst(c)[n] = k
<1> PICK s : s = NewestFirst(c)
  OBVIOUS
<1>1. messages[c] \in Seq(Message) /\ TimesTypeOK /\ LogTimed(c)
  BY DEF TimesInvariant, RosterInvariant, OwnerInvariant, TypeOK
<1>2. N \in Nat /\ DOMAIN messages[c] = 1 .. N /\ DOMAIN wrote[c] = 1 .. N
  BY <1>1, WritersAre DEF LogTimed
<1>3. /\ s \in [1 .. N -> 1 .. N]
      /\ \A i, j \in 1 .. N : i < j => IsNewer(c, s[i], s[j])
      /\ \A k \in 1 .. N : \E n \in 1 .. N : s[n] = k
  BY <1>1, NewestFirstOrders
<1>6. s \in Seq(1 .. N) /\ Len(s) = N
  <2> PICK places : places = 1 .. N
    OBVIOUS
  <2>1. s \in [1 .. N -> places] /\ DOMAIN s = 1 .. N
    BY <1>3
  <2>2. s \in Seq(places)
    BY <1>2, <2>1, SeqDef
  <2>3. Len(s) \in Nat /\ DOMAIN s = 1 .. Len(s)
    BY <2>2, LenProperties
  <2>4. Len(s) = N
    BY <1>2, <2>1, <2>3
  <2> QED BY <2>2, <2>4
<1>7. Opened(c) = [i \in 1 .. N |-> s[(N - i) + 1]]
  BY <1>6 DEF Opened, Reverse
<1>8. \A i \in 1 .. N : (N - i) + 1 \in 1 .. N
  BY <1>2
<1>9. \A i, j \in 1 .. N : i < j => IsNewer(c, Opened(c)[j], Opened(c)[i])
  <2> SUFFICES ASSUME NEW i \in 1 .. N, NEW j \in 1 .. N, i < j
               PROVE  IsNewer(c, Opened(c)[j], Opened(c)[i])
    OBVIOUS
  <2> PICK m \in 1 .. N, n \in 1 .. N : m = (N - j) + 1 /\ n = (N - i) + 1
    BY <1>8
  <2>1. m < n
    BY <1>2
  <2>2. IsNewer(c, s[m], s[n])
    BY <1>3, <2>1
  <2>3. Opened(c)[j] = s[m] /\ Opened(c)[i] = s[n]
    BY <1>7
  <2> QED BY <2>2, <2>3
<1> QED BY <1>2, <1>3, <1>6, <1>7, <1>8, <1>9

\* What is newer does not come before.
LEMMA NewerIsNotBefore ==
  ASSUME OrderInvariant, NEW c \in Conversations, NEW i \in DOMAIN wrote[c],
         NEW j \in DOMAIN wrote[c], IsNewer(c, i, j)
  PROVE  ~ComesAfter(wrote[c][j].call, wrote[c][i].call)
<1>1. wrote[c][i].stamp \in Nat /\ wrote[c][j].stamp \in Nat
  BY WritersAre DEF OrderInvariant, TimesInvariant
<1> QED BY <1>1 DEF OrderInvariant, StampsOrdered, IsNewer

LEMMA OrderKeepsHistory == OrderInvariant => HistoryKeepsCallOrder
<1> SUFFICES ASSUME OrderInvariant, NEW c \in Existing,
                    NEW i \in DOMAIN Opened(c), NEW j \in DOMAIN Opened(c), i < j
             PROVE  ~ComesAfter(wrote[c][Opened(c)[i]].call, wrote[c][Opened(c)[j]].call)
  BY DEF HistoryKeepsCallOrder
<1>1. c \in Conversations /\ TimesInvariant
  BY DEF Existing, OrderInvariant
<1>2. PICK N : N = Len(messages[c])
  OBVIOUS
<1>3. /\ DOMAIN wrote[c] = 1 .. N
      /\ Opened(c)[i] \in 1 .. N /\ Opened(c)[j] \in 1 .. N
      /\ IsNewer(c, Opened(c)[j], Opened(c)[i])
  BY <1>1, <1>2, OpenedOrders
<1> QED BY <1>1, <1>3, NewerIsNotBefore

LEMMA OrderKeepsPreview == OrderInvariant => PreviewIsLatest
<1> SUFFICES ASSUME OrderInvariant, NEW c \in Existing, NEW i \in DOMAIN Preview(c),
                    NEW q \in WritersOf(c)
             PROVE  ~ComesAfter(q, wrote[c][Preview(c)[i]].call)
  BY DEF PreviewIsLatest
<1>1. c \in Conversations /\ TimesInvariant
  BY DEF Existing, OrderInvariant
<1> PICK N : N = Len(messages[c])
  OBVIOUS
<1> PICK s : s = NewestFirst(c)
  OBVIOUS
<1>2. /\ N \in Nat /\ N > 0 /\ DOMAIN wrote[c] = 1 .. N
      /\ \A n \in 1 .. N : s[n] \in 1 .. N
      /\ \A m, n \in 1 .. N : m < n => IsNewer(c, s[m], s[n])
      /\ \A k \in 1 .. N : \E n \in 1 .. N : s[n] = k
  BY <1>1, OpenedOrders DEF TimesInvariant, LogTimed
<1>3. i = 1 /\ Preview(c)[i] = s[1]
  <2>1. PICK first : first = SubSeq(s, 1, 1)
    OBVIOUS
  <2>2. Len(first) = 1 /\ first[1] = s[1]
    BY <1>2, <2>1, SubSeqProperties
  <2>3. Preview(c) = [n \in 1 .. 1 |-> first[(1 - n) + 1]]
    BY <2>1, <2>2 DEF Preview, Reverse, PRELOAD_MESSAGES_COUNT
  <2> QED BY <2>2, <2>3
<1>4. PICK k \in 1 .. N : q = wrote[c][k].call
  BY <1>2 DEF WritersOf
<1>5. PICK n \in 1 .. N : s[n] = k
  BY <1>2
<1>6. CASE n = 1
  <2>1. ~ComesAfter(q, q)
    <3>1. wrote[c][k].stamp \in Nat
      BY <1>1, <1>2, WritersAre DEF TimesInvariant
    <3> QED BY <1>1, <1>2, <1>4, <3>1 DEF OrderInvariant, StampsOrdered
  <2> QED BY <1>3, <1>4, <1>5, <1>6, <2>1
<1>7. CASE n # 1
  <2>1. 1 \in 1 .. N /\ 1 < n
    BY <1>2, <1>7
  <2>2. IsNewer(c, s[1], k) /\ s[1] \in DOMAIN wrote[c]
    BY <1>2, <1>5, <2>1
  <2> QED BY <1>1, <1>2, <1>3, <1>4, <2>2, NewerIsNotBefore
<1> QED BY <1>6, <1>7
(***************************************************************************)
(* updatedAt.                                                              *)
(***************************************************************************)
LEMMA LastHasWritten ==
  ASSUME TimesInvariant, NEW c \in Existing
  PROVE  c \in Conversations /\ LastCall(c) \in WritersOf(c) /\ LastCall(c) \in Requests
<1>1. c \in Conversations /\ TimesTypeOK /\ messages[c] \in Seq(Message)
  BY DEF TimesInvariant, RosterInvariant, OwnerInvariant, TypeOK, Existing
<1>2. Len(wrote[c]) > 0
  BY <1>1 DEF TimesInvariant, LogTimed
<1>3. Len(wrote[c]) \in DOMAIN wrote[c]
  BY <1>1, <1>2, WritersAre
<1> QED BY <1>1, <1>3, WritersAre DEF LastCall, Last

LEMMA NowsStay ==
  ASSUME TimesInvariant, NowsApart, [ActNext]_actvars
  PROVE  NowsApart'
<1>1. clock \in Nat /\ \A t \in Requests : now[t] \in Nat /\ now[t] <= clock
  BY Calls DEF TimesInvariant, TimesTypeOK, CallTimed
<1>2. CASE Passes
  BY <1>1, <1>2 DEF NowsApart, Passes, CallPasses
<1>3. ASSUME NEW r \in Requests, Begins(r) PROVE NowsApart'
  BY <1>3 DEF NowsApart, Begins, times
<1>4. ASSUME NEW r \in Requests, Ticks(r) PROVE NowsApart'
  <2>1. /\ \A t \in Requests \ {r} : now'[t] = now[t]
        /\ now'[r] = now[r] \/ now'[r] = clock + 1
    BY <1>4 DEF Ticks
  <2>2. \A t \in Requests : now[t] # clock + 1
    BY <1>1
  <2> QED BY <2>1, <2>2 DEF NowsApart
<1>5. ASSUME NEW r \in Requests, NEW c \in Conversations, Writes(r, c) PROVE NowsApart'
  BY <1>5 DEF NowsApart, Writes
<1> QED BY <1>2, <1>3, <1>4, <1>5, StepKinds

LEMMA UpdatesStay ==
  ASSUME ListInvariant, [ActNext]_actvars, NEW a \in Existing'
  PROVE  UpdatesOrdered(a)'
<1>1. /\ TimesInvariant /\ NowsApart /\ TimesTypeOK /\ TimesTypeOK'
      /\ \A d \in Existing : UpdatesOrdered(d)
      /\ clock \in Nat /\ a \in Conversations
  BY TimesTyped DEF ListInvariant, TimesInvariant, TimesTypeOK, Existing
<1>2. \A d \in Conversations : updatedAt[d] \in Nat /\ updatedAt[d] <= clock
  BY <1>1 DEF TimesInvariant, TimesTypeOK, LogTimed
<1>3. \A d \in Existing :
        d \in Conversations /\ LastCall(d) \in WritersOf(d) /\ LastCall(d) \in Requests
  BY <1>1, LastHasWritten
<1>4. ASSUME UNCHANGED <<kind, wrote>>
      PROVE  /\ Existing' = Existing
             /\ \A d \in Conversations : WritersOf(d)' = WritersOf(d) /\ LastCall(d)' = LastCall(d)
  BY <1>4 DEF Existing, WritersOf, LastCall
<1>5. CASE Passes
  <2>1. /\ UNCHANGED <<kind, wrote, updatedAt, before>>
        /\ \A t \in Requests : now'[t] = 0 \/ now'[t] = now[t]
    BY <1>5 DEF Passes, CallPasses, store
  <2> QED BY <1>1, <1>3, <1>4, <2>1 DEF UpdatesOrdered, AllBefore
<1>6. ASSUME NEW r \in Requests, Begins(r) PROVE UpdatesOrdered(a)'
  <2>1. /\ UNCHANGED <<kind, wrote, updatedAt, now>> /\ request[r].step = "idle"
        /\ \A t \in Requests \ {r} : before'[t] = before[t]
    BY <1>6 DEF Begins, times, store, At
  <2>2. now[r] = 0 /\ \A d \in Conversations : r \notin WritersOf(d)
    BY <1>1, <2>1, Comings DEF TimesInvariant, CallTimed, Transacting, Uncommitted
  <2>3. \A t \in Requests : now'[t] # 0 => t # r
    BY <2>1, <2>2
  <2>4. \A d \in Existing : LastCall(d) # r
    BY <1>3, <2>2
  <2> QED BY <1>1, <1>3, <1>4, <2>1, <2>3, <2>4 DEF UpdatesOrdered, AllBefore
<1>7. ASSUME NEW r \in Requests, Ticks(r) PROVE UpdatesOrdered(a)'
  <2>1. /\ UNCHANGED <<kind, wrote, updatedAt, before>>
        /\ \A t \in Requests : now'[t] = now[t] \/ now'[t] = clock + 1
    BY <1>7 DEF Ticks, vars
  <2>2. updatedAt[a] # clock + 1 /\ updatedAt[a] < clock + 1
    BY <1>1, <1>2
  <2> QED BY <1>1, <1>3, <1>4, <2>1, <2>2 DEF UpdatesOrdered, AllBefore
<1>8. ASSUME NEW r \in Requests, NEW c \in Conversations, Writes(r, c) PROVE UpdatesOrdered(a)'
  <2>1. /\ before' = before /\ now'[r] = 0 /\ now[r] # 0 /\ updatedAt'[c] = now[r]
        /\ \A t \in Requests \ {r} : now'[t] = now[t]
        /\ \A d \in Conversations \ {c} : updatedAt'[d] = updatedAt[d]
        /\ Existing' = Existing \cup {c}
    BY <1>8 DEF Writes
  <2>2. /\ WritersOf(c)' = WritersOf(c) \cup {r} /\ LastCall(c)' = r
        /\ \A d \in Conversations \ {c} :
             WritersOf(d)' = WritersOf(d) /\ LastCall(d)' = LastCall(d)
    BY <1>1, <1>8, WritersNext
  <2>3. \A t \in Requests : r \notin before[t]
    BY <1>1, <1>8, Comings DEF Writes, Uncommitted, ComesAfter
  <2>4. CASE a = c
    <3>1. \A t \in Requests : ~AllBefore(a, t)'
      BY <2>1, <2>2, <2>3, <2>4 DEF AllBefore
    <3>2. \A t \in Requests : now'[t] # 0 => updatedAt'[c] # now'[t]
      BY <1>1, <2>1 DEF NowsApart
    <3>3. ASSUME NEW b \in Existing', b # c PROVE updatedAt'[c] # updatedAt'[b]
      <4>1. b \in Existing
        BY <2>1, <3>3
      <4> QED BY <1>1, <1>3, <2>1, <3>3, <4>1 DEF UpdatesOrdered
    <3>4. ASSUME NEW b \in Existing' PROVE ~AllBefore(a, LastCall(b))'
      <4>1. LastCall(b)' \in Requests
        BY <1>3, <2>1, <2>2, <3>4
      <4> QED BY <2>1, <2>2, <2>3, <2>4, <4>1 DEF AllBefore
    <3> QED BY <2>4, <3>1, <3>2, <3>3, <3>4 DEF UpdatesOrdered
  <2>5. CASE a # c
    <3>1. a \in Existing /\ updatedAt'[a] = updatedAt[a] /\ WritersOf(a)' = WritersOf(a)
      BY <1>1, <2>1, <2>2, <2>5
    <3>2. \A t \in Requests : now'[t] # 0 =>
            updatedAt'[a] # now'[t] /\ (AllBefore(a, t)' => updatedAt'[a] < now'[t])
      BY <1>1, <2>1, <3>1 DEF UpdatesOrdered, AllBefore
    <3>3. ASSUME NEW b \in Existing'
          PROVE  /\ a # b => updatedAt'[a] # updatedAt'[b]
                 /\ AllBefore(a, LastCall(b))' => updatedAt'[a] < updatedAt'[b]
      <4>1. CASE b = c
        BY <1>1, <2>1, <2>2, <3>1, <4>1 DEF UpdatesOrdered, AllBefore
      <4>2. CASE b # c
        <5>1. b \in Existing /\ b \in Conversations \ {c}
          BY <1>3, <2>1, <4>2
        <5> QED BY <1>1, <2>1, <2>2, <3>1, <5>1 DEF UpdatesOrdered, AllBefore
      <4> QED BY <4>1, <4>2
    <3> QED BY <3>2, <3>3 DEF UpdatesOrdered
  <2> QED BY <2>4, <2>5
<1> QED BY <1>1, <1>5, <1>6, <1>7, <1>8, StepKinds

LEMMA ListAlways == ActSpec => []ListInvariant
<1>1. ActInit => ListInvariant
  <2> SUFFICES ASSUME ActInit PROVE ListInvariant
    OBVIOUS
  <2>1. NowsApart /\ Existing = {}
    BY DEF ActInit, NowsApart, Init, Existing
  <2> QED BY <2>1, InitTimes DEF ListInvariant
<1>2. ListInvariant /\ [ActNext]_actvars => ListInvariant'
  BY TimesStep, NowsStay, UpdatesStay DEF ListInvariant
<1> QED BY <1>1, <1>2, PTL DEF ActSpec

\* The list of user u: the conversations u takes part in, the latest first.
LEMMA ListOrders ==
  ASSUME ListInvariant, NEW u \in Users, NEW i \in DOMAIN ListOf(u), NEW j \in DOMAIN ListOf(u),
         i < j
  PROVE  /\ ListOf(u)[i] \in Existing /\ ListOf(u)[j] \in Existing
         /\ updatedAt[ListOf(u)[i]] > updatedAt[ListOf(u)[j]]
<1> DEFINE listed == {c \in Existing : u \in ActiveIn(c)}
           R == {p \in listed \X listed : updatedAt[p[1]] > updatedAt[p[2]]}
<1>1. \A c \in listed : c \in Existing /\ updatedAt[c] \in Nat
  BY DEF Existing, ListInvariant, TimesInvariant, TimesTypeOK
<1>2. \A c, d \in listed : c # d => updatedAt[c] # updatedAt[d]
  BY <1>1 DEF ListInvariant, UpdatesOrdered
<1>3. IsFiniteSet(listed)
  BY FS_Subset DEF ListInvariant, TimesInvariant
<1>4. \A c, d \in listed : <<c, d>> \in R <=> updatedAt[c] > updatedAt[d]
  OBVIOUS
<1>5. ListOf(u) = InOrder(listed, R)
  BY DEF ListOf
<1> HIDE DEF listed, R
<1>6. /\ \A x \in listed : <<x, x>> \notin R
      /\ \A x, y, z \in listed : <<x, y>> \in R /\ <<y, z>> \in R => <<x, z>> \in R
      /\ \A x, y \in listed : x # y => <<x, y>> \in R \/ <<y, x>> \in R
  BY <1>1, <1>2, <1>4
<1>7. /\ ListOf(u) \in [1 .. Cardinality(listed) -> listed]
      /\ \A m, n \in 1 .. Cardinality(listed) : m < n => <<ListOf(u)[m], ListOf(u)[n]>> \in R
  BY <1>3, <1>5, <1>6, InOrderPlaces
<1> QED BY <1>1, <1>4, <1>7

LEMMA ListKeepsCalls == ListInvariant => ListRespectsCalls
<1> SUFFICES ASSUME ListInvariant, NEW u \in Users,
                    NEW i \in DOMAIN ListOf(u), NEW j \in DOMAIN ListOf(u), i < j,
                    \A q \in WritersOf(ListOf(u)[i]) :
                      ComesAfter(Last(wrote[ListOf(u)[j]]).call, q)
             PROVE  FALSE
  BY DEF ListRespectsCalls
<1> PICK a, b : a = ListOf(u)[i] /\ b = ListOf(u)[j]
  OBVIOUS
<1>1. a \in Existing /\ b \in Existing /\ updatedAt[a] > updatedAt[b]
  BY ListOrders
<1>2. updatedAt[a] \in Nat /\ updatedAt[b] \in Nat
  BY <1>1 DEF Existing, ListInvariant, TimesInvariant, TimesTypeOK
<1>3. AllBefore(a, LastCall(b))
  BY DEF AllBefore, LastCall, ComesAfter
<1>4. updatedAt[a] < updatedAt[b]
  BY <1>1, <1>3 DEF ListInvariant, UpdatesOrdered
<1> QED BY <1>1, <1>2, <1>4
(***************************************************************************)
(* Twins.                                                                  *)
(***************************************************************************)
LEMMA CreatorHasWritten ==
  ASSUME TimesInvariant, NEW c \in Existing
  PROVE  /\ c \in Conversations /\ 1 \in DOMAIN wrote[c]
         /\ Creator(c) \in WritersOf(c) /\ Creator(c) \in Requests
<1>1. c \in Conversations /\ TimesTypeOK /\ messages[c] \in Seq(Message)
  BY DEF TimesInvariant, RosterInvariant, OwnerInvariant, TypeOK, Existing
<1>2. Len(wrote[c]) > 0
  BY <1>1 DEF TimesInvariant, LogTimed
<1>3. 1 \in DOMAIN wrote[c]
  BY <1>1, <1>2, WritersAre
<1> QED BY <1>1, <1>3, WritersAre DEF Creator

\* A write into a conversation that exists leaves its creator and, if it is a
\* pair's, its rows; any other write creates a conversation.
LEMMA WriteKeepsPairs ==
  ASSUME TimesInvariant, NEW r \in Requests, NEW c \in Conversations,
         CommitTransaction(r), Writes(r, c), NEW d \in Existing
  PROVE  /\ kind'[d] = kind[d] /\ Creator(d)' = Creator(d)
         /\ kind[d] = "DIRECT" => RowsIn(d)' = RowsIn(d)
<1>1. /\ OwnerInvariant /\ request[r].conv = c
      /\ CallOK(request[r]) /\ request \in [Requests -> Request]
  BY Calls DEF OwnerInvariant, Writes
<1>2. d \in Conversations /\ 1 \in DOMAIN wrote[d] /\ TimesTypeOK
  BY CreatorHasWritten DEF TimesInvariant
<1>3. CASE d # c
  BY <1>2, <1>3 DEF Writes, Creator, RowsIn
<1>4. CASE d = c
  <2>1. ~CommitCreate(r)
    BY <1>1, <1>4 DEF CommitCreate, At, CallOK, Existing
  <2>2. kind' = kind
    BY <2>1 DEF CommitTransaction, CommitAdd, CommitRemove, CommitSend, store
  <2>3. kind[c] = "DIRECT" => CommitSend(r)
    BY <1>1, <2>1 DEF CommitTransaction, CommitAdd, CommitRemove, At, CallOK
  <2>4. kind[c] = "DIRECT" => participant' = participant
    BY <2>3 DEF CommitSend
  <2>5. wrote'[c][1] = wrote[c][1]
    BY <1>2, <1>4, WritersAre DEF Writes
  <2> QED BY <1>4, <2>2, <2>4, <2>5 DEF Creator, RowsIn
<1> QED BY <1>3, <1>4

LEMMA WriteCreates ==
  ASSUME TimesInvariant, NEW r \in Requests, NEW c \in Conversations,
         CommitTransaction(r), Writes(r, c), c \notin Existing
  PROVE  /\ At(r, "create.checked") /\ kind'[c] = request[r].kind /\ Creator(c)' = r
         /\ RowsIn(c)' = request[r].users \cup {request[r].by}
<1> PICK q : q = request[r]
  OBVIOUS
<1>1. /\ OwnerInvariant /\ TypeOK /\ q.conv = c /\ q \in Request /\ CallOK(q) /\ kind[c] = "NONE"
  BY Calls DEF OwnerInvariant, Writes, Existing, TypeOK
<1>2. CommitCreate(r)
  BY <1>1 DEF CommitTransaction, CommitAdd, CommitRemove, CommitSend, At, CallOK
<1>3. At(r, "create.checked") /\ q.by \in Users /\ q.users \subseteq Users
  BY <1>1, <1>2 DEF CommitCreate, At, CallOK, Request
<1>4. kind'[c] = q.kind /\ participant'[c] = InitialRows(q.by, q.users)
  BY <1>1, <1>2 DEF CommitCreate, TypeOK
<1>5. \A u \in Users : participant'[c][u].role # "NONE" <=> u \in q.users \cup {q.by}
  <2>1. ASSUME NEW u \in Users
        PROVE  participant'[c][u] =
                 IF u = q.by THEN OwnerRow ELSE IF u \in q.users THEN MemberRow ELSE NoRow
    BY <1>4 DEF InitialRows
  <2> QED BY <2>1 DEF OwnerRow, MemberRow, NoRow
<1>6. RowsIn(c)' = q.users \cup {q.by}
  BY <1>3, <1>5 DEF RowsIn
<1>7. Len(wrote[c]) = 0
  <2>1. messages[c] \in Seq(Message) /\ ~(Len(messages[c]) > 0)
    BY <1>1 DEF TimesInvariant, LogTimed, TypeOK, Existing
  <2>2. Len(messages[c]) \in Nat
    BY <2>1
  <2> QED BY <2>1, <2>2 DEF TimesInvariant, LogTimed
<1>8. Len(wrote'[c]) \in Nat
  BY TimesTyped, StepKinds, <1>7 DEF TimesTypeOK, ActNext
<1>9. wrote'[c][1].call = r
  BY <1>7, <1>8 DEF Writes
<1> QED BY <1>3, <1>4, <1>6, <1>9 DEF Creator

LEMMA PairsStaySeen ==
  ASSUME TwinsInvariant, [ActNext]_actvars, NEW t \in Requests
  PROVE  PairSeen(t)'
<1>1. TimesInvariant /\ PairSeen(t) /\ OwnerInvariant
  BY Calls DEF TwinsInvariant
<1>2. ASSUME UNCHANGED <<kind, participant, wrote>>, request'[t] = request[t], before'[t] = before[t]
      PROVE  PairSeen(t)'
  <2>1. Existing' = Existing /\ \A d \in Conversations :
          RowsIn(d)' = RowsIn(d) /\ Creator(d)' = Creator(d)
    BY <1>2 DEF Existing, RowsIn, Creator
  <2> QED BY <1>1, <1>2, <2>1 DEF PairSeen, At, ComesAfter, Existing
<1>3. CASE Passes
  <2>1. CASE At(t, "create.checked")'
    <3>1. request'[t] = request[t]
      BY <1>3, <2>1 DEF Passes, CallPasses, At, Uncommitted, Transacting
    <3> QED BY <1>2, <1>3, <3>1 DEF Passes, store
  <2>2. CASE ~At(t, "create.checked")'
    BY <2>2 DEF PairSeen
  <2> QED BY <2>1, <2>2
<1>4. ASSUME NEW r \in Requests, Begins(r) PROVE PairSeen(t)'
  <2>1. CASE t # r
    BY <1>2, <1>4, <2>1 DEF Begins, store, times
  <2>2. CASE t = r
    <3> PICK q : q = request'[r]
      OBVIOUS
    <3>1. CASE q.step = "create.checked" /\ q.kind = "DIRECT"
      <4>1. ~DirectExists(q.users \cup {q.by})
        BY <1>4, <3>1 DEF Begins, Begun, CreateAccepts
      <4>2. ASSUME NEW d \in Existing, kind[d] = "DIRECT", RowsIn(d) = q.users \cup {q.by}
            PROVE  FALSE
        <5>1. d \in Conversations /\ ActiveIn(d) = RowsIn(d)
          BY <1>1, <4>2 DEF TimesInvariant, RosterInvariant, RosterOK, PairOK, Existing
        <5> QED BY <4>1, <4>2, <5>1 DEF DirectExists
      <4>3. kind' = kind /\ participant' = participant
        BY <1>4 DEF Begins, store
      <4>4. Existing' = Existing /\ \A d \in Conversations : RowsIn(d)' = RowsIn(d)
        BY <4>3 DEF Existing, RowsIn
      <4> QED BY <2>2, <4>2, <4>3, <4>4 DEF PairSeen, Existing
    <3>2. CASE ~(q.step = "create.checked" /\ q.kind = "DIRECT")
      BY <2>2, <3>2 DEF PairSeen, At
    <3> QED BY <3>1, <3>2
  <2> QED BY <2>1, <2>2
<1>5. ASSUME NEW r \in Requests, Ticks(r) PROVE PairSeen(t)'
  BY <1>2, <1>5 DEF Ticks, vars
<1>6. ASSUME NEW r \in Requests, NEW c \in Conversations, CommitTransaction(r), Writes(r, c)
      PROVE  PairSeen(t)'
  <2>1. CASE t = r
    BY <1>6, <2>1 DEF Writes, PairSeen, At, Uncommitted, Transacting
  <2>2. CASE t # r
    <3>1. request'[t] = request[t] /\ before' = before /\ Existing' = Existing \cup {c}
      BY <1>6, <2>2 DEF Writes
    <3>2. ASSUME NEW d \in Existing', At(t, "create.checked"), request[t].kind = "DIRECT",
                 kind'[d] = "DIRECT", Creator(d)' \in before[t]
          PROVE  RowsIn(d)' # request[t].users \cup {request[t].by}
      <4>1. CASE d \in Existing
        BY <1>1, <1>6, <3>2, <4>1, WriteKeepsPairs DEF PairSeen, ComesAfter
      <4>2. CASE d \notin Existing
        <5>1. Creator(d)' = r
          BY <1>1, <1>6, <3>1, <4>2, WriteCreates
        <5> QED BY <1>1, <1>6, <3>2, <5>1, Comings DEF Writes, Uncommitted, ComesAfter
      <4> QED BY <4>1, <4>2
    <3> QED BY <3>1, <3>2 DEF PairSeen, At, ComesAfter
  <2> QED BY <2>1, <2>2
<1> QED BY <1>1, <1>3, <1>4, <1>5, <1>6, StepKinds

LEMMA TwinsStay ==
  ASSUME TwinsInvariant, [ActNext]_actvars
  PROVE  TwinsOverlapped'
<1> DEFINE Apart(c, d) == kind[c] = "DIRECT" /\ kind[d] = "DIRECT" /\ RowsIn(c) = RowsIn(d) =>
                            Creator(d) \notin before[Creator(c)]
<1>1. TimesInvariant /\ \A c, d \in Existing : c # d => Apart(c, d)
  BY DEF TwinsInvariant, TwinsOverlapped, ComesAfter, Creator
<1>2. \A c \in Existing : Creator(c) \in WritersOf(c) /\ Creator(c) \in Requests /\ c \in Conversations
  BY <1>1, CreatorHasWritten
<1>3. SUFFICES ASSUME NEW c \in Existing', NEW d \in Existing', c # d PROVE Apart(c, d)'
  BY DEF TwinsOverlapped, ComesAfter, Creator
<1>4. ASSUME UNCHANGED <<kind, participant, wrote>>,
             c \in Existing => before'[Creator(c)] = before[Creator(c)]
      PROVE  Apart(c, d)'
  <2>1. Existing' = Existing /\ \A k \in Conversations :
          RowsIn(k)' = RowsIn(k) /\ Creator(k)' = Creator(k)
    BY <1>4 DEF Existing, RowsIn, Creator
  <2>2. c \in Existing /\ d \in Existing
    BY <1>3, <2>1
  <2>3. /\ RowsIn(c)' = RowsIn(c) /\ Creator(c)' = Creator(c)
        /\ RowsIn(d)' = RowsIn(d) /\ Creator(d)' = Creator(d)
    BY <1>2, <2>1, <2>2
  <2> QED BY <1>1, <1>3, <1>4, <2>2, <2>3
<1>5. CASE Passes
  BY <1>4, <1>5 DEF Passes, store
<1>6. ASSUME NEW r \in Requests, Begins(r) PROVE Apart(c, d)'
  <2>1. \A k \in Conversations : r \notin WritersOf(k)
    BY <1>1, <1>6, Comings DEF Begins, At, Uncommitted
  <2>2. c \in Existing => before'[Creator(c)] = before[Creator(c)]
    BY <1>2, <1>6, <2>1 DEF Begins
  <2>3. UNCHANGED <<kind, participant, wrote>>
    BY <1>6 DEF Begins, store, times
  <2> HIDE DEF Apart
  <2> QED BY <1>4, <2>2, <2>3
<1>7. ASSUME NEW r \in Requests, Ticks(r) PROVE Apart(c, d)'
  BY <1>4, <1>7 DEF Ticks, vars
<1>8. ASSUME NEW r \in Requests, NEW k \in Conversations, CommitTransaction(r), Writes(r, k)
      PROVE  Apart(c, d)'
  <2>1. before' = before /\ Existing' = Existing \cup {k}
    BY <1>8 DEF Writes
  <2>2. \A q \in Requests : r \notin before[q]
    BY <1>1, <1>8, Comings DEF Writes, Uncommitted, ComesAfter
  <2>3. CASE c \in Existing /\ d \in Existing
    BY <1>1, <1>3, <1>8, <2>1, <2>3, WriteKeepsPairs
  <2>4. CASE d \notin Existing
    <3>1. d = k /\ Creator(d)' = r /\ c \in Existing
      BY <1>1, <1>3, <1>8, <2>1, <2>4, WriteCreates
    <3>2. Creator(c)' = Creator(c)
      BY <1>1, <1>8, <3>1, WriteKeepsPairs
    <3> QED BY <1>2, <2>1, <2>2, <3>1, <3>2
  <2>5. CASE c \notin Existing
    <3>1. /\ c = k /\ Creator(c)' = r /\ d \in Existing
          /\ At(r, "create.checked") /\ kind'[c] = request[r].kind
          /\ RowsIn(c)' = request[r].users \cup {request[r].by}
      BY <1>1, <1>3, <1>8, <2>1, <2>5, WriteCreates
    <3>2. /\ kind'[d] = kind[d] /\ Creator(d)' = Creator(d)
          /\ kind[d] = "DIRECT" => RowsIn(d)' = RowsIn(d)
      BY <1>1, <1>8, <3>1, WriteKeepsPairs
    <3>3. PairSeen(r)
      BY DEF TwinsInvariant
    <3> QED BY <2>1, <3>1, <3>2, <3>3 DEF PairSeen, ComesAfter
  <2> QED BY <2>3, <2>4, <2>5
<1> QED BY <1>1, <1>5, <1>6, <1>7, <1>8, StepKinds

LEMMA TwinsAlways == ActSpec => []TwinsInvariant
<1>1. ActInit => TwinsInvariant
  <2> SUFFICES ASSUME ActInit PROVE TwinsInvariant
    OBVIOUS
  <2>1. TwinsOverlapped
    BY DEF ActInit, Init, Existing, TwinsOverlapped
  <2>2. \A r \in Requests : PairSeen(r)
    BY DEF ActInit, Init, Idle, PairSeen, At
  <2> QED BY <2>1, <2>2, InitTimes DEF TwinsInvariant
<1>2. TwinsInvariant /\ [ActNext]_actvars => TwinsInvariant'
  BY TimesStep, PairsStaySeen, TwinsStay DEF TwinsInvariant
<1> QED BY <1>1, <1>2, PTL DEF ActSpec
(***************************************************************************)
(* Stories.                                                                *)
(***************************************************************************)

\* Without calls that overlap, the messages are shown as they were committed.
LEMMA AloneInPlace ==
  ASSUME TimesInvariant, NEW c \in Conversations, AloneOK(c)
  PROVE  Opened(c) = [i \in DOMAIN messages[c] |-> i]
<1> PICK N : N = Len(messages[c])
  OBVIOUS
<1> PICK s : s = NewestFirst(c)
  OBVIOUS
<1>1. /\ N \in Nat /\ DOMAIN wrote[c] = 1 .. N /\ DOMAIN messages[c] = 1 .. N
      /\ Len(s) = N /\ \A n \in 1 .. N : s[n] \in 1 .. N
  BY OpenedOrders
<1>2. \A n \in 1 .. N : Cardinality({k \in 1 .. N : IsNewer(c, k, s[n])}) = n - 1
  <2>1. messages[c] \in Seq(Message) /\ TimesTypeOK /\ LogTimed(c)
    BY DEF TimesInvariant, RosterInvariant, OwnerInvariant, TypeOK
  <2> QED BY <2>1, NewestFirstOrders
<1>3. \A i \in 1 .. N : wrote[c][i].stamp \in Nat
  BY <1>1, WritersAre DEF TimesInvariant
<1>4. ASSUME NEW i \in 1 .. N, NEW j \in 1 .. N PROVE IsNewer(c, i, j) <=> i > j
  <2>1. /\ i < j => wrote[c][i].stamp <= wrote[c][j].stamp
        /\ j < i => wrote[c][j].stamp <= wrote[c][i].stamp
    BY <1>1 DEF AloneOK
  <2> QED BY <1>1, <1>3, <2>1 DEF IsNewer
<1>5. ASSUME NEW n \in 1 .. N PROVE s[n] = (N - n) + 1
  <2> PICK x \in 1 .. N : x = s[n]
    BY <1>1
  <2>1. {k \in 1 .. N : IsNewer(c, k, x)} = {k \in 1 .. N : k > x}
    BY <1>4
  <2>2. {k \in 1 .. N : k > x} = x + 1 .. N
    BY <1>1
  <2>3. Cardinality(x + 1 .. N) = N - x
    <3>1. x + 1 \in Int /\ N \in Int /\ (IF x + 1 > N THEN 0 ELSE N - (x + 1) + 1) = N - x
      BY <1>1
    <3> QED BY <3>1, FS_Interval
  <2>4. N - x = n - 1
    BY <1>2, <2>1, <2>2, <2>3
  <2> QED BY <1>1, <2>4
<1>6. Opened(c) = [i \in 1 .. N |-> s[(N - i) + 1]]
  BY <1>1 DEF Opened, Reverse
<1>7. \A i \in 1 .. N : s[(N - i) + 1] = i
  <2>1. \A i \in 1 .. N : (N - i) + 1 \in 1 .. N /\ (N - ((N - i) + 1)) + 1 = i
    BY <1>1
  <2> QED BY <1>5, <2>1
<1> QED BY <1>1, <1>6, <1>7

LEMMA StoriesAreShown == StoryInvariant => HistoryIsConsistent
<1> SUFFICES ASSUME StoryInvariant, NEW c \in Existing \ overlapped, kind[c] = "GROUP"
             PROVE  StoryOf([i \in DOMAIN Opened(c) |-> messages[c][Opened(c)[i]]],
                            Users \ OwnersIn(c))
  BY DEF HistoryIsConsistent, StoryOf
<1>1. c \in Conversations /\ TimesInvariant /\ AloneOK(c) /\ messages[c] \in Seq(Message)
  BY DEF StoryInvariant, TimesInvariant, RosterInvariant, OwnerInvariant, TypeOK, Existing
<1>2. Opened(c) = [i \in DOMAIN messages[c] |-> i]
  BY <1>1, AloneInPlace
<1>3. [i \in DOMAIN Opened(c) |-> messages[c][Opened(c)[i]]] = messages[c]
  <2> PICK h : h = messages[c]
    OBVIOUS
  <2> PICK o : o = Opened(c)
    OBVIOUS
  <2>1. h \in Seq(Message) /\ o = [i \in DOMAIN h |-> i]
    BY <1>1, <1>2
  <2>2. [i \in DOMAIN o |-> h[o[i]]] = [i \in DOMAIN h |-> h[i]]
    BY <2>1
  <2>3. h = [i \in DOMAIN h |-> h[i]]
    BY <2>1
  <2> QED BY <2>2, <2>3
<1> QED BY <1>1, <1>3 DEF AloneOK

\* One more message keeps a story if it fits who is in.
LEMMA AppendFits ==
  ASSUME NEW h \in Seq(Message), NEW e \in Message, NEW outsiders, StoryOf(h, outsiders),
         \A u \in outsiders :
           /\ Says(e, "JOINED", u) => ~WasIn(h, u, Len(h))
           /\ Says(e, "LEFT", u) => WasIn(h, u, Len(h))
           /\ Says(e, "TEXT", u) => WasIn(h, u, Len(h))
  PROVE  StoryOf(Append(h, e), outsiders)
<1> PICK g : g = Append(h, e)
  OBVIOUS
<1>1. /\ Len(h) \in Nat /\ DOMAIN h = 1 .. Len(h) /\ DOMAIN g = 1 .. Len(h) + 1
      /\ \A i \in 1 .. Len(h) : g[i] = h[i]
      /\ g[Len(h) + 1] = e
  BY AppendProperties
<1>2. ASSUME NEW n \in 0 .. Len(h), NEW u PROVE WasIn(g, u, n) <=> WasIn(h, u, n)
  <2>1. \A i \in 1 .. n : i \in 1 .. Len(h) /\ g[i] = h[i] /\ i + 1 .. n \subseteq 1 .. n
    BY <1>1
  <2> QED BY <2>1 DEF WasIn
<1>3. ASSUME NEW n \in DOMAIN g, NEW u \in outsiders
      PROVE  /\ Says(g[n], "JOINED", u) => ~WasIn(g, u, n - 1)
             /\ Says(g[n], "LEFT", u) => WasIn(g, u, n - 1)
             /\ Says(g[n], "TEXT", u) => WasIn(g, u, n - 1)
  <2>1. n - 1 \in 0 .. Len(h)
    BY <1>1
  <2>2. CASE n \in DOMAIN h
    BY <1>1, <1>2, <2>1, <2>2 DEF StoryOf
  <2>3. CASE n \notin DOMAIN h
    <3>1. n - 1 = Len(h) /\ g[n] = e
      BY <1>1, <2>3
    <3> QED BY <1>2, <2>1, <3>1
  <2> QED BY <2>2, <2>3
<1> QED BY <1>3 DEF StoryOf

\* Who is in, is what the messages say.
LEMMA WasInIsSaid ==
  ASSUME NEW c \in Conversations, messages[c] \in Seq(Message), NEW u
  PROVE  WasIn(messages[c], u, Len(messages[c])) <=> SaysIn(c, u)
<1> PICK h : h = messages[c]
  OBVIOUS
<1>1. Len(h) \in Nat /\ DOMAIN h = 1 .. Len(h)
  BY LenProperties
<1>2. \A i \in 1 .. Len(h) : \A type : IsAbout(c, i, type, u) <=> Says(h[i], type, u)
  BY DEF IsAbout, Says
<1>3. \A i, j \in 1 .. Len(h) : j \in i + 1 .. Len(h) <=> j > i
  BY <1>1
<1>4. \A i \in 1 .. Len(h) : i + 1 .. Len(h) \subseteq 1 .. Len(h)
  BY <1>1
<1> QED BY <1>1, <1>2, <1>3, <1>4 DEF WasIn, SaysIn
\* What the layer says of c needs only c's rows, messages, stamps and calls.
LEMMA AloneKept ==
  ASSUME NEW c \in Conversations, AloneOK(c),
         kind'[c] = kind[c], participant'[c] = participant[c],
         messages'[c] = messages[c], wrote'[c] = wrote[c],
         \A r, q \in InFlight' : request'[r].conv = c /\ request'[q].conv = c => r = q,
         \A r \in InFlight' : request'[r].conv = c =>
           /\ StillTrue(request[r])'
           /\ stamp'[r] # 0 => \A i \in DOMAIN wrote[c] : wrote[c][i].stamp <= stamp'[r]
  PROVE  AloneOK(c)'
<1>1. Users \ OwnersIn(c)' = Users \ OwnersIn(c)
  BY DEF OwnersIn
<1>2. kind'[c] = "GROUP" => StoryOf(messages'[c], Users \ OwnersIn(c)')
  BY <1>1 DEF AloneOK
<1>3. \A i, j \in DOMAIN wrote'[c] : i < j => wrote'[c][i].stamp <= wrote'[c][j].stamp
  BY DEF AloneOK
<1>4. \A r \in InFlight' : request'[r].conv = c /\ stamp'[r] # 0 =>
        \A i \in DOMAIN wrote'[c] : wrote'[c][i].stamp <= stamp'[r]
  OBVIOUS
<1> QED BY <1>2, <1>3, <1>4 DEF AloneOK

\* What a call on c has checked, it has checked on the rows of c.
LEMMA ChecksStand ==
  ASSUME NEW c, participant'[c] = participant[c], NEW r,
         request[r].conv = c, request'[r] = request[r], StillTrue(request[r])
  PROVE  StillTrue(request[r])'
<1>1. ActiveIn(c)' = ActiveIn(c)
  BY DEF ActiveIn
<1> QED BY <1>1 DEF StillTrue

LEMMA PassKeepsAlone ==
  ASSUME TimesInvariant, Passes, NEW c \in Conversations, AloneOK(c)
  PROVE  AloneOK(c)'
<1>1. UNCHANGED <<store, wrote>> /\ \A t \in Requests : CallPasses(t)
  BY DEF Passes
<1>2. ASSUME NEW t \in InFlight', request'[t].conv = c
      PROVE  /\ t \in InFlight /\ request[t].conv = c
             /\ StillTrue(request[t])'
             /\ stamp'[t] # 0 => stamp'[t] = stamp[t]
  <2>1. t \in Requests /\ request'[t].step \notin {"idle", "ended"} /\ CallPasses(t)
    BY <1>1, <1>2 DEF InFlight
  <2>2. ActiveIn(c)' = ActiveIn(c)
    BY <1>1 DEF store, ActiveIn
  <2>3. CASE request'[t] = request[t] /\ stamp'[t] = stamp[t]
    <3>1. t \in InFlight /\ request[t].conv = c
      BY <1>2, <2>1, <2>3 DEF InFlight
    <3>2. StillTrue(request[t])
      BY <3>1 DEF AloneOK
    <3> QED BY <1>1, <2>3, <3>1, <3>2, ChecksStand DEF store
  <2>4. CASE /\ At(t, "add.checked") /\ request'[t].step = "add.split"
             /\ stamp'[t] = stamp[t] /\ request'[t].conv = request[t].conv
             /\ request'[t].users = request[t].users
    <3>1. t \in InFlight /\ request[t].conv = c
      BY <1>2, <2>1, <2>4 DEF InFlight, At
    <3>2. request[t].users \cap ActiveIn(c) = {}
      BY <2>4, <3>1 DEF AloneOK, StillTrue, At
    <3>3. StillTrue(request[t])'
      BY <1>2, <2>2, <2>4, <3>2 DEF StillTrue
    <3> QED BY <2>4, <3>1, <3>3
  <2>5. CASE /\ t \in InFlight /\ request'[t].step \notin Uncommitted /\ stamp'[t] = 0
             /\ request'[t].step # "ended" => request'[t].conv = request[t].conv
    <3>1. StillTrue(request[t])'
      BY <2>5 DEF StillTrue, Uncommitted, Transacting
    <3> QED BY <1>2, <2>1, <2>5, <3>1
  <2> QED BY <2>1, <2>3, <2>4, <2>5 DEF CallPasses
<1>3. \A r, q \in InFlight' : request'[r].conv = c /\ request'[q].conv = c => r = q
  BY <1>2 DEF AloneOK
<1>4. \A r \in InFlight' : request'[r].conv = c /\ stamp'[r] # 0 =>
        \A i \in DOMAIN wrote[c] : wrote[c][i].stamp <= stamp'[r]
  BY <1>2 DEF AloneOK
<1>5. /\ kind'[c] = kind[c] /\ participant'[c] = participant[c]
      /\ messages'[c] = messages[c] /\ wrote'[c] = wrote[c]
  BY <1>1 DEF store
<1> QED BY <1>2, <1>3, <1>4, <1>5, AloneKept

LEMMA BeginKeepsAlone ==
  ASSUME TimesInvariant, NEW r \in Requests, Begins(r),
         NEW c \in Conversations \ overlapped', AloneOK(c)
  PROVE  AloneOK(c)'
<1>1. /\ UNCHANGED <<store, wrote, stamp>> /\ At(r, "idle") /\ Begun(request'[r])
      /\ \A t \in Requests \ {r} : request'[t] = request[t]
      /\ overlapped' = overlapped \cup
           ({request[q].conv : q \in InFlight} \cap {request'[r].conv})
  BY DEF Begins, times
<1>2. r \notin InFlight /\ stamp[r] = 0
  BY <1>1 DEF InFlight, At, TimesInvariant, CallTimed, Transacting
<1>3. ASSUME NEW t \in InFlight', t # r PROVE t \in InFlight /\ request'[t] = request[t]
  BY <1>1, <1>3 DEF InFlight
<1>4. ASSUME NEW t \in InFlight', t # r, request'[t].conv = c PROVE request'[r].conv # c
  <2>1. t \in InFlight /\ request[t].conv = c
    BY <1>3, <1>4
  <2>2. c \in {request[q].conv : q \in InFlight}
    BY <2>1
  <2> QED BY <1>1, <2>2
<1>5. \A t, q \in InFlight' : request'[t].conv = c /\ request'[q].conv = c => t = q
  BY <1>3, <1>4 DEF AloneOK
<1>6. ASSUME NEW t \in InFlight', request'[t].conv = c
      PROVE  /\ StillTrue(request[t])'
             /\ stamp'[t] # 0 => \A i \in DOMAIN wrote[c] : wrote[c][i].stamp <= stamp'[t]
  <2>1. CASE t = r
    <3>1. ActiveIn(c)' = ActiveIn(c)
      BY <1>1 DEF store, ActiveIn
    <3>2. request'[r].step = "create.checked" \/ StillTrue(request'[r])
      BY <1>1, <1>6, <2>1 DEF Begun, InFlight
    <3>3. StillTrue(request[t])'
      BY <1>6, <2>1, <3>1, <3>2 DEF StillTrue
    <3> QED BY <1>1, <1>2, <2>1, <3>3
  <2>2. CASE t # r
    <3>1. t \in InFlight /\ request'[t] = request[t] /\ request[t].conv = c
      BY <1>3, <1>6, <2>2
    <3>2. StillTrue(request[t])
      BY <3>1 DEF AloneOK
    <3>3. StillTrue(request[t])'
      BY <1>1, <3>1, <3>2, ChecksStand DEF store
    <3> QED BY <1>1, <3>1, <3>3 DEF AloneOK
  <2> QED BY <2>1, <2>2
<1>7. /\ kind'[c] = kind[c] /\ participant'[c] = participant[c]
      /\ messages'[c] = messages[c] /\ wrote'[c] = wrote[c]
  BY <1>1 DEF store
<1> QED BY <1>5, <1>6, <1>7, AloneKept

LEMMA TickKeepsAlone ==
  ASSUME TimesInvariant, NEW r \in Requests, Ticks(r), NEW c \in Conversations, AloneOK(c)
  PROVE  AloneOK(c)'
<1>1. /\ UNCHANGED <<vars, wrote>>
      /\ \A t \in Requests : stamp'[t] = stamp[t] \/ stamp'[t] = clock + 1
      /\ clock \in Nat
  BY DEF Ticks, TimesInvariant, TimesTypeOK
<1>2. \A i \in DOMAIN wrote[c] : wrote[c][i].stamp \in Nat /\ wrote[c][i].stamp <= clock
  BY WritersAre DEF TimesInvariant, LogTimed
<1>3. \A i \in DOMAIN wrote[c] : wrote[c][i].stamp <= clock + 1
  BY <1>1, <1>2
<1>4. InFlight' = InFlight /\ request' = request /\ participant' = participant
  BY <1>1 DEF vars, InFlight
<1>5. \A t \in InFlight : request[t].conv = c => StillTrue(request[t])'
  BY <1>4, ChecksStand DEF AloneOK
<1>6. \A t \in InFlight : t \in Requests
  BY DEF InFlight
<1>7. \A t \in InFlight : request[t].conv = c /\ stamp'[t] # 0 =>
        \A i \in DOMAIN wrote[c] : wrote[c][i].stamp <= stamp'[t]
  BY <1>1, <1>3, <1>6 DEF AloneOK
<1>8. \A t, q \in InFlight : request[t].conv = c /\ request[q].conv = c => t = q
  BY DEF AloneOK
<1>9. /\ kind'[c] = kind[c] /\ participant'[c] = participant[c]
      /\ messages'[c] = messages[c] /\ wrote'[c] = wrote[c]
  BY <1>1 DEF vars
<1> QED BY <1>4, <1>5, <1>7, <1>8, <1>9, AloneKept
\* A write into another conversation is nothing to c.
LEMMA OtherKeepsAlone ==
  ASSUME NEW r \in Requests, NEW k \in Conversations, Writes(r, k),
         NEW c \in Conversations \ {k}, AloneOK(c)
  PROVE  AloneOK(c)'
<1>1. /\ kind'[c] = kind[c] /\ participant'[c] = participant[c]
      /\ messages'[c] = messages[c] /\ wrote'[c] = wrote[c]
  BY DEF Writes
<1>2. ASSUME NEW t \in InFlight', request'[t].conv = c
      PROVE  t \in InFlight /\ request'[t] = request[t] /\ stamp'[t] = stamp[t]
  <2>1. t # r
    BY <1>2 DEF Writes
  <2> QED BY <2>1 DEF Writes, InFlight
<1>3. \A t, q \in InFlight' : request'[t].conv = c /\ request'[q].conv = c => t = q
  BY <1>2 DEF AloneOK
<1>4. \A t \in InFlight' : request'[t].conv = c =>
        /\ StillTrue(request[t])'
        /\ stamp'[t] # 0 => \A i \in DOMAIN wrote[c] : wrote[c][i].stamp <= stamp'[t]
  BY <1>1, <1>2, ChecksStand DEF AloneOK
<1> QED BY <1>1, <1>3, <1>4, AloneKept

\* What the commits add to the story of a group fits who is in.
LEMMA CreationTells ==
  ASSUME TimesInvariant, NEW r \in Requests, CommitCreate(r), NEW c, c = request[r].conv
  PROVE  StoryOf(messages[c], Users \ OwnersIn(c))'
<1> PICK q : q = request[r]
  OBVIOUS
<1>1. messages'[c] = InitialMessages(q.kind, q.users)
  <2>1. q \in Request /\ CallOK(q) /\ q.step = "create.checked"
    BY Calls DEF CommitCreate, At, OwnerInvariant
  <2>2. c \in Conversations /\ messages \in [Conversations -> Seq(Message)]
    BY <2>1 DEF CallOK, TimesInvariant, RosterInvariant, OwnerInvariant, TypeOK
  <2> QED BY <2>2 DEF CommitCreate
<1> PICK h : h = messages'[c]
  OBVIOUS
<1>2. h[1].type = "CREATED" /\ DOMAIN h \in {1 .. 1, 1 .. 2} /\ (2 \in DOMAIN h => h[2].type = "JOINED")
  BY <1>1 DEF InitialMessages, Entry
<1>3. ASSUME NEW n \in DOMAIN h, NEW u
      PROVE  /\ Says(h[n], "JOINED", u) => ~WasIn(h, u, n - 1)
             /\ ~Says(h[n], "LEFT", u) /\ ~Says(h[n], "TEXT", u)
  <2>1. n = 1 \/ n = 2
    BY <1>2
  <2>2. ~Says(h[1], "JOINED", u)
    BY <1>2 DEF Says
  <2>3. ~WasIn(h, u, 1)
    BY <2>2 DEF WasIn
  <2> QED BY <1>2, <2>1, <2>2, <2>3 DEF Says
<1>4. StoryOf(h, Users \ OwnersIn(c)')
  BY <1>3 DEF StoryOf
<1> QED BY <1>4

LEMMA ChangeTells ==
  ASSUME TimesInvariant, NEW r \in Requests, NEW c, c = request[r].conv, c \in Conversations,
         CommitAdd(r) \/ CommitRemove(r) \/ CommitSend(r), messages'[c] # messages[c],
         kind[c] = "GROUP", StillTrue(request[r]), StoryOf(messages[c], Users \ OwnersIn(c))
  PROVE  StoryOf(messages[c], Users \ OwnersIn(c))'
<1> PICK q : q = request[r]
  OBVIOUS
<1> PICK h : h = messages[c]
  OBVIOUS
<1> PICK outsiders : outsiders = Users \ OwnersIn(c)
  OBVIOUS
<1>1. /\ RosterInvariant /\ TypeOK /\ q \in Request /\ CallOK(q)
      /\ messages \in [Conversations -> Seq(Message)] /\ h \in Seq(Message)
      /\ participant \in [Conversations -> [Users -> Row]]
  BY DEF TimesInvariant, RosterInvariant, OwnerInvariant, TypeOK
<1>2. \A u \in outsiders : u \in ActiveIn(c) <=> WasIn(h, u, Len(h))
  BY <1>1, WasInIsSaid DEF RosterInvariant, RosterOK, GroupOK
<1>3. CASE CommitAdd(r)
  <2> PICK e : e = Entry("JOINED", q.users)
    OBVIOUS
  <2>1. /\ q.step = "add.split"
        /\ messages' = [messages EXCEPT ![c] = Append(@, e)]
        /\ participant' = [participant EXCEPT ![c] = RowsAfterAdd(c, q.users)]
    BY <1>3 DEF CommitAdd, At, store
  <2>2. messages'[c] = Append(h, e)
    BY <1>1, <2>1
  <2>3. q.users \cap OwnersIn(c) = {} /\ q.users \cap ActiveIn(c) = {} /\ q.users \in SUBSET Users
    BY <1>1, <2>1 DEF CallOK, StillTrue, Request
  <2>4. e \in Message /\ e.type = "JOINED" /\ e.users = q.users
    BY <2>3 DEF Message, Entry
  <2>5. OwnersIn(c)' = OwnersIn(c)
    BY <1>1, <2>1, <2>3 DEF OwnersIn, RowsAfterAdd, MemberRow
  <2>6. StoryOf(Append(h, e), outsiders)
    BY <1>1, <1>2, <2>3, <2>4, AppendFits DEF Says
  <2> QED BY <2>2, <2>5, <2>6
<1>4. CASE CommitRemove(r)
  <2> PICK e : e = Entry("LEFT", q.users)
    OBVIOUS
  <2>1. /\ q.step = "remove.checked"
        /\ messages' = [messages EXCEPT ![c] = Append(@, e)]
        /\ participant' = [participant EXCEPT ![c] = RowsAfterRemove(c, q.users)]
    BY <1>4 DEF CommitRemove, At
  <2>2. messages'[c] = Append(h, e)
    BY <1>1, <2>1
  <2>3. q.users \subseteq ActiveIn(c) /\ q.users \in SUBSET Users
    BY <1>1, <2>1 DEF StillTrue, Request
  <2>4. e \in Message /\ e.type = "LEFT" /\ e.users = q.users
    BY <2>3 DEF Message, Entry
  <2>5. OwnersIn(c)' = OwnersIn(c)
    BY <1>1, <2>1 DEF OwnersIn, RowsAfterRemove, Departed
  <2>6. StoryOf(Append(h, e), outsiders)
    BY <1>1, <1>2, <2>3, <2>4, AppendFits DEF Says
  <2> QED BY <2>2, <2>5, <2>6
<1>5. CASE CommitSend(r)
  <2> PICK e : e = Entry("TEXT", {q.by})
    OBVIOUS
  <2>1. /\ q.step = "send.checked" /\ participant' = participant
        /\ messages' = [messages EXCEPT ![c] = Append(@, e)]
    BY <1>5 DEF CommitSend, At
  <2>2. messages'[c] = Append(h, e)
    BY <1>1, <2>1
  <2>3. q.by \in ActiveIn(c) /\ q.by \in Users
    BY <1>1, <2>1 DEF StillTrue, CallOK
  <2>4. e \in Message /\ e.type = "TEXT" /\ e.users = {q.by}
    BY <2>3 DEF Message, Entry
  <2>5. OwnersIn(c)' = OwnersIn(c)
    BY <2>1 DEF OwnersIn
  <2>6. StoryOf(Append(h, e), outsiders)
    BY <1>1, <1>2, <2>3, <2>4, AppendFits DEF Says
  <2> QED BY <2>2, <2>5, <2>6
<1> QED BY <1>3, <1>4, <1>5

\* A write into c, by the only call on it.
LEMMA WriteKeepsAlone ==
  ASSUME TimesInvariant, TimesTypeOK', NEW r \in Requests, NEW c \in Conversations,
         CommitTransaction(r), Writes(r, c), AloneOK(c)
  PROVE  AloneOK(c)'
<1>1. /\ request[r].conv = c /\ r \in InFlight
      /\ request'[r].step \notin Uncommitted \cup {"ended"} /\ request'[r].conv = c
      /\ stamp'[r] = 0 /\ stamp[r] # 0
      /\ \A t \in Requests \ {r} : request'[t] = request[t]
      /\ Len(wrote'[c]) = Len(messages'[c]) /\ Len(wrote[c]) < Len(wrote'[c])
      /\ \A i \in 1 .. Len(wrote[c]) : wrote'[c][i] = wrote[c][i]
      /\ \A i \in Len(wrote[c]) + 1 .. Len(wrote'[c]) :
           wrote'[c][i] = [call |-> r, stamp |-> stamp[r]]
  BY DEF Writes
<1>2. /\ TimesTypeOK /\ OwnerInvariant /\ CallOK(request[r])
      /\ Len(wrote[c]) \in Nat /\ DOMAIN wrote[c] = 1 .. Len(wrote[c])
      /\ Len(wrote'[c]) \in Nat /\ DOMAIN wrote'[c] = 1 .. Len(wrote'[c])
      /\ stamp[r] \in Nat
  <2>1. TimesTypeOK /\ OwnerInvariant /\ CallOK(request[r]) /\ stamp[r] \in Nat
    BY Calls DEF TimesInvariant, OwnerInvariant
  <2>2. /\ wrote[c] \in Seq([call : Requests, stamp : Nat])
        /\ wrote'[c] \in Seq([call : Requests, stamp : Nat])
    BY <2>1 DEF TimesTypeOK
  <2> QED BY <2>1, <2>2
<1>3. ASSUME NEW t \in InFlight', request'[t].conv = c PROVE t = r
  <2>1. CASE t # r
    <3>1. t \in InFlight /\ request[t].conv = c
      BY <1>1, <1>3, <2>1 DEF InFlight
    <3> QED BY <1>1, <3>1 DEF AloneOK
  <2> QED BY <2>1
<1>4. StillTrue(request[r])'
  BY <1>1 DEF StillTrue, Uncommitted, Transacting
<1>5. ASSUME NEW i \in DOMAIN wrote'[c], NEW j \in DOMAIN wrote'[c], i < j
      PROVE  wrote'[c][i].stamp <= wrote'[c][j].stamp
  <2>1. CASE j \in DOMAIN wrote[c]
    BY <1>1, <1>2, <1>5, <2>1 DEF AloneOK
  <2>2. CASE j \notin DOMAIN wrote[c]
    <3>1. wrote'[c][j].stamp = stamp[r]
      BY <1>1, <1>2, <2>2
    <3>2. i \in DOMAIN wrote[c] \/ wrote'[c][i].stamp = stamp[r]
      BY <1>1, <1>2
    <3>3. i \in DOMAIN wrote[c] => wrote'[c][i].stamp <= stamp[r]
      BY <1>1, <1>2 DEF AloneOK
    <3> QED BY <1>2, <3>1, <3>2, <3>3
  <2> QED BY <2>1, <2>2
<1>6. ASSUME kind'[c] = "GROUP" PROVE StoryOf(messages[c], Users \ OwnersIn(c))'
  <2>1. CASE CommitCreate(r)
    BY <1>1, <2>1, CreationTells
  <2>2. CASE CommitAdd(r) \/ CommitRemove(r) \/ CommitSend(r)
    <3>1. kind[c] = "GROUP"
      BY <1>1, <1>2, <1>6, <2>2 DEF CommitAdd, CommitRemove, CommitSend, CallOK, At
    <3>2. messages'[c] # messages[c]
      BY <1>1, <1>2 DEF TimesInvariant, LogTimed
    <3>3. StillTrue(request[r]) /\ StoryOf(messages[c], Users \ OwnersIn(c))
      BY <1>1, <3>1 DEF AloneOK
    <3> QED BY <1>1, <2>2, <3>1, <3>2, <3>3, ChangeTells
  <2> QED BY <2>1, <2>2 DEF CommitTransaction
<1> QED BY <1>1, <1>3, <1>4, <1>5, <1>6 DEF AloneOK

LEMMA AloneStays ==
  ASSUME StoryInvariant, [ActNext]_actvars, NEW c \in Conversations \ overlapped'
  PROVE  AloneOK(c)'
<1>1. overlapped \subseteq overlapped'
  BY StepKinds DEF Passes, Begins, Ticks, Writes, StoryInvariant
<1>2. TimesInvariant /\ TimesTypeOK' /\ AloneOK(c)
  BY <1>1, TimesTyped DEF StoryInvariant
<1>3. CASE Passes
  BY <1>2, <1>3, PassKeepsAlone
<1>4. ASSUME NEW r \in Requests, Begins(r) PROVE AloneOK(c)'
  BY <1>2, <1>4, BeginKeepsAlone
<1>5. ASSUME NEW r \in Requests, Ticks(r) PROVE AloneOK(c)'
  BY <1>2, <1>5, TickKeepsAlone
<1>6. ASSUME NEW r \in Requests, NEW k \in Conversations, CommitTransaction(r), Writes(r, k)
      PROVE  AloneOK(c)'
  BY <1>2, <1>6, OtherKeepsAlone, WriteKeepsAlone
<1> QED BY <1>2, <1>3, <1>4, <1>5, <1>6, StepKinds

LEMMA StoryAlways == ActSpec => []StoryInvariant
<1>1. ActInit => StoryInvariant
  <2> SUFFICES ASSUME ActInit, NEW c \in Conversations PROVE AloneOK(c)
    BY InitTimes DEF StoryInvariant
  <2>1. InFlight = {} /\ wrote[c] = << >> /\ kind[c] = "NONE"
    BY DEF ActInit, Init, Idle, InFlight
  <2> QED BY <2>1 DEF AloneOK
<1>2. StoryInvariant /\ [ActNext]_actvars => StoryInvariant'
  BY TimesStep, AloneStays DEF StoryInvariant
<1> QED BY <1>1, <1>2, PTL DEF ActSpec

(***************************************************************************)
(* Turns.                                                                  *)
(***************************************************************************)

\* What a call has just checked on the rows, the messages bear out.
LEMMA CheckedIsSaid ==
  ASSUME TimesInvariant, NEW c \in Conversations, kind[c] = "GROUP",
         NEW u \in Users \ OwnersIn(c), NEW t \in Turns, NEW d \in DOMAIN messages[c],
         Says(messages[c][d], t.said, u), u \in ActiveIn(c) <=> t.says # "JOINED"
  PROVE  \E i \in DOMAIN messages[c] : i > d /\ Says(messages[c][i], t.between, u)
<1>1. RosterOK(c) /\ messages[c] \in Seq(Message)
  BY DEF TimesInvariant, RosterInvariant, OwnerInvariant, TypeOK
<1>2. u \in ActiveIn(c) <=> SaysIn(c, u)
  BY <1>1 DEF RosterOK, GroupOK
<1>3. DOMAIN messages[c] \subseteq Nat
  BY <1>1
<1>4. CASE t.says = "JOINED"
  <2>1. ~SaysIn(c, u) /\ IsAbout(c, d, "JOINED", u) /\ t.between = "LEFT"
    BY <1>2, <1>4 DEF Turns, Says, IsAbout
  <2>2. PICK i \in DOMAIN messages[c] : i > d /\ IsAbout(c, i, "LEFT", u)
    BY <2>1 DEF SaysIn
  <2> QED BY <2>1, <2>2 DEF IsAbout, Says
<1>5. CASE t.says # "JOINED"
  <2>1. SaysIn(c, u) /\ t.said = "LEFT" /\ t.between = "JOINED"
    BY <1>2, <1>5 DEF Turns
  <2>2. PICK i \in DOMAIN messages[c] :
          /\ IsAbout(c, i, "JOINED", u)
          /\ \A j \in DOMAIN messages[c] : j > i => ~IsAbout(c, j, "LEFT", u)
    BY <2>1 DEF SaysIn
  <2>3. IsAbout(c, d, "LEFT", u)
    BY <2>1 DEF IsAbout, Says
  <2>4. ~(d > i) /\ d # i
    BY <2>2, <2>3 DEF IsAbout
  <2>5. i > d
    BY <1>3, <2>4
  <2> QED BY <2>1, <2>2, <2>5 DEF IsAbout, Says
<1> QED BY <1>4, <1>5

\* A change of a group that exists adds the one message that was pending.
LEMMA ChangeAppends ==
  ASSUME TimesInvariant, NEW r \in Requests, NEW c, c = request[r].conv, c \in Conversations,
         CommitAdd(r) \/ CommitRemove(r) \/ CommitSend(r), messages'[c] # messages[c]
  PROVE  /\ kind'[c] = kind[c] /\ OwnersIn(c)' = OwnersIn(c)
         /\ \E e : /\ messages'[c] = Append(messages[c], e)
                   /\ \A type, u : Says(e, type, u) => Pending(request[r], type, u)
<1> PICK q : q = request[r]
  OBVIOUS
<1>1. /\ q \in Request /\ CallOK(q) /\ messages \in [Conversations -> Seq(Message)]
      /\ participant \in [Conversations -> [Users -> Row]]
  BY DEF TimesInvariant, RosterInvariant, OwnerInvariant, TypeOK
<1>2. CASE CommitAdd(r)
  <2> PICK e : e = Entry("JOINED", q.users)
    OBVIOUS
  <2>1. /\ q.step = "add.split" /\ kind' = kind
        /\ messages' = [messages EXCEPT ![c] = Append(@, e)]
        /\ participant' = [participant EXCEPT ![c] = RowsAfterAdd(c, q.users)]
    BY <1>2 DEF CommitAdd, At, store
  <2>2. messages'[c] = Append(messages[c], e)
    BY <1>1, <2>1
  <2>3. OwnersIn(c)' = OwnersIn(c)
    BY <1>1, <2>1 DEF OwnersIn, RowsAfterAdd, MemberRow, CallOK
  <2>4. \A type, u : Says(e, type, u) => Pending(q, type, u)
    BY <2>1 DEF Says, Entry, Pending
  <2> QED BY <2>1, <2>2, <2>3, <2>4
<1>3. CASE CommitRemove(r)
  <2> PICK e : e = Entry("LEFT", q.users)
    OBVIOUS
  <2>1. /\ q.step = "remove.checked" /\ kind' = kind
        /\ messages' = [messages EXCEPT ![c] = Append(@, e)]
        /\ participant' = [participant EXCEPT ![c] = RowsAfterRemove(c, q.users)]
    BY <1>3 DEF CommitRemove, At
  <2>2. messages'[c] = Append(messages[c], e)
    BY <1>1, <2>1
  <2>3. OwnersIn(c)' = OwnersIn(c)
    BY <1>1, <2>1 DEF OwnersIn, RowsAfterRemove, Departed
  <2>4. \A type, u : Says(e, type, u) => Pending(q, type, u)
    BY <2>1 DEF Says, Entry, Pending
  <2> QED BY <2>1, <2>2, <2>3, <2>4
<1>4. CASE CommitSend(r)
  <2> PICK e : e = Entry("TEXT", {q.by})
    OBVIOUS
  <2>1. /\ q.step = "send.checked" /\ kind' = kind /\ participant' = participant
        /\ messages' = [messages EXCEPT ![c] = Append(@, e)]
    BY <1>4 DEF CommitSend, At
  <2>2. messages'[c] = Append(messages[c], e)
    BY <1>1, <2>1
  <2>3. OwnersIn(c)' = OwnersIn(c)
    BY <2>1 DEF OwnersIn
  <2>4. \A type, u : Says(e, type, u) => Pending(q, type, u)
    BY <2>1 DEF Says, Entry, Pending
  <2> QED BY <2>1, <2>2, <2>3, <2>4
<1> QED BY <1>2, <1>3, <1>4

\* The messages of c stay and what r is going to write is no more than before.
LEMMA ReadyKept ==
  ASSUME NEW r, NEW c, ReadyIn(r, c),
         kind'[c] = kind[c], participant'[c] = participant[c],
         messages'[c] = messages[c], wrote'[c] = wrote[c], before'[r] = before[r],
         \A type, u : Pending(request'[r], type, u) => Pending(request[r], type, u),
         request'[r].conv = c => request[r].conv = c
  PROVE  ReadyIn(r, c)'
<1>1. OwnersIn(c)' = OwnersIn(c)
  BY DEF OwnersIn
<1>2. \A type, u : Pending(request[r], type, u)' <=> Pending(request'[r], type, u)
  BY DEF Pending
<1> QED BY <1>1, <1>2 DEF ReadyIn, ComesAfter, Says

LEMMA PassKeepsReady ==
  ASSUME TimesInvariant, Passes, NEW r \in Requests, NEW c \in Conversations, ReadyIn(r, c)
  PROVE  ReadyIn(r, c)'
<1>1. UNCHANGED <<kind, participant, messages, wrote, before>> /\ CallPasses(r)
  BY DEF Passes, store
<1>2. CASE request'[r] = request[r]
  BY <1>1, <1>2, ReadyKept
<1>3. CASE /\ At(r, "add.checked") /\ request'[r].step = "add.split"
           /\ request'[r].conv = request[r].conv /\ request'[r].users = request[r].users
  <2>1. \A type, u : Pending(request'[r], type, u) => Pending(request[r], type, u)
    BY <1>3 DEF Pending, At
  <2> QED BY <1>1, <1>3, <2>1, ReadyKept
<1>4. CASE request'[r].step \notin Uncommitted
  <2>1. \A type, u : ~Pending(request'[r], type, u)
    BY <1>4 DEF Pending, Uncommitted, Transacting
  <2> QED BY <2>1 DEF ReadyIn, Pending
<1> QED BY <1>1, <1>2, <1>3, <1>4 DEF CallPasses

LEMMA BeginKeepsReady ==
  ASSUME TimesInvariant, NEW q \in Requests, Begins(q),
         NEW r \in Requests, NEW c \in Conversations, ReadyIn(r, c)
  PROVE  ReadyIn(r, c)'
<1>1. /\ UNCHANGED <<kind, participant, messages, wrote>> /\ Begun(request'[q])
      /\ \A t \in Requests \ {q} : request'[t] = request[t] /\ before'[t] = before[t]
  BY DEF Begins, store, times
<1>2. CASE r # q
  BY <1>1, <1>2, ReadyKept
<1>3. CASE r = q
  <2> PICK n : n = request'[r]
    OBVIOUS
  <2>1. SUFFICES ASSUME n.conv = c, kind[c] = "GROUP", NEW u \in Users \ OwnersIn(c),
                        NEW t \in Turns, NEW d \in DOMAIN messages[c],
                        Pending(n, t.says, u), Says(messages[c][d], t.said, u)
                 PROVE  \E i \in DOMAIN messages[c] : i > d /\ Says(messages[c][i], t.between, u)
    <3>1. OwnersIn(c)' = OwnersIn(c)
      BY <1>1 DEF OwnersIn
    <3>2. \A type, u : Pending(request[r], type, u)' <=> Pending(n, type, u)
      BY DEF Pending
    <3> QED BY <1>1, <3>1, <3>2 DEF ReadyIn, Says
  <2>2. StillTrue(n)
    BY <1>1, <1>3, <2>1 DEF Begun, Pending
  <2>3. u \in ActiveIn(c) <=> t.says # "JOINED"
    BY <2>1, <2>2 DEF StillTrue, Pending, Turns
  <2> QED BY <2>1, <2>3, CheckedIsSaid
<1> QED BY <1>2, <1>3

\* A write into c: what c had is at its old places, all else is by r.
LEMMA WriteExtends ==
  ASSUME TimesInvariant, TimesTypeOK', NEW r \in Requests, NEW c \in Conversations,
         CommitTransaction(r), Writes(r, c)
  PROVE  /\ DOMAIN messages[c] = 1 .. Len(messages[c]) /\ Len(messages[c]) \in Nat
         /\ \A i \in DOMAIN messages[c] : wrote'[c][i] = wrote[c][i]
         /\ \A i \in DOMAIN messages'[c] \ DOMAIN messages[c] : wrote'[c][i].call = r
         /\ DOMAIN messages[c] # {} =>
              /\ kind'[c] = kind[c] /\ OwnersIn(c)' = OwnersIn(c)
              /\ DOMAIN messages'[c] = 1 .. Len(messages[c]) + 1
              /\ \A i \in DOMAIN messages[c] : messages'[c][i] = messages[c][i]
              /\ \A type, u : Says(messages'[c][Len(messages[c]) + 1], type, u) =>
                                Pending(request[r], type, u)
<1>1. /\ OwnerInvariant /\ CallOK(request[r]) /\ request[r].conv = c /\ LogTimed(c)
      /\ messages[c] \in Seq(Message) /\ messages' \in [Conversations -> Seq(Message)]
  <2>1. OwnerInvariant /\ OwnerInvariant'
    BY Calls, TimesStep DEF ActNext, TimesInvariant, RosterInvariant
  <2> QED BY <2>1 DEF OwnerInvariant, TypeOK, Writes, TimesInvariant
<1>2. /\ DOMAIN messages[c] = 1 .. Len(messages[c]) /\ Len(messages[c]) \in Nat
      /\ DOMAIN messages'[c] = 1 .. Len(messages'[c]) /\ Len(messages'[c]) \in Nat
  BY <1>1
<1>3. Len(wrote[c]) = Len(messages[c]) /\ Len(wrote'[c]) = Len(messages'[c])
  BY <1>1 DEF LogTimed, Writes
<1>4. \A i \in DOMAIN messages[c] : wrote'[c][i] = wrote[c][i]
  BY <1>2, <1>3 DEF Writes
<1>5. \A i \in DOMAIN messages'[c] \ DOMAIN messages[c] : wrote'[c][i].call = r
  BY <1>2, <1>3 DEF Writes
<1>6. ASSUME DOMAIN messages[c] # {}
      PROVE  /\ kind'[c] = kind[c] /\ OwnersIn(c)' = OwnersIn(c)
             /\ \E e : /\ messages'[c] = Append(messages[c], e)
                       /\ \A type, u : Says(e, type, u) => Pending(request[r], type, u)
  <2>1. c \in Existing /\ messages'[c] # messages[c]
    BY <1>1, <1>2, <1>3, <1>6 DEF LogTimed, Writes
  <2>2. ~CommitCreate(r)
    BY <1>1, <2>1 DEF CommitCreate, At, CallOK, Existing
  <2>3. CommitAdd(r) \/ CommitRemove(r) \/ CommitSend(r)
    BY <2>2 DEF CommitTransaction
  <2> QED BY <1>1, <2>1, <2>3, ChangeAppends
<1>7. ASSUME NEW e, messages'[c] = Append(messages[c], e)
      PROVE  /\ DOMAIN messages'[c] = 1 .. Len(messages[c]) + 1
             /\ \A i \in DOMAIN messages[c] : messages'[c][i] = messages[c][i]
             /\ messages'[c][Len(messages[c]) + 1] = e
  BY <1>1, <1>2, <1>7
<1> QED BY <1>2, <1>4, <1>5, <1>6, <1>7

LEMMA WriteKeepsReady ==
  ASSUME TimesInvariant, TimesTypeOK', NEW q \in Requests, NEW k \in Conversations,
         CommitTransaction(q), Writes(q, k),
         NEW r \in Requests, NEW c \in Conversations, ReadyIn(r, c)
  PROVE  ReadyIn(r, c)'
<1>1. before' = before /\ ~ComesAfter(r, q)
  BY Comings DEF Writes, Uncommitted
<1>2. CASE r = q
  <2>1. \A type, u : ~Pending(request'[r], type, u)
    BY <1>2 DEF Pending, Uncommitted, Transacting, Writes
  <2> QED BY <2>1 DEF ReadyIn, Pending
<1>3. CASE r # q /\ c # k
  BY <1>1, <1>3, ReadyKept DEF Writes
<1>4. CASE r # q /\ c = k
  <2>1. request'[r] = request[r]
    BY <1>4 DEF Writes
  <2>2. SUFFICES ASSUME request[r].conv = c, kind'[c] = "GROUP", NEW u \in Users \ OwnersIn(c)',
                        NEW t \in Turns, NEW d \in DOMAIN messages'[c],
                        Pending(request[r], t.says, u),
                        ComesAfter(r, wrote'[c][d].call), Says(messages'[c][d], t.said, u)
                 PROVE  \E i \in DOMAIN messages'[c] : i > d /\ Says(messages'[c][i], t.between, u)
    <3>1. \A type, u : Pending(request[r], type, u)' <=> Pending(request[r], type, u)
      BY <2>1 DEF Pending
    <3> QED BY <1>1, <2>1, <3>1 DEF ReadyIn, Says, ComesAfter
  <2>3. d \in DOMAIN messages[c]
    BY <1>1, <1>4, <2>2, WriteExtends
  <2>4. /\ kind[c] = "GROUP" /\ u \in Users \ OwnersIn(c)
        /\ messages'[c][d] = messages[c][d] /\ wrote'[c][d] = wrote[c][d]
        /\ \A i \in DOMAIN messages[c] : i \in DOMAIN messages'[c] /\ messages'[c][i] = messages[c][i]
    BY <1>4, <2>2, <2>3, WriteExtends
  <2>5. PICK i \in DOMAIN messages[c] : i > d /\ Says(messages[c][i], t.between, u)
    BY <2>2, <2>3, <2>4 DEF ReadyIn
  <2> QED BY <2>4, <2>5
<1> QED BY <1>2, <1>3, <1>4

LEMMA ReadyStays ==
  ASSUME TurnsInvariant, [ActNext]_actvars, NEW r \in Requests, NEW c \in Conversations
  PROVE  ReadyIn(r, c)'
<1>1. TimesInvariant /\ TimesTypeOK' /\ ReadyIn(r, c)
  BY TimesTyped DEF TurnsInvariant
<1>2. ASSUME NEW q \in Requests, Ticks(q) PROVE ReadyIn(r, c)'
  BY <1>1, <1>2, ReadyKept DEF Ticks, vars
<1> QED BY <1>1, <1>2, StepKinds, PassKeepsReady, BeginKeepsReady, WriteKeepsReady

\* The messages of one group take turns.
TurnsIn(c) ==
  kind[c] = "GROUP" =>
    \A n \in DOMAIN messages[c], u \in Users \ OwnersIn(c), t \in Turns : \A d \in 1 .. n - 1 :
      /\ ComesAfter(wrote[c][n].call, wrote[c][d].call)
      /\ Says(messages[c][n], t.says, u) /\ Says(messages[c][d], t.said, u)
      => \E i \in d + 1 .. n - 1 : Says(messages[c][i], t.between, u)

LEMMA TurnsKept ==
  ASSUME NEW c, TurnsIn(c), kind'[c] = kind[c], participant'[c] = participant[c],
         messages'[c] = messages[c], wrote'[c] = wrote[c],
         \A n \in DOMAIN messages[c] : before'[wrote[c][n].call] = before[wrote[c][n].call]
  PROVE  TurnsIn(c)'
<1>1. OwnersIn(c)' = OwnersIn(c)
  BY DEF OwnersIn
<1> QED BY <1>1 DEF TurnsIn, ComesAfter, Says

LEMMA WriteKeepsTurns ==
  ASSUME TimesInvariant, TimesTypeOK', NEW r \in Requests, NEW c \in Conversations,
         CommitTransaction(r), Writes(r, c), ReadyIn(r, c), TurnsIn(c)
  PROVE  TurnsIn(c)'
<1>1. before' = before /\ request[r].conv = c /\ \A q \in Requests : ~ComesAfter(q, r)
  BY Comings DEF Writes, Uncommitted
<1> PICK m : m = Len(messages[c])
  OBVIOUS
<1>2. m \in Nat /\ DOMAIN messages[c] = 1 .. m
  BY WriteExtends
<1>3. \A n \in DOMAIN messages'[c] : wrote'[c][n].call \in Requests
  <2>1. wrote'[c] \in Seq([call : Requests, stamp : Nat])
    BY DEF TimesTypeOK
  <2>2. messages' \in [Conversations -> Seq(Message)]
    BY TimesStep DEF ActNext, TimesInvariant, RosterInvariant, OwnerInvariant, TypeOK
  <2>3. DOMAIN messages'[c] = DOMAIN wrote'[c]
    BY <2>1, <2>2 DEF Writes
  <2>4. \A n \in 1 .. Len(wrote'[c]) : wrote'[c][n] \in [call : Requests, stamp : Nat]
    BY <2>1, ElementOfSeq
  <2>5. \A n \in 1 .. Len(wrote'[c]) : wrote'[c][n].call \in Requests
    BY <2>4
  <2> QED BY <2>1, <2>3, <2>5
<1>4. SUFFICES ASSUME kind'[c] = "GROUP", NEW n \in DOMAIN messages'[c],
                      NEW u \in Users \ OwnersIn(c)', NEW t \in Turns, NEW d \in 1 .. n - 1,
                      ComesAfter(wrote'[c][n].call, wrote'[c][d].call),
                      Says(messages'[c][n], t.says, u), Says(messages'[c][d], t.said, u)
               PROVE  \E i \in d + 1 .. n - 1 : Says(messages'[c][i], t.between, u)
  BY <1>1 DEF TurnsIn, ComesAfter, Says
<1>5. d \in DOMAIN messages[c]
  <2>1. wrote'[c][d].call # r
    BY <1>1, <1>3, <1>4
  <2>2. d \in DOMAIN messages'[c]
    <3>1. messages' \in [Conversations -> Seq(Message)]
      BY TimesStep DEF ActNext, TimesInvariant, RosterInvariant, OwnerInvariant, TypeOK
    <3> QED BY <3>1
  <2> QED BY <2>1, <2>2, WriteExtends
<1>6. /\ kind[c] = "GROUP" /\ u \in Users \ OwnersIn(c) /\ n \in 1 .. m + 1
      /\ wrote'[c][d] = wrote[c][d]
      /\ \A i \in 1 .. m : messages'[c][i] = messages[c][i] /\ wrote'[c][i] = wrote[c][i]
  BY <1>2, <1>4, <1>5, WriteExtends
<1>7. CASE n \in DOMAIN messages[c]
  <2>1. ComesAfter(wrote[c][n].call, wrote[c][d].call)
    BY <1>1, <1>2, <1>4, <1>6, <1>7 DEF ComesAfter
  <2>2. Says(messages[c][n], t.says, u) /\ Says(messages[c][d], t.said, u)
    BY <1>2, <1>4, <1>5, <1>6, <1>7
  <2>3. PICK i \in d + 1 .. n - 1 : Says(messages[c][i], t.between, u)
    BY <1>4, <1>6, <1>7, <2>1, <2>2 DEF TurnsIn
  <2> QED BY <1>2, <1>5, <1>6, <1>7, <2>3
<1>8. CASE n \notin DOMAIN messages[c]
  <2>1. n = m + 1 /\ wrote'[c][n].call = r
    BY <1>2, <1>4, <1>6, <1>8, WriteExtends
  <2>2. Pending(request[r], t.says, u)
    BY <1>4, <1>5, <2>1, WriteExtends
  <2>3. ComesAfter(r, wrote[c][d].call) /\ Says(messages[c][d], t.said, u)
    BY <1>1, <1>2, <1>4, <1>5, <1>6, <2>1 DEF ComesAfter
  <2>4. PICK i \in DOMAIN messages[c] : i > d /\ Says(messages[c][i], t.between, u)
    BY <1>1, <1>5, <1>6, <2>2, <2>3 DEF ReadyIn
  <2> QED BY <1>2, <1>5, <1>6, <2>1, <2>4
<1> QED BY <1>7, <1>8

LEMMA TurnsStay ==
  ASSUME TurnsInvariant, [ActNext]_actvars, NEW c \in Conversations
  PROVE  TurnsIn(c)'
<1>1. TimesInvariant /\ TimesTypeOK' /\ \A r \in Requests : ReadyIn(r, c)
  BY TimesTyped DEF TurnsInvariant
<1>2. TurnsIn(c)
  <2>1. CASE c \in Existing
    BY <2>1 DEF TurnsInvariant, MessagesTakeTurns, TurnsIn
  <2>2. CASE c \notin Existing
    BY <2>2 DEF Existing, TurnsIn
  <2> QED BY <2>1, <2>2
<1>3. CASE Passes
  BY <1>2, <1>3, TurnsKept DEF Passes, store
<1>4. ASSUME NEW r \in Requests, Begins(r) PROVE TurnsIn(c)'
  <2>1. \A n \in DOMAIN messages[c] : wrote[c][n].call \in Requests \ {r}
    <3>1. DOMAIN messages[c] = DOMAIN wrote[c]
      BY <1>1, WritersAre DEF TimesInvariant, LogTimed, RosterInvariant, OwnerInvariant, TypeOK
    <3> QED BY <1>1, <1>4, <3>1, WritersAre, Comings DEF Begins, At, Uncommitted, TimesInvariant
  <2> QED BY <1>2, <1>4, <2>1, TurnsKept DEF Begins, store, times
<1>5. ASSUME NEW r \in Requests, Ticks(r) PROVE TurnsIn(c)'
  BY <1>2, <1>5, TurnsKept DEF Ticks, vars
<1>6. ASSUME NEW r \in Requests, NEW k \in Conversations, CommitTransaction(r), Writes(r, k)
      PROVE  TurnsIn(c)'
  <2>1. CASE c = k
    BY <1>1, <1>2, <1>6, <2>1, WriteKeepsTurns
  <2>2. CASE c # k
    BY <1>2, <1>6, <2>2, TurnsKept DEF Writes
  <2> QED BY <2>1, <2>2
<1> QED BY <1>1, <1>3, <1>4, <1>5, <1>6, StepKinds

LEMMA TurnsAlways == ActSpec => []TurnsInvariant
<1>1. ActInit => TurnsInvariant
  BY InitTimes DEF ActInit, Init, Existing, TurnsInvariant, MessagesTakeTurns, ReadyIn
<1>2. TurnsInvariant /\ [ActNext]_actvars => TurnsInvariant'
  <2> SUFFICES ASSUME TurnsInvariant, [ActNext]_actvars PROVE TurnsInvariant'
    OBVIOUS
  <2>1. TimesInvariant' /\ \A r \in Requests, c \in Conversations : ReadyIn(r, c)'
    BY TimesStep, ReadyStays DEF TurnsInvariant
  <2>2. \A c \in Conversations : TurnsIn(c)'
    BY TurnsStay
  <2>3. MessagesTakeTurns'
    BY <2>2 DEF TurnsIn, MessagesTakeTurns, Existing
  <2> QED BY <2>1, <2>3 DEF TurnsInvariant
<1> QED BY <1>1, <1>2, PTL DEF ActSpec

(***************************************************************************)
(* The participants of an answer: splitParticipants and sortParticipants.  *)
(***************************************************************************)

\* Counting up from 0 reaches every number up to L: the least that is missed
\* would have the one before it in B.
LEMMA Counting ==
  ASSUME NEW L \in Nat, NEW B, B \subseteq 0 .. L, 0 \in B,
         \A n \in 1 .. L : n - 1 \in B => n \in B
  PROVE  B = 0 .. L
<1> DEFINE rest == (0 .. L) \ B
           R == StrictSubsetOrdering(0 .. L)
           upTo == {0 .. n : n \in rest}
<1>0. SUFFICES ASSUME rest # {} PROVE FALSE
  <2>1. SUFFICES rest = {}
    OBVIOUS
  <2> QED OBVIOUS
<1>1. IsFiniteSet(0 .. L)
  BY FS_Interval
<1>2. upTo \subseteq FiniteSubsetsOf(0 .. L) /\ upTo # {}
  <2>1. \A n \in rest : 0 .. n \subseteq 0 .. L
    OBVIOUS
  <2>2. \A n \in rest : IsFiniteSet(0 .. n)
    BY <2>1, <1>1, FS_Subset
  <2> QED BY <1>0, <2>1, <2>2 DEF FiniteSubsetsOf
<1>3. IsWellFoundedOn(R, FiniteSubsetsOf(0 .. L))
  BY FS_StrictSubsetOrderingWellFounded
<1>4. \E T \in upTo : \A U \in upTo : ~(<<U, T>> \in R)
  BY <1>2, <1>3, WFMin
<1>5. PICK n \in rest : \A k \in rest : ~(<<0 .. k, 0 .. n>> \in R)
  BY <1>4
<1>6. n \in 1 .. L
  OBVIOUS
<1>7. n - 1 \in rest
  BY <1>6
<1>8. <<0 .. (n - 1), 0 .. n>> \in R
  <2>1. 0 .. (n - 1) \subseteq 0 .. n /\ n \in 0 .. n /\ n \notin 0 .. (n - 1)
        /\ 0 .. n \subseteq 0 .. L
    BY <1>6
  <2> QED BY <2>1 DEF StrictSubsetOrdering
<1> HIDE DEF rest, R
<1> QED BY <1>5, <1>7, <1>8, Zenon

\* f is what recursion over 1 .. L makes of first by step.
Recursion(f, L, first, step) ==
  /\ f[0] = first
  /\ \A n \in 1 .. L : f[n] = step[<<f[n - 1], n>>]

LEMMA RecursionStands ==
  ASSUME NEW L \in Nat, NEW T, NEW first \in T, NEW step \in [T \X (1 .. L) -> T]
  PROVE  \E f \in [0 .. L -> T] : Recursion(f, L, first, step)
<1> DEFINE Upto(g, k) == g \in [0 .. k -> T] /\ Recursion(g, k, first, step)
           B == {k \in 0 .. L : \E g : Upto(g, k)}
<1>1. 0 \in B
  <2>1. Upto([n \in 0 .. 0 |-> first], 0)
    BY DEF Recursion
  <2> HIDE DEF Upto
  <2> QED BY <2>1
<1>2. ASSUME NEW k \in 1 .. L, k - 1 \in B PROVE k \in B
  <2> PICK g : Upto(g, k - 1)
    BY <1>2
  <2> DEFINE h == [n \in 0 .. k |-> IF n = k THEN step[<<g[k - 1], k>>] ELSE g[n]]
  <2>1. k - 1 \in 0 .. (k - 1) /\ g[k - 1] \in T
    OBVIOUS
  <2>2. step[<<g[k - 1], k>>] \in T
    BY <2>1
  <2>3. \A n \in 0 .. k : n = k \/ n \in 0 .. (k - 1)
    OBVIOUS
  <2>4. h \in [0 .. k -> T]
    BY <2>2, <2>3
  <2>5. h[0] = first
    BY DEF Recursion
  <2>6. ASSUME NEW n \in 1 .. k PROVE h[n] = step[<<h[n - 1], n>>]
    <3>1. n - 1 \in 0 .. k /\ n - 1 # k /\ h[n - 1] = g[n - 1]
      OBVIOUS
    <3>2. CASE n = k
      BY <3>1, <3>2
    <3>3. CASE n # k
      <4>1. n \in 1 .. (k - 1)
        BY <3>3
      <4> QED BY <3>1, <4>1 DEF Recursion
    <3> QED BY <3>2, <3>3
  <2>7. Upto(h, k)
    BY <2>4, <2>5, <2>6 DEF Recursion
  <2> HIDE DEF Upto
  <2> QED BY <2>7
<1> HIDE DEF Upto
<1>3. B = 0 .. L
  <2>1. B \subseteq 0 .. L
    OBVIOUS
  <2> HIDE DEF B
  <2> QED BY <1>1, <1>2, <2>1, Counting
<1>4. PICK f : Upto(f, L)
  BY <1>3
<1> QED BY <1>4 DEF Upto

\* splitParticipants: the loop pushes row after row.
LEMMA PushedSteps ==
  ASSUME NEW rows \in Seq(Users), NEW S
  PROVE  \E f \in [0 .. Len(rows) -> Seq(Users)] :
           /\ f[0] = << >>
           /\ \A n \in 1 .. Len(rows) :
                f[n] = IF rows[n] \in S THEN Append(f[n - 1], rows[n]) ELSE f[n - 1]
           /\ Pushed(rows, S) = f[Len(rows)]
<1> DEFINE L == Len(rows)
           T == Seq(Users)
           step == [p \in T \X (1 .. L) |->
                      IF rows[p[2]] \in S THEN Append(p[1], rows[p[2]]) ELSE p[1]]
           Is(g) == g = [n \in 0 .. L |->
                           IF n = 0 THEN << >>
                           ELSE IF rows[n] \in S THEN Append(g[n - 1], rows[n]) ELSE g[n - 1]]
           g == CHOOSE h : Is(h)
<1>1. L \in Nat /\ << >> \in T /\ \A n \in 1 .. L : rows[n] \in Users
  OBVIOUS
<1>2. step \in [T \X (1 .. L) -> T]
  BY <1>1
<1>3. ASSUME NEW s \in T, NEW n \in 1 .. L
      PROVE  step[<<s, n>>] = IF rows[n] \in S THEN Append(s, rows[n]) ELSE s
  OBVIOUS
<1>4. Pushed(rows, S) = g[L]
  BY DEF Pushed
<1> HIDE DEF step
<1>5. PICK f \in [0 .. L -> T] : f[0] = << >> /\ \A n \in 1 .. L : f[n] = step[<<f[n - 1], n>>]
  <2> DEFINE first == << >>
  <2>1. first \in T
    BY <1>1
  <2> HIDE DEF L, T, first
  <2>2. \E f \in [0 .. L -> T] : Recursion(f, L, first, step)
    BY <1>1, <1>2, <2>1, RecursionStands
  <2> QED BY <2>2 DEF first, Recursion
<1>6. ASSUME NEW n \in 1 .. L
      PROVE  f[n] = IF rows[n] \in S THEN Append(f[n - 1], rows[n]) ELSE f[n - 1]
  <2>1. f[n - 1] \in T
    BY <1>1
  <2> HIDE DEF T
  <2> QED BY <1>3, <1>5, <2>1
<1>7. Is(f)
  <2> DEFINE e == [n \in 0 .. L |->
                     IF n = 0 THEN << >>
                     ELSE IF rows[n] \in S THEN Append(f[n - 1], rows[n]) ELSE f[n - 1]]
  <2>1. \A n \in 0 .. L : n = 0 \/ n \in 1 .. L
    BY <1>1
  <2>2. \A n \in 0 .. L : f[n] = e[n]
    BY <1>5, <1>6, <2>1
  <2>3. f = e
    <3> HIDE DEF T
    <3> QED BY <2>2
  <2> QED BY <2>3
<1>8. Is(g)
  <2> HIDE DEF Is
  <2> QED BY <1>7
<1> HIDE DEF g
<1>9. g[0] = << >> /\ \A n \in 1 .. L :
        g[n] = IF rows[n] \in S THEN Append(g[n - 1], rows[n]) ELSE g[n - 1]
  <2> DEFINE Longer(n) == IF rows[n] \in S THEN Append(g[n - 1], rows[n]) ELSE g[n - 1]
  <2>1. g = [n \in 0 .. L |-> IF n = 0 THEN << >> ELSE Longer(n)]
    BY <1>8
  <2> HIDE DEF Longer
  <2>2. g[0] = << >> /\ \A n \in 1 .. L : g[n] = Longer(n)
    BY <1>1, <2>1
  <2> QED BY <2>2 DEF Longer
<1> DEFINE C == {n \in 0 .. L : g[n] = f[n]}
<1>10. C = 0 .. L
  <2>1. 0 \in C
    BY <1>1, <1>5, <1>9
  <2>2. ASSUME NEW n \in 1 .. L, n - 1 \in C PROVE n \in C
    BY <1>6, <1>9, <2>2
  <2>3. C \subseteq 0 .. L
    OBVIOUS
  <2> HIDE DEF C, L
  <2> QED BY <1>1, <2>1, <2>2, <2>3, Counting
<1>11. g[L] = f[L]
  BY <1>1, <1>10
<1> QED BY <1>4, <1>5, <1>6, <1>11

\* What splitParticipants returns: the rows of S, each as often as it came.
LEMMA PushedRows ==
  ASSUME NEW rows \in Seq(Users), NEW S
  PROVE  /\ Pushed(rows, S) \in Seq(Users)
         /\ ToSet(Pushed(rows, S)) = ToSet(rows) \cap S
         /\ IsInjective(rows) => IsInjective(Pushed(rows, S))
<1> DEFINE L == Len(rows)
           Seen(n) == {rows[i] : i \in 1 .. n}
<1>1. L \in Nat /\ DOMAIN rows = 1 .. L
  OBVIOUS
<1>2. PICK f \in [0 .. L -> Seq(Users)] :
        /\ f[0] = << >>
        /\ \A n \in 1 .. L :
             f[n] = IF rows[n] \in S THEN Append(f[n - 1], rows[n]) ELSE f[n - 1]
        /\ Pushed(rows, S) = f[L]
  BY PushedSteps
<1> DEFINE Good(n) == /\ ToSet(f[n]) = Seen(n) \cap S
                      /\ IsInjective(rows) => IsInjective(f[n])
           C == {n \in 0 .. L : Good(n)}
<1>3. 0 \in C
  <2>1. ToSet(f[0]) = {} /\ Seen(0) = {} /\ IsInjective(f[0])
    BY <1>2 DEF ToSet, IsInjective
  <2> QED BY <1>1, <2>1
<1>4. ASSUME NEW n \in 1 .. L, n - 1 \in C PROVE n \in C
  <2>1. n - 1 \in 0 .. L /\ f[n - 1] \in Seq(Users) /\ Good(n - 1)
    BY <1>4
  <2>2. Seen(n) = Seen(n - 1) \cup {rows[n]}
    <3>1. 1 .. n = (1 .. (n - 1)) \cup {n}
      OBVIOUS
    <3> QED BY <3>1
  <2>3. CASE rows[n] \notin S
    <3>1. f[n] = f[n - 1]
      BY <1>2, <2>3
    <3> QED BY <2>1, <2>2, <2>3, <3>1
  <2>4. CASE rows[n] \in S
    <3> DEFINE s == f[n - 1]
    <3>1. f[n] = Append(s, rows[n]) /\ rows[n] \in Users
      <4>1. f[n] = IF rows[n] \in S THEN Append(f[n - 1], rows[n]) ELSE f[n - 1]
        BY <1>2
      <4>2. rows[n] \in Users
        OBVIOUS
      <4> QED BY <2>4, <4>1, <4>2
    <3>2. ToSet(f[n]) = ToSet(s) \cup {rows[n]}
      <4> HIDE DEF s
      <4>1. s \in Seq(Users)
        BY <2>1 DEF s
      <4>2. DOMAIN f[n] = DOMAIN s \cup {Len(s) + 1}
        BY <3>1, <4>1
      <4>3. f[n][Len(s) + 1] = rows[n] /\ \A i \in DOMAIN s : f[n][i] = s[i]
        BY <3>1, <4>1
      <4> QED BY <4>2, <4>3 DEF ToSet
    <3>3. ASSUME IsInjective(rows) PROVE rows[n] \notin ToSet(s)
      <4>1. rows[n] \notin Seen(n - 1)
        BY <1>1, <3>3 DEF IsInjective
      <4> QED BY <2>1, <4>1
    <3>4. ASSUME IsInjective(rows) PROVE IsInjective(f[n])
      <4>1. IsInjective(s)
        BY <2>1, <3>4
      <4> QED BY <2>1, <3>1, <3>3, <3>4, <4>1 DEF ToSet, IsInjective
    <3>5. ToSet(f[n]) = Seen(n) \cap S
      BY <2>1, <2>2, <2>4, <3>2
    <3> QED BY <3>4, <3>5
  <2> QED BY <2>3, <2>4
<1>5. C = 0 .. L
  <2>1. C \subseteq 0 .. L
    OBVIOUS
  <2> HIDE DEF C, L
  <2> QED BY <1>1, <1>3, <1>4, <2>1, Counting
<1>6. Good(L)
  <2>1. L \in C
    <3> HIDE DEF C
    <3> QED BY <1>1, <1>5
  <2> QED BY <2>1
<1>7. Seen(L) = ToSet(rows)
  BY <1>1 DEF ToSet
<1> QED BY <1>1, <1>2, <1>6, <1>7

\* One insertion: an owner goes first, anybody else last.
LEMMA InsertedIs ==
  ASSUME NEW c, NEW s \in Seq(Users), NEW u \in Users
  PROVE  Inserted(c, s, u) =
           IF participant[c][u].role = "OWNER" THEN <<u>> \o s ELSE Append(s, u)
<1> DEFINE n == SelectInSeq(s, LAMBDA v : Precedes(c, u, v))
<1>1. Inserted(c, s, u) = IF n = 0 THEN Append(s, u) ELSE InsertAt(s, n, u)
  BY DEF Inserted
<1>2. CASE participant[c][u].role # "OWNER"
  <2>1. n = 0
    BY <1>2 DEF SelectInSeq, Precedes
  <2> QED BY <1>1, <1>2, <2>1
<1>3. CASE participant[c][u].role = "OWNER" /\ s = << >>
  <2>1. n = 0
    BY <1>3 DEF SelectInSeq
  <2>2. Append(s, u) = <<u>> \o s
    BY <1>3
  <2> QED BY <1>1, <1>3, <2>1, <2>2
<1>4. CASE participant[c][u].role = "OWNER" /\ s # << >>
  <2>1. n = Min(1 .. Len(s)) /\ 1 .. Len(s) # {}
    <3>1. {i \in 1 .. Len(s) : Precedes(c, u, s[i])} = 1 .. Len(s)
      BY <1>4 DEF Precedes
    <3>2. 1 \in 1 .. Len(s)
      BY <1>4
    <3> QED BY <3>1, <3>2 DEF SelectInSeq
  <2>2. n = 1
    <3>1. 1 \in 1 .. Len(s) /\ \A i \in 1 .. Len(s) : 1 <= i
      BY <1>4
    <3>2. \A x \in 1 .. Len(s) : (\A y \in 1 .. Len(s) : x <= y) => x = 1
      BY <3>1
    <3> QED BY <2>1, <3>1, <3>2 DEF Min
  <2>3. InsertAt(s, 1, u) = <<u>> \o s
    BY <1>4 DEF InsertAt
  <2> HIDE DEF n
  <2> QED BY <1>1, <1>4, <2>2, <2>3
<1> QED BY <1>2, <1>3, <1>4

\* sortParticipants moves the only owner of the list to its front and leaves the
\* others as they were.
LEMMA SortedParticipants ==
  ASSUME NEW c, NEW list \in Seq(Users), IsInjective(list),
         NEW k \in DOMAIN list, OwnersIn(c) = {list[k]}
  PROVE  SortParticipants(c, list) = <<list[k]>> \o Pushed(list, Users \ {list[k]})
<1> DEFINE L == Len(list)
           o == list[k]
           S == Users \ {o}
<1>1. L \in Nat /\ k \in 1 .. L /\ \A n \in 1 .. L : list[n] \in Users
  OBVIOUS
<1>2. \A n \in 1 .. L : list[n] = o <=> n = k
  BY <1>1 DEF IsInjective
<1>3. \A n \in 1 .. L : participant[c][list[n]].role = "OWNER" <=> n = k
  BY <1>1, <1>2 DEF OwnersIn
<1>4. PICK p \in [0 .. L -> Seq(Users)] :
        /\ p[0] = << >>
        /\ \A n \in 1 .. L : p[n] = IF list[n] \in S THEN Append(p[n - 1], list[n]) ELSE p[n - 1]
        /\ Pushed(list, S) = p[L]
  <2> HIDE DEF S
  <2> QED BY PushedSteps
<1> DEFINE f == [n \in 0 .. L |-> IF k <= n THEN <<o>> \o p[n] ELSE p[n]]
           Is(g) == g = [n \in 0 .. L |->
                           IF n = 0 THEN << >> ELSE Inserted(c, g[n - 1], list[n])]
           g == CHOOSE h : Is(h)
<1>5. SortParticipants(c, list) = g[L]
  BY DEF SortParticipants
<1>6. f[0] = << >>
  BY <1>1, <1>4
<1>7. ASSUME NEW n \in 1 .. L PROVE f[n] = Inserted(c, f[n - 1], list[n])
  <2>1. /\ n \in 0 .. L /\ n - 1 \in 0 .. L
        /\ p[n - 1] \in Seq(Users) /\ list[n] \in Users /\ o \in Users
    BY <1>1, <1>4
  <2>2. p[n] = IF list[n] \in S THEN Append(p[n - 1], list[n]) ELSE p[n - 1]
    BY <1>4
  <2>3. f[n] = IF k <= n THEN <<o>> \o p[n] ELSE p[n]
    BY <2>1
  <2>4. f[n - 1] = IF k <= n - 1 THEN <<o>> \o p[n - 1] ELSE p[n - 1]
    BY <2>1
  <2>5. f[n - 1] \in Seq(Users)
    BY <2>1, <2>4
  <2> HIDE DEF f
  <2>6. Inserted(c, f[n - 1], list[n]) =
          IF n = k THEN <<list[n]>> \o f[n - 1] ELSE Append(f[n - 1], list[n])
    BY <1>3, <2>1, <2>5, InsertedIs
  <2>7. CASE n = k
    <3>1. p[n] = p[n - 1] /\ f[n - 1] = p[n - 1] /\ f[n] = <<o>> \o p[n]
      BY <1>1, <2>2, <2>3, <2>4, <2>7
    <3> QED BY <2>6, <2>7, <3>1
  <2>8. CASE n < k
    <3>1. p[n] = Append(p[n - 1], list[n]) /\ f[n - 1] = p[n - 1] /\ f[n] = p[n]
      BY <1>1, <1>2, <2>1, <2>2, <2>3, <2>4, <2>8
    <3> QED BY <1>1, <2>6, <2>8, <3>1
  <2>9. CASE n > k
    <3>1. p[n] = Append(p[n - 1], list[n])
      BY <1>1, <1>2, <2>1, <2>2, <2>9
    <3>2. f[n - 1] = <<o>> \o p[n - 1] /\ f[n] = <<o>> \o p[n]
      BY <1>1, <2>3, <2>4, <2>9
    <3>3. <<o>> \o Append(p[n - 1], list[n]) = Append(<<o>> \o p[n - 1], list[n])
      <4> HIDE DEF o
      <4> QED BY <2>1
    <3> QED BY <1>1, <2>6, <2>9, <3>1, <3>2, <3>3
  <2> QED BY <1>1, <2>7, <2>8, <2>9
<1>8. Is(f)
  <2> DEFINE e == [n \in 0 .. L |-> IF n = 0 THEN << >> ELSE Inserted(c, f[n - 1], list[n])]
  <2>1. \A n \in 0 .. L : n = 0 \/ n \in 1 .. L
    BY <1>1
  <2>2. ASSUME NEW n \in 0 .. L PROVE f[n] = e[n]
    <3> HIDE DEF f
    <3> QED BY <1>6, <1>7, <2>1
  <2>3. f = e
    BY <2>2
  <2> QED BY <2>3
<1> HIDE DEF f
<1>9. Is(g)
  <2> HIDE DEF Is
  <2> QED BY <1>8
<1> HIDE DEF g
<1>10. g[0] = << >> /\ \A n \in 1 .. L : g[n] = Inserted(c, g[n - 1], list[n])
  BY <1>1, <1>9
<1> DEFINE C == {n \in 0 .. L : g[n] = f[n]}
<1>11. C = 0 .. L
  <2>1. 0 \in C
    BY <1>1, <1>6, <1>10
  <2>2. ASSUME NEW n \in 1 .. L, n - 1 \in C PROVE n \in C
    BY <1>7, <1>10, <2>2
  <2>3. C \subseteq 0 .. L
    OBVIOUS
  <2> HIDE DEF C, L
  <2> QED BY <1>1, <2>1, <2>2, <2>3, Counting
<1>12. g[L] = f[L]
  BY <1>1, <1>11
<1>13. f[L] = <<o>> \o p[L]
  BY <1>1 DEF f
<1> QED BY <1>4, <1>5, <1>12, <1>13

\* A sequence without repetitions, as long as a finite set it is taken from,
\* holds all of it.
LEMMA RowsComeAll ==
  ASSUME NEW S, IsFiniteSet(S), NEW rows \in SetToSeqs(S)
  PROVE  rows \in Seq(S) /\ IsInjective(rows) /\ ToSet(rows) = S
<1> DEFINE N == Cardinality(S)
<1>1. N \in Nat /\ IsFiniteSet(1 .. N) /\ Cardinality(1 .. N) = N
  BY FS_CardinalityType, FS_Interval
<1>2. rows \in [1 .. N -> S] /\ IsInjective(rows)
  BY DEF SetToSeqs, IsInjective
<1>3. rows \in Injection(1 .. N, S)
  BY <1>2 DEF Injection
<1>4. rows \in Surjection(1 .. N, S)
  BY <1>1, <1>3, FS_Injection
<1>5. ToSet(rows) = S
  BY <1>2, <1>4 DEF ToSet, Surjection
<1> QED BY <1>1, <1>2, <1>5

\* One owner, who takes part, is all that sortParticipants needs.
LEMMA OneOwnerIsFirst ==
  ASSUME NEW c \in Existing, TypeOK, OneOwner, NEW rows \in SetToSeqs(RowsIn(c))
  PROVE  LET active == ActiveParticipants(c, rows)
             shown == SortParticipants(c, active)
         IN /\ shown[1] \in OwnersIn(c)
            /\ ToSet(shown) \cup ToSet(RemovedParticipants(c, rows)) = RowsIn(c)
            /\ Tail(shown) = Pushed(active, Users \ {shown[1]})
<1> DEFINE active == ActiveParticipants(c, rows)
           removed == RemovedParticipants(c, rows)
           shown == SortParticipants(c, active)
<1>1. rows \in Seq(Users) /\ IsInjective(rows) /\ ToSet(rows) = RowsIn(c)
  <2>1. IsFiniteSet(RowsIn(c))
    BY UsersAssumption, FS_Subset DEF RowsIn
  <2>2. rows \in Seq(RowsIn(c)) /\ IsInjective(rows) /\ ToSet(rows) = RowsIn(c)
    BY <2>1, RowsComeAll
  <2> QED BY <2>2 DEF RowsIn
<1>2. /\ active \in Seq(Users) /\ IsInjective(active)
      /\ ToSet(active) = RowsIn(c) \cap ActiveIn(c) /\ ToSet(removed) = LeftIn(c)
  BY <1>1, PushedRows DEF ActiveParticipants, RemovedParticipants, LeftIn
<1>3. PICK o \in Users : OwnersIn(c) = {o} /\ o \in ActiveIn(c) /\ o \in RowsIn(c)
  <2>1. PICK o \in Users : OwnersIn(c) = {o} /\ participant[c][o].active
    BY DEF OneOwner
  <2>2. participant[c][o].role = "OWNER"
    BY <2>1 DEF OwnersIn
  <2> QED BY <2>1, <2>2 DEF ActiveIn, RowsIn
<1>4. PICK k \in DOMAIN active : active[k] = o
  BY <1>2, <1>3 DEF ToSet
<1> DEFINE rest == Pushed(active, Users \ {o})
<1>5. shown = <<o>> \o rest
  BY <1>2, <1>3, <1>4, SortedParticipants
<1>6. rest \in Seq(Users) /\ ToSet(rest) = ToSet(active) \cap (Users \ {o})
  BY <1>2, PushedRows
<1> HIDE DEF active, removed, shown, rest
<1>7. shown[1] = o /\ Tail(shown) = rest /\ ToSet(shown) = {o} \cup ToSet(rest)
  <2>1. Len(shown) = Len(rest) + 1 /\ shown[1] = o /\ Tail(shown) = rest
    BY <1>5, <1>6
  <2>2. \A i \in 1 .. Len(rest) : shown[i + 1] = rest[i]
    BY <1>5, <1>6
  <2>3. DOMAIN rest = 1 .. Len(rest) /\ DOMAIN shown = 1 .. Len(shown) /\ Len(rest) \in Nat
    BY <1>5, <1>6
  <2>4. \A i \in DOMAIN shown : i = 1 \/ (i - 1 \in 1 .. Len(rest) /\ i = (i - 1) + 1)
    BY <2>1, <2>3
  <2>5. 1 \in DOMAIN shown /\ \A i \in 1 .. Len(rest) : i + 1 \in DOMAIN shown
    BY <2>1, <2>3
  <2> HIDE DEF rest, shown
  <2>6. ASSUME NEW i \in DOMAIN shown PROVE shown[i] = o \/ shown[i] \in ToSet(rest)
    <3>1. CASE i - 1 \in 1 .. Len(rest) /\ i = (i - 1) + 1
      <4>1. shown[i] = rest[i - 1]
        BY <2>2, <3>1
      <4> QED BY <2>3, <3>1, <4>1 DEF ToSet
    <3> QED BY <2>1, <2>4, <3>1
  <2>7. ASSUME NEW i \in DOMAIN rest PROVE rest[i] \in ToSet(shown)
    BY <2>2, <2>3, <2>5 DEF ToSet
  <2>8. o \in ToSet(shown)
    BY <2>1, <2>5 DEF ToSet
  <2>9. ToSet(shown) = {o} \cup ToSet(rest)
    BY <2>6, <2>7, <2>8 DEF ToSet
  <2> QED BY <2>1, <2>9
<1>8. ToSet(shown) \cup ToSet(removed) = RowsIn(c)
  BY <1>2, <1>3, <1>6, <1>7 DEF RowsIn, LeftIn
<1> QED BY <1>3, <1>7, <1>8 DEF active, removed, shown, rest

(***************************************************************************)
(* The theorems.                                                           *)
(***************************************************************************)

\* Every behaviour of the calls with their times is one of the store without
\* them: what is proved of ChatService holds here.
THEOREM ActivityImplementsStore == ActSpec => Spec
<1>1. ActInit => Init
  BY DEF ActInit
<1> QED BY <1>1, ActivityIsStore, PTL DEF ActSpec, Spec

\* Every call has taken its times exactly while it needs them, every message has
\* the stamp of the transaction that wrote it, and no call others come after is
\* still to commit (ChatService's const now = new Date(), $transaction).
THEOREM TimesAlwaysFit == ActSpec => []TimesInvariant
BY TimesAlways

\* Opening a conversation (orderBy createdAt) never shows a message above one of
\* a call that had committed before its own began, in whatever order the
\* transactions of overlapping calls commit.
THEOREM HistoryAlwaysKeepsCallOrder == ActSpec => []HistoryKeepsCallOrder
BY OrderAlways, OrderKeepsHistory, PTL

\* The message getConversations preloads is one that no later call has followed.
THEOREM PreviewAlwaysLatest == ActSpec => []PreviewIsLatest
BY OrderAlways, OrderKeepsPreview, PTL

\* getConversations, ordered by updatedAt, never lists a conversation below one
\* all of whose calls had committed before the last call of the former began.
THEOREM ListAlwaysRespectsCalls == ActSpec => []ListRespectsCalls
BY ListAlways, ListKeepsCalls, PTL

\* createConversation's look-up misses no pair committed before it: two DIRECT
\* conversations of two people come from calls that overlapped.
THEOREM TwinsAlwaysOverlapped == ActSpec => []TwinsOverlapped
<1>1. TwinsInvariant => TwinsOverlapped
  BY DEF TwinsInvariant
<1> QED BY <1>1, TwinsAlways, PTL

\* No message of a group contradicts one of a call that its own call comes after: a
\* text after its author's LEFT, a second LEFT, or a second JOINED, comes from a call
\* that overlapped the other, however many calls overlap.
THEOREM MessagesAlwaysTakeTurns == ActSpec => []MessagesTakeTurns
<1>1. TurnsInvariant => MessagesTakeTurns
  BY DEF TurnsInvariant
<1> QED BY <1>1, TurnsAlways, PTL

\* A group no two calls were under way on together reads as a story: nobody
\* joins who is in, nobody leaves or writes who is out.
THEOREM HistoryAlwaysConsistent == ActSpec => []HistoryIsConsistent
BY StoryAlways, StoriesAreShown, PTL

\* In whatever order the rows of participants come from the database, what
\* splitParticipants and sortParticipants make of them loses nobody, shows the
\* owner first and the others as they came.
THEOREM OwnerAlwaysFirst == ActSpec => []OwnerIsFirst
<1>1. TypeOK /\ OneOwner => OwnerIsFirst
  BY OneOwnerIsFirst DEF OwnerIsFirst
<1> QED BY <1>1, ActivityImplementsStore, TypeCorrect, OneOwnerAlways, PTL
=============================================================================
