------------------------ MODULE ConversationActivity ------------------------
(***************************************************************************)
(* When things happened, as far as the store records it, and what readers  *)
(* are shown on the strength of it: the list of conversations by updatedAt *)
(* and the messages by createdAt, composed with the calls of ChatService.  *)
(*                                                                         *)
(* A transaction takes its times when it starts and takes effect when it   *)
(* commits; overlapping ones (PostgreSQL runs them under READ COMMITTED)   *)
(* may commit in the other order.  An addition takes the time it writes to *)
(* updatedAt even earlier, before its read of the departed participants.   *)
(* createdAt and the id that breaks its ties are drawn together: they are  *)
(* one number here, and calls that do not overlap never get the same one.  *)
(***************************************************************************)
EXTENDS ChatService, SequencesExt

ASSUME UsersAssumption == IsFiniteSet(Users)

VARIABLES
  clock,       \* how often a time has been taken
  now,         \* now[r]: the updatedAt call r is going to write, or 0
  stamp,       \* stamp[r]: when the transaction of r started, or 0
  wrote,       \* wrote[c][i]: the stamp of messages[c][i], and history: its call
  updatedAt,   \* updatedAt[c]: the column
  before,      \* history: before[r]: the calls that had committed when r began
  overlapped   \* history: conversations two calls were under way on together

times == <<clock, now, stamp, wrote, updatedAt>>
activity == <<times, before, overlapped>>
actvars == <<vars, activity>>

ActInit ==
  /\ Init
  /\ clock = 0
  /\ now = [r \in Requests |-> 0]
  /\ stamp = [r \in Requests |-> 0]
  /\ wrote = [c \in Conversations |-> << >>]
  /\ updatedAt = [c \in Conversations |-> 0]
  /\ before = [r \in Requests |-> {}]
  /\ overlapped = {}

WritersOf(c) == {wrote[c][i].call : i \in DOMAIN wrote[c]}
Committed == UNION {WritersOf(c) : c \in Conversations}

\* A call begins; history notes what it comes after and what it runs beside.
BeginCall(r) ==
  /\ Begin(r)
  /\ before' = [before EXCEPT ![r] = Committed]
  /\ overlapped' = overlapped \cup
       ({request[q].conv : q \in InFlight} \cap {request'[r].conv})
  /\ UNCHANGED times

\* const now = new Date(), in an addition that has passed its checks.
TakeNow(r) ==
  /\ At(r, "add.checked") /\ now[r] = 0
  /\ clock' = clock + 1
  /\ now' = [now EXCEPT ![r] = clock']
  /\ UNCHANGED <<vars, stamp, wrote, updatedAt, before, overlapped>>

ReadLeftAfterNow(r) == now[r] # 0 /\ ReadLeft(r) /\ UNCHANGED activity

\* The transaction begins: its messages get their createdAt and ids, and all
\* calls but an addition have just taken the time for updatedAt.
StartTransaction(r) ==
  /\ request[r].step \in {"create.checked", "add.split", "remove.checked", "send.checked"}
  /\ stamp[r] = 0
  /\ clock' = clock + 1
  /\ stamp' = [stamp EXCEPT ![r] = clock']
  /\ now' = [now EXCEPT ![r] = IF At(r, "add.split") THEN @ ELSE clock']
  /\ UNCHANGED <<vars, wrote, updatedAt, before, overlapped>>

\* Mutated form: a removal does not touch the conversation.
Touched_NotByRemoval(r, c) ==
  [updatedAt EXCEPT ![c] = IF At(r, "remove.checked") THEN @ ELSE now[r]]

\* conversation.update in the transaction, or the insert of the conversation.
Touched(r, c) == [updatedAt EXCEPT ![c] = now[r]]

\* The transaction commits.  An addition that is rolled back leaves no trace.
CommitTransaction(r) ==
  LET c == request[r].conv
      n == Len(messages'[c]) - Len(messages[c])
  IN
  /\ stamp[r] # 0
  /\ CommitCreate(r) \/ CommitAdd(r) \/ CommitRemove(r) \/ CommitSend(r)
  /\ updatedAt' = IF n = 0 THEN updatedAt ELSE Touched(r, c)
  /\ wrote' = [wrote EXCEPT ![c] = @ \o [i \in 1 .. n |-> [call |-> r, stamp |-> stamp[r]]]]
  /\ now' = [now EXCEPT ![r] = 0]
  /\ stamp' = [stamp EXCEPT ![r] = 0]
  /\ UNCHANGED <<clock, before, overlapped>>

FinishCall(r) ==
  /\ RereadAdd(r) \/ RereadRemove(r) \/ Answer(r)
  /\ UNCHANGED activity

AbortCall(r) ==
  /\ Abort(r)
  /\ now' = [now EXCEPT ![r] = 0]
  /\ stamp' = [stamp EXCEPT ![r] = 0]
  /\ UNCHANGED <<clock, wrote, updatedAt, before, overlapped>>

ActNext ==
  \/ \E r \in Requests :
       \/ BeginCall(r) \/ TakeNow(r) \/ ReadLeftAfterNow(r)
       \/ StartTransaction(r) \/ CommitTransaction(r) \/ FinishCall(r) \/ AbortCall(r)
  \/ AllAnswered /\ UNCHANGED activity

ActSpec == ActInit /\ [][ActNext]_actvars

-----------------------------------------------------------------------------
(***************************************************************************)
(* What readers are shown.  Messages are named by their place in messages. *)
(***************************************************************************)
\* orderBy: the set S by the order R, each element after those that precede it.
InOrder(S, R) ==
  [n \in 1 .. Cardinality(S) |->
     CHOOSE x \in S : Cardinality({y \in S : <<y, x>> \in R}) = n - 1]

IsNewer(c, i, j) ==
  \/ wrote[c][i].stamp > wrote[c][j].stamp
  \/ wrote[c][i].stamp = wrote[c][j].stamp /\ i > j

\* orderBy createdAt desc, id desc.
NewestFirst(c) ==
  LET places == DOMAIN messages[c]
  IN InOrder(places, {p \in places \X places : IsNewer(c, p[1], p[2])})

PRELOAD_MESSAGES_COUNT == 1

\* Mutated forms: the newest message comes first, or the oldest is preloaded.
Opened_NotReversed(c) == NewestFirst(c)
Preview_Oldest(c) == SubSeq(Reverse(NewestFirst(c)), 1, PRELOAD_MESSAGES_COUNT)

\* The messages of an opened conversation, and those preloaded into the list.
Opened(c) == Reverse(NewestFirst(c))
Preview(c) == Reverse(SubSeq(NewestFirst(c), 1, PRELOAD_MESSAGES_COUNT))

\* getConversations: those u takes part in, orderBy updatedAt desc.
ListOf(u) ==
  LET listed == {c \in Existing : u \in ActiveIn(c)}
  IN InOrder(listed, {p \in listed \X listed : updatedAt[p[1]] > updatedAt[p[2]]})

\* splitParticipants pushes the rows of each kind in turn, here those of set S.
Pushed(rows, S) ==
  LET list[n \in 0 .. Len(rows)] ==
        IF n = 0 THEN << >>
        ELSE IF rows[n] \in S THEN Append(list[n - 1], rows[n]) ELSE list[n - 1]
  IN list[Len(rows)]

ActiveParticipants(c, rows) == Pushed(rows, ActiveIn(c))
RemovedParticipants(c, rows) == Pushed(rows, LeftIn(c))

\* Mutated form: the line for an owner on the left is missing.
Precedes_NoLeftCase(c, a, b) == FALSE

\* The comparator of sortParticipants is negative: a goes before b.
Precedes(c, a, b) == participant[c][a].role = "OWNER"

\* Array.sort, by insertion: each element in turn goes before the first it
\* precedes, after all it does not.
Inserted(c, sorted, u) ==
  LET n == SelectInSeq(sorted, LAMBDA v : Precedes(c, u, v))
  IN IF n = 0 THEN Append(sorted, u) ELSE InsertAt(sorted, n, u)

SortParticipants(c, list) ==
  LET sorted[n \in 0 .. Len(list)] ==
        IF n = 0 THEN << >> ELSE Inserted(c, sorted[n - 1], list[n])
  IN sorted[Len(list)]

-----------------------------------------------------------------------------
(***************************************************************************)
(* Properties.  Calls overlap, so the order of what is shown is a matter   *)
(* of choice; it must respect the order of calls that do not overlap.      *)
(***************************************************************************)
\* Call q began after call r had committed.
ComesAfter(q, r) == r \in before[q]

\* Opening a conversation never shows a message above one of a call that had
\* committed before the message's own call began: createdAt is taken at the
\* start of transactions that commit in any order, but inside their calls.
HistoryKeepsCallOrder ==
  \A c \in Existing : \A i, j \in DOMAIN Opened(c) :
    i < j => ~ComesAfter(wrote[c][Opened(c)[i]].call, wrote[c][Opened(c)[j]].call)

\* The list shows of each conversation a message no later call has followed.
PreviewIsLatest ==
  \A c \in Existing : \A i \in DOMAIN Preview(c) :
    \A q \in WritersOf(c) : ~ComesAfter(q, wrote[c][Preview(c)[i]].call)

\* A conversation whose last call began when everything in another had been
\* committed is listed above it: no overlap of calls, whose updatedAt may move
\* back, hides fresh activity below stale.
ListRespectsCalls ==
  \A u \in Users : \A i, j \in DOMAIN ListOf(u) :
    i < j => \E q \in WritersOf(ListOf(u)[i]) :
               ~ComesAfter(Last(wrote[ListOf(u)[j]]).call, q)

Says(m, type, u) == m.type = type /\ u \in m.users

WasIn(h, u, n) ==
  \E i \in 1 .. n : /\ Says(h[i], "JOINED", u)
                    /\ \A j \in i + 1 .. n : ~Says(h[j], "LEFT", u)

\* What a message says of a user, and what an earlier one has said, agree only if
\* one of the third type has come between them.
Turns ==
  {[says |-> "LEFT", said |-> "LEFT", between |-> "JOINED"],
   [says |-> "TEXT", said |-> "LEFT", between |-> "JOINED"],
   [says |-> "JOINED", said |-> "JOINED", between |-> "LEFT"]}

\* No message of a group contradicts one of a call that its own call comes after:
\* whoever leaves or writes, or joins, after having left, or joined, has joined, or
\* left, in between.  So a text follows its author's departure, a second departure
\* the first, or one addition another, only if their calls overlapped.
MessagesTakeTurns ==
  \A c \in Existing : kind[c] = "GROUP" =>
    \A n \in DOMAIN messages[c], u \in Users \ OwnersIn(c), t \in Turns : \A d \in 1 .. n - 1 :
      /\ ComesAfter(wrote[c][n].call, wrote[c][d].call)
      /\ Says(messages[c][n], t.says, u) /\ Says(messages[c][d], t.said, u)
      => \E i \in d + 1 .. n - 1 : Says(messages[c][i], t.between, u)

\* A group no two calls were under way on together reads as a story: nobody
\* joins who is in, nobody leaves or writes who is out.  (Overlapping calls break
\* this: two additions announce one user, a text may follow its author's LEFT.)
HistoryIsConsistent ==
  \A c \in Existing \ overlapped : kind[c] = "GROUP" =>
    LET h == [i \in DOMAIN Opened(c) |-> messages[c][Opened(c)[i]]] IN
    \A n \in DOMAIN h, u \in Users \ OwnersIn(c) :
      /\ Says(h[n], "JOINED", u) => ~WasIn(h, u, n - 1)
      /\ Says(h[n], "LEFT", u) => WasIn(h, u, n - 1)
      /\ Says(h[n], "TEXT", u) => WasIn(h, u, n - 1)

\* Two people have two DIRECT conversations only if these were created by calls
\* that overlapped: the look-up misses no pair committed before it.
TwinsOverlapped ==
  \A c, d \in Existing :
    c # d /\ kind[c] = "DIRECT" /\ kind[d] = "DIRECT" /\ RowsIn(c) = RowsIn(d) =>
      ~ComesAfter(wrote[c][1].call, wrote[d][1].call)

\* However the rows come from the database, the owner is shown first and nobody
\* is lost: the comparator is only consistent as there is one owner.
OwnerIsFirst ==
  \A c \in Existing : \A rows \in SetToSeqs(RowsIn(c)) :
    LET active == ActiveParticipants(c, rows)
        shown == SortParticipants(c, active)
    IN /\ shown[1] \in OwnersIn(c)
       /\ ToSet(shown) \cup ToSet(RemovedParticipants(c, rows)) = RowsIn(c)
       /\ Tail(shown) = Pushed(active, Users \ {shown[1]})
=============================================================================
