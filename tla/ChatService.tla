----------------------------- MODULE ChatService -----------------------------
(***************************************************************************)
(* The conversation store and the calls of ChatService that change it:     *)
(* createConversation, addConversationParticipants,                        *)
(* removeConversationParticipant and createMessage.                        *)
(*                                                                         *)
(* The calls run interleaved in one Node process and share a database.     *)
(* Every awaited Prisma operation (one query, or one $transaction) is one  *)
(* atomic step; between two of them any other call may run.  What a call   *)
(* has read so far lives in its own record, request[r], and may be stale   *)
(* by the time it is used.  The lookups of the immutable type and role     *)
(* tables are part of the step they follow.                                *)
(*                                                                         *)
(* A call is used once: Requests is the set of calls ever made.            *)
(***************************************************************************)
EXTENDS Naturals, Sequences, FiniteSets

CONSTANTS
  Users,          \* every registered user; accounts are never deleted
  Admins,         \* the users whose role lets them create conversations
  Conversations,  \* identities a new conversation may get
  Requests,       \* the calls made to the service
  Concurrency,    \* bound: how many calls may be in progress together
  Failures,       \* whether awaited operations may fail
  None            \* no user, no conversation

ASSUME AdminsAssumption == Admins \subseteq Users
ASSUME FailuresAssumption == Failures \in BOOLEAN

VARIABLES
  kind,         \* kind[c]: "NONE" until c is inserted, then its type
  participant,  \* participant[c][u]: the row unique on (conversationId, userId)
  messages,     \* messages[c]: the messages of c in the order they commit
  request       \* request[r]: how far call r is, and what it has read

store == <<kind, participant, messages>>
vars == <<kind, participant, messages, request>>

(***************************************************************************)
(* Rows.  active is leavedAt = null; a user with role "NONE" has no row.   *)
(***************************************************************************)
NoRow == [role |-> "NONE", active |-> FALSE]
Row == {NoRow} \cup [role : {"OWNER", "MEMBER"}, active : BOOLEAN]
OwnerRow == [role |-> "OWNER", active |-> TRUE]
MemberRow == [role |-> "MEMBER", active |-> TRUE]

RowsIn(c) == {u \in Users : participant[c][u].role # "NONE"}
ActiveIn(c) == {u \in Users : participant[c][u].active}
LeftIn(c) == RowsIn(c) \ ActiveIn(c)
OwnersIn(c) == {u \in Users : participant[c][u].role = "OWNER"}

(***************************************************************************)
(* Messages.  One createMany of SYSTEM_USER_JOINED rows is one entry that  *)
(* names all the users it is about.                                        *)
(***************************************************************************)
Message == [type : {"CREATED", "JOINED", "LEFT", "TEXT"}, users : SUBSET Users]
Entry(type, users) == [type |-> type, users |-> users]

(***************************************************************************)
(* Calls.                                                                  *)
(***************************************************************************)
Steps == {"idle", "ended",
          "create.checked", "create.committed",
          "add.checked", "add.split", "add.committed", "add.reread",
          "remove.checked", "remove.committed", "remove.reread",
          "send.checked", "send.committed"}

Request == [step  : Steps,
            by    : Users \cup {None},          \* initiator, owner or author
            conv  : Conversations \cup {None},
            kind  : {"NONE", "DIRECT", "GROUP"},
            users : SUBSET Users,               \* whom the call is about
            left  : SUBSET Users,               \* toUpdate of an addition
            seen  : SUBSET Users]               \* active participants it read last

Idle == [step |-> "idle", by |-> None, conv |-> None, kind |-> "NONE",
         users |-> {}, left |-> {}, seen |-> {}]
Ended == [Idle EXCEPT !.step = "ended"]
Call(step, i, c, k, us) ==
  [step |-> step, by |-> i, conv |-> c, kind |-> k,
   users |-> us, left |-> {}, seen |-> {}]

At(r, step) == request[r].step = step
InFlight == {r \in Requests : request[r].step \notin {"idle", "ended"}}
CanBegin(r) == At(r, "idle") /\ Cardinality(InFlight) < Concurrency

\* Call r goes on with record q.
Becomes(r, q) == request' = [request EXCEPT ![r] = q]

\* Call r goes on with record q if the condition it has just checked holds,
\* and is refused (the handler throws, nothing was written) otherwise.
Proceed(r, condition, q) == Becomes(r, IF condition THEN q ELSE Ended)

Existing == {c \in Conversations : kind[c] # "NONE"}

Init ==
  /\ kind = [c \in Conversations |-> "NONE"]
  /\ participant = [c \in Conversations |-> [u \in Users |-> NoRow]]
  /\ messages = [c \in Conversations |-> << >>]
  /\ request = [r \in Requests |-> Idle]

(***************************************************************************)
(* getIdsByPublicIds finds fewer users than it was given public ids (one   *)
(* is unknown, or given twice): both calls that take a list are refused.   *)
(***************************************************************************)
RefuseIds(r) ==
  /\ CanBegin(r)
  /\ Becomes(r, Ended)
  /\ UNCHANGED store

-----------------------------------------------------------------------------
(***************************************************************************)
(* createConversation.  Only an admin reaches it; a DIRECT conversation    *)
(* takes exactly one other user and the creator is never in the list.      *)
(***************************************************************************)
Invitees(i, k) ==
  IF k = "DIRECT" THEN {{u} : u \in Users \ {i}} ELSE SUBSET (Users \ {i})

\* findFirst: a DIRECT conversation whose participants are these, all active.
DirectExists(pair) ==
  \E c \in Conversations :
    /\ kind[c] = "DIRECT"
    /\ pair \subseteq ActiveIn(c)
    /\ RowsIn(c) \subseteq pair \cap ActiveIn(c)

\* Mutated form: the look-up for an existing pair is forgotten.
CreateAccepts_NoLookup(i, k, us) == TRUE

CreateAccepts(i, k, us) == k = "DIRECT" => ~DirectExists(us \cup {i})

\* Mutated form: two creations may draw the same identity.
Fresh_AnyUnused(c) == kind[c] = "NONE"

\* An identity no conversation has and no other creation has drawn (uuidv7).
Fresh(c) == /\ kind[c] = "NONE"
            /\ \A r \in Requests : ~(At(r, "create.checked") /\ request[r].conv = c)

BeginCreate(r) ==
  /\ CanBegin(r)
  /\ \E i \in Admins, k \in {"DIRECT", "GROUP"}, c \in Conversations :
       \E us \in Invitees(i, k) :
         /\ Fresh(c)
         /\ Proceed(r, CreateAccepts(i, k, us), Call("create.checked", i, c, k, us))
  /\ UNCHANGED store

InitialRows(i, us) ==
  [u \in Users |-> IF u = i THEN OwnerRow ELSE IF u \in us THEN MemberRow ELSE NoRow]

InitialMessages(k, us) ==
  <<Entry("CREATED", {})>>
    \o (IF k = "GROUP" /\ us # {} THEN <<Entry("JOINED", us)>> ELSE << >>)

\* conversation.create with its nested rows: one insert, all or nothing.
CommitCreate(r) ==
  LET q == request[r] IN
  /\ At(r, "create.checked")
  /\ kind' = [kind EXCEPT ![q.conv] = q.kind]
  /\ participant' = [participant EXCEPT ![q.conv] = InitialRows(q.by, q.users)]
  /\ messages' = [messages EXCEPT ![q.conv] = InitialMessages(q.kind, q.users)]
  /\ Becomes(r, [q EXCEPT !.step = "create.committed", !.seen = q.users \cup {q.by}])

\* Pushes to the invited users, then CONVERSATION_CREATED; the call returns.
EmitCreated(r) ==
  /\ At(r, "create.committed")
  /\ Becomes(r, Ended)
  /\ UNCHANGED store

-----------------------------------------------------------------------------
(***************************************************************************)
(* addConversationParticipants.                                            *)
(***************************************************************************)
\* Mutated form: the type of the conversation is not looked at.
AddAccepts_AnyType(c, i, us) ==
  /\ i \in ActiveIn(c)
  /\ us \cap ActiveIn(c) = {}

AddAccepts(c, i, us) ==
  /\ i \in ActiveIn(c)
  /\ kind[c] = "GROUP"
  /\ us \cap ActiveIn(c) = {}

BeginAdd(r) ==
  /\ CanBegin(r)
  /\ \E i \in Users, c \in Existing, us \in (SUBSET Users) \ {{}} :
       Proceed(r, AddAccepts(c, i, us), Call("add.checked", i, c, "NONE", us))
  /\ UNCHANGED store

\* existingLeft: which of the users have a row to revive; the others get one.
ReadLeft(r) ==
  LET q == request[r] IN
  /\ At(r, "add.checked")
  /\ Becomes(r, [q EXCEPT !.step = "add.split", !.left = q.users \cap LeftIn(q.conv)])
  /\ UNCHANGED store

\* Mutated form: updateMany forgets leavedAt = null.
RowsAfterAdd_StillLeft(c, us) ==
  [u \in Users |-> IF u \in us \ RowsIn(c) THEN MemberRow ELSE participant[c][u]]

\* Mutated form: the participants are set to the added users, not extended.
RowsAfterAdd_OnlyAdded(c, us) == [u \in us |-> MemberRow]

\* The rows after createMany and updateMany, whose filter has no leavedAt.
RowsAfterAdd(c, us) ==
  [u \in Users |-> IF u \in us THEN MemberRow ELSE participant[c][u]]

\* The transaction.  A user to create who has a row by now violates the unique
\* index, and everything in the transaction is rolled back.
CommitAdd(r) ==
  LET q == request[r] IN
  /\ At(r, "add.split")
  /\ IF (q.users \ q.left) \cap RowsIn(q.conv) = {}
     THEN /\ participant' = [participant EXCEPT ![q.conv] = RowsAfterAdd(q.conv, q.users)]
          /\ messages' = [messages EXCEPT ![q.conv] = Append(@, Entry("JOINED", q.users))]
          /\ Becomes(r, [q EXCEPT !.step = "add.committed"])
          /\ UNCHANGED kind
     ELSE /\ Becomes(r, Ended)
          /\ UNCHANGED store

-----------------------------------------------------------------------------
(***************************************************************************)
(* removeConversationParticipant.                                          *)
(***************************************************************************)
\* Mutated form: the owner may remove themselves.
RemoveAccepts_SelfToo(c, i, t) ==
  /\ i \in ActiveIn(c)
  /\ t \in ActiveIn(c)
  /\ kind[c] = "GROUP"
  /\ participant[c][i].role = "OWNER"

\* Mutated form: any participant may remove another.
RemoveAccepts_AnyRole(c, i, t) ==
  /\ i \in ActiveIn(c)
  /\ t \in ActiveIn(c)
  /\ kind[c] = "GROUP"
  /\ t # i

RemoveAccepts(c, i, t) ==
  /\ i \in ActiveIn(c)
  /\ t \in ActiveIn(c)
  /\ kind[c] = "GROUP"
  /\ participant[c][i].role = "OWNER"
  /\ t # i

BeginRemove(r) ==
  /\ CanBegin(r)
  /\ \E i \in Users, c \in Existing, t \in Users :
       Proceed(r, RemoveAccepts(c, i, t), Call("remove.checked", i, c, "NONE", {t}))
  /\ UNCHANGED store

Departed(row) == [role |-> row.role, active |-> FALSE]

RowsAfterRemove(c, us) ==
  [u \in Users |-> IF u \in us THEN Departed(participant[c][u]) ELSE participant[c][u]]

\* The row is found by its id alone: it may have been left since the check.
CommitRemove(r) ==
  LET q == request[r] IN
  /\ At(r, "remove.checked")
  /\ participant' = [participant EXCEPT ![q.conv] = RowsAfterRemove(q.conv, q.users)]
  /\ messages' = [messages EXCEPT ![q.conv] = Append(@, Entry("LEFT", q.users))]
  /\ Becomes(r, [q EXCEPT !.step = "remove.committed"])
  /\ UNCHANGED kind

-----------------------------------------------------------------------------
(***************************************************************************)
(* getConversationByPublicId, as an addition and a removal call it after   *)
(* their transaction, on behalf of the initiator; then the pushes and the  *)
(* event, which carry what that read returned.                             *)
(***************************************************************************)
Reread(r, committed, reread) ==
  LET q == request[r] IN
  /\ At(r, committed)
  /\ Proceed(r, q.by \in ActiveIn(q.conv),
             [q EXCEPT !.step = reread, !.seen = ActiveIn(q.conv)])
  /\ UNCHANGED store

RereadAdd(r) == Reread(r, "add.committed", "add.reread")
RereadRemove(r) == Reread(r, "remove.committed", "remove.reread")

EmitAdded(r) ==
  /\ At(r, "add.reread")
  /\ Becomes(r, Ended)
  /\ UNCHANGED store

EmitRemoved(r) ==
  /\ At(r, "remove.reread")
  /\ Becomes(r, Ended)
  /\ UNCHANGED store

-----------------------------------------------------------------------------
(***************************************************************************)
(* createMessage, for a text of user u.                                    *)
(***************************************************************************)
\* Mutated forms: the row is looked up without leavedAt = null, or not at all.
SendAccepts_LeftToo(c, u) == u \in RowsIn(c)
SendAccepts_Anyone(c, u) == TRUE

SendAccepts(c, u) == u \in ActiveIn(c)

StartSend(r, u, c) ==
  /\ CanBegin(r)
  /\ Proceed(r, SendAccepts(c, u), Call("send.checked", u, c, "NONE", {}))
  /\ UNCHANGED store

BeginSend(r) == \E u \in Users, c \in Existing : StartSend(r, u, c)

\* The transaction inserts the text without looking at the author's row again,
\* and returns the participants to push to.
CommitSend(r) ==
  LET q == request[r] IN
  /\ At(r, "send.checked")
  /\ messages' = [messages EXCEPT ![q.conv] = Append(@, Entry("TEXT", {q.by}))]
  /\ Becomes(r, [q EXCEPT !.step = "send.committed", !.seen = ActiveIn(q.conv)])
  /\ UNCHANGED <<kind, participant>>

ReturnMessage(r) ==
  /\ At(r, "send.committed")
  /\ Becomes(r, Ended)
  /\ UNCHANGED store

-----------------------------------------------------------------------------
\* An awaited operation rejects, its answer is lost, or the process dies: the
\* call goes no further, and what it has committed stays.
Abort(r) ==
  /\ Failures
  /\ r \in InFlight
  /\ Becomes(r, Ended)
  /\ UNCHANGED store

BeginHttp(r) == RefuseIds(r) \/ BeginCreate(r) \/ BeginAdd(r) \/ BeginRemove(r)
Begin(r) == BeginHttp(r) \/ BeginSend(r)

\* The steps that use the database, and those that answer and emit events.
Work(r) ==
  \/ CommitCreate(r)
  \/ ReadLeft(r) \/ CommitAdd(r) \/ RereadAdd(r)
  \/ CommitRemove(r) \/ RereadRemove(r)
  \/ CommitSend(r)
Answer(r) == EmitCreated(r) \/ EmitAdded(r) \/ EmitRemoved(r) \/ ReturnMessage(r)
Continue(r) == Work(r) \/ Answer(r)

AllAnswered ==
  /\ \A r \in Requests : At(r, "ended")
  /\ UNCHANGED vars

Next == (\E r \in Requests : Begin(r) \/ Continue(r) \/ Abort(r)) \/ AllAnswered

Spec == Init /\ [][Next]_vars

-----------------------------------------------------------------------------
(***************************************************************************)
(* Properties.                                                             *)
(***************************************************************************)

\* Every variable keeps its type: the rows, messages and calls of the schema.
TypeOK ==
  /\ kind \in [Conversations -> {"NONE", "DIRECT", "GROUP"}]
  /\ participant \in [Conversations -> [Users -> Row]]
  /\ messages \in [Conversations -> Seq(Message)]
  /\ request \in [Requests -> Request]

\* A conversation has exactly one owner, who still takes part: no interleaving
\* of additions (whose updateMany makes every revived row a MEMBER) and
\* removals demotes, duplicates or expels the owner.
OneOwner ==
  \A c \in Existing : \E o \in Users : OwnersIn(c) = {o} /\ participant[c][o].active

IsAbout(c, i, type, u) == messages[c][i].type = type /\ u \in messages[c][i].users

\* The last thing the messages of c say about u is that u joined.
SaysIn(c, u) ==
  \E i \in DOMAIN messages[c] :
    /\ IsAbout(c, i, "JOINED", u)
    /\ \A j \in DOMAIN messages[c] : j > i => ~IsAbout(c, j, "LEFT", u)

\* In a group the system messages tell the truth: a user other than the owner
\* takes part exactly when the last JOINED or LEFT message about them is a
\* JOINED, whatever additions and removals of them overlapped or rolled back.
MessagesTellRoster ==
  \A c \in Conversations : kind[c] = "GROUP" =>
    \A u \in Users \ OwnersIn(c) : u \in ActiveIn(c) <=> SaysIn(c, u)

\* A DIRECT conversation is two people for ever: calls for groups, stale or
\* not, never let anyone into it or out of it.
DirectIsPair ==
  \A c \in Conversations : kind[c] = "DIRECT" =>
    /\ \E a, b \in Users : a # b /\ RowsIn(c) = {a, b} /\ ActiveIn(c) = {a, b}
    /\ \A i \in DOMAIN messages[c] : messages[c][i].type \in {"CREATED", "TEXT"}

\* Once a removal has committed, its re-read cannot refuse the initiator, so
\* nothing but a failure keeps CONVERSATION_PARTICIPANT_REMOVED from going out.
\* (An addition has no such guarantee: its initiator may be removed meanwhile.)
RemovalIsAnnounced ==
  \A r \in Requests :
    At(r, "remove.committed") => request[r].by \in ActiveIn(request[r].conv)

Expels(r, c, u) ==
  /\ At(r, "remove.checked") /\ request'[r].step = "remove.committed"
  /\ request[r].conv = c /\ request[r].users = {u}
  /\ request[r].by \in OwnersIn(c)

\* A user stops taking part only by the commit of a removal of that very user,
\* made by someone who owns the conversation at that moment.
OnlyOwnerRemoves ==
  [][\A c \in Conversations, u \in Users :
       u \in ActiveIn(c) /\ u \notin ActiveIn(c)' => \E r \in Requests : Expels(r, c, u)]_vars

(***************************************************************************)
(* Why OneOwner and RemovalIsAnnounced hold: what a call has checked about *)
(* owners and rows stays true until it commits, since nothing deletes a    *)
(* row, changes an owner or touches a conversation not yet inserted.       *)
(***************************************************************************)
CallOK(q) ==
  /\ q.step \notin {"idle", "ended"} => q.by \in Users /\ q.conv \in Conversations
  /\ q.step = "create.checked" =>
       /\ kind[q.conv] = "NONE"
       /\ q.kind \in {"DIRECT", "GROUP"} /\ q.by \notin q.users
  /\ q.step \in {"add.checked", "add.split"} =>
       /\ kind[q.conv] = "GROUP"
       /\ q.users # {} /\ q.users \cap OwnersIn(q.conv) = {}
  /\ q.step \in {"remove.checked", "remove.committed"} =>
       /\ kind[q.conv] = "GROUP"
       /\ q.by \in OwnersIn(q.conv)
       /\ \E t \in RowsIn(q.conv) \ OwnersIn(q.conv) : q.users = {t}
  /\ q.step = "send.checked" =>
       kind[q.conv] # "NONE" /\ q.by \in RowsIn(q.conv)

CreatesApart ==
  \A r, s \in Requests :
    /\ At(r, "create.checked") /\ At(s, "create.checked")
    /\ request[r].conv = request[s].conv
    => r = s

\* What every call in progress relies on: the conversation it names exists (or,
\* for a creation, does not and is no other's), whom it removes is a member and
\* whom it adds is not the owner.
OwnerInvariant ==
  /\ TypeOK
  /\ OneOwner
  /\ \A r \in Requests : CallOK(request[r])
  /\ CreatesApart

(***************************************************************************)
(* The store implements ConversationLog: calls, rows and roll-backs apart, *)
(* each conversation only ever appends whole events to its history.        *)
(***************************************************************************)
OwnerOf(c) == IF kind[c] = "NONE" THEN None ELSE CHOOSE o \in Users : o \in OwnersIn(c)

Log == INSTANCE ConversationLog
         WITH owner <- [c \in Conversations |-> OwnerOf(c)], log <- messages

\* Every behaviour of the calls is one of the abstract history.
ImplementsLog == Log!Spec
=============================================================================
