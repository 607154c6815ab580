# A verification of specialized-messenger-backend

TLA+ models of the messenger's server, the TLC runs that check them, and
theorems about them that TLAPS proves. The server is one NestJS process in front
of a PostgreSQL database: HTTP controllers and a socket.io gateway call services,
services call Prisma, and an in-process event bus carries what the chat service
has done back to the gateway. There are no tests in the repository, so the
behaviours that tests reach last (two handlers interleaved at their awaits, a
kick that races a join, a crash between two writes) are what the models are for.

Paths below are relative to the repository; `chat.service.ts` and the like are in
`src/modules/<component>/`.

## 1. Inventory

| Component | State it keeps | Operations | Interacts with |
|---|---|---|---|
| Conversation store: `ChatService`, `ChatController`, participant id pipe | tables Conversation, ConversationParticipant, Message | createConversation, addConversationParticipants, removeConversationParticipant, createMessage, three reads | calls `UserService.getIdsByPublicIds`, starts pushes and does not wait for them, emits three events synchronously |
| WebSocket gateway: `ChatGateway`, `ChatListener`, socket guards | in process memory: socket rooms, `client.data.currentConversation` | conversation.join, conversation.leave, message.new, connection, disconnection, participant added and removed | calls ChatService and UserService, is called by the event bus |
| Presence: `UserService.markAs*`, `resetAllOnlineUsers`, `StartupService` | columns `isOnline`, `lastSeenAt` | handshake, disconnect, start-up reset | driven by the gateway and by Nest's start-up order |
| Invitations: `InvitationService`, `UserService.create` | tables Invitation, User | create, getByPublicId, acceptByPublicId | |
| Push subscriptions: `PushSubscriptionService` | table PushSubscription | create, markAsUnsubscribed, sendToUser(s), two reads | web-push, i.e. the browsers' push services |
| HTTP authentication: `AuthGuard`, `AuthService` | none | parse the header, find the user, compare the password, check the role | `UserService.getByCredentials`, and the accounts acceptances make |
| Controllers and routes | none | dispatch a request to a guard and a handler | Express, which matches routes in the order of declaration |
| Notification flag, user list | column `isNotificationsEnabled` | one write, reads | |
| Reads, orders and times: getConversations, getConversationByPublicId, `chat.utils.ts` | columns `createdAt`, `updatedAt` | shape answers | the transactions that write these columns |
| Frames to the clients: conversations.update, message.new, activeConversation.update, user.online, user.offline | what each client was last told | emitted by the gateway | rooms, and reads made at other moments than the change |
| DTO classes, validation, configuration, Prisma client, schema, migrations, seed, scripts | schema only | declarative, or run by hand | |

### What is hard in each, and what makes it correct

* **Conversation store.** Each call is a chain of awaited queries ending in a
  transaction. Between two awaits any other call may commit, and what was read is
  used anyway: an addition computes whom to revive two awaits before it revives
  them; a removal marks a row it found by id; a text is inserted on a participation
  checked earlier; a DIRECT conversation is looked up and then inserted. Correct
  means: exactly one owner, who takes part; a DIRECT conversation stays a pair; the
  system messages and the rows agree on who takes part; only an owner's removal
  takes anybody out; a committed removal is announced.
* **Gateway.** `handleJoinConversation` enters the room on a read made before an
  await; `handleSendMessage` reads socket data again after one; participant events
  overwrite lists with what an earlier read returned; and the room a join enters is
  named by the id as the client spelt it (`chat.gateway.ts:155`), all others by the one
  the database returns. Correct means: the room and `currentConversation` of a socket are
  the same conversation, and a socket with none open is in no room that is sent to;
  whoever is removed leaves the room with all tabs. Clients know of changes only by
  frames, addressed by lists that were read earlier: correct means that whoever a change
  concerns is told to load after it, and that a tab which has joined a room by the id it
  was given and then loaded the conversation misses nothing stored later.
* **Presence.** The column outlives the process, a user may have several tabs, the
  handshake outlives a client that has gone, and the port listens before the
  start-up reset. Correct means: nobody is shown online for no reason, nor
  offline beside their connections but for one, everybody goes offline in the end, and what clients show of each other is the
  column, unless frames of one user overtook each other or were lost.
* **Invitations.** Find, insert and mark are three operations. Correct means: an
  ACCEPTED invitation has made an account; an invitation with an account does not
  stay PENDING but for a failure; how many accounts one invitation can make.
* **HTTP.** A request is authenticated in steps while acceptances insert accounts; the
  header is cut at colons; routes of all controllers share one table. Correct means: a
  handler runs as a caller with that password and role; whoever signs in with the right
  credentials is only refused for a reason; a request reaches the handler it is meant
  for; an acceptance never touches an account that exists.
* **Order and times.** `createdAt` is the start of a transaction and `updatedAt` of an
  addition is taken even earlier, while transactions commit in any order. Correct means:
  what readers are shown respects the order of calls that do not overlap.
* **Push subscriptions.** Sends work on a snapshot while browsers unsubscribe or
  change hands. Correct means: only endpoints that are gone are expired, they are
  expired in the end, and nobody gets pushes that a later send addresses to
  somebody else.

`PROJECT.json` lists every hazard at its line with the properties that cover it.

## 2. Modules

| Module | Models | Rests on |
|---|---|---|
| `ChatService` | the conversation store and its four calls | |
| `ConversationLog` | abstract: a conversation is a type, an owner and a history that only grows | |
| `ChatGateway` | the gateway and the listener on top of the store | EXTENDS `ChatService` |
| `Presence` | `isOnline` through handshakes, disconnections, crashes and restarts | |
| `Invitation` | invitations and the accounts they become | |
| `PushSubscription` | subscriptions, sends and the push service | |
| `ConversationActivity` | createdAt, updatedAt, and the order of conversations, messages and participants readers see | EXTENDS `ChatService` |
| `ClientFeed` | the gateway's frames, and what clients know from them and from loading | EXTENDS `ChatGateway` |
| `PresenceFeed` | user.online, user.offline and lastSeenAt | EXTENDS `Presence` |
| `HttpApi` | routes, AuthGuard and sign-in, in front of the acceptances that make accounts | EXTENDS `Invitation` |
| `MC*` | small instances of these for TLC | |
| `ChatServiceProofs`, `ChatRosterProofs`, `ChatGatewayProofs`, `ClientFeedProofs`, `ConversationActivityProofs`, `HttpApiProofs`, `PresenceFeedProofs`, `PushSubscriptionProofs` | theorems | their modules, TLAPS |

### ChatService

`participant[c][u]` is the row unique on (conversationId, userId): its role and
whether `leavedAt` is null. `messages[c]` holds the messages of a conversation in
the order they commit. `request[r]` is a call in progress: its step and the local
variables of the handler that are used after an await.

| Action | Code |
|---|---|
| `RefuseIds` | `getIdsByPublicIds` found fewer users than asked for |
| `BeginCreate`, `CommitCreate`, `EmitCreated` | createConversation: checks and pair look-up; the nested insert; push and event |
| `BeginAdd`, `ReadLeft`, `CommitAdd`, `RereadAdd`, `EmitAdded` | addConversationParticipants: first read and checks; `existingLeft`; the transaction, rolled back by the unique index if a row appeared; `getConversationByPublicId`; push and event |
| `BeginRemove`, `CommitRemove`, `RereadRemove`, `EmitRemoved` | removeConversationParticipant, likewise |
| `BeginSend`, `CommitSend`, `ReturnMessage` | createMessage |
| `Abort` | a Prisma operation rejects, or the process dies: the call goes no further, what it has committed stays |

Every awaited operation is a step of its own. Look-ups of the constant type and role
tables belong to the step they follow: nothing changes those tables.

### ChatGateway

`socket[s]` is what the process holds for a connection: whether it is connected,
the conversation rooms it is in, and `data.currentConversation` with its copy of the
participants. A room is a conversation and a spelling of its id: `"public"` is the
database's, which leave, kick and frames use (`Room(c)`), `"other"` stands for any other
that `@IsUUID` and the look-up accept (upper case). A socket that joined by the latter
is in a room nothing is sent to, and `leaveConversation` and the kick do not take it out of
it; the next join does. `join[j]` is a `conversation.join` event whose read is awaited. Node
runs the code between two awaits without interruption, so a handler is one action
per await, and a listener's work is part of the store step that emits its event
(`HandleParticipantAdded` contains `EmitAdded`, `HandleParticipantRemoved` contains
`EmitRemoved`). `message.new` is the only source of createMessage here.

`missed` is a history variable: the sockets a removal's kick could not reach, since
their join had read but not entered, or since the removal failed before its event.

### ConversationActivity

`clock` counts the times taken. A call that has passed its checks takes the time it
writes to `updatedAt` (an addition before its read of the departed, `TakeNow`; the
others as their transaction starts), `StartTransaction` gives its messages their
`createdAt` and ids, `CommitTransaction` is the commit of `ChatService` with the two
columns. Other transactions start and commit in between. `NewestFirst`, `Preview`,
`Opened`, `ListOf` and `SortParticipants` are the reads, as operators on the columns;
`InOrder` is orderBy: a set by an order, each element at the place its predecessors leave.
`before` and `overlapped` are history: which calls had committed when one began.

`MessagesTakeTurns` is about what calls check before an await and write after it: a text
may follow its author's LEFT message, a removal be announced twice, an addition name
somebody who has joined already, but only if the two calls overlapped. It holds of
conversations on which any number of calls overlap; `HistoryIsConsistent` says more of
those on which none do.

The list is right only up to overlap: an addition's `now` (`chat.service.ts:499`) is
older than a text that commits before its transaction, and writing it moves `updatedAt`
back. `ListRespectsCalls` says exactly what is left: a conversation all of whose calls
were over before another's last call began is below it.

### ClientFeed

Every action of `ChatGateway` with the frames it sends. `stale` holds the pairs of an
open tab and a conversation that has changed since the tab was last told to load its
list; a `conversations.update` frame clears the pairs of those it reaches.
The removed user's tabs also get `conversations.remove`, at which they close it.
`loaded[s]` is the conversation a tab has joined and loaded, `unheard` what has been
stored in it since and has not been brought by `message.new` or announced by
`activeConversation.update`. `untold` is history: pairs a frame did not reach because
something was amiss that the code does not claim to handle (a failure after the commit,
a refused re-read, a sender who has moved on or whose copy of the list is old).

### Presence

`stage[s]` follows one connection from its first packet to its end. A client may
vanish during the handshake, whose middleware runs on and marks the user online.
`Listen` is apart from `ResetAllOnlineUsers`: `app.listen` initialises the
application, which registers the gateways (whose adapter opens its own port) before
it runs the hook `onApplicationBootstrap`.

### PresenceFeed

The steps of `Presence`, and an announcement for each change: its look-up of related
users is awaited, so `Announce` is a step of its own and two of them may swap.
`shown[w][u]` is what the client on socket `w` shows of `u`; a client that connects
starts from the column, which it loads with its conversations. `lastSeen` counts in runs
of the server. `garbled`, `lastOn` and `hung` are history. Who shares a conversation
with whom is the constant `Rosters`.

### HttpApi

`Routes` is the table of all controllers in the order of `AppModule`'s imports;
`Dispatch` is Express. A request goes through `Receive` (dispatch and parse),
`FindUser`, `Compare` and `Handle`, each awaited operation of the guard a step, while
`Accept` inserts users and their passwords. A login or password is the sequence of its
parts between colons, so that cutting a header at colons is visible in the model. A login
may be empty: `@IsString()` is all an acceptance asks of it, and the header cannot carry it.

### Invitation, PushSubscription

One action per awaited operation. `torn`, `overtaken` and `unmarked` are history
variables that remember failures and rows changed after they were read, so that the
properties can say exactly when their promise is off. `Drop` (the push service
drops an endpoint) is external.

## 3. Runs

All runs check deadlock: the only states without a successor would be a handler
stuck for good. A state in which every call has ended and nothing else can happen
loops explicitly (`AllAnswered`, `AllEnded`, `AllClosed`).

| Run | Instance | Checks | States |
|---|---|---|---|
| `group` | 3 users, 1 conversation, 5 calls, 3 at a time, failures | types, one owner, what calls rely on, roster against messages, DIRECT is a pair, removal announced, only owners remove, refinement of `ConversationLog` | 181 225 |
| `activity` | 2 admins, 2 conversations, 4 calls, 2 at a time, failures | messages, previews and the list keep the order of calls; messages contradict each other only if their calls overlapped; histories read as a story; twins of a DIRECT conversation overlapped; the owner is shown first | 297 544 |
| `rooms` | an owner's tab and two of a member, 2 conversations, 2 joins in any spelling, 2 calls, failures | types, room and data agree, nobody lingers, what these rest on; nobody misses a change, joined tabs miss nothing | 504 902 |
| `kick` | a member's 2 tabs, 2 joins, 2 calls, failures, fair | the removed leave in the end | 220 128 |
| `sender` | 1 tab, 1 message | finding, see below | |
| `copies` | 1 tab, 1 join, 1 call | finding | |
| `crash` | 3 connections of 2 users who share a conversation, 2 crashes, fair | types, online and offline have a reason, frames agree with the column, lastSeenAt is honest, goes offline | 117 193 |
| `tabs`, `boot` | 2 connections of 1 user | findings | |
| `accept` | 2 invitations, 3 logins, 3 passwords, 3 acceptances, 2 at a time, 1 connection, failures | accounts and statuses agree, credentials stay, requests run as their caller, the entitled are admitted | 999 723 |
| `routes` | all routes | finding | |
| `sends` | 2 users, 2 browsers, 2 sends, fair | types, expired is gone, pushes are addressed, gone is retired | 191 216 |

Each property has a mutated form of some definition (named `X_<what is wrong>`, next
to `X`) under which TLC finds it violated in the same run, so no run passes for want
of the interesting case.

**Bounds.** Every bound is a constant: `Requests`, `Joins`, `Calls`, `Sends`,
`Connections` and `Sockets` are the operations ever started, each used once (a
connection carries one request after another); `Concurrency` is how many
of them may be in progress together; `MaxCrashes` is how often the process dies.
Three overlapping calls suffice for every race of the store: two calls race on a row
and a third (a failure, or the removal of an initiator) comes between; two more calls
of the five set the scene. Two tabs tell "a tab" from "all tabs" and two
conversations tell "this room" from "some room". Two joins make one socket change its
conversation under a call, join again, or two sockets join at once. Three users are an owner and two
members. Two calls at a time suffice for the
order of times, which is about pairs of transactions; the two others of `activity` come
before and after. Three acceptances make two overlap on one login or one invitation
with a third account about; the logins and passwords hold one with a colon, one that
starts with it, an empty login and ones without. Symmetry is used for safety only, over calls,
conversations, members, invitations and tabs, which the specifications do not tell
apart; runs with liveness have none.

In `group` there is one conversation: no call touches two. `activity` has two, for the
list and for twins. `rooms`, `kick`, `sender` and `copies` start with a group that
exists already, as createConversation leaves it; `rooms` and `kick` may also create
one.

**Fairness.** `KickedInTheEnd` assumes that a database operation under way completes
and its continuation runs (weak fairness of the steps after the first of a call or a
join); clients need not do anything. `GoesOffline` assumes that a process which died
is started again, that its start-up hook completes and that a `markAsOffline` under
way completes or fails; `GoneIsRetired`, that a `markAsExpired` does. An event loop
starves no continuation, and Prisma answers or rejects, so the code gives all of
these. Clients connecting, disconnecting or sending are never fair.

## 4. Findings

* `tabs` (`OnlineWhileOpen`): closing one of two tabs shows the user offline although
  the other is open: `handleDisconnect` (`chat.gateway.ts:98`) does not ask for other
  sockets, while `chat.gateway.ts:232` allows several open tabs.
* `boot` (`ResetSparesConnected`): the start-up reset also takes off users who have
  connected since the port listens (`startup.service.ts:10`); `user.service.ts:133`
  says it is for those who hang online after a crash. They stay offline until they
  reconnect.
* `copies` (`CopiesAreCurrent`): a join that read the conversation before an addition
  or removal, and entered after its event, keeps the old participants in
  `currentConversation` (`chat.gateway.ts:149`); TODO item 7 asks that additions and
  removals update every socket's copy.
* `sender` (`SenderIsRoomed`): a leave or a kick during `createMessage` deletes what
  `handleSendMessage` reads afterwards (`chat.gateway.ts:199`): the message is stored
  and broadcast, then the handler throws, and neither the conversation lists nor the
  acknowledgement go out. `RoomedSocket` asserts that the data is there.

* `routes` (`ReachesHandler`): two GET handlers of `push-subscription.controller.ts` share
  one path; the first declared answers every request, so `getByData` (line 40), which
  CHANGELOG.md:48 announces, is never reached.

`OfflineHasReason`, which holds, says that `tabs` and `boot` are the only ways to be
shown offline beside a connection: another one has closed, or the reset came later.

Things the models show that contradict no document, stated as properties of exactly
this strength: overlapping creations may make several DIRECT conversations of a pair
(`TwinsOverlapped`); an invitation may make as many accounts as acceptances
overlap (`AccountsBoundedByOverlap`); a join may let a removed user in when it races
the kick (`NobodyLingers`, the `missed` case); a tab that joins by an id spelt otherwise
than the database spells it (upper case) is in a room nothing is sent to, hears neither
`message.new` nor `activeConversation.update`, and stays in that room when it leaves or its
user is removed, until it joins another (`RoomIsCurrent`, and the condition of
`JoinedTabMissesNothing`); a text may follow its author's LEFT message and two JOINED
messages may name one user when their calls overlap (`MessagesTakeTurns`); fresh activity
may be listed below older activity when an addition overlaps a text
(`ListRespectsCalls`); whoever has a colon in login or password, or an empty
login, can sign in but is refused by every guard (`EntitledAreAdmitted`); two frames of one user may swap, and the
start-up reset is announced to nobody (`FramesAgree`, the `garbled` case).

## 5. Proofs

TLAPS proves these for every value of the constants; every leaf is checked. The
assumptions are those on the constants (`Admins` are users, as are the members of
`Rosters`, `UserOf` maps sockets to users, `None` is not an element of the sets it is added
to, switches are Boolean, bounds are numbers, texts have a part and passwords are not
empty; in `ConversationActivity`, whose reads make lists of rows, there are finitely many
users).

* **ChatService** (`ChatServiceProofs`). `OwnersStay` is the inductive invariant
  `OwnerInvariant`: types, one owner, and for each call in progress what it has
  checked (`CallOK`): a removal's target is a member and its initiator the owner, an
  addition names no owner, a creation's identity is its own. `OneOwner` is not
  inductive without it: `CommitAdd` overwrites roles and `CommitRemove` ends a
  participation on the strength of checks made earlier. It stays true because roles
  of existing rows only ever become MEMBER for users who are not the owner
  (`ChecksStay`). `TypeCorrect`, `OneOwnerAlways` and `RemovalsAreAnnounced` follow.
  `OnlyOwnersRemove` is the action property, from `ActiveShrinks`: participants of a
  conversation shrink by the commit of a removal and no other step.
* **Rows and messages** (`ChatRosterProofs`). `RostersStay` is the inductive invariant
  `RosterInvariant`: `OwnerInvariant`; for every group, that the last JOINED or LEFT
  message about a user tells whether they take part and that whoever has a row was once
  announced (`GroupOK`); for every DIRECT conversation, that it is a pair (`PairOK`);
  and that a creation of a pair has invited one user (`PairsChecked`). It needs
  `CallOK`: an addition names no owner, so its JOINED entry and its rows change together;
  a removal's target has a row and is no owner. `AppendSays` is the lemma on what one
  more message says. `MessagesAlwaysTellRoster` and `DirectStaysPair` follow, and so does
  `StoreImplementsLog`, the refinement of `ConversationLog`: its histories only let those
  leave or write who have been let in, which is the second half of `GroupOK`, and its
  owner is the one the rows name (`OwnerNamed`, `OwnerKept`).
* **ChatGateway** (`ChatGatewayProofs`). `GatewayStays` is the inductive invariant
  `GatewayInvariant`: `OwnerInvariant`, types, room and data agree, and every socket in
  a room that is sent to and every join that has read to enter one have a right to listen
  (`MayListen`). A right is lost by the event of a removal or its failure only
  (`ListenersStay`); the event takes the sockets out, for which `RoomIsCurrent` is needed
  (the kick tests `currentConversation` to be set, and forgets it whatever conversation it
  is), and the failure is remembered. `RoomIsCurrent` itself allows for a room spelt
  otherwise: of such a socket it says that it is in no room that is sent to. `RoomsAreCurrent` and
  `NobodyStaysOn` follow. `GatewayImplementsService` says every behaviour of the
  gateway is one of `ChatService`, so that the store's theorems hold behind it.
* **ClientFeed** (`ClientFeedProofs`). `FeedImplementsGateway`: the frames change nothing
  the gateway does. `FeedImplementsLog` puts the refinements end to end: whatever frames,
  tabs, joins and failures there are, what is stored is a behaviour of `ConversationLog`.
  `JoinedTabsMissNothing`: a tab that has loaded a conversation and is not in a room spelt
  otherwise is in the room of that conversation, and what it has not heard of is stored
  by a call that is about to tell this room; `RoomIsCurrent` is
  needed when a tab loads what it has open, and `CallOK` for the conversation a call
  is about to tell of. `ChangesAreTold` (`NobodyMissesAChange`) rests on
  `ChangeInvariant`: for every tab that has not been told of a change, and about which
  history notes nothing amiss, a call is under way that will tell it (`WillTell`). Whom
  that is depends on the step: those the call has read, those it is about to read, or the
  one it has removed. Until a call ends, somebody keeps its promise: a removal that takes a
  user out of its audience takes over (`TellersStay`); a frame that ends it has kept it, or
  its omissions are noted (`FrameTells`).
* **Orders and times** (`ConversationActivityProofs`). `ActivityImplementsStore`: the times
  change nothing the store does, so that `RosterInvariant` holds. On it stands
  `TimesInvariant`: types, that a call holds a `now` and a `stamp` exactly while it needs
  them, that nobody comes after a call which has not committed, and that each message has a
  stamp. Every step is of one of four kinds (`StepKinds`): it passes by the columns, begins
  a call, takes a time, or writes. Five layers stand on that, each inductive on top of it:
  `OrderInvariant`, that a call which comes after another has a later stamp, while under way
  and in the table, hence `HistoryAlwaysKeepsCallOrder` and `PreviewAlwaysLatest`;
  `ListInvariant`, that times for `updatedAt` are pairwise different and those of a call
  that comes after all of a conversation are later than its column, hence
  `ListAlwaysRespectsCalls`; `TwinsInvariant`, that the look-up of a creation under way has
  seen every pair whose creation it comes after, hence `TwinsAlwaysOverlapped`;
  `TurnsInvariant`, that what a call under way is going to write contradicts no message of a
  call it comes after (`ReadyIn`), hence `MessagesAlwaysTakeTurns`: when it checked the rows,
  the messages agreed with them (`RosterInvariant`), and none of a call it comes after has
  been added since, though others may have; and `StoryInvariant`, that of a conversation no two calls overlapped on, what its only call
  has checked is still so, stamps do not decrease and the messages read as a story, hence
  `HistoryAlwaysConsistent`. The reads come in by `InOrderPlaces`: ordering a finite set by
  a strict total order gives every element a place, in that order.
  `OwnerAlwaysFirst` is about `chat.utils.ts`. Both of its loops are functions that recurse
  on the length of the list; that such a function exists is `Recursion`, from a least
  length at which it would not. `PushedRows` says what splitting leaves: the rows asked for,
  in their order. Since there is one owner (`RosterInvariant`), the comparator only ever
  moves the owner's row, to the front (`InsertedIs`), so that insertion by it is a sort
  (`SortedParticipants`); and the rows are all there because there are finitely many users,
  each listed once (`RowsComeAll`).
* **Presence** (`PresenceFeedProofs`). `PresenceStays` gives `OnlineAlwaysHasReason`;
  `FeedImplementsPresence` carries it over to the frames. `FramesAlwaysAgree` rests on
  `FramesInvariant`: of a user whose changes were not mixed up, clients show the column or
  the one announcement under way will make them (`Told`). `LastSeenStaysHonest` rests on
  `SeenInvariant`: a connection that is marked, open or closing was marked in this run.
  `OfflineAlwaysHasReason` is inductive once it is known that a server which is not up has
  died before (`ReasonInvariant`); markAsOffline and the reset are the two steps that give
  reasons, and both write `lastSeenAt`.
* **Invitation and HTTP** (`HttpApiProofs`). `AccountsStay`, hence
  `AcceptedAlwaysMadeAccount` and `PendingAlwaysUnused`. `AccountsAlwaysBounded` rests on
  `OverlapInvariant`: while an invitation is not ACCEPTED each of its accounts belongs to an
  acceptance that is about to mark it, and once it is, its accounts and the acceptances that
  had found it before are at most `Concurrency` together. `HttpImplementsInvitation` makes
  these hold behind the HTTP interface. `RequestsStay` is `ApiInvariant`: what each step of
  a request relies on (`RequestOK`) and that exactly the accounts which exist have a
  password; what is needed of the table of routes, that every handler for administrators
  is guarded as such, is proved controller by controller (`TableOK`), and that dispatch
  finds an entry of it by a least counterexample (`DispatchOK`). `ApiAlwaysTyped`,
  `AlwaysRunsAsCaller` and `EntitledAlwaysAdmitted` follow. `CredentialsAlwaysStay` is the
  action property of `UserService.create`'s unique login.
* **PushSubscription** (`PushSubscriptionProofs`). `SendInvariant` adds to the properties
  that the rows a send has read exist for ever and only endpoints that are gone wait to be
  marked; hence `OnlyGoneExpires` and `PushesAreAddressed`.

Only model-checked: liveness (`KickedInTheEnd`, `GoesOffline`, `GoneIsRetired`), which
is out of this prover's reach. Every safety and action property that a passing run checks
is a theorem.

## 6. Abstractions

* A Prisma query or `$transaction` is one atomic step. PostgreSQL runs overlapping
  transactions under READ COMMITTED; what that adds, that transactions take their times
  at their start and commit in another order, is `ConversationActivity`.
* One `createMany` of SYSTEM_USER_JOINED messages is one entry that names a set of users.
  Texts have no content. `joinedAt` and `leavedAt` are only shown; of `leavedAt` the models
  keep whether it is null.
* `createdAt` and the id that breaks its ties are one number: they are drawn together, and
  calls that do not overlap never draw the same. The preloaded window is one message.
* Clients are modelled as far as the frames ask something of them: they load when told
  to, and a tab loads a conversation once its join is acknowledged. Who receives which push
  is left out; `PushSubscription` takes any set of users as addressees.
* In `PresenceFeed` who shares a conversation with whom does not change.
* A socket's guard and its handler are one step: nothing is awaited in the guards but a
  resolved promise. Sockets without a user are left out of the gateway's model: they enter no
  room and pass no guard. What they can do is to end the process: a `client.disconnect()`
  in the handshake comes before the connection is established and closes nothing yet, and
  `handleConnection` or `handleDisconnect` of such a socket reads the id of a user it does not
  have. `Presence`'s crash, at any moment, stands for that.
* All spellings of an id but the database's are alike. They differ in no handler: nothing is
  sent to any of their rooms, and every join leaves all of them.
* Acceptances do not choose the administrator's login (`Root`): it is taken from the
  start, and such an acceptance fails like any other whose login is taken. Passwords are
  compared as they are; bcrypt compares their first 72 bytes.
* Calls of the store come from any user (for createConversation: any admin) with any
  arguments the validation lets through. `HttpApi` shows that a handler runs as a caller
  with that right.
* The process dying is one `Abort` per call and one `Disconnect` per socket in the
  gateway's model, at any moments; `Presence` has it as one step.
* History variables (`missed`, `torn`, `overtaken`, `unmarked`, `before`, `overlapped`,
  `stale`, `untold`, `unheard`, `garbled`, `lastOn`, `hung`, `known`) only remember: no guard
  of a step of the server reads them.

Not modelled: DTO classes and validation (conversions and declarations no property tells
apart); configuration, the Prisma client and the wiring (declarative; their effects, the
order of start-up and of routes, are in `Presence` and `HttpApi`); the notification flag
(one write of one row that no code of the server reads); migrations, seed and bundling
scripts (run by hand, statement after statement, on an empty database or on source
files). `PROJECT.json` lists each.

## 7. Plan

Done: the store and its abstract log, the gateway, presence, invitations and pushes; then
times and orders, the frames to the clients, the frames of presence, and the HTTP
interface; proofs of all safety and action properties of the passing runs.

Left: `PresenceFeed` with rosters that change, composed with the store.
