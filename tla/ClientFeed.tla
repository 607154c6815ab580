----------------------------- MODULE ClientFeed -----------------------------
(***************************************************************************)
(* What the gateway's frames tell the clients of changes in the store, on  *)
(* top of ChatGateway.                                                     *)
(*                                                                         *)
(* conversations.update, sent to every open tab of some users, makes these *)
(* load all their conversations again.  The tabs in the room of the        *)
(* conversation are brought a text by message.new, and told by             *)
(* activeConversation.update to load it again when its participants have   *)
(* changed; what was there before, a tab loads once its join has been      *)
(* acknowledged.  The variables are history: no state of the server        *)
(* depends on them.                                                        *)
(***************************************************************************)
EXTENDS ChatGateway

VARIABLES
  stale,    \* pairs <<s, c>>: c has changed since s was told to load
  untold,   \* those of them that something went wrong with
  loaded,   \* loaded[s]: the conversation tab s has open and loaded, or None
  unheard   \* pairs <<s, r>>: what r stored is newer than what s has loaded or heard

feed == <<stale, untold, loaded, unheard>>
feedvars == <<gwvars, feed>>

FeedEmpty ==
  /\ stale = {}
  /\ untold = {}
  /\ loaded = [s \in Sockets |-> None]
  /\ unheard = {}

FeedInit == GwInit /\ FeedEmpty

About(c, pairs) == {p \in pairs : p[2] = c}
Apart(users, pairs) == {p \in pairs : UserOf[p[1]] \notin users}

\* emitConversationsUpdate: a frame to the rooms of these users; history notes
\* the pairs it misses by something amiss.
EmitConversationsUpdate(users, amiss) ==
  /\ stale' = Apart(users, stale)
  /\ untold' = Apart(users, untold \cup amiss)

\* The tabs in outside have no conversation open and loaded any more.
Closes(outside) ==
  /\ loaded' = [s \in Sockets |-> IF s \in outside THEN None ELSE loaded[s]]
  /\ unheard' = {p \in unheard : p[1] \notin outside}

\* History: nobody will be told any more of what r stored.
Without(r) == {p \in unheard : p[2] # r}

-----------------------------------------------------------------------------
(***************************************************************************)
(* The store changes.  Those who take part, before or after, are to be     *)
(* told; an addition whose re-read is refused tells nobody.                *)
(***************************************************************************)
FeedWork(r) ==
  LET c == request[r].conv
      concerned == {s \in Sockets : /\ socket[s].connected
                                    /\ UserOf[s] \in ActiveIn(c) \cup ActiveIn(c)'}
  IN
  /\ Work(r) /\ UNCHANGED gateway
  /\ stale' = IF messages' # messages THEN stale \cup (concerned \X {c}) ELSE stale
  /\ untold' = IF At(r, "add.committed") /\ request'[r].step = "ended"
               THEN untold \cup About(c, stale) ELSE untold
  /\ unheard' = IF messages' # messages
                THEN unheard \cup ({s \in Sockets : loaded[s] = c} \X {r})
                ELSE IF request'[r].step = "ended" THEN Without(r) ELSE unheard
  /\ UNCHANGED loaded

\* The steps between a commit and the frames to the room.
Telling == {"add.committed", "add.reread", "remove.committed", "remove.reread",
            "send.committed"}

\* A call that fails after its commit has told nobody and never will.
FeedAbort(r) ==
  /\ GwAbort(r)
  /\ untold' = untold \cup
       (IF request[r].step \in Telling \cup {"create.committed"}
        THEN About(request[r].conv, stale) ELSE {})
  /\ unheard' = Without(r)
  /\ UNCHANGED <<stale, loaded>>

(***************************************************************************)
(* The gateway tells.                                                      *)
(***************************************************************************)
HandleConversationCreated(r) ==
  /\ EmitCreated(r) /\ UNCHANGED gateway
  /\ EmitConversationsUpdate(request[r].seen, {})
  /\ UNCHANGED <<loaded, unheard>>

\* Mutated form: the conversation the socket has open by now.
RoomOf_Reread(r) == IF sender[r] = None THEN request[r].conv ELSE socket[sender[r]].current.conv

\* message.new goes to the room captured before the await, and
\* activeConversation.update to that of the conversation in the event.
RoomOf(r) == request[r].conv

\* What is unheard of by sockets k when the frame of r has gone to that room.
Heard(r, k) == {p \in unheard : p[2] = r => Room(RoomOf(r)) \notin k[p[1]].rooms}

FeedAdded(r) ==
  /\ HandleParticipantAdded(r)
  /\ EmitConversationsUpdate(request[r].seen, {})
  /\ unheard' = Heard(r, socket)
  /\ UNCHANGED loaded

\* Mutated form: the frame to the removed user is forgotten.
ToldOfRemoval_Rest(q) == q.seen

\* The removed user, then handleParticipantsUpdated.
ToldOfRemoval(q) == q.users \cup q.seen

\* The removed user's tabs leave the room before it is told, and all of them get
\* conversations.remove, at which they close the conversation.
FeedRemoved(r) ==
  LET q == request[r]
      closed == {s \in SocketsOf(q.users) : loaded[s] = q.conv}
  IN
  /\ HandleParticipantRemoved(r)
  /\ EmitConversationsUpdate(ToldOfRemoval(q), {})
  /\ loaded' = [s \in Sockets |-> IF s \in closed THEN None ELSE loaded[s]]
  /\ unheard' = {p \in Heard(r, socket') : p[1] \notin closed}

\* conversations.update goes to those the sender's socket names by now.  That is
\* amiss if it has left or changed its conversation, or its list is not current.
FeedSent(r) ==
  LET c == request[r].conv
      current == socket[sender[r]].current
      amiss == current.conv # c \/ current.users # ActiveIn(c)
  IN
  /\ FinishSendMessage(r)
  /\ EmitConversationsUpdate(current.users, IF amiss THEN About(c, stale) ELSE {})
  /\ unheard' = Heard(r, socket)
  /\ UNCHANGED loaded

-----------------------------------------------------------------------------
(***************************************************************************)
(* The tabs.                                                               *)
(***************************************************************************)
FeedFinishJoin(j) ==
  /\ FinishJoin(j)
  /\ Closes({join[j].socket})
  /\ UNCHANGED <<stale, untold>>

FeedLeave(s) ==
  /\ HandleLeave(s)
  /\ Closes({s})
  /\ UNCHANGED <<stale, untold>>

\* A tab that connects again loads everything.
FeedDisconnect(s) ==
  /\ Disconnect(s)
  /\ Closes({s})
  /\ stale' = {p \in stale : p[1] # s}
  /\ untold' = {p \in untold : p[1] # s}

\* The client loads the conversation it has joined (getConversationByPublicId).
LoadHistory(s) ==
  LET c == socket[s].current.conv IN
  /\ socket[s].connected /\ IsRoomed(s) /\ loaded[s] # c
  /\ UserOf[s] \in ActiveIn(c)
  /\ loaded' = [loaded EXCEPT ![s] = c]
  /\ UNCHANGED <<gwvars, stale, untold, unheard>>

FeedRequest(r) ==
  \/ BeginHttp(r) /\ UNCHANGED <<gateway, feed>>
  \/ BeginSendMessage(r) /\ UNCHANGED feed
  \/ FeedWork(r) \/ FeedAbort(r)
  \/ HandleConversationCreated(r) \/ FeedAdded(r) \/ FeedRemoved(r) \/ FeedSent(r)

FeedNext ==
  \/ \E r \in Requests : FeedRequest(r)
  \/ \E j \in Joins : (BeginJoin(j) /\ UNCHANGED feed) \/ FeedFinishJoin(j)
  \/ \E s \in Sockets : FeedLeave(s) \/ FeedDisconnect(s) \/ LoadHistory(s)
  \/ AllAnswered /\ UNCHANGED <<gateway, feed>>

FeedSpec == FeedInit /\ [][FeedNext]_feedvars

-----------------------------------------------------------------------------
(***************************************************************************)
(* Properties.                                                             *)
(***************************************************************************)
\* With no call under way, every open tab of everybody a change concerns has
\* been told to load since, whichever frames overtook each other: unless the
\* call failed after its commit, an addition's re-read was refused, or a text's
\* sender had by then moved on or held a list that was not current.
NobodyMissesAChange == InFlight = {} => stale \subseteq untold

\* A tab that has joined a conversation by the id the database knows it by, and then
\* loaded it, shows all of it: what has been stored since is on its way to the room,
\* which the tab has been in throughout.  (A tab that spelt the id differently is in
\* another room and hears nothing; of a call that fails after its commit, nobody is
\* ever told.)
JoinedTabMissesNothing ==
  \A s \in Sockets : <<loaded[s], "other">> \notin socket[s].rooms =>
    /\ loaded[s] # None => Room(loaded[s]) \in socket[s].rooms
    /\ \A r \in Requests : <<s, r>> \in unheard =>
         request[r].step \in Telling /\ request[r].conv = loaded[s]
=============================================================================
