-------------------------- MODULE ClientFeedProofs --------------------------
(***************************************************************************)
(* Theorems about the gateway's frames: what is proved of the gateway      *)
(* holds with the history of ClientFeed added, and a tab that has joined   *)
(* a conversation, by its id as the database spells it, and loaded it      *)
(* misses nothing stored in it.                                            *)
(***************************************************************************)
EXTENDS ClientFeed, ChatGatewayProofs, ChatRosterProofs

\* Each step is one of the gateway's, or only a client's.
LEMMA FeedIsGateway ==
  ASSUME [FeedNext]_feedvars
  PROVE  [GwNext]_gwvars
<1>1. CASE UNCHANGED feedvars
  BY <1>1 DEF feedvars
<1>2. ASSUME NEW r \in Requests, FeedRequest(r) PROVE GwNext
  <2>1. GwRequest(r)
    BY <1>2 DEF FeedRequest, GwRequest, FeedWork, FeedAbort, HandleConversationCreated,
                FeedAdded, FeedRemoved, FeedSent
  <2> QED BY <2>1 DEF GwNext
<1>3. ASSUME NEW j \in Joins, BeginJoin(j) \/ FeedFinishJoin(j) PROVE GwNext
  BY <1>3 DEF FeedFinishJoin, GwNext
<1>4. ASSUME NEW s \in Sockets, FeedLeave(s) \/ FeedDisconnect(s) PROVE GwNext
  BY <1>4 DEF FeedLeave, FeedDisconnect, GwNext
<1>5. ASSUME NEW s \in Sockets, LoadHistory(s) PROVE UNCHANGED gwvars
  BY <1>5 DEF LoadHistory
<1>6. CASE AllAnswered /\ UNCHANGED gateway
  BY <1>6 DEF GwNext
<1> QED BY <1>1, <1>2, <1>3, <1>4, <1>5, <1>6 DEF FeedNext

(***************************************************************************)
(* The invariant: JoinedTabMissesNothing is inductive once the history is  *)
(* typed, on top of what the gateway relies on.                            *)
(***************************************************************************)
FeedTypeOK ==
  /\ loaded \in [Sockets -> Conversations \cup {None}]
  /\ unheard \subseteq Sockets \X Requests

FeedInvariant == GatewayInvariant /\ FeedTypeOK /\ JoinedTabMissesNothing

\* What FeedInvariant says of one tab with sockets k, loads l and calls q.
Stray(s, k, l) == <<l[s], "other">> \in k[s].rooms
Covered(s, k, l, u, q) == ~Stray(s, k, l) =>
  /\ l[s] # None => Room(l[s]) \in k[s].rooms
  /\ \A r \in Requests : <<s, r>> \in u => q[r].step \in Telling /\ q[r].conv = l[s]

LEMMA CoveredIs ==
  JoinedTabMissesNothing <=> \A s \in Sockets : Covered(s, socket, loaded, unheard, request)
BY DEF JoinedTabMissesNothing, Covered, Stray

LEMMA CoveredNext ==
  JoinedTabMissesNothing' <=>
    \A s \in Sockets : Covered(s, socket', loaded', unheard', request')
BY DEF JoinedTabMissesNothing, Covered, Stray

\* A step that changes call r alone, on sockets and loads that stay, keeps the
\* rest if nothing is unheard of r, or r is still to tell the same room.
LEMMA CallKeepsCover ==
  ASSUME FeedInvariant, UNCHANGED <<socket, loaded>>, NEW r \in Requests,
         \A t \in Requests \ {r} : request'[t] = request[t],
         \A s \in Sockets, t \in Requests \ {r} : <<s, t>> \in unheard' => <<s, t>> \in unheard,
         unheard' \subseteq Sockets \X Requests,
         \A s \in Sockets : <<s, r>> \in unheard' /\ ~Stray(s, socket, loaded) =>
           request'[r].step \in Telling /\ request'[r].conv = loaded[s]
  PROVE  FeedTypeOK' /\ JoinedTabMissesNothing'
<1>1. FeedTypeOK'
  BY DEF FeedInvariant, FeedTypeOK
<1>2. ASSUME NEW s \in Sockets PROVE Covered(s, socket', loaded', unheard', request')
  BY <1>2, CoveredIs DEF FeedInvariant, Covered, Stray
<1> QED BY <1>1, <1>2, CoveredNext

\* What a step of the store does to the calls.
LEMMA WorkFacts ==
  ASSUME GatewayInvariant, NEW r \in Requests, Work(r)
  PROVE  /\ \A t \in Requests \ {r} : request'[t] = request[t]
         /\ request'[r].step # "ended" => request'[r].conv = request[r].conv
         /\ request[r].step \in Telling /\ request'[r].step # "ended" =>
              request'[r].step \in Telling
         /\ messages' # messages =>
              /\ request'[r].step \in Telling \/ At(r, "create.checked")
              /\ request'[r].conv = request[r].conv
<1> PICK q : q = request[r]
  OBVIOUS
<1>1. request \in [Requests -> Request]
  BY DEF GatewayInvariant, OwnerInvariant, TypeOK
<1>2. Becomes(r, request'[r])
  BY <1>1 DEF Work, CommitCreate, ReadLeft, CommitAdd, RereadAdd, CommitRemove, RereadRemove,
              Reread, Proceed, CommitSend, Becomes
<1>3. \A t \in Requests \ {r} : request'[t] = request[t]
  BY <1>1, <1>2 DEF Becomes
<1>4. CASE CommitCreate(r) \/ ReadLeft(r) \/ CommitRemove(r) \/ CommitSend(r)
  BY <1>1, <1>3, <1>4 DEF CommitCreate, ReadLeft, CommitRemove, CommitSend, Becomes, At,
                          Telling, Request, store
<1>5. CASE CommitAdd(r)
  BY <1>1, <1>3, <1>5 DEF CommitAdd, Becomes, At, Telling, Request, store, Ended, Idle
<1>6. ASSUME NEW committed, NEW reread \in Telling, Reread(r, committed, reread)
      PROVE  /\ messages' = messages
             /\ request'[r].step = "ended" \/ request'[r].step \in Telling
             /\ request'[r].step # "ended" => request'[r].conv = request[r].conv
  <2>1. request[r] \in Request
    BY <1>1
  <2>2. \/ request'[r] = Ended
        \/ request'[r] = [request[r] EXCEPT !.step = reread, !.seen = ActiveIn(request[r].conv)]
    BY <1>1, <1>6 DEF Reread, Proceed, Becomes
  <2>3. CASE request'[r] = Ended
    BY <1>6, <2>3 DEF Reread, store, Ended, Idle
  <2>4. CASE request'[r] # Ended
    BY <1>6, <2>1, <2>2, <2>4 DEF Reread, store, Request
  <2> QED BY <2>3, <2>4
<1>7. CASE RereadAdd(r) \/ RereadRemove(r)
  BY <1>3, <1>6, <1>7 DEF RereadAdd, RereadRemove, Telling
<1> QED BY <1>4, <1>5, <1>7 DEF Work

\* The store changes: what is stored is unheard of by those who have loaded, and
\* a conversation only just created nobody has loaded.
LEMMA WorkCovers ==
  ASSUME FeedInvariant, NEW r \in Requests, FeedWork(r)
  PROVE  FeedTypeOK' /\ JoinedTabMissesNothing'
<1>0. GatewayInvariant /\ Work(r) /\ UNCHANGED <<socket, loaded>>
  BY DEF FeedInvariant, FeedWork, gateway
<1>1. \A s \in Sockets, t \in Requests \ {r} : <<s, t>> \in unheard' => <<s, t>> \in unheard
  BY DEF FeedWork, Without
<1>2. unheard' \subseteq Sockets \X Requests
  BY DEF FeedWork, Without, FeedInvariant, FeedTypeOK
<1>3. ASSUME At(r, "create.checked"), NEW s \in Sockets, loaded[s] = request[r].conv,
             ~Stray(s, socket, loaded)
      PROVE  FALSE
  <2>1. request[r].conv \in Conversations /\ kind[request[r].conv] = "NONE"
    BY <1>0, <1>3 DEF GatewayInvariant, OwnerInvariant, CallOK, At
  <2>2. Room(loaded[s]) \in socket[s].rooms
    BY <1>3, <2>1, NoneAssumption DEF FeedInvariant, JoinedTabMissesNothing, Stray
  <2>3. loaded[s] \in Existing
    BY <1>0, <1>3, <2>1, <2>2, SocketFacts
  <2> QED BY <1>3, <2>1, <2>3 DEF Existing
<1>4. ASSUME NEW s \in Sockets, <<s, r>> \in unheard', ~Stray(s, socket, loaded)
      PROVE  request'[r].step \in Telling /\ request'[r].conv = loaded[s]
  <2>1. CASE messages' # messages /\ <<s, r>> \notin unheard
    <3>1. loaded[s] = request[r].conv
      BY <1>4, <2>1 DEF FeedWork
    <3>2. request'[r].step \in Telling
      BY <1>0, <1>3, <1>4, <2>1, <3>1, WorkFacts
    <3>3. request'[r].step # "ended"
      BY <3>2 DEF Telling
    <3> QED BY <1>0, <3>1, <3>2, <3>3, WorkFacts
  <2>2. CASE <<s, r>> \in unheard
    <3>1. request[r].step \in Telling /\ request[r].conv = loaded[s]
      BY <1>4, <2>2 DEF FeedInvariant, JoinedTabMissesNothing, Stray
    <3>2. ~At(r, "create.checked")
      BY <3>1 DEF Telling, At
    <3>3. CASE messages' # messages
      <4>1. request'[r].step \in Telling
        BY <1>0, <3>2, <3>3, WorkFacts
      <4> QED BY <1>0, <3>1, <4>1, WorkFacts DEF Telling
    <3>4. CASE messages' = messages
      <4>1. request'[r].step # "ended"
        BY <1>4, <3>4 DEF FeedWork, Without
      <4> QED BY <1>0, <3>1, <4>1, WorkFacts
    <3> QED BY <3>3, <3>4
  <2>3. <<s, r>> \in unheard \/ messages' # messages
    BY <1>4 DEF FeedWork, Without
  <2> QED BY <2>1, <2>2, <2>3
<1> QED BY <1>0, <1>1, <1>2, <1>4, WorkFacts, CallKeepsCover

\* A call ends on sockets that stay: nothing it has stored is unheard but by tabs in
\* a room that nothing is sent to.
LEMMA EndCovers ==
  ASSUME FeedInvariant, NEW r \in Requests, Becomes(r, Ended),
         UNCHANGED <<socket, loaded>>, unheard' \subseteq unheard,
         \A s \in Sockets : <<s, r>> \in unheard' => Stray(s, socket, loaded)
  PROVE  FeedTypeOK' /\ JoinedTabMissesNothing'
<1>1. \A t \in Requests \ {r} : request'[t] = request[t]
  BY DEF Becomes, FeedInvariant, GatewayInvariant, OwnerInvariant, TypeOK
<1>2. unheard' \subseteq Sockets \X Requests
  BY DEF FeedInvariant, FeedTypeOK
<1> QED BY <1>1, <1>2, CallKeepsCover

\* The frame of call r goes to the room of its conversation, which every tab that
\* has not heard of it is in, unless it spelt the id in another way.
LEMMA FrameIsHeard ==
  ASSUME FeedInvariant, NEW r \in Requests, NEW s \in Sockets, <<s, r>> \in Heard(r, socket)
  PROVE  Stray(s, socket, loaded)
<1> SUFFICES ASSUME ~Stray(s, socket, loaded) PROVE FALSE
  OBVIOUS
<1>1. <<s, r>> \in unheard /\ Room(request[r].conv) \notin socket[s].rooms
  BY DEF Heard, RoomOf
<1>2. request[r].conv = loaded[s] /\ request[r].step \in Telling
  BY <1>1 DEF FeedInvariant, JoinedTabMissesNothing, Stray
<1>3. request[r].conv \in Conversations
  BY <1>2 DEF FeedInvariant, GatewayInvariant, OwnerInvariant, CallOK, Telling
<1> QED BY <1>1, <1>2, <1>3, NoneAssumption DEF FeedInvariant, JoinedTabMissesNothing, Stray

\* handleParticipantAdded and handleSendMessage: everybody in the room is told.
LEMMA FrameCovers ==
  ASSUME FeedInvariant, NEW r \in Requests, FeedAdded(r) \/ FeedSent(r)
  PROVE  FeedTypeOK' /\ JoinedTabMissesNothing'
<1>1. unheard' = Heard(r, socket) /\ Becomes(r, Ended)
  BY DEF FeedAdded, HandleParticipantAdded, EmitAdded, FeedSent, FinishSendMessage, ReturnMessage
<1>2. \A s \in Sockets : <<s, r>> \in unheard' => Stray(s, socket, loaded)
  BY <1>1, FrameIsHeard
<1>3. unheard' \subseteq unheard
  BY <1>1 DEF Heard
<1>4. CASE FeedSent(r)
  BY <1>1, <1>2, <1>3, <1>4, EndCovers DEF FeedSent, FinishSendMessage, gateway
<1>5. CASE FeedAdded(r)
  <2>1. \A t \in Requests \ {r} : request'[t] = request[t]
    BY <1>1 DEF Becomes, FeedInvariant, GatewayInvariant, OwnerInvariant, TypeOK
  <2>2. ASSUME NEW s \in Sockets PROVE socket'[s].rooms = socket[s].rooms
    <3>1. socket'[s] = Refreshed(socket[s], request[r].conv, request[r].seen)
      BY <1>5 DEF FeedAdded, HandleParticipantAdded
    <3>2. socket[s] \in Socket
      BY SocketFacts DEF FeedInvariant
    <3> QED BY <3>1, <3>2 DEF Refreshed, Socket
  <2>3. FeedTypeOK'
    BY <1>3, <1>5 DEF FeedAdded, FeedInvariant, FeedTypeOK
  <2>4. ASSUME NEW s \in Sockets PROVE Covered(s, socket', loaded', unheard', request')
    <3>1. loaded'[s] = loaded[s]
      BY <1>5 DEF FeedAdded
    <3>2. Stray(s, socket', loaded') = Stray(s, socket, loaded)
      BY <2>2, <3>1 DEF Stray
    <3>3. \A t \in Requests : <<s, t>> \in unheard' /\ ~Stray(s, socket, loaded) =>
            t # r /\ <<s, t>> \in unheard
      BY <1>2, <1>3
    <3> QED BY <2>1, <2>2, <3>1, <3>2, <3>3, CoveredIs DEF Covered, FeedInvariant
  <2> QED BY <2>3, <2>4, CoveredNext
<1> QED BY <1>4, <1>5

\* A room is a conversation's: a tab with nothing loaded has no other room for it.
LEMMA NobodyStrays ==
  ASSUME FeedInvariant, NEW s \in Sockets, loaded[s] = None
  PROVE  ~Stray(s, socket, loaded)
<1>1. socket[s].rooms \in SUBSET (Conversations \X Spellings)
  BY SocketFacts DEF FeedInvariant, Socket
<1> QED BY <1>1, NoneAssumption DEF Stray

\* A step that takes tabs out of what they had open, leaves the rooms of what the
\* others have loaded, and may end the one call everybody has heard of.
LEMMA ClosingCovers ==
  ASSUME FeedInvariant, NEW closed \in SUBSET Sockets,
         loaded' = [s \in Sockets |-> IF s \in closed THEN None ELSE loaded[s]],
         unheard' \subseteq unheard, \A s \in closed, r \in Requests : <<s, r>> \notin unheard',
         \A s \in Sockets \ closed :
           loaded[s] = None \/ socket'[s].rooms = socket[s].rooms,
         \A s \in Sockets, r \in Requests :
           <<s, r>> \in unheard' => request'[r] = request[r] \/ Stray(s, socket, loaded)
  PROVE  FeedTypeOK' /\ JoinedTabMissesNothing'
<1>1. FeedTypeOK'
  BY DEF FeedInvariant, FeedTypeOK
<1>2. ASSUME NEW s \in Sockets PROVE Covered(s, socket', loaded', unheard', request')
  <2>1. CASE s \in closed
    BY <2>1 DEF Covered
  <2>2. CASE s \notin closed
    <3>1. loaded'[s] = loaded[s] /\ Covered(s, socket, loaded, unheard, request)
      BY <2>2, CoveredIs DEF FeedInvariant
    <3>2. Stray(s, socket, loaded) => Stray(s, socket', loaded')
      BY <2>2, <3>1, NobodyStrays DEF Stray
    <3> QED BY <2>2, <3>1, <3>2 DEF Covered
  <2> QED BY <2>1, <2>2
<1> QED BY <1>1, <1>2, CoveredNext

\* handleParticipantRemoved: the removed user's tabs close, the others are told.
LEMMA RemovedCovers ==
  ASSUME FeedInvariant, NEW r \in Requests, FeedRemoved(r)
  PROVE  FeedTypeOK' /\ JoinedTabMissesNothing'
<1> PICK q : q = request[r]
  OBVIOUS
<1> DEFINE closed == {s \in SocketsOf(q.users) : loaded[s] = q.conv}
<1>1. /\ loaded' = [s \in Sockets |-> IF s \in closed THEN None ELSE loaded[s]]
      /\ unheard' = {p \in Heard(r, socket') : p[1] \notin closed}
      /\ socket' = [s \in Sockets |-> Refreshed(Kicked(s, q.conv, q.users), q.conv, q.seen)]
      /\ Becomes(r, Ended) /\ q.step = "remove.reread"
  BY DEF FeedRemoved, HandleParticipantRemoved, EmitRemoved, At
<1>2. unheard' \subseteq unheard
  BY <1>1 DEF Heard
<1>3. \A s \in closed, t \in Requests : <<s, t>> \notin unheard'
  BY <1>1
<1>4. q.conv \in Conversations /\ q.seen \in SUBSET Users
  BY <1>1 DEF FeedInvariant, GatewayInvariant, OwnerInvariant, CallOK, TypeOK, Request
<1>5. ASSUME NEW s \in Sockets \ closed
      PROVE  loaded[s] = None \/ socket'[s].rooms = socket[s].rooms
  <2>1. socket[s] \in Socket /\ RoomOK(socket[s])
    BY SocketFacts DEF FeedInvariant
  <2>2. CASE UserOf[s] \in q.users /\ Room(q.conv) \in socket[s].rooms
    <3>1. socket[s].rooms = {Room(q.conv)} /\ loaded[s] # q.conv
      BY <1>4, <2>1, <2>2, RoomTells DEF SocketsOf
    <3> QED BY <3>1 DEF FeedInvariant, JoinedTabMissesNothing, Room
  <2>3. CASE ~(UserOf[s] \in q.users /\ Room(q.conv) \in socket[s].rooms)
    <3>1. socket'[s] = Refreshed(socket[s], q.conv, q.seen)
      BY <1>1, <2>3 DEF Kicked
    <3> QED BY <1>4, <2>1, <3>1, RefreshedTyped
  <2> QED BY <2>2, <2>3
<1>6. ASSUME NEW s \in Sockets, <<s, r>> \in unheard', ~Stray(s, socket, loaded) PROVE FALSE
  <2>1. /\ <<s, r>> \in unheard /\ Room(q.conv) \notin socket'[s].rooms
        /\ s \notin closed
    BY <1>1, <1>6 DEF Heard, RoomOf
  <2>2. q.conv = loaded[s]
    BY <1>6, <2>1 DEF FeedInvariant, JoinedTabMissesNothing, Stray
  <2>3. Room(q.conv) \in socket[s].rooms
    BY <1>4, <1>6, <2>2, NoneAssumption DEF FeedInvariant, JoinedTabMissesNothing, Stray
  <2> QED BY <1>4, <1>5, <2>1, <2>2, <2>3, NoneAssumption
<1>7. \A t \in Requests \ {r} : request'[t] = request[t]
  BY <1>1 DEF Becomes, FeedInvariant, GatewayInvariant, OwnerInvariant, TypeOK
<1>8. closed \in SUBSET Sockets
  BY DEF SocketsOf
<1> HIDE DEF closed
<1> QED BY <1>1, <1>2, <1>3, <1>5, <1>6, <1>7, <1>8, ClosingCovers

\* A join, a leave or a disconnection of one tab, which then has nothing loaded.
LEMMA TabCovers ==
  ASSUME FeedInvariant, NEW s \in Sockets, Closes({s}), UNCHANGED vars,
         \A t \in Sockets \ {s} : socket'[t] = socket[t]
  PROVE  FeedTypeOK' /\ JoinedTabMissesNothing'
<1>1. /\ loaded' = [t \in Sockets |-> IF t \in {s} THEN None ELSE loaded[t]]
      /\ unheard' = {p \in unheard : p[1] \notin {s}}
  BY DEF Closes
<1>2. unheard' \subseteq unheard /\ \A t \in {s}, r \in Requests : <<t, r>> \notin unheard'
  BY <1>1
<1>3. \A t \in Sockets \ {s} : socket'[t].rooms = socket[t].rooms
  OBVIOUS
<1>4. request' = request /\ {s} \in SUBSET Sockets
  BY DEF vars
<1> QED BY <1>1, <1>2, <1>3, <1>4, ClosingCovers

\* A client loads what it has open: it is in that room, and had nothing loaded.
LEMMA LoadCovers ==
  ASSUME FeedInvariant, NEW s \in Sockets, LoadHistory(s)
  PROVE  FeedTypeOK' /\ JoinedTabMissesNothing'
<1> DEFINE c == socket[s].current.conv
<1>1. socket[s] \in Socket /\ RoomOK(socket[s])
  BY SocketFacts DEF FeedInvariant
<1>2. /\ c \in Conversations /\ c # None /\ loaded[s] # c
      /\ \E spelling \in Spellings : socket[s].rooms = {<<c, spelling>>}
  BY <1>1 DEF LoadHistory, IsRoomed, Socket, RoomOK
<1>3. loaded[s] = None /\ ~Stray(s, socket, loaded)
  BY <1>2, NobodyStrays DEF Stray, Room, FeedInvariant, JoinedTabMissesNothing
<1>4. \A r \in Requests : <<s, r>> \notin unheard
  <2>1. ASSUME NEW r \in Requests, <<s, r>> \in unheard PROVE FALSE
    <3>1. request[r].conv = None /\ request[r].step \in Telling
      BY <1>3, <2>1 DEF FeedInvariant, JoinedTabMissesNothing, Stray
    <3>2. request[r].conv \in Conversations
      BY <3>1 DEF FeedInvariant, GatewayInvariant, OwnerInvariant, CallOK, Telling
    <3> QED BY <3>1, <3>2, NoneAssumption
  <2> QED BY <2>1
<1>5. /\ loaded' = [loaded EXCEPT ![s] = c]
      /\ unheard' = unheard /\ socket' = socket /\ request' = request
  BY DEF LoadHistory, gwvars, gateway, vars
<1>6. FeedTypeOK'
  BY <1>2, <1>5 DEF FeedInvariant, FeedTypeOK
<1>7. ASSUME NEW t \in Sockets PROVE Covered(t, socket', loaded', unheard', request')
  <2>1. CASE t = s
    BY <1>2, <1>4, <1>5, <2>1 DEF Covered, Stray, Room, Spellings, FeedInvariant, FeedTypeOK
  <2>2. CASE t # s
    BY <1>5, <2>2, CoveredIs DEF Covered, Stray, FeedInvariant, FeedTypeOK
  <2> QED BY <2>1, <2>2
<1> QED BY <1>6, <1>7, CoveredNext

\* Steps that no tab and no frame has a part in.
LEMMA StillCovers ==
  ASSUME FeedInvariant, UNCHANGED <<socket, loaded, unheard>>,
         \A r \in Requests : request'[r] = request[r] \/ request[r].step \notin Telling
  PROVE  FeedTypeOK' /\ JoinedTabMissesNothing'
<1>1. FeedTypeOK'
  BY DEF FeedInvariant, FeedTypeOK
<1>2. ASSUME NEW s \in Sockets PROVE Covered(s, socket', loaded', unheard', request')
  BY CoveredIs DEF Covered, Stray, FeedInvariant
<1> QED BY <1>1, <1>2, CoveredNext

\* A call begins, or a creation tells everybody.
LEMMA BeginCovers ==
  ASSUME FeedInvariant, NEW r \in Requests,
         \/ BeginHttp(r) /\ UNCHANGED <<gateway, feed>>
         \/ BeginSendMessage(r) /\ UNCHANGED feed
         \/ HandleConversationCreated(r)
  PROVE  FeedTypeOK' /\ JoinedTabMissesNothing'
<1>1. request \in [Requests -> Request]
  BY DEF FeedInvariant, GatewayInvariant, OwnerInvariant, TypeOK
<1>2. \E q : Becomes(r, q)
  BY DEF BeginHttp, RefuseIds, BeginCreate, BeginAdd, BeginRemove, Proceed,
         BeginSendMessage, StartSend, HandleConversationCreated, EmitCreated
<1>3. request[r].step \in {"idle", "create.committed"}
  BY DEF BeginHttp, RefuseIds, BeginCreate, BeginAdd, BeginRemove, CanBegin, At,
         BeginSendMessage, StartSend, HandleConversationCreated, EmitCreated
<1>4. UNCHANGED <<socket, loaded, unheard>>
  BY DEF gateway, feed, BeginSendMessage, HandleConversationCreated
<1>5. \A t \in Requests \ {r} : request'[t] = request[t]
  BY <1>1, <1>2 DEF Becomes
<1> QED BY <1>3, <1>4, <1>5, StillCovers DEF Telling

LEMMA AbortCovers ==
  ASSUME FeedInvariant, NEW r \in Requests, FeedAbort(r)
  PROVE  FeedTypeOK' /\ JoinedTabMissesNothing'
<1>1. Becomes(r, Ended) /\ UNCHANGED <<socket, loaded>> /\ unheard' = Without(r)
  BY DEF FeedAbort, GwAbort, Abort
<1>2. unheard' \subseteq unheard /\ \A s \in Sockets : <<s, r>> \notin unheard'
  BY <1>1 DEF Without
<1> QED BY <1>1, <1>2, EndCovers

LEMMA FeedStep ==
  ASSUME FeedInvariant, [FeedNext]_feedvars
  PROVE  FeedInvariant'
<1>1. GatewayInvariant'
  BY FeedIsGateway, GatewayStep DEF FeedInvariant
<1>2. CASE UNCHANGED <<vars, gateway, loaded, unheard>>
  BY <1>1, <1>2, StillCovers DEF FeedInvariant, gateway, vars
<1>3. ASSUME NEW r \in Requests, FeedRequest(r) PROVE FeedTypeOK' /\ JoinedTabMissesNothing'
  BY <1>3, BeginCovers, WorkCovers, AbortCovers, FrameCovers, RemovedCovers DEF FeedRequest
<1>4. ASSUME NEW j \in Joins, BeginJoin(j) /\ UNCHANGED feed
      PROVE  FeedTypeOK' /\ JoinedTabMissesNothing'
  BY <1>4, StillCovers DEF BeginJoin, feed, vars
<1>5. ASSUME NEW j \in Joins, FeedFinishJoin(j) PROVE FeedTypeOK' /\ JoinedTabMissesNothing'
  <2> PICK s \in Sockets : join[j].socket = s
    BY <1>5, JoinFacts DEF FeedInvariant, FeedFinishJoin, FinishJoin, LetIn
  <2>1. Closes({s}) /\ UNCHANGED vars
    BY <1>5 DEF FeedFinishJoin, FinishJoin
  <2>2. \A t \in Sockets \ {s} : socket'[t] = socket[t]
    BY <1>5 DEF FeedFinishJoin, FinishJoin, FeedInvariant, GatewayInvariant, GwTypeOK
  <2> QED BY <2>1, <2>2, TabCovers
<1>6. ASSUME NEW s \in Sockets, FeedLeave(s) \/ FeedDisconnect(s)
      PROVE  FeedTypeOK' /\ JoinedTabMissesNothing'
  <2>1. Closes({s}) /\ UNCHANGED vars
    BY <1>6 DEF FeedLeave, HandleLeave, FeedDisconnect, Disconnect
  <2>2. \A t \in Sockets \ {s} : socket'[t] = socket[t]
    BY <1>6 DEF FeedLeave, HandleLeave, FeedDisconnect, Disconnect,
                FeedInvariant, GatewayInvariant, GwTypeOK
  <2> QED BY <2>1, <2>2, TabCovers
<1>7. CASE UNCHANGED feedvars
  BY <1>2, <1>7 DEF feedvars, feed, gwvars
<1>8. CASE AllAnswered /\ UNCHANGED <<gateway, feed>>
  BY <1>2, <1>8 DEF AllAnswered, feed
<1>9. CASE FeedNext
  BY <1>1, <1>2, <1>3, <1>4, <1>5, <1>6, <1>8, <1>9, LoadCovers DEF FeedNext, FeedInvariant
<1> QED BY <1>1, <1>2, <1>7, <1>9 DEF FeedInvariant, feedvars, feed, gwvars

(***************************************************************************)
(* conversations.update: whoever a change concerns is told by some call    *)
(* under way, unless something went wrong with it.                         *)
(***************************************************************************)

\* Call q, under way, is going to tell the tabs of u to load.  Who takes part in
\* its conversation is read later, by its re-read or by the frame itself.
WillTell(q, u) ==
  \/ q.step \in {"create.committed", "add.reread", "remove.reread"} /\ u \in q.seen
  \/ q.step \in {"add.committed", "remove.committed", "send.committed"} /\ u \in ActiveIn(q.conv)
  \/ q.step \in {"remove.committed", "remove.reread"} /\ u \in q.users

Tells(r, s, c) == request[r].conv = c /\ WillTell(request[r], UserOf[s])

ChangeInvariant ==
  /\ GatewayInvariant
  /\ UnopenedIsEmpty
  /\ stale \subseteq Sockets \X Conversations
  /\ \A s \in Sockets, c \in Conversations :
       <<s, c>> \in stale \ untold => \E r \in Requests : Tells(r, s, c)

\* After its commit a call re-reads, if it does, and ends.
LEMMA TellerMoves ==
  ASSUME OwnerInvariant, [Next]_vars, NEW r \in Requests,
         request[r].step \in Telling \cup {"create.committed"}, request'[r].step # "ended"
  PROVE  \/ request'[r] = request[r]
         \/ /\ UNCHANGED participant
            /\ \/ /\ request[r].step = "add.committed"
                  /\ request'[r] = [request[r] EXCEPT !.step = "add.reread",
                                                      !.seen = ActiveIn(request[r].conv)]
               \/ /\ request[r].step = "remove.committed"
                  /\ request'[r] = [request[r] EXCEPT !.step = "remove.reread",
                                                      !.seen = ActiveIn(request[r].conv)]
<1> PICK q : q = request[r]
  OBVIOUS
<1>1. q \in Request /\ request \in [Requests -> Request]
  BY DEF OwnerInvariant, TypeOK
<1>2. CASE request'[r] = request[r]
  BY <1>2
<1>3. ASSUME NEW committed, NEW reread, Reread(r, committed, reread)
      PROVE  /\ UNCHANGED participant /\ q.step = committed
             /\ request'[r] = [q EXCEPT !.step = reread, !.seen = ActiveIn(q.conv)]
  <2>1. \/ request'[r] = Ended
        \/ request'[r] = [q EXCEPT !.step = reread, !.seen = ActiveIn(q.conv)]
    BY <1>1, <1>3 DEF Reread, Proceed, Becomes
  <2> QED BY <1>3, <2>1, EndedOK DEF Reread, At, store
<1>4. \A t \in Requests : (Begin(t) \/ Continue(t) \/ Abort(t)) => (t # r => request'[r] = request[r])
  BY <1>1 DEF Begin, BeginHttp, RefuseIds, BeginCreate, BeginAdd,
         BeginRemove, BeginSend, StartSend, Continue, Work, Answer, ReadLeft, CommitAdd,
         CommitCreate, CommitRemove, RereadAdd, RereadRemove, Reread, CommitSend, EmitCreated,
         EmitAdded, EmitRemoved, ReturnMessage, Abort, Becomes, Proceed
<1>5. (Begin(r) \/ Continue(r)) =>
        \/ RereadAdd(r) \/ RereadRemove(r)
        \/ EmitCreated(r) \/ EmitAdded(r) \/ EmitRemoved(r) \/ ReturnMessage(r)
  BY DEF Begin, BeginHttp, RefuseIds, BeginCreate, BeginAdd, CanBegin,
         BeginRemove, BeginSend, StartSend, Continue, Work, Answer, ReadLeft, CommitAdd,
         CommitCreate, CommitRemove, CommitSend, At, Telling
<1>6. ~(EmitCreated(r) \/ EmitAdded(r) \/ EmitRemoved(r) \/ ReturnMessage(r) \/ Abort(r))
  BY <1>1, EndedOK DEF EmitCreated, EmitAdded, EmitRemoved, ReturnMessage, Abort, Becomes
<1>7. CASE RereadAdd(r)
  BY <1>3, <1>7 DEF RereadAdd
<1>8. CASE RereadRemove(r)
  BY <1>3, <1>8 DEF RereadRemove
<1> QED
  BY <1>2, <1>4, <1>5, <1>6, <1>7, <1>8 DEF Next, AllAnswered, vars

\* A call that is going to tell a tab does so, unless it ends; if the tab's user
\* is removed in the meantime, the removal tells the tab.
LEMMA TellersStay ==
  ASSUME OwnerInvariant, UnopenedIsEmpty, [Next]_vars,
         NEW r \in Requests, NEW s \in Sockets, NEW c, Tells(r, s, c),
         request'[r].step # "ended"
  PROVE  \E t \in Requests : Tells(t, s, c)'
<1> PICK q : q = request[r]
  OBVIOUS
<1> PICK u : u = UserOf[s]
  OBVIOUS
<1>1. /\ q \in Request /\ request \in [Requests -> Request] /\ u \in Users
      /\ q.conv = c /\ WillTell(q, u) /\ CallOK(q)
      /\ q.step \in Telling \cup {"create.committed"}
  BY UserOfAssumption DEF OwnerInvariant, TypeOK, Tells, WillTell, Telling
<1>2. c \in Conversations
  BY <1>1 DEF CallOK, WillTell
<1>3. ASSUME NEW t \in Requests, CommitRemove(t), request[t].conv = c, request[t].users = {u}
      PROVE  Tells(t, s, c)'
  <2>1. request'[t] = [request[t] EXCEPT !.step = "remove.committed"]
    BY <1>1, <1>3 DEF CommitRemove, Becomes
  <2>2. /\ request'[t].step = "remove.committed" /\ request'[t].conv = request[t].conv
        /\ request'[t].users = request[t].users
    BY <1>1, <2>1 DEF Request
  <2> QED BY <1>3, <2>2 DEF Tells, WillTell
<1>4. CASE u \in ActiveIn(c) /\ u \notin ActiveIn(c)'
  <2>1. c \in Existing
    BY <1>2, <1>4 DEF Existing, UnopenedIsEmpty
  <2>2. \E t \in Requests : CommitRemove(t) /\ request[t].conv = c /\ request[t].users = {u}
    BY <1>1, <1>4, <2>1, ActiveShrinks
  <2> QED BY <1>3, <2>2
<1>5. CASE u \in ActiveIn(c) => u \in ActiveIn(c)'
  <2>1. CASE request'[r] = q
    <3>1. WillTell(q, u)'
      BY <1>1, <1>5 DEF WillTell
    <3> QED BY <1>1, <2>1, <3>1 DEF Tells
  <2>2. ASSUME NEW step \in Steps, request'[r] = [q EXCEPT !.step = step, !.seen = ActiveIn(c)],
               \/ q.step = "add.committed" /\ step = "add.reread"
               \/ q.step = "remove.committed" /\ step = "remove.reread"
        PROVE  Tells(r, s, c)'
    <3>1. /\ request'[r].step = step /\ request'[r].seen = ActiveIn(c)
          /\ request'[r].users = q.users /\ request'[r].conv = c
      BY <1>1, <2>2 DEF Request
    <3>2. u \in ActiveIn(c) \/ (q.step = "remove.committed" /\ u \in q.users)
      BY <1>1, <2>2 DEF WillTell
    <3> QED BY <2>2, <3>1, <3>2 DEF Tells, WillTell
  <2>3. "add.reread" \in Steps /\ "remove.reread" \in Steps
    BY DEF Steps
  <2> QED BY <1>1, <2>1, <2>2, <2>3, TellerMoves
<1> QED BY <1>4, <1>5

\* A step that makes no conversation stale keeps the invariant if it ends no call
\* that was going to tell, or what that call leaves is told or noted.
LEMMA ChangeKeeps ==
  ASSUME ChangeInvariant, [FeedNext]_feedvars, stale' \subseteq stale,
         \A s \in Sockets, c \in Conversations :
           <<s, c>> \in stale' \ untold' => <<s, c>> \notin untold,
         \A r \in Requests, s \in Sockets, c \in Conversations :
           /\ <<s, c>> \in stale' \ untold' /\ Tells(r, s, c) /\ <<s, c>> \in stale \ untold
           => request'[r].step # "ended"
  PROVE  ChangeInvariant'
<1>1. [GwNext]_gwvars /\ [Next]_vars
  BY FeedIsGateway, ServiceStep DEF ChangeInvariant
<1>2. GatewayInvariant' /\ UnopenedIsEmpty'
  BY <1>1, GatewayStep, UnopenedStays DEF ChangeInvariant, GatewayInvariant
<1>3. ASSUME NEW s \in Sockets, NEW c \in Conversations, <<s, c>> \in stale' \ untold'
      PROVE  \E t \in Requests : Tells(t, s, c)'
  <2>1. PICK r \in Requests : Tells(r, s, c)
    BY <1>3 DEF ChangeInvariant
  <2>2. request'[r].step # "ended"
    BY <1>3, <2>1
  <2> QED BY <1>1, <2>1, <2>2, TellersStay DEF ChangeInvariant, GatewayInvariant
<1> QED BY <1>2, <1>3 DEF ChangeInvariant

\* A frame of call r to some users, among them all that r was going to tell.
LEMMA FrameTells ==
  ASSUME ChangeInvariant, [FeedNext]_feedvars, NEW r \in Requests, Becomes(r, Ended),
         NEW users, NEW amiss, EmitConversationsUpdate(users, amiss),
         \A s \in Sockets, c \in Conversations :
           <<s, c>> \in stale /\ Tells(r, s, c) => UserOf[s] \in users \/ <<s, c>> \in amiss
  PROVE  ChangeInvariant'
<1>1. /\ stale' = {p \in stale : UserOf[p[1]] \notin users}
      /\ untold' = {p \in untold \cup amiss : UserOf[p[1]] \notin users}
  BY DEF EmitConversationsUpdate, Apart
<1>2. stale' \subseteq stale
  BY <1>1
<1>3. ASSUME NEW s \in Sockets, NEW c \in Conversations, <<s, c>> \in stale' \ untold'
      PROVE  UserOf[s] \notin users /\ <<s, c>> \notin untold /\ <<s, c>> \notin amiss
  BY <1>1, <1>3
<1>4. \A t \in Requests \ {r} : request'[t] = request[t]
  BY DEF Becomes, ChangeInvariant, GatewayInvariant, OwnerInvariant, TypeOK
<1>5. ASSUME NEW t \in Requests, NEW s \in Sockets, NEW c \in Conversations,
             <<s, c>> \in stale' \ untold', Tells(t, s, c)
      PROVE  request'[t].step # "ended"
  <2>1. t # r
    BY <1>2, <1>3, <1>5
  <2> QED BY <1>4, <1>5, <2>1 DEF Tells, WillTell
<1> QED BY <1>2, <1>3, <1>5, ChangeKeeps

\* conversations.update on CONVERSATION_CREATED, PARTICIPANT_ADDED, PARTICIPANT_REMOVED
\* and after a text: whom the call was going to tell is among the users it names.
LEMMA AnnounceKeeps ==
  ASSUME ChangeInvariant, [FeedNext]_feedvars, NEW r \in Requests,
         HandleConversationCreated(r) \/ FeedAdded(r) \/ FeedRemoved(r) \/ FeedSent(r)
  PROVE  ChangeInvariant'
<1> PICK q : q = request[r]
  OBVIOUS
<1>1. CASE HandleConversationCreated(r)
  <2>1. Becomes(r, Ended) /\ EmitConversationsUpdate(q.seen, {}) /\ q.step = "create.committed"
    BY <1>1 DEF HandleConversationCreated, EmitCreated, At
  <2>2. \A s \in Sockets, c \in Conversations : Tells(r, s, c) => UserOf[s] \in q.seen
    BY <2>1 DEF Tells, WillTell
  <2> QED BY <2>1, <2>2, FrameTells
<1>2. CASE FeedAdded(r)
  <2>1. Becomes(r, Ended) /\ EmitConversationsUpdate(q.seen, {}) /\ q.step = "add.reread"
    BY <1>2 DEF FeedAdded, HandleParticipantAdded, EmitAdded, At
  <2>2. \A s \in Sockets, c \in Conversations : Tells(r, s, c) => UserOf[s] \in q.seen
    BY <2>1 DEF Tells, WillTell
  <2> QED BY <2>1, <2>2, FrameTells
<1>3. CASE FeedRemoved(r)
  <2> DEFINE told == q.users \cup q.seen
  <2>1. Becomes(r, Ended) /\ EmitConversationsUpdate(told, {}) /\ q.step = "remove.reread"
    BY <1>3 DEF FeedRemoved, HandleParticipantRemoved, EmitRemoved, At, ToldOfRemoval
  <2>2. \A s \in Sockets, c \in Conversations : Tells(r, s, c) => UserOf[s] \in told
    BY <2>1 DEF Tells, WillTell
  <2> HIDE DEF told
  <2> QED BY <2>1, <2>2, FrameTells
<1>4. CASE FeedSent(r)
  <2> PICK current : current = socket[sender[r]].current
    OBVIOUS
  <2> PICK amiss : amiss = IF current.conv # q.conv \/ current.users # ActiveIn(q.conv)
                           THEN About(q.conv, stale) ELSE {}
    OBVIOUS
  <2>1. Becomes(r, Ended) /\ EmitConversationsUpdate(current.users, amiss)
    BY <1>4 DEF FeedSent, FinishSendMessage, ReturnMessage
  <2>2. q.step = "send.committed"
    BY <1>4 DEF FeedSent, FinishSendMessage, ReturnMessage, At
  <2>3. ASSUME NEW s \in Sockets, NEW c \in Conversations, <<s, c>> \in stale, Tells(r, s, c)
        PROVE  UserOf[s] \in current.users \/ <<s, c>> \in amiss
    <3>1. q.conv = c /\ UserOf[s] \in ActiveIn(c)
      BY <2>2, <2>3 DEF Tells, WillTell
    <3> QED BY <2>3, <3>1 DEF About
  <2> QED BY <2>1, <2>3, FrameTells
<1> QED BY <1>1, <1>2, <1>3, <1>4

\* A commit is told by the call that makes it to all who take part before or after.
LEMMA CommitTells ==
  ASSUME OwnerInvariant, UnopenedIsEmpty, NEW r \in Requests, Work(r), messages' # messages,
         NEW c, c = request[r].conv,
         NEW s \in Sockets, UserOf[s] \in ActiveIn(c) \cup ActiveIn(c)'
  PROVE  Tells(r, s, c)'
<1> PICK q : q = request[r]
  OBVIOUS
<1> PICK u : u = UserOf[s]
  OBVIOUS
<1>1. q \in Request /\ request \in [Requests -> Request] /\ u \in Users /\ CallOK(q)
  BY UserOfAssumption DEF OwnerInvariant, TypeOK
<1>2. participant \in [Conversations -> [Users -> Row]]
  BY DEF OwnerInvariant, TypeOK
<1>3. CASE CommitCreate(r)
  <2>1. q.step = "create.checked" /\ c \in Conversations /\ kind[c] = "NONE"
    BY <1>1, <1>3 DEF CommitCreate, At, CallOK
  <2>2. ActiveIn(c) = {}
    BY <2>1 DEF UnopenedIsEmpty
  <2>3. participant'[c][u] = InitialRows(q.by, q.users)[u]
    BY <1>1, <1>2, <1>3, <2>1 DEF CommitCreate
  <2>4. u \in q.users \cup {q.by}
    BY <1>1, <2>2, <2>3 DEF InitialRows, ActiveIn, NoRow
  <2>5. request'[r] = [q EXCEPT !.step = "create.committed", !.seen = q.users \cup {q.by}]
    BY <1>1, <1>3 DEF CommitCreate, Becomes
  <2>6. /\ request'[r].step = "create.committed" /\ request'[r].conv = c
        /\ request'[r].seen = q.users \cup {q.by}
    BY <1>1, <2>5 DEF Request
  <2> QED BY <2>4, <2>6 DEF Tells, WillTell
<1>4. CASE CommitAdd(r)
  <2>1. c \in Conversations
    BY <1>1, <1>4 DEF CommitAdd, At, CallOK
  <2>2. participant' = [participant EXCEPT ![c] = RowsAfterAdd(c, q.users)]
    BY <1>4 DEF CommitAdd, store
  <2>3. participant'[c][u] = IF u \in q.users THEN MemberRow ELSE participant[c][u]
    BY <1>1, <1>2, <2>1, <2>2 DEF RowsAfterAdd
  <2>4. u \in ActiveIn(c)'
    BY <1>1, <2>3 DEF ActiveIn, MemberRow
  <2>5. request'[r] = [q EXCEPT !.step = "add.committed"]
    BY <1>1, <1>4 DEF CommitAdd, Becomes, store
  <2>6. request'[r].step = "add.committed" /\ request'[r].conv = c
    BY <1>1, <2>5 DEF Request
  <2> QED BY <2>4, <2>6 DEF Tells, WillTell
<1>5. CASE CommitRemove(r)
  <2>1. c \in Conversations
    BY <1>1, <1>5 DEF CommitRemove, At, CallOK
  <2>2. participant'[c][u] = IF u \in q.users THEN Departed(participant[c][u])
                                              ELSE participant[c][u]
    BY <1>1, <1>2, <1>5, <2>1 DEF CommitRemove, RowsAfterRemove
  <2>3. u \in q.users \/ u \in ActiveIn(c)'
    BY <1>1, <2>2 DEF ActiveIn
  <2>4. request'[r] = [q EXCEPT !.step = "remove.committed"]
    BY <1>1, <1>5 DEF CommitRemove, Becomes
  <2>5. /\ request'[r].step = "remove.committed" /\ request'[r].conv = c
        /\ request'[r].users = q.users
    BY <1>1, <2>4 DEF Request
  <2> QED BY <2>3, <2>5 DEF Tells, WillTell
<1>6. CASE CommitSend(r)
  <2>1. u \in ActiveIn(c)'
    BY <1>6 DEF CommitSend, ActiveIn
  <2>2. request'[r] = [q EXCEPT !.step = "send.committed", !.seen = ActiveIn(c)]
    BY <1>1, <1>6 DEF CommitSend, Becomes
  <2>3. request'[r].step = "send.committed" /\ request'[r].conv = c
    BY <1>1, <2>2 DEF Request
  <2> QED BY <2>1, <2>3 DEF Tells, WillTell
<1> QED
  BY <1>3, <1>4, <1>5, <1>6
     DEF Work, ReadLeft, RereadAdd, RereadRemove, Reread, store

\* A step of the store that ends a call leaves no change untold, unless history
\* notes it: a removal's re-read is not refused, an addition's is noted.
LEMMA WorkKeeps ==
  ASSUME ChangeInvariant, [FeedNext]_feedvars, NEW r \in Requests, FeedWork(r)
  PROVE  ChangeInvariant'
<1> PICK q : q = request[r]
  OBVIOUS
<1>1. Work(r) /\ OwnerInvariant /\ GatewayInvariant /\ request \in [Requests -> Request]
  BY DEF FeedWork, ChangeInvariant, GatewayInvariant, OwnerInvariant, TypeOK
<1>2. \A t \in Requests \ {r} : request'[t] = request[t]
  BY <1>1, WorkFacts
<1>3. untold \subseteq untold'
  BY DEF FeedWork
<1>4. CASE messages' = messages
  <2>1. stale' = stale
    BY <1>4 DEF FeedWork
  <2>2. ASSUME NEW t \in Requests, NEW s \in Sockets, NEW c \in Conversations,
               <<s, c>> \in stale' \ untold', Tells(t, s, c)
        PROVE  request'[t].step # "ended"
    <3>1. CASE t # r
      BY <1>2, <2>2, <3>1 DEF Tells, WillTell
    <3>2. CASE t = r /\ request'[r].step = "ended"
      <4>1. q.conv = c /\ q.step \in {"add.committed", "remove.committed"}
        BY <1>1, <2>2, <3>2 DEF Tells, WillTell, Work, CommitCreate, ReadLeft, CommitAdd,
                                CommitRemove, CommitSend, RereadAdd, RereadRemove, Reread, At
      <4>2. CASE q.step = "add.committed"
        <5>1. untold' = untold \cup About(c, stale)
          BY <3>2, <4>1, <4>2 DEF FeedWork, At
        <5> QED BY <2>1, <2>2, <5>1 DEF About
      <4>3. CASE q.step = "remove.committed"
        <5>1. q.by \in ActiveIn(q.conv)
          BY <1>1, <4>3, RemoverStays DEF At
        <5>2. Becomes(r, [q EXCEPT !.step = "remove.reread", !.seen = ActiveIn(q.conv)])
          BY <1>1, <4>3, <5>1 DEF Work, CommitCreate, ReadLeft, CommitAdd, CommitRemove,
                                  CommitSend, RereadAdd, RereadRemove, Reread, At, Proceed
        <5>3. request'[r].step = "remove.reread"
          BY <1>1, <5>2 DEF Becomes, Request
        <5> QED BY <3>2, <5>3
      <4> QED BY <4>1, <4>2, <4>3
    <3> QED BY <3>1, <3>2
  <2> QED BY <1>3, <2>1, <2>2, ChangeKeeps
<1>5. CASE messages' # messages
  <2> DEFINE k == request[r].conv
             concerned == {s \in Sockets : /\ socket[s].connected
                                           /\ UserOf[s] \in ActiveIn(k) \cup ActiveIn(k)'}
  <2>1. stale' = stale \cup (concerned \X {k})
    BY <1>5 DEF FeedWork
  <2>2. [Next]_vars /\ GatewayInvariant' /\ UnopenedIsEmpty'
    BY FeedIsGateway, ServiceStep, GatewayStep, UnopenedStays DEF ChangeInvariant, GatewayInvariant
  <2>3. q.step \in {"create.checked", "add.split", "remove.checked", "send.checked"}
    BY <1>1, <1>5 DEF Work, CommitCreate, ReadLeft, CommitAdd, CommitRemove, CommitSend,
                      RereadAdd, RereadRemove, Reread, At, store
  <2>4. k \in Conversations
    BY <1>1, <2>3 DEF OwnerInvariant, CallOK
  <2>5. stale' \subseteq Sockets \X Conversations
    BY <2>1, <2>4 DEF ChangeInvariant
  <2>6. ASSUME NEW s \in Sockets, NEW c \in Conversations, <<s, c>> \in stale' \ untold'
        PROVE  \E t \in Requests : Tells(t, s, c)'
    <3>1. CASE s \in concerned /\ c = k
      <4>1. request'[r].conv = c
        BY <1>1, <1>5, <3>1, WorkFacts
      <4>2. UserOf[s] \in ActiveIn(c) \cup ActiveIn(c)'
        BY <3>1, <4>1 DEF ActiveIn
      <4>3. Tells(r, s, c)'
        BY <1>1, <1>5, <3>1, <4>2, CommitTells DEF ChangeInvariant
      <4> QED BY <4>3
    <3>2. CASE <<s, c>> \in stale
      <4>1. PICK t \in Requests : Tells(t, s, c)
        BY <1>3, <2>6, <3>2 DEF ChangeInvariant
      <4>2. t # r
        BY <2>3, <4>1 DEF Tells, WillTell
      <4>3. request'[t].step # "ended"
        BY <1>2, <4>1, <4>2 DEF Tells, WillTell
      <4> QED BY <1>1, <2>2, <4>1, <4>3, TellersStay DEF ChangeInvariant
    <3> QED BY <2>1, <2>6, <3>1, <3>2
  <2> QED BY <2>2, <2>5, <2>6 DEF ChangeInvariant
<1> QED BY <1>4, <1>5

\* A call that fails after its commit is noted with what it leaves untold.
LEMMA AbortKeeps ==
  ASSUME ChangeInvariant, [FeedNext]_feedvars, NEW r \in Requests, FeedAbort(r)
  PROVE  ChangeInvariant'
<1>1. Becomes(r, Ended) /\ stale' = stale /\ untold \subseteq untold'
  BY DEF FeedAbort, GwAbort, Abort
<1>2. \A t \in Requests \ {r} : request'[t] = request[t]
  BY <1>1 DEF Becomes, ChangeInvariant, GatewayInvariant, OwnerInvariant, TypeOK
<1>3. ASSUME NEW t \in Requests, NEW s \in Sockets, NEW c \in Conversations,
             <<s, c>> \in stale' \ untold', Tells(t, s, c)
      PROVE  request'[t].step # "ended"
  <2>1. CASE t = r
    <3>1. request[r].conv = c /\ request[r].step \in Telling \cup {"create.committed"}
      BY <1>3, <2>1 DEF Tells, WillTell, Telling
    <3>2. untold' = untold \cup About(c, stale)
      BY <3>1 DEF FeedAbort
    <3> QED BY <1>1, <1>3, <3>2 DEF About
  <2>2. CASE t # r
    BY <1>2, <1>3, <2>2 DEF Tells, WillTell
  <2> QED BY <2>1, <2>2
<1> QED BY <1>1, <1>3, ChangeKeeps

\* Steps that end no call that was going to tell.
LEMMA QuietKeeps ==
  ASSUME ChangeInvariant, [FeedNext]_feedvars, stale' \subseteq stale,
         \A s \in Sockets, c \in Conversations :
           <<s, c>> \in stale' \ untold' => <<s, c>> \notin untold,
         \A r \in Requests : request'[r] = request[r] \/ request[r].step = "idle"
  PROVE  ChangeInvariant'
<1>1. \A r \in Requests, s \in Sockets, c \in Conversations :
        Tells(r, s, c) => request'[r].step # "ended"
  BY DEF Tells, WillTell
<1> QED BY <1>1, ChangeKeeps

\* A call begins.
LEMMA BeginKeeps ==
  ASSUME ChangeInvariant, [FeedNext]_feedvars, NEW r \in Requests, UNCHANGED feed,
         BeginHttp(r) \/ BeginSendMessage(r)
  PROVE  ChangeInvariant'
<1>1. request \in [Requests -> Request]
  BY DEF ChangeInvariant, GatewayInvariant, OwnerInvariant, TypeOK
<1>2. \E q : Becomes(r, q)
  BY DEF BeginHttp, RefuseIds, BeginCreate, BeginAdd, BeginRemove, Proceed,
         BeginSendMessage, StartSend
<1>3. request[r].step = "idle"
  BY DEF BeginHttp, RefuseIds, BeginCreate, BeginAdd, BeginRemove, CanBegin, At,
         BeginSendMessage, StartSend
<1>4. \A t \in Requests \ {r} : request'[t] = request[t]
  BY <1>1, <1>2 DEF Becomes
<1>5. stale' = stale /\ untold' = untold
  BY DEF feed
<1>6. \A t \in Requests : request'[t] = request[t] \/ request[t].step = "idle"
  BY <1>3, <1>4
<1> QED BY <1>5, <1>6, QuietKeeps

LEMMA ChangeStep ==
  ASSUME ChangeInvariant, [FeedNext]_feedvars
  PROVE  ChangeInvariant'
<1>1. CASE UNCHANGED <<vars, stale, untold>>
  BY <1>1, QuietKeeps DEF vars
<1>2. ASSUME NEW r \in Requests, FeedRequest(r) PROVE ChangeInvariant'
  BY <1>2, AnnounceKeeps, WorkKeeps, AbortKeeps, BeginKeeps DEF FeedRequest
<1>3. ASSUME NEW j \in Joins, (BeginJoin(j) /\ UNCHANGED feed) \/ FeedFinishJoin(j)
      PROVE  ChangeInvariant'
  BY <1>1, <1>3 DEF BeginJoin, FeedFinishJoin, FinishJoin, feed
<1>4. ASSUME NEW s \in Sockets, FeedLeave(s) \/ LoadHistory(s) PROVE ChangeInvariant'
  BY <1>1, <1>4 DEF FeedLeave, HandleLeave, LoadHistory, gwvars
<1>5. ASSUME NEW s \in Sockets, FeedDisconnect(s) PROVE ChangeInvariant'
  <2>1. /\ stale' = {p \in stale : p[1] # s} /\ untold' = {p \in untold : p[1] # s}
        /\ request' = request
    BY <1>5 DEF FeedDisconnect, Disconnect, vars
  <2>2. stale' \subseteq stale
    BY <2>1
  <2>3. \A t \in Sockets, c \in Conversations :
          <<t, c>> \in stale' \ untold' => <<t, c>> \notin untold
    BY <2>1
  <2> QED BY <2>1, <2>2, <2>3, QuietKeeps
<1>6. CASE AllAnswered /\ UNCHANGED feed
  BY <1>1, <1>6 DEF AllAnswered, feed
<1>7. CASE UNCHANGED feedvars
  BY <1>1, <1>7 DEF feedvars, feed, gwvars
<1> QED BY <1>2, <1>3, <1>4, <1>5, <1>6, <1>7 DEF FeedNext

(***************************************************************************)
(* The theorems.                                                           *)
(***************************************************************************)

\* The frames are the gateway's: what is proved of it holds with them added.
THEOREM FeedImplementsGateway == FeedSpec => GwSpec
<1>1. FeedInit => GwInit
  BY DEF FeedInit
<1>2. [FeedNext]_feedvars => [GwNext]_gwvars
  BY FeedIsGateway
<1> QED BY <1>1, <1>2, PTL DEF FeedSpec, GwSpec

\* What is stored while frames are sent and tabs come and go is a log of conversations
\* kept one after another: the frames' steps are the gateway's, its steps are the
\* service's, and each of the service's is a step of the log or none.
THEOREM FeedImplementsLog == FeedSpec => ImplementsLog
BY FeedImplementsGateway, GatewayImplementsService, StoreImplementsLog, PTL

\* handleJoinConversation, message.new and activeConversation.update: a tab that
\* has joined and then loaded a conversation is told of all that is stored later,
\* if it joined by the id as the database spells it.
THEOREM JoinedTabsMissNothing == FeedSpec => []JoinedTabMissesNothing
<1>1. FeedInit => FeedInvariant
  <2> SUFFICES ASSUME FeedInit PROVE FeedInvariant
    OBVIOUS
  <2>1. GatewayInvariant
    BY InitGateway DEF FeedInit
  <2>2. FeedTypeOK /\ JoinedTabMissesNothing
    BY DEF FeedInit, FeedEmpty, FeedTypeOK, JoinedTabMissesNothing
  <2> QED BY <2>1, <2>2 DEF FeedInvariant
<1>2. FeedInvariant /\ [FeedNext]_feedvars => FeedInvariant'
  BY FeedStep
<1>3. FeedInvariant => JoinedTabMissesNothing
  BY DEF FeedInvariant
<1> QED BY <1>1, <1>2, <1>3, PTL DEF FeedSpec

\* emitConversationsUpdate: once nothing is under way, every open tab of everybody
\* a change concerned has been told to load since, however the frames overtook
\* each other, unless something went wrong with the call that was to tell.
THEOREM ChangesAreTold == FeedSpec => []NobodyMissesAChange
<1>1. FeedInit => ChangeInvariant
  <2> SUFFICES ASSUME FeedInit PROVE ChangeInvariant
    OBVIOUS
  <2>1. GatewayInvariant
    BY InitGateway DEF FeedInit
  <2>2. UnopenedIsEmpty
    BY DEF FeedInit, GwInit, Init, UnopenedIsEmpty, RowsIn, ActiveIn, NoRow
  <2>3. stale = {}
    BY DEF FeedInit, FeedEmpty
  <2> QED BY <2>1, <2>2, <2>3 DEF ChangeInvariant
<1>2. ChangeInvariant /\ [FeedNext]_feedvars => ChangeInvariant'
  BY ChangeStep
<1>3. ChangeInvariant => NobodyMissesAChange
  <2> SUFFICES ASSUME ChangeInvariant, InFlight = {}, NEW p \in stale, p \notin untold
               PROVE  FALSE
    BY DEF NobodyMissesAChange
  <2>1. PICK s \in Sockets, c \in Conversations : p = <<s, c>>
    BY DEF ChangeInvariant
  <2>2. PICK r \in Requests : Tells(r, s, c)
    BY <2>1 DEF ChangeInvariant
  <2> QED BY <2>2 DEF Tells, WillTell, InFlight
<1> QED BY <1>1, <1>2, <1>3, PTL DEF FeedSpec
=============================================================================
