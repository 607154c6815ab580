----------------------------- MODULE ChatGateway -----------------------------
(***************************************************************************)
(* The WebSocket gateway in front of the conversation store: ChatGateway   *)
(* and ChatListener composed with ChatService.                             *)
(*                                                                         *)
(* The gateway remembers, in the memory of the process, which conversation *)
(* each socket has open (client.data.currentConversation, with a copy of   *)
(* its participants) and which conversation room the socket is in.  Every  *)
(* handler runs without interruption between two awaits.  The events of    *)
(* ChatService are emitted synchronously, so their handlers are part of    *)
(* the step of the call that emits them.                                   *)
(*                                                                         *)
(* A socket authenticates as one user and is in that user's personal room  *)
(* from its connection to its disconnection; a user may have several.      *)
(*                                                                         *)
(* The room of a conversation is named by its id as text.  A join uses the *)
(* text the client sent, everything else the one the database returns, and *)
(* the validation and the look-up ignore the case of letters: a socket may *)
(* be in a room that nothing is ever sent to.                              *)
(***************************************************************************)
EXTENDS ChatService

CONSTANTS
  Sockets,   \* the connections made to the gateway
  UserOf,    \* UserOf[s]: the user socket s authenticated as
  Joins      \* the conversation.join events the sockets send

ASSUME UserOfAssumption == UserOf \in [Sockets -> Users]
ASSUME NoneAssumption == None \notin Conversations

VARIABLES
  socket,    \* socket[s]: what the process holds for s
  join,      \* join[j]: how far the handler of join event j is
  sender,    \* sender[r]: the socket whose message call r creates, or None
  missed     \* history: pairs <<s, c>> whose kick out of c passed s by

gateway == <<socket, join, sender, missed>>
gwvars == <<vars, gateway>>

\* How an id is spelt: as the database does, or in one of the other ways.
Spellings == {"public", "other"}

\* The room of c that frames are sent to: that of its publicId.
Room(c) == <<c, "public">>

NoConversation == [conv |-> None, users |-> {}]

Socket == [connected : BOOLEAN,
           rooms     : SUBSET (Conversations \X Spellings),   \* the conversation rooms s is in
           current   : [conv : Conversations \cup {None}, users : SUBSET Users]]

\* A join event: not sent yet; its conversation read; handled.
Join == [step     : {"idle", "read", "ended"},
         socket   : Sockets \cup {None},
         conv     : Conversations \cup {None},
         spelling : Spellings,
         users    : SUBSET Users]
IdleJoin == [step |-> "idle", socket |-> None, conv |-> None, spelling |-> "public", users |-> {}]
EndedJoin == [IdleJoin EXCEPT !.step = "ended"]

IsRoomed(s) == socket[s].current.conv # None

NoEvents ==
  /\ socket = [s \in Sockets |->
                 [connected |-> TRUE, rooms |-> {}, current |-> NoConversation]]
  /\ join = [j \in Joins |-> IdleJoin]
  /\ sender = [r \in Requests |-> None]
  /\ missed = {}

GwInit == Init /\ NoEvents

-----------------------------------------------------------------------------
(***************************************************************************)
(* conversation.join: the read is awaited, everything after it is one step *)
(* on what the read returned.  If the user does not take part, or the read *)
(* fails, the client gets from-server:error and nothing changes.           *)
(***************************************************************************)
\* Mutated form: anybody may read a conversation to join it.
BeginJoin_Anybody(j) ==
  /\ join[j].step = "idle"
  /\ \E s \in Sockets, c \in Existing, spelling \in Spellings :
       /\ socket[s].connected
       /\ join' = [join EXCEPT ![j] = [step |-> "read", socket |-> s, conv |-> c,
                                      spelling |-> spelling, users |-> ActiveIn(c)]]
  /\ UNCHANGED <<vars, socket, sender, missed>>

BeginJoin(j) ==
  /\ join[j].step = "idle"
  /\ \E s \in Sockets, c \in Existing, spelling \in Spellings :
       /\ socket[s].connected
       /\ join' = [join EXCEPT ![j] =
            IF UserOf[s] \in ActiveIn(c)
            THEN [step |-> "read", socket |-> s, conv |-> c, spelling |-> spelling,
                  users |-> ActiveIn(c)]
            ELSE EndedJoin]
  /\ UNCHANGED <<vars, socket, sender, missed>>

\* Mutated form: the rooms joined before are not left.
Entered_KeepsRooms(s, c, spelling, users) ==
  [socket[s] EXCEPT
    !.rooms = IF socket[s].connected THEN @ \cup {<<c, spelling>>} ELSE @,
    !.current = [conv |-> c, users |-> users]]

\* All conversation rooms are left for the one named as the client spelt the id;
\* the data is set to the publicId read.  On a socket that has disconnected
\* meanwhile join does nothing, but the data is set all the same.
Entered(s, c, spelling, users) ==
  [socket[s] EXCEPT
    !.rooms = IF socket[s].connected THEN {<<c, spelling>>} ELSE @,
    !.current = [conv |-> c, users |-> users]]

FinishJoin(j) ==
  LET h == join[j] IN
  /\ h.step = "read"
  /\ socket' = [socket EXCEPT
       ![h.socket] = Entered(h.socket, h.conv, h.spelling, h.users)]
  /\ join' = [join EXCEPT ![j] = EndedJoin]
  /\ UNCHANGED <<vars, sender, missed>>

\* Mutated form: the socket leaves no room and keeps no data.
Outside_DropsAll(k) == NoConversation

\* leaveConversation: out of the room of the current publicId, forget it.  A room
\* named by another spelling is not left.
Outside(k) == [k EXCEPT !.rooms = @ \ {Room(k.current.conv)}, !.current = NoConversation]

HandleLeave(s) ==
  /\ socket[s].connected /\ IsRoomed(s)
  /\ socket' = [socket EXCEPT ![s] = Outside(@)]
  /\ UNCHANGED <<vars, join, sender, missed>>

\* socket.io takes a closing socket out of all rooms; the handlers that still
\* run for it keep its data.
Disconnect(s) ==
  /\ socket[s].connected
  /\ socket' = [socket EXCEPT ![s].connected = FALSE, ![s].rooms = {}]
  /\ UNCHANGED <<vars, join, sender, missed>>

-----------------------------------------------------------------------------
(***************************************************************************)
(* message.new: createMessage for the conversation the socket has open.    *)
(***************************************************************************)
BeginSendMessage(r) ==
  /\ \E s \in Sockets :
       /\ socket[s].connected /\ IsRoomed(s)
       /\ StartSend(r, UserOf[s], socket[s].current.conv)
       /\ sender' = [sender EXCEPT ![r] = s]
  /\ UNCHANGED <<socket, join, missed>>

\* The message goes to the room captured before the await, conversations.update
\* to the participants of whatever conversation the socket has open by now; if
\* it has none any more, reading them throws.  Nothing the server holds changes.
FinishSendMessage(r) ==
  /\ ReturnMessage(r)
  /\ UNCHANGED gateway

(***************************************************************************)
(* Events of the store.                                                    *)
(***************************************************************************)
\* Sockets in the room of c get the list of participants the event carries.
Refreshed(k, c, users) ==
  IF Room(c) \in k.rooms /\ k.current.conv # None THEN [k EXCEPT !.current.users = users] ELSE k

HandleParticipantAdded(r) ==
  /\ EmitAdded(r)
  /\ socket' = [s \in Sockets |-> Refreshed(socket[s], request[r].conv, request[r].seen)]
  /\ UNCHANGED <<join, sender, missed>>

\* Mutated form: only one tab of the removed user is found.
Kicked_OneTab(s, c, users) ==
  IF /\ UserOf[s] \in users /\ Room(c) \in socket[s].rooms /\ IsRoomed(s)
     /\ s = CHOOSE t \in Sockets : UserOf[t] \in users
  THEN Outside(socket[s]) ELSE socket[s]

\* The removed user's sockets that are in the room of c leave it.
Kicked(s, c, users) ==
  IF UserOf[s] \in users /\ Room(c) \in socket[s].rooms /\ IsRoomed(s)
  THEN Outside(socket[s]) ELSE socket[s]

SocketsOf(users) == {s \in Sockets : UserOf[s] \in users}

\* Sockets of the removed user that have read c to join its room but not entered yet.
Reading(c, users) ==
  {s \in SocketsOf(users) :
     \E j \in Joins : /\ join[j].step = "read" /\ join[j].socket = s
                      /\ join[j].conv = c /\ join[j].spelling = "public"}

HandleParticipantRemoved(r) ==
  LET q == request[r] IN
  /\ EmitRemoved(r)
  /\ socket' = [s \in Sockets |-> Refreshed(Kicked(s, q.conv, q.users), q.conv, q.seen)]
  /\ missed' = missed \cup (Reading(q.conv, q.users) \X {q.conv})
  /\ UNCHANGED <<join, sender>>

\* A removal that fails between its commit and its event kicks nobody.
GwAbort(r) ==
  LET q == request[r] IN
  /\ Abort(r)
  /\ missed' = IF q.step \in {"remove.committed", "remove.reread"}
               THEN missed \cup (SocketsOf(q.users) \X {q.conv})
               ELSE missed
  /\ UNCHANGED <<socket, join, sender>>

-----------------------------------------------------------------------------
GwRequest(r) ==
  \/ BeginHttp(r) /\ UNCHANGED gateway
  \/ BeginSendMessage(r)
  \/ Work(r) /\ UNCHANGED gateway
  \/ EmitCreated(r) /\ UNCHANGED gateway
  \/ HandleParticipantAdded(r)
  \/ HandleParticipantRemoved(r)
  \/ FinishSendMessage(r)
  \/ GwAbort(r)

GwNext ==
  \/ \E r \in Requests : GwRequest(r)
  \/ \E j \in Joins : BeginJoin(j) \/ FinishJoin(j)
  \/ \E s \in Sockets : HandleLeave(s) \/ Disconnect(s)
  \/ AllAnswered /\ UNCHANGED gateway

GwSpec == GwInit /\ [][GwNext]_gwvars

\* A database operation under way completes and its handler is resumed: the
\* event loop starves no continuation.  Clients need not do anything.
Fairness ==
  /\ \A r \in Requests :
       /\ WF_gwvars(Work(r) /\ UNCHANGED gateway)
       /\ WF_gwvars(EmitCreated(r) /\ UNCHANGED gateway)
       /\ WF_gwvars(HandleParticipantAdded(r))
       /\ WF_gwvars(HandleParticipantRemoved(r))
       /\ WF_gwvars(FinishSendMessage(r))
  /\ \A j \in Joins : WF_gwvars(FinishJoin(j))

-----------------------------------------------------------------------------
(***************************************************************************)
(* Properties.                                                             *)
(***************************************************************************)

\* What the process holds for sockets and join events keeps its type.
GwTypeOK ==
  /\ TypeOK
  /\ socket \in [Sockets -> Socket]
  /\ join \in [Joins -> Join]
  /\ sender \in [Requests -> Sockets \cup {None}]
  /\ missed \subseteq Sockets \X Conversations

\* A connected socket with a conversation open is in one room, named after that
\* conversation in one spelling or another; with none open it is in no room that
\* anything is sent to; and one that has disconnected is in no room at all.  So the
\* events a socket gets and the data they overwrite concern the same conversation.
\* (leaveConversation and handleParticipantsUpdated rely on it: neither compares
\* the room with currentConversation.)
RoomIsCurrent ==
  \A s \in Sockets :
    /\ socket[s].connected /\ IsRoomed(s) =>
         \E spelling \in Spellings : socket[s].rooms = {<<socket[s].current.conv, spelling>>}
    /\ ~IsRoomed(s) => \A c \in Conversations : Room(c) \notin socket[s].rooms
    /\ ~socket[s].connected => socket[s].rooms = {}

RemovalUnderway(c, u) ==
  \E r \in Requests : /\ request[r].step \in {"remove.committed", "remove.reread"}
                      /\ request[r].conv = c /\ u \in request[r].users

MayListen(s, c) ==
  \/ UserOf[s] \in ActiveIn(c)
  \/ RemovalUnderway(c, UserOf[s])
  \/ <<s, c>> \in missed

\* A socket in the room of c belongs to a participant of c, to a user whose
\* removal has not been announced yet, or it was passed by: its join had read
\* before the removal and entered after the kick, or the removal failed before
\* its event.  There is no other way to stay in a room one was removed from,
\* from any number of tabs.
NobodyLingers ==
  \A s \in Sockets, c \in Conversations : Room(c) \in socket[s].rooms => MayListen(s, c)

\* Why NobodyLingers holds, on top of what the calls rely on: open conversations
\* exist, and a join that has read is let into the room by the same right as a
\* socket that has entered.
JoinOK(h) ==
  h.step = "read" => /\ h.socket \in Sockets /\ h.conv \in Existing
                     /\ h.spelling = "public" => MayListen(h.socket, h.conv)

GatewayInvariant ==
  /\ OwnerInvariant
  /\ GwTypeOK
  /\ RoomIsCurrent
  /\ NobodyLingers
  /\ \A s \in Sockets : socket[s].current.conv \in Existing \cup {None}
  /\ \A j \in Joins : JoinOK(join[j])

\* A socket that was not passed by leaves the room it was removed from, or its
\* user is let in again.
KickedInTheEnd ==
  \A s \in Sockets, c \in Conversations :
    (Room(c) \in socket[s].rooms /\ UserOf[s] \notin ActiveIn(c))
      ~> \/ Room(c) \notin socket[s].rooms \/ UserOf[s] \in ActiveIn(c)
         \/ <<s, c>> \in missed

\* What RoomedSocket asserts of a socket whose message is being sent: it has a
\* conversation open when handleSendMessage goes on after createMessage.
SenderIsRoomed ==
  \A r \in Requests : At(r, "send.committed") => IsRoomed(sender[r])

Quiet == /\ InFlight = {}
         /\ \A j \in Joins : join[j].step # "read"

\* TODO item 7: additions and removals update the participants every socket in
\* the conversation's room holds, so with nothing under way the copies are right.
CopiesAreCurrent ==
  Quiet => \A s \in Sockets :
    Room(socket[s].current.conv) \in socket[s].rooms =>
      socket[s].current.users = ActiveIn(socket[s].current.conv)
=============================================================================
