---------------------------- MODULE PresenceFeed ----------------------------
(***************************************************************************)
(* What clients are told about who is online, and when users were seen     *)
(* last, on top of Presence.                                               *)
(*                                                                         *)
(* After a connection and after markAsOffline the gateway looks up who     *)
(* shares a conversation with the user and sends user.online or            *)
(* user.offline to their open connections.  The look-up is awaited, so a   *)
(* frame may overtake another, or never be sent.  A client that connects   *)
(* starts from the column, which it loads with its conversations.          *)
(***************************************************************************)
EXTENDS Presence

CONSTANT Rosters   \* the sets of users who take part in one conversation

ASSUME RostersAssumption == Rosters \subseteq SUBSET Users

VARIABLES
  pending,    \* announcements whose look-up is under way
  shown,      \* shown[w][u]: whether the client on socket w shows u online
  lastSeen,   \* lastSeen[u]: the column, as the run of the server it was written in
  garbled,    \* history: users a change of whom was not announced by itself
  lastOn,     \* history: lastOn[u]: the run in which u was last marked online
  hung        \* history: users who were online when the server died

frames == <<pending, shown, garbled>>
seen == <<lastSeen, lastOn, hung>>
feedvars == <<vars, frames, seen>>

Never == 0
Run == crashes + 1   \* the runs of the server are numbered from 1

News(s, event) == [socket |-> s, event |-> event]
Blank == [u \in Users |-> FALSE]

FeedInit ==
  /\ Init
  /\ pending = {}
  /\ shown = [w \in Sockets |-> Blank]
  /\ lastSeen = [u \in Users |-> Never]
  /\ garbled = {}
  /\ lastOn = [u \in Users |-> Never]
  /\ hung = {}

\* Mutated form: the user's own room.
RelatedTo_Self(u) == {u}

\* getRelatedParticipantUserIdsByUserId: who shares a conversation with u.
RelatedTo(u) == (UNION {roster \in Rosters : u \in roster}) \ {u}

Watches(w, u) == stage[w] = "open" /\ UserOf[w] \in RelatedTo(u)

\* The column was written for u and that has not been announced yet.
Underway(u) ==
  \/ \E s \in SocketsOf(u) : stage[s] = "marked"
  \/ \E n \in pending : UserOf[n.socket] = u

\* History: the next change of u is mixed up with another, or goes unannounced.
Garbles(u, condition) == garbled' = IF condition THEN garbled \cup {u} ELSE garbled

-----------------------------------------------------------------------------
FeedMarkAsOnline(s) ==
  LET u == UserOf[s] IN
  /\ MarkAsOnline(s)
  /\ Garbles(u, Underway(u) \/ stage[s] = "lost")
  /\ lastOn' = [lastOn EXCEPT ![u] = Run]
  /\ UNCHANGED <<pending, shown, lastSeen, hung>>

\* handleConnection: the socket joins the user's room, the look-up starts.
FeedConnect(s) ==
  /\ Connect(s)
  /\ IF stage'[s] = "open"
     THEN /\ pending' = pending \cup {News(s, "online")}
          /\ shown' = [shown EXCEPT ![s] = isOnline]
          /\ UNCHANGED garbled
     ELSE /\ Garbles(UserOf[s], TRUE)
          /\ UNCHANGED <<pending, shown>>
  /\ UNCHANGED seen

FeedDisconnect(s) ==
  /\ Disconnect(s)
  /\ shown' = [shown EXCEPT ![s] = Blank]
  /\ UNCHANGED <<pending, garbled, seen>>

\* handleDisconnect goes on with the look-up when markAsOffline has committed.
FeedMarkAsOffline(s) ==
  LET u == UserOf[s] IN
  /\ MarkAsOffline(s)
  /\ Garbles(u, Underway(u))
  /\ pending' = pending \cup {News(s, "offline")}
  /\ lastSeen' = [lastSeen EXCEPT ![u] = Run]
  /\ UNCHANGED <<shown, lastOn, hung>>

\* The look-up returns: a frame to every socket in the rooms of those found.
Announce(n) ==
  LET u == UserOf[n.socket] IN
  /\ n \in pending
  /\ pending' = pending \ {n}
  /\ shown' = [w \in Sockets |->
       IF Watches(w, u) THEN [shown[w] EXCEPT ![u] = n.event = "online"] ELSE shown[w]]
  /\ UNCHANGED <<vars, garbled, seen>>

\* The look-up fails: nobody is told.
FailAnnounce(n) ==
  /\ n \in pending
  /\ pending' = pending \ {n}
  /\ Garbles(UserOf[n.socket], TRUE)
  /\ UNCHANGED <<vars, shown, seen>>

FeedCrash ==
  /\ Crash
  /\ pending' = {}
  /\ shown' = [w \in Sockets |-> Blank]
  /\ garbled' = {}
  /\ hung' = hung \cup {u \in Users : isOnline[u]}
  /\ UNCHANGED <<lastSeen, lastOn>>

\* Mutated form: updateMany has no filter.
SeenAtReset_Everybody == [u \in Users |-> Run]

\* The reset writes lastSeenAt of those who are online.
SeenAtReset == [u \in Users |-> IF isOnline[u] THEN Run ELSE lastSeen[u]]

\* Nobody is told of the reset.
FeedReset ==
  /\ ResetAllOnlineUsers
  /\ lastSeen' = SeenAtReset
  /\ garbled' = garbled \cup
       {u \in Users : isOnline[u] /\ (Underway(u) \/ \E w \in Sockets : Watches(w, u))}
  /\ UNCHANGED <<pending, shown, lastOn, hung>>

Silently(action) == action /\ UNCHANGED <<frames, seen>>

FeedNext ==
  \/ \E s \in Sockets :
       \/ Silently(Handshake(s)) \/ Silently(Reject(s)) \/ Silently(Vanish(s))
       \/ FeedMarkAsOnline(s) \/ FeedConnect(s) \/ FeedDisconnect(s)
       \/ FeedMarkAsOffline(s) \/ Silently(FailOffline(s))
  \/ \E n \in pending : Announce(n) \/ FailAnnounce(n)
  \/ FeedCrash \/ Silently(Listen) \/ FeedReset
  \/ pending = {} /\ Silently(AllClosed)

FeedSpec == FeedInit /\ [][FeedNext]_feedvars

\* As in Presence: the server is started again and its hook completes, a query
\* for a socket that has closed completes or fails.
FairFeedSpec ==
  /\ FeedSpec
  /\ WF_feedvars(Silently(Listen)) /\ WF_feedvars(FeedReset)
  /\ \A s \in Sockets : WF_feedvars(FeedMarkAsOffline(s) \/ Silently(FailOffline(s)))

-----------------------------------------------------------------------------
(***************************************************************************)
(* Properties.                                                             *)
(***************************************************************************)
\* With no change of u left to announce, everybody who shares a conversation
\* with u and is connected shows what the column says, unless changes of u
\* overlapped (a frame may overtake a newer one), a look-up failed, or the
\* column was written without an announcement: for a client that had gone, or
\* by the reset while others were already connected.
FramesAgree ==
  \A roster \in Rosters : \A w \in Sockets : \A u \in roster \ {UserOf[w]} :
    /\ UserOf[w] \in roster /\ stage[w] = "open"
    /\ ~Underway(u) /\ u \notin garbled
    => shown[w][u] = isOnline[u]

\* user.service.ts: a user who hung online over a crash is given the time of the
\* start-up.  Nobody else is: who is offline was seen last in the run of the
\* server in which they were last online.
LastSeenIsHonest ==
  server = "up" => \A u \in Users :
    lastOn[u] # Never /\ ~isOnline[u] =>
      \/ lastSeen[u] = lastOn[u]
      \/ u \in hung /\ lastSeen[u] > lastOn[u]

\* A user is shown offline beside a connection of theirs for two reasons only:
\* another of their connections has closed, or the start-up reset came after
\* they had connected; either wrote lastSeenAt in this run of the server.
OfflineHasReason ==
  \A s \in Sockets :
    LET u == UserOf[s] IN
    stage[s] \in {"marked", "open"} /\ ~isOnline[u] =>
      /\ lastSeen[u] = Run
      /\ \/ \E t \in SocketsOf(u) \ {s} : stage[t] = "closed"
         \/ crashes > 0 /\ server = "up"
=============================================================================
