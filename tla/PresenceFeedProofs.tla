------------------------- MODULE PresenceFeedProofs -------------------------
(***************************************************************************)
(* Theorems about presence: nobody is shown online without a reason, what  *)
(* clients are shown agrees with the column, and lastSeenAt is honest, for *)
(* any users, connections, rosters and crashes.                            *)
(***************************************************************************)
EXTENDS PresenceFeed, TLAPS

\* The frames leave the column, the server and the connections to Presence.
LEMMA FeedIsPresence ==
  ASSUME [FeedNext]_feedvars
  PROVE  [Next]_vars
<1>1. CASE UNCHANGED feedvars
  BY <1>1 DEF feedvars
<1>2. ASSUME NEW s \in Sockets,
             \/ Silently(Handshake(s)) \/ Silently(Reject(s)) \/ Silently(Vanish(s))
             \/ FeedMarkAsOnline(s) \/ FeedConnect(s) \/ FeedDisconnect(s)
             \/ FeedMarkAsOffline(s) \/ Silently(FailOffline(s))
      PROVE  Next
  BY <1>2 DEF Silently, FeedMarkAsOnline, FeedConnect, FeedDisconnect, FeedMarkAsOffline, Next
<1>3. ASSUME NEW n \in pending, Announce(n) \/ FailAnnounce(n) PROVE UNCHANGED vars
  BY <1>3 DEF Announce, FailAnnounce
<1>4. CASE FeedCrash \/ Silently(Listen) \/ FeedReset \/ Silently(AllClosed)
  BY <1>4 DEF FeedCrash, Silently, FeedReset, Next
<1> QED BY <1>1, <1>2, <1>3, <1>4 DEF FeedNext

(***************************************************************************)
(* The column.                                                             *)
(***************************************************************************)
PresenceInvariant == TypeOK /\ OnlineHasReason

LEMMA InitPresence == Init => PresenceInvariant
BY MaxCrashesAssumption DEF Init, PresenceInvariant, TypeOK, OnlineHasReason, Stages

\* A connection moves on, to a stage that is as good a reason as the one before.
LEMMA MovesKeep ==
  ASSUME PresenceInvariant, NEW s \in Sockets, NEW from, NEW to \in Stages, Moves(s, from, to),
         UNCHANGED <<isOnline, server, crashes>>,
         from \in {"marked", "open", "closing", "leaked"} =>
           to \in {"marked", "open", "closing", "leaked"}
  PROVE  PresenceInvariant'
<1>1. TypeOK'
  BY DEF PresenceInvariant, TypeOK, Moves
<1>2. OnlineHasReason'
  BY DEF PresenceInvariant, TypeOK, OnlineHasReason, SocketsOf, Moves
<1> QED BY <1>1, <1>2 DEF PresenceInvariant

LEMMA MarksKeep ==
  ASSUME PresenceInvariant, NEW s \in Sockets, MarkAsOnline(s) \/ MarkAsOffline(s)
  PROVE  PresenceInvariant'
<1>1. UserOf[s] \in Users
  BY UserOfAssumption
<1>2. TypeOK'
  BY <1>1 DEF PresenceInvariant, TypeOK, MarkAsOnline, MarkAsOffline, Moves, Stages
<1>3. ASSUME server' = "up", NEW u \in Users, isOnline'[u]
      PROVE  \E t \in SocketsOf(u) : stage'[t] \in {"marked", "open", "closing", "leaked"}
  <2>1. CASE u = UserOf[s]
    BY <1>1, <1>3, <2>1 DEF PresenceInvariant, TypeOK, MarkAsOnline, MarkAsOffline, Moves, SocketsOf
  <2>2. CASE u # UserOf[s]
    <3>1. isOnline[u] /\ server = "up"
      BY <1>3, <2>2 DEF PresenceInvariant, TypeOK, MarkAsOnline, MarkAsOffline
    <3>2. PICK t \in SocketsOf(u) : stage[t] \in {"marked", "open", "closing", "leaked"}
      BY <3>1 DEF PresenceInvariant, OnlineHasReason
    <3>3. stage'[t] = stage[t]
      BY <2>2, <3>2 DEF PresenceInvariant, TypeOK, MarkAsOnline, MarkAsOffline, Moves, SocketsOf
    <3> QED BY <3>2, <3>3
  <2> QED BY <2>1, <2>2
<1> QED BY <1>2, <1>3 DEF PresenceInvariant, OnlineHasReason, SocketsOf

LEMMA PresenceStep == PresenceInvariant /\ [Next]_vars => PresenceInvariant'
<1> SUFFICES ASSUME PresenceInvariant, [Next]_vars PROVE PresenceInvariant'
  OBVIOUS
<1>1. CASE UNCHANGED vars
  BY <1>1 DEF vars, PresenceInvariant, TypeOK, OnlineHasReason, SocketsOf
<1>2. ASSUME NEW s \in Sockets,
             \/ Handshake(s) \/ Reject(s) \/ Vanish(s) \/ Connect(s)
             \/ Disconnect(s) \/ FailOffline(s)
      PROVE  PresenceInvariant'
  BY <1>2, MovesKeep DEF Handshake, Reject, Vanish, Connect, Disconnect, FailOffline, Stages
<1>3. CASE Crash
  BY <1>3, MaxCrashesAssumption DEF Crash, PresenceInvariant, TypeOK, OnlineHasReason, Stages
<1>4. CASE Listen \/ ResetAllOnlineUsers
  BY <1>4 DEF Listen, ResetAllOnlineUsers, PresenceInvariant, TypeOK, OnlineHasReason
<1>5. CASE AllClosed
  BY <1>1, <1>5 DEF AllClosed
<1> QED BY <1>1, <1>2, <1>3, <1>4, <1>5, MarksKeep DEF Next

(***************************************************************************)
(* The frames.                                                             *)
(***************************************************************************)
Announcement == [socket : Sockets, event : {"online", "offline"}]

\* What keeps clients right about u: every frame under way tells what the column
\* says, and with none under way everybody has been told.
Told(u) ==
  /\ \A n \in pending : UserOf[n.socket] = u => (n.event = "online" <=> isOnline[u])
  /\ \A s \in SocketsOf(u) : stage[s] = "marked" => isOnline[u]
  /\ ~Underway(u) => \A w \in Sockets : Watches(w, u) => (shown[w][u] <=> isOnline[u])

FrameTypeOK ==
  /\ pending \subseteq Announcement
  /\ shown \in [Sockets -> [Users -> BOOLEAN]]

FramesInvariant ==
  /\ TypeOK
  /\ FrameTypeOK
  /\ \A u \in Users \ garbled : Told(u)

\* Steps of a connection that neither marks nor opens it, nor ends such a stage
\* but by closing.
LEMMA ShiftTells ==
  ASSUME FramesInvariant, NEW s \in Sockets, NEW from, NEW to, Moves(s, from, to),
         from # "marked", to \notin {"marked", "open"},
         UNCHANGED <<isOnline, pending, garbled>>,
         \A w \in Sockets \ {s} : shown'[w] = shown[w],
         NEW u \in Users \ garbled'
  PROVE  Told(u)'
<1>1. \A t \in Sockets : /\ stage'[t] = "marked" <=> stage[t] = "marked"
                         /\ stage'[t] = "open" => stage[t] = "open" /\ t # s
  BY DEF FramesInvariant, TypeOK, Moves
<1>2. Underway(u)' <=> Underway(u)
  BY <1>1 DEF Underway, SocketsOf
<1> QED BY <1>1, <1>2 DEF FramesInvariant, Told, Watches, SocketsOf, RelatedTo

\* The column is written for UserOf[s]; if something about that user was still
\* under way, history notes that frames are mixed up.
LEMMA MarkTells ==
  ASSUME FramesInvariant, NEW s \in Sockets, FeedMarkAsOnline(s) \/ FeedMarkAsOffline(s),
         NEW u \in Users \ garbled'
  PROVE  Told(u)'
<1> DEFINE v == UserOf[s]
<1>1. v \in Users
  BY UserOfAssumption
<1>2. /\ u \notin garbled /\ shown' = shown
      /\ u = v => ~Underway(u)
  BY DEF FeedMarkAsOnline, FeedMarkAsOffline, Garbles
<1>3. Told(u)
  BY <1>2 DEF FramesInvariant
<1>4. \A t \in Sockets : t # s => stage'[t] = stage[t]
  BY DEF FeedMarkAsOnline, FeedMarkAsOffline, MarkAsOnline, MarkAsOffline, Moves,
         FramesInvariant, TypeOK
<1>5. stage'[s] # "open" /\ stage[s] \notin {"marked", "open"}
  BY DEF FeedMarkAsOnline, FeedMarkAsOffline, MarkAsOnline, MarkAsOffline, Moves,
         FramesInvariant, TypeOK
<1>6. CASE u # v
  <2>1. isOnline'[u] = isOnline[u]
    BY <1>6 DEF FeedMarkAsOnline, FeedMarkAsOffline, MarkAsOnline, MarkAsOffline,
                FramesInvariant, TypeOK
  <2>2. \A n \in pending' : UserOf[n.socket] = u => n \in pending
    BY <1>6 DEF FeedMarkAsOnline, FeedMarkAsOffline, News
  <2>3. pending \subseteq pending'
    BY DEF FeedMarkAsOnline, FeedMarkAsOffline
  <2>4. Underway(u) => Underway(u)'
    BY <1>4, <1>6, <2>3 DEF Underway, SocketsOf
  <2> QED BY <1>2, <1>3, <1>4, <1>5, <1>6, <2>1, <2>2, <2>4
          DEF Told, Watches, SocketsOf, RelatedTo
<1>7. CASE u = v /\ FeedMarkAsOnline(s)
  <2>1. isOnline'[u] = TRUE /\ pending' = pending
    BY <1>1, <1>7 DEF FeedMarkAsOnline, MarkAsOnline, FramesInvariant, TypeOK
  <2>2. stage'[s] = "marked"
    BY <1>7 DEF FeedMarkAsOnline, Garbles, MarkAsOnline, Moves, FramesInvariant, TypeOK
  <2>3. \A n \in pending : UserOf[n.socket] # u
    BY <1>2, <1>7 DEF Underway
  <2>4. Underway(u)'
    BY <1>7, <2>2 DEF Underway, SocketsOf
  <2> QED BY <2>1, <2>3, <2>4 DEF Told
<1>8. CASE u = v /\ FeedMarkAsOffline(s)
  <2>1. isOnline'[u] = FALSE /\ pending' = pending \cup {News(s, "offline")}
    BY <1>1, <1>8 DEF FeedMarkAsOffline, MarkAsOffline, FramesInvariant, TypeOK
  <2>2. stage'[s] = "closed"
    BY <1>8 DEF FeedMarkAsOffline, MarkAsOffline, Moves, FramesInvariant, TypeOK
  <2>3. \A n \in pending : UserOf[n.socket] # u
    BY <1>2, <1>8 DEF Underway
  <2>4. \A t \in SocketsOf(u) : stage'[t] # "marked"
    BY <1>2, <1>4, <1>8, <2>2 DEF Underway, SocketsOf
  <2>5. Underway(u)'
    <3>1. News(s, "offline") \in pending' /\ UserOf[News(s, "offline").socket] = u
      BY <1>8, <2>1 DEF News
    <3> QED BY <3>1 DEF Underway
  <2> QED BY <2>1, <2>3, <2>4, <2>5 DEF Told, News, SocketsOf
<1> QED BY <1>6, <1>7, <1>8

\* handleConnection: the frame tells what marking wrote, and the client that
\* connects starts from the column; or the client has gone.
LEMMA ConnectTells ==
  ASSUME FramesInvariant, NEW s \in Sockets, FeedConnect(s), NEW u \in Users \ garbled'
  PROVE  Told(u)'
<1> DEFINE v == UserOf[s]
<1>1. /\ stage[s] = "marked" /\ isOnline' = isOnline
      /\ \A t \in Sockets : t # s => stage'[t] = stage[t]
  BY DEF FeedConnect, Connect, Moves, FramesInvariant, TypeOK
<1>2. stage'[s] \in {"open", "leaked"} /\ u \notin garbled
  BY DEF FeedConnect, Connect, Moves, FramesInvariant, TypeOK, Garbles
<1>3. Told(u)
  BY <1>2 DEF FramesInvariant
<1>4. pending \subseteq pending'
  BY DEF FeedConnect
<1>5. CASE u # v
  <2>1. ASSUME NEW n \in pending', UserOf[n.socket] = u PROVE n \in pending
    <3>1. pending' = pending \/ pending' = pending \cup {News(s, "online")}
      BY DEF FeedConnect
    <3>2. n # News(s, "online")
      BY <1>5, <2>1 DEF News
    <3> QED BY <2>1, <3>1, <3>2
  <2>2. Underway(u)' <=> Underway(u)
    BY <1>1, <1>4, <1>5, <2>1 DEF Underway, SocketsOf
  <2>3. ASSUME NEW w \in Sockets, Watches(w, u)', ~Underway(u)
        PROVE  shown'[w][u] <=> isOnline[u]
    <3>1. CASE w = s
      <4>1. shown'[s] = isOnline
        BY <2>3, <3>1 DEF FeedConnect, Watches, FramesInvariant, FrameTypeOK
      <4> QED BY <3>1, <4>1
    <3>2. CASE w # s
      <4>1. Watches(w, u) /\ shown'[w] = shown[w]
        BY <1>1, <2>3, <3>2 DEF FeedConnect, Watches, RelatedTo, FramesInvariant, FrameTypeOK
      <4> QED BY <1>3, <2>3, <4>1 DEF Told
    <3> QED BY <3>1, <3>2
  <2> QED BY <1>1, <1>3, <1>5, <2>1, <2>2, <2>3 DEF Told, SocketsOf
<1>6. CASE u = v
  <2>1. pending' = pending \cup {News(s, "online")}
    BY <1>6, UserOfAssumption DEF FeedConnect, Garbles
  <2>2. isOnline[u]
    BY <1>1, <1>3, <1>6 DEF Told, SocketsOf
  <2>3. Underway(u)'
    <3>1. News(s, "online") \in pending' /\ UserOf[News(s, "online").socket] = u
      BY <1>6, <2>1 DEF News
    <3> QED BY <3>1 DEF Underway
  <2> QED BY <1>1, <1>2, <1>3, <2>1, <2>2, <2>3 DEF Told, News, SocketsOf
<1> QED BY <1>5, <1>6

\* The look-up returns: all who watch are told what the column says; or it fails.
LEMMA AnnounceTells ==
  ASSUME FramesInvariant, NEW n \in pending, Announce(n) \/ FailAnnounce(n),
         NEW u \in Users \ garbled'
  PROVE  Told(u)'
<1> DEFINE v == UserOf[n.socket]
<1>1. /\ UNCHANGED vars /\ pending' = pending \ {n} /\ u \notin garbled
  BY DEF Announce, FailAnnounce, Garbles
<1>2. Told(u)
  BY <1>1 DEF FramesInvariant
<1>3. \A w \in Sockets : Watches(w, u)' <=> Watches(w, u)
  BY <1>1 DEF vars, Watches, RelatedTo
<1>4. CASE u # v
  <2>1. Underway(u)' <=> Underway(u)
    BY <1>1, <1>4 DEF Underway, SocketsOf, vars
  <2>2. \A w \in Sockets : shown'[w][u] = shown[w][u]
    BY <1>4 DEF Announce, FailAnnounce, FramesInvariant, FrameTypeOK
  <2> QED BY <1>1, <1>2, <1>3, <2>1, <2>2 DEF Told, SocketsOf, vars
<1>5. CASE u = v
  <2>1. Announce(n)
    BY <1>5, UserOfAssumption DEF FailAnnounce, Garbles
  <2>2. n.event = "online" <=> isOnline[u]
    BY <1>2, <1>5 DEF Told
  <2>3. \A w \in Sockets : Watches(w, u) => (shown'[w][u] <=> isOnline[u])
    BY <1>5, <2>1, <2>2 DEF Announce, FramesInvariant, FrameTypeOK
  <2> QED BY <1>1, <1>2, <1>3, <2>3 DEF Told, SocketsOf, vars
<1> QED BY <1>4, <1>5

\* The reset writes the column behind the back of whoever watches.
LEMMA ResetTells ==
  ASSUME FramesInvariant, FeedReset, NEW u \in Users \ garbled'
  PROVE  Told(u)'
<1>1. /\ u \notin garbled /\ UNCHANGED <<stage, pending, shown>> /\ ~isOnline'[u]
      /\ isOnline[u] => ~Underway(u) /\ \A w \in Sockets : ~Watches(w, u)
  BY DEF FeedReset, ResetAllOnlineUsers
<1>2. Told(u)
  BY <1>1 DEF FramesInvariant
<1>3. Underway(u)' <=> Underway(u)
  BY <1>1 DEF Underway, SocketsOf
<1>4. \A w \in Sockets : Watches(w, u)' <=> Watches(w, u)
  BY <1>1 DEF Watches, RelatedTo
<1>5. CASE isOnline[u]
  BY <1>1, <1>3, <1>4, <1>5 DEF Told, Underway, SocketsOf
<1>6. CASE ~isOnline[u]
  BY <1>1, <1>2, <1>3, <1>4, <1>6 DEF Told, SocketsOf
<1> QED BY <1>5, <1>6

LEMMA CrashTells ==
  ASSUME FramesInvariant, FeedCrash, NEW u \in Users
  PROVE  Told(u)'
<1>1. \A s \in Sockets : stage'[s] \in {"none", "closed"}
  BY DEF FeedCrash, Crash
<1>2. pending' = {}
  BY DEF FeedCrash
<1> QED BY <1>1, <1>2 DEF Told, Watches, SocketsOf

LEMMA FrameTypes ==
  ASSUME FramesInvariant, [FeedNext]_feedvars
  PROVE  FrameTypeOK'
<1> USE DEF FramesInvariant, FrameTypeOK, Announcement, News
<1>1. CASE UNCHANGED <<pending, shown>>
  BY <1>1
<1>2. ASSUME NEW s \in Sockets, FeedConnect(s) PROVE FrameTypeOK'
  <2>1. /\ pending' = pending \/ pending' = pending \cup {News(s, "online")}
        /\ shown' = shown \/ shown' = [shown EXCEPT ![s] = isOnline]
    BY <1>2 DEF FeedConnect
  <2>2. News(s, "online") \in Announcement /\ isOnline \in [Users -> BOOLEAN]
    BY DEF TypeOK
  <2>3. pending' \subseteq Announcement
    BY <2>1, <2>2
  <2>4. shown' \in [Sockets -> [Users -> BOOLEAN]]
    BY <2>1, <2>2
  <2> QED BY <2>3, <2>4
<1>3. ASSUME NEW s \in Sockets, FeedDisconnect(s) PROVE FrameTypeOK'
  BY <1>3 DEF FeedDisconnect, Blank
<1>4. ASSUME NEW s \in Sockets, FeedMarkAsOffline(s) PROVE FrameTypeOK'
  BY <1>4 DEF FeedMarkAsOffline
<1>5. ASSUME NEW n \in pending, Announce(n) PROVE FrameTypeOK'
  <2>1. pending' \subseteq Announcement
    BY <1>5 DEF Announce
  <2>2. ASSUME NEW w \in Sockets PROVE shown'[w] \in [Users -> BOOLEAN]
    BY <1>5 DEF Announce
  <2>3. shown' \in [Sockets -> [Users -> BOOLEAN]]
    BY <1>5, <2>2 DEF Announce
  <2> QED BY <2>1, <2>3
<1>6. CASE FeedCrash
  BY <1>6 DEF FeedCrash, Blank
<1>7. ASSUME NEW n \in pending, FailAnnounce(n) PROVE FrameTypeOK'
  BY <1>7 DEF FailAnnounce
<1> HIDE DEF FramesInvariant, FrameTypeOK, Announcement, News
<1>8. CASE UNCHANGED feedvars
  BY <1>1, <1>8 DEF feedvars, frames
<1>9. CASE FeedNext
  BY <1>1, <1>2, <1>3, <1>4, <1>5, <1>6, <1>7, <1>9
     DEF FeedNext, Silently, frames, FeedMarkAsOnline, FeedReset
<1> QED BY <1>8, <1>9

LEMMA FramesStep ==
  ASSUME FramesInvariant, [FeedNext]_feedvars, TypeOK'
  PROVE  FramesInvariant'
<1>1. ASSUME NEW u \in Users \ garbled' PROVE Told(u)'
  <2>1. CASE UNCHANGED <<vars, frames>>
    <3>1. Underway(u)' <=> Underway(u)
      BY <2>1 DEF Underway, SocketsOf, vars, frames
    <3> QED BY <1>1, <2>1, <3>1 DEF FramesInvariant, Told, Watches, RelatedTo, SocketsOf, vars, frames
  <2>2. ASSUME NEW s \in Sockets,
               \/ Silently(Handshake(s)) \/ Silently(Reject(s)) \/ Silently(Vanish(s))
               \/ Silently(FailOffline(s))
        PROVE  Told(u)'
    <3>1. UNCHANGED <<isOnline, pending, garbled, shown>>
      BY <2>2 DEF Silently, frames, Handshake, Reject, Vanish, FailOffline
    <3>2. \E from, to : Moves(s, from, to) /\ from # "marked" /\ to \notin {"marked", "open"}
      BY <2>2 DEF Silently, Handshake, Reject, Vanish, FailOffline
    <3> QED BY <1>1, <3>1, <3>2, ShiftTells
  <2>3. ASSUME NEW s \in Sockets, FeedDisconnect(s) PROVE Told(u)'
    <3>1. UNCHANGED <<isOnline, pending, garbled>> /\ Moves(s, "open", "closing")
      BY <2>3 DEF FeedDisconnect, Disconnect
    <3>2. \A w \in Sockets \ {s} : shown'[w] = shown[w]
      BY <2>3 DEF FeedDisconnect, FramesInvariant, FrameTypeOK
    <3> QED BY <1>1, <3>1, <3>2, ShiftTells
  <2>4. CASE Silently(Listen)
    <3>1. UNCHANGED <<isOnline, stage, pending, garbled, shown>>
      BY <2>4 DEF Silently, Listen, frames
    <3>2. Underway(u)' <=> Underway(u)
      BY <3>1 DEF Underway, SocketsOf
    <3> QED BY <1>1, <3>1, <3>2 DEF FramesInvariant, Told, Watches, RelatedTo, SocketsOf
  <2>5. CASE Silently(AllClosed) \/ UNCHANGED feedvars
    BY <2>1, <2>5 DEF Silently, AllClosed, feedvars
  <2> QED BY <1>1, <2>2, <2>3, <2>4, <2>5,
             MarkTells, ConnectTells, AnnounceTells, ResetTells, CrashTells DEF FeedNext
<1> QED BY <1>1, FrameTypes DEF FramesInvariant

\* Quiet watchers show the column.
LEMMA ToldAgree == FramesInvariant => FramesAgree
<1> SUFFICES ASSUME FramesInvariant,
                    NEW roster \in Rosters, NEW w \in Sockets, NEW u \in roster \ {UserOf[w]},
                    UserOf[w] \in roster, stage[w] = "open", ~Underway(u), u \notin garbled
             PROVE  shown[w][u] = isOnline[u]
  BY DEF FramesAgree
<1>1. u \in Users
  BY RostersAssumption
<1>2. Watches(w, u)
  <2>1. \E r \in {r \in Rosters : u \in r} : UserOf[w] \in r
    OBVIOUS
  <2>2. UserOf[w] \in RelatedTo(u)
    BY <2>1 DEF RelatedTo
  <2> QED BY <2>2 DEF Watches
<1>3. shown[w][u] <=> isOnline[u]
  BY <1>1, <1>2 DEF FramesInvariant, Told
<1>4. shown[w][u] \in BOOLEAN /\ isOnline[u] \in BOOLEAN
  BY <1>1 DEF FramesInvariant, FrameTypeOK, TypeOK
<1> QED BY <1>3, <1>4

(***************************************************************************)
(* The time of lastSeenAt.                                                 *)
(***************************************************************************)

\* Who is online was marked in this run of the server or hung over a crash; a
\* connection in progress was marked in this run; who is offline is as stated.
SeenInvariant ==
  /\ TypeOK
  /\ lastOn \in [Users -> Nat] /\ lastSeen \in [Users -> Nat]
  /\ \A u \in Users : lastOn[u] <= Run
  /\ \A s \in Sockets :
       stage[s] \in {"marked", "open", "closing"} => lastOn[UserOf[s]] = Run
  /\ \A u \in Users : isOnline[u] /\ lastOn[u] # Run => u \in hung
  /\ \A u \in Users : lastOn[u] # Never /\ ~isOnline[u] =>
       \/ lastSeen[u] = lastOn[u]
       \/ u \in hung /\ lastSeen[u] > lastOn[u]

LEMMA SeenStep ==
  ASSUME SeenInvariant, [FeedNext]_feedvars, TypeOK'
  PROVE  SeenInvariant'
<1>0. crashes \in Nat
  BY MaxCrashesAssumption DEF SeenInvariant, TypeOK
<1>1. CASE UNCHANGED <<isOnline, crashes, seen>> /\ \A s \in Sockets :
             stage'[s] \in {"marked", "open", "closing"} => stage[s] \in {"marked", "open", "closing"}
  BY <1>1 DEF SeenInvariant, seen, Run
<1>2. ASSUME NEW s \in Sockets, FeedMarkAsOnline(s) PROVE SeenInvariant'
  <2>1. UserOf[s] \in Users
    BY UserOfAssumption
  <2>2. /\ lastOn' = [lastOn EXCEPT ![UserOf[s]] = Run]
        /\ isOnline' = [isOnline EXCEPT ![UserOf[s]] = TRUE]
        /\ UNCHANGED <<lastSeen, hung, crashes>>
        /\ \A t \in Sockets : t # s => stage'[t] = stage[t]
    BY <1>2 DEF FeedMarkAsOnline, MarkAsOnline, Moves, SeenInvariant, TypeOK
  <2>3. Run \in Nat /\ Run' = Run
    BY <1>0, <2>2 DEF Run
  <2> QED BY <2>1, <2>2, <2>3, UserOfAssumption DEF SeenInvariant, TypeOK
<1>3. ASSUME NEW s \in Sockets, FeedMarkAsOffline(s) PROVE SeenInvariant'
  <2>1. UserOf[s] \in Users
    BY UserOfAssumption
  <2>2. /\ lastSeen' = [lastSeen EXCEPT ![UserOf[s]] = Run]
        /\ isOnline' = [isOnline EXCEPT ![UserOf[s]] = FALSE]
        /\ UNCHANGED <<lastOn, hung, crashes>>
        /\ stage[s] = "closing" /\ stage' = [stage EXCEPT ![s] = "closed"]
    BY <1>3 DEF FeedMarkAsOffline, MarkAsOffline, Moves
  <2>3. Run \in Nat /\ Run' = Run /\ lastOn[UserOf[s]] = Run
    BY <1>0, <2>2 DEF Run, SeenInvariant
  <2> QED BY <2>1, <2>2, <2>3 DEF SeenInvariant, TypeOK
<1>4. CASE FeedCrash
  <2>1. Run' = Run + 1 /\ Run \in Nat
    BY <1>0, <1>4 DEF FeedCrash, Crash, Run
  <2>2. /\ UNCHANGED <<isOnline, lastSeen, lastOn>>
        /\ hung' = hung \cup {u \in Users : isOnline[u]}
        /\ \A s \in Sockets : stage'[s] \in {"none", "closed"}
    BY <1>4 DEF FeedCrash, Crash
  <2> QED BY <2>1, <2>2 DEF SeenInvariant
<1>5. CASE FeedReset
  <2>1. /\ UNCHANGED <<stage, crashes, lastOn, hung>>
        /\ isOnline' = [u \in Users |-> FALSE]
        /\ lastSeen' = [u \in Users |-> IF isOnline[u] THEN Run ELSE lastSeen[u]]
    BY <1>5 DEF FeedReset, ResetAllOnlineUsers, SeenAtReset
  <2>2. Run \in Nat /\ Run' = Run
    BY <1>0, <2>1 DEF Run
  <2> QED BY <2>1, <2>2 DEF SeenInvariant
<1>6. ASSUME NEW s \in Sockets,
             \/ Silently(Handshake(s)) \/ Silently(Reject(s)) \/ Silently(Vanish(s))
             \/ Silently(FailOffline(s)) \/ FeedConnect(s) \/ FeedDisconnect(s)
      PROVE  SeenInvariant'
  <2>1. UNCHANGED <<isOnline, crashes, seen>>
    BY <1>6 DEF Silently, Handshake, Reject, Vanish, FailOffline, FeedConnect, Connect,
                FeedDisconnect, Disconnect
  <2>2. \A t \in Sockets : stage'[t] \in {"marked", "open", "closing"}
                             => stage[t] \in {"marked", "open", "closing"}
    BY <1>6 DEF Silently, Handshake, Reject, Vanish, FailOffline, FeedConnect, Connect,
                FeedDisconnect, Disconnect, Moves, SeenInvariant, TypeOK
  <2> QED BY <1>1, <2>1, <2>2
<1>7. ASSUME NEW n \in pending, Announce(n) \/ FailAnnounce(n) PROVE SeenInvariant'
  BY <1>1, <1>7 DEF Announce, FailAnnounce, vars
<1>8. CASE Silently(Listen) \/ Silently(AllClosed) \/ UNCHANGED feedvars
  BY <1>1, <1>8 DEF Silently, Listen, AllClosed, vars, feedvars
<1> QED BY <1>2, <1>3, <1>4, <1>5, <1>6, <1>7, <1>8 DEF FeedNext

(***************************************************************************)
(* Shown offline.                                                          *)
(***************************************************************************)
\* What the code relies on to show somebody offline beside their connections:
\* the server is down or boots only after it has died.
ReasonInvariant ==
  /\ TypeOK
  /\ lastSeen \in [Users -> Nat]
  /\ server # "up" => crashes > 0
  /\ OfflineHasReason

\* A connection moves on, and was marked before it is open; the column stays.
LEMMA MovesKeepReason ==
  ASSUME ReasonInvariant, NEW s \in Sockets, NEW from, NEW to, Moves(s, from, to),
         UNCHANGED <<isOnline, server, crashes, lastSeen>>, from # "closed",
         to = "marked" => isOnline[UserOf[s]],
         to = "open" => from = "marked"
  PROVE  OfflineHasReason'
<1> SUFFICES ASSUME NEW r \in Sockets, stage'[r] \in {"marked", "open"}, ~isOnline'[UserOf[r]]
             PROVE  /\ lastSeen'[UserOf[r]] = Run'
                    /\ \/ \E t \in SocketsOf(UserOf[r]) \ {r} : stage'[t] = "closed"
                       \/ crashes' > 0 /\ server' = "up"
  BY DEF OfflineHasReason, SocketsOf
<1>1. stage[r] \in {"marked", "open"} /\ ~isOnline[UserOf[r]]
  BY DEF ReasonInvariant, TypeOK, Moves
<1>2. /\ lastSeen[UserOf[r]] = Run
      /\ \/ \E t \in SocketsOf(UserOf[r]) \ {r} : stage[t] = "closed"
         \/ crashes > 0 /\ server = "up"
  BY <1>1 DEF ReasonInvariant, OfflineHasReason
<1>3. \A t \in Sockets : stage[t] = "closed" => stage'[t] = "closed"
  BY DEF ReasonInvariant, TypeOK, Moves
<1> QED BY <1>2, <1>3 DEF Run, SocketsOf

LEMMA MarkKeepsReason ==
  ASSUME ReasonInvariant, NEW s \in Sockets, FeedMarkAsOnline(s)
  PROVE  OfflineHasReason'
<1> DEFINE v == UserOf[s]
<1>1. /\ isOnline' = [isOnline EXCEPT ![v] = TRUE]
      /\ UNCHANGED <<server, crashes, lastSeen>>
      /\ stage[s] # "closed" /\ \A t \in Sockets \ {s} : stage'[t] = stage[t]
  BY DEF FeedMarkAsOnline, MarkAsOnline, Moves, ReasonInvariant, TypeOK
<1>2. v \in Users
  BY UserOfAssumption
<1> SUFFICES ASSUME NEW r \in Sockets, stage'[r] \in {"marked", "open"}, ~isOnline'[UserOf[r]]
             PROVE  /\ lastSeen'[UserOf[r]] = Run'
                    /\ \/ \E t \in SocketsOf(UserOf[r]) \ {r} : stage'[t] = "closed"
                       \/ crashes' > 0 /\ server' = "up"
  BY DEF OfflineHasReason, SocketsOf
<1>3. UserOf[r] # v /\ UserOf[r] \in Users
  BY <1>1, <1>2, UserOfAssumption DEF ReasonInvariant, TypeOK
<1>4. stage[r] \in {"marked", "open"} /\ ~isOnline[UserOf[r]]
  BY <1>1, <1>3 DEF ReasonInvariant, TypeOK
<1>5. /\ lastSeen[UserOf[r]] = Run
      /\ \/ \E t \in SocketsOf(UserOf[r]) \ {r} : stage[t] = "closed"
         \/ crashes > 0 /\ server = "up"
  BY <1>4 DEF ReasonInvariant, OfflineHasReason
<1> QED BY <1>1, <1>5 DEF Run, SocketsOf

\* markAsOffline: the connection that closes is the reason, for every other
\* connection of the user, and it wrote lastSeenAt.
LEMMA LeaveKeepsReason ==
  ASSUME ReasonInvariant, NEW s \in Sockets, FeedMarkAsOffline(s)
  PROVE  OfflineHasReason'
<1> DEFINE v == UserOf[s]
<1>1. /\ isOnline' = [isOnline EXCEPT ![v] = FALSE]
      /\ lastSeen' = [lastSeen EXCEPT ![v] = Run]
      /\ UNCHANGED <<server, crashes>>
      /\ stage'[s] = "closed" /\ \A t \in Sockets \ {s} : stage'[t] = stage[t]
  BY DEF FeedMarkAsOffline, MarkAsOffline, Moves, ReasonInvariant, TypeOK
<1>2. v \in Users
  BY UserOfAssumption
<1> SUFFICES ASSUME NEW r \in Sockets, stage'[r] \in {"marked", "open"}, ~isOnline'[UserOf[r]]
             PROVE  /\ lastSeen'[UserOf[r]] = Run'
                    /\ \/ \E t \in SocketsOf(UserOf[r]) \ {r} : stage'[t] = "closed"
                       \/ crashes' > 0 /\ server' = "up"
  BY DEF OfflineHasReason, SocketsOf
<1>3. r # s
  BY <1>1
<1>4. CASE UserOf[r] = v
  <2>1. lastSeen'[v] = Run /\ Run' = Run
    BY <1>1, <1>2 DEF Run, ReasonInvariant
  <2>2. s \in SocketsOf(UserOf[r]) \ {r}
    BY <1>3, <1>4 DEF SocketsOf
  <2> QED BY <1>1, <1>4, <2>1, <2>2
<1>5. CASE UserOf[r] # v
  <2>1. stage[r] \in {"marked", "open"} /\ ~isOnline[UserOf[r]]
    BY <1>1, <1>3, <1>5, UserOfAssumption DEF ReasonInvariant, TypeOK
  <2>2. /\ lastSeen[UserOf[r]] = Run
        /\ \/ \E t \in SocketsOf(UserOf[r]) \ {r} : stage[t] = "closed"
           \/ crashes > 0 /\ server = "up"
    BY <2>1 DEF ReasonInvariant, OfflineHasReason
  <2>3. lastSeen'[UserOf[r]] = lastSeen[UserOf[r]] /\ Run' = Run
    BY <1>1, <1>5, UserOfAssumption DEF Run, ReasonInvariant
  <2> QED BY <1>1, <2>2, <2>3 DEF SocketsOf
<1> QED BY <1>4, <1>5

\* resetAllOnlineUsers: whoever it takes off is given lastSeenAt, and the server
\* has died before it boots.
LEMMA ResetKeepsReason ==
  ASSUME ReasonInvariant, FeedReset
  PROVE  OfflineHasReason'
<1>1. /\ UNCHANGED <<stage, crashes>> /\ server = "booting" /\ server' = "up"
      /\ \A u \in Users : lastSeen'[u] = IF isOnline[u] THEN Run ELSE lastSeen[u]
  BY DEF FeedReset, ResetAllOnlineUsers, SeenAtReset
<1>2. crashes' > 0 /\ Run' = Run
  BY <1>1 DEF ReasonInvariant, Run
<1>3. ASSUME NEW r \in Sockets, stage'[r] \in {"marked", "open"}
      PROVE  lastSeen'[UserOf[r]] = Run'
  BY <1>1, <1>2, <1>3, UserOfAssumption DEF ReasonInvariant, OfflineHasReason
<1> QED BY <1>1, <1>2, <1>3 DEF OfflineHasReason, SocketsOf

LEMMA ReasonStep ==
  ASSUME ReasonInvariant, [FeedNext]_feedvars, TypeOK'
  PROVE  ReasonInvariant'
<1>0. crashes \in Nat
  BY MaxCrashesAssumption DEF ReasonInvariant, TypeOK
<1>1. CASE UNCHANGED <<vars, seen>>
  BY <1>1 DEF ReasonInvariant, OfflineHasReason, SocketsOf, Run, vars, seen
<1>2. ASSUME NEW s \in Sockets,
             \/ Silently(Handshake(s)) \/ Silently(Reject(s)) \/ Silently(Vanish(s))
             \/ Silently(FailOffline(s)) \/ FeedConnect(s) \/ FeedDisconnect(s)
      PROVE  ReasonInvariant'
  <2>1. UNCHANGED <<isOnline, server, crashes, lastSeen>>
    BY <1>2 DEF Silently, seen, Handshake, Reject, Vanish, FailOffline, FeedConnect, Connect,
                FeedDisconnect, Disconnect
  <2>2. \/ Moves(s, "none", "auth") \/ Moves(s, "auth", "closed") \/ Moves(s, "lost", "closed")
        \/ Moves(s, "auth", "lost") \/ Moves(s, "closing", "leaked")
        \/ Moves(s, "marked", "open") \/ Moves(s, "marked", "leaked") \/ Moves(s, "open", "closing")
    BY <1>2 DEF Silently, Handshake, Reject, Vanish, FailOffline, FeedConnect, Connect,
                FeedDisconnect, Disconnect
  <2>3. OfflineHasReason'
    BY <2>1, <2>2, MovesKeepReason
  <2> QED BY <2>1, <2>3 DEF ReasonInvariant
<1>3. ASSUME NEW s \in Sockets, FeedMarkAsOnline(s) \/ FeedMarkAsOffline(s) PROVE ReasonInvariant'
  <2>1. UNCHANGED <<server, crashes>> /\ Run \in Nat
    BY <1>0, <1>3 DEF FeedMarkAsOnline, FeedMarkAsOffline, MarkAsOnline, MarkAsOffline, Run
  <2>2. lastSeen' \in [Users -> Nat]
    BY <1>3, <2>1 DEF FeedMarkAsOnline, FeedMarkAsOffline, ReasonInvariant
  <2> QED BY <1>3, <2>1, <2>2, MarkKeepsReason, LeaveKeepsReason DEF ReasonInvariant
<1>4. CASE FeedCrash
  <2>1. \A s \in Sockets : stage'[s] \in {"none", "closed"}
    BY <1>4 DEF FeedCrash, Crash
  <2>2. crashes' > 0 /\ lastSeen' = lastSeen
    BY <1>0, <1>4 DEF FeedCrash, Crash
  <2> QED BY <2>1, <2>2 DEF ReasonInvariant, OfflineHasReason
<1>5. CASE FeedReset
  <2>1. lastSeen' \in [Users -> Nat]
    BY <1>0, <1>5 DEF FeedReset, SeenAtReset, Run, ReasonInvariant
  <2> QED BY <1>5, <2>1, ResetKeepsReason DEF FeedReset, ResetAllOnlineUsers, ReasonInvariant
<1>6. CASE Silently(Listen)
  <2>1. /\ UNCHANGED <<isOnline, stage, crashes, lastSeen>>
        /\ server = "down"
    BY <1>6 DEF Silently, Listen, seen
  <2> QED BY <2>1 DEF ReasonInvariant, OfflineHasReason, SocketsOf, Run
<1>7. ASSUME NEW n \in pending, Announce(n) \/ FailAnnounce(n) PROVE ReasonInvariant'
  BY <1>1, <1>7 DEF Announce, FailAnnounce
<1>8. CASE Silently(AllClosed) \/ UNCHANGED feedvars
  BY <1>1, <1>8 DEF Silently, AllClosed, feedvars
<1> QED BY <1>2, <1>3, <1>4, <1>5, <1>6, <1>7, <1>8 DEF FeedNext

(***************************************************************************)
(* The theorems.                                                           *)
(***************************************************************************)

\* The frames are Presence's: what is proved of it holds with them added.
THEOREM FeedImplementsPresence == FeedSpec => Spec
<1>1. FeedInit => Init
  BY DEF FeedInit
<1>2. [FeedNext]_feedvars => [Next]_vars
  BY FeedIsPresence
<1> QED BY <1>1, <1>2, PTL DEF FeedSpec, Spec

\* What the column and the connections rely on holds whatever crashes and leaks.
THEOREM PresenceStays == Spec => []PresenceInvariant
BY InitPresence, PresenceStep, PTL DEF Spec

\* markAsOnline, markAsOffline and resetAllOnlineUsers: nobody is shown online by
\* a running server without a connection to blame.
THEOREM OnlineAlwaysHasReason == Spec => []OnlineHasReason
<1>1. PresenceInvariant => OnlineHasReason
  BY DEF PresenceInvariant
<1> QED BY <1>1, PresenceStays, PTL

\* user.online and user.offline: with nothing left to announce, clients show what
\* the column says of whoever they share a conversation with.
THEOREM FramesAlwaysAgree == FeedSpec => []FramesAgree
<1>1. FeedInit => FramesInvariant
  <2> SUFFICES ASSUME FeedInit PROVE FramesInvariant
    OBVIOUS
  <2>1. TypeOK
    BY InitPresence DEF FeedInit, PresenceInvariant
  <2>2. FrameTypeOK
    BY DEF FeedInit, FrameTypeOK, Blank
  <2>3. \A u \in Users : Told(u)
    BY DEF FeedInit, Init, Told, Watches, SocketsOf
  <2> QED BY <2>1, <2>2, <2>3 DEF FramesInvariant
<1>2. PresenceInvariant' => TypeOK'
  BY DEF PresenceInvariant
<1>3. FramesInvariant /\ [FeedNext]_feedvars /\ PresenceInvariant' => FramesInvariant'
  BY <1>2, FramesStep
<1> QED BY <1>1, <1>3, ToldAgree, PresenceStays, FeedImplementsPresence, PTL DEF FeedSpec

\* markAsOffline and resetAllOnlineUsers: lastSeenAt is of the run of the server in
\* which the user was last online, or later if they hung online over a crash.
THEOREM LastSeenStaysHonest == FeedSpec => []LastSeenIsHonest
<1>1. FeedInit => SeenInvariant
  <2> SUFFICES ASSUME FeedInit PROVE SeenInvariant
    OBVIOUS
  <2>1. TypeOK
    BY InitPresence DEF FeedInit, PresenceInvariant
  <2> QED BY <2>1 DEF FeedInit, Init, SeenInvariant, Never, Run
<1>2. PresenceInvariant' => TypeOK'
  BY DEF PresenceInvariant
<1>3. SeenInvariant /\ [FeedNext]_feedvars /\ PresenceInvariant' => SeenInvariant'
  BY <1>2, SeenStep
<1>4. SeenInvariant => LastSeenIsHonest
  BY DEF SeenInvariant, LastSeenIsHonest
<1> QED BY <1>1, <1>3, <1>4, PresenceStays, FeedImplementsPresence, PTL DEF FeedSpec

\* handleDisconnect and the reset after start-up: a user is shown offline beside a
\* connection of theirs only when one of these two took them off.
THEOREM OfflineAlwaysHasReason == FeedSpec => []OfflineHasReason
<1>1. FeedInit => ReasonInvariant
  <2> SUFFICES ASSUME FeedInit PROVE ReasonInvariant
    OBVIOUS
  <2>1. TypeOK
    BY InitPresence DEF FeedInit, PresenceInvariant
  <2> QED BY <2>1 DEF FeedInit, Init, ReasonInvariant, OfflineHasReason, Never
<1>2. PresenceInvariant' => TypeOK'
  BY DEF PresenceInvariant
<1>3. ReasonInvariant /\ [FeedNext]_feedvars /\ PresenceInvariant' => ReasonInvariant'
  BY <1>2, ReasonStep
<1>4. ReasonInvariant => OfflineHasReason
  BY DEF ReasonInvariant
<1> QED BY <1>1, <1>3, <1>4, PresenceStays, FeedImplementsPresence, PTL DEF FeedSpec

\* Connections, the column and the server keep their types.
THEOREM PresenceTypeCorrect == Spec => []TypeOK
<1>1. PresenceInvariant => TypeOK
  BY DEF PresenceInvariant
<1> QED BY <1>1, PresenceStays, PTL
=============================================================================
