------------------------------ MODULE Presence ------------------------------
(***************************************************************************)
(* Who is shown online: the column User.isOnline, written when a socket's  *)
(* handshake is authenticated and when a socket disconnects, and reset for *)
(* everybody when the server starts.                                       *)
(*                                                                         *)
(* The column outlives the process; the sockets and their handlers do not. *)
(* The WebSocket server listens before the start-up hook has run, so       *)
(* sockets are authenticated while the server boots.  A Sockets element is *)
(* one connection, from its first packet to its end.                       *)
(***************************************************************************)
EXTENDS Naturals

CONSTANTS
  Users,
  Sockets,     \* the connections ever attempted
  UserOf,      \* UserOf[s]: whose credentials s presents
  MaxCrashes   \* bound: how often the process dies

ASSUME UserOfAssumption == UserOf \in [Sockets -> Users]
ASSUME MaxCrashesAssumption == MaxCrashes \in Nat

VARIABLES
  isOnline,    \* isOnline[u]: the column, in the database
  server,      \* "down", "booting" (listening, hook not done), "up"
  stage,       \* stage[s]: how far connection s is
  crashes      \* how often the process has died

vars == <<isOnline, server, stage, crashes>>

(***************************************************************************)
(* The stages of a connection.  "lost": the client went away during the    *)
(* handshake, whose middleware runs on.  "leaked": the connection is over  *)
(* and its handlers will never mark the user offline.                      *)
(***************************************************************************)
Stages == {"none", "auth", "lost", "marked", "open", "closing", "closed", "leaked"}

Init ==
  /\ isOnline = [u \in Users |-> FALSE]
  /\ server = "up"
  /\ stage = [s \in Sockets |-> "none"]
  /\ crashes = 0

Moves(s, from, to) == stage[s] = from /\ stage' = [stage EXCEPT ![s] = to]

-----------------------------------------------------------------------------
\* A client opens a connection; the middleware starts to check its credentials.
Handshake(s) ==
  /\ server # "down"
  /\ Moves(s, "none", "auth")
  /\ UNCHANGED <<isOnline, server, crashes>>

\* Wrong credentials or a failed query: the socket never gets a user, and neither
\* it nor its handlers ever write the column.
Reject(s) ==
  /\ Moves(s, "auth", "closed") \/ Moves(s, "lost", "closed")
  /\ UNCHANGED <<isOnline, server, crashes>>

\* The client goes away while the middleware runs.
Vanish(s) ==
  /\ Moves(s, "auth", "lost")
  /\ UNCHANGED <<isOnline, server, crashes>>

\* Mutated form: the user is read, and not written.
MarkAsOnline_OnlyRead(s) ==
  /\ Moves(s, "auth", "marked") \/ Moves(s, "lost", "leaked")
  /\ UNCHANGED <<isOnline, server, crashes>>

\* markAsOnline commits, whether or not the client is still there.
MarkAsOnline(s) ==
  /\ Moves(s, "auth", "marked") \/ Moves(s, "lost", "leaked")
  /\ isOnline' = [isOnline EXCEPT ![UserOf[s]] = TRUE]
  /\ UNCHANGED <<server, crashes>>

\* next(): the connection is established and handleConnection runs; or the
\* client has gone, and socket.io drops the socket without any event.
Connect(s) ==
  /\ Moves(s, "marked", "open") \/ Moves(s, "marked", "leaked")
  /\ UNCHANGED <<isOnline, server, crashes>>

\* The disconnect event: handleDisconnect asks for markAsOffline.
Disconnect(s) ==
  /\ Moves(s, "open", "closing")
  /\ UNCHANGED <<isOnline, server, crashes>>

\* Mutated form: only lastSeenAt is written.
MarkAsOffline_OnlyLastSeen(s) ==
  /\ Moves(s, "closing", "closed")
  /\ UNCHANGED <<isOnline, server, crashes>>

\* markAsOffline commits: it does not ask for other sockets of the user.
MarkAsOffline(s) ==
  /\ Moves(s, "closing", "closed")
  /\ isOnline' = [isOnline EXCEPT ![UserOf[s]] = FALSE]
  /\ UNCHANGED <<server, crashes>>

\* markAsOffline fails: handleDisconnect goes no further.
FailOffline(s) ==
  /\ Moves(s, "closing", "leaked")
  /\ UNCHANGED <<isOnline, server, crashes>>

-----------------------------------------------------------------------------
\* The process dies, and with it every connection and handler.
Crash ==
  /\ server # "down" /\ crashes < MaxCrashes
  /\ server' = "down"
  /\ crashes' = crashes + 1
  /\ stage' = [s \in Sockets |-> IF stage[s] = "none" THEN "none" ELSE "closed"]
  /\ UNCHANGED isOnline

\* The gateways are registered and the WebSocket port listens.
Listen ==
  /\ server = "down"
  /\ server' = "booting"
  /\ UNCHANGED <<isOnline, stage, crashes>>

\* Mutated forms: start-up forgets the reset, or keeps only the rows it resets.
ResetAllOnlineUsers_Forgotten ==
  /\ server = "booting"
  /\ server' = "up"
  /\ UNCHANGED <<isOnline, stage, crashes>>

ResetAllOnlineUsers_OnlyThem ==
  /\ server = "booting"
  /\ server' = "up"
  /\ isOnline' = [u \in {v \in Users : isOnline[v]} |-> FALSE]
  /\ UNCHANGED <<stage, crashes>>

\* onApplicationBootstrap: resetAllOnlineUsers commits, whoever has connected
\* since the port listens.
ResetAllOnlineUsers ==
  /\ server = "booting"
  /\ server' = "up"
  /\ isOnline' = [u \in Users |-> FALSE]
  /\ UNCHANGED <<stage, crashes>>

AllClosed ==
  /\ server = "up" /\ \A s \in Sockets : stage[s] \in {"closed", "leaked"}
  /\ UNCHANGED vars

Next ==
  \/ \E s \in Sockets :
       \/ Handshake(s) \/ Reject(s) \/ Vanish(s) \/ MarkAsOnline(s) \/ Connect(s)
       \/ Disconnect(s) \/ MarkAsOffline(s) \/ FailOffline(s)
  \/ Crash \/ Listen \/ ResetAllOnlineUsers
  \/ AllClosed

\* A process that has died is started again, and its start-up hook completes; a
\* socket's query under way completes or fails.
Spec == Init /\ [][Next]_vars
FairSpec ==
  /\ Spec
  /\ WF_vars(Listen) /\ WF_vars(ResetAllOnlineUsers)
  /\ \A s \in Sockets : WF_vars(MarkAsOffline(s) \/ FailOffline(s))

-----------------------------------------------------------------------------
\* The column, the server and the connections keep their types.
TypeOK ==
  /\ isOnline \in [Users -> BOOLEAN]
  /\ server \in {"down", "booting", "up"}
  /\ stage \in [Sockets -> Stages]
  /\ crashes \in 0 .. MaxCrashes

SocketsOf(u) == {s \in Sockets : UserOf[s] = u}

\* Once the server is up, nobody is shown online without a reason: a socket
\* that has been marked and not been taken off yet, or one that leaked since
\* the last crash.  Nobody hangs online because the server died.
OnlineHasReason ==
  server = "up" =>
    \A u \in Users : isOnline[u] =>
      \E s \in SocketsOf(u) : stage[s] \in {"marked", "open", "closing", "leaked"}

\* A user none of whose connections leaked is shown offline in the end, once
\* the last of them has disconnected or the server has died under them.
GoesOffline ==
  \A u \in Users :
    (isOnline[u] /\ \A s \in SocketsOf(u) : stage[s] \in {"closing", "closed"})
      ~> (~isOnline[u] \/ \E s \in SocketsOf(u) : stage[s] = "leaked")

\* chat.gateway.ts allows a user several open tabs, so a user with an open
\* connection to a server that is up should be shown online.
OnlineWhileOpen ==
  server = "up" =>
    \A s \in Sockets : stage[s] = "open" => isOnline[UserOf[s]]

\* user.service.ts says the reset is for users who hang online because the server
\* died under them: it takes nobody off who has an open connection.
ResetSparesConnected ==
  [][server = "booting" /\ server' = "up" =>
       \A s \in Sockets : stage[s] = "open" => isOnline'[UserOf[s]]]_vars
=============================================================================
