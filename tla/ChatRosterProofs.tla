-------------------------- MODULE ChatRosterProofs --------------------------
(***************************************************************************)
(* Theorems about ChatService that relate the rows of a conversation to    *)
(* its messages: the messages tell the roster, a DIRECT conversation stays *)
(* a pair, and the store implements ConversationLog.                       *)
(***************************************************************************)
EXTENDS ChatServiceProofs

(***************************************************************************)
(* The inductive invariant.                                                *)
(***************************************************************************)
Joined(c, u) == \E i \in DOMAIN messages[c] : IsAbout(c, i, "JOINED", u)

\* The messages of a group name whoever takes part, and have named whoever has
\* a row.
GroupOK(c) ==
  \A u \in Users \ OwnersIn(c) :
    /\ u \in ActiveIn(c) <=> SaysIn(c, u)
    /\ u \in RowsIn(c) => Joined(c, u)

PairOK(c) ==
  /\ \E a, b \in Users : a # b /\ RowsIn(c) = {a, b} /\ ActiveIn(c) = {a, b}
  /\ \A i \in DOMAIN messages[c] : messages[c][i].type \in {"CREATED", "TEXT"}

RosterOK(c) == /\ kind[c] = "GROUP" => GroupOK(c)
               /\ kind[c] = "DIRECT" => PairOK(c)

\* A creation of a DIRECT conversation has checked that it invites one user.
PairsChecked ==
  \A r \in Requests :
    At(r, "create.checked") /\ request[r].kind = "DIRECT" =>
      \E u \in Users : request[r].users = {u}

RosterInvariant ==
  /\ OwnerInvariant
  /\ PairsChecked
  /\ \A c \in Conversations : RosterOK(c)

(***************************************************************************)
(* What one more message says.                                             *)
(***************************************************************************)
LEMMA AppendSays ==
  ASSUME NEW c \in Conversations, messages[c] \in Seq(Message),
         NEW e \in Message, messages'[c] = Append(messages[c], e), NEW u
  PROVE  /\ SaysIn(c, u)' <=> \/ e.type = "JOINED" /\ u \in e.users
                              \/ ~(e.type = "LEFT" /\ u \in e.users) /\ SaysIn(c, u)
         /\ Joined(c, u)' <=> (e.type = "JOINED" /\ u \in e.users) \/ Joined(c, u)
<1> PICK n : n = Len(messages[c])
  OBVIOUS
<1>1. n \in Nat /\ DOMAIN messages[c] = 1 .. n /\ DOMAIN messages'[c] = 1 .. n + 1
  OBVIOUS
<1>2. \A i \in 1 .. n : messages'[c][i] = messages[c][i]
  OBVIOUS
<1>3. messages'[c][n + 1] = e
  OBVIOUS
<1>4. \A type : \A i \in 1 .. n : IsAbout(c, i, type, u)' <=> IsAbout(c, i, type, u)
  BY <1>2 DEF IsAbout
<1>5. \A type : IsAbout(c, n + 1, type, u)' <=> e.type = type /\ u \in e.users
  BY <1>3 DEF IsAbout
<1>6. Joined(c, u)' <=> (e.type = "JOINED" /\ u \in e.users) \/ Joined(c, u)
  <2>1. Joined(c, u)' <=> \E i \in 1 .. n + 1 : IsAbout(c, i, "JOINED", u)'
    BY <1>1 DEF Joined
  <2>2. \A i \in 1 .. n + 1 : i \in 1 .. n \/ i = n + 1
    BY <1>1
  <2>3. n + 1 \in 1 .. n + 1 /\ \A i \in 1 .. n : i \in 1 .. n + 1
    BY <1>1
  <2> QED BY <1>1, <1>4, <1>5, <2>1, <2>2, <2>3 DEF Joined
<1>7. CASE e.type = "JOINED" /\ u \in e.users
  <2>1. n + 1 \in DOMAIN messages'[c] /\ \A j \in DOMAIN messages'[c] : ~(j > n + 1)
    BY <1>1
  <2> QED BY <1>5, <1>6, <1>7, <2>1 DEF SaysIn
<1>8. CASE e.type = "LEFT" /\ u \in e.users
  <2>1. n + 1 \in DOMAIN messages'[c] /\ \A i \in 1 .. n : n + 1 > i
    BY <1>1
  <2>2. \A i \in DOMAIN messages'[c] : i = n + 1 \/ i \in 1 .. n
    BY <1>1
  <2>3. ~IsAbout(c, n + 1, "JOINED", u)' /\ IsAbout(c, n + 1, "LEFT", u)'
    BY <1>5, <1>8
  <2> QED BY <1>6, <1>8, <2>1, <2>2, <2>3 DEF SaysIn
<1>9. CASE ~(e.type \in {"JOINED", "LEFT"} /\ u \in e.users)
  <2>1. ~IsAbout(c, n + 1, "JOINED", u)' /\ ~IsAbout(c, n + 1, "LEFT", u)'
    BY <1>5, <1>9
  <2>2. \A i \in 1 .. n + 1 : i = n + 1 \/ i \in 1 .. n
    BY <1>1
  <2>3. \A i \in 1 .. n : i \in 1 .. n + 1
    BY <1>1
  <2>4. SaysIn(c, u)' <=>
          \E i \in 1 .. n + 1 : /\ IsAbout(c, i, "JOINED", u)'
                                /\ \A j \in 1 .. n + 1 : j > i => ~IsAbout(c, j, "LEFT", u)'
    BY <1>1 DEF SaysIn
  <2>5. SaysIn(c, u) <=>
          \E i \in 1 .. n : /\ IsAbout(c, i, "JOINED", u)
                            /\ \A j \in 1 .. n : j > i => ~IsAbout(c, j, "LEFT", u)
    BY <1>1 DEF SaysIn
  <2>6. SaysIn(c, u)' <=> SaysIn(c, u)
    BY <1>4, <2>1, <2>2, <2>3, <2>4, <2>5
  <2> QED BY <1>6, <1>9, <2>6
<1> QED BY <1>7, <1>8, <1>9

(***************************************************************************)
(* A step concerns one conversation at most.                               *)
(***************************************************************************)
LEMMA OneChanges ==
  ASSUME RosterInvariant, OwnerInvariant', PairsChecked', NEW c \in Conversations,
         \A d \in Conversations \ {c} :
           kind'[d] = kind[d] /\ participant'[d] = participant[d] /\ messages'[d] = messages[d],
         RosterOK(c)'
  PROVE  RosterInvariant'
<1>1. ASSUME NEW d \in Conversations \ {c} PROVE RosterOK(d)'
  <2>1. RosterOK(d)
    BY DEF RosterInvariant
  <2> QED BY <2>1 DEF RosterOK, GroupOK, PairOK, OwnersIn, ActiveIn, RowsIn, SaysIn,
                      Joined, IsAbout
<1> QED BY <1>1 DEF RosterInvariant

LEMMA StoreStays ==
  ASSUME RosterInvariant, OwnerInvariant', PairsChecked', UNCHANGED store
  PROVE  RosterInvariant'
<1>1. ASSUME NEW c \in Conversations PROVE RosterOK(c)'
  <2>1. RosterOK(c)
    BY DEF RosterInvariant
  <2> QED BY <2>1 DEF store, RosterOK, GroupOK, PairOK, OwnersIn, ActiveIn, RowsIn, SaysIn,
                      Joined, IsAbout
<1> QED BY <1>1 DEF RosterInvariant

\* Calls that are not about to create have nothing to check.
LEMMA PairsStay ==
  ASSUME RosterInvariant, NEW r \in Requests, NEW q, Becomes(r, q),
         q.step # "create.checked"
  PROVE  PairsChecked'
<1>1. request'[r] = q /\ \A s \in Requests \ {r} : request'[s] = request[s]
  BY DEF Becomes, RosterInvariant, OwnerInvariant, TypeOK
<1> QED BY <1>1 DEF RosterInvariant, PairsChecked, At

LEMMA InitRoster == Init => RosterInvariant
<1> SUFFICES ASSUME Init PROVE RosterInvariant
  OBVIOUS
<1>1. PairsChecked
  BY DEF Init, PairsChecked, At, Idle
<1>2. \A c \in Conversations : RosterOK(c)
  BY DEF Init, RosterOK
<1> QED BY <1>1, <1>2, InitOwner DEF RosterInvariant

LEMMA BeginRoster ==
  ASSUME RosterInvariant, NEW r \in Requests, Begin(r)
  PROVE  RosterInvariant'
<1>1. OwnerInvariant' /\ UNCHANGED store
  BY BeginOwner DEF RosterInvariant, Begin, BeginHttp, RefuseIds, BeginCreate, BeginAdd,
                    BeginRemove, BeginSend, StartSend
<1>2. PairsChecked'
  <2>1. CASE RefuseIds(r)
    BY <2>1, EndedOK, PairsStay DEF RefuseIds
  <2>2. CASE BeginCreate(r)
    <3>1. PICK i \in Admins, k \in {"DIRECT", "GROUP"}, c \in Conversations :
            \E us \in Invitees(i, k) :
              Proceed(r, CreateAccepts(i, k, us), Call("create.checked", i, c, k, us))
      BY <2>2 DEF BeginCreate
    <3>2. PICK us \in Invitees(i, k) :
            Proceed(r, CreateAccepts(i, k, us), Call("create.checked", i, c, k, us))
      BY <3>1
    <3>3. k = "DIRECT" => \E u \in Users : us = {u}
      BY <3>2 DEF Invitees
    <3>4. PICK q : Becomes(r, q) /\ (q = Ended \/ q = Call("create.checked", i, c, k, us))
      BY <3>2 DEF Proceed
    <3>5. q.step = "create.checked" /\ q.kind = "DIRECT" => \E u \in Users : q.users = {u}
      BY <3>3, <3>4, EndedOK DEF Call
    <3>6. request'[r] = q /\ \A s \in Requests \ {r} : request'[s] = request[s]
      BY <3>4 DEF Becomes, RosterInvariant, OwnerInvariant, TypeOK
    <3> QED BY <3>5, <3>6 DEF RosterInvariant, PairsChecked, At
  <2>3. CASE BeginAdd(r) \/ BeginRemove(r) \/ BeginSend(r)
    <3>1. PICK q : Becomes(r, q) /\ q.step # "create.checked"
      <4>1. \A condition, step, i, c, us :
              step # "create.checked" /\ Proceed(r, condition, Call(step, i, c, "NONE", us))
                => \E q : Becomes(r, q) /\ q.step # "create.checked"
        BY EndedOK DEF Proceed, Call
      <4>2. CASE BeginAdd(r)
        BY <4>1, <4>2 DEF BeginAdd
      <4>3. CASE BeginRemove(r)
        BY <4>1, <4>3 DEF BeginRemove
      <4>4. CASE BeginSend(r)
        BY <4>1, <4>4 DEF BeginSend, StartSend
      <4> QED BY <2>3, <4>2, <4>3, <4>4
    <3> QED BY <3>1, PairsStay
  <2> QED BY <2>1, <2>2, <2>3 DEF Begin, BeginHttp
<1> QED BY <1>1, <1>2, StoreStays

\* The steps of a call that read, answer or give up.
LEMMA QuietRoster ==
  ASSUME RosterInvariant, OwnerInvariant', NEW r \in Requests, NEW q, Becomes(r, q),
         q.step # "create.checked", UNCHANGED store
  PROVE  RosterInvariant'
BY PairsStay, StoreStays

LEMMA CommitAddRoster ==
  ASSUME RosterInvariant, NEW r \in Requests, CommitAdd(r)
  PROVE  RosterInvariant'
<1> PICK q : q = request[r]
  OBVIOUS
<1> PICK c : c = q.conv
  OBVIOUS
<1> PICK rows : rows = RowsAfterAdd(c, q.users)
  OBVIOUS
<1> PICK entry : entry = Entry("JOINED", q.users)
  OBVIOUS
<1> PICK committed : committed = [q EXCEPT !.step = "add.committed"]
  OBVIOUS
<1>1. OwnerInvariant /\ TypeOK /\ OwnerInvariant'
  BY CommitAddOwner DEF RosterInvariant, OwnerInvariant
<1>2. q \in Request /\ q.step = "add.split" /\ CallOK(q)
  BY <1>1 DEF TypeOK, CommitAdd, At, OwnerInvariant
<1>3. /\ c \in Conversations /\ q.users \in SUBSET Users
      /\ kind[c] = "GROUP" /\ q.users \cap OwnersIn(c) = {}
  BY <1>2 DEF CallOK, Request
<1>4. CASE (q.users \ q.left) \cap RowsIn(c) = {}
  <2>1. /\ participant' = [participant EXCEPT ![c] = rows]
        /\ messages' = [messages EXCEPT ![c] = Append(@, entry)]
        /\ Becomes(r, committed)
        /\ kind' = kind
    BY <1>4 DEF CommitAdd
  <2>2. committed.step = "add.committed"
    BY <1>2 DEF Request
  <2>3. participant'[c] = rows /\ messages'[c] = Append(messages[c], entry)
    BY <1>1, <1>3, <2>1 DEF TypeOK
  <2>4. entry \in Message /\ entry.type = "JOINED" /\ entry.users = q.users
    BY <1>3 DEF Entry, Message
  <2>5. messages[c] \in Seq(Message)
    BY <1>1, <1>3 DEF TypeOK
  <2>6. \A u \in Users : /\ u \in q.users => SaysIn(c, u)' /\ Joined(c, u)'
                         /\ u \notin q.users => /\ SaysIn(c, u)' <=> SaysIn(c, u)
                                                /\ Joined(c, u)' <=> Joined(c, u)
    BY <1>3, <2>3, <2>4, <2>5, AppendSays
  <2>7. \A u \in Users : rows[u] = IF u \in q.users THEN MemberRow ELSE participant[c][u]
    BY DEF RowsAfterAdd
  <2>8. GroupOK(c)
    BY <1>3 DEF RosterInvariant, RosterOK
  <2>9. GroupOK(c)'
    BY <2>3, <2>6, <2>7, <2>8 DEF GroupOK, OwnersIn, ActiveIn, RowsIn, MemberRow
  <2>10. RosterOK(c)'
    BY <1>3, <2>1, <2>9 DEF RosterOK
  <2>11. PairsChecked'
    BY <2>1, <2>2, PairsStay
  <2> QED BY <1>1, <1>3, <2>1, <2>10, <2>11, OneChanges DEF TypeOK
<1>5. CASE ~((q.users \ q.left) \cap RowsIn(c) = {})
  <2>1. Becomes(r, Ended) /\ UNCHANGED store
    BY <1>5 DEF CommitAdd
  <2> QED BY <1>1, <2>1, EndedOK, QuietRoster
<1> QED BY <1>4, <1>5

LEMMA CommitRemoveRoster ==
  ASSUME RosterInvariant, NEW r \in Requests, CommitRemove(r)
  PROVE  RosterInvariant'
<1> PICK q : q = request[r]
  OBVIOUS
<1> PICK c : c = q.conv
  OBVIOUS
<1> PICK rows : rows = RowsAfterRemove(c, q.users)
  OBVIOUS
<1> PICK entry : entry = Entry("LEFT", q.users)
  OBVIOUS
<1> PICK committed : committed = [q EXCEPT !.step = "remove.committed"]
  OBVIOUS
<1>1. OwnerInvariant /\ TypeOK /\ OwnerInvariant'
  BY CommitRemoveOwner DEF RosterInvariant, OwnerInvariant
<1>2. q \in Request /\ q.step = "remove.checked" /\ CallOK(q)
  BY <1>1 DEF TypeOK, CommitRemove, At, OwnerInvariant
<1>3. c \in Conversations /\ q.users \in SUBSET Users /\ kind[c] = "GROUP"
  BY <1>2 DEF CallOK, Request
<1>4. /\ participant' = [participant EXCEPT ![c] = rows]
      /\ messages' = [messages EXCEPT ![c] = Append(@, entry)]
      /\ Becomes(r, committed)
      /\ kind' = kind
  BY DEF CommitRemove
<1>5. committed.step = "remove.committed"
  BY <1>2 DEF Request
<1>6. participant'[c] = rows /\ messages'[c] = Append(messages[c], entry)
  BY <1>1, <1>3, <1>4 DEF TypeOK
<1>7. entry \in Message /\ entry.type = "LEFT" /\ entry.users = q.users
  BY <1>3 DEF Entry, Message
<1>8. messages[c] \in Seq(Message)
  BY <1>1, <1>3 DEF TypeOK
<1>9. \A u \in Users : /\ u \in q.users => ~SaysIn(c, u)'
                       /\ u \notin q.users => (SaysIn(c, u)' <=> SaysIn(c, u))
                       /\ Joined(c, u)' <=> Joined(c, u)
  BY <1>3, <1>6, <1>7, <1>8, AppendSays
<1>10. \A u \in Users : /\ rows[u].role = participant[c][u].role
                        /\ rows[u].active <=> participant[c][u].active /\ u \notin q.users
  <2>1. \A u \in Users : participant[c][u].active \in BOOLEAN
    <3>1. \A w \in [role : {"OWNER", "MEMBER"}, active : BOOLEAN] : w.active \in BOOLEAN
      OBVIOUS
    <3>2. NoRow.active \in BOOLEAN
      BY DEF NoRow
    <3>3. \A w \in Row : w.active \in BOOLEAN
      BY <3>1, <3>2 DEF Row
    <3> QED BY <1>1, <1>3, <3>3 DEF TypeOK
  <2> QED BY <2>1 DEF RowsAfterRemove, Departed
<1>11. GroupOK(c)
  BY <1>3 DEF RosterInvariant, RosterOK
<1>12. GroupOK(c)'
  BY <1>6, <1>9, <1>10, <1>11 DEF GroupOK, OwnersIn, ActiveIn, RowsIn
<1>13. RosterOK(c)'
  BY <1>3, <1>4, <1>12 DEF RosterOK
<1>14. PairsChecked'
  BY <1>4, <1>5, PairsStay
<1> QED BY <1>1, <1>3, <1>4, <1>13, <1>14, OneChanges DEF TypeOK

LEMMA CommitCreateRoster ==
  ASSUME RosterInvariant, NEW r \in Requests, CommitCreate(r)
  PROVE  RosterInvariant'
<1> PICK q : q = request[r]
  OBVIOUS
<1> PICK c : c = q.conv
  OBVIOUS
<1> PICK rows : rows = InitialRows(q.by, q.users)
  OBVIOUS
<1> PICK first : first = InitialMessages(q.kind, q.users)
  OBVIOUS
<1> PICK committed :
      committed = [q EXCEPT !.step = "create.committed", !.seen = q.users \cup {q.by}]
  OBVIOUS
<1>1. OwnerInvariant /\ TypeOK /\ OwnerInvariant'
  BY CommitCreateOwner DEF RosterInvariant, OwnerInvariant
<1>2. q \in Request /\ q.step = "create.checked" /\ CallOK(q)
  BY <1>1 DEF TypeOK, CommitCreate, At, OwnerInvariant
<1>3. /\ c \in Conversations /\ q.by \in Users /\ q.users \in SUBSET Users
      /\ q.kind \in {"DIRECT", "GROUP"} /\ q.by \notin q.users
  BY <1>2 DEF CallOK, Request
<1>4. /\ kind' = [kind EXCEPT ![c] = q.kind]
      /\ participant' = [participant EXCEPT ![c] = rows]
      /\ messages' = [messages EXCEPT ![c] = first]
      /\ Becomes(r, committed)
  BY DEF CommitCreate
<1>5. committed.step = "create.committed"
  BY <1>2 DEF Request
<1>6. kind'[c] = q.kind /\ participant'[c] = rows /\ messages'[c] = first
  BY <1>1, <1>3, <1>4 DEF TypeOK
<1>7. \A u \in Users :
        rows[u] = IF u = q.by THEN OwnerRow ELSE IF u \in q.users THEN MemberRow ELSE NoRow
  BY DEF InitialRows
<1>8. RowsIn(c)' = q.users \cup {q.by} /\ ActiveIn(c)' = q.users \cup {q.by}
      /\ OwnersIn(c)' = {q.by}
  BY <1>3, <1>6, <1>7 DEF RowsIn, ActiveIn, OwnersIn, OwnerRow, MemberRow, NoRow
<1>9. RosterOK(c)'
  <2>1. CASE q.kind = "GROUP"
    <3>1. CASE q.users = {}
      <4>1. first = <<Entry("CREATED", {})>>
        BY <2>1, <3>1 DEF InitialMessages
      <4>2. \A u \in Users : ~SaysIn(c, u)'
        BY <1>6, <4>1 DEF SaysIn, IsAbout, Entry
      <4> QED BY <1>6, <1>8, <2>1, <3>1, <4>2 DEF RosterOK, GroupOK
    <3>2. CASE q.users # {}
      <4>1. PICK h, j : /\ h = <<Entry("CREATED", {})>> /\ j = <<Entry("JOINED", q.users)>>
                        /\ first = h \o j
        BY <2>1, <3>2 DEF InitialMessages
      <4>2. /\ DOMAIN first = {1, 2}
            /\ first[1].type = "CREATED"
            /\ first[2].type = "JOINED" /\ first[2].users = q.users
        <5>1. /\ h \in Seq(Message) /\ Len(h) = 1 /\ h[1].type = "CREATED"
              /\ j \in Seq(Message) /\ Len(j) = 1
              /\ j[1].type = "JOINED" /\ j[1].users = q.users
          BY <1>3, <4>1 DEF Entry, Message
        <5>2. Len(first) = 2 /\ first \in Seq(Message) /\ first[1] = h[1] /\ first[2] = j[1]
          BY <4>1, <5>1
        <5> QED BY <5>1, <5>2
      <4>3. \A u \in Users : (SaysIn(c, u)' <=> u \in q.users) /\ (Joined(c, u)' <=> u \in q.users)
        BY <1>6, <4>2 DEF SaysIn, Joined, IsAbout
      <4> QED BY <1>6, <1>8, <2>1, <4>3 DEF RosterOK, GroupOK
    <3> QED BY <3>1, <3>2
  <2>2. CASE q.kind = "DIRECT"
    <3>1. PICK u \in Users : q.users = {u}
      BY <1>2, <2>2 DEF RosterInvariant, PairsChecked, At
    <3>2. first = <<Entry("CREATED", {})>>
      BY <2>2 DEF InitialMessages
    <3>3. \A i \in DOMAIN first : first[i].type \in {"CREATED", "TEXT"}
      BY <3>2 DEF Entry
    <3>4. u # q.by /\ RowsIn(c)' = {q.by, u} /\ ActiveIn(c)' = {q.by, u}
      BY <1>3, <1>8, <3>1
    <3> QED BY <1>3, <1>6, <2>2, <3>3, <3>4 DEF RosterOK, PairOK
  <2> QED BY <1>3, <2>1, <2>2
<1>10. PairsChecked'
  BY <1>4, <1>5, PairsStay
<1> QED BY <1>1, <1>3, <1>4, <1>9, <1>10, OneChanges DEF TypeOK

LEMMA CommitSendRoster ==
  ASSUME RosterInvariant, NEW r \in Requests, CommitSend(r)
  PROVE  RosterInvariant'
<1> PICK q : q = request[r]
  OBVIOUS
<1> PICK c : c = q.conv
  OBVIOUS
<1> PICK entry : entry = Entry("TEXT", {q.by})
  OBVIOUS
<1> PICK committed : committed = [q EXCEPT !.step = "send.committed", !.seen = ActiveIn(c)]
  OBVIOUS
<1>1. OwnerInvariant /\ TypeOK /\ OwnerInvariant'
  BY CommitSendOwner DEF RosterInvariant, OwnerInvariant
<1>2. q \in Request /\ q.step = "send.checked" /\ CallOK(q)
  BY <1>1 DEF TypeOK, CommitSend, At, OwnerInvariant
<1>3. c \in Conversations /\ q.by \in Users
  BY <1>2 DEF CallOK
<1>4. /\ messages' = [messages EXCEPT ![c] = Append(@, entry)]
      /\ Becomes(r, committed)
      /\ kind' = kind /\ participant' = participant
  BY DEF CommitSend
<1>5. committed.step = "send.committed"
  BY <1>2 DEF Request
<1>6. messages'[c] = Append(messages[c], entry)
  BY <1>1, <1>3, <1>4 DEF TypeOK
<1>7. entry \in Message /\ entry.type = "TEXT"
  BY <1>3 DEF Entry, Message
<1>8. messages[c] \in Seq(Message)
  BY <1>1, <1>3 DEF TypeOK
<1>9. \A u \in Users : (SaysIn(c, u)' <=> SaysIn(c, u)) /\ (Joined(c, u)' <=> Joined(c, u))
  BY <1>3, <1>6, <1>7, <1>8, AppendSays
<1>10. RowsIn(c)' = RowsIn(c) /\ ActiveIn(c)' = ActiveIn(c) /\ OwnersIn(c)' = OwnersIn(c)
  BY <1>4 DEF RowsIn, ActiveIn, OwnersIn
<1>11. RosterOK(c)'
  <2>1. CASE kind[c] = "GROUP"
    <3>1. GroupOK(c)
      BY <1>3, <2>1 DEF RosterInvariant, RosterOK
    <3>2. GroupOK(c)'
      BY <1>9, <1>10, <3>1 DEF GroupOK
    <3> QED BY <1>4, <2>1, <3>2 DEF RosterOK
  <2>2. CASE kind[c] = "DIRECT"
    <3>1. PairOK(c)
      BY <1>3, <2>2 DEF RosterInvariant, RosterOK
    <3>2. \A i \in DOMAIN messages'[c] : messages'[c][i].type \in {"CREATED", "TEXT"}
      <4>1. \A i \in DOMAIN messages'[c] :
              \/ i \in DOMAIN messages[c] /\ messages'[c][i] = messages[c][i]
              \/ messages'[c][i] = entry
        BY <1>6, <1>8
      <4> QED BY <1>7, <3>1, <4>1 DEF PairOK
    <3>3. PairOK(c)'
      BY <1>10, <3>1, <3>2 DEF PairOK
    <3> QED BY <1>4, <2>2, <3>3 DEF RosterOK
  <2> QED BY <1>4, <2>1, <2>2 DEF RosterOK
<1>12. PairsChecked'
  BY <1>4, <1>5, PairsStay
<1> QED BY <1>1, <1>3, <1>4, <1>11, <1>12, OneChanges DEF TypeOK

\* What is left of a call when it reads, answers or is given up.
LEMMA NextRoster == RosterInvariant /\ [Next]_vars => RosterInvariant'
<1> SUFFICES ASSUME RosterInvariant, [Next]_vars PROVE RosterInvariant'
  OBVIOUS
<1>1. OwnerInvariant' /\ TypeOK
  BY NextOwner DEF RosterInvariant, OwnerInvariant
<1>2. ASSUME NEW r \in Requests, Continue(r) PROVE RosterInvariant'
  <2>1. request[r] \in Request
    BY <1>1 DEF TypeOK
  <2>2. CASE ReadLeft(r)
    <3> PICK q : q = [request[r] EXCEPT !.step = "add.split",
                        !.left = request[r].users \cap LeftIn(request[r].conv)]
      OBVIOUS
    <3>1. q.step = "add.split"
      BY <2>1 DEF Request
    <3>2. Becomes(r, q) /\ UNCHANGED store
      BY <2>2 DEF ReadLeft
    <3> QED BY <1>1, <3>1, <3>2, QuietRoster
  <2>3. ASSUME NEW committed, NEW reread, reread # "create.checked",
               Reread(r, committed, reread)
        PROVE  RosterInvariant'
    <3> PICK q : q = [request[r] EXCEPT !.step = reread,
                        !.seen = ActiveIn(request[r].conv)]
      OBVIOUS
    <3>1. q.step # "create.checked"
      BY <2>1, <2>3 DEF Request
    <3>2. (Becomes(r, q) \/ Becomes(r, Ended)) /\ UNCHANGED store
      BY <2>3 DEF Reread, Proceed
    <3> QED BY <1>1, <3>1, <3>2, EndedOK, QuietRoster
  <2>4. CASE Answer(r)
    <3>1. Becomes(r, Ended) /\ UNCHANGED store
      BY <2>4 DEF Answer, EmitCreated, EmitAdded, EmitRemoved, ReturnMessage
    <3> QED BY <1>1, <3>1, EndedOK, QuietRoster
  <2> QED BY <1>2, <2>2, <2>3, <2>4, CommitCreateRoster, CommitAddRoster,
             CommitRemoveRoster, CommitSendRoster
          DEF Continue, Work, RereadAdd, RereadRemove
<1>3. ASSUME NEW r \in Requests, Abort(r) PROVE RosterInvariant'
  BY <1>1, <1>3, EndedOK, QuietRoster DEF Abort
<1>4. CASE UNCHANGED vars
  <2>1. PairsChecked' /\ UNCHANGED store
    BY <1>4 DEF vars, store, RosterInvariant, PairsChecked, At
  <2> QED BY <1>1, <2>1, StoreStays
<1> QED BY <1>2, <1>3, <1>4, BeginRoster DEF Next, AllAnswered

\* What the messages say of every conversation stays true of its rows, whatever
\* calls overlap, fail or are rolled back.
THEOREM RostersStay == Spec => []RosterInvariant
BY InitRoster, NextRoster, PTL DEF Spec

\* In every group the last message about a user tells whether they take part.
THEOREM MessagesAlwaysTellRoster == Spec => []MessagesTellRoster
<1>1. RosterInvariant => MessagesTellRoster
  BY DEF RosterInvariant, RosterOK, GroupOK, MessagesTellRoster
<1> QED BY <1>1, RostersStay, PTL

\* No call ever lets anybody into a DIRECT conversation or out of it.
THEOREM DirectStaysPair == Spec => []DirectIsPair
<1>1. RosterInvariant => DirectIsPair
  BY DEF RosterInvariant, RosterOK, PairOK, DirectIsPair
<1> QED BY <1>1, RostersStay, PTL

(***************************************************************************)
(* The store implements ConversationLog: the owner of a conversation is    *)
(* the one its rows name, its history is its messages.                     *)
(***************************************************************************)
LEMMA OwnerNamed ==
  ASSUME OwnerInvariant, NEW c \in Existing
  PROVE  OwnersIn(c) = {OwnerOf(c)} /\ OwnerOf(c) \in Users
<1>1. PICK o \in Users : OwnersIn(c) = {o}
  BY DEF OwnerInvariant, OneOwner
<1>2. OwnerOf(c) = CHOOSE u \in Users : u \in OwnersIn(c)
  BY DEF OwnerOf, Existing
<1> QED BY <1>1, <1>2

\* A conversation whose type and owners stay what they are has the owner it had.
LEMMA OwnerKept ==
  ASSUME OwnerInvariant, NEW c \in Conversations,
         kind'[c] = kind[c], OwnersIn(c)' = OwnersIn(c)
  PROVE  OwnerOf(c)' = OwnerOf(c)
<1>1. CASE kind[c] = "NONE"
  BY <1>1 DEF OwnerOf
<1>2. CASE kind[c] # "NONE"
  <2>1. PICK o \in Users : OwnersIn(c) = {o} /\ OwnerOf(c) = o
    BY <1>2, OwnerNamed DEF Existing
  <2>2. OwnersIn(c)' = {o} /\ kind'[c] # "NONE"
    BY <1>2, <2>1
  <2>3. OwnerOf(c)' = o
    BY <2>2 DEF OwnerOf
  <2> QED BY <2>1, <2>3
<1> QED BY <1>1, <1>2

\* So it is for all of them when types and roles stay.
LEMMA OwnersKept ==
  ASSUME OwnerInvariant, UNCHANGED kind,
         \A c \in Conversations : \A u \in Users :
           participant'[c][u].role = "OWNER" <=> participant[c][u].role = "OWNER"
  PROVE  \A c \in Conversations : OwnerOf(c)' = OwnerOf(c)
<1>1. \A c \in Conversations : OwnersIn(c)' = OwnersIn(c)
  BY DEF OwnersIn
<1> QED BY <1>1, OwnerKept

\* One more message in the history of c, and nobody else's business.
LEMMA OneHappens ==
  ASSUME NEW c \in Conversations, NEW type, NEW us,
         messages' = [messages EXCEPT ![c] = Append(@, Entry(type, us))],
         UNCHANGED kind, \A d \in Conversations : OwnerOf(d)' = OwnerOf(d)
  PROVE  Log!Happens(c, Log!Entry(type, us))
<1>1. Log!Entry(type, us) = Entry(type, us)
  BY DEF Log!Entry, Entry
<1> QED BY <1>1 DEF Log!Happens

LEMMA LogAdd ==
  ASSUME RosterInvariant, NEW r \in Requests, CommitAdd(r)
  PROVE  [Log!Next]_(Log!logvars)
<1> PICK q : q = request[r]
  OBVIOUS
<1> PICK c : c = q.conv
  OBVIOUS
<1>1. /\ TypeOK /\ OwnerInvariant
      /\ c \in Existing /\ c \in Conversations /\ kind[c] = "GROUP"
      /\ q.users \in SUBSET Users /\ q.users # {} /\ q.users \cap OwnersIn(c) = {}
  <2>1. TypeOK /\ OwnerInvariant /\ q \in Request /\ q.step = "add.split" /\ CallOK(q)
    BY DEF RosterInvariant, OwnerInvariant, TypeOK, CommitAdd, At
  <2> QED BY <2>1 DEF CallOK, Request, Existing
<1>2. CASE (q.users \ q.left) \cap RowsIn(c) = {}
  <2>1. /\ participant' = [participant EXCEPT ![c] = RowsAfterAdd(c, q.users)]
        /\ messages' = [messages EXCEPT ![c] = Append(@, Entry("JOINED", q.users))]
        /\ UNCHANGED kind
    BY <1>2 DEF CommitAdd
  <2>2. \A d \in Conversations : \A u \in Users :
          participant'[d][u].role = "OWNER" <=> participant[d][u].role = "OWNER"
    BY <1>1, <2>1 DEF TypeOK, RowsAfterAdd, MemberRow, OwnersIn
  <2>3. Log!Happens(c, Log!Entry("JOINED", q.users))
    BY <1>1, <2>1, <2>2, OwnersKept, OneHappens
  <2>4. OwnerOf(c) \notin q.users
    BY <1>1, OwnerNamed
  <2>5. Log!Join(c, q.users)
    BY <1>1, <2>3, <2>4 DEF Log!Join
  <2> QED BY <1>1, <2>5 DEF Log!Next
<1>3. CASE ~((q.users \ q.left) \cap RowsIn(c) = {})
  BY <1>3 DEF CommitAdd, store, Log!logvars, OwnerOf, OwnersIn
<1> QED BY <1>2, <1>3

LEMMA LogRemove ==
  ASSUME RosterInvariant, NEW r \in Requests, CommitRemove(r)
  PROVE  Log!Next
<1> PICK q : q = request[r]
  OBVIOUS
<1> PICK c : c = q.conv
  OBVIOUS
<1>1. /\ TypeOK /\ OwnerInvariant
      /\ c \in Existing /\ c \in Conversations /\ kind[c] = "GROUP"
      /\ \E t \in RowsIn(c) \ OwnersIn(c) : q.users = {t}
  <2>1. TypeOK /\ OwnerInvariant /\ q \in Request /\ q.step = "remove.checked" /\ CallOK(q)
    BY DEF RosterInvariant, OwnerInvariant, TypeOK, CommitRemove, At
  <2> QED BY <2>1 DEF CallOK, Request, Existing
<1>2. PICK t \in RowsIn(c) \ OwnersIn(c) : q.users = {t}
  BY <1>1
<1>3. /\ participant' = [participant EXCEPT ![c] = RowsAfterRemove(c, q.users)]
      /\ messages' = [messages EXCEPT ![c] = Append(@, Entry("LEFT", {t}))]
      /\ UNCHANGED kind
  BY <1>2 DEF CommitRemove
<1>4. \A d \in Conversations : \A u \in Users :
        participant'[d][u].role = "OWNER" <=> participant[d][u].role = "OWNER"
  BY <1>1, <1>3 DEF TypeOK, RowsAfterRemove, Departed
<1>5. Log!Happens(c, Log!Entry("LEFT", {t}))
  BY <1>1, <1>3, <1>4, OwnersKept, OneHappens
<1>6. t \in Users /\ Joined(c, t) /\ t # OwnerOf(c)
  BY <1>1, <1>2, OwnerNamed DEF RosterInvariant, RosterOK, GroupOK, RowsIn
<1>7. Log!Leave(c, t)
  BY <1>1, <1>5, <1>6 DEF Log!Leave, Log!JoinedIn, Log!About, Joined, IsAbout
<1> QED BY <1>1, <1>6, <1>7 DEF Log!Next

LEMMA LogSend ==
  ASSUME RosterInvariant, NEW r \in Requests, CommitSend(r)
  PROVE  Log!Next
<1> PICK q : q = request[r]
  OBVIOUS
<1> PICK c : c = q.conv
  OBVIOUS
<1>1. /\ TypeOK /\ OwnerInvariant
      /\ c \in Existing /\ c \in Conversations /\ kind[c] # "NONE"
      /\ q.by \in RowsIn(c) /\ q.by \in Users
  <2>1. TypeOK /\ OwnerInvariant /\ q \in Request /\ q.step = "send.checked" /\ CallOK(q)
    BY DEF RosterInvariant, OwnerInvariant, TypeOK, CommitSend, At
  <2> QED BY <2>1 DEF CallOK, Existing
<1>2. /\ messages' = [messages EXCEPT ![c] = Append(@, Entry("TEXT", {q.by}))]
      /\ UNCHANGED <<kind, participant>>
  BY DEF CommitSend
<1>3. Log!Happens(c, Log!Entry("TEXT", {q.by}))
  BY <1>1, <1>2, OwnersKept, OneHappens
<1>4. kind[c] = "GROUP" => q.by = OwnerOf(c) \/ Joined(c, q.by)
  BY <1>1, OwnerNamed DEF RosterInvariant, RosterOK, GroupOK
<1>5. Log!Text(c, q.by)
  BY <1>1, <1>3, <1>4 DEF Log!Text, Log!Admitted, Log!JoinedIn, Log!About, Joined, IsAbout
<1> QED BY <1>1, <1>5 DEF Log!Next

LEMMA LogCreate ==
  ASSUME RosterInvariant, NEW r \in Requests, CommitCreate(r)
  PROVE  Log!Next
<1> PICK q : q = request[r]
  OBVIOUS
<1> PICK c : c = q.conv
  OBVIOUS
<1>1. /\ TypeOK /\ OwnerInvariant
      /\ c \in Conversations /\ kind[c] = "NONE" /\ q.kind \in {"DIRECT", "GROUP"}
      /\ q.by \in Users /\ q.users \in SUBSET Users /\ q.by \notin q.users
  <2>1. /\ TypeOK /\ OwnerInvariant
        /\ q \in Request /\ q.step = "create.checked" /\ CallOK(q)
    BY DEF RosterInvariant, OwnerInvariant, TypeOK, CommitCreate, At
  <2> QED BY <2>1 DEF CallOK, Request
<1>2. /\ kind' = [kind EXCEPT ![c] = q.kind]
      /\ participant' = [participant EXCEPT ![c] = InitialRows(q.by, q.users)]
      /\ messages' = [messages EXCEPT ![c] = InitialMessages(q.kind, q.users)]
  BY DEF CommitCreate
<1>3. OwnerOf(c)' = q.by
  <2>1. OwnersIn(c)' = {q.by}
    BY <1>1, <1>2 DEF TypeOK, OwnersIn, InitialRows, OwnerRow, MemberRow, NoRow
  <2>2. kind'[c] # "NONE"
    BY <1>1, <1>2 DEF TypeOK
  <2> QED BY <1>1, <2>1, <2>2 DEF OwnerOf
<1>4. \A d \in Conversations \ {c} : OwnerOf(d)' = OwnerOf(d)
  <2>1. \A d \in Conversations \ {c} : kind'[d] = kind[d] /\ OwnersIn(d)' = OwnersIn(d)
    BY <1>1, <1>2 DEF TypeOK, OwnersIn
  <2> QED BY <1>1, <2>1, OwnerKept
<1>5. \A type, us : Log!Entry(type, us) = Entry(type, us)
  BY DEF Log!Entry, Entry
<1>6. Log!Open(c, q.kind, q.by, q.users)
  BY <1>1, <1>2, <1>3, <1>4, <1>5 DEF Log!Open, InitialMessages
<1> QED BY <1>1, <1>6 DEF Log!Next

LEMMA LogStays ==
  ASSUME OwnerInvariant, UNCHANGED store
  PROVE  UNCHANGED Log!logvars
<1>1. UNCHANGED kind /\ \A c \in Conversations : OwnersIn(c)' = OwnersIn(c)
  BY DEF store, OwnersIn
<1>2. \A c \in Conversations : OwnerOf(c)' = OwnerOf(c)
  BY <1>1, OwnerKept
<1> QED BY <1>2 DEF store, Log!logvars

LEMMA LogStep == RosterInvariant /\ [Next]_vars => [Log!Next]_(Log!logvars)
<1> SUFFICES ASSUME RosterInvariant, [Next]_vars PROVE [Log!Next]_(Log!logvars)
  OBVIOUS
<1>1. OwnerInvariant
  BY DEF RosterInvariant
<1>2. CASE \E r \in Requests : CommitCreate(r) \/ CommitAdd(r) \/ CommitRemove(r) \/ CommitSend(r)
  BY <1>2, LogCreate, LogAdd, LogRemove, LogSend
<1>3. CASE UNCHANGED store
  BY <1>1, <1>3, LogStays
<1>4. ASSUME NEW r \in Requests, Begin(r) PROVE UNCHANGED store
  BY <1>4 DEF Begin, BeginHttp, RefuseIds, BeginCreate, BeginAdd, BeginRemove, BeginSend,
              StartSend
<1>5. ASSUME NEW r \in Requests,
             ReadLeft(r) \/ RereadAdd(r) \/ RereadRemove(r) \/ Answer(r) \/ Abort(r)
      PROVE  UNCHANGED store
  BY <1>5 DEF ReadLeft, RereadAdd, RereadRemove, Reread, Answer, EmitCreated, EmitAdded,
              EmitRemoved, ReturnMessage, Abort
<1>6. (AllAnswered \/ UNCHANGED vars) => UNCHANGED store
  BY DEF AllAnswered, vars, store
<1> QED BY <1>2, <1>3, <1>4, <1>5, <1>6 DEF Next, Continue, Work

\* Whatever calls overlap, a conversation only ever appends whole events to its
\* history, and nobody but those the history has let in leaves or writes.
THEOREM StoreImplementsLog == Spec => ImplementsLog
<1>1. Init => Log!Init
  <2> SUFFICES ASSUME Init PROVE Log!Init
    OBVIOUS
  <2>1. \A c \in Conversations : OwnerOf(c) = None
    BY DEF Init, OwnerOf
  <2> QED BY <2>1 DEF Init, Log!Init
<1> QED BY <1>1, LogStep, RostersStay, PTL DEF Spec, ImplementsLog, Log!Spec
=============================================================================
