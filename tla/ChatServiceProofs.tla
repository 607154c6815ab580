-------------------------- MODULE ChatServiceProofs --------------------------
(***************************************************************************)
(* Theorems about ChatService, for every set of users, conversations and   *)
(* calls and every degree of overlap.                                      *)
(***************************************************************************)
EXTENDS ChatService, TLAPS

(***************************************************************************)
(* Types.                                                                  *)
(***************************************************************************)

\* What the rows of a conversation become is again one row per user.
LEMMA RowsTyped ==
  ASSUME TypeOK, NEW c \in Conversations, NEW i, NEW us
  PROVE  /\ InitialRows(i, us) \in [Users -> Row]
         /\ RowsAfterAdd(c, us) \in [Users -> Row]
         /\ RowsAfterRemove(c, us) \in [Users -> Row]
<1>1. \A u \in Users : participant[c][u] \in Row
  BY DEF TypeOK
<1>2. NoRow \in Row /\ OwnerRow \in Row /\ MemberRow \in Row
  BY DEF Row, NoRow, OwnerRow, MemberRow
<1>3. \A u \in Users : Departed(participant[c][u]) \in Row
  <2>1. Departed(NoRow) = NoRow
    BY DEF Departed, NoRow
  <2>2. \A w \in [role : {"OWNER", "MEMBER"}, active : BOOLEAN] : Departed(w) \in Row
    BY DEF Departed, Row
  <2> QED BY <1>1, <2>1, <2>2 DEF Row
<1> QED BY <1>1, <1>2, <1>3 DEF InitialRows, RowsAfterAdd, RowsAfterRemove

\* The first messages of a conversation, and every message appended, are messages.
LEMMA MessagesTyped ==
  ASSUME NEW us \in SUBSET Users
  PROVE  /\ \A k : InitialMessages(k, us) \in Seq(Message)
         /\ \A type \in {"CREATED", "JOINED", "LEFT", "TEXT"} : Entry(type, us) \in Message
         /\ \A type \in {"CREATED", "JOINED", "LEFT", "TEXT"} :
              \A s \in Seq(Message) : Append(s, Entry(type, us)) \in Seq(Message)
<1>1. \A type \in {"CREATED", "JOINED", "LEFT", "TEXT"} : Entry(type, us) \in Message
  BY DEF Entry, Message
<1>2. Entry("CREATED", {}) \in Message
  BY DEF Entry, Message
<1>3. /\ <<Entry("CREATED", {})>> \in Seq(Message)
      /\ <<Entry("JOINED", us)>> \in Seq(Message)
      /\ << >> \in Seq(Message)
  BY <1>1, <1>2
<1>4. \A k : InitialMessages(k, us) \in Seq(Message)
  BY <1>3 DEF InitialMessages
<1> QED BY <1>1, <1>4

\* The records that calls move between are calls.
LEMMA CallsTyped ==
  /\ Idle \in Request /\ Ended \in Request
  /\ \A step \in Steps, i \in Users, c \in Conversations,
        k \in {"NONE", "DIRECT", "GROUP"}, us \in SUBSET Users :
       Call(step, i, c, k, us) \in Request
  /\ \A q \in Request, step \in Steps, us \in SUBSET Users :
       /\ [q EXCEPT !.step = step] \in Request
       /\ [q EXCEPT !.step = step, !.left = us] \in Request
       /\ [q EXCEPT !.step = step, !.seen = us] \in Request
<1>1. Idle \in Request
  BY DEF Idle, Request, Steps
<1>2. \A step \in Steps, i \in Users, c \in Conversations,
        k \in {"NONE", "DIRECT", "GROUP"}, us \in SUBSET Users :
       Call(step, i, c, k, us) \in Request
  BY DEF Call, Request
<1>3. \A q \in Request, step \in Steps : [q EXCEPT !.step = step] \in Request
  BY DEF Request
<1>4. \A q \in Request, step \in Steps, us \in SUBSET Users :
       [q EXCEPT !.step = step, !.left = us] \in Request
  BY DEF Request
<1>5. \A q \in Request, step \in Steps, us \in SUBSET Users :
       [q EXCEPT !.step = step, !.seen = us] \in Request
  BY DEF Request
<1>6. "ended" \in Steps
  BY DEF Steps
<1>7. Ended \in Request
  BY <1>1, <1>3, <1>6 DEF Ended
<1> QED BY <1>1, <1>2, <1>3, <1>4, <1>5, <1>7

\* Whoever takes part has a row.
LEMMA ActiveHaveRows ==
  ASSUME TypeOK, NEW c \in Conversations
  PROVE  ActiveIn(c) \subseteq RowsIn(c)
BY DEF TypeOK, Row, NoRow, ActiveIn, RowsIn

(***************************************************************************)
(* The invariant of owners.                                                *)
(***************************************************************************)

\* A step that leaves the store alone and moves one call to a record that is
\* right keeps the invariant; a call that draws an identity must draw its own.
LEMMA CallMoves ==
  ASSUME OwnerInvariant, UNCHANGED store,
         NEW r \in Requests, NEW q \in Request, Becomes(r, q), CallOK(q),
         q.step = "create.checked" =>
           \A s \in Requests \ {r} :
             ~(At(s, "create.checked") /\ request[s].conv = q.conv)
  PROVE  OwnerInvariant'
<1> USE DEF OwnerInvariant, Becomes, store
<1>1. TypeOK'
  BY DEF TypeOK
<1>2. OneOwner'
  BY DEF OneOwner, Existing, OwnersIn
<1>3. request'[r] = q /\ \A s \in Requests \ {r} : request'[s] = request[s]
  BY DEF TypeOK
<1>4. (\A s \in Requests : CallOK(request[s]))'
  BY <1>3 DEF CallOK, OwnersIn, RowsIn
<1>5. CreatesApart'
  BY <1>3 DEF CreatesApart, At
<1> QED BY <1>1, <1>2, <1>4, <1>5

\* A call that has ended asks for nothing.
LEMMA EndedOK == CallOK(Ended) /\ Ended \in Request /\ Ended.step = "ended"
<1>1. Ended.step = "ended"
  BY DEF Ended, Idle
<1> QED BY <1>1, CallsTyped DEF CallOK

\* Owners stay, rows stay and types stay: then what a call has checked stays.
LEMMA ChecksStay ==
  ASSUME kind' = kind,
         \A c \in Conversations : OwnersIn(c)' = OwnersIn(c) /\ RowsIn(c) \subseteq RowsIn(c)',
         NEW q, CallOK(q)
  PROVE  CallOK(q)'
BY DEF CallOK

LEMMA InitOwner == Init => OwnerInvariant
<1> SUFFICES ASSUME Init PROVE OwnerInvariant
  OBVIOUS
<1> USE DEF Init
<1>1. TypeOK
  <2>1. NoRow \in Row
    BY DEF Row
  <2>2. kind \in [Conversations -> {"NONE", "DIRECT", "GROUP"}]
    OBVIOUS
  <2>3. participant \in [Conversations -> [Users -> Row]]
    BY <2>1
  <2>4. messages \in [Conversations -> Seq(Message)]
    OBVIOUS
  <2>5. request \in [Requests -> Request]
    BY CallsTyped
  <2> QED BY <2>2, <2>3, <2>4, <2>5 DEF TypeOK
<1>2. OneOwner
  BY DEF OneOwner, Existing
<1>3. \A r \in Requests : request[r].step = "idle"
  BY DEF Idle
<1> QED BY <1>1, <1>2, <1>3 DEF OwnerInvariant, CallOK, CreatesApart, At

\* The steps that end a call and write nothing: refusals, aborts, the events
\* sent and the answers given.
LEMMA CallEnds ==
  ASSUME OwnerInvariant, NEW r \in Requests, Becomes(r, Ended), UNCHANGED store
  PROVE  OwnerInvariant'
BY CallMoves, EndedOK

\* The first step of a call: what it checks is what CallOK asks for.
LEMMA BeginOwner ==
  ASSUME OwnerInvariant, NEW r \in Requests, Begin(r)
  PROVE  OwnerInvariant'
<1> USE DEF OwnerInvariant
<1>1. CASE RefuseIds(r)
  BY <1>1, CallEnds DEF RefuseIds
<1>2. CASE BeginCreate(r)
  <2>1. PICK i \in Admins, k \in {"DIRECT", "GROUP"}, c \in Conversations :
          \E us \in Invitees(i, k) :
            /\ Fresh(c)
            /\ Proceed(r, CreateAccepts(i, k, us), Call("create.checked", i, c, k, us))
    BY <1>2 DEF BeginCreate
  <2>2. PICK us \in Invitees(i, k) :
          /\ Fresh(c)
          /\ Proceed(r, CreateAccepts(i, k, us), Call("create.checked", i, c, k, us))
    BY <2>1
  <2> DEFINE q == Call("create.checked", i, c, k, us)
  <2>3. i \in Users /\ us \in SUBSET Users /\ i \notin us
    BY AdminsAssumption DEF Invitees
  <2>4. q \in Request
    BY <2>3, CallsTyped DEF Steps
  <2>5. CallOK(q)
    BY <2>2, <2>3 DEF CallOK, Call, Fresh
  <2>6. \A s \in Requests : ~(At(s, "create.checked") /\ request[s].conv = q.conv)
    BY <2>2 DEF Fresh, Call
  <2>7. UNCHANGED store
    BY <1>2 DEF BeginCreate
  <2>8. CASE CreateAccepts(i, k, us)
    <3>1. Becomes(r, q)
      BY <2>2, <2>8 DEF Proceed
    <3> HIDE DEF q
    <3> QED BY <3>1, <2>4, <2>5, <2>6, <2>7, CallMoves
  <2>9. CASE ~CreateAccepts(i, k, us)
    BY <2>2, <2>7, <2>9, CallEnds DEF Proceed
  <2> QED BY <2>8, <2>9
<1>3. CASE BeginAdd(r)
  <2>1. PICK i \in Users, c \in Existing, us \in (SUBSET Users) \ {{}} :
          Proceed(r, AddAccepts(c, i, us), Call("add.checked", i, c, "NONE", us))
    BY <1>3 DEF BeginAdd
  <2> DEFINE q == Call("add.checked", i, c, "NONE", us)
  <2>2. UNCHANGED store
    BY <1>3 DEF BeginAdd
  <2>3. q \in Request /\ q.step # "create.checked"
    BY CallsTyped DEF Steps, Call, Existing
  <2>4. CASE AddAccepts(c, i, us)
    <3>1. us \cap OwnersIn(c) = {}
      BY <2>4 DEF OneOwner, AddAccepts, ActiveIn, OwnersIn, Existing
    <3>2. CallOK(q)
      BY <2>4, <3>1 DEF CallOK, Call, AddAccepts, Existing
    <3>3. Becomes(r, q)
      BY <2>1, <2>4 DEF Proceed
    <3> HIDE DEF q
    <3> QED BY <3>2, <3>3, <2>2, <2>3, CallMoves
  <2>5. CASE ~AddAccepts(c, i, us)
    BY <2>1, <2>2, <2>5, CallEnds DEF Proceed
  <2> QED BY <2>4, <2>5
<1>4. CASE BeginRemove(r)
  <2>1. PICK i \in Users, c \in Existing, t \in Users :
          Proceed(r, RemoveAccepts(c, i, t), Call("remove.checked", i, c, "NONE", {t}))
    BY <1>4 DEF BeginRemove
  <2> DEFINE q == Call("remove.checked", i, c, "NONE", {t})
  <2>2. UNCHANGED store
    BY <1>4 DEF BeginRemove
  <2>3. q \in Request /\ q.step # "create.checked"
    BY CallsTyped DEF Steps, Call, Existing
  <2>4. CASE RemoveAccepts(c, i, t)
    <3>1. i \in OwnersIn(c) /\ OwnersIn(c) = {i}
      BY <2>4 DEF OneOwner, RemoveAccepts, OwnersIn
    <3>2. t \in ActiveIn(c)
      BY <2>4 DEF RemoveAccepts
    <3>3. t \in RowsIn(c) \ OwnersIn(c)
      BY <2>4, <3>1, <3>2, ActiveHaveRows DEF RemoveAccepts, Existing
    <3>4. CallOK(q)
      BY <2>4, <3>1, <3>3 DEF CallOK, Call, RemoveAccepts, Existing
    <3>5. Becomes(r, q)
      BY <2>1, <2>4 DEF Proceed
    <3> HIDE DEF q
    <3> QED BY <3>4, <3>5, <2>2, <2>3, CallMoves
  <2>5. CASE ~RemoveAccepts(c, i, t)
    BY <2>1, <2>2, <2>5, CallEnds DEF Proceed
  <2> QED BY <2>4, <2>5
<1>5. CASE BeginSend(r)
  <2>1. PICK u \in Users, c \in Existing :
          Proceed(r, SendAccepts(c, u), Call("send.checked", u, c, "NONE", {}))
    BY <1>5 DEF BeginSend, StartSend
  <2> DEFINE q == Call("send.checked", u, c, "NONE", {})
  <2>2. UNCHANGED store
    BY <1>5 DEF BeginSend, StartSend
  <2>3. q \in Request /\ q.step # "create.checked"
    BY CallsTyped DEF Steps, Call, Existing
  <2>4. CASE SendAccepts(c, u)
    <3>1. CallOK(q)
      BY <2>4, ActiveHaveRows DEF CallOK, Call, SendAccepts, Existing
    <3>2. Becomes(r, q)
      BY <2>1, <2>4 DEF Proceed
    <3> HIDE DEF q
    <3> QED BY <3>1, <3>2, <2>2, <2>3, CallMoves
  <2>5. CASE ~SendAccepts(c, u)
    BY <2>1, <2>2, <2>5, CallEnds DEF Proceed
  <2> QED BY <2>4, <2>5
<1> QED BY <1>1, <1>2, <1>3, <1>4, <1>5 DEF Begin, BeginHttp

\* A commit that keeps every owner's row and only ever makes others MEMBERs.
LEMMA RowsChange ==
  ASSUME OwnerInvariant,
         NEW c \in Conversations, NEW rows \in [Users -> Row],
         \A u \in Users :
           IF u \in OwnersIn(c) THEN rows[u] = participant[c][u]
           ELSE /\ rows[u].role # "OWNER"
                /\ u \in RowsIn(c) => rows[u].role # "NONE",
         kind' = kind, participant' = [participant EXCEPT ![c] = rows],
         messages' \in [Conversations -> Seq(Message)],
         NEW r \in Requests, NEW q \in Request, Becomes(r, q),
         CallOK(q)', q.step # "create.checked"
  PROVE  OwnerInvariant'
<1> USE DEF OwnerInvariant
<1>1. request'[r] = q /\ \A s \in Requests \ {r} : request'[s] = request[s]
  BY DEF TypeOK, Becomes
<1>2. TypeOK'
  BY DEF TypeOK, Becomes
<1>3. participant'[c] = rows /\ \A d \in Conversations \ {c} : participant'[d] = participant[d]
  BY DEF TypeOK
<1>4. \A d \in Conversations : OwnersIn(d)' = OwnersIn(d) /\ RowsIn(d) \subseteq RowsIn(d)'
  <2>1. OwnersIn(c)' = OwnersIn(c) /\ RowsIn(c) \subseteq RowsIn(c)'
    BY <1>3 DEF OwnersIn, RowsIn
  <2>2. ASSUME NEW d \in Conversations \ {c}
        PROVE  OwnersIn(d)' = OwnersIn(d) /\ RowsIn(d)' = RowsIn(d)
    BY <1>3 DEF OwnersIn, RowsIn
  <2> QED BY <2>1, <2>2
<1>5. OneOwner'
  <2> SUFFICES ASSUME NEW d \in Conversations, kind[d] # "NONE"
               PROVE  \E o \in Users : OwnersIn(d)' = {o} /\ participant'[d][o].active
    BY DEF OneOwner, Existing
  <2>1. PICK o \in Users : OwnersIn(d) = {o} /\ participant[d][o].active
    BY DEF OneOwner, Existing
  <2>2. participant'[d][o] = participant[d][o]
    BY <1>3, <2>1
  <2> QED BY <1>4, <2>1, <2>2
<1>6. (\A s \in Requests : CallOK(request[s]))'
  <2> SUFFICES ASSUME NEW s \in Requests \ {r} PROVE CallOK(request[s])'
    BY <1>1 DEF CallOK
  <2> DEFINE p == request[s]
  <2>1. CallOK(p)
    OBVIOUS
  <2> QED BY <1>1, <1>4, <2>1 DEF CallOK
<1>7. CreatesApart'
  BY <1>1 DEF CreatesApart, At
<1> QED BY <1>2, <1>5, <1>6, <1>7

\* In the lemmas about commits q, c, rows and committed are constants that hold
\* the values before the step, so that priming leaves them alone.
LEMMA CommitAddOwner ==
  ASSUME OwnerInvariant, NEW r \in Requests, CommitAdd(r)
  PROVE  OwnerInvariant'
<1> USE DEF OwnerInvariant
<1> PICK q : q = request[r]
  OBVIOUS
<1> PICK c : c = q.conv
  OBVIOUS
<1> PICK rows : rows = RowsAfterAdd(c, q.users)
  OBVIOUS
<1> PICK committed : committed = [q EXCEPT !.step = "add.committed"]
  OBVIOUS
<1>1. q \in Request /\ q.step = "add.split" /\ CallOK(q)
  BY DEF TypeOK, CommitAdd, At
<1>2. c \in Conversations /\ q.by \in Users /\ q.users \in SUBSET Users
  BY <1>1 DEF CallOK, Request
<1>3. q.users \cap OwnersIn(c) = {}
  BY <1>1 DEF CallOK
<1>4. CASE (q.users \ q.left) \cap RowsIn(c) = {}
  <2>1. /\ participant' = [participant EXCEPT ![c] = rows]
        /\ messages' = [messages EXCEPT ![c] = Append(@, Entry("JOINED", q.users))]
        /\ Becomes(r, committed)
        /\ kind' = kind
    BY <1>4 DEF CommitAdd
  <2>2. rows \in [Users -> Row]
    BY <1>2, RowsTyped
  <2>3. \A u \in Users :
          IF u \in OwnersIn(c) THEN rows[u] = participant[c][u]
          ELSE /\ rows[u].role # "OWNER"
               /\ u \in RowsIn(c) => rows[u].role # "NONE"
    BY <1>2, <1>3 DEF RowsAfterAdd, OwnersIn, RowsIn, MemberRow
  <2>4. messages' \in [Conversations -> Seq(Message)]
    <3>1. Append(messages[c], Entry("JOINED", q.users)) \in Seq(Message)
      BY <1>2, MessagesTyped DEF TypeOK
    <3> QED BY <2>1, <3>1 DEF TypeOK
  <2>5. committed \in Request /\ committed.step = "add.committed"
    <3>1. committed \in Request
      BY <1>1, CallsTyped DEF Steps
    <3> QED BY <1>1, <3>1 DEF Request
  <2>6. committed.by = q.by /\ committed.conv = q.conv
    BY <1>1 DEF Request
  <2>7. CallOK(committed)'
    BY <1>2, <2>5, <2>6 DEF CallOK
  <2> QED BY <1>2, <2>1, <2>2, <2>3, <2>4, <2>5, <2>7, RowsChange
<1>5. CASE ~((q.users \ q.left) \cap RowsIn(c) = {})
  BY <1>5, CallEnds DEF CommitAdd
<1> QED BY <1>4, <1>5

LEMMA CommitRemoveOwner ==
  ASSUME OwnerInvariant, NEW r \in Requests, CommitRemove(r)
  PROVE  OwnerInvariant'
<1> USE DEF OwnerInvariant
<1> PICK q : q = request[r]
  OBVIOUS
<1> PICK c : c = q.conv
  OBVIOUS
<1> PICK rows : rows = RowsAfterRemove(c, q.users)
  OBVIOUS
<1> PICK committed : committed = [q EXCEPT !.step = "remove.committed"]
  OBVIOUS
<1>1. q \in Request /\ q.step = "remove.checked" /\ CallOK(q)
  BY DEF TypeOK, CommitRemove, At
<1>2. /\ c \in Conversations /\ q.by \in Users /\ q.users \in SUBSET Users
      /\ kind[c] = "GROUP"
  BY <1>1 DEF CallOK, Request
<1>3. PICK t \in RowsIn(c) \ OwnersIn(c) : q.users = {t}
  BY <1>1 DEF CallOK
<1>4. /\ participant' = [participant EXCEPT ![c] = rows]
      /\ messages' = [messages EXCEPT ![c] = Append(@, Entry("LEFT", q.users))]
      /\ Becomes(r, committed)
      /\ kind' = kind
  BY DEF CommitRemove
<1>5. rows \in [Users -> Row]
  BY <1>2, RowsTyped
<1>6. \A u \in Users : rows[u].role = participant[c][u].role
  BY DEF RowsAfterRemove, Departed
<1>7. \A u \in Users :
        IF u \in OwnersIn(c) THEN rows[u] = participant[c][u]
        ELSE /\ rows[u].role # "OWNER"
             /\ u \in RowsIn(c) => rows[u].role # "NONE"
  <2>1. \A u \in OwnersIn(c) : rows[u] = participant[c][u]
    BY <1>3 DEF RowsAfterRemove, OwnersIn
  <2> QED BY <1>6, <2>1 DEF OwnersIn, RowsIn
<1>8. messages' \in [Conversations -> Seq(Message)]
  <2>1. Append(messages[c], Entry("LEFT", q.users)) \in Seq(Message)
    BY <1>2, MessagesTyped DEF TypeOK
  <2> QED BY <1>4, <2>1 DEF TypeOK
<1>9. committed \in Request /\ committed.step = "remove.committed"
  <2>1. committed \in Request
    BY <1>1, CallsTyped DEF Steps
  <2> QED BY <1>1, <2>1 DEF Request
<1>10. committed.by = q.by /\ committed.conv = c /\ committed.users = {t}
  BY <1>1, <1>3 DEF Request
<1>11. OwnersIn(c)' = OwnersIn(c) /\ RowsIn(c)' = RowsIn(c)
  <2>1. participant'[c] = rows
    BY <1>2, <1>4 DEF TypeOK
  <2> QED BY <1>6, <2>1 DEF OwnersIn, RowsIn
<1>12. CallOK(committed)'
  <2>1. q.by \in OwnersIn(c)
    BY <1>1 DEF CallOK
  <2> QED BY <1>2, <1>3, <1>4, <1>9, <1>10, <1>11, <2>1 DEF CallOK
<1> QED BY <1>2, <1>4, <1>5, <1>7, <1>8, <1>9, <1>12, RowsChange

LEMMA CommitCreateOwner ==
  ASSUME OwnerInvariant, NEW r \in Requests, CommitCreate(r)
  PROVE  OwnerInvariant'
<1> USE DEF OwnerInvariant
<1> PICK q : q = request[r]
  OBVIOUS
<1> PICK c : c = q.conv
  OBVIOUS
<1> PICK rows : rows = InitialRows(q.by, q.users)
  OBVIOUS
<1> PICK committed :
      committed = [q EXCEPT !.step = "create.committed", !.seen = q.users \cup {q.by}]
  OBVIOUS
<1>1. q \in Request /\ q.step = "create.checked" /\ CallOK(q)
  BY DEF TypeOK, CommitCreate, At
<1>2. /\ c \in Conversations /\ q.by \in Users /\ q.users \in SUBSET Users
      /\ kind[c] = "NONE" /\ q.kind \in {"DIRECT", "GROUP"} /\ q.by \notin q.users
  BY <1>1 DEF CallOK, Request
<1>3. /\ kind' = [kind EXCEPT ![c] = q.kind]
      /\ participant' = [participant EXCEPT ![c] = rows]
      /\ messages' = [messages EXCEPT ![c] = InitialMessages(q.kind, q.users)]
      /\ Becomes(r, committed)
  BY DEF CommitCreate
<1>4. committed \in Request /\ committed.step = "create.committed"
  <2>1. q.users \cup {q.by} \in SUBSET Users
    BY <1>2
  <2>2. committed \in Request
    BY <1>1, <2>1, CallsTyped DEF Steps
  <2> QED BY <1>1, <2>2 DEF Request
<1>5. committed.by = q.by /\ committed.conv = c
  BY <1>1 DEF Request
<1>6. request'[r] = committed /\ \A s \in Requests \ {r} : request'[s] = request[s]
  BY <1>3 DEF TypeOK, Becomes
<1>7. TypeOK'
  <2>1. rows \in [Users -> Row]
    BY <1>2, RowsTyped
  <2>2. InitialMessages(q.kind, q.users) \in Seq(Message)
    BY <1>2, MessagesTyped
  <2> QED BY <1>2, <1>3, <1>4, <2>1, <2>2 DEF TypeOK, Becomes
<1>8. kind'[c] = q.kind /\ participant'[c] = rows
  BY <1>2, <1>3 DEF TypeOK
<1>9. \A d \in Conversations \ {c} : kind'[d] = kind[d] /\ participant'[d] = participant[d]
  BY <1>3 DEF TypeOK
<1>10. OneOwner'
  <2>1. OwnersIn(c)' = {q.by} /\ participant'[c][q.by].active
    BY <1>2, <1>8 DEF OwnersIn, InitialRows, OwnerRow, MemberRow, NoRow
  <2>2. ASSUME NEW d \in Conversations \ {c}, kind'[d] # "NONE"
        PROVE  \E o \in Users : OwnersIn(d)' = {o} /\ participant'[d][o].active
    BY <1>9, <2>2 DEF OneOwner, Existing, OwnersIn
  <2> QED BY <1>2, <2>1, <2>2 DEF OneOwner, Existing
<1>11. (\A s \in Requests : CallOK(request[s]))'
  <2>1. CallOK(committed)'
    BY <1>2, <1>4, <1>5 DEF CallOK
  <2>2. ASSUME NEW s \in Requests \ {r}
        PROVE  CallOK(request[s])'
    <3> PICK p : p = request[s]
      OBVIOUS
    <3>1. CallOK(p) /\ request'[s] = p
      BY <1>6
    <3>2. CASE p.conv = c
      \* p asks nothing of the types and rows of c: it cannot be a creation of c
      \* (CreatesApart) and every other request for them needs c to exist.
      <4>1. p.step # "create.checked"
        BY <1>1, <3>2 DEF CreatesApart, At
      <4> QED BY <1>2, <3>1, <3>2, <4>1 DEF CallOK
    <3>3. CASE p.conv # c
      BY <1>9, <3>1, <3>3 DEF CallOK, OwnersIn, RowsIn
    <3> QED BY <3>2, <3>3
  <2> QED BY <1>6, <2>1, <2>2
<1>12. CreatesApart'
  <2>1. \A s \in Requests :
          request'[s].step = "create.checked" => s # r /\ request'[s] = request[s]
    BY <1>4, <1>6
  <2> QED BY <2>1 DEF CreatesApart, At
<1> QED BY <1>7, <1>10, <1>11, <1>12

LEMMA CommitSendOwner ==
  ASSUME OwnerInvariant, NEW r \in Requests, CommitSend(r)
  PROVE  OwnerInvariant'
<1> USE DEF OwnerInvariant
<1> PICK q : q = request[r]
  OBVIOUS
<1> PICK c : c = q.conv
  OBVIOUS
<1> PICK committed : committed = [q EXCEPT !.step = "send.committed", !.seen = ActiveIn(c)]
  OBVIOUS
<1>1. q \in Request /\ q.step = "send.checked" /\ CallOK(q)
  BY DEF TypeOK, CommitSend, At
<1>2. c \in Conversations /\ q.by \in Users
  BY <1>1 DEF CallOK
<1>3. /\ messages' = [messages EXCEPT ![c] = Append(@, Entry("TEXT", {q.by}))]
      /\ Becomes(r, committed)
      /\ kind' = kind /\ participant' = participant
  BY DEF CommitSend
<1>4. committed \in Request /\ committed.step = "send.committed"
  <2>1. committed \in Request
    BY <1>1, CallsTyped DEF Steps, ActiveIn
  <2> QED BY <1>1, <2>1 DEF Request
<1>5. CallOK(committed)'
  BY <1>1, <1>2, <1>4 DEF CallOK, Request
<1>6. messages' \in [Conversations -> Seq(Message)]
  <2>1. Append(messages[c], Entry("TEXT", {q.by})) \in Seq(Message)
    BY <1>2, MessagesTyped DEF TypeOK
  <2> QED BY <1>3, <2>1 DEF TypeOK
<1> PICK rows : rows = participant[c]
  OBVIOUS
<1>7. rows \in [Users -> Row] /\ participant' = [participant EXCEPT ![c] = rows]
  BY <1>2, <1>3 DEF TypeOK
<1>8. \A u \in Users :
        IF u \in OwnersIn(c) THEN rows[u] = participant[c][u]
        ELSE /\ rows[u].role # "OWNER"
             /\ u \in RowsIn(c) => rows[u].role # "NONE"
  BY DEF OwnersIn, RowsIn
<1>9. committed.step # "create.checked" /\ kind' = kind /\ Becomes(r, committed)
  BY <1>3, <1>4
<1> QED BY <1>2, <1>4, <1>5, <1>6, <1>7, <1>8, <1>9, RowsChange

\* The steps after the first: reads, commits, re-reads and answers.
LEMMA ContinueOwner ==
  ASSUME OwnerInvariant, NEW r \in Requests, Continue(r)
  PROVE  OwnerInvariant'
<1> USE DEF OwnerInvariant
<1> PICK q : q = request[r]
  OBVIOUS
<1>1. q \in Request /\ CallOK(q)
  BY DEF TypeOK
<1>2. CASE EmitCreated(r) \/ EmitAdded(r) \/ EmitRemoved(r) \/ ReturnMessage(r)
  BY <1>2, CallEnds DEF EmitCreated, EmitAdded, EmitRemoved, ReturnMessage
<1>3. CASE ReadLeft(r)
  <2> PICK next : next = [q EXCEPT !.step = "add.split", !.left = q.users \cap LeftIn(q.conv)]
    OBVIOUS
  <2>1. q.step = "add.checked" /\ Becomes(r, next) /\ UNCHANGED store
    BY <1>3 DEF ReadLeft, At
  <2>2. next \in Request
    <3>1. q.users \cap LeftIn(q.conv) \in SUBSET Users
      BY DEF LeftIn, RowsIn
    <3> QED BY <1>1, <3>1, CallsTyped DEF Steps
  <2>3. /\ next.step = "add.split" /\ next.by = q.by /\ next.conv = q.conv
        /\ next.users = q.users
    BY <1>1 DEF Request
  <2>4. CallOK(next)
    BY <1>1, <2>1, <2>3 DEF CallOK
  <2> QED BY <2>1, <2>2, <2>3, <2>4, CallMoves
<1>4. ASSUME NEW committed \in {"add.committed", "remove.committed"},
             NEW reread \in {"add.reread", "remove.reread"},
             Reread(r, committed, reread)
      PROVE  OwnerInvariant'
  <2> PICK next : next = [q EXCEPT !.step = reread, !.seen = ActiveIn(q.conv)]
    OBVIOUS
  <2>1. q.step = committed /\ Proceed(r, q.by \in ActiveIn(q.conv), next) /\ UNCHANGED store
    BY <1>4 DEF Reread, At
  <2>2. next \in Request
    BY <1>1, CallsTyped DEF Steps, ActiveIn
  <2>3. next.step = reread /\ next.by = q.by /\ next.conv = q.conv
    BY <1>1 DEF Request
  <2>4. CallOK(next)
    BY <1>1, <2>1, <2>3 DEF CallOK
  <2>5. next.step # "create.checked"
    BY <2>3
  <2>6. Becomes(r, next) \/ Becomes(r, Ended)
    BY <2>1 DEF Proceed
  <2> QED BY <2>1, <2>2, <2>4, <2>5, <2>6, CallMoves, CallEnds
<1>5. CASE RereadAdd(r) \/ RereadRemove(r)
  BY <1>4, <1>5 DEF RereadAdd, RereadRemove
<1>6. CASE CommitCreate(r) \/ CommitAdd(r) \/ CommitRemove(r) \/ CommitSend(r)
  BY <1>6, CommitCreateOwner, CommitAddOwner, CommitRemoveOwner, CommitSendOwner
<1> QED BY <1>2, <1>3, <1>5, <1>6 DEF Continue, Work, Answer

LEMMA NextOwner == OwnerInvariant /\ [Next]_vars => OwnerInvariant'
<1> SUFFICES ASSUME OwnerInvariant, [Next]_vars PROVE OwnerInvariant'
  OBVIOUS
<1>1. ASSUME NEW r \in Requests, Abort(r) PROVE OwnerInvariant'
  BY <1>1, CallEnds DEF Abort
<1>2. CASE UNCHANGED vars
  BY <1>2 DEF vars, OwnerInvariant, TypeOK, OneOwner, CallOK, CreatesApart, At,
              Existing, OwnersIn, RowsIn
<1>3. CASE AllAnswered
  BY <1>2, <1>3 DEF AllAnswered
<1> QED BY <1>1, <1>2, <1>3, BeginOwner, ContinueOwner DEF Next

(***************************************************************************)
(* What follows.                                                           *)
(***************************************************************************)

\* Whatever calls overlap, every call in progress may rely on what it checked
\* about owners and rows.
THEOREM OwnersStay == Spec => []OwnerInvariant
BY InitOwner, NextOwner, PTL DEF Spec

\* The rows, messages and calls of every behaviour keep their types.
THEOREM TypeCorrect == Spec => []TypeOK
<1>1. OwnerInvariant => TypeOK
  BY DEF OwnerInvariant
<1> QED BY <1>1, OwnersStay, PTL

\* Every conversation has one owner at all times, and that owner takes part.
THEOREM OneOwnerAlways == Spec => []OneOwner
<1>1. OwnerInvariant => OneOwner
  BY DEF OwnerInvariant
<1> QED BY <1>1, OwnersStay, PTL

\* A committed removal was made by the owner, who still takes part.
LEMMA RemoverStays ==
  ASSUME OwnerInvariant, NEW r \in Requests, At(r, "remove.committed")
  PROVE  request[r].by \in ActiveIn(request[r].conv)
<1>1. CallOK(request[r]) /\ request[r].step = "remove.committed"
  BY DEF OwnerInvariant, At
<1>2. /\ request[r].conv \in Existing
      /\ request[r].by \in OwnersIn(request[r].conv)
  BY <1>1 DEF CallOK, Existing
<1> QED BY <1>2 DEF OwnerInvariant, OneOwner, ActiveIn

\* The re-read after a committed removal finds the conversation for its
\* initiator, so the removal is announced.
THEOREM RemovalsAreAnnounced == Spec => []RemovalIsAnnounced
<1>1. OwnerInvariant => RemovalIsAnnounced
  BY RemoverStays DEF RemovalIsAnnounced
<1> QED BY <1>1, OwnersStay, PTL

(***************************************************************************)
(* Who stops taking part.                                                  *)
(***************************************************************************)

\* The participants of a conversation that exists shrink by one step only: the
\* commit of a removal, by the one user it is about.
LEMMA ActiveShrinks ==
  ASSUME OwnerInvariant, [Next]_vars,
         NEW c \in Existing, NEW u \in Users, u \in ActiveIn(c), u \notin ActiveIn(c)'
  PROVE  \E r \in Requests :
           CommitRemove(r) /\ request[r].conv = c /\ request[r].users = {u}
<1>1. /\ participant[c][u].active /\ ~participant'[c][u].active
      /\ c \in Conversations /\ kind[c] # "NONE"
  BY DEF ActiveIn, Existing
<1>2. PICK r \in Requests : CommitCreate(r) \/ CommitAdd(r) \/ CommitRemove(r)
  BY <1>1 DEF Next, AllAnswered, vars, store, Begin, BeginHttp, RefuseIds, BeginCreate, BeginAdd,
              BeginRemove, BeginSend, StartSend, Continue, Work, Answer, ReadLeft, RereadAdd,
              RereadRemove, Reread, CommitSend, EmitCreated, EmitAdded, EmitRemoved,
              ReturnMessage, Abort
<1> PICK q : q = request[r]
  OBVIOUS
<1>3. q \in Request /\ CallOK(q)
  BY DEF OwnerInvariant, TypeOK
<1>4. participant \in [Conversations -> [Users -> Row]]
  BY DEF OwnerInvariant, TypeOK
<1>5. CASE CommitCreate(r)
  <2>1. q.step = "create.checked" /\ participant' = [participant EXCEPT ![q.conv] = InitialRows(q.by, q.users)]
    BY <1>5 DEF CommitCreate, At
  <2>2. c = q.conv
    BY <1>1, <1>4, <2>1
  <2>3. kind[c] = "NONE"
    BY <1>3, <2>1, <2>2 DEF CallOK
  <2> QED BY <1>1, <2>3
<1>6. CASE CommitAdd(r)
  <2>1. participant' = [participant EXCEPT ![q.conv] = RowsAfterAdd(q.conv, q.users)]
    BY <1>1, <1>6 DEF CommitAdd, store
  <2>2. c = q.conv /\ participant'[c] = RowsAfterAdd(c, q.users)
    BY <1>1, <1>4, <2>1
  <2> QED BY <1>1, <2>2 DEF RowsAfterAdd, MemberRow
<1>7. CASE CommitRemove(r)
  <2>1. q.step = "remove.checked" /\ participant' = [participant EXCEPT ![q.conv] = RowsAfterRemove(q.conv, q.users)]
    BY <1>7 DEF CommitRemove, At
  <2>2. c = q.conv /\ participant'[c] = RowsAfterRemove(c, q.users)
    BY <1>1, <1>4, <2>1
  <2>3. u \in q.users
    BY <1>1, <2>2 DEF RowsAfterRemove
  <2>4. q.users = {u}
    BY <1>3, <2>1, <2>3 DEF CallOK
  <2> QED BY <1>7, <2>2, <2>4
<1> QED BY <1>2, <1>5, <1>6, <1>7

\* Nobody takes part in a conversation before it is created.
UnopenedIsEmpty == \A c \in Conversations : kind[c] = "NONE" => ActiveIn(c) = {}

LEMMA UnopenedStays ==
  ASSUME OwnerInvariant, UnopenedIsEmpty, [Next]_vars
  PROVE  UnopenedIsEmpty'
<1>1. CASE UNCHANGED <<kind, participant>>
  BY <1>1 DEF UnopenedIsEmpty, ActiveIn
<1>2. ASSUME NEW r \in Requests, NEW rows,
             participant' = [participant EXCEPT ![request[r].conv] = rows],
             \/ At(r, "create.checked") /\ kind' = [kind EXCEPT ![request[r].conv] = request[r].kind]
             \/ (At(r, "add.split") \/ At(r, "remove.checked")) /\ UNCHANGED kind
      PROVE  UnopenedIsEmpty'
  <2> PICK q : q = request[r]
    OBVIOUS
  <2>1. CallOK(q) /\ TypeOK
    BY DEF OwnerInvariant
  <2>2. q.conv \in Conversations /\ kind'[q.conv] # "NONE"
    BY <1>2, <2>1 DEF CallOK, TypeOK, At
  <2>3. \A c \in Conversations : c # q.conv => kind'[c] = kind[c] /\ participant'[c] = participant[c]
    BY <1>2, <2>1 DEF TypeOK
  <2> QED BY <2>2, <2>3 DEF UnopenedIsEmpty, ActiveIn
<1>3. ASSUME NEW r \in Requests, CommitCreate(r) PROVE UnopenedIsEmpty'
  BY <1>2, <1>3 DEF CommitCreate
<1>4. ASSUME NEW r \in Requests, CommitAdd(r) PROVE UnopenedIsEmpty'
  BY <1>1, <1>2, <1>4 DEF CommitAdd, store
<1>5. ASSUME NEW r \in Requests, CommitRemove(r) PROVE UnopenedIsEmpty'
  BY <1>2, <1>5 DEF CommitRemove
<1> QED
  BY <1>1, <1>3, <1>4, <1>5
     DEF Next, AllAnswered, vars, store, Begin, BeginHttp, RefuseIds, BeginCreate, BeginAdd,
         BeginRemove, BeginSend, StartSend, Continue, Work, Answer, ReadLeft, RereadAdd,
         RereadRemove, Reread, CommitSend, EmitCreated, EmitAdded, EmitRemoved,
         ReturnMessage, Abort

\* removeConversationParticipant: a user stops taking part only by the removal of
\* that user, by somebody who owns the conversation at that moment.
THEOREM OnlyOwnersRemove == Spec => OnlyOwnerRemoves
<1> DEFINE Shrinks ==
      \A c \in Conversations, u \in Users :
        u \in ActiveIn(c) /\ u \notin ActiveIn(c)' => \E r \in Requests : Expels(r, c, u)
<1>1. OwnerInvariant /\ UnopenedIsEmpty /\ [Next]_vars => Shrinks
  <2> SUFFICES ASSUME OwnerInvariant, UnopenedIsEmpty, [Next]_vars,
                      NEW c \in Conversations, NEW u \in Users,
                      u \in ActiveIn(c), u \notin ActiveIn(c)'
               PROVE  \E r \in Requests : Expels(r, c, u)
    OBVIOUS
  <2>1. c \in Existing
    BY DEF UnopenedIsEmpty, Existing
  <2>2. PICK r \in Requests : CommitRemove(r) /\ request[r].conv = c /\ request[r].users = {u}
    BY <2>1, ActiveShrinks
  <2>3. At(r, "remove.checked") /\ request'[r].step = "remove.committed"
    BY <2>2 DEF CommitRemove, Becomes, OwnerInvariant, TypeOK, Request
  <2>4. CallOK(request[r])
    BY DEF OwnerInvariant
  <2>5. request[r].by \in OwnersIn(c)
    BY <2>2, <2>3, <2>4 DEF CallOK, At
  <2> QED BY <2>2, <2>3, <2>5 DEF Expels
<1>2. Init => UnopenedIsEmpty
  BY DEF Init, UnopenedIsEmpty, ActiveIn, NoRow
<1>3. OwnerInvariant /\ UnopenedIsEmpty /\ [Next]_vars => UnopenedIsEmpty'
  BY UnopenedStays
<1>4. Spec => [][Shrinks]_vars
  BY <1>1, <1>2, <1>3, OwnersStay, PTL DEF Spec
<1> QED BY <1>4 DEF OnlyOwnerRemoves
=============================================================================
