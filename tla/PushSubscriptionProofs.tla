----------------------- MODULE PushSubscriptionProofs -----------------------
(***************************************************************************)
(* Proofs that PushSubscription keeps its types, that only subscriptions   *)
(* whose endpoint is gone are expired and that pushes are addressed.       *)
(***************************************************************************)
EXTENDS PushSubscription, TLAPS

\* What sends rely on: the rows they have read exist for ever, and only endpoints
\* that are gone wait to be marked.
SendsOK ==
  \A k \in Sends :
    /\ \A p \in send[k].pushes : row[p.endpoint].key \in Keys
    /\ \A e \in send[k].refused : row[e].key \in Keys /\ e \in gone

SendInvariant == TypeOK /\ ExpiredIsGone /\ PushIsAddressed /\ SendsOK

\* A row's fields can be overwritten one by one.
LEMMA RowWithStatus ==
  ASSUME NEW q \in Row, q.key # None, NEW st \in {"ACTIVE", "UNSUBSCRIBED", "EXPIRED"}
  PROVE  /\ [q EXCEPT !.status = st] \in Row
         /\ [q EXCEPT !.status = st].status = st
  BY NoneAssumption DEF Row, NoRow

\* The initial state: no subscription, no send.
LEMMA InitSends ==
  ASSUME Init
  PROVE  SendInvariant
<1> USE DEF Init
<1>1. TypeOK
  BY DEF TypeOK, Row, NoRow, Send
<1>2. ExpiredIsGone /\ PushIsAddressed /\ SendsOK
  BY DEF ExpiredIsGone, PushIsAddressed, SendsOK, NoRow
<1> QED BY <1>1, <1>2 DEF SendInvariant, SendsOK

\* When one row changes and its readers are overtaken, what is left of the
\* pushes is still addressed.
LEMMA OvertakenPushes ==
  ASSUME SendInvariant, NEW e \in Endpoints, Overtake(e),
         \A d \in Endpoints : d # e => row'[d] = row[d],
         \A k \in Sends : send'[k].pushes \subseteq send[k].pushes
  PROVE  PushIsAddressed'
<1> SUFFICES ASSUME NEW k \in Sends, NEW p \in send'[k].pushes
             PROVE  \/ row'[p.endpoint].status = "ACTIVE" /\ row'[p.endpoint].user = p.user
                    \/ <<k, p.endpoint>> \in overtaken'
  BY DEF PushIsAddressed
<1>1. p \in send[k].pushes /\ p.endpoint \in Endpoints
  BY DEF SendInvariant, TypeOK, Send, Push
<1>2. CASE p.endpoint = e
  BY <1>1, <1>2 DEF Overtake, Reading
<1>3. CASE p.endpoint # e
  BY <1>1, <1>3 DEF Overtake, SendInvariant, PushIsAddressed
<1> QED BY <1>2, <1>3

\* An upsert hands the row to u; if it was u's, it is u's and active again.
LEMMA SubscribeKeeps ==
  ASSUME SendInvariant, NEW e \in Endpoints, NEW key \in Keys, NEW u \in Users,
         Subscribe(u, e, key)
  PROVE  SendInvariant'
<1> PICK q : q = [user |-> u, key |-> key, status |-> "ACTIVE"]
  OBVIOUS
<1>1. row' = [row EXCEPT ![e] = q] /\ UNCHANGED <<gone, send, unmarked>>
  BY DEF Subscribe
<1>2. row'[e] = q /\ \A d \in Endpoints : d # e => row'[d] = row[d]
  BY <1>1 DEF SendInvariant, TypeOK
<1>3. q \in Row
  BY DEF Row
<1>4. overtaken' \subseteq Sends \X Endpoints /\ overtaken \subseteq overtaken'
  BY DEF Subscribe, Overtake, Reading, SendInvariant, TypeOK
<1>5. TypeOK'
  BY <1>1, <1>3, <1>4 DEF SendInvariant, TypeOK
<1>6. ExpiredIsGone'
  BY <1>1, <1>2 DEF SendInvariant, ExpiredIsGone
<1>7. PushIsAddressed'
  <2>1. CASE row[e].user # u
    BY <1>1, <1>2, <2>1, OvertakenPushes DEF Subscribe
  <2>2. CASE row[e].user = u
    <3> SUFFICES ASSUME NEW k \in Sends, NEW p \in send[k].pushes
                 PROVE  \/ row'[p.endpoint].status = "ACTIVE" /\ row'[p.endpoint].user = p.user
                        \/ <<k, p.endpoint>> \in overtaken'
      BY <1>1 DEF PushIsAddressed
    <3>1. \/ row[p.endpoint].status = "ACTIVE" /\ row[p.endpoint].user = p.user
          \/ <<k, p.endpoint>> \in overtaken
      BY DEF SendInvariant, PushIsAddressed
    <3>2. p.endpoint \in Endpoints
      BY DEF SendInvariant, TypeOK, Send, Push
    <3> QED BY <1>2, <1>4, <2>2, <3>1, <3>2
  <2> QED BY <2>1, <2>2
<1>8. SendsOK'
  BY <1>1, <1>2 DEF SendInvariant, SendsOK, TypeOK, Send, Push
<1> QED BY <1>5, <1>6, <1>7, <1>8 DEF SendInvariant

\* Unsubscribing overtakes whoever reads the row.
LEMMA UnsubscribeKeeps ==
  ASSUME SendInvariant, NEW e \in Endpoints, NEW key \in Keys, Unsubscribe(e, key)
  PROVE  SendInvariant'
<1> PICK q : q = [row[e] EXCEPT !.status = "UNSUBSCRIBED"]
  OBVIOUS
<1>1. /\ row' = [row EXCEPT ![e] = q] /\ Overtake(e)
      /\ UNCHANGED <<gone, send, unmarked>>
  BY DEF Unsubscribe
<1>2. row'[e] = q /\ \A d \in Endpoints : d # e => row'[d] = row[d]
  BY <1>1 DEF SendInvariant, TypeOK
<1>3. q \in Row /\ q.status = "UNSUBSCRIBED"
  BY RowWithStatus, NoneAssumption DEF Unsubscribe, SendInvariant, TypeOK
<1>4. TypeOK'
  BY <1>1, <1>3 DEF SendInvariant, TypeOK, Overtake, Reading
<1>5. ExpiredIsGone'
  BY <1>1, <1>2, <1>3 DEF SendInvariant, ExpiredIsGone
<1>6. PushIsAddressed'
  BY <1>1, <1>2, OvertakenPushes
<1>7. SendsOK'
  <2>1. q.key = row[e].key
    BY <1>3 DEF SendInvariant, TypeOK, Row, NoRow
  <2> QED BY <1>1, <1>2, <2>1 DEF SendInvariant, SendsOK, TypeOK, Send, Push
<1> QED BY <1>4, <1>5, <1>6, <1>7 DEF SendInvariant

\* A dropped endpoint only makes gone larger.
LEMMA DropKeeps ==
  ASSUME SendInvariant, NEW e \in Endpoints, Drop(e)
  PROVE  SendInvariant'
  BY DEF SendInvariant, TypeOK, ExpiredIsGone, PushIsAddressed, SendsOK, Drop

\* A send starts with pushes to rows that are active for their users.
LEMMA BeginSendKeeps ==
  ASSUME SendInvariant, NEW k \in Sends, BeginSend(k)
  PROVE  SendInvariant'
<1> PICK to \in SUBSET Users :
           send' = [send EXCEPT ![k].begun = TRUE, ![k].pushes = ActiveFor(to)]
  BY DEF BeginSend
<1>1. UNCHANGED <<row, gone, overtaken, unmarked>>
  BY DEF BeginSend
<1>2. \A p \in ActiveFor(to) :
        /\ p \in Push
        /\ row[p.endpoint].status = "ACTIVE" /\ row[p.endpoint].user = p.user
        /\ row[p.endpoint].key \in Keys
  BY DEF ActiveFor, Push, SendInvariant, TypeOK, Row, NoRow
<1>3. send'[k].pushes = ActiveFor(to) /\ send'[k].refused = send[k].refused
      /\ \A l \in Sends : l # k => send'[l] = send[l]
  BY DEF SendInvariant, TypeOK, Send
<1>4. TypeOK'
  BY <1>1, <1>2 DEF SendInvariant, TypeOK, Send
<1>5. PushIsAddressed'
  <2> SUFFICES ASSUME NEW l \in Sends, NEW p \in send'[l].pushes
               PROVE  \/ row[p.endpoint].status = "ACTIVE" /\ row[p.endpoint].user = p.user
                      \/ <<l, p.endpoint>> \in overtaken
    BY <1>1 DEF PushIsAddressed
  <2>1. CASE l = k
    BY <1>2, <1>3, <2>1
  <2>2. CASE l # k
    BY <1>3, <2>2 DEF SendInvariant, PushIsAddressed
  <2> QED BY <2>1, <2>2
<1>6. SendsOK'
  <2> SUFFICES ASSUME NEW l \in Sends
               PROVE  /\ \A p \in send'[l].pushes : row[p.endpoint].key \in Keys
                      /\ \A e \in send'[l].refused : row[e].key \in Keys /\ e \in gone
    BY <1>1 DEF SendsOK
  <2>1. CASE l = k
    BY <1>2, <1>3, <2>1 DEF SendInvariant, SendsOK
  <2>2. CASE l # k
    BY <1>3, <2>2 DEF SendInvariant, SendsOK
  <2> QED BY <2>1, <2>2
<1> QED BY <1>1, <1>4, <1>5, <1>6 DEF SendInvariant, ExpiredIsGone

\* An answer takes a push away, and may leave its endpoint to be marked.
LEMMA AnswerKeeps ==
  ASSUME SendInvariant, NEW k \in Sends, NEW p \in send[k].pushes,
         Sent(k, p) \/ Refused(k, p)
  PROVE  SendInvariant'
<1>1. UNCHANGED <<row, gone, overtaken, unmarked>>
  BY DEF Sent, Refused
<1>2. /\ send'[k].pushes \subseteq send[k].pushes
      /\ \A e \in send'[k].refused :
           e \in send[k].refused \/ (e = p.endpoint /\ e \in gone)
      /\ \A l \in Sends : l # k => send'[l] = send[l]
  BY DEF Sent, Refused, SendInvariant, TypeOK, Send
<1>3. TypeOK'
  BY DEF Sent, Refused, SendInvariant, TypeOK, Send, Push
<1>4. PushIsAddressed'
  BY <1>1, <1>2 DEF SendInvariant, PushIsAddressed
<1>5. SendsOK'
  BY <1>1, <1>2 DEF SendInvariant, SendsOK
<1> QED BY <1>1, <1>3, <1>4, <1>5 DEF SendInvariant, ExpiredIsGone

\* Marking retires a row whose endpoint is gone and overtakes its readers.
LEMMA MarkKeeps ==
  ASSUME SendInvariant, NEW k \in Sends, NEW e \in send[k].refused, MarkAsExpired(k, e)
  PROVE  SendInvariant'
<1>1. e \in Endpoints /\ e \in gone /\ row[e] \in Row /\ row[e].key \in Keys
  BY DEF SendInvariant, SendsOK, TypeOK, Send
<1> PICK q : q = [row[e] EXCEPT !.status = "EXPIRED"]
  OBVIOUS
<1>2. /\ row' = [row EXCEPT ![e] = q] /\ Overtake(e) /\ UNCHANGED <<gone, unmarked>>
      /\ send' = [send EXCEPT ![k].refused = @ \ {e}]
  BY DEF MarkAsExpired, Marked
<1>3. row'[e] = q /\ \A d \in Endpoints : d # e => row'[d] = row[d]
  BY <1>1, <1>2 DEF SendInvariant, TypeOK
<1>4. q \in Row /\ q.key \in Keys
  BY <1>1, RowWithStatus, NoneAssumption DEF Row, NoRow
<1>5. \A l \in Sends : send'[l].pushes = send[l].pushes /\ send'[l].refused \subseteq send[l].refused
  BY <1>2 DEF SendInvariant, TypeOK, Send
<1>6. TypeOK'
  <2>1. row' \in [Endpoints -> Row] /\ send' \in [Sends -> Send]
    BY <1>2, <1>4 DEF SendInvariant, TypeOK, Send
  <2>2. overtaken' \subseteq Sends \X Endpoints
    BY <1>1, <1>2 DEF SendInvariant, TypeOK, Overtake, Reading
  <2> QED BY <1>2, <2>1, <2>2 DEF SendInvariant, TypeOK
<1>7. ExpiredIsGone'
  BY <1>1, <1>2, <1>3 DEF SendInvariant, ExpiredIsGone
<1>8. PushIsAddressed'
  BY <1>1, <1>2, <1>3, <1>5, OvertakenPushes
<1>9. SendsOK'
  BY <1>2, <1>3, <1>4, <1>5 DEF SendInvariant, SendsOK, TypeOK, Send, Push
<1> QED BY <1>6, <1>7, <1>8, <1>9 DEF SendInvariant

\* A marking that fails is only remembered.
LEMMA FailKeeps ==
  ASSUME SendInvariant, NEW k \in Sends, NEW e \in send[k].refused, FailExpired(k, e)
  PROVE  SendInvariant'
<1>1. UNCHANGED <<row, gone, overtaken>>
  BY DEF FailExpired
<1>2. \A l \in Sends : send'[l].pushes = send[l].pushes /\ send'[l].refused \subseteq send[l].refused
  BY DEF FailExpired, Marked, SendInvariant, TypeOK, Send
<1>3. TypeOK'
  BY DEF FailExpired, Marked, SendInvariant, TypeOK, Send
<1> QED BY <1>1, <1>2, <1>3 DEF SendInvariant, ExpiredIsGone, PushIsAddressed, SendsOK

\* Every step, and stuttering, keeps the invariant.
LEMMA SendStep ==
  ASSUME SendInvariant, [Next]_vars
  PROVE  SendInvariant'
<1>1. CASE UNCHANGED vars
  BY <1>1 DEF vars, SendInvariant, TypeOK, ExpiredIsGone, PushIsAddressed, SendsOK
<1> QED
  BY <1>1, SubscribeKeeps, UnsubscribeKeeps, DropKeeps, BeginSendKeeps, AnswerKeeps,
     MarkKeeps, FailKeeps DEF Next

\* PushSubscriptionService and web-push: what sends rely on holds always.
LEMMA SendsStay == Spec => []SendInvariant
<1>1. Init => SendInvariant
  BY InitSends
<1>2. SendInvariant /\ [Next]_vars => SendInvariant'
  BY SendStep
<1> QED BY <1>1, <1>2, PTL DEF Spec

\* markAsExpired: only subscriptions whose endpoint is gone are ever expired.
THEOREM OnlyGoneExpires == Spec => []ExpiredIsGone
<1>1. SendInvariant => ExpiredIsGone
  BY DEF SendInvariant
<1> QED BY <1>1, SendsStay, PTL

\* sendToUsers: a push under way is for the subscriber, or its row has changed
\* since it was read.
THEOREM PushesAreAddressed == Spec => []PushIsAddressed
<1>1. SendInvariant => PushIsAddressed
  BY DEF SendInvariant
<1> QED BY <1>1, SendsStay, PTL

\* Rows, endpoints and sends keep their types.
THEOREM SendsTypeCorrect == Spec => []TypeOK
<1>1. SendInvariant => TypeOK
  BY DEF SendInvariant
<1> QED BY <1>1, SendsStay, PTL
=============================================================================
