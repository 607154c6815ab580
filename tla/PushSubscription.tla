-------------------------- MODULE PushSubscription --------------------------
(***************************************************************************)
(* Push subscriptions: PushSubscriptionService, and the push service that  *)
(* it sends to through web-push.                                           *)
(*                                                                         *)
(* A subscription is a row unique on its endpoint; its row is never        *)
(* deleted, so the endpoint stands for the id by which it is expired.      *)
(* ChatService starts sends and does not wait for them: each reads the     *)
(* active subscriptions once and then pushes to what it has read, while    *)
(* browsers subscribe, unsubscribe and change hands.                       *)
(***************************************************************************)
EXTENDS Naturals

CONSTANTS
  Users,
  Endpoints,   \* the push service's addresses, one per browser subscription
  Keys,        \* the key pairs browsers encrypt with
  Sends,       \* the calls of sendToUser and sendToUsers
  None

ASSUME NoneAssumption == None \notin Users /\ None \notin Keys

VARIABLES
  row,         \* row[e]: the subscription stored for e
  gone,        \* external: endpoints the push service has dropped
  send,        \* send[k]: how far send k is
  overtaken,   \* history: pairs <<k, e>> whose row changed after k read it
  unmarked     \* history: pairs <<k, e>> that k failed to mark as expired

vars == <<row, gone, send, overtaken, unmarked>>

NoRow == [user |-> None, key |-> None, status |-> "NONE"]
Row == {NoRow}
  \cup [user : Users, key : Keys, status : {"ACTIVE", "UNSUBSCRIBED", "EXPIRED"}]

(***************************************************************************)
(* A send: pushes it has not had an answer to, each to an endpoint for a   *)
(* user; and endpoints it was told are gone, waiting for markAsExpired.    *)
(***************************************************************************)
Push == [endpoint : Endpoints, user : Users]
Send == [begun : BOOLEAN, pushes : SUBSET Push, refused : SUBSET Endpoints]

Init ==
  /\ row = [e \in Endpoints |-> NoRow]
  /\ gone = {}
  /\ send = [k \in Sends |-> [begun |-> FALSE, pushes |-> {}, refused |-> {}]]
  /\ overtaken = {}
  /\ unmarked = {}

\* The sends that have read e's row and not had its answer.
Reading(e) == {k \in Sends : \E p \in send[k].pushes : p.endpoint = e}
Overtake(e) == overtaken' = overtaken \cup (Reading(e) \X {e})

-----------------------------------------------------------------------------
\* create: an upsert on the endpoint.  Whoever had it, the row is now u's.
Subscribe(u, e, key) ==
  /\ row' = [row EXCEPT ![e] = [user |-> u, key |-> key, status |-> "ACTIVE"]]
  /\ IF row[e].user # u THEN Overtake(e) ELSE UNCHANGED overtaken
  /\ UNCHANGED <<gone, send, unmarked>>

\* markAsUnsubscribed: endpoint and keys must be those stored; who asks, and the
\* status so far, do not matter.
Unsubscribe(e, key) ==
  /\ row[e].key = key
  /\ row' = [row EXCEPT ![e].status = "UNSUBSCRIBED"]
  /\ Overtake(e)
  /\ UNCHANGED <<gone, send, unmarked>>

\* The push service drops an endpoint, for good.
Drop(e) ==
  /\ gone' = gone \cup {e}
  /\ UNCHANGED <<row, send, overtaken, unmarked>>

-----------------------------------------------------------------------------
\* Mutated form: the status of the subscriptions is not looked at.
ActiveFor_AnyStatus(to) ==
  {[endpoint |-> e, user |-> row[e].user] : e \in {d \in Endpoints : row[d].user \in to}}

\* The active subscriptions of users to.
ActiveFor(to) ==
  {[endpoint |-> e, user |-> row[e].user] :
     e \in {d \in Endpoints : row[d].status = "ACTIVE" /\ row[d].user \in to}}

BeginSend(k) ==
  /\ ~send[k].begun
  /\ \E to \in SUBSET Users :
       send' = [send EXCEPT ![k].begun = TRUE, ![k].pushes = ActiveFor(to)]
  /\ UNCHANGED <<row, gone, overtaken, unmarked>>

\* sendNotification resolves, or rejects in any other way than with 404 or 410.
Sent(k, p) ==
  /\ p \in send[k].pushes
  /\ send' = [send EXCEPT ![k].pushes = @ \ {p}]
  /\ UNCHANGED <<row, gone, overtaken, unmarked>>

\* Mutated form: every rejection is taken for a 404 or 410.
Refused_AnyError(k, p) ==
  /\ p \in send[k].pushes
  /\ send' = [send EXCEPT ![k].pushes = @ \ {p}, ![k].refused = @ \cup {p.endpoint}]
  /\ UNCHANGED <<row, gone, overtaken, unmarked>>

\* It rejects with 404 or 410: the endpoint is gone.
Refused(k, p) ==
  /\ p \in send[k].pushes /\ p.endpoint \in gone
  /\ send' = [send EXCEPT ![k].pushes = @ \ {p}, ![k].refused = @ \cup {p.endpoint}]
  /\ UNCHANGED <<row, gone, overtaken, unmarked>>

Marked(k, e) == send' = [send EXCEPT ![k].refused = @ \ {e}]

\* Mutated forms: the status is not written; the row is set to it.
MarkAsExpired_Forgotten(k, e) ==
  /\ e \in send[k].refused
  /\ Marked(k, e)
  /\ UNCHANGED <<row, gone, overtaken, unmarked>>

MarkAsExpired_WholeRow(k, e) ==
  /\ e \in send[k].refused
  /\ row' = [row EXCEPT ![e] = [NoRow EXCEPT !.status = "EXPIRED"]]
  /\ Marked(k, e)
  /\ Overtake(e)
  /\ UNCHANGED <<gone, unmarked>>

\* markAsExpired finds the row by its id alone, whatever it says by now.
MarkAsExpired(k, e) ==
  /\ e \in send[k].refused
  /\ row' = [row EXCEPT ![e].status = "EXPIRED"]
  /\ Marked(k, e)
  /\ Overtake(e)
  /\ UNCHANGED <<gone, unmarked>>

\* Its query fails; allSettled swallows that.
FailExpired(k, e) ==
  /\ e \in send[k].refused
  /\ Marked(k, e)
  /\ unmarked' = unmarked \cup {<<k, e>>}
  /\ UNCHANGED <<row, gone, overtaken>>

-----------------------------------------------------------------------------
Next ==
  \/ \E e \in Endpoints :
       \/ \E key \in Keys : Unsubscribe(e, key) \/ \E u \in Users : Subscribe(u, e, key)
       \/ Drop(e)
  \/ \E k \in Sends :
       \/ BeginSend(k)
       \/ \E p \in send[k].pushes : Sent(k, p) \/ Refused(k, p)
       \/ \E e \in send[k].refused : MarkAsExpired(k, e) \/ FailExpired(k, e)

Spec == Init /\ [][Next]_vars

\* The database answers, one way or the other.
Fairness ==
  \A k \in Sends, e \in Endpoints : WF_vars(MarkAsExpired(k, e) \/ FailExpired(k, e))
FairSpec == Spec /\ Fairness

-----------------------------------------------------------------------------
\* Subscriptions, sends and histories keep their types.
TypeOK ==
  /\ row \in [Endpoints -> Row]
  /\ gone \subseteq Endpoints
  /\ send \in [Sends -> Send]
  /\ overtaken \subseteq Sends \X Endpoints
  /\ unmarked \subseteq Sends \X Endpoints

\* A subscription is only shown expired if its endpoint is gone: no failure of
\* another kind, and no send that read an older row, retires a living browser.
ExpiredIsGone ==
  \A e \in Endpoints : row[e].status = "EXPIRED" => e \in gone

\* A push under way goes to a browser that is subscribed for that very user,
\* unless the row changed hands or was retired after the send had read it.  So
\* nobody gets pushes from sends that begin after they unsubscribed, or that
\* are meant for the person who used the browser before.
PushIsAddressed ==
  \A k \in Sends : \A p \in send[k].pushes :
    \/ row[p.endpoint].status = "ACTIVE" /\ row[p.endpoint].user = p.user
    \/ <<k, p.endpoint>> \in overtaken

\* A send that is told an endpoint is gone retires its subscription, unless
\* marking it fails.
GoneIsRetired ==
  \A k \in Sends, e \in Endpoints :
    (e \in send[k].refused) ~> (row[e].status = "EXPIRED" \/ <<k, e>> \in unmarked)
=============================================================================
