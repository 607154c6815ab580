--------------------------- MODULE ConversationLog ---------------------------
(***************************************************************************)
(* What the conversation store promises, with no calls, reads or rows: a   *)
(* conversation is a type, an owner and a history that only grows, and     *)
(* every change is one event appended to the history of one conversation.  *)
(* Who takes part follows from the history.                                *)
(***************************************************************************)
EXTENDS Naturals, Sequences

CONSTANTS Users, Conversations, None

VARIABLES
  kind,    \* kind[c]: "NONE" until c is opened
  owner,   \* owner[c]: who opened c
  log      \* log[c]: its history

logvars == <<kind, owner, log>>

Entry(type, users) == [type |-> type, users |-> users]

\* The i-th event of c is of this type and about u.
About(c, i, type, u) == log[c][i].type = type /\ u \in log[c][i].users

JoinedIn(c) ==
  {u \in Users : \E i \in DOMAIN log[c] : About(c, i, "JOINED", u)}

\* Whom the history has ever let in.
Admitted(c) == JoinedIn(c) \cup {owner[c]}

Init ==
  /\ kind = [c \in Conversations |-> "NONE"]
  /\ owner = [c \in Conversations |-> None]
  /\ log = [c \in Conversations |-> << >>]

Happens(c, entry) == /\ log' = [log EXCEPT ![c] = Append(@, entry)]
                     /\ UNCHANGED <<kind, owner>>

\* A conversation opens; a group names its first members in its second event.
Open(c, k, o, us) ==
  /\ kind[c] = "NONE"
  /\ o \notin us
  /\ kind' = [kind EXCEPT ![c] = k]
  /\ owner' = [owner EXCEPT ![c] = o]
  /\ log' = [log EXCEPT ![c] =
       <<Entry("CREATED", {})>>
         \o (IF k = "GROUP" /\ us # {} THEN <<Entry("JOINED", us)>> ELSE << >>)]

\* Only a group changes, its owner is never one of those who come or go, and
\* nobody leaves who was never let in.
Join(c, us) ==
  /\ kind[c] = "GROUP"
  /\ us # {} /\ owner[c] \notin us
  /\ Happens(c, Entry("JOINED", us))

Leave(c, u) ==
  /\ kind[c] = "GROUP"
  /\ u \in JoinedIn(c) \ {owner[c]}
  /\ Happens(c, Entry("LEFT", {u}))

\* A group hears only those it has let in at some time.
Text(c, u) ==
  /\ kind[c] # "NONE"
  /\ kind[c] = "GROUP" => u \in Admitted(c)
  /\ Happens(c, Entry("TEXT", {u}))

Next == \E c \in Conversations :
  \/ \E k \in {"DIRECT", "GROUP"}, o \in Users, us \in SUBSET Users : Open(c, k, o, us)
  \/ \E us \in SUBSET Users : Join(c, us)
  \/ \E u \in Users : Leave(c, u) \/ Text(c, u)

Spec == Init /\ [][Next]_logvars
=============================================================================
