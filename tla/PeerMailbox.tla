----------------------------- MODULE PeerMailbox -----------------------------
(***************************************************************************)
(* What the peer relay (peer.rs) promises the PMs of different missions,   *)
(* whatever happens to the databases, the SSH calls and the processes in   *)
(* between: a message enters its target's inbox at most once and unchanged,*)
(* it is handled at most once, and a sender that is told of its delivery is*)
(* told the truth.                                                         *)
(***************************************************************************)
CONSTANTS
    Requests,    \* messages the PMs may send: [id, src, dst, body, ref]
    Home,        \* the host (database) of each mission
    NoId         \* "in reply to nothing"

VARIABLES
    sent,        \* messages a host has made durable
    inbox,       \* messages that reached the inbox of their target
    handled,     \* messages the target's PM has acknowledged
    confirmed    \* messages whose sender knows that they arrived

mvars == <<sent, inbox, handled, confirmed>>

\* Source and target mission live in the same database.
Local(r) == Home[r.src] = Home[r.dst]

\* The messages in the table of host h, of which an identifier names one.
HeldAt(h) == {r \in sent : Home[r.src] = h} \cup {r \in inbox : Home[r.dst] = h}

FreshAt(h, r) == \A o \in HeldAt(h) : o.id # r.id

\* A reply refers to a message that its sender has received from its target.
Answerable(r) ==
    r.ref # NoId =>
        \E o \in inbox : o.id = r.ref /\ o.src = r.dst /\ o.dst = r.src

MailboxTypeOK ==
    /\ sent \subseteq Requests
    /\ inbox \subseteq sent
    /\ handled \subseteq inbox
    /\ confirmed \subseteq inbox

Init ==
    /\ sent = {}
    /\ inbox = {}
    /\ handled = {}
    /\ confirmed = {}

Send(r) ==
    /\ FreshAt(Home[r.src], r)
    /\ Answerable(r)
    /\ sent' = sent \cup {r}
    /\ inbox' = IF Local(r) THEN inbox \cup {r} ELSE inbox
    /\ UNCHANGED <<handled, confirmed>>

Arrive(r) ==
    /\ r \in sent
    /\ FreshAt(Home[r.dst], r)
    /\ inbox' = inbox \cup {r}
    /\ UNCHANGED <<sent, handled, confirmed>>

Handle(r) ==
    /\ r \in inbox \ handled
    /\ handled' = handled \cup {r}
    /\ UNCHANGED <<sent, inbox, confirmed>>

Confirm(r) ==
    /\ r \in inbox \ confirmed
    /\ confirmed' = confirmed \cup {r}
    /\ UNCHANGED <<sent, inbox, handled>>

Next ==
    \E r \in Requests : Send(r) \/ Arrive(r) \/ Handle(r) \/ Confirm(r)

Spec == Init /\ [][Next]_mvars

\* No PM answers a message that has not reached it: an answer that was sent refers
\* to one in its sender's inbox, from the mission that the answer goes to
\* (validate_reply_reference; peer.rs).
AnswersFollowReceipt == \A r \in sent : Answerable(r)

\* What was sent, received, handled or confirmed remains so (the rows of
\* mission_peer_messages are never deleted and their final states never left).
NothingIsTakenBack ==
    [][/\ sent \subseteq sent'
       /\ inbox \subseteq inbox'
       /\ handled \subseteq handled'
       /\ confirmed \subseteq confirmed']_mvars
=============================================================================
