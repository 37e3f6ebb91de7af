-------------------------------- MODULE Broker --------------------------------
(***************************************************************************)
(* The message broker of a project and its clients (broker.ts, client.ts,  *)
(* broker-runtime.ts).  Every Pi process holds one connection, registered  *)
(* under the name of its instance; a later registration of a name replaces *)
(* the earlier one.  An ask blocks the model that asks until the reply to  *)
(* it comes, the client's timer ends it or its connection is gone; the     *)
(* broker keeps an edge for it, which a reply must match.                  *)
(*                                                                         *)
(* Simplifications.  Only asks and replies are sent: other messages pass   *)
(* the same checks and leave no edge.  The broker's answer to the sender   *)
(* of a reply, on which nothing depends, is left out, and so are framing,  *)
(* the rate limit, the cap on sessions, presence, list and health.  The    *)
(* broker's clock is not modelled: any edge may be too old when a message  *)
(* is sent.                                                                *)
(***************************************************************************)
EXTENDS Naturals, Sequences, SequencesExt

CONSTANTS
    Client,       \* Pi processes
    NameOf,       \* NameOf[c]: the instance a process runs as
    Hub,          \* the name "orchestrator"
    Slot,         \* connections one process may leave behind
    Ask,          \* ids of asks
    Asker, Asked, \* the names an ask is from and to
    AllowPeers,   \* AGENCY_BROKER_ALLOW_PEERS
    MaxQueue,     \* bound: frames under way to the broker on a connection
    NoLink,
    NoAsk,
    Faults        \* the failures that may happen (FaultKinds)

(* die: a process dies; broker: the broker dies and is started again;      *)
(* prune: edges get too old; slow: a send is not confirmed in time.        *)
FaultKinds == {"die", "broker", "prune", "slow"}

Name == {NameOf[c] : c \in Client}

(* That nobody asks itself is taken from the tools: agency_ask goes to the *)
(* hub only, and a hub is started without it (HUB_TOOLS).  Neither client  *)
(* nor broker refuses such an ask.                                         *)
ASSUME BrokerAssumption ==
    /\ NameOf \in [Client -> Name]
    /\ AllowPeers \in BOOLEAN
    /\ MaxQueue \in Nat /\ Slot # {}
    /\ NoAsk \notin Ask /\ NoLink \notin Client \X Slot
    /\ Asker \in [Ask -> Name] /\ Asked \in [Ask -> Name]
    /\ \A a \in Ask : Asker[a] # Asked[a]
    /\ Faults \subseteq FaultKinds

VARIABLES
    sessions,  \* sessions[n]: the connection registered under a name
    edges,     \* askEdges: the asks the broker expects a reply to
    link,      \* the connections: frames under way, and the state of both ends
    client,    \* client[c]: the connection a process uses, and whether it is registered
    ask        \* ask[a]: what became of an ask

vars == <<sessions, edges, link, client, ask>>

Link == Client \X Slot
Owner(l) == NameOf[l[1]]

(* local, remote: the ends of the client and of the broker.  An end that   *)
(* is "ended" still reads; a remote end that is "gone" has died.           *)
Free == [up |-> <<>>, down |-> <<>>, local |-> "closed", remote |-> "gone"]
Off == [at |-> "off", link |-> NoLink]

(* A message of agency_ask, or of agency_reply. *)
Message == [type: {"send"}, id: Ask \cup {NoAsk}, to: Name, replyTo: Ask \cup {NoAsk}]
Frame == Message \cup [type: {"register", "cancel", "unregister"}, id: Ask \cup {NoAsk}]

(* What the broker sends. *)
News == [type: {"registered", "delivered", "delivery_failed"}, id: Ask \cup {NoAsk}]
    \cup [type: {"message"}, id: Ask \cup {NoAsk}, from: Name, replyTo: Ask \cup {NoAsk}]
Note(type, a) == [type |-> type, id |-> a]

Asking(a) == ask[a].state = "waiting"

(* What is known of an ask that nobody waits for. *)
NewAsk == [state |-> "unused", by |-> NoLink, sent |-> FALSE, from |-> {}, replies |-> 0]
Ended(a, state) == [NewAsk EXCEPT !.state = state, !.replies = ask[a].replies]

Connected(c) == client[c].at = "on"

(* What the broker tells the sender of a message. *)
Answer(m, type) == IF m.id = NoAsk THEN <<>> ELSE <<Note(type, m.id)>>

(* Frames to a closed or dead end are lost. *)
SendUp(l, frame) ==
    [link EXCEPT ![l].up = IF link[l].remote = "gone" THEN link[l].up ELSE Append(link[l].up, frame)]

Down(links, l, frames) ==
    [links EXCEPT ![l].down =
        IF links[l].local = "closed" \/ links[l].remote # "open" THEN links[l].down
        ELSE links[l].down \o frames]

---------------------------------------------------------------------------
(* Clients.                                                                *)

Connects(c, l) ==
    /\ client[c] = Off
    /\ l[1] = c /\ link[l] = Free
    /\ link' = [link EXCEPT ![l] = [up |-> <<Note("register", NoAsk)>>, down |-> <<>>,
                                    local |-> "open", remote |-> "open"]]
    /\ client' = [client EXCEPT ![c] = [at |-> "connecting", link |-> l]]
    /\ UNCHANGED <<sessions, edges, ask>>

HasRoom(c) == Connected(c) /\ Len(link[client[c].link].up) < MaxQueue

(* client.ask: the tools ask the hub only, and never in answer to another  *)
(* ask; client and broker are written for both.                            *)
Asks(c, a, re) ==
    /\ HasRoom(c)
    /\ ask[a].state = "unused" /\ Asker[a] = NameOf[c]
    /\ re # NoAsk => ask[re].state # "unused" /\ Asked[re] = NameOf[c]
    /\ link' = SendUp(client[c].link, [type |-> "send", id |-> a, to |-> Asked[a], replyTo |-> re])
    /\ ask' = [ask EXCEPT ![a] = [state |-> "waiting", by |-> c, sent |-> FALSE,
                                  from |-> {}, replies |-> 0]]
    /\ UNCHANGED <<sessions, edges, client>>

(* agency_reply, to whoever asked: at any time, and by anybody else. *)
Replies(c, a) ==
    /\ HasRoom(c)
    /\ ask[a].state # "unused" /\ Asker[a] # NameOf[c]
    /\ link' = SendUp(client[c].link, [type |-> "send", id |-> NoAsk, to |-> Asker[a], replyTo |-> a])
    /\ UNCHANGED <<sessions, edges, client, ask>>

(* failPending, of a connection that is lost or left. *)
Failed(c) == [a \in Ask |-> IF Asking(a) /\ ask[a].by = c THEN Ended(a, "failed") ELSE ask[a]]

(* Wrong on purpose: the broker is not told. *)
AskTimesOutSilently(a) ==
    /\ Asking(a) /\ Connected(ask[a].by)
    /\ ask' = [ask EXCEPT ![a] = Ended(a, "timeout")]
    /\ UNCHANGED <<sessions, edges, link, client>>

AskTimesOut(a) ==
    /\ Asking(a) /\ Connected(ask[a].by)
    /\ ask' = [ask EXCEPT ![a] = Ended(a, "timeout")]
    /\ link' = SendUp(client[ask[a].by].link, Note("cancel", a))
    /\ UNCHANGED <<sessions, edges, client>>

(* The send was not confirmed: the ask fails and is not cancelled. *)
SendTimesOut(a) ==
    /\ "slow" \in Faults
    /\ Asking(a) /\ ~ask[a].sent
    /\ ask' = [ask EXCEPT ![a] = Ended(a, "unconfirmed")]
    /\ UNCHANGED <<sessions, edges, link, client>>

(* Wrong on purpose: the connection is not given up. *)
LeavesHalf(c) ==
    /\ client' = [client EXCEPT ![c].at = "off"]
    /\ ask' = Failed(c)

(* onClose. *)
Leaves(c) ==
    /\ client' = [client EXCEPT ![c] = Off]
    /\ ask' = Failed(c)

Reads(c, type) ==
    /\ client[c] # Off /\ link[client[c].link].down # <<>>
    /\ Head(link[client[c].link].down).type = type

Took(c) == [link EXCEPT ![client[c].link].down = Tail(link[client[c].link].down)]

ReadsRegistered(c) ==
    /\ Reads(c, "registered")
    /\ client' = [client EXCEPT ![c].at = "on"]
    /\ link' = Took(c)
    /\ UNCHANGED <<sessions, edges, ask>>

(* A message that answers an ask that waits ends it; any other one is      *)
(* handed to the model.                                                    *)
ReadsMessage(c) ==
    /\ Reads(c, "message")
    /\ LET m == Head(link[client[c].link].down)
       IN  ask' = [a \in Ask |-> IF a = m.replyTo /\ Asking(a) /\ ask[a].by = c
                                 THEN [Ended(a, "answered") EXCEPT !.from = {m.from}]
                                 ELSE ask[a]]
    /\ link' = Took(c)
    /\ UNCHANGED <<sessions, edges, client>>

ReadsDelivered(c) ==
    /\ Reads(c, "delivered")
    /\ LET a == Head(link[client[c].link].down).id
       IN  ask' = IF Asking(a) THEN [ask EXCEPT ![a].sent = TRUE] ELSE ask
    /\ link' = Took(c)
    /\ UNCHANGED <<sessions, edges, client>>

ReadsRefused(c) ==
    /\ Reads(c, "delivery_failed")
    /\ LET a == Head(link[client[c].link].down).id
       IN  ask' = IF Asking(a) THEN [ask EXCEPT ![a] = Ended(a, "failed")] ELSE ask
    /\ link' = Took(c)
    /\ UNCHANGED <<sessions, edges, client>>

(* The broker has ended the connection, or is gone: the process connects   *)
(* anew after a while.                                                     *)
ReadsEnd(c) ==
    /\ client[c] # Off
    /\ link[client[c].link].remote # "open" /\ link[client[c].link].down = <<>>
    /\ link' = [link EXCEPT ![client[c].link].local = "closed"]
    /\ Leaves(c)
    /\ UNCHANGED <<sessions, edges>>

(* The socket of a client is destroyed: what is under way to it is lost.  *)
Shut(links, l) == [links EXCEPT ![l].local = "closed", ![l].down = <<>>]

Disconnects(c) ==
    /\ Connected(c)
    /\ LET l == client[c].link
       IN  link' = Shut(SendUp(l, Note("unregister", NoAsk)), l)
    /\ Leaves(c)
    /\ UNCHANGED <<sessions, edges>>

Dies(c) ==
    /\ "die" \in Faults
    /\ client[c] # Off
    /\ link' = Shut(link, client[c].link)
    /\ Leaves(c)
    /\ UNCHANGED <<sessions, edges>>

---------------------------------------------------------------------------
(* The broker.                                                             *)

Receives(l, type) == link[l].up # <<>> /\ Head(link[l].up).type = type
Read(l) == [link EXCEPT ![l].up = Tail(link[l].up)]

(* Wrong on purpose: only the asks of the session are forgotten. *)
WithoutOwn(n) == {e \in edges : n # e.from}

(* clearAskEdgesForSession. *)
Without(n) == {e \in edges : n \notin {e.from, e.to}}

Registers(l) ==
    /\ Receives(l, "register")
    /\ sessions' = [sessions EXCEPT ![Owner(l)] = l]
    /\ LET prev == sessions[Owner(l)]
       IN  /\ edges' = IF prev = NoLink THEN edges ELSE Without(Owner(l))
           /\ link' = Down(IF prev = NoLink THEN Read(l) ELSE [Read(l) EXCEPT ![prev].remote = "ended"],
                           l, <<Note("registered", NoAsk)>>)
    /\ UNCHANGED <<client, ask>>

AclAllows(from, to) == from = Hub \/ to = Hub \/ AllowPeers

Edge(es, a) == {e \in es : e.id = a}

(* A reply must be to an ask that waits, from the one it was put to, to    *)
(* the one that asked.                                                     *)
ReplyMatches(es, m, from) ==
    m.replyTo # NoAsk => \E e \in Edge(es, m.replyTo) : e.to = from /\ e.from = m.to

(* Two sessions do not wait for each other, except that an ask may answer  *)
(* the other.                                                              *)
Mutual(es, m, from) ==
    m.id # NoAsk /\ \E e \in es : e.id # m.replyTo /\ e.from = m.to /\ e.to = from

Accepts(es, m, from, l) ==
    /\ sessions[from] = l
    /\ sessions[m.to] # NoLink
    /\ ReplyMatches(es, m, from)
    /\ AclAllows(from, m.to)
    /\ ~Mutual(es, m, from)

(* Wrong on purpose: the ask may be answered again. *)
Unanswered(es, m) == es

Remaining(es, m) == es \ Edge(es, m.replyTo)

Passes(l, es) ==
    LET m == Head(link[l].up)
        from == Owner(l)
        asked == IF m.id = NoAsk THEN {} ELSE {[id |-> m.id, from |-> from, to |-> m.to]}
        message == [type |-> "message", id |-> m.id, from |-> from, replyTo |-> m.replyTo]
    IN  /\ Accepts(es, m, from, l)
        /\ edges' = Remaining(es, m) \cup asked
        /\ link' = Down(Down(Read(l), sessions[m.to], <<message>>), l, Answer(m, "delivered"))
        /\ ask' = IF m.replyTo = NoAsk THEN ask ELSE [ask EXCEPT ![m.replyTo].replies = @ + 1]

Refuses(l, es) ==
    LET m == Head(link[l].up)
    IN  /\ ~Accepts(es, m, Owner(l), l)
        /\ edges' = es
        /\ link' = Down(Read(l), l, Answer(m, "delivery_failed"))
        /\ UNCHANGED ask

(* pruneAskEdges comes first. *)
Sends(l) ==
    /\ Receives(l, "send")
    /\ \E es \in (IF "prune" \in Faults THEN SUBSET edges ELSE {edges}) : Passes(l, es) \/ Refuses(l, es)
    /\ UNCHANGED <<sessions, client>>

Cancels(l) ==
    /\ Receives(l, "cancel")
    /\ link' = Read(l)
    /\ edges' = {e \in edges : e.id # Head(link[l].up).id \/ e.from # Owner(l)}
    /\ UNCHANGED <<sessions, client, ask>>

(* Wrong on purpose: whatever is registered under the name goes. *)
RemovesName(l) ==
    /\ sessions' = [sessions EXCEPT ![Owner(l)] = NoLink]
    /\ edges' = Without(Owner(l))

(* unregister and the close of a socket remove the session only if it is   *)
(* still the one of this socket.                                           *)
Removes(l) ==
    IF sessions[Owner(l)] = l
    THEN /\ sessions' = [sessions EXCEPT ![Owner(l)] = NoLink]
         /\ edges' = Without(Owner(l))
    ELSE UNCHANGED <<sessions, edges>>

Unregisters(l) ==
    /\ Receives(l, "unregister")
    /\ link' = Read(l)
    /\ Removes(l)
    /\ UNCHANGED <<client, ask>>

Closes(l) ==
    /\ link[l] # Free /\ link[l].local = "closed" /\ link[l].up = <<>>
    /\ link' = [link EXCEPT ![l] = Free]
    /\ Removes(l)
    /\ UNCHANGED <<client, ask>>

(* shutdown, or a crash; the next client starts another broker. *)
BrokerDies ==
    /\ "broker" \in Faults
    /\ sessions' = [n \in Name |-> NoLink]
    /\ edges' = {}
    /\ link' = [l \in Link |-> IF link[l].local = "closed" THEN Free
                               ELSE [link[l] EXCEPT !.up = <<>>, !.remote = "gone"]]
    /\ UNCHANGED <<client, ask>>

---------------------------------------------------------------------------
Init ==
    /\ sessions = [n \in Name |-> NoLink]
    /\ edges = {}
    /\ link = [l \in Link |-> Free]
    /\ client = [c \in Client |-> Off]
    /\ ask = [a \in Ask |-> NewAsk]

ClientReads(c) ==
    \/ ReadsRegistered(c) \/ ReadsMessage(c) \/ ReadsDelivered(c)
    \/ ReadsRefused(c) \/ ReadsEnd(c)

BrokerReads(l) == Registers(l) \/ Sends(l) \/ Cancels(l) \/ Unregisters(l) \/ Closes(l)

Next ==
    \/ \E c \in Client :
         \/ \E l \in Link : Connects(c, l)
         \/ \E a \in Ask : Replies(c, a) \/ \E re \in Ask \cup {NoAsk} : Asks(c, a, re)
         \/ ClientReads(c) \/ Disconnects(c) \/ Dies(c)
    \/ \E a \in Ask : AskTimesOut(a) \/ SendTimesOut(a)
    \/ \E l \in Link : BrokerReads(l)
    \/ BrokerDies

Spec == Init /\ [][Next]_vars

---------------------------------------------------------------------------
LinkState == [up: Seq(Frame), down: Seq(News), local: {"open", "closed"},
              remote: {"open", "ended", "gone"}]

AskState == [state: {"unused", "waiting", "answered", "failed", "timeout", "unconfirmed"},
             by: Client \cup {NoLink}, sent: BOOLEAN, from: SUBSET Name, replies: Nat]

TypeOK ==
    /\ sessions \in [Name -> Link \cup {NoLink}]
    /\ edges \subseteq [id: Ask, from: Name, to: Name]
    /\ link \in [Link -> LinkState]
    /\ client \in [Client -> [at: {"off", "connecting", "on"}, link: Link \cup {NoLink}]]
    /\ ask \in [Ask -> AskState]
    /\ \A c \in Client :
         \/ client[c] = Off
         \/ /\ client[c].at # "off" /\ client[c].link \in Link /\ client[c].link[1] = c
            /\ link[client[c].link].local = "open"
    /\ \A a \in Ask : ask[a].state = "waiting" => ask[a].by \in Client

---------------------------------------------------------------------------
(* An ask is answered by the one it was put to, and at most one reply to   *)
(* it is passed on, whoever else sends replies, and whatever is replaced,  *)
(* cancelled or started again meanwhile (handleMessage).                   *)
AnsweredByAsked ==
    \A a \in Ask :
        /\ ask[a].state = "answered" => ask[a].from = {Asked[a]}
        /\ ask[a].replies <= 1

(* The edges by which the broker decides are those of sessions that are    *)
(* there, and no two sessions wait for each other                          *)
(* (clearAskEdgesForSession, handleMessage).                               *)
EdgesSound ==
    \A e \in edges :
        /\ sessions[e.from] # NoLink /\ sessions[e.to] # NoLink
        /\ \A f \in edges : ~(f.from = e.to /\ f.to = e.from)

(* A client that takes itself for connected is registered, or the end of   *)
(* its connection is on its way: nobody is cut off without knowing, though *)
(* the close of an old connection may be seen after its successor has      *)
(* registered (handleConnection).                                          *)
ConnectedIsRegistered ==
    \A c \in Client : Connected(c) =>
        sessions[NameOf[c]] = client[c].link \/ link[client[c].link].remote # "open"

(* An edge stands for a session that waits: when the ask has ended         *)
(* otherwise, its cancellation or the end of its connection is on the way, *)
(* and the edge with which the broker refuses the reverse ask goes.  Only  *)
(* an ask whose sending was not confirmed leaves its edge behind until it  *)
(* is too old (ask, cancelAsk, cancel_ask).                                *)
EdgeIsWaitedFor ==
    \A e \in edges :
        LET l == sessions[e.from]
        IN  \/ ask[e.id].state \in {"waiting", "unconfirmed"}
            \/ Note("cancel", e.id) \in ToSet(link[l].up)
            \/ link[l].local = "closed"

---------------------------------------------------------------------------
(* The invariant behind all of them but the last.  Which connection is     *)
(* registered: a name has only connections of its own, and one that is     *)
(* open at both ends is registered or has only just been opened.           *)
Opening(l) == /\ link[l].up = <<Note("register", NoAsk)>> /\ link[l].down = <<>>
              /\ client[l[1]] = [at |-> "connecting", link |-> l]

LinkSound(l) ==
    link[l].local = "open" =>
        /\ \A i \in DOMAIN link[l].up : link[l].up[i].type # "unregister"
        /\ link[l].remote = "open" => sessions[Owner(l)] = l \/ Opening(l)

LinksSound ==
    /\ \A n \in Name : sessions[n] # NoLink => Owner(sessions[n]) = n
    /\ \A l \in Link : LinkSound(l)

(* What is under way about an ask is from those it is about.               *)
Sending(l, i, a) ==
    i \in DOMAIN link[l].up /\ link[l].up[i].type = "send" /\ link[l].up[i].id = a

AsksSound ==
    /\ \A l \in Link, a \in Ask : \A i \in DOMAIN link[l].up :
         Sending(l, i, a) => Asker[a] = Owner(l) /\ Asked[a] = link[l].up[i].to
    /\ \A l \in Link : \A i \in DOMAIN link[l].down :
         link[l].down[i].type = "message" /\ link[l].down[i].replyTo # NoAsk =>
             link[l].down[i].from = Asked[link[l].down[i].replyTo]
    /\ \A e \in edges : e.from = Asker[e.id] /\ e.to = Asked[e.id]
    /\ \A a \in Ask : ask[a].state = "answered" => ask[a].from = {Asked[a]}

(* An ask is sent once, then has its edge, and then its reply.             *)
Once(a) ==
    /\ ask[a].state = "unused" => ask[a].replies = 0
    /\ ask[a].replies <= 1
    /\ Edge(edges, a) # {} => ask[a].state # "unused" /\ ask[a].replies = 0
    /\ \A l \in Link : \A i \in DOMAIN link[l].up : Sending(l, i, a) =>
         /\ ask[a].state # "unused" /\ ask[a].replies = 0 /\ Edge(edges, a) = {}
         /\ \A k \in Link : \A j \in DOMAIN link[k].up : Sending(k, j, a) => k = l /\ j = i

SentOnce == \A a \in Ask : Once(a)

BrokerInductive == TypeOK /\ LinksSound /\ AsksSound /\ EdgesSound /\ SentOnce
===============================================================================
