----------------------------- MODULE Broker_proofs -----------------------------
(***************************************************************************)
(* Proofs about the broker, for any number of processes, names and asks,   *)
(* and queues of any length.                                               *)
(***************************************************************************)
EXTENDS Broker, TLAPS

(* Adding a frame to a queue, and taking the first one.                    *)
LEMMA AppendIs ==
    ASSUME NEW S, NEW q \in Seq(S), NEW x \in S
    PROVE  /\ Append(q, x) \in Seq(S)
           /\ DOMAIN Append(q, x) = 1 .. Len(q) + 1 /\ DOMAIN q = 1 .. Len(q) /\ Len(q) \in Nat
           /\ Append(q, x)[Len(q) + 1] = x
           /\ \A i \in DOMAIN q : Append(q, x)[i] = q[i]
  OBVIOUS

LEMMA TailIs ==
    ASSUME NEW S, NEW q \in Seq(S), q # <<>>
    PROVE  /\ Tail(q) \in Seq(S)
           /\ Head(q) = q[1] /\ q[1] \in S /\ 1 \in DOMAIN q
           /\ DOMAIN q \subseteq Nat /\ DOMAIN Tail(q) \subseteq Nat
           /\ \A i \in DOMAIN Tail(q) : i + 1 \in DOMAIN q /\ Tail(q)[i] = q[i + 1]
  OBVIOUS

LEMMA ConcatIs ==
    ASSUME NEW S, NEW q \in Seq(S), NEW r \in Seq(S)
    PROVE  /\ q \o r \in Seq(S)
           /\ \A i \in DOMAIN (q \o r) :
                \/ i \in DOMAIN q /\ (q \o r)[i] = q[i]
                \/ \E j \in DOMAIN r : (q \o r)[i] = r[j]
<1>1. q \o r \in Seq(S)
  OBVIOUS
<1>2. ASSUME NEW i \in DOMAIN (q \o r), i \notin DOMAIN q
      PROVE  i - Len(q) \in DOMAIN r /\ (q \o r)[i] = r[i - Len(q)]
  BY <1>2
<1>3. ASSUME NEW i \in DOMAIN (q \o r), i \in DOMAIN q
      PROVE  (q \o r)[i] = q[i]
  BY <1>3
<1> QED BY <1>1, <1>2, <1>3

---------------------------------------------------------------------------
(* What the helpers do to the connections.                                 *)
Links == [Link -> LinkState]

LEMMA SendUpIs ==
    ASSUME link \in Links, NEW l \in Link, NEW f \in Frame
    PROVE  /\ SendUp(l, f) \in Links
           /\ \A k \in Link : /\ SendUp(l, f)[k].down = link[k].down
                              /\ SendUp(l, f)[k].local = link[k].local
                              /\ SendUp(l, f)[k].remote = link[k].remote
                              /\ k # l => SendUp(l, f)[k].up = link[k].up
           /\ SendUp(l, f)[l].up \in {link[l].up, Append(link[l].up, f)}
<1>1. Append(link[l].up, f) \in Seq(Frame)
  BY AppendIs DEF Links, LinkState
<1> QED BY <1>1 DEF SendUp, Links, LinkState

LEMMA DownIs ==
    ASSUME NEW links \in Links, NEW l \in Link, NEW fs \in Seq(News)
    PROVE  /\ Down(links, l, fs) \in Links
           /\ \A k \in Link : /\ Down(links, l, fs)[k].up = links[k].up
                              /\ Down(links, l, fs)[k].local = links[k].local
                              /\ Down(links, l, fs)[k].remote = links[k].remote
                              /\ k # l => Down(links, l, fs)[k].down = links[k].down
           /\ \A k \in Link : \A i \in DOMAIN Down(links, l, fs)[k].down :
                \/ i \in DOMAIN links[k].down /\ Down(links, l, fs)[k].down[i] = links[k].down[i]
                \/ \E j \in DOMAIN fs : Down(links, l, fs)[k].down[i] = fs[j]
<1>1. links[l].down \o fs \in Seq(News)
  BY ConcatIs DEF Links, LinkState
<1>2. /\ Down(links, l, fs) \in Links
      /\ \A k \in Link : /\ Down(links, l, fs)[k].up = links[k].up
                         /\ Down(links, l, fs)[k].local = links[k].local
                         /\ Down(links, l, fs)[k].remote = links[k].remote
                         /\ k # l => Down(links, l, fs)[k].down = links[k].down
      /\ Down(links, l, fs)[l].down \in {links[l].down, links[l].down \o fs}
  BY <1>1 DEF Down, Links, LinkState
<1> DEFINE new == Down(links, l, fs)
<1> HIDE DEF new
<1>3. ASSUME NEW k \in Link, NEW i \in DOMAIN new[k].down
      PROVE  \/ i \in DOMAIN links[k].down /\ new[k].down[i] = links[k].down[i]
             \/ \E j \in DOMAIN fs : new[k].down[i] = fs[j]
  <2> DEFINE old == links[k].down
  <2>1. old \in Seq(News)
    BY DEF Links, LinkState
  <2>2. new[k].down = old \/ new[k].down = old \o fs
    BY <1>2 DEF new
  <2> HIDE DEF old
  <2>3. CASE new[k].down = old
    BY <1>3, <2>3 DEF old
  <2>4. CASE new[k].down = old \o fs
    <3>1. \/ i \in DOMAIN old /\ (old \o fs)[i] = old[i]
          \/ \E j \in DOMAIN fs : (old \o fs)[i] = fs[j]
      BY <1>3, <2>1, <2>4, ConcatIs
    <3> QED BY <3>1, <2>4 DEF old
  <2> QED BY <2>2, <2>3, <2>4
<1> QED BY <1>2, <1>3 DEF new

LEMMA ReadIs ==
    ASSUME link \in Links, NEW l \in Link, link[l].up # <<>>
    PROVE  /\ Read(l) \in Links
           /\ \A k \in Link : /\ Read(l)[k].down = link[k].down
                              /\ Read(l)[k].local = link[k].local
                              /\ Read(l)[k].remote = link[k].remote
                              /\ k # l => Read(l)[k].up = link[k].up
           /\ Read(l)[l].up = Tail(link[l].up)
           /\ Head(link[l].up) \in Frame
<1>1. Tail(link[l].up) \in Seq(Frame) /\ Head(link[l].up) \in Frame
  BY TailIs DEF Links, LinkState
<1> QED BY <1>1 DEF Read, Links, LinkState

LEMMA TookIs ==
    ASSUME link \in Links, NEW c \in Client, client[c].link \in Link,
           link[client[c].link].down # <<>>
    PROVE  /\ Took(c) \in Links
           /\ \A k \in Link : /\ Took(c)[k].up = link[k].up
                              /\ Took(c)[k].local = link[k].local
                              /\ Took(c)[k].remote = link[k].remote
                              /\ k # client[c].link => Took(c)[k].down = link[k].down
           /\ Took(c)[client[c].link].down = Tail(link[client[c].link].down)
           /\ Head(link[client[c].link].down) \in News
<1>1. /\ Tail(link[client[c].link].down) \in Seq(News)
      /\ Head(link[client[c].link].down) \in News
  BY TailIs DEF Links, LinkState
<1> QED BY <1>1 DEF Took, Links, LinkState

LEMMA ShutIs ==
    ASSUME NEW links \in Links, NEW l \in Link
    PROVE  /\ Shut(links, l) \in Links
           /\ \A k \in Link : k # l => Shut(links, l)[k] = links[k]
           /\ Shut(links, l)[l].up = links[l].up /\ Shut(links, l)[l].remote = links[l].remote
           /\ Shut(links, l)[l].down = <<>> /\ Shut(links, l)[l].local = "closed"
<1> DEFINE new == Shut(links, l)
<1>1. /\ <<>> \in Seq(News)
      /\ links[l] \in LinkState
      /\ links \in [Link -> LinkState]
  BY DEF Links
<1>2. DOMAIN new = Link /\ new = [k \in Link |-> new[k]]
  BY <1>1 DEF Shut
<1>3. \A k \in Link : k # l => new[k] = links[k]
  BY <1>1 DEF Shut
<1>4. new[l] = [links[l] EXCEPT !.local = "closed", !.down = <<>>]
  BY <1>1 DEF Shut
<1> HIDE DEF new
<1> DEFINE r == links[l]
<1>5. [r EXCEPT !.local = "closed", !.down = <<>>] \in LinkState
  <2>1. r \in [up: Seq(Frame), down: Seq(News), local: {"open", "closed"},
                remote: {"open", "ended", "gone"}]
    BY <1>1 DEF LinkState
  <2> HIDE DEF r
  <2>2. [r EXCEPT !.local = "closed", !.down = <<>>] \in
           [up: Seq(Frame), down: Seq(News), local: {"open", "closed"},
            remote: {"open", "ended", "gone"}]
    BY <1>1, <2>1
  <2> QED BY <2>2 DEF LinkState
<1>6. new[l].up = r.up /\ new[l].remote = r.remote
      /\ new[l].down = <<>> /\ new[l].local = "closed"
  <2>1. r \in [up: Seq(Frame), down: Seq(News), local: {"open", "closed"},
                remote: {"open", "ended", "gone"}]
    BY <1>1 DEF LinkState
  <2>2. new[l] = [r EXCEPT !.local = "closed", !.down = <<>>]
    BY <1>4
  <2> HIDE DEF r
  <2> QED BY <2>1, <2>2
<1>7. new \in Links
  BY <1>2, <1>3, <1>4, <1>5, <1>1 DEF Links
<1> QED BY <1>3, <1>6, <1>7 DEF new

LEMMA Records ==
    /\ \A r \in LinkState : [r EXCEPT !.local = "closed"] \in LinkState
    /\ \A r \in AskState : /\ [r EXCEPT !.sent = TRUE] \in AskState
                           /\ [r EXCEPT !.sent = TRUE].state = r.state
                           /\ [r EXCEPT !.sent = TRUE].from = r.from
                           /\ [r EXCEPT !.sent = TRUE].by = r.by
                           /\ [r EXCEPT !.sent = TRUE].replies = r.replies
<1>1. ASSUME NEW r \in LinkState PROVE [r EXCEPT !.local = "closed"] \in LinkState
  BY DEF LinkState
<1>2. ASSUME NEW r \in AskState
      PROVE  /\ [r EXCEPT !.sent = TRUE] \in AskState
             /\ [r EXCEPT !.sent = TRUE].state = r.state
             /\ [r EXCEPT !.sent = TRUE].from = r.from
             /\ [r EXCEPT !.sent = TRUE].by = r.by
             /\ [r EXCEPT !.sent = TRUE].replies = r.replies
  BY DEF AskState
<1> QED BY <1>1, <1>2

LEMMA Shapes == /\ \A type \in {"register", "cancel", "unregister"}, a \in Ask \cup {NoAsk} :
                     Note(type, a) \in Frame
                /\ \A type \in {"registered", "delivered", "delivery_failed"}, a \in Ask \cup {NoAsk} :
                     Note(type, a) \in News
                /\ Message \subseteq Frame
  BY DEF Note, Frame, News

LEMMA EndedIs ==
    ASSUME TypeOK, NEW a \in Ask,
           NEW state \in {"answered", "failed", "timeout", "unconfirmed"}
    PROVE  /\ Ended(a, state) \in AskState
           /\ Ended(a, state).state = state /\ Ended(a, state).replies = ask[a].replies
  BY DEF Ended, NewAsk, AskState, TypeOK

AwaitedNext == \A x \in Ask : ask'[x].state = "waiting" => ask'[x].by \in Client

(* A client that leaves a connection: its asks fail, nothing else of the   *)
(* asks changes.                                                           *)
LEMMA LeavesIs ==
    ASSUME TypeOK, NEW c \in Client, Leaves(c)
    PROVE  /\ client' \in [Client -> [at: {"off", "connecting", "on"}, link: Link \cup {NoLink}]]
           /\ client'[c] = Off /\ \A k \in Client : k # c => client'[k] = client[k]
           /\ ask' \in [Ask -> AskState] /\ AwaitedNext
           /\ \A a \in Ask : ask'[a] = ask[a] \/
                (ask[a].state = "waiting" /\ ask'[a].state = "failed"
                   /\ ask'[a].replies = ask[a].replies)
<1>1. ASSUME NEW a \in Ask PROVE /\ Failed(c)[a] \in AskState
                                 /\ \/ Failed(c)[a] = ask[a]
                                    \/ /\ ask[a].state = "waiting" /\ Failed(c)[a].state = "failed"
                                       /\ Failed(c)[a].replies = ask[a].replies
  BY EndedIs DEF Failed, TypeOK, Asking
<1>2. Failed(c) \in [Ask -> AskState]
  BY <1>1 DEF Failed
<1> QED BY <1>1, <1>2 DEF Leaves, Off, TypeOK, AwaitedNext

(* Where each step can take the parts of the state. *)
Clients == [Client -> [at: {"off", "connecting", "on"}, link: Link \cup {NoLink}]]

LinkOfClient == \A c \in Client :
    \/ client[c] = Off
    \/ /\ client[c].at # "off" /\ client[c].link \in Link /\ client[c].link[1] = c
       /\ link[client[c].link].local = "open"

(* Steps of a client. *)
LEMMA ClientTypes ==
    ASSUME TypeOK, NEW c \in Client,
           \/ \E l \in Link : Connects(c, l)
           \/ \E a \in Ask : Replies(c, a) \/ \E re \in Ask \cup {NoAsk} : Asks(c, a, re)
           \/ ClientReads(c) \/ Disconnects(c) \/ Dies(c)
    PROVE  TypeOK'
<1> USE DEF TypeOK, AwaitedNext
<1>1. ASSUME NEW l \in Link, Connects(c, l) PROVE TypeOK'
  <2>1. link' \in Links
    <3>1. <<Note("register", NoAsk)>> \in Seq(Frame) /\ <<>> \in Seq(News)
      BY Shapes
    <3> QED BY <1>1, <3>1 DEF Connects, Links, LinkState
  <2> QED BY <1>1, <2>1 DEF Connects, Links, Off
<1>2. ASSUME NEW a \in Ask, Replies(c, a) PROVE TypeOK'
  <2> DEFINE f == [type |-> "send", id |-> NoAsk, to |-> Asker[a], replyTo |-> a]
  <2>1. f \in Frame
    BY BrokerAssumption DEF Frame, Message
  <2>2. client[c].link \in Link /\ link' = SendUp(client[c].link, f)
    BY <1>2 DEF Replies, HasRoom, Connected, Off
  <2> HIDE DEF f
  <2>3. link' \in Links /\ \A k \in Link : link'[k].local = link[k].local
    BY <2>1, <2>2, SendUpIs DEF Links
  <2> QED BY <1>2, <2>3 DEF Replies, Links
<1>3. ASSUME NEW a \in Ask, NEW re \in Ask \cup {NoAsk}, Asks(c, a, re) PROVE TypeOK'
  <2> DEFINE f == [type |-> "send", id |-> a, to |-> Asked[a], replyTo |-> re]
  <2>1. f \in Frame
    BY BrokerAssumption DEF Frame, Message
  <2>2. client[c].link \in Link /\ link' = SendUp(client[c].link, f)
    BY <1>3 DEF Asks, HasRoom, Connected, Off
  <2> HIDE DEF f
  <2>3. link' \in Links /\ \A k \in Link : link'[k].local = link[k].local
    BY <2>1, <2>2, SendUpIs DEF Links
  <2>4. ask' \in [Ask -> AskState] /\ AwaitedNext
    BY <1>3 DEF Asks, AskState, AwaitedNext
  <2> QED BY <1>3, <2>3, <2>4 DEF Asks, Links
<1>4. ASSUME ReadsRegistered(c) PROVE TypeOK'
  <2>1. client[c].link \in Link /\ link[client[c].link].down # <<>> /\ link' = Took(c)
    BY <1>4 DEF ReadsRegistered, Reads
  <2>2. link' \in Links /\ \A k \in Link : link'[k].local = link[k].local
    BY <2>1, TookIs DEF Links
  <2> QED BY <1>4, <2>2 DEF ReadsRegistered, Reads, Links, Off
<1>5. ASSUME ReadsMessage(c) PROVE TypeOK'
  <2>1. client[c].link \in Link /\ link[client[c].link].down # <<>> /\ link' = Took(c)
    BY <1>5 DEF ReadsMessage, Reads
  <2>2. /\ link' \in Links /\ \A k \in Link : link'[k].local = link[k].local
        /\ Head(link[client[c].link].down) \in News
    BY <2>1, TookIs DEF Links
  <2>3. ask' \in [Ask -> AskState] /\ AwaitedNext
    <3> DEFINE m == Head(link[client[c].link].down)
    <3>1. m.from \in Name
      BY <1>5, <2>2 DEF ReadsMessage, Reads, News
    <3>2. ASSUME NEW a \in Ask PROVE [Ended(a, "answered") EXCEPT !.from = {m.from}] \in AskState
      <4> HIDE DEF m
      <4>1. Ended(a, "answered") \in AskState
        BY EndedIs
      <4> QED BY <3>1, <4>1 DEF AskState
    <3>3. \A a \in Ask : [Ended(a, "answered") EXCEPT !.from = {m.from}].state = "answered"
      BY EndedIs DEF Ended, NewAsk
    <3> QED BY <1>5, <3>2, <3>3 DEF ReadsMessage, AwaitedNext
  <2> QED BY <1>5, <2>2, <2>3 DEF ReadsMessage, Links
<1>6. ASSUME ReadsDelivered(c) \/ ReadsRefused(c) PROVE TypeOK'
  <2>1. client[c].link \in Link /\ link[client[c].link].down # <<>> /\ link' = Took(c)
    BY <1>6 DEF ReadsDelivered, ReadsRefused, Reads
  <2>2. /\ link' \in Links /\ \A k \in Link : link'[k].local = link[k].local
        /\ Head(link[client[c].link].down) \in News
    BY <2>1, TookIs DEF Links
  <2>3. ask' \in [Ask -> AskState] /\ AwaitedNext
    <3>1. \A a \in Ask : Ended(a, "failed") \in AskState /\ Ended(a, "failed").state = "failed"
      BY EndedIs
    <3>2. \A a \in Ask : /\ [ask[a] EXCEPT !.sent = TRUE] \in AskState
                         /\ [ask[a] EXCEPT !.sent = TRUE].state = ask[a].state
                         /\ [ask[a] EXCEPT !.sent = TRUE].by = ask[a].by
      BY Records
    <3> DEFINE a == Head(link[client[c].link].down).id
    <3>3. ask' \in {ask, [ask EXCEPT ![a].sent = TRUE], [ask EXCEPT ![a] = Ended(a, "failed")]}
      BY <1>6 DEF ReadsDelivered, ReadsRefused
    <3> HIDE DEF a
    <3>4. CASE a \notin Ask
      BY <3>3, <3>4
    <3>5. CASE a \in Ask /\ ask' = [ask EXCEPT ![a].sent = TRUE]
      <4>1. \A x \in Ask : ask'[x] \in {ask[x], [ask[x] EXCEPT !.sent = TRUE]}
        BY <3>5
      <4> QED BY <3>2, <3>5, <4>1
    <3>6. CASE a \in Ask /\ ask' = [ask EXCEPT ![a] = Ended(a, "failed")]
      BY <3>1, <3>6
    <3> QED BY <3>3, <3>4, <3>5, <3>6
  <2> QED BY <1>6, <2>2, <2>3 DEF ReadsDelivered, ReadsRefused, Links
<1>7. ASSUME ReadsEnd(c) PROVE TypeOK'
  <2>1. client[c].link \in Link /\ client[c].link[1] = c
    BY <1>7 DEF ReadsEnd
  <2>2. /\ link' \in Links
        /\ \A k \in Link : k # client[c].link => link'[k].local = link[k].local
    <3>1. [link[client[c].link] EXCEPT !.local = "closed"] \in LinkState
      BY <2>1, Records
    <3>2. link' = [link EXCEPT ![client[c].link] = [link[client[c].link] EXCEPT !.local = "closed"]]
      BY <1>7 DEF ReadsEnd
    <3> QED BY <2>1, <3>1, <3>2 DEF Links
  <2> QED BY <1>7, <2>1, <2>2, LeavesIs DEF ReadsEnd, Links
<1>8. ASSUME Disconnects(c) PROVE TypeOK'
  <2> DEFINE f == Note("unregister", NoAsk)
             l == client[c].link
  <2>1. l \in Link /\ l[1] = c /\ f \in Frame
    BY <1>8, Shapes DEF Disconnects, Connected, Off
  <2>2. SendUp(l, f) \in Links /\ \A k \in Link : SendUp(l, f)[k].local = link[k].local
    <3> HIDE DEF f, l
    <3> QED BY <2>1, SendUpIs DEF Links
  <2>3. link' = Shut(SendUp(l, f), l)
    BY <1>8 DEF Disconnects
  <2> HIDE DEF f
  <2>4. /\ link' \in Links /\ \A k \in Link : k # l => link'[k].local = link[k].local
    <3> HIDE DEF l
    <3>1. SendUp(l, f) \in Links /\ l \in Link
      BY <2>1, <2>2
    <3>2. link' \in Links /\ \A k \in Link : k # l => link'[k] = SendUp(l, f)[k]
      BY <2>3, <3>1, ShutIs
    <3> QED BY <2>2, <3>2
  <2> QED BY <1>8, <2>1, <2>4, LeavesIs DEF Disconnects, Links
<1>9. ASSUME Dies(c) PROVE TypeOK'
  <2>1. client[c].link \in Link /\ client[c].link[1] = c
    BY <1>9 DEF Dies
  <2>2. /\ link' \in Links
        /\ \A k \in Link : k # client[c].link => link'[k].local = link[k].local
    <3>1. link \in Links
      BY DEF Links
    <3>2. link' = Shut(link, client[c].link)
      BY <1>9 DEF Dies
    <3> QED BY <2>1, <3>1, <3>2, ShutIs
  <2> QED BY <1>9, <2>1, <2>2, LeavesIs DEF Dies, Links
<1> QED
  BY <1>1, <1>2, <1>3, <1>4, <1>5, <1>6, <1>7, <1>8, <1>9 DEF ClientReads

---------------------------------------------------------------------------
(* Steps of the broker. *)
LEMMA OwnerIs == ASSUME NEW l \in Link PROVE Owner(l) \in Name /\ l[1] \in Client
  BY DEF Link, Owner, Name

(* What is said on a connection: the frames l.up and the frames m of the   *)
(* others are as they were, but for one that was read.                     *)
UpRead(l) ==
    /\ \A k \in Link : k # l => link'[k].up = link[k].up
    /\ link[l].up # <<>> /\ link'[l].up = Tail(link[l].up)

EndsSame == \A k \in Link : link'[k].local = link[k].local /\ link'[k].remote = link[k].remote

LEMMA PassIs ==
    ASSUME TypeOK, NEW l \in Link, Receives(l, "send"), NEW es \in SUBSET edges, Passes(l, es),
           NEW m, m = Head(link[l].up),
           NEW message, message = [type |-> "message", id |-> m.id, from |-> Owner(l), replyTo |-> m.replyTo]
    PROVE  /\ m \in Message /\ sessions[m.to] \in Link
           /\ link' \in Links /\ UpRead(l) /\ EndsSame
           /\ \A k \in Link : k # l /\ k # sessions[m.to] => link'[k].down = link[k].down
           /\ \A k \in Link : \A i \in DOMAIN link'[k].down :
                \/ i \in DOMAIN link[k].down /\ link'[k].down[i] = link[k].down[i]
                \/ link'[k].down[i].type # "message"
                \/ link'[k].down[i] = message
<1>1. link \in Links /\ link[l].up # <<>>
  BY DEF TypeOK, Links, Receives
<1>2. m \in Message
  <2>1. m \in Frame /\ m.type = "send"
    BY <1>1, ReadIs DEF Receives
  <2> QED BY <2>1 DEF Frame
<1>3. sessions[m.to] \in Link
  BY <1>2 DEF Passes, Accepts, TypeOK, Message
<1> DEFINE only == <<message>>
           to == sessions[m.to]
           one == Down(Read(l), to, only)
           answer == Answer(m, "delivered")
<1>4. only \in Seq(News) /\ \A j \in DOMAIN only : only[j] = message
  BY <1>2, OwnerIs DEF Message, News
<1>5. answer \in Seq(News) /\ \A j \in DOMAIN answer : answer[j].type # "message"
  BY <1>2, Shapes DEF Answer, Note, Message
<1>6. link' = Down(one, l, answer)
  BY DEF Passes
<1> HIDE DEF answer, only, to
<1>7. /\ Read(l) \in Links
      /\ \A k \in Link : /\ Read(l)[k].down = link[k].down
                         /\ Read(l)[k].local = link[k].local /\ Read(l)[k].remote = link[k].remote
                         /\ k # l => Read(l)[k].up = link[k].up
      /\ Read(l)[l].up = Tail(link[l].up)
  BY <1>1, ReadIs
<1>8. /\ one \in Links
      /\ \A k \in Link : /\ one[k].up = Read(l)[k].up
                         /\ one[k].local = Read(l)[k].local /\ one[k].remote = Read(l)[k].remote
                         /\ k # to => one[k].down = Read(l)[k].down
      /\ \A k \in Link : \A i \in DOMAIN one[k].down :
           \/ i \in DOMAIN Read(l)[k].down /\ one[k].down[i] = Read(l)[k].down[i]
           \/ one[k].down[i] = message
  <2>1. to \in Link
    BY <1>3 DEF to
  <2>2. \A k \in Link : \A i \in DOMAIN one[k].down :
           \/ i \in DOMAIN Read(l)[k].down /\ one[k].down[i] = Read(l)[k].down[i]
           \/ \E j \in DOMAIN only : one[k].down[i] = only[j]
    BY <1>4, <1>7, <2>1, DownIs
  <2>3. /\ one \in Links
        /\ \A k \in Link : /\ one[k].up = Read(l)[k].up
                           /\ one[k].local = Read(l)[k].local /\ one[k].remote = Read(l)[k].remote
                           /\ k # to => one[k].down = Read(l)[k].down
    BY <1>4, <1>7, <2>1, DownIs
  <2> QED BY <1>4, <2>2, <2>3
<1> HIDE DEF one
<1>9. /\ link' \in Links
      /\ \A k \in Link : /\ link'[k].up = one[k].up
                         /\ link'[k].local = one[k].local /\ link'[k].remote = one[k].remote
                         /\ k # l => link'[k].down = one[k].down
      /\ \A k \in Link : \A i \in DOMAIN link'[k].down :
           \/ i \in DOMAIN one[k].down /\ link'[k].down[i] = one[k].down[i]
           \/ link'[k].down[i].type # "message"
  BY <1>5, <1>6, <1>8, DownIs
<1>10. ASSUME NEW k \in Link, NEW i \in DOMAIN link'[k].down
       PROVE  \/ i \in DOMAIN link[k].down /\ link'[k].down[i] = link[k].down[i]
              \/ link'[k].down[i].type # "message"
              \/ link'[k].down[i] = message
  BY <1>7, <1>8, <1>9
<1> QED BY <1>1, <1>2, <1>3, <1>7, <1>8, <1>9, <1>10 DEF UpRead, EndsSame, to

LEMMA RefuseIs ==
    ASSUME TypeOK, NEW l \in Link, Receives(l, "send"), NEW es, Refuses(l, es)
    PROVE  /\ Head(link[l].up) \in Message
           /\ link' \in Links /\ UpRead(l) /\ EndsSame
           /\ \A k \in Link : k # l => link'[k].down = link[k].down
           /\ \A k \in Link : \A i \in DOMAIN link'[k].down :
                \/ i \in DOMAIN link[k].down /\ link'[k].down[i] = link[k].down[i]
                \/ link'[k].down[i].type # "message"
<1> DEFINE m == Head(link[l].up)
           answer == Answer(m, "delivery_failed")
<1>1. link \in Links /\ link[l].up # <<>>
  BY DEF TypeOK, Links, Receives
<1>2. m \in Message
  <2>1. m \in Frame /\ m.type = "send"
    BY <1>1, ReadIs DEF Receives
  <2> QED BY <2>1 DEF Frame
<1>3. answer \in Seq(News) /\ \A j \in DOMAIN answer : answer[j].type # "message"
  BY <1>2, Shapes DEF Answer, Note, Message
<1>4. link' = Down(Read(l), l, answer)
  BY DEF Refuses
<1> HIDE DEF answer
<1>5. /\ Read(l) \in Links
      /\ \A k \in Link : /\ Read(l)[k].down = link[k].down
                         /\ Read(l)[k].local = link[k].local /\ Read(l)[k].remote = link[k].remote
                         /\ k # l => Read(l)[k].up = link[k].up
      /\ Read(l)[l].up = Tail(link[l].up)
  BY <1>1, ReadIs
<1>6. /\ link' \in Links
      /\ \A k \in Link : /\ link'[k].up = Read(l)[k].up
                         /\ link'[k].local = Read(l)[k].local /\ link'[k].remote = Read(l)[k].remote
                         /\ k # l => link'[k].down = Read(l)[k].down
      /\ \A k \in Link : \A i \in DOMAIN link'[k].down :
           \/ i \in DOMAIN Read(l)[k].down /\ link'[k].down[i] = Read(l)[k].down[i]
           \/ link'[k].down[i].type # "message"
  BY <1>3, <1>4, <1>5, DownIs
<1> QED BY <1>1, <1>2, <1>5, <1>6 DEF UpRead, EndsSame

(* A session is removed with its edges, or nothing changes.                *)
LEMMA RemovesIs ==
    ASSUME TypeOK, NEW l \in Link, Removes(l)
    PROVE  /\ sessions' \in [Name -> Link \cup {NoLink}]
           /\ edges' \subseteq edges
           /\ \A n \in Name : sessions'[n] = sessions[n] \/ (sessions[n] = l /\ sessions'[n] = NoLink)
           /\ \A n \in Name : sessions'[n] # sessions[n] =>
                \A e \in edges' : e.from # n /\ e.to # n
  BY OwnerIs DEF Removes, Without, TypeOK

(* The connection that registers replaces the one there was.               *)
LEMMA RegistersIs ==
    ASSUME TypeOK, NEW l \in Link, Registers(l)
    PROVE  /\ sessions' = [sessions EXCEPT ![Owner(l)] = l]
           /\ edges' \subseteq edges /\ link' \in Links /\ UpRead(l)
           /\ sessions[Owner(l)] # NoLink => \A e \in edges' : e.from # Owner(l) /\ e.to # Owner(l)
           /\ \A k \in Link :
                /\ link'[k].local = link[k].local
                /\ k # l => link'[k].down = link[k].down
                /\ \/ link'[k].remote = link[k].remote /\ k # sessions[Owner(l)]
                   \/ link'[k].remote = "ended" /\ k = sessions[Owner(l)]
           /\ \A k \in Link : \A i \in DOMAIN link'[k].down :
                \/ i \in DOMAIN link[k].down /\ link'[k].down[i] = link[k].down[i]
                \/ link'[k].down[i].type # "message"
           /\ UNCHANGED <<client, ask>>
<1> DEFINE prev == sessions[Owner(l)]
           mid == IF prev = NoLink THEN Read(l) ELSE [Read(l) EXCEPT ![prev].remote = "ended"]
           only == <<Note("registered", NoAsk)>>
<1>1. link \in Links /\ link[l].up # <<>>
  BY DEF TypeOK, Links, Registers, Receives
<1>2. prev \in Link \/ prev = NoLink
  BY OwnerIs DEF TypeOK
<1>3. NoLink \notin Link
  BY BrokerAssumption DEF Link
<1> HIDE DEF prev
<1>4. /\ Read(l) \in Links
      /\ \A k \in Link : /\ Read(l)[k].down = link[k].down
                         /\ Read(l)[k].local = link[k].local /\ Read(l)[k].remote = link[k].remote
                         /\ k # l => Read(l)[k].up = link[k].up
      /\ Read(l)[l].up = Tail(link[l].up)
  BY <1>1, ReadIs
<1>5. /\ mid \in Links
      /\ \A k \in Link : /\ mid[k].down = Read(l)[k].down /\ mid[k].up = Read(l)[k].up
                         /\ mid[k].local = Read(l)[k].local
                         /\ \/ mid[k].remote = Read(l)[k].remote /\ k # prev
                            \/ mid[k].remote = "ended" /\ k = prev
  BY <1>2, <1>3, <1>4 DEF Links, LinkState
<1>6. only \in Seq(News) /\ \A j \in DOMAIN only : only[j].type # "message"
  BY Shapes DEF Note
<1>7. link' = Down(mid, l, only)
  BY DEF Registers, prev
<1> HIDE DEF mid, only
<1>8. /\ link' \in Links
      /\ \A k \in Link : /\ link'[k].up = mid[k].up
                         /\ link'[k].local = mid[k].local /\ link'[k].remote = mid[k].remote
                         /\ k # l => link'[k].down = mid[k].down
      /\ \A k \in Link : \A i \in DOMAIN link'[k].down :
           \/ i \in DOMAIN mid[k].down /\ link'[k].down[i] = mid[k].down[i]
           \/ link'[k].down[i].type # "message"
  BY <1>5, <1>6, <1>7, DownIs
<1>9. /\ sessions' = [sessions EXCEPT ![Owner(l)] = l]
      /\ edges' \subseteq edges
      /\ sessions[Owner(l)] # NoLink => \A e \in edges' : e.from # Owner(l) /\ e.to # Owner(l)
      /\ UNCHANGED <<client, ask>>
  BY DEF Registers, Without, TypeOK
<1> QED BY <1>1, <1>4, <1>5, <1>8, <1>9 DEF UpRead, prev

LEMMA FreeIs == Free \in LinkState
<1>1. <<>> \in Seq(Frame) /\ <<>> \in Seq(News)
  OBVIOUS
<1> QED BY <1>1 DEF Free, LinkState

(* The ends of all connections once the broker has died.                   *)
LEMMA BrokerDiesIs ==
    ASSUME TypeOK, BrokerDies
    PROVE  /\ link' \in Links /\ sessions' = [n \in Name |-> NoLink] /\ edges' = {}
           /\ \A k \in Link :
                \/ link[k].local = "closed" /\ link'[k] = Free
                \/ /\ link[k].local = "open" /\ link'[k].up = <<>> /\ link'[k].remote = "gone"
                   /\ link'[k].down = link[k].down /\ link'[k].local = "open"
           /\ UNCHANGED <<client, ask>>
<1> DEFINE Lost(r) == [r EXCEPT !.up = <<>>, !.remote = "gone"]
<1>1. ASSUME NEW r \in LinkState
      PROVE  /\ Lost(r) \in LinkState /\ Lost(r).up = <<>> /\ Lost(r).remote = "gone"
             /\ Lost(r).down = r.down /\ Lost(r).local = r.local
  <2>1. <<>> \in Seq(Frame)
    OBVIOUS
  <2> QED BY <2>1 DEF LinkState
<1>2. \A k \in Link : link[k] \in LinkState /\ link[k].local \in {"open", "closed"}
  BY DEF TypeOK, LinkState
<1>3. link' = [k \in Link |-> IF link[k].local = "closed" THEN Free
                              ELSE Lost(link[k])]
  BY DEF BrokerDies
<1> HIDE DEF Lost
<1>4. /\ link' \in Links
      /\ \A k \in Link :
           \/ link[k].local = "closed" /\ link'[k] = Free
           \/ /\ link[k].local = "open" /\ link'[k].up = <<>> /\ link'[k].remote = "gone"
              /\ link'[k].down = link[k].down /\ link'[k].local = "open"
  <2>1. ASSUME NEW k \in Link, link[k].local = "closed"
        PROVE  link'[k] = Free /\ link'[k] \in LinkState
    BY <1>3, <2>1, FreeIs
  <2>2. ASSUME NEW k \in Link, link[k].local # "closed"
        PROVE  /\ link'[k].up = <<>> /\ link'[k].remote = "gone" /\ link'[k] \in LinkState
               /\ link'[k].down = link[k].down /\ link'[k].local = link[k].local
    <3>1. link'[k] = Lost(link[k])
      BY <1>3, <2>2
    <3> QED BY <1>1, <1>2, <3>1
  <2> QED BY <1>2, <1>3, <2>1, <2>2 DEF Links
<1> QED BY <1>4 DEF BrokerDies

(* A connection on which one frame was read, and nothing else.             *)
ReadOnly(l) == /\ link' \in Links /\ UpRead(l) /\ EndsSame
               /\ \A k \in Link : link'[k].down = link[k].down

LEMMA ReadOnlyIs ==
    ASSUME TypeOK, NEW l \in Link, Cancels(l) \/ Unregisters(l)
    PROVE  ReadOnly(l)
  BY ReadIs DEF TypeOK, Links, Cancels, Unregisters, Receives, ReadOnly, UpRead, EndsSame

LEMMA ClosesIs ==
    ASSUME TypeOK, NEW l \in Link, Closes(l)
    PROVE  /\ link' \in Links /\ link[l].local = "closed" /\ link'[l] = Free
           /\ \A k \in Link : k # l => link'[k] = link[k]
  BY FreeIs DEF TypeOK, Links, Closes

LEMMA BrokerTypes ==
    ASSUME TypeOK, (\E l \in Link : BrokerReads(l)) \/ BrokerDies
    PROVE  TypeOK'
<1>1. ASSUME NEW l \in Link, Registers(l) PROVE TypeOK'
  <2>1. /\ sessions' = [sessions EXCEPT ![Owner(l)] = l]
        /\ edges' \subseteq edges /\ link' \in Links /\ UNCHANGED <<client, ask>>
        /\ \A k \in Link : link'[k].local = link[k].local
    BY <1>1, RegistersIs
  <2>2. sessions' \in [Name -> Link \cup {NoLink}]
    BY <2>1, OwnerIs DEF TypeOK
  <2> QED BY <2>1, <2>2 DEF TypeOK, Links
<1>2. ASSUME NEW l \in Link, Sends(l) PROVE TypeOK'
  <2>1. PICK es \in SUBSET edges : Passes(l, es) \/ Refuses(l, es)
    BY <1>2 DEF Sends
  <2>2. Receives(l, "send") /\ UNCHANGED <<sessions, client>>
    BY <1>2 DEF Sends
  <2> DEFINE m == Head(link[l].up)
  <2>3. m \in Message /\ link' \in Links /\ EndsSame
    BY <2>1, <2>2, PassIs, RefuseIs
  <2>4. edges' \subseteq [id: Ask, from: Name, to: Name]
    <3>1. CASE Refuses(l, es)
      BY <3>1 DEF Refuses, TypeOK
    <3>2. CASE Passes(l, es)
      <4>1. edges' \subseteq es \cup (IF m.id = NoAsk THEN {} ELSE {[id |-> m.id, from |-> Owner(l), to |-> m.to]})
        BY <3>2 DEF Passes, Remaining, Edge
      <4> HIDE DEF m
      <4> QED BY <2>3, <4>1, OwnerIs DEF Message, TypeOK
    <3> QED BY <2>1, <3>1, <3>2
  <2>5. ask' \in [Ask -> AskState] /\ AwaitedNext
    <3> DEFINE inc(a) == [ask EXCEPT ![a].replies = @ + 1]
    <3>1. ASSUME NEW a \in Ask
          PROVE  /\ inc(a) \in [Ask -> AskState]
                 /\ \A x \in Ask : inc(a)[x].state = ask[x].state /\ inc(a)[x].by = ask[x].by
      <4>1. LET r == [ask[a] EXCEPT !.replies = @ + 1]
            IN  r \in AskState /\ r.state = ask[a].state /\ r.by = ask[a].by
        <5>1. ask[a] \in AskState
          BY DEF TypeOK
        <5> QED BY <5>1 DEF AskState
      <4> QED BY <4>1 DEF TypeOK
    <3>2. CASE Refuses(l, es)
      BY <3>2 DEF Refuses, TypeOK, AwaitedNext
    <3>3. CASE Passes(l, es)
      <4>1. ask' = ask \/ (m.replyTo # NoAsk /\ ask' = inc(m.replyTo))
        BY <3>3 DEF Passes
      <4>2. m.replyTo \in Ask \cup {NoAsk}
        BY <2>3 DEF Message
      <4>3. CASE ask' = ask
        BY <4>3 DEF TypeOK, AwaitedNext
      <4>4. CASE m.replyTo # NoAsk /\ ask' = inc(m.replyTo)
        <5>1. PICK a \in Ask : ask' = inc(a)
          BY <4>2, <4>4
        <5> HIDE DEF inc
        <5>2. /\ ask' \in [Ask -> AskState]
              /\ \A x \in Ask : ask'[x].state = ask[x].state /\ ask'[x].by = ask[x].by
          BY <3>1, <5>1
        <5> QED BY <5>2 DEF TypeOK, AwaitedNext
      <4> QED BY <4>1, <4>3, <4>4
    <3> QED BY <2>1, <3>2, <3>3
  <2> QED BY <2>2, <2>3, <2>4, <2>5 DEF TypeOK, EndsSame, Links, AwaitedNext
<1>3. ASSUME NEW l \in Link, Cancels(l) PROVE TypeOK'
  BY <1>3, ReadOnlyIs DEF TypeOK, Links, Cancels, ReadOnly, EndsSame
<1>4. ASSUME NEW l \in Link, Unregisters(l) PROVE TypeOK'
  BY <1>4, ReadOnlyIs, RemovesIs DEF TypeOK, Links, Unregisters, ReadOnly, EndsSame
<1>5. ASSUME NEW l \in Link, Closes(l) PROVE TypeOK'
  <2>1. /\ sessions' \in [Name -> Link \cup {NoLink}]
        /\ edges' \subseteq edges /\ UNCHANGED <<client, ask>>
    BY <1>5, RemovesIs DEF Closes
  <2> QED BY <1>5, <2>1, ClosesIs DEF TypeOK, Links
<1>6. CASE BrokerDies
  BY <1>6, BrokerDiesIs DEF TypeOK, Links
<1> QED BY <1>1, <1>2, <1>3, <1>4, <1>5, <1>6 DEF BrokerReads

(* Asks that nobody waits for any more.                                    *)
LEMMA TimeTypes ==
    ASSUME TypeOK, NEW a \in Ask, AskTimesOut(a) \/ SendTimesOut(a)
    PROVE  TypeOK'
<1>1. ask' \in [Ask -> AskState] /\ AwaitedNext
  BY EndedIs DEF AskTimesOut, SendTimesOut, TypeOK, AwaitedNext
<1>2. CASE SendTimesOut(a)
  BY <1>1, <1>2 DEF SendTimesOut, TypeOK, AwaitedNext
<1>3. CASE AskTimesOut(a)
  <2> DEFINE l == client[ask[a].by].link
             f == Note("cancel", a)
  <2>1. l \in Link /\ f \in Frame
    BY <1>3, Shapes DEF AskTimesOut, Connected, Off, Asking, TypeOK
  <2>2. link' = SendUp(l, f)
    BY <1>3 DEF AskTimesOut
  <2> HIDE DEF l, f
  <2>3. link' \in Links /\ \A k \in Link : link'[k].local = link[k].local
    BY <2>1, <2>2, SendUpIs DEF Links, TypeOK
  <2> QED BY <1>1, <1>3, <2>3 DEF AskTimesOut, TypeOK, Links, AwaitedNext
<1> QED BY <1>2, <1>3

---------------------------------------------------------------------------
(* Which connection is registered. *)
Clear(q) == \A i \in DOMAIN q : q[i].type # "unregister"

LEMMA ClearIs ==
    ASSUME NEW q \in Seq(Frame), Clear(q)
    PROVE  /\ \A f \in Frame : f.type # "unregister" => Clear(Append(q, f))
           /\ q # <<>> => Clear(Tail(q))
<1>1. ASSUME NEW f \in Frame, f.type # "unregister" PROVE Clear(Append(q, f))
  <2>1. ASSUME NEW i \in DOMAIN Append(q, f) PROVE Append(q, f)[i].type # "unregister"
    <3>1. /\ DOMAIN Append(q, f) = 1 .. Len(q) + 1 /\ DOMAIN q = 1 .. Len(q) /\ Len(q) \in Nat
          /\ Append(q, f)[Len(q) + 1] = f
          /\ \A j \in DOMAIN q : Append(q, f)[j] = q[j]
      BY AppendIs
    <3>2. i = Len(q) + 1 \/ i \in DOMAIN q
      BY <3>1
    <3> QED BY <1>1, <3>1, <3>2 DEF Clear
  <2> QED BY <2>1 DEF Clear
<1>2. ASSUME q # <<>> PROVE Clear(Tail(q))
  BY <1>2, TailIs DEF Clear
<1> QED BY <1>1, <1>2

(* A connection that a step leaves as it is, and whose session too.        *)
LEMMA SoundKept ==
    ASSUME LinksSound, NEW l \in Link, link'[l] = link[l],
           sessions'[Owner(l)] = sessions[Owner(l)] \/ sessions'[Owner(l)] = l,
           client'[l[1]] = client[l[1]] \/ client[l[1]].link # l
    PROVE  LinkSound(l)'
<1>1. CASE sessions[Owner(l)] = l
  BY <1>1 DEF LinksSound, LinkSound
<1>2. CASE Opening(l)
  BY <1>2 DEF LinksSound, LinkSound, Opening
<1>3. CASE link[l].local # "open"
  BY <1>3 DEF LinkSound
<1>4. CASE link[l].remote # "open"
  BY <1>4 DEF LinksSound, LinkSound
<1> QED BY <1>1, <1>2, <1>3, <1>4 DEF LinksSound, LinkSound

(* One that is not being opened.                                           *)
LEMMA SoundUsed ==
    ASSUME LinksSound, NEW l \in Link, ~Opening(l), sessions'[Owner(l)] = sessions[Owner(l)],
           link'[l].local = link[l].local, link'[l].remote = link[l].remote,
           Clear(link[l].up) => Clear(link'[l].up)
    PROVE  LinkSound(l)'
  BY DEF LinksSound, LinkSound, Clear

SessionsOwn == \A n \in Name : sessions[n] # NoLink => Owner(sessions[n]) = n

LEMMA ClientLinks ==
    ASSUME TypeOK, LinksSound, NEW c \in Client,
           \/ \E l \in Link : Connects(c, l)
           \/ \E a \in Ask : Replies(c, a) \/ \E re \in Ask \cup {NoAsk} : Asks(c, a, re)
           \/ ClientReads(c) \/ Disconnects(c) \/ Dies(c)
    PROVE  LinksSound'
<1> SUFFICES ASSUME NEW k \in Link PROVE LinkSound(k)'
  BY DEF LinksSound, ClientReads, Connects, Asks, Replies, Disconnects, Dies, ReadsRegistered,
         ReadsMessage, ReadsDelivered, ReadsRefused, ReadsEnd, Owner
<1> DEFINE l == client[c].link
<1>1. ASSUME NEW new \in Link, Connects(c, new) PROVE LinkSound(k)'
  <2>1. CASE k = new
    <3>1. /\ link'[k].up = <<Note("register", NoAsk)>> /\ link'[k].down = <<>>
          /\ client'[c] = [at |-> "connecting", link |-> k] /\ k[1] = c
      BY <1>1, <2>1 DEF Connects, TypeOK
    <3>2. Opening(k)'
      BY <3>1 DEF Opening
    <3>3. Clear(link'[k].up)
      BY <3>1 DEF Clear, Note
    <3> QED BY <3>2, <3>3 DEF LinkSound, Clear
  <2>2. CASE k # new
    <3>1. client[k[1]].link # k \/ client'[k[1]] = client[k[1]]
      <4>1. CASE k[1] = c
        BY <1>1, <4>1, BrokerAssumption DEF Connects, Off, Link
      <4> QED BY <1>1, <4>1, OwnerIs DEF Connects, TypeOK
    <3> QED BY <1>1, <2>2, <3>1, SoundKept DEF Connects, TypeOK
  <2> QED BY <2>1, <2>2
<1>2. ASSUME NEW f \in Frame, f.type # "unregister", l \in Link, l[1] = c, client[c].at # "connecting",
             link' = SendUp(l, f), UNCHANGED <<sessions, client>>
      PROVE  LinkSound(k)'
  <2>1. link \in Links
    BY DEF TypeOK, Links
  <2>2. CASE k = l
    <3>1. ~Opening(k)
      BY <1>2, <2>2 DEF Opening
    <3> DEFINE q == link[k].up
    <3>2. Clear(q) => Clear(link'[k].up)
      <4>1. link'[k].up \in {q, Append(q, f)}
        BY <1>2, <2>1, <2>2, SendUpIs
      <4>2. q \in Seq(Frame)
        BY <2>1 DEF Links, LinkState
      <4> HIDE DEF q
      <4> QED BY <1>2, <4>1, <4>2, ClearIs
    <3> QED BY <1>2, <2>1, <3>1, <3>2, SendUpIs, SoundUsed
  <2>3. CASE k # l
    <3>1. link'[k] = link[k]
      BY <1>2, <2>3 DEF SendUp, TypeOK
    <3> QED BY <1>2, <3>1, SoundKept
  <2> QED BY <2>2, <2>3
<1>3. ASSUME l \in Link, l[1] = c, link[l].down # <<>>, link' = Took(c), UNCHANGED sessions,
             client' \in Clients,
             \A d \in Client : d # c => client'[d] = client[d]
      PROVE  LinkSound(k)'
  <2>1. link \in Links
    BY DEF TypeOK, Links
  <2>2. CASE k = l
    <3>1. ~Opening(k)
      BY <1>3, <2>2 DEF Opening
    <3> QED BY <1>3, <2>1, <2>2, <3>1, TookIs, SoundUsed
  <2>3. CASE k # l
    <3>1. link'[k] = link[k]
      BY <1>3, <2>3 DEF Took, TypeOK
    <3>2. client'[k[1]] = client[k[1]] \/ client[k[1]].link # k
      BY <1>3, <2>3, OwnerIs
    <3> QED BY <1>3, <3>1, <3>2, SoundKept
  <2> QED BY <2>2, <2>3
<1>4. ASSUME l \in Link, \A j \in Link : j # l => link'[j] = link[j],
             link'[l].local # "open" \/ link'[l].remote # "open", Clear(link'[l].up) \/ link'[l].local # "open",
             UNCHANGED sessions, \A d \in Client : d # c => client'[d] = client[d]
      PROVE  LinkSound(k)'
  <2>1. CASE k = l
    BY <1>4, <2>1 DEF LinkSound, Clear
  <2>2. CASE k # l
    <3>1. client'[k[1]] = client[k[1]] \/ client[k[1]].link # k
      BY <1>4, <2>2, OwnerIs
    <3> QED BY <1>4, <2>2, <3>1, SoundKept
  <2> QED BY <2>1, <2>2
<1>5. ASSUME NEW a \in Ask, Replies(c, a) PROVE LinkSound(k)'
  <2> DEFINE f == [type |-> "send", id |-> NoAsk, to |-> Asker[a], replyTo |-> a]
  <2>1. f \in Frame /\ f.type # "unregister"
    BY BrokerAssumption DEF Frame, Message
  <2>2. /\ l \in Link /\ l[1] = c /\ link' = SendUp(l, f) /\ client[c].at # "connecting"
        /\ UNCHANGED <<sessions, client>>
    BY <1>5 DEF Replies, HasRoom, Connected, Off, TypeOK
  <2> HIDE DEF f, l
  <2> QED BY <1>2, <2>1, <2>2
<1>6. ASSUME NEW a \in Ask, NEW re \in Ask \cup {NoAsk}, Asks(c, a, re) PROVE LinkSound(k)'
  <2> DEFINE f == [type |-> "send", id |-> a, to |-> Asked[a], replyTo |-> re]
  <2>1. f \in Frame /\ f.type # "unregister"
    BY BrokerAssumption DEF Frame, Message
  <2>2. /\ l \in Link /\ l[1] = c /\ link' = SendUp(l, f) /\ client[c].at # "connecting"
        /\ UNCHANGED <<sessions, client>>
    BY <1>6 DEF Asks, HasRoom, Connected, Off, TypeOK
  <2> HIDE DEF f, l
  <2> QED BY <1>2, <2>1, <2>2
<1>7. ASSUME ReadsRegistered(c) \/ ReadsMessage(c) \/ ReadsDelivered(c) \/ ReadsRefused(c)
      PROVE  LinkSound(k)'
  <2>1. /\ l \in Link /\ l[1] = c /\ link[l].down # <<>> /\ link' = Took(c) /\ UNCHANGED sessions
        /\ client' \in Clients /\ \A d \in Client : d # c => client'[d] = client[d]
    BY <1>7 DEF ReadsRegistered, ReadsMessage, ReadsDelivered, ReadsRefused, Reads, TypeOK, Clients
  <2> HIDE DEF l
  <2> QED BY <1>3, <2>1
<1>8. ASSUME ReadsEnd(c) \/ Dies(c) \/ Disconnects(c) PROVE LinkSound(k)'
  <2>1. l \in Link
    BY <1>8 DEF ReadsEnd, Dies, Disconnects, Connected, Off, TypeOK
  <2>2. UNCHANGED sessions /\ \A d \in Client : d # c => client'[d] = client[d]
    BY <1>8, LeavesIs DEF ReadsEnd, Dies, Disconnects
  <2>3. (\A j \in Link : j # l => link'[j] = link[j]) /\ link'[l].local # "open"
    <3>1. link \in Links /\ Note("unregister", NoAsk) \in Frame
      BY Shapes DEF TypeOK, Links
    <3>2. CASE ReadsEnd(c)
      <4>1. link' = [link EXCEPT ![l].local = "closed"] /\ link[l] \in LinkState
        BY <2>1, <3>2 DEF ReadsEnd, TypeOK
      <4> QED BY <2>1, <3>1, <4>1 DEF LinkState, Links
    <3>3. CASE Dies(c)
      <4>1. link' = Shut(link, l)
        BY <3>3 DEF Dies
      <4> HIDE DEF l
      <4> QED BY <2>1, <3>1, <4>1, ShutIs
    <3>4. CASE Disconnects(c)
      <4> DEFINE f == Note("unregister", NoAsk)
      <4>1. link' = Shut(SendUp(l, f), l)
        BY <3>4 DEF Disconnects
      <4> HIDE DEF l, f
      <4>2. /\ SendUp(l, f) \in Links
            /\ \A j \in Link : j # l => SendUp(l, f)[j] = link[j]
        BY <2>1, <3>1, SendUpIs DEF f, SendUp, Links
      <4> QED BY <2>1, <4>1, <4>2, ShutIs
    <3> QED BY <1>8, <3>2, <3>3, <3>4
  <2> HIDE DEF l
  <2> QED BY <1>4, <2>1, <2>2, <2>3
<1> QED BY <1>1, <1>5, <1>6, <1>7, <1>8 DEF ClientReads

LEMMA TimeLinks ==
    ASSUME TypeOK, LinksSound, NEW a \in Ask, AskTimesOut(a) \/ SendTimesOut(a)
    PROVE  LinksSound'
<1> SUFFICES ASSUME NEW k \in Link PROVE LinkSound(k)'
  BY DEF LinksSound, AskTimesOut, SendTimesOut, Owner
<1>1. CASE SendTimesOut(a)
  BY <1>1, SoundKept DEF SendTimesOut
<1>2. CASE AskTimesOut(a)
  <2> DEFINE l == client[ask[a].by].link
             f == Note("cancel", a)
  <2>1. /\ l \in Link /\ f \in Frame /\ f.type # "unregister" /\ link' = SendUp(l, f)
        /\ UNCHANGED <<sessions, client>> /\ ~Opening(l)
    BY <1>2, Shapes DEF AskTimesOut, Connected, Off, Asking, TypeOK, Note, Opening
  <2>2. link \in Links
    BY DEF TypeOK, Links
  <2> HIDE DEF l, f
  <2>3. CASE k = l
    <3> DEFINE q == link[k].up
    <3>1. Clear(q) => Clear(link'[k].up)
      <4>1. link'[k].up \in {q, Append(q, f)}
        BY <2>1, <2>2, <2>3, SendUpIs
      <4>2. q \in Seq(Frame)
        BY <2>2 DEF Links, LinkState
      <4> HIDE DEF q
      <4> QED BY <2>1, <4>1, <4>2, ClearIs
    <3> QED BY <2>1, <2>2, <2>3, <3>1, SendUpIs, SoundUsed
  <2>4. CASE k # l
    <3>1. link'[k] = link[k]
      BY <2>1, <2>4 DEF SendUp, TypeOK
    <3> QED BY <2>1, <3>1, SoundKept
  <2> QED BY <2>3, <2>4
<1> QED BY <1>1, <1>2

(* One whose session stays and which the broker has heard of already.      *)
LEMMA SoundKnown ==
    ASSUME LinksSound, NEW l \in Link, sessions[Owner(l)] = l, sessions'[Owner(l)] = l,
           link'[l].local = link[l].local, Clear(link[l].up) => Clear(link'[l].up)
    PROVE  LinkSound(l)'
  BY DEF LinksSound, LinkSound, Clear

LEMMA ReadClear ==
    ASSUME TypeOK, NEW l \in Link, UpRead(l), NEW k \in Link
    PROVE  Clear(link[k].up) => Clear(link'[k].up)
<1> DEFINE q == link[k].up
<1>1. q \in Seq(Frame)
  BY DEF TypeOK, LinkState
<1>2. link'[k].up = q \/ (q # <<>> /\ link'[k].up = Tail(q))
  BY DEF UpRead
<1> HIDE DEF q
<1>3. Clear(q) => Clear(link'[k].up)
  BY <1>1, <1>2, ClearIs
<1> QED BY <1>3 DEF q

LEMMA BrokerLinks ==
    ASSUME TypeOK, LinksSound, (\E l \in Link : BrokerReads(l)) \/ BrokerDies
    PROVE  LinksSound'
<1>1. ASSUME NEW l \in Link, Registers(l) PROVE LinksSound'
  <2>1. /\ sessions' = [sessions EXCEPT ![Owner(l)] = l] /\ UpRead(l) /\ UNCHANGED client
        /\ link' \in Links
    BY <1>1, RegistersIs
  <2>2. \A n \in Name : sessions'[n] # NoLink => Owner(sessions'[n]) = n
    BY <2>1 DEF LinksSound, TypeOK
  <2>3. sessions'[Owner(l)] = l
    BY <2>1, OwnerIs DEF TypeOK
  <2>4. ASSUME NEW k \in Link PROVE LinkSound(k)'
    <3>1. /\ link'[k].local = link[k].local
          /\ k # l => link'[k].down = link[k].down /\ link'[k].up = link[k].up
          /\ \/ link'[k].remote = link[k].remote /\ k # sessions[Owner(l)]
             \/ link'[k].remote = "ended" /\ k = sessions[Owner(l)]
      BY <1>1, <2>1, RegistersIs DEF UpRead
    <3>2. Clear(link[k].up) => Clear(link'[k].up)
      BY <2>1, ReadClear
    <3>3. CASE k = l
      BY <2>3, <3>1, <3>2, <3>3 DEF LinksSound, LinkSound, Clear
    <3>4. CASE k = sessions[Owner(l)]
      BY <3>1, <3>2, <3>4 DEF LinksSound, LinkSound, Clear
    <3>5. CASE k # l /\ k # sessions[Owner(l)]
      <4>1. link'[k] = link[k]
        <5>1. link[k] \in LinkState /\ link'[k] \in LinkState
          BY <2>1 DEF TypeOK, Links
        <5> QED BY <3>1, <3>5, <5>1 DEF LinkState
      <4>2. CASE Owner(k) = Owner(l)
        <5>1. sessions[Owner(k)] # k
          BY <3>5, <4>2
        <5> QED BY <2>1, <4>1, <5>1 DEF LinksSound, LinkSound, Opening
      <4>3. CASE Owner(k) # Owner(l)
        <5>1. sessions'[Owner(k)] = sessions[Owner(k)]
          BY <2>1, <4>3, OwnerIs DEF TypeOK
        <5> QED BY <2>1, <4>1, <5>1, SoundKept
      <4> QED BY <4>2, <4>3
    <3> QED BY <3>3, <3>4, <3>5
  <2> QED BY <2>2, <2>4 DEF LinksSound, Owner
<1>2. ASSUME NEW l \in Link, UpRead(l), ~Opening(l), EndsSame, UNCHANGED <<sessions, client>>,
             link' \in Links,
             \A k \in Link : k # l /\ sessions[Owner(k)] # k => link'[k].down = link[k].down
      PROVE  LinksSound'
  <2>1. ASSUME NEW k \in Link PROVE LinkSound(k)'
    <3>1. Clear(link[k].up) => Clear(link'[k].up)
      BY <1>2, ReadClear
    <3>2. CASE sessions[Owner(k)] = k
      BY <1>2, <3>1, <3>2, SoundKnown DEF EndsSame
    <3>3. CASE k = l
      BY <1>2, <3>1, <3>3, SoundUsed DEF EndsSame
    <3>4. CASE k # l /\ sessions[Owner(k)] # k
      <4>1. link'[k].up = link[k].up /\ link'[k].down = link[k].down
        BY <1>2, <3>4 DEF UpRead
      <4> QED BY <1>2, <3>4, <4>1 DEF LinksSound, LinkSound, Opening, EndsSame
    <3> QED BY <3>2, <3>3, <3>4
  <2> QED BY <1>2, <2>1 DEF LinksSound, Owner
<1>3. ASSUME NEW l \in Link, Sends(l) PROVE LinksSound'
  <2>1. PICK es \in SUBSET edges : Passes(l, es) \/ Refuses(l, es)
    BY <1>3 DEF Sends
  <2>2. Receives(l, "send") /\ UNCHANGED <<sessions, client>> /\ ~Opening(l)
    BY <1>3 DEF Sends, Receives, Opening, Note
  <2>3. UpRead(l) /\ EndsSame /\ link' \in Links
    BY <2>1, <2>2, PassIs, RefuseIs
  <2>4. ASSUME NEW k \in Link, k # l, sessions[Owner(k)] # k PROVE link'[k].down = link[k].down
    <3>1. CASE Refuses(l, es)
      BY <2>2, <2>4, <3>1, RefuseIs
    <3>2. CASE Passes(l, es)
      <4> DEFINE m == Head(link[l].up)
      <4>1. m \in Message /\ sessions[m.to] \in Link
        BY <2>2, <3>2, PassIs
      <4>2. Owner(sessions[m.to]) = m.to
        BY <4>1, BrokerAssumption DEF LinksSound, Message, Link
      <4> DEFINE message == [type |-> "message", id |-> m.id, from |-> Owner(l), replyTo |-> m.replyTo]
      <4>3. \A j \in Link : j # l /\ j # sessions[m.to] => link'[j].down = link[j].down
        <5>1. message = [type |-> "message", id |-> m.id, from |-> Owner(l), replyTo |-> m.replyTo]
          OBVIOUS
        <5> HIDE DEF message
        <5> QED BY <2>2, <3>2, <5>1, PassIs
      <4> QED BY <2>4, <4>2, <4>3
    <3> QED BY <2>1, <3>1, <3>2
  <2> QED BY <1>2, <2>2, <2>3, <2>4
<1>4. ASSUME NEW l \in Link, Cancels(l) PROVE LinksSound'
  <2>1. ReadOnly(l) /\ ~Opening(l) /\ UNCHANGED <<sessions, client>>
    BY <1>4, ReadOnlyIs DEF Cancels, Receives, Opening, Note
  <2> QED BY <1>2, <2>1 DEF ReadOnly
<1>5. ASSUME NEW l \in Link, Removes(l), link[l].local # "open", link'[l].local # "open",
             \A k \in Link : k # l => link'[k] = link[k], UNCHANGED client
      PROVE  LinksSound'
  <2>1. \A n \in Name : sessions'[n] = sessions[n] \/ (sessions[n] = l /\ sessions'[n] = NoLink)
    BY <1>5, RemovesIs
  <2>2. ASSUME NEW k \in Link PROVE LinkSound(k)'
    <3>1. CASE k = l
      BY <1>5, <3>1 DEF LinkSound
    <3>2. CASE k # l /\ sessions'[Owner(k)] = sessions[Owner(k)]
      BY <1>5, <3>2, SoundKept
    <3>3. CASE k # l /\ sessions[Owner(k)] = l
      BY <1>5, <3>3 DEF LinksSound, LinkSound, Opening
    <3> QED BY <2>1, <3>1, <3>2, <3>3, OwnerIs
  <2> QED BY <2>1, <2>2 DEF LinksSound, Owner
<1>6. ASSUME NEW l \in Link, Unregisters(l) PROVE LinksSound'
  <2>1. ReadOnly(l) /\ Removes(l) /\ UNCHANGED client
    BY <1>6, ReadOnlyIs DEF Unregisters
  <2>2. link[l].local # "open"
    <3>1. 1 \in DOMAIN link[l].up /\ link[l].up[1].type = "unregister"
      <4> DEFINE q == link[l].up
      <4>1. q \in Seq(Frame) /\ q # <<>> /\ Head(q).type = "unregister"
        BY <1>6 DEF Unregisters, Receives, TypeOK, LinkState
      <4> HIDE DEF q
      <4>2. 1 \in DOMAIN q /\ q[1].type = "unregister"
        BY <4>1, TailIs
      <4> QED BY <4>2 DEF q
    <3> QED BY <3>1 DEF LinksSound, LinkSound
  <2>3. \A k \in Link : k # l => link'[k] = link[k]
    <3>1. \A k \in Link : link[k] \in LinkState /\ link'[k] \in LinkState
      BY <2>1 DEF TypeOK, ReadOnly, Links
    <3>2. ASSUME NEW k \in Link, k # l
          PROVE  /\ link'[k].up = link[k].up /\ link'[k].down = link[k].down
                 /\ link'[k].local = link[k].local /\ link'[k].remote = link[k].remote
      BY <2>1, <3>2 DEF ReadOnly, UpRead, EndsSame
    <3>3. ASSUME NEW k \in Link, k # l PROVE link'[k] = link[k]
      <4> DEFINE r == link[k]
                 s == link'[k]
      <4>1. r \in LinkState /\ s \in LinkState
        BY <3>1
      <4>2. s.up = r.up /\ s.down = r.down /\ s.local = r.local /\ s.remote = r.remote
        BY <3>2, <3>3
      <4> HIDE DEF r, s
      <4>3. r = s
        BY <4>1, <4>2 DEF LinkState
      <4> QED BY <4>3 DEF r, s
    <3> QED BY <3>3
  <2>4. link'[l].local # "open"
    BY <2>1, <2>2 DEF ReadOnly, EndsSame
  <2> QED BY <1>5, <2>1, <2>2, <2>3, <2>4
<1>7. ASSUME NEW l \in Link, Closes(l) PROVE LinksSound'
  <2>1. /\ link[l].local # "open" /\ link'[l].local # "open"
        /\ \A k \in Link : k # l => link'[k] = link[k]
    BY <1>7, ClosesIs DEF Free
  <2> QED BY <1>5, <1>7, <2>1 DEF Closes
<1>8. CASE BrokerDies
  <2>1. \A k \in Link : LinkSound(k)'
    BY <1>8, BrokerDiesIs DEF LinkSound, Free
  <2> QED BY <1>8, <2>1, BrokerDiesIs DEF LinksSound
<1> QED BY <1>1, <1>3, <1>4, <1>6, <1>7, <1>8 DEF BrokerReads

---------------------------------------------------------------------------
(* What is under way about the asks.  Most steps put no ask on its way and *)
(* pass no message on.                                                     *)
IsAsk(f) == f.type = "send" /\ f.id # NoAsk

Shrunk(q, r) ==
    \E d \in {0, 1} : \A i \in DOMAIN r : IsAsk(r[i]) => i + d \in DOMAIN q /\ r[i] = q[i + d]

QuietUp(links) == \A k \in Link : Shrunk(link[k].up, links[k].up)

QuietDown(links) ==
    \A k \in Link : \A i \in DOMAIN links[k].down : links[k].down[i].type = "message" =>
        \E j \in DOMAIN link[k].down : links[k].down[i] = link[k].down[j]

Kept == \A a \in Ask :
    /\ ask'[a].replies = ask[a].replies
    /\ ask'[a].state = "unused" <=> ask[a].state = "unused"

Answers == \A a \in Ask : ask[a].state = "answered" => ask[a].from = {Asked[a]}

LEMMA ShrunkIs ==
    ASSUME NEW q \in Seq(Frame)
    PROVE  /\ Shrunk(q, q) /\ Shrunk(q, <<>>)
           /\ q # <<>> => Shrunk(q, Tail(q))
           /\ \A f \in Frame : ~IsAsk(f) => Shrunk(q, Append(q, f))
<1>1. Shrunk(q, q)
  BY DEF Shrunk
<1>2. Shrunk(q, <<>>)
  BY DEF Shrunk
<1>3. ASSUME q # <<>> PROVE Shrunk(q, Tail(q))
  <2>1. \A i \in DOMAIN Tail(q) : i + 1 \in DOMAIN q /\ Tail(q)[i] = q[i + 1]
    BY <1>3, TailIs
  <2> QED BY <2>1 DEF Shrunk
<1>4. ASSUME NEW f \in Frame, ~IsAsk(f) PROVE Shrunk(q, Append(q, f))
  <2> DEFINE r == Append(q, f)
  <2>1. /\ DOMAIN r = 1 .. Len(q) + 1 /\ DOMAIN q = 1 .. Len(q) /\ Len(q) \in Nat
        /\ r[Len(q) + 1] = f
        /\ \A i \in DOMAIN q : r[i] = q[i]
    BY AppendIs
  <2> HIDE DEF r
  <2>2. ASSUME NEW i \in DOMAIN r, IsAsk(r[i]) PROVE i + 0 \in DOMAIN q /\ r[i] = q[i + 0]
    <3>1. i \in DOMAIN q
      BY <1>4, <2>1, <2>2
    <3>2. i + 0 = i
      BY <2>1
    <3> QED BY <2>1, <3>1, <3>2
  <2> QED BY <2>2 DEF Shrunk, r
<1> QED BY <1>1, <1>2, <1>3, <1>4

LEMMA QuietIs ==
    ASSUME link \in Links
    PROVE  /\ QuietUp(link) /\ QuietDown(link)
           /\ \A l \in Link, f \in Frame : ~IsAsk(f) =>
                QuietUp(SendUp(l, f)) /\ QuietDown(SendUp(l, f))
<1>1. \A k \in Link : link[k].up \in Seq(Frame)
  BY DEF Links, LinkState
<1>2. QuietUp(link) /\ QuietDown(link)
  BY <1>1, ShrunkIs DEF QuietUp, QuietDown
<1>3. ASSUME NEW l \in Link, NEW f \in Frame, ~IsAsk(f)
      PROVE  QuietUp(SendUp(l, f)) /\ QuietDown(SendUp(l, f))
  <2>1. ASSUME NEW k \in Link PROVE Shrunk(link[k].up, SendUp(l, f)[k].up)
    <3> DEFINE q == link[k].up
               r == SendUp(l, f)[k].up
    <3>1. q \in Seq(Frame) /\ (r = q \/ r = Append(q, f))
      BY <1>1, SendUpIs
    <3> HIDE DEF q, r
    <3>2. Shrunk(q, r)
      BY <1>3, <3>1, ShrunkIs
    <3> QED BY <3>2 DEF q, r
  <2>2. \A k \in Link : SendUp(l, f)[k].down = link[k].down
    BY SendUpIs
  <2> QED BY <2>1, <2>2 DEF QuietUp, QuietDown
<1> QED BY <1>2, <1>3

LEMMA ReadQuiet ==
    ASSUME TypeOK, NEW l \in Link, UpRead(l)
    PROVE  QuietUp(link')
<1> SUFFICES ASSUME NEW k \in Link PROVE Shrunk(link[k].up, link'[k].up)
  BY DEF QuietUp
<1> DEFINE q == link[k].up
           r == link'[k].up
<1>1. q \in Seq(Frame)
  BY DEF TypeOK, LinkState
<1>2. r = q \/ (q # <<>> /\ r = Tail(q))
  BY DEF UpRead
<1> HIDE DEF q, r
<1>3. Shrunk(q, r)
  BY <1>1, <1>2, ShrunkIs
<1> QED BY <1>3 DEF q, r

(* Every ask under way after such a step was under way before.             *)
LEMMA QuietSending ==
    ASSUME QuietUp(link'), NEW l \in Link
    PROVE  \E d \in {0, 1} : \A a \in Ask : \A i \in DOMAIN link'[l].up :
               Sending(l, i, a)' =>
                   Sending(l, i + d, a) /\ link'[l].up[i] = link[l].up[i + d]
<1>1. PICK d \in {0, 1} : \A i \in DOMAIN link'[l].up :
          IsAsk(link'[l].up[i]) =>
              i + d \in DOMAIN link[l].up /\ link'[l].up[i] = link[l].up[i + d]
  BY DEF QuietUp, Shrunk
<1>2. ASSUME NEW a \in Ask, NEW i \in DOMAIN link'[l].up, Sending(l, i, a)'
      PROVE  Sending(l, i + d, a) /\ link'[l].up[i] = link[l].up[i + d]
  <2>1. IsAsk(link'[l].up[i])
    BY <1>2, BrokerAssumption DEF Sending, IsAsk
  <2> QED BY <1>1, <1>2, <2>1 DEF Sending
<1> QED BY <1>2

LEMMA QuietSound ==
    ASSUME TypeOK, TypeOK', AsksSound, QuietUp(link'), QuietDown(link'), edges' \subseteq edges, Answers'
    PROVE  AsksSound'
<1>1. ASSUME NEW l \in Link, NEW a \in Ask, NEW i \in DOMAIN link'[l].up, Sending(l, i, a)'
      PROVE  Asker[a] = Owner(l) /\ Asked[a] = link'[l].up[i].to
  <2>1. PICK d \in {0, 1} : Sending(l, i + d, a) /\ link'[l].up[i] = link[l].up[i + d]
    BY <1>1, QuietSending
  <2>2. i + d \in DOMAIN link[l].up
    BY <2>1 DEF Sending
  <2> QED BY <2>1, <2>2 DEF AsksSound
<1>2. ASSUME NEW l \in Link, NEW i \in DOMAIN link'[l].down,
             link'[l].down[i].type = "message", link'[l].down[i].replyTo # NoAsk
      PROVE  link'[l].down[i].from = Asked[link'[l].down[i].replyTo]
  BY <1>2 DEF QuietDown, AsksSound
<1>3. \A e \in edges' : e.from = Asker[e.id] /\ e.to = Asked[e.id]
  BY DEF AsksSound
<1> QED BY <1>1, <1>2, <1>3 DEF AsksSound, Answers, Owner

LEMMA QuietOnce ==
    ASSUME TypeOK, TypeOK', SentOnce, QuietUp(link'), edges' \subseteq edges, Kept
    PROVE  SentOnce'
<1> SUFFICES ASSUME NEW a \in Ask PROVE Once(a)'
  BY DEF SentOnce
<1>1. Once(a) /\ ask'[a].replies = ask[a].replies /\ (ask'[a].state = "unused" <=> ask[a].state = "unused")
  BY DEF SentOnce, Kept
<1>2. Edge(edges', a) \subseteq Edge(edges, a)
  BY DEF Edge
<1>3. ASSUME NEW l \in Link, NEW i \in DOMAIN link'[l].up, Sending(l, i, a)'
      PROVE  /\ ask[a].state # "unused" /\ ask[a].replies = 0 /\ Edge(edges, a) = {}
             /\ \A k \in Link : \A j \in DOMAIN link'[k].up : Sending(k, j, a)' => k = l /\ j = i
  <2>1. PICK d \in {0, 1} : \A n \in DOMAIN link'[l].up : Sending(l, n, a)' => Sending(l, n + d, a)
    BY QuietSending
  <2>2. Sending(l, i + d, a) /\ i + d \in DOMAIN link[l].up
    BY <1>3, <2>1 DEF Sending
  <2>3. ASSUME NEW k \in Link, NEW j \in DOMAIN link'[k].up, Sending(k, j, a)' PROVE k = l /\ j = i
    <3>1. \E e \in {0, 1} : Sending(k, j + e, a) /\ j + e \in DOMAIN link[k].up
      BY <2>3, QuietSending DEF Sending
    <3>2. k = l
      BY <1>1, <2>2, <3>1 DEF Once
    <3>3. Sending(l, j + d, a) /\ j + d \in DOMAIN link[l].up
      BY <2>1, <2>3, <3>2 DEF Sending
    <3>4. j + d = i + d
      BY <1>1, <2>2, <3>3 DEF Once
    <3>5. i \in Nat /\ j \in Nat
      <4>1. link'[l].up \in Seq(Frame)
        BY DEF TypeOK, LinkState
      <4> QED BY <4>1, <3>2
    <3> QED BY <3>2, <3>4, <3>5
  <2> QED BY <1>1, <2>2, <2>3 DEF Once
<1> QED BY <1>1, <1>2, <1>3 DEF Once

Quiet == QuietUp(link') /\ QuietDown(link') /\ edges' \subseteq edges /\ Kept

(* The steps of a client, but for the one that asks.                       *)
LEMMA ClientQuiet ==
    ASSUME TypeOK, AsksSound, NEW c \in Client,
           \/ \E l \in Link : Connects(c, l)
           \/ \E a \in Ask : Replies(c, a)
           \/ ClientReads(c) \/ Disconnects(c) \/ Dies(c)
    PROVE  Quiet /\ Answers' /\ UNCHANGED <<sessions, edges>>
<1> DEFINE l == client[c].link
<1>a. link \in Links /\ QuietUp(link) /\ QuietDown(link) /\ Answers
  BY QuietIs DEF TypeOK, Links, AsksSound, Answers
<1>b. \A k \in Link : link[k].up \in Seq(Frame)
  BY DEF TypeOK, LinkState
<1>1. ASSUME NEW new \in Link, Connects(c, new) PROVE Quiet /\ Answers' /\ UNCHANGED <<sessions, edges>>
  <2>1. /\ link'[new].up = <<Note("register", NoAsk)>> /\ link'[new].down = <<>>
        /\ \A k \in Link : k # new => link'[k] = link[k]
        /\ UNCHANGED <<sessions, edges, ask>>
    BY <1>1 DEF Connects, TypeOK
  <2>2. Shrunk(link[new].up, link'[new].up)
    BY <2>1 DEF Shrunk, IsAsk, Note
  <2>3. QuietUp(link') /\ QuietDown(link')
    BY <1>a, <2>1, <2>2 DEF QuietUp, QuietDown
  <2> QED BY <1>a, <2>1, <2>3 DEF Quiet, Kept, Answers
<1>2. ASSUME NEW a \in Ask, Replies(c, a) PROVE Quiet /\ Answers' /\ UNCHANGED <<sessions, edges>>
  <2> DEFINE f == [type |-> "send", id |-> NoAsk, to |-> Asker[a], replyTo |-> a]
  <2>1. f \in Frame /\ ~IsAsk(f)
    BY BrokerAssumption DEF Frame, Message, IsAsk
  <2>2. /\ l \in Link /\ link' = SendUp(l, f) /\ UNCHANGED <<sessions, edges, ask>>
    BY <1>2 DEF Replies, HasRoom, Connected, Off, TypeOK
  <2> HIDE DEF f, l
  <2>3. QuietUp(link') /\ QuietDown(link')
    BY <1>a, <2>1, <2>2, QuietIs
  <2> QED BY <1>a, <2>2, <2>3 DEF Quiet, Kept, Answers
<1>3. ASSUME l \in Link, link[l].down # <<>>, link' = Took(c)
      PROVE  QuietUp(link') /\ QuietDown(link')
  <2>1. /\ \A k \in Link : link'[k].up = link[k].up /\ (k # l => link'[k].down = link[k].down)
        /\ link'[l].down = Tail(link[l].down)
    BY <1>a, <1>3, TookIs
  <2>2. \A i \in DOMAIN link'[l].down : i + 1 \in DOMAIN link[l].down /\ link'[l].down[i] = link[l].down[i + 1]
    <3> DEFINE q == link[l].down
    <3>1. q \in Seq(News) /\ q # <<>> /\ link'[l].down = Tail(q)
      BY <1>3, <2>1 DEF TypeOK, LinkState
    <3> HIDE DEF q
    <3>2. \A i \in DOMAIN link'[l].down : i + 1 \in DOMAIN q /\ link'[l].down[i] = q[i + 1]
      BY <3>1, TailIs
    <3> QED BY <3>2 DEF q
  <2> HIDE DEF l
  <2>3. QuietDown(link')
    BY <2>1, <2>2 DEF QuietDown
  <2>4. QuietUp(link')
    BY <1>a, <2>1 DEF QuietUp
  <2> QED BY <2>3, <2>4
<1>4. ASSUME ReadsRegistered(c) \/ ReadsMessage(c) \/ ReadsDelivered(c) \/ ReadsRefused(c)
      PROVE  /\ QuietUp(link') /\ QuietDown(link') /\ UNCHANGED <<sessions, edges>>
             /\ l \in Link /\ link[l].down # <<>>
  <2>1. l \in Link /\ link[l].down # <<>> /\ link' = Took(c) /\ UNCHANGED <<sessions, edges>>
    BY <1>4 DEF ReadsRegistered, ReadsMessage, ReadsDelivered, ReadsRefused, Reads, TypeOK
  <2> HIDE DEF l
  <2> QED BY <1>3, <2>1
<1>5. ASSUME ReadsRegistered(c) PROVE Quiet /\ Answers' /\ UNCHANGED <<sessions, edges>>
  BY <1>a, <1>4, <1>5 DEF ReadsRegistered, Quiet, Kept, Answers
<1>6. ASSUME ReadsMessage(c) PROVE Quiet /\ Answers' /\ UNCHANGED <<sessions, edges>>
  <2> DEFINE m == Head(link[l].down)
             answered(a) == [Ended(a, "answered") EXCEPT !.from = {m.from}]
  <2>1. m.replyTo \in Ask => m.from = Asked[m.replyTo]
    <3> DEFINE q == link[l].down
    <3>1. q \in Seq(News) /\ q # <<>>
      BY <1>4, <1>6 DEF TypeOK, LinkState
    <3>2. q[1].type = "message" /\ 1 \in DOMAIN q /\ q[1] = m
      <4>1. Head(q).type = "message"
        BY <1>6 DEF ReadsMessage, Reads
      <4> HIDE DEF q
      <4>2. Head(q) = q[1] /\ 1 \in DOMAIN q
        BY <3>1, TailIs
      <4> QED BY <4>1, <4>2 DEF q
    <3> QED BY <1>4, <1>6, <3>2, BrokerAssumption DEF AsksSound
  <2>2. \A a \in Ask : /\ answered(a).state = "answered" /\ answered(a).replies = ask[a].replies
                       /\ answered(a).from = {m.from}
    BY DEF Ended, NewAsk
  <2>3. \A a \in Ask : \/ ask'[a] = ask[a]
                       \/ a = m.replyTo /\ Asking(a) /\ ask'[a] = answered(a)
    BY <1>6 DEF ReadsMessage
  <2> HIDE DEF m, answered
  <2>4. Kept /\ Answers'
    BY <1>a, <2>1, <2>2, <2>3 DEF Kept, Answers, Asking
  <2> QED BY <1>4, <1>6, <2>4 DEF Quiet
<1>7. ASSUME ReadsDelivered(c) \/ ReadsRefused(c) PROVE Quiet /\ Answers' /\ UNCHANGED <<sessions, edges>>
  <2> DEFINE a == Head(link[l].down).id
             told(x) == [ask[x] EXCEPT !.sent = TRUE]
  <2>1. \A x \in Ask : /\ told(x).state = ask[x].state /\ told(x).replies = ask[x].replies
                       /\ told(x).from = ask[x].from
    BY Records DEF TypeOK
  <2>2. \A x \in Ask : \/ ask'[x] = ask[x]
                       \/ ask'[x] = told(x)
                       \/ Asking(x) /\ ask'[x] = Ended(x, "failed")
    <3>1. \/ ask' = ask
          \/ ask' = [ask EXCEPT ![a].sent = TRUE]
          \/ Asking(a) /\ ask' = [ask EXCEPT ![a] = Ended(a, "failed")]
      BY <1>7 DEF ReadsDelivered, ReadsRefused
    <3> HIDE DEF a
    <3>2. CASE ask' = [ask EXCEPT ![a].sent = TRUE]
      BY <3>2 DEF TypeOK
    <3>3. CASE Asking(a) /\ ask' = [ask EXCEPT ![a] = Ended(a, "failed")]
      BY <3>3 DEF TypeOK
    <3> QED BY <3>1, <3>2, <3>3
  <2>3. \A x \in Ask : Ended(x, "failed").state = "failed" /\ Ended(x, "failed").replies = ask[x].replies
    BY EndedIs
  <2> HIDE DEF told
  <2>4. Kept /\ Answers'
    BY <1>a, <2>1, <2>2, <2>3 DEF Kept, Answers, Asking
  <2> QED BY <1>4, <1>7, <2>4 DEF Quiet
<1>8. ASSUME ReadsEnd(c) \/ Dies(c) \/ Disconnects(c) PROVE Quiet /\ Answers' /\ UNCHANGED <<sessions, edges>>
  <2>1. UNCHANGED <<sessions, edges>> /\ Leaves(c) /\ l \in Link
    BY <1>8 DEF ReadsEnd, Dies, Disconnects, Connected, Off, TypeOK
  <2>2. Kept /\ Answers'
    BY <1>a, <2>1, LeavesIs DEF Kept, Answers
  <2>3. QuietUp(link') /\ QuietDown(link')
    <3>1. CASE ReadsEnd(c)
      <4>1. \A k \in Link : link'[k].up = link[k].up /\ link'[k].down = link[k].down
        BY <3>1 DEF ReadsEnd, TypeOK, LinkState
      <4> QED BY <1>a, <4>1 DEF QuietUp, QuietDown
    <3>2. ASSUME NEW links \in Links, QuietUp(links), QuietDown(links), link' = Shut(links, l)
          PROVE  QuietUp(link') /\ QuietDown(link')
      <4> HIDE DEF l
      <4>1. /\ \A k \in Link : link'[k].up = links[k].up /\ (k # l => link'[k].down = links[k].down)
            /\ link'[l].down = <<>>
        BY <2>1, <3>2, ShutIs
      <4> QED BY <3>2, <4>1 DEF QuietUp, QuietDown
    <3>3. CASE Dies(c)
      BY <1>a, <3>2, <3>3 DEF Dies
    <3>4. CASE Disconnects(c)
      <4> DEFINE f == Note("unregister", NoAsk)
      <4>1. f \in Frame /\ ~IsAsk(f)
        BY Shapes DEF IsAsk, Note
      <4>2. link' = Shut(SendUp(l, f), l)
        BY <3>4 DEF Disconnects
      <4> HIDE DEF l, f
      <4>3. SendUp(l, f) \in Links /\ QuietUp(SendUp(l, f)) /\ QuietDown(SendUp(l, f))
        BY <1>a, <2>1, <4>1, SendUpIs, QuietIs
      <4> QED BY <3>2, <4>2, <4>3
    <3> QED BY <1>8, <3>1, <3>3, <3>4
  <2> QED BY <2>1, <2>2, <2>3 DEF Quiet
<1> QED BY <1>1, <1>2, <1>5, <1>6, <1>7, <1>8 DEF ClientReads

LEMMA TimeQuiet ==
    ASSUME TypeOK, AsksSound, NEW a \in Ask, AskTimesOut(a) \/ SendTimesOut(a)
    PROVE  Quiet /\ Answers' /\ UNCHANGED <<sessions, edges>>
<1>1. link \in Links /\ QuietUp(link) /\ QuietDown(link) /\ Answers
  BY QuietIs DEF TypeOK, Links, AsksSound, Answers
<1>2. Kept /\ Answers' /\ UNCHANGED <<sessions, edges>>
  BY <1>1, EndedIs DEF AskTimesOut, SendTimesOut, Asking, Kept, Answers, TypeOK
<1>3. QuietUp(link') /\ QuietDown(link')
  <2>1. CASE SendTimesOut(a)
    BY <1>1, <2>1 DEF SendTimesOut, QuietUp, QuietDown
  <2>2. CASE AskTimesOut(a)
    <3> DEFINE l == client[ask[a].by].link
               f == Note("cancel", a)
    <3>1. l \in Link /\ f \in Frame /\ ~IsAsk(f) /\ link' = SendUp(l, f)
      BY <2>2, Shapes DEF AskTimesOut, Connected, Off, Asking, TypeOK, Note, IsAsk
    <3> HIDE DEF l, f
    <3> QED BY <1>1, <3>1, QuietIs
  <2> QED BY <2>1, <2>2
<1> QED BY <1>2, <1>3 DEF Quiet

(* The steps of the broker, but for a message that is passed on.           *)
LEMMA BrokerQuiet ==
    ASSUME TypeOK, AsksSound,
           \/ \E l \in Link : Registers(l) \/ Cancels(l) \/ Unregisters(l) \/ Closes(l)
           \/ BrokerDies
           \/ \E l \in Link, es \in SUBSET edges : Receives(l, "send") /\ Refuses(l, es)
    PROVE  Quiet /\ Answers'
<1>1. link \in Links /\ QuietUp(link) /\ QuietDown(link) /\ Answers
  BY QuietIs DEF TypeOK, Links, AsksSound, Answers
<1>2. ASSUME UNCHANGED ask PROVE Kept /\ Answers'
  BY <1>1, <1>2 DEF Kept, Answers
<1>3. ASSUME NEW l \in Link, UpRead(l),
             \A k \in Link : \A i \in DOMAIN link'[k].down :
                \/ i \in DOMAIN link[k].down /\ link'[k].down[i] = link[k].down[i]
                \/ link'[k].down[i].type # "message"
      PROVE  QuietUp(link') /\ QuietDown(link')
  <2>1. QuietDown(link')
    BY <1>3 DEF QuietDown
  <2> QED BY <1>3, <2>1, ReadQuiet
<1>4. ASSUME NEW l \in Link, Registers(l) PROVE Quiet /\ Answers'
  BY <1>2, <1>3, <1>4, RegistersIs DEF Quiet
<1>5. ASSUME NEW l \in Link, Cancels(l) \/ Unregisters(l) PROVE Quiet /\ Answers'
  <2>1. edges' \subseteq edges /\ UNCHANGED ask
    BY <1>5, RemovesIs DEF Cancels, Unregisters
  <2> QED BY <1>2, <1>3, <1>5, <2>1, ReadOnlyIs DEF ReadOnly, Quiet
<1>6. ASSUME NEW l \in Link, Closes(l) PROVE Quiet /\ Answers'
  <2>1. edges' \subseteq edges /\ UNCHANGED ask
    BY <1>6, RemovesIs DEF Closes
  <2>2. link'[l].up = <<>> /\ link'[l].down = <<>> /\ \A k \in Link : k # l => link'[k] = link[k]
    BY <1>6, ClosesIs DEF Free
  <2>3. QuietUp(link') /\ QuietDown(link')
    BY <1>1, <2>2 DEF QuietUp, QuietDown, Shrunk
  <2> QED BY <1>2, <2>1, <2>3 DEF Quiet
<1>7. ASSUME BrokerDies PROVE Quiet /\ Answers'
  <2>1. edges' \subseteq edges /\ UNCHANGED ask
    BY <1>7, BrokerDiesIs
  <2>2. \A k \in Link : link'[k].up = <<>> /\ link'[k].down \in {<<>>, link[k].down}
    BY <1>7, BrokerDiesIs DEF Free
  <2>3. QuietUp(link') /\ QuietDown(link')
    BY <1>1, <2>2 DEF QuietUp, QuietDown, Shrunk
  <2> QED BY <1>2, <2>1, <2>3 DEF Quiet
<1>8. ASSUME NEW l \in Link, NEW es \in SUBSET edges, Receives(l, "send"), Refuses(l, es)
      PROVE  Quiet /\ Answers'
  <2>1. edges' \subseteq edges /\ UNCHANGED ask
    BY <1>8 DEF Refuses
  <2> QED BY <1>2, <1>3, <1>8, <2>1, RefuseIs DEF Quiet
<1> QED BY <1>4, <1>5, <1>6, <1>7, <1>8

(* An ask is sent: it has no edge, and no reply, and is nowhere else.      *)
LEMMA AskStep ==
    ASSUME TypeOK, TypeOK', AsksSound, SentOnce,
           NEW c \in Client, NEW a \in Ask, NEW re \in Ask \cup {NoAsk}, Asks(c, a, re)
    PROVE  AsksSound' /\ SentOnce'
<1> DEFINE l == client[c].link
           f == [type |-> "send", id |-> a, to |-> Asked[a], replyTo |-> re]
           q == link[l].up
           r == link'[l].up
<1>1. /\ l \in Link /\ Owner(l) = NameOf[c] /\ link' = SendUp(l, f)
      /\ ask[a].state = "unused" /\ Asker[a] = NameOf[c] /\ UNCHANGED <<sessions, edges, client>>
  BY DEF Asks, HasRoom, Connected, Off, TypeOK, Owner
<1>2. ask'[a].state = "waiting" /\ ask'[a].replies = 0 /\ \A b \in Ask : b # a => ask'[b] = ask[b]
  BY DEF Asks, TypeOK
<1>3. link \in Links /\ f \in Frame
  BY BrokerAssumption DEF TypeOK, Links, Frame, Message
<1>4. f.type = "send" /\ f.id = a /\ f.to = Asked[a]
  OBVIOUS
<1> HIDE DEF f, l
<1>5. /\ \A k \in Link : k # l => link'[k].up = link[k].up
      /\ \A k \in Link : link'[k].down = link[k].down
      /\ r = q \/ r = Append(q, f)
  BY <1>1, <1>3, SendUpIs
<1>6. q \in Seq(Frame) /\ r \in Seq(Frame)
  BY <1>1 DEF TypeOK, LinkState
<1> HIDE DEF q, r
<1>7. \A i \in DOMAIN r : \/ i \in DOMAIN q /\ r[i] = q[i]
                          \/ i = Len(q) + 1 /\ r[i] = f /\ i \notin DOMAIN q
  <2>1. CASE r = q
    BY <2>1
  <2>2. CASE r = Append(q, f)
    <3>1. /\ DOMAIN Append(q, f) = 1 .. Len(q) + 1 /\ DOMAIN q = 1 .. Len(q) /\ Len(q) \in Nat
          /\ Append(q, f)[Len(q) + 1] = f
          /\ \A i \in DOMAIN q : Append(q, f)[i] = q[i]
      BY <1>3, <1>6, AppendIs
    <3> QED BY <2>2, <3>1
  <2> QED BY <1>5, <2>1, <2>2
<1>8. ASSUME NEW k \in Link, NEW i \in DOMAIN link'[k].up, NEW b \in Ask, Sending(k, i, b)'
      PROVE  \/ i \in DOMAIN link[k].up /\ Sending(k, i, b) /\ link'[k].up[i] = link[k].up[i]
             \/ b = a /\ k = l /\ i = Len(q) + 1 /\ link'[k].up[i] = f
  <2>1. CASE k # l
    BY <1>5, <1>8, <2>1 DEF Sending
  <2>2. CASE k = l
    <3>1. /\ i \in DOMAIN r
          /\ link'[k].up[i] = r[i] /\ r[i].type = "send" /\ r[i].id = b
      BY <1>8, <2>2 DEF Sending, r
    <3>2. CASE i \in DOMAIN q /\ r[i] = q[i]
      BY <2>2, <3>1, <3>2 DEF Sending, q
    <3>3. CASE i = Len(q) + 1 /\ r[i] = f
      BY <1>4, <2>2, <3>1, <3>3
    <3> QED BY <1>7, <3>1, <3>2, <3>3
  <2> QED BY <2>1, <2>2
<1>9. /\ \A k \in Link : \A i \in DOMAIN link[k].up : ~Sending(k, i, a)
      /\ Edge(edges, a) = {}
  BY <1>1 DEF SentOnce, Once
<1>10. AsksSound'
  <2>1. ASSUME NEW k \in Link, NEW b \in Ask, NEW i \in DOMAIN link'[k].up, Sending(k, i, b)'
        PROVE  Asker[b] = Owner(k) /\ Asked[b] = link'[k].up[i].to
    BY <1>1, <1>4, <1>8, <2>1 DEF AsksSound
  <2>2. \A b \in Ask : ask'[b].state = "answered" => ask'[b].from = {Asked[b]}
    BY <1>2 DEF AsksSound
  <2>3. \A k \in Link : \A i \in DOMAIN link'[k].down :
          link'[k].down[i].type = "message" /\ link'[k].down[i].replyTo # NoAsk =>
             link'[k].down[i].from = Asked[link'[k].down[i].replyTo]
    BY <1>5 DEF AsksSound
  <2>4. \A e \in edges' : e.from = Asker[e.id] /\ e.to = Asked[e.id]
    BY <1>1 DEF AsksSound
  <2> QED BY <2>1, <2>2, <2>3, <2>4 DEF AsksSound, Owner
<1>11. ASSUME NEW b \in Ask PROVE Once(b)'
  <2>1. CASE b = a
    <3>1. ASSUME NEW k \in Link, NEW i \in DOMAIN link'[k].up, Sending(k, i, b)'
          PROVE  k = l /\ i = Len(q) + 1
      BY <1>8, <1>9, <2>1, <3>1
    <3>2. Edge(edges', b) = {}
      BY <1>1, <1>9, <2>1
    <3> QED BY <1>2, <2>1, <3>1, <3>2 DEF Once
  <2>2. CASE b # a
    <3>1. ASSUME NEW k \in Link, NEW i \in DOMAIN link'[k].up, Sending(k, i, b)'
          PROVE  i \in DOMAIN link[k].up /\ Sending(k, i, b)
      BY <1>8, <2>2, <3>1
    <3>2. Edge(edges', b) = Edge(edges, b) /\ ask'[b] = ask[b]
      BY <1>1, <1>2, <2>2
    <3> QED BY <3>1, <3>2 DEF SentOnce, Once
  <2> QED BY <2>1, <2>2
<1> QED BY <1>10, <1>11 DEF SentOnce

(* A message is passed on: the edge of the ask it answers goes, and one    *)
(* for the ask it is comes.                                                *)
LEMMA PassStep ==
    ASSUME TypeOK, TypeOK', AsksSound, SentOnce, EdgesSound,
           NEW l \in Link, Receives(l, "send"), NEW es \in SUBSET edges, Passes(l, es),
           UNCHANGED <<sessions, client>>
    PROVE  AsksSound' /\ SentOnce' /\ EdgesSound'
<1> DEFINE m == Head(link[l].up)
           message == [type |-> "message", id |-> m.id, from |-> Owner(l), replyTo |-> m.replyTo]
           new == [id |-> m.id, from |-> Owner(l), to |-> m.to]
<1>1. /\ m \in Message /\ sessions[m.to] \in Link /\ UpRead(l)
      /\ \A k \in Link : \A i \in DOMAIN link'[k].down :
           \/ i \in DOMAIN link[k].down /\ link'[k].down[i] = link[k].down[i]
           \/ link'[k].down[i].type # "message"
           \/ link'[k].down[i] = message
  <2>1. message = [type |-> "message", id |-> m.id, from |-> Owner(l), replyTo |-> m.replyTo]
    OBVIOUS
  <2> HIDE DEF message
  <2> QED BY <2>1, PassIs
<1>2. message.from = Owner(l) /\ message.replyTo = m.replyTo
      /\ new.id = m.id /\ new.from = Owner(l) /\ new.to = m.to
  OBVIOUS
<1>3. /\ sessions[Owner(l)] = l
      /\ m.replyTo # NoAsk => \E e \in Edge(es, m.replyTo) : e.to = Owner(l)
      /\ m.id # NoAsk => ~\E e \in es : e.id # m.replyTo /\ e.from = m.to /\ e.to = Owner(l)
  BY DEF Passes, Accepts, ReplyMatches, Mutual
<1>4. \A e \in edges' : \/ e \in es /\ e.id # m.replyTo
                        \/ e = new /\ m.id # NoAsk
  BY DEF Passes, Remaining, Edge
<1>5. /\ m.id \in Ask \cup {NoAsk} /\ m.replyTo \in Ask \cup {NoAsk}
  BY <1>1 DEF Message
<1>6. 1 \in DOMAIN link[l].up /\ link[l].up[1] = m /\ m.type = "send"
  <2> DEFINE q == link[l].up
  <2>1. q \in Seq(Frame) /\ q # <<>>
    BY DEF Receives, TypeOK, LinkState
  <2> HIDE DEF q
  <2>2. 1 \in DOMAIN q /\ q[1] = Head(q)
    BY <2>1, TailIs
  <2> QED BY <1>1, <2>2 DEF q, Message
<1>7. m.id # NoAsk => Sending(l, 1, m.id) /\ Asker[m.id] = Owner(l) /\ Asked[m.id] = m.to
  BY <1>5, <1>6 DEF Sending, AsksSound
<1>8. /\ \A a \in Ask : ask'[a].state = ask[a].state /\ ask'[a].from = ask[a].from
      /\ \A a \in Ask : ask'[a].replies = IF a = m.replyTo THEN ask[a].replies + 1 ELSE ask[a].replies
  <2>1. CASE m.replyTo = NoAsk
    BY <2>1, BrokerAssumption DEF Passes
  <2>2. CASE m.replyTo # NoAsk
    <3>1. ask' = [ask EXCEPT ![m.replyTo].replies = @ + 1]
      BY <2>2 DEF Passes
    <3> HIDE DEF m
    <3>2. \A a \in Ask : ask[a] \in AskState
      BY DEF TypeOK
    <3>3. \A a \in Ask : \/ a # m.replyTo /\ ask'[a] = ask[a]
                         \/ a = m.replyTo /\ ask'[a] = [ask[a] EXCEPT !.replies = @ + 1]
      BY <3>1 DEF TypeOK
    <3>4. ASSUME NEW r \in AskState
          PROVE  LET s == [r EXCEPT !.replies = @ + 1]
                 IN  s.state = r.state /\ s.from = r.from /\ s.replies = r.replies + 1
      BY DEF AskState
    <3> QED BY <3>2, <3>3, <3>4
  <2> QED BY <2>1, <2>2
<1> HIDE DEF m, message, new
<1>9. AsksSound'
  <2>1. ASSUME NEW k \in Link, NEW a \in Ask, NEW i \in DOMAIN link'[k].up, Sending(k, i, a)'
        PROVE  Asker[a] = Owner(k) /\ Asked[a] = link'[k].up[i].to
    <3>1. PICK d \in {0, 1} : Sending(k, i + d, a) /\ link'[k].up[i] = link[k].up[i + d]
      BY <1>1, <2>1, ReadQuiet, QuietSending
    <3>2. i + d \in DOMAIN link[k].up
      BY <3>1 DEF Sending
    <3> QED BY <3>1, <3>2 DEF AsksSound
  <2>2. ASSUME NEW k \in Link, NEW i \in DOMAIN link'[k].down,
               link'[k].down[i].type = "message", link'[k].down[i].replyTo # NoAsk
        PROVE  link'[k].down[i].from = Asked[link'[k].down[i].replyTo]
    <3>1. CASE link'[k].down[i] = message
      <4>1. PICK e \in Edge(es, m.replyTo) : e.to = Owner(l)
        BY <1>2, <1>3, <2>2, <3>1
      <4> QED BY <1>2, <3>1, <4>1 DEF AsksSound, Edge
    <3> QED BY <1>1, <2>2, <3>1 DEF AsksSound
  <2>3. \A e \in edges' : e.from = Asker[e.id] /\ e.to = Asked[e.id]
    BY <1>2, <1>4, <1>7 DEF AsksSound
  <2>4. \A a \in Ask : ask'[a].state = "answered" => ask'[a].from = {Asked[a]}
    BY <1>8 DEF AsksSound
  <2> QED BY <2>1, <2>2, <2>3, <2>4 DEF AsksSound, Owner
<1>10. ASSUME NEW a \in Ask PROVE Once(a)'
  <2>1. Once(a)
    BY DEF SentOnce
  <2>2. ASSUME NEW k \in Link, NEW i \in DOMAIN link'[k].up, Sending(k, i, a)'
        PROVE  \E d \in {0, 1} : i + d \in DOMAIN link[k].up /\ Sending(k, i + d, a)
    BY <1>1, <2>2, ReadQuiet, QuietSending DEF Sending
  <2>3. CASE a = m.replyTo
    <3>1. PICK e \in Edge(es, a) : e.to = Owner(l)
      BY <1>3, <2>3, BrokerAssumption
    <3>2. Edge(edges, a) # {}
      BY <3>1 DEF Edge
    <3>3. ask[a].state # "unused" /\ ask[a].replies = 0
          /\ \A k \in Link : \A i \in DOMAIN link[k].up : ~Sending(k, i, a)
      BY <2>1, <3>2 DEF Once
    <3>4. m.id # a
      BY <1>6, <1>7, <3>3, BrokerAssumption
    <3>5. Edge(edges', a) = {}
      BY <1>2, <1>4, <2>3, <3>4 DEF Edge
    <3>6. \A k \in Link : \A i \in DOMAIN link'[k].up : ~Sending(k, i, a)'
      BY <2>2, <3>3
    <3>7. ask'[a].replies = 1
      BY <1>8, <2>3, <3>3
    <3> QED BY <1>8, <3>3, <3>5, <3>6, <3>7 DEF Once
  <2>4. CASE a = m.id /\ a # m.replyTo
    <3>1. ask[a].state # "unused" /\ ask[a].replies = 0
          /\ \A k \in Link : \A i \in DOMAIN link[k].up : Sending(k, i, a) => k = l /\ i = 1
      BY <1>6, <1>7, <2>1, <2>4, BrokerAssumption DEF Once
    <3>2. ASSUME NEW k \in Link, NEW i \in DOMAIN link'[k].up PROVE ~Sending(k, i, a)'
      <4>1. CASE k # l
        BY <1>1, <3>1, <3>2, <4>1 DEF UpRead, Sending
      <4>2. CASE k = l
        <5> DEFINE q == link[l].up
        <5>1. q \in Seq(Frame) /\ q # <<>> /\ link'[l].up = Tail(q)
          BY <1>1 DEF UpRead, TypeOK, LinkState
        <5> HIDE DEF q
        <5>2. i + 1 \in DOMAIN q /\ link'[l].up[i] = q[i + 1] /\ i \in Nat /\ 1 \in DOMAIN q
          BY <3>2, <4>2, <5>1, TailIs
        <5>3. i \in 1 .. Len(Tail(q)) /\ Len(Tail(q)) \in Nat
          BY <3>2, <4>2, <5>1
        <5>4. Sending(k, i, a)' => Sending(l, i + 1, a)
          BY <4>2, <5>2 DEF Sending, q
        <5>5. i + 1 # 1
          BY <5>3
        <5> QED BY <3>1, <5>2, <5>4, <5>5 DEF q
      <4> QED BY <4>1, <4>2
    <3> QED BY <1>8, <2>4, <3>1, <3>2 DEF Once
  <2>5. CASE a # m.id /\ a # m.replyTo
    <3>1. ask'[a].state = ask[a].state /\ ask'[a].replies = ask[a].replies
      BY <1>8, <2>5
    <3>2. Edge(edges', a) \subseteq Edge(edges, a)
      BY <1>2, <1>4, <2>5 DEF Edge
    <3>3. ASSUME NEW k \in Link, NEW i \in DOMAIN link'[k].up, Sending(k, i, a)'
          PROVE  /\ ask[a].state # "unused" /\ ask[a].replies = 0 /\ Edge(edges, a) = {}
                 /\ \A n \in Link : \A j \in DOMAIN link'[n].up : Sending(n, j, a)' => n = k /\ j = i
      <4>1. PICK d \in {0, 1} : \A j \in DOMAIN link'[k].up :
                Sending(k, j, a)' => Sending(k, j + d, a)
        BY <1>1, ReadQuiet, QuietSending
      <4>2. Sending(k, i + d, a) /\ i + d \in DOMAIN link[k].up
        BY <3>3, <4>1 DEF Sending
      <4>3. ASSUME NEW n \in Link, NEW j \in DOMAIN link'[n].up, Sending(n, j, a)'
            PROVE  n = k /\ j = i
        <5>1. n = k
          BY <2>1, <2>2, <4>2, <4>3 DEF Once
        <5>2. Sending(k, j + d, a) /\ j + d \in DOMAIN link[k].up
          BY <4>1, <4>3, <5>1 DEF Sending
        <5>3. j + d = i + d
          BY <2>1, <4>2, <5>2 DEF Once
        <5>4. i \in Nat /\ j \in Nat
          <6>1. link'[k].up \in Seq(Frame)
            BY DEF TypeOK, LinkState
          <6> QED BY <6>1, <5>1
        <5> QED BY <5>1, <5>3, <5>4
      <4> QED BY <2>1, <4>2, <4>3 DEF Once
    <3> QED BY <2>1, <3>1, <3>2, <3>3 DEF Once
  <2> QED BY <2>3, <2>4, <2>5
<1>11. EdgesSound'
  <2>1. sessions[Owner(l)] # NoLink /\ sessions[m.to] # NoLink
    BY <1>1, <1>3, BrokerAssumption DEF Link
  <2>2. m.id # NoAsk => Owner(l) # m.to
    BY <1>5, <1>7, BrokerAssumption
  <2>3. ASSUME NEW e \in edges' PROVE sessions'[e.from] # NoLink /\ sessions'[e.to] # NoLink
    BY <1>2, <1>4, <2>1 DEF EdgesSound
  <2>4. ASSUME NEW e \in edges', NEW f \in edges' PROVE ~(f.from = e.to /\ f.to = e.from)
    BY <1>2, <1>3, <1>4, <2>2 DEF EdgesSound
  <2> QED BY <2>3, <2>4 DEF EdgesSound
<1> QED BY <1>9, <1>10, <1>11 DEF SentOnce

LEMMA BrokerEdges ==
    ASSUME TypeOK, LinksSound, EdgesSound,
           \/ \E l \in Link : Registers(l) \/ Cancels(l) \/ Unregisters(l) \/ Closes(l)
           \/ BrokerDies
           \/ \E l \in Link, es \in SUBSET edges : Refuses(l, es) /\ UNCHANGED sessions
    PROVE  EdgesSound'
<1>1. ASSUME NEW l \in Link, Registers(l) PROVE EdgesSound'
  BY <1>1, RegistersIs, BrokerAssumption DEF EdgesSound, TypeOK, Link
<1>2. ASSUME NEW l \in Link, Removes(l) PROVE EdgesSound'
  BY <1>2, RemovesIs DEF EdgesSound, TypeOK
<1>3. ASSUME edges' \subseteq edges, UNCHANGED sessions PROVE EdgesSound'
  BY <1>3 DEF EdgesSound
<1>4. CASE BrokerDies
  BY <1>4 DEF BrokerDies, EdgesSound
<1> QED BY <1>1, <1>2, <1>3, <1>4 DEF Cancels, Unregisters, Closes, Refuses

---------------------------------------------------------------------------
LEMMA InitHolds == Init => BrokerInductive
<1> SUFFICES ASSUME Init PROVE BrokerInductive
  OBVIOUS
<1>1. TypeOK
  <2>1. NewAsk \in AskState
    BY DEF NewAsk, AskState
  <2> QED BY <2>1, FreeIs DEF Init, TypeOK, Off, NewAsk
<1>2. LinksSound
  BY DEF Init, LinksSound, LinkSound, Free
<1>3. AsksSound /\ EdgesSound
  BY DEF Init, AsksSound, EdgesSound, Free, NewAsk, Sending
<1>4. SentOnce
  BY DEF Init, SentOnce, Once, Free, NewAsk, Edge, Sending
<1> QED BY <1>1, <1>2, <1>3, <1>4 DEF BrokerInductive

LEMMA StepTypes == TypeOK /\ [Next]_vars => TypeOK'
<1> SUFFICES ASSUME TypeOK, [Next]_vars PROVE TypeOK'
  OBVIOUS
<1>1. CASE UNCHANGED vars
  BY <1>1 DEF vars, TypeOK
<1>2. CASE Next
  BY <1>2, ClientTypes, TimeTypes, BrokerTypes DEF Next
<1> QED BY <1>1, <1>2

LEMMA StepLinks == TypeOK /\ LinksSound /\ [Next]_vars => LinksSound'
<1> SUFFICES ASSUME TypeOK, LinksSound, [Next]_vars PROVE LinksSound'
  OBVIOUS
<1>1. CASE UNCHANGED vars
  BY <1>1 DEF vars, LinksSound, LinkSound, Opening, Owner
<1>2. CASE Next
  BY <1>2, ClientLinks, TimeLinks, BrokerLinks DEF Next
<1> QED BY <1>1, <1>2

LEMMA StepAsks == BrokerInductive /\ [Next]_vars => AsksSound' /\ EdgesSound' /\ SentOnce'
<1> SUFFICES ASSUME BrokerInductive, [Next]_vars PROVE AsksSound' /\ EdgesSound' /\ SentOnce'
  OBVIOUS
<1>1. TypeOK /\ TypeOK' /\ LinksSound /\ AsksSound /\ EdgesSound /\ SentOnce
  BY StepTypes DEF BrokerInductive
<1>2. ASSUME Quiet, Answers' PROVE AsksSound' /\ SentOnce'
  BY <1>1, <1>2, QuietSound, QuietOnce DEF Quiet
<1>3. ASSUME Quiet, Answers', UNCHANGED <<sessions, edges>> PROVE AsksSound' /\ EdgesSound' /\ SentOnce'
  BY <1>1, <1>2, <1>3 DEF EdgesSound
<1>4. CASE UNCHANGED vars
  BY <1>1, <1>4 DEF vars, AsksSound, EdgesSound, SentOnce, Once, Sending, Owner
<1>5. ASSUME NEW c \in Client,
             \/ \E l \in Link : Connects(c, l)
             \/ \E a \in Ask : Replies(c, a)
             \/ ClientReads(c) \/ Disconnects(c) \/ Dies(c)
      PROVE  AsksSound' /\ EdgesSound' /\ SentOnce'
  BY <1>1, <1>3, <1>5, ClientQuiet
<1>6. ASSUME NEW c \in Client, NEW a \in Ask, NEW re \in Ask \cup {NoAsk}, Asks(c, a, re)
      PROVE  AsksSound' /\ EdgesSound' /\ SentOnce'
  <2>1. EdgesSound'
    BY <1>1, <1>6 DEF Asks, EdgesSound
  <2> QED BY <1>1, <1>6, <2>1, AskStep
<1>7. ASSUME NEW a \in Ask, AskTimesOut(a) \/ SendTimesOut(a)
      PROVE  AsksSound' /\ EdgesSound' /\ SentOnce'
  BY <1>1, <1>3, <1>7, TimeQuiet
<1>8. ASSUME NEW l \in Link, Registers(l) \/ Cancels(l) \/ Unregisters(l) \/ Closes(l)
      PROVE  AsksSound' /\ EdgesSound' /\ SentOnce'
  BY <1>1, <1>2, <1>8, BrokerQuiet, BrokerEdges
<1>9. CASE BrokerDies
  BY <1>1, <1>2, <1>9, BrokerQuiet, BrokerEdges
<1>10. ASSUME NEW l \in Link, Sends(l) PROVE AsksSound' /\ EdgesSound' /\ SentOnce'
  <2>1. PICK es \in SUBSET edges : Passes(l, es) \/ Refuses(l, es)
    BY <1>10 DEF Sends
  <2>2. Receives(l, "send") /\ UNCHANGED <<sessions, client>>
    BY <1>10 DEF Sends
  <2>3. CASE Passes(l, es)
    BY <1>1, <2>2, <2>3, PassStep
  <2>4. CASE Refuses(l, es)
    BY <1>1, <1>2, <2>2, <2>4, BrokerQuiet, BrokerEdges
  <2> QED BY <2>1, <2>3, <2>4
<1> QED BY <1>4, <1>5, <1>6, <1>7, <1>8, <1>9, <1>10 DEF Next, BrokerReads

(* Whatever is said, replaced, cancelled or started again, the parts of    *)
(* the invariant hold together: each step needs all of them.               *)
THEOREM BrokerInvariant == Spec => []BrokerInductive
<1>1. BrokerInductive /\ [Next]_vars => BrokerInductive'
  BY StepTypes, StepLinks, StepAsks DEF BrokerInductive
<1> QED BY <1>1, InitHolds, PTL DEF Spec

(* Connections, edges and asks keep their shape, and a client that has a   *)
(* connection has its own end of it open, for any number of processes and  *)
(* queues of any length (client.ts, broker.ts).                            *)
THEOREM BrokerTypeCorrect == Spec => []TypeOK
<1>1. BrokerInductive => TypeOK
  BY DEF BrokerInductive
<1> QED BY <1>1, BrokerInvariant, PTL

(* The edges are those of sessions that are there, and no two sessions     *)
(* wait for each other (handleMessage, clearAskEdgesForSession).           *)
THEOREM EdgesStaySound == Spec => []EdgesSound
<1>1. BrokerInductive => EdgesSound
  BY DEF BrokerInductive
<1> QED BY <1>1, BrokerInvariant, PTL

(* An ask is answered by the one it was put to, and at most one reply to   *)
(* it is passed on, whoever else replies (handleMessage).                  *)
THEOREM AskAnsweredByAsked == Spec => []AnsweredByAsked
<1>1. BrokerInductive => AnsweredByAsked
  BY DEF BrokerInductive, AsksSound, SentOnce, Once, AnsweredByAsked
<1> QED BY <1>1, BrokerInvariant, PTL

(* A client that takes itself for connected is registered, or will read    *)
(* the end of its connection (handleConnection).                           *)
THEOREM ConnectedKnown == Spec => []ConnectedIsRegistered
<1>1. BrokerInductive => ConnectedIsRegistered
  <2> SUFFICES ASSUME TypeOK, LinksSound, NEW c \in Client, Connected(c)
               PROVE  \/ sessions[NameOf[c]] = client[c].link
                      \/ link[client[c].link].remote # "open"
    BY DEF BrokerInductive, ConnectedIsRegistered
  <2> DEFINE l == client[c].link
  <2>1. l \in Link /\ l[1] = c /\ link[l].local = "open"
    BY DEF TypeOK, Connected, Off
  <2>2. ~Opening(l)
    BY <2>1 DEF Opening, Connected
  <2> QED BY <2>1, <2>2 DEF LinksSound, LinkSound, Owner
<1> QED BY <1>1, BrokerInvariant, PTL
===============================================================================
