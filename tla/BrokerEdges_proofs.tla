-------------------------- MODULE BrokerEdges_proofs --------------------------
(***************************************************************************)
(* Proofs about the edges of the broker: each stands for a session that    *)
(* waits, or the frame or the end of connection that takes it away is on   *)
(* its way; and the edges form no circle as long as all asks are to or     *)
(* from the hub.                                                           *)
(***************************************************************************)
EXTENDS Broker_proofs

(* Connection l carries ask a: frame i to the broker is the ask, or, for   *)
(* i = 0, the broker keeps an edge of its session for it.                  *)
Carried(l, i, a) ==
    \/ Sending(l, i, a)
    \/ i = 0 /\ \E e \in Edge(edges, a) : sessions[e.from] = l

(* Then somebody waits for the ask on that very connection, or the broker  *)
(* will read after frame i that nobody does.                               *)
Expected(l, i, a) ==
    \/ ask[a].state = "unconfirmed"
    \/ Asking(a) /\ ask[a].by = l[1] /\ client[l[1]].link = l
    \/ link[l].local = "closed"
    \/ \E j \in DOMAIN link[l].up : j > i /\ link[l].up[j] = Note("cancel", a)

CarriedExpected ==
    \A l \in Link, a \in Ask, i \in Nat : Carried(l, i, a) => Expected(l, i, a)

(* The broker has nothing more of an ask, and will have nothing more.      *)
Spent(a) ==
    /\ ask[a].state # "unused" /\ Edge(edges, a) = {}
    /\ \A l \in Link : \A i \in DOMAIN link[l].up : ~Sending(l, i, a)

(* The ask that news of the broker end: its answer, or its refusal.        *)
Ends(news) == IF news.type = "message" THEN news.replyTo
              ELSE IF news.type = "delivery_failed" THEN news.id ELSE NoAsk

NewsSpent == \A l \in Link : \A i \in DOMAIN link[l].down :
    LET a == Ends(link[l].down[i]) IN a \in Ask => Spent(a)

(* A dead end holds no frames and no session.                              *)
GoneSilent == \A l \in Link :
    link[l].remote = "gone" => link[l].up = <<>> /\ sessions[Owner(l)] # l

EdgesExpected == GoneSilent /\ NewsSpent /\ CarriedExpected

---------------------------------------------------------------------------
(* Dead ends. *)
LEMMA StepSilent ==
    ASSUME TypeOK, GoneSilent, [Next]_vars
    PROVE  GoneSilent'
<1>a. link \in Links
  BY DEF TypeOK, Links
<1>b. NoLink \notin Link
  BY BrokerAssumption DEF Link
<1>1. ASSUME UNCHANGED sessions,
             \A k \in Link : /\ link'[k].remote = link[k].remote
                             /\ link'[k].remote = "gone" => link'[k].up = link[k].up
      PROVE  GoneSilent'
  BY <1>1 DEF GoneSilent, Owner
<1>2. ASSUME NEW l \in Link, NEW f \in Frame, link' = SendUp(l, f), UNCHANGED sessions
      PROVE  GoneSilent'
  BY <1>1, <1>2, <1>a DEF SendUp, Links, LinkState
<1>3. ASSUME NEW c \in Client, NEW l \in Link, Connects(c, l) PROVE GoneSilent'
  <2>1. /\ link'[l].remote = "open" /\ \A k \in Link : k # l => link'[k] = link[k]
        /\ UNCHANGED sessions
    BY <1>3 DEF Connects, TypeOK
  <2> QED BY <2>1 DEF GoneSilent, Owner
<1>4. ASSUME NEW c \in Client, NEW a \in Ask, Replies(c, a) PROVE GoneSilent'
  <2>1. [type |-> "send", id |-> NoAsk, to |-> Asker[a], replyTo |-> a] \in Frame
    BY BrokerAssumption DEF Frame, Message
  <2>2. client[c].link \in Link
    BY <1>4 DEF Replies, HasRoom, Connected, Off, TypeOK
  <2> QED BY <1>2, <1>4, <2>1, <2>2 DEF Replies
<1>5. ASSUME NEW c \in Client, NEW a \in Ask, NEW re \in Ask \cup {NoAsk}, Asks(c, a, re)
      PROVE  GoneSilent'
  <2>1. [type |-> "send", id |-> a, to |-> Asked[a], replyTo |-> re] \in Frame
    BY BrokerAssumption DEF Frame, Message
  <2>2. client[c].link \in Link
    BY <1>5 DEF Asks, HasRoom, Connected, Off, TypeOK
  <2> QED BY <1>2, <1>5, <2>1, <2>2 DEF Asks
<1>6. ASSUME NEW c \in Client,
             ReadsRegistered(c) \/ ReadsMessage(c) \/ ReadsDelivered(c) \/ ReadsRefused(c)
      PROVE  GoneSilent'
  <2>1. /\ client[c].link \in Link /\ link[client[c].link].down # <<>> /\ link' = Took(c)
        /\ UNCHANGED sessions
    BY <1>6 DEF ReadsRegistered, ReadsMessage, ReadsDelivered, ReadsRefused, Reads, TypeOK
  <2> QED BY <1>1, <1>a, <2>1, TookIs
<1>7. ASSUME NEW c \in Client, ReadsEnd(c) \/ Dies(c) PROVE GoneSilent'
  <2>1. client[c].link \in Link /\ UNCHANGED sessions
    BY <1>7 DEF ReadsEnd, Dies, TypeOK
  <2>2. \A k \in Link : link'[k].remote = link[k].remote /\ link'[k].up = link[k].up
    <3>1. CASE ReadsEnd(c)
      BY <2>1, <3>1 DEF ReadsEnd, TypeOK, LinkState
    <3>2. CASE Dies(c)
      BY <1>a, <2>1, <3>2, ShutIs DEF Dies
    <3> QED BY <1>7, <3>1, <3>2
  <2> QED BY <1>1, <2>1, <2>2
<1>8. ASSUME NEW c \in Client, Disconnects(c) PROVE GoneSilent'
  <2> DEFINE l == client[c].link
             sent == SendUp(l, Note("unregister", NoAsk))
  <2>1. l \in Link /\ UNCHANGED sessions /\ link' = Shut(sent, l)
    BY <1>8 DEF Disconnects, Connected, Off, TypeOK
  <2>2. Note("unregister", NoAsk) \in Frame
    BY Shapes
  <2>3. sent \in Links /\ \A k \in Link : /\ sent[k].remote = link[k].remote
                                          /\ sent[k].remote = "gone" => sent[k].up = link[k].up
    <3> HIDE DEF l
    <3>1. /\ sent \in Links
          /\ \A k \in Link : sent[k].remote = link[k].remote /\ (k # l => sent[k].up = link[k].up)
      BY <1>a, <2>1, <2>2, SendUpIs
    <3>2. link[l].remote = "gone" => sent[l].up = link[l].up
      BY <1>a, <2>1 DEF SendUp, Links, LinkState
    <3> QED BY <3>1, <3>2
  <2> HIDE DEF sent, l
  <2>4. \A k \in Link : link'[k].remote = sent[k].remote /\ link'[k].up = sent[k].up
    BY <2>1, <2>3, ShutIs
  <2> QED BY <1>1, <2>1, <2>3, <2>4
<1>9. ASSUME NEW a \in Ask, AskTimesOut(a) \/ SendTimesOut(a) PROVE GoneSilent'
  <2>1. CASE SendTimesOut(a)
    BY <1>1, <2>1 DEF SendTimesOut
  <2>2. CASE AskTimesOut(a)
    <3>1. client[ask[a].by].link \in Link /\ Note("cancel", a) \in Frame
      BY <2>2, Shapes DEF AskTimesOut, Connected, Off, Asking, TypeOK
    <3> QED BY <1>2, <2>2, <3>1 DEF AskTimesOut
  <2> QED BY <1>9, <2>1, <2>2
(* Where the broker reads, its end is alive. *)
<1>10. ASSUME NEW l \in Link, UpRead(l), \A k \in Link : link'[k].remote = "gone" => link[k].remote = "gone",
              \A k \in Link : \/ sessions'[Owner(k)] = sessions[Owner(k)]
                              \/ sessions'[Owner(k)] \in {l, NoLink}
       PROVE  GoneSilent'
  BY <1>10, <1>b DEF GoneSilent, UpRead, Owner
<1>11. ASSUME NEW l \in Link, Registers(l) PROVE GoneSilent'
  <2>1. /\ sessions' = [sessions EXCEPT ![Owner(l)] = l] /\ UpRead(l)
        /\ \A k \in Link : link'[k].remote = "gone" => link[k].remote = "gone"
    BY <1>11, RegistersIs
  <2> QED BY <1>10, <2>1, OwnerIs DEF TypeOK
<1>12. ASSUME NEW l \in Link, Removes(l)
       PROVE  /\ \A k \in Link : sessions'[Owner(k)] = sessions[Owner(k)] \/ sessions'[Owner(k)] = NoLink
              /\ sessions'[Owner(l)] # l
  BY <1>12, <1>b, OwnerIs DEF Removes, TypeOK
<1>13. ASSUME NEW l \in Link, Cancels(l) \/ Unregisters(l) PROVE GoneSilent'
  <2>1. UpRead(l) /\ EndsSame
    BY <1>13, ReadOnlyIs DEF ReadOnly
  <2>2. \A k \in Link : sessions'[Owner(k)] = sessions[Owner(k)] \/ sessions'[Owner(k)] = NoLink
    BY <1>12, <1>13 DEF Cancels, Unregisters
  <2> QED BY <1>10, <2>1, <2>2 DEF EndsSame
<1>14. ASSUME NEW l \in Link, Closes(l) PROVE GoneSilent'
  <2>1. link'[l].up = <<>> /\ \A k \in Link : k # l => link'[k] = link[k]
    BY <1>14, ClosesIs DEF Free
  <2> QED BY <1>12, <1>14, <1>b, <2>1 DEF Closes, GoneSilent, Owner
<1>15. ASSUME NEW l \in Link, Sends(l) PROVE GoneSilent'
  <2>1. PICK es \in SUBSET edges : Passes(l, es) \/ Refuses(l, es)
    BY <1>15 DEF Sends
  <2>2. Receives(l, "send") /\ UNCHANGED <<sessions, client>>
    BY <1>15 DEF Sends
  <2>3. UpRead(l) /\ EndsSame
    BY <2>1, <2>2, PassIs, RefuseIs
  <2> QED BY <1>10, <2>2, <2>3 DEF EndsSame
<1>16. ASSUME BrokerDies PROVE GoneSilent'
  <2>1. \A k \in Link : link'[k].up = <<>> /\ sessions'[Owner(k)] = NoLink
    BY <1>16, BrokerDiesIs, OwnerIs DEF Free
  <2> QED BY <1>b, <2>1 DEF GoneSilent, Owner
<1>17. CASE UNCHANGED vars
  BY <1>17 DEF vars, GoneSilent, Owner
<1> QED BY <1>3, <1>4, <1>5, <1>6, <1>7, <1>8, <1>9, <1>11, <1>13, <1>14, <1>15, <1>16, <1>17
        DEF Next, ClientReads, BrokerReads

---------------------------------------------------------------------------
(* What a step does to the frames on their way to the broker. *)

(* One is sent: it comes last, and is lost only at a dead end.             *)
LEMMA SentIs ==
    ASSUME TypeOK, NEW l \in Link, NEW f \in Frame, NEW links, links = SendUp(l, f)
    PROVE  /\ links \in Links
           /\ \A k \in Link : /\ links[k].down = link[k].down /\ links[k].local = link[k].local
                              /\ links[k].remote = link[k].remote
           /\ \A k \in Link : \A i \in DOMAIN links[k].up :
                \/ i \in DOMAIN link[k].up /\ links[k].up[i] = link[k].up[i]
                \/ k = l /\ i \notin DOMAIN link[k].up /\ links[k].up[i] = f
           /\ \A k \in Link : \A i \in DOMAIN link[k].up :
                i \in DOMAIN links[k].up /\ links[k].up[i] = link[k].up[i]
           /\ link[l].remote # "gone" =>
                \E j \in DOMAIN links[l].up :
                   links[l].up[j] = f /\ j > 0 /\ \A i \in DOMAIN link[l].up : j > i
<1> DEFINE q == link[l].up
           r == links[l].up
<1>1. link \in Links /\ q \in Seq(Frame)
  BY DEF TypeOK, Links, LinkState
<1>2. /\ links \in Links
      /\ \A k \in Link : /\ links[k].down = link[k].down /\ links[k].local = link[k].local
                         /\ links[k].remote = link[k].remote
                         /\ k # l => links[k].up = link[k].up
  BY <1>1, SendUpIs
<1>3. /\ r = q \/ r = Append(q, f)
      /\ link[l].remote # "gone" => r = Append(q, f)
  BY <1>1 DEF SendUp, Links, LinkState
<1> HIDE DEF q, r
<1>4. /\ DOMAIN Append(q, f) = 1 .. Len(q) + 1 /\ DOMAIN q = 1 .. Len(q) /\ Len(q) \in Nat
      /\ Append(q, f)[Len(q) + 1] = f
      /\ \A i \in DOMAIN q : Append(q, f)[i] = q[i]
  BY <1>1, AppendIs
<1>5. /\ \A i \in DOMAIN r : \/ i \in DOMAIN q /\ r[i] = q[i]
                             \/ i \notin DOMAIN q /\ r[i] = f
      /\ \A i \in DOMAIN q : i \in DOMAIN r /\ r[i] = q[i]
  <2>1. CASE r = q
    BY <2>1
  <2>2. CASE r = Append(q, f)
    BY <1>4, <2>2
  <2> QED BY <1>3, <2>1, <2>2
<1>6. ASSUME link[l].remote # "gone"
      PROVE  \E j \in DOMAIN r : r[j] = f /\ j > 0 /\ \A i \in DOMAIN q : j > i
  <2>1. Len(q) + 1 \in DOMAIN r /\ r[Len(q) + 1] = f
    BY <1>3, <1>4, <1>6
  <2>2. Len(q) + 1 > 0 /\ \A i \in DOMAIN q : Len(q) + 1 > i
    BY <1>4
  <2> QED BY <2>1, <2>2
<1> QED BY <1>2, <1>5, <1>6 DEF q, r

(* One is read: it was the first.                                          *)
LEMMA UpReadIs ==
    ASSUME TypeOK, NEW l \in Link, UpRead(l)
    PROVE  /\ 1 \in DOMAIN link[l].up /\ link[l].up[1] = Head(link[l].up)
           /\ \A i \in DOMAIN link'[l].up :
                /\ i \in Nat /\ i # 0 /\ i + 1 \in DOMAIN link[l].up
                /\ link'[l].up[i] = link[l].up[i + 1]
           /\ \A j \in DOMAIN link[l].up :
                /\ j \in Nat
                /\ j > 1 => j - 1 \in DOMAIN link'[l].up /\ link'[l].up[j - 1] = link[l].up[j]
<1> DEFINE q == link[l].up
           r == link'[l].up
<1>1. q \in Seq(Frame) /\ q # <<>> /\ r = Tail(q)
  BY DEF UpRead, TypeOK, LinkState
<1> HIDE DEF q, r
<1>2. Len(q) \in Nat /\ Len(q) > 0 /\ DOMAIN q = 1 .. Len(q) /\ DOMAIN r = 1 .. Len(q) - 1
  BY <1>1
<1>3. 1 \in DOMAIN q /\ q[1] = Head(q) /\ \A i \in DOMAIN r : r[i] = q[i + 1]
  BY <1>1, <1>2
<1>4. \A i \in DOMAIN r : i \in Nat /\ i # 0 /\ i + 1 \in DOMAIN q
  BY <1>2
<1>5. \A j \in DOMAIN q : j \in Nat /\ (j > 1 => j - 1 \in DOMAIN r /\ (j - 1) + 1 = j)
  BY <1>2
<1> QED BY <1>3, <1>4, <1>5 DEF q, r

(* The ask at the head of a connection. *)
LEMMA HeadIs ==
    ASSUME TypeOK, NEW l \in Link, Receives(l, "send"), UpRead(l),
           NEW m, m = Head(link[l].up)
    PROVE  /\ m.type = "send" /\ m \in Message
           /\ m.id # NoAsk => m.id \in Ask /\ Sending(l, 1, m.id)
<1>1. link[l].up[1] = m /\ 1 \in DOMAIN link[l].up /\ m.type = "send"
  BY UpReadIs DEF Receives
<1>2. m \in Frame
  <2>1. link[l].up \in Seq(Frame)
    BY DEF TypeOK, LinkState
  <2> QED BY <1>1, <2>1
<1>3. m \in Message
  BY <1>1, <1>2 DEF Frame
<1> QED BY <1>1, <1>3 DEF Sending, Message

(* A message that is passed on only counts as a reply, to one ask or none. *)
LEMMA PassAsks ==
    ASSUME TypeOK, NEW l \in Link, NEW es, Passes(l, es), NEW a \in Ask
    PROVE  /\ ask'[a].state = ask[a].state /\ ask'[a].by = ask[a].by
           /\ a = Head(link[l].up).replyTo /\ a # NoAsk => ask'[a].replies = ask[a].replies + 1
<1> DEFINE b == Head(link[l].up).replyTo
<1>1. ask' = IF b = NoAsk THEN ask ELSE [ask EXCEPT ![b].replies = @ + 1]
  BY DEF Passes
<1> HIDE DEF b
<1>2. ask[a] \in AskState /\ ask \in [Ask -> AskState]
  BY DEF TypeOK
<1>3. ASSUME NEW r \in AskState
      PROVE  LET s == [r EXCEPT !.replies = @ + 1]
             IN  s.state = r.state /\ s.by = r.by /\ s.replies = r.replies + 1
  BY DEF AskState
<1>4. CASE b = NoAsk
  BY <1>1, <1>4 DEF b
<1>5. CASE b # NoAsk /\ a # b
  <2>1. ask'[a] = ask[a]
    BY <1>1, <1>2, <1>5
  <2> QED BY <1>5, <2>1 DEF b
<1>6. CASE b # NoAsk /\ a = b
  <2>1. ask'[a] = [ask[a] EXCEPT !.replies = @ + 1]
    BY <1>1, <1>2, <1>6
  <2> QED BY <1>2, <1>3, <2>1
<1> QED BY <1>4, <1>5, <1>6 DEF b

---------------------------------------------------------------------------
(* An ask the broker has nothing more of. *)
LEMMA SpentStays ==
    ASSUME BrokerInductive, TypeOK', [Next]_vars, NEW a \in Ask, Spent(a)
    PROVE  Spent(a)'
<1>a. TypeOK /\ AsksSound
  BY DEF BrokerInductive
<1>1. ASSUME QuietUp(link'), NEW l \in Link, NEW i \in DOMAIN link'[l].up PROVE ~Sending(l, i, a)'
  <2> SUFFICES ASSUME Sending(l, i, a)' PROVE FALSE
    OBVIOUS
  <2>1. PICK d \in {0, 1} : Sending(l, i + d, a)
    BY <1>1, QuietSending
  <2> QED BY <2>1 DEF Spent, Sending
<1>2. ASSUME Quiet PROVE Spent(a)'
  <2>1. ask'[a].state # "unused" /\ Edge(edges', a) = {}
    BY <1>2 DEF Quiet, Kept, Edge, Spent
  <2> QED BY <1>1, <1>2, <2>1 DEF Quiet, Spent
<1>3. ASSUME NEW c \in Client, NEW b \in Ask, NEW re \in Ask \cup {NoAsk}, Asks(c, b, re)
      PROVE  Spent(a)'
  <2> DEFINE l == client[c].link
             f == [type |-> "send", id |-> b, to |-> Asked[b], replyTo |-> re]
  <2>1. /\ l \in Link /\ link' = SendUp(l, f) /\ b # a /\ edges' = edges /\ ask'[a] = ask[a]
    BY <1>a, <1>3 DEF Asks, HasRoom, Connected, Off, TypeOK, Spent
  <2>2. f \in Frame /\ f.id = b
    BY BrokerAssumption DEF Frame, Message
  <2> HIDE DEF l, f
  <2>3. \A k \in Link : \A i \in DOMAIN link'[k].up :
          \/ i \in DOMAIN link[k].up /\ link'[k].up[i] = link[k].up[i]
          \/ link'[k].up[i] = f
    BY <1>a, <2>1, <2>2, SentIs
  <2> QED BY <2>1, <2>2, <2>3 DEF Spent, Sending
<1>4. ASSUME NEW l \in Link, NEW es \in SUBSET edges, Receives(l, "send"), Passes(l, es)
      PROVE  Spent(a)'
  <2> DEFINE m == Head(link[l].up)
             message == [type |-> "message", id |-> m.id, from |-> Owner(l), replyTo |-> m.replyTo]
  <2>1. UpRead(l)
    <3>1. message = [type |-> "message", id |-> m.id, from |-> Owner(l), replyTo |-> m.replyTo]
      OBVIOUS
    <3> HIDE DEF message
    <3> QED BY <1>a, <1>4, <3>1, PassIs
  <2>2. m.id # a
    BY <1>a, <1>4, <2>1, HeadIs, UpReadIs, BrokerAssumption DEF Spent
  <2>3. \A e \in edges' : e \in edges \/ e.id = m.id
    BY <1>4 DEF Passes, Remaining
  <2>4. ask'[a].state = ask[a].state
    BY <1>a, <1>4, PassAsks
  <2> HIDE DEF m
  <2> QED BY <1>1, <1>a, <2>1, <2>2, <2>3, <2>4, ReadQuiet DEF Spent, Edge
<1>5. ASSUME NEW l \in Link, Sends(l) PROVE Spent(a)'
  <2>1. PICK es \in SUBSET edges : Passes(l, es) \/ Refuses(l, es)
    BY <1>5 DEF Sends
  <2>2. Receives(l, "send")
    BY <1>5 DEF Sends
  <2> QED BY <1>2, <1>4, <1>a, <2>1, <2>2, BrokerQuiet
<1>6. CASE UNCHANGED vars
  BY <1>6 DEF vars, Spent, Sending
<1>7. ASSUME NEW c \in Client,
             \/ \E l \in Link : Connects(c, l)
             \/ \E b \in Ask : Replies(c, b)
             \/ ClientReads(c) \/ Disconnects(c) \/ Dies(c)
      PROVE  Spent(a)'
  BY <1>2, <1>7, <1>a, ClientQuiet
<1>8. ASSUME NEW b \in Ask, AskTimesOut(b) \/ SendTimesOut(b) PROVE Spent(a)'
  BY <1>2, <1>8, <1>a, TimeQuiet
<1>9. ASSUME \/ \E l \in Link : Registers(l) \/ Cancels(l) \/ Unregisters(l) \/ Closes(l)
             \/ BrokerDies
      PROVE  Spent(a)'
  BY <1>2, <1>9, <1>a, BrokerQuiet
<1> QED BY <1>3, <1>5, <1>6, <1>7, <1>8, <1>9 DEF Next, BrokerReads

---------------------------------------------------------------------------
(* What a step says to the clients: what was on its way, and what is in F. *)
Heard(links, F) == \A k \in Link : \A i \in DOMAIN links[k].down :
    \/ \E j \in DOMAIN link[k].down : links[k].down[i] = link[k].down[j]
    \/ links[k].down[i] \in F

LEMMA DownHeard ==
    ASSUME NEW F, NEW links \in Links, Heard(links, F), NEW l \in Link,
           NEW fs \in Seq(News), \A j \in DOMAIN fs : fs[j] \in F,
           NEW new, new = Down(links, l, fs)
    PROVE  new \in Links /\ Heard(new, F)
<1>1. /\ new \in Links
      /\ \A k \in Link : \A i \in DOMAIN new[k].down :
           \/ i \in DOMAIN links[k].down /\ new[k].down[i] = links[k].down[i]
           \/ \E j \in DOMAIN fs : new[k].down[i] = fs[j]
  BY DownIs
<1> QED BY <1>1 DEF Heard

LEMMA ReadHeard ==
    ASSUME TypeOK, NEW l \in Link, link[l].up # <<>>
    PROVE  Read(l) \in Links /\ \A F : Heard(Read(l), F)
  BY ReadIs DEF TypeOK, Links, Heard

LEMMA RegistersHeard ==
    ASSUME TypeOK, NEW l \in Link, Registers(l)
    PROVE  Heard(link', {Note("registered", NoAsk)})
<1> DEFINE prev == sessions[Owner(l)]
           mid == IF prev = NoLink THEN Read(l) ELSE [Read(l) EXCEPT ![prev].remote = "ended"]
           only == <<Note("registered", NoAsk)>>
           F == {Note("registered", NoAsk)}
<1>1. link[l].up # <<>> /\ link' = Down(mid, l, only)
  BY DEF Registers, Receives
<1>2. only \in Seq(News) /\ \A j \in DOMAIN only : only[j] \in F
  BY Shapes
<1>3. mid \in Links /\ Heard(mid, F)
  <2>1. Read(l) \in Links /\ Heard(Read(l), F)
    BY <1>1, ReadHeard
  <2>2. \A r \in LinkState : /\ [r EXCEPT !.remote = "ended"] \in LinkState
                             /\ [r EXCEPT !.remote = "ended"].down = r.down
    BY DEF LinkState
  <2>3. CASE prev = NoLink
    BY <2>1, <2>3
  <2>4. CASE prev # NoLink
    <3>1. mid = [Read(l) EXCEPT ![prev].remote = "ended"]
      BY <2>4
    <3>2. prev \in Link
      BY <2>4, OwnerIs DEF TypeOK
    <3> HIDE DEF mid, prev, F
    <3>3. /\ DOMAIN mid = Link /\ mid = [k \in Link |-> mid[k]]
          /\ \A k \in Link : k # prev => mid[k] = Read(l)[k]
          /\ mid[prev] = [Read(l)[prev] EXCEPT !.remote = "ended"]
      BY <2>1, <3>1, <3>2 DEF Links
    <3>4. ASSUME NEW k \in Link PROVE mid[k] \in LinkState /\ mid[k].down = Read(l)[k].down
      <4>1. Read(l)[k] \in LinkState
        BY <2>1 DEF Links
      <4>2. CASE k = prev
        BY <2>2, <3>3, <4>1, <4>2
      <4>3. CASE k # prev
        BY <3>3, <4>1, <4>3
      <4> QED BY <4>2, <4>3
    <3>5. mid \in Links
      BY <3>3, <3>4 DEF Links
    <3> QED BY <2>1, <3>4, <3>5 DEF Heard
  <2> QED BY <2>3, <2>4
<1> HIDE DEF mid, only
<1> QED BY <1>1, <1>2, <1>3, DownHeard

LEMMA RefusesHeard ==
    ASSUME TypeOK, NEW l \in Link, Receives(l, "send"), NEW es, Refuses(l, es),
           NEW m, m = Head(link[l].up)
    PROVE  Heard(link', IF m.id = NoAsk THEN {} ELSE {Note("delivery_failed", m.id)})
<1> DEFINE fs == Answer(m, "delivery_failed")
           F == IF m.id = NoAsk THEN {} ELSE {Note("delivery_failed", m.id)}
<1>1. link[l].up # <<>> /\ link' = Down(Read(l), l, fs)
  BY DEF Refuses, Receives
<1>2. m \in Message
  BY RefuseIs
<1>3. fs \in Seq(News) /\ \A j \in DOMAIN fs : fs[j] \in F
  BY <1>2, Shapes DEF Answer, Message
<1> HIDE DEF fs, F
<1>4. Read(l) \in Links /\ Heard(Read(l), F)
  BY <1>1, ReadHeard
<1>5. Heard(link', F)
  BY <1>1, <1>3, <1>4, DownHeard
<1> QED BY <1>5 DEF F

LEMMA PassesHeard ==
    ASSUME TypeOK, NEW l \in Link, Receives(l, "send"), NEW es \in SUBSET edges, Passes(l, es),
           NEW m, m = Head(link[l].up),
           NEW message, message = [type |-> "message", id |-> m.id, from |-> Owner(l), replyTo |-> m.replyTo]
    PROVE  Heard(link', {message, Note("delivered", m.id)})
<1> DEFINE to == sessions[m.to]
           only == <<message>>
           one == Down(Read(l), to, only)
           fs == Answer(m, "delivered")
           F == {message, Note("delivered", m.id)}
<1>1. link[l].up # <<>> /\ link' = Down(one, l, fs)
  BY DEF Passes, Receives
<1>2. m \in Message /\ to \in Link
  BY PassIs
<1>3. fs \in Seq(News) /\ \A j \in DOMAIN fs : fs[j] \in F
  BY <1>2, Shapes DEF Answer, Message
<1>4. only \in Seq(News) /\ \A j \in DOMAIN only : only[j] \in F
  BY <1>2, OwnerIs DEF Message, News
<1> HIDE DEF fs, F, only, to
<1>5. Read(l) \in Links /\ Heard(Read(l), F)
  BY <1>1, ReadHeard
<1>6. one \in Links /\ Heard(one, F)
  BY <1>2, <1>4, <1>5, DownHeard
<1> HIDE DEF one
<1>7. Heard(link', F)
  BY <1>1, <1>3, <1>6, DownHeard
<1> QED BY <1>7 DEF F

(* Clients read, and nobody else says anything.                            *)
LEMMA OthersHeard ==
    ASSUME TypeOK,
           \/ UNCHANGED vars
           \/ \E c \in Client :
                \/ \E l \in Link : Connects(c, l)
                \/ \E a \in Ask : Replies(c, a) \/ \E re \in Ask \cup {NoAsk} : Asks(c, a, re)
                \/ ClientReads(c) \/ Disconnects(c) \/ Dies(c)
           \/ \E a \in Ask : AskTimesOut(a) \/ SendTimesOut(a)
           \/ \E l \in Link : Cancels(l) \/ Unregisters(l) \/ Closes(l)
           \/ BrokerDies
    PROVE  Heard(link', {})
<1>a. link \in Links
  BY DEF TypeOK, Links
<1>1. ASSUME \A k \in Link : link'[k].down \in {link[k].down, <<>>} PROVE Heard(link', {})
  BY <1>1 DEF Heard
<1>2. ASSUME NEW l \in Link, NEW f \in Frame, link' = SendUp(l, f) PROVE Heard(link', {})
  BY <1>1, <1>2, SentIs
<1>3. ASSUME NEW c \in Client, NEW l \in Link, Connects(c, l) PROVE Heard(link', {})
  BY <1>1, <1>3 DEF Connects, TypeOK
<1>4. ASSUME NEW c \in Client, NEW a \in Ask, Replies(c, a) PROVE Heard(link', {})
  <2>1. [type |-> "send", id |-> NoAsk, to |-> Asker[a], replyTo |-> a] \in Frame
    BY BrokerAssumption DEF Frame, Message
  <2>2. client[c].link \in Link
    BY <1>4 DEF Replies, HasRoom, Connected, Off, TypeOK
  <2> QED BY <1>2, <1>4, <2>1, <2>2 DEF Replies
<1>5. ASSUME NEW c \in Client, NEW a \in Ask, NEW re \in Ask \cup {NoAsk}, Asks(c, a, re)
      PROVE  Heard(link', {})
  <2>1. [type |-> "send", id |-> a, to |-> Asked[a], replyTo |-> re] \in Frame
    BY BrokerAssumption DEF Frame, Message
  <2>2. client[c].link \in Link
    BY <1>5 DEF Asks, HasRoom, Connected, Off, TypeOK
  <2> QED BY <1>2, <1>5, <2>1, <2>2 DEF Asks
<1>6. ASSUME NEW c \in Client,
             ReadsRegistered(c) \/ ReadsMessage(c) \/ ReadsDelivered(c) \/ ReadsRefused(c)
      PROVE  Heard(link', {})
  <2> DEFINE l == client[c].link
             q == link[l].down
  <2>1. l \in Link /\ q # <<>> /\ link' = Took(c)
    BY <1>6 DEF ReadsRegistered, ReadsMessage, ReadsDelivered, ReadsRefused, Reads, TypeOK
  <2>2. q \in Seq(News)
    BY <2>1 DEF TypeOK, LinkState
  <2>3. (\A k \in Link : k # l => link'[k].down = link[k].down) /\ link'[l].down = Tail(q)
    BY <1>a, <2>1, TookIs
  <2> HIDE DEF q
  <2>4. \A i \in DOMAIN link'[l].down : i + 1 \in DOMAIN q /\ link'[l].down[i] = q[i + 1]
    BY <2>1, <2>2, <2>3, TailIs
  <2> QED BY <2>3, <2>4 DEF Heard, q
<1>7. ASSUME NEW c \in Client, ReadsEnd(c) PROVE Heard(link', {})
  BY <1>1, <1>7 DEF ReadsEnd, TypeOK, LinkState
<1>8. ASSUME NEW c \in Client, Dies(c) PROVE Heard(link', {})
  <2>1. client[c].link \in Link
    BY <1>8 DEF Dies, TypeOK
  <2> QED BY <1>1, <1>8, <1>a, <2>1, ShutIs DEF Dies
<1>9. ASSUME NEW c \in Client, Disconnects(c) PROVE Heard(link', {})
  <2> DEFINE l == client[c].link
             sent == SendUp(l, Note("unregister", NoAsk))
  <2>1. l \in Link /\ link' = Shut(sent, l)
    BY <1>9 DEF Disconnects, Connected, Off, TypeOK
  <2> HIDE DEF l
  <2>2. sent \in Links /\ \A k \in Link : sent[k].down = link[k].down
    BY <2>1, Shapes, SentIs
  <2> HIDE DEF sent
  <2>3. \A k \in Link : link'[k].down \in {sent[k].down, <<>>}
    BY <2>1, <2>2, ShutIs
  <2> QED BY <1>1, <2>2, <2>3
<1>10. ASSUME NEW a \in Ask, AskTimesOut(a) \/ SendTimesOut(a) PROVE Heard(link', {})
  <2>1. CASE SendTimesOut(a)
    BY <1>1, <2>1 DEF SendTimesOut
  <2>2. CASE AskTimesOut(a)
    <3>1. client[ask[a].by].link \in Link /\ Note("cancel", a) \in Frame
      BY <2>2, Shapes DEF AskTimesOut, Connected, Off, Asking, TypeOK
    <3> QED BY <1>2, <2>2, <3>1 DEF AskTimesOut
  <2> QED BY <1>10, <2>1, <2>2
<1>11. ASSUME NEW l \in Link, Cancels(l) \/ Unregisters(l) PROVE Heard(link', {})
  BY <1>1, <1>11, ReadOnlyIs DEF ReadOnly
<1>12. ASSUME NEW l \in Link, Closes(l) PROVE Heard(link', {})
  BY <1>1, <1>12, ClosesIs DEF Free
<1>13. CASE BrokerDies
  BY <1>1, <1>13, BrokerDiesIs DEF Free
<1>14. CASE UNCHANGED vars
  BY <1>1, <1>14 DEF vars
<1> QED BY <1>3, <1>4, <1>5, <1>6, <1>7, <1>8, <1>9, <1>10, <1>11, <1>12, <1>13, <1>14 DEF ClientReads

(* News that end an ask come when the broker has nothing more of it.       *)
LEMMA StepNews ==
    ASSUME BrokerInductive, BrokerInductive', NewsSpent, [Next]_vars
    PROVE  NewsSpent'
<1>a. TypeOK /\ TypeOK' /\ SentOnce /\ SentOnce'
  BY DEF BrokerInductive
<1>1. ASSUME NEW F, Heard(link', F), \A f \in F, a \in Ask : a = Ends(f) => Spent(a)'
      PROVE  NewsSpent'
  <2>1. ASSUME NEW l \in Link, NEW i \in DOMAIN link'[l].down, NEW a \in Ask,
               a = Ends(link'[l].down[i])
        PROVE  Spent(a)'
    <3>1. CASE \E j \in DOMAIN link[l].down : link'[l].down[i] = link[l].down[j]
      <4>1. Spent(a)
        BY <2>1, <3>1 DEF NewsSpent
      <4> QED BY <1>a, <4>1, SpentStays
    <3>2. CASE link'[l].down[i] \in F
      BY <1>1, <2>1, <3>2
    <3> QED BY <1>1, <3>1, <3>2 DEF Heard
  <2> QED BY <2>1 DEF NewsSpent
<1>2. ASSUME NEW l \in Link, Registers(l) PROVE NewsSpent'
  <2>1. Ends(Note("registered", NoAsk)) \notin Ask
    BY BrokerAssumption DEF Ends, Note
  <2> QED BY <1>1, <1>2, <1>a, <2>1, RegistersHeard
<1>3. ASSUME NEW l \in Link, NEW es \in SUBSET edges, Receives(l, "send"), Refuses(l, es)
      PROVE  NewsSpent'
  <2>1. PICK m : m = Head(link[l].up)
    OBVIOUS
  <2>2. UpRead(l) /\ edges' = es /\ ask' = ask
    BY <1>3, <1>a, RefuseIs DEF Refuses
  <2>3. ASSUME m.id # NoAsk PROVE Spent(m.id)' /\ Ends(Note("delivery_failed", m.id)) = m.id
    <3>1. PICK a \in Ask : a = m.id /\ Sending(l, 1, a)
      BY <1>3, <1>a, <2>1, <2>2, <2>3, HeadIs
    <3>2. Once(a) /\ 1 \in DOMAIN link[l].up
      BY <1>a, <3>1 DEF SentOnce, Sending
    <3>3. /\ ask[a].state # "unused" /\ Edge(edges, a) = {}
          /\ \A k \in Link : \A j \in DOMAIN link[k].up : Sending(k, j, a) => k = l /\ j = 1
      BY <3>1, <3>2 DEF Once
    <3>4. ASSUME NEW k \in Link, NEW i \in DOMAIN link'[k].up, Sending(k, i, a)' PROVE FALSE
      <4>1. CASE k # l
        <5>1. link'[k].up = link[k].up
          BY <2>2, <4>1 DEF UpRead
        <5> QED BY <3>3, <3>4, <4>1, <5>1 DEF Sending
      <4>2. CASE k = l
        <5>1. /\ i \in Nat /\ i # 0 /\ i + 1 \in DOMAIN link[l].up
              /\ link'[l].up[i] = link[l].up[i + 1]
          BY <1>a, <2>2, <4>2, UpReadIs
        <5>2. Sending(l, i + 1, a)
          BY <3>4, <4>2, <5>1 DEF Sending
        <5>3. i + 1 = 1
          BY <3>3, <5>1, <5>2
        <5> QED BY <5>1, <5>3
      <4> QED BY <4>1, <4>2
    <3>5. Spent(a)'
      BY <2>2, <3>3, <3>4 DEF Spent, Edge
    <3>6. Ends(Note("delivery_failed", a)) = a
      BY DEF Ends, Note
    <3> QED BY <3>1, <3>5, <3>6
  <2>4. Heard(link', IF m.id = NoAsk THEN {} ELSE {Note("delivery_failed", m.id)})
    BY <1>3, <1>a, <2>1, RefusesHeard
  <2> QED BY <1>1, <2>3, <2>4
<1>4. ASSUME NEW l \in Link, NEW es \in SUBSET edges, Receives(l, "send"), Passes(l, es)
      PROVE  NewsSpent'
  <2>1. PICK m : m = Head(link[l].up)
    OBVIOUS
  <2>2. PICK message :
          message = [type |-> "message", id |-> m.id, from |-> Owner(l), replyTo |-> m.replyTo]
    OBVIOUS
  <2>3. Ends(message) = m.replyTo /\ Ends(Note("delivered", m.id)) \notin Ask
    BY <2>2, BrokerAssumption DEF Ends, Note
  <2>4. ASSUME m.replyTo \in Ask PROVE Spent(m.replyTo)'
    <3>1. PICK a \in Ask : a = m.replyTo
      BY <2>4
    <3>2. ask'[a].replies = ask[a].replies + 1 /\ ask[a].replies \in Nat
      BY <1>4, <1>a, <2>1, <3>1, PassAsks, BrokerAssumption DEF TypeOK, AskState
    <3>3. ask'[a].replies # 0 /\ Once(a)'
      BY <1>a, <3>2 DEF SentOnce
    <3>4. Spent(a)'
      BY <3>3 DEF Once, Spent
    <3> QED BY <3>1, <3>4
  <2>5. Heard(link', {message, Note("delivered", m.id)})
    BY <1>4, <1>a, <2>1, <2>2, PassesHeard
  <2> QED BY <1>1, <2>3, <2>4, <2>5
<1>5. ASSUME NEW l \in Link, Sends(l) PROVE NewsSpent'
  <2>1. PICK es \in SUBSET edges : Passes(l, es) \/ Refuses(l, es)
    BY <1>5 DEF Sends
  <2> QED BY <1>3, <1>4, <1>5, <2>1 DEF Sends
<1>6. ASSUME Heard(link', {}) PROVE NewsSpent'
  BY <1>1, <1>6
<1> QED BY <1>2, <1>5, <1>6, <1>a, OthersHeard DEF Next, BrokerReads

---------------------------------------------------------------------------
(* Somebody waits for what a connection carries, or it will be taken away. *)

(* A connection that carries an ask is not dead, and the ask is not spent. *)
LEMMA CarriedAlive ==
    ASSUME BrokerInductive, EdgesExpected, NEW l \in Link, NEW i \in Nat, NEW a \in Ask,
           Carried(l, i, a)
    PROVE  link[l].remote # "gone" /\ ~Spent(a)
<1>1. CASE Sending(l, i, a)
  BY <1>1 DEF Sending, EdgesExpected, GoneSilent, Spent
<1>2. CASE \E e \in Edge(edges, a) : sessions[e.from] = l
  <2>1. PICK e \in Edge(edges, a) : sessions[e.from] = l
    BY <1>2
  <2>2. e.from \in Name /\ l # NoLink
    BY <2>1, BrokerAssumption DEF BrokerInductive, TypeOK, Edge, Link
  <2>3. Owner(l) = e.from
    BY <2>1, <2>2 DEF BrokerInductive, LinksSound
  <2> QED BY <2>1, <2>3 DEF EdgesExpected, GoneSilent, Spent
<1> QED BY <1>1, <1>2 DEF Carried

(* No ask comes, and no frame is lost.                                     *)
SameFrames ==
    \A k \in Link :
        /\ \A i \in DOMAIN link'[k].up :
              \/ i \in DOMAIN link[k].up /\ link'[k].up[i] = link[k].up[i]
              \/ ~IsAsk(link'[k].up[i])
        /\ \A i \in DOMAIN link[k].up : i \in DOMAIN link'[k].up /\ link'[k].up[i] = link[k].up[i]
        /\ link[k].local = "closed" /\ link[k].remote # "gone" => link'[k].local = "closed"

(* Whoever stops waiting has had the answer or the refusal, has nothing to *)
(* tell the broker, tells it, or leaves the connection.                    *)
StopsWaiting(a) ==
    LET c == ask[a].by
        l == client[c].link
    IN  \/ Spent(a) \/ l \notin Link
        \/ ask'[a].state = "unconfirmed"
        \/ ask'[a].state = "waiting" /\ ask'[a].by = c /\ client'[c].link = l
        \/ link'[l].local = "closed"
        \/ link[l].remote # "gone" =>
              \E j \in DOMAIN link'[l].up :
                 link'[l].up[j] = Note("cancel", a) /\ j > 0 /\ \A i \in DOMAIN link[l].up : j > i

LEMMA WaitingKept ==
    ASSUME BrokerInductive, EdgesExpected, SameFrames, UNCHANGED <<sessions, edges>>,
           \A a \in Ask : /\ ask[a].state = "unconfirmed" => ask'[a].state = "unconfirmed"
                          /\ ask[a].state = "waiting" => StopsWaiting(a)
    PROVE  CarriedExpected'
<1> SUFFICES ASSUME NEW l \in Link, NEW a \in Ask, NEW i \in Nat, Carried(l, i, a)'
             PROVE  Expected(l, i, a)'
  BY DEF CarriedExpected
<1>1. Carried(l, i, a)
  <2>1. CASE Sending(l, i, a)'
    <3>1. IsAsk(link'[l].up[i]) /\ i \in DOMAIN link'[l].up
      BY <2>1, BrokerAssumption DEF Sending, IsAsk
    <3>2. i \in DOMAIN link[l].up /\ link'[l].up[i] = link[l].up[i]
      BY <3>1 DEF SameFrames
    <3> QED BY <2>1, <3>2 DEF Sending, Carried
  <2>2. CASE i = 0 /\ \E e \in Edge(edges', a) : sessions'[e.from] = l
    BY <2>2 DEF Carried
  <2> QED BY <2>1, <2>2 DEF Carried, Edge
<1>2. Expected(l, i, a) /\ link[l].remote # "gone" /\ ~Spent(a)
  BY <1>1, CarriedAlive DEF EdgesExpected, CarriedExpected
<1>3. CASE ask[a].state = "unconfirmed"
  BY <1>3 DEF Expected
<1>4. CASE link[l].local = "closed"
  BY <1>2, <1>4 DEF SameFrames, Expected
<1>5. CASE \E j \in DOMAIN link[l].up : j > i /\ link[l].up[j] = Note("cancel", a)
  <2>1. \E j \in DOMAIN link'[l].up : j > i /\ link'[l].up[j] = Note("cancel", a)
    BY <1>5 DEF SameFrames
  <2> QED BY <2>1 DEF Expected
<1>6. CASE Asking(a) /\ ask[a].by = l[1] /\ client[l[1]].link = l
  <2>1. StopsWaiting(a)
    BY <1>6 DEF Asking
  <2>2. \/ ask'[a].state = "unconfirmed"
        \/ ask'[a].state = "waiting" /\ ask'[a].by = l[1] /\ client'[l[1]].link = l
        \/ link'[l].local = "closed"
        \/ \E j \in DOMAIN link'[l].up :
              link'[l].up[j] = Note("cancel", a) /\ j > 0 /\ \A k \in DOMAIN link[l].up : j > k
    BY <1>2, <1>6, <2>1 DEF StopsWaiting
  <2>3. i = 0 \/ i \in DOMAIN link[l].up
    BY <1>1 DEF Carried, Sending
  <2>4. ASSUME NEW j \in DOMAIN link'[l].up, link'[l].up[j] = Note("cancel", a), j > 0,
               \A k \in DOMAIN link[l].up : j > k
        PROVE  j > i /\ link'[l].up[j] = Note("cancel", a)
    BY <2>3, <2>4
  <2> QED BY <2>2, <2>4 DEF Expected, Asking
<1> QED BY <1>2, <1>3, <1>4, <1>5, <1>6 DEF Expected

LEMMA SentFrames ==
    ASSUME TypeOK, NEW l \in Link, NEW f \in Frame, ~IsAsk(f), link' = SendUp(l, f)
    PROVE  SameFrames
  BY SentIs DEF SameFrames

(* What a client reads. *)
LEMMA HeadNews ==
    ASSUME TypeOK, NewsSpent, NEW c \in Client, NEW type, Reads(c, type)
    PROVE  LET m == Head(link[client[c].link].down)
           IN  /\ m.type = type
               /\ Ends(m) \in Ask => Spent(Ends(m))
<1> DEFINE l == client[c].link
           q == link[l].down
<1>1. l \in Link
  BY DEF Reads, TypeOK
<1>2. q \in Seq(News) /\ q # <<>> /\ Head(q).type = type
  BY <1>1 DEF Reads, TypeOK, LinkState
<1> HIDE DEF q
<1>3. 1 \in DOMAIN q /\ Head(q) = q[1]
  BY <1>2, TailIs
<1> QED BY <1>1, <1>2, <1>3 DEF NewsSpent, q

LEMMA ClientWaits ==
    ASSUME BrokerInductive, EdgesExpected, NEW c \in Client,
           \/ \E l \in Link : Connects(c, l)
           \/ \E a \in Ask : Replies(c, a)
           \/ ClientReads(c) \/ Disconnects(c) \/ Dies(c)
    PROVE  CarriedExpected'
<1> DEFINE l == client[c].link
<1>a. TypeOK /\ link \in Links /\ \A k \in Link : link[k].up \in Seq(Frame)
  BY DEF BrokerInductive, TypeOK, Links, LinkState
<1>b. \A a \in Ask : ask[a].state = "waiting" => ask[a].by \in Client
  BY <1>a DEF TypeOK
<1>0. UNCHANGED <<sessions, edges>>
  BY DEF Connects, Replies, ClientReads, ReadsRegistered, ReadsMessage, ReadsDelivered, ReadsRefused,
         ReadsEnd, Disconnects, Dies
<1>1. ASSUME NEW new \in Link, Connects(c, new) PROVE CarriedExpected'
  <2>1. /\ link[new].up = <<>> /\ link[new].remote = "gone"
        /\ link'[new].up = <<Note("register", NoAsk)>>
        /\ \A k \in Link : k # new => link'[k] = link[k]
    BY <1>1, <1>a DEF Connects, TypeOK, Free
  <2>2. SameFrames
    <3>1. \A i \in DOMAIN link'[new].up : ~IsAsk(link'[new].up[i])
      BY <2>1 DEF IsAsk, Note
    <3> QED BY <2>1, <3>1 DEF SameFrames
  <2>3. /\ ask' = ask /\ \A k \in Client : k # c => client'[k] = client[k]
        /\ client[c].link \notin Link
    BY <1>1, <1>a, BrokerAssumption DEF Connects, Off, TypeOK, Link
  <2>4. \A a \in Ask : ask[a].state = "waiting" => StopsWaiting(a)
    BY <1>b, <2>3 DEF StopsWaiting
  <2> QED BY <1>0, <2>2, <2>3, <2>4, WaitingKept
<1>2. ASSUME NEW a \in Ask, Replies(c, a) PROVE CarriedExpected'
  <2> DEFINE f == [type |-> "send", id |-> NoAsk, to |-> Asker[a], replyTo |-> a]
  <2>1. f \in Frame /\ ~IsAsk(f)
    BY BrokerAssumption DEF Frame, Message, IsAsk
  <2>2. l \in Link /\ link' = SendUp(l, f) /\ ask' = ask /\ client' = client
    BY <1>2, <1>a DEF Replies, HasRoom, Connected, Off, TypeOK
  <2> HIDE DEF f, l
  <2>3. SameFrames
    BY <1>a, <2>1, <2>2, SentFrames
  <2>4. \A x \in Ask : ask[x].state = "waiting" => StopsWaiting(x)
    BY <2>2 DEF StopsWaiting
  <2> QED BY <1>0, <2>2, <2>3, <2>4, WaitingKept
<1>3. ASSUME ReadsRegistered(c) \/ ReadsMessage(c) \/ ReadsDelivered(c) \/ ReadsRefused(c)
      PROVE  SameFrames
  <2>1. l \in Link /\ link[l].down # <<>> /\ link' = Took(c)
    BY <1>3, <1>a DEF ReadsRegistered, ReadsMessage, ReadsDelivered, ReadsRefused, Reads, TypeOK
  <2>2. \A k \in Link : link'[k].up = link[k].up /\ link'[k].local = link[k].local
    BY <1>a, <2>1, TookIs
  <2> QED BY <2>2 DEF SameFrames
<1>4. ASSUME ReadsRegistered(c) PROVE CarriedExpected'
  <2>1. ask' = ask /\ \A k \in Client : client'[k].link = client[k].link
    BY <1>4, <1>a DEF ReadsRegistered, TypeOK
  <2>2. \A a \in Ask : ask[a].state = "waiting" => StopsWaiting(a)
    BY <1>b, <2>1 DEF StopsWaiting
  <2> QED BY <1>0, <1>3, <1>4, <2>1, <2>2, WaitingKept
<1>5. ASSUME ReadsMessage(c) PROVE CarriedExpected'
  <2> DEFINE m == Head(link[l].down)
             answered(a) == [Ended(a, "answered") EXCEPT !.from = {m.from}]
  <2>1. m.type = "message" /\ (Ends(m) \in Ask => Spent(Ends(m)))
    BY <1>5, <1>a, HeadNews DEF ReadsMessage, EdgesExpected
  <2>2. m.replyTo \in Ask => Spent(m.replyTo)
    BY <2>1 DEF Ends
  <2>3. /\ client' = client
        /\ \A a \in Ask : \/ ask'[a] = ask[a]
                          \/ a = m.replyTo /\ Asking(a) /\ ask'[a] = answered(a)
    BY <1>5 DEF ReadsMessage
  <2> HIDE DEF m, answered
  <2>4. \A a \in Ask : ask[a].state = "waiting" => StopsWaiting(a)
    BY <2>2, <2>3 DEF StopsWaiting
  <2>5. \A a \in Ask : ask[a].state = "unconfirmed" => ask'[a].state = "unconfirmed"
    BY <2>3 DEF Asking
  <2> QED BY <1>0, <1>3, <1>5, <2>4, <2>5, WaitingKept
<1>6. ASSUME ReadsDelivered(c) PROVE CarriedExpected'
  <2> DEFINE a == Head(link[l].down).id
  <2>1. client' = client /\ (ask' = ask \/ ask' = [ask EXCEPT ![a].sent = TRUE])
    BY <1>6 DEF ReadsDelivered
  <2> HIDE DEF a
  <2>2. ASSUME NEW x \in Ask PROVE ask'[x] = ask[x] \/ ask'[x] = [ask[x] EXCEPT !.sent = TRUE]
    <3>1. ask \in [Ask -> AskState]
      BY <1>a DEF TypeOK
    <3>2. CASE ask' = [ask EXCEPT ![a].sent = TRUE] /\ x = a
      BY <3>1, <3>2
    <3>3. CASE ask' = [ask EXCEPT ![a].sent = TRUE] /\ x # a
      BY <3>1, <3>3
    <3> QED BY <2>1, <3>2, <3>3
  <2>3. \A x \in Ask : ask'[x].state = ask[x].state /\ ask'[x].by = ask[x].by
    BY <1>a, <2>2, Records DEF TypeOK
  <2>4. \A x \in Ask : ask[x].state = "waiting" => StopsWaiting(x)
    BY <2>1, <2>3 DEF StopsWaiting
  <2> QED BY <1>0, <1>3, <1>6, <2>3, <2>4, WaitingKept
<1>7. ASSUME ReadsRefused(c) PROVE CarriedExpected'
  <2> DEFINE m == Head(link[l].down)
  <2>1. m.type = "delivery_failed" /\ (Ends(m) \in Ask => Spent(Ends(m)))
    BY <1>7, <1>a, HeadNews DEF ReadsRefused, EdgesExpected
  <2>2. m.id \in Ask => Spent(m.id)
    BY <2>1 DEF Ends
  <2>3. /\ client' = client
        /\ \/ ask' = ask
           \/ Asking(m.id) /\ ask' = [ask EXCEPT ![m.id] = Ended(m.id, "failed")]
    BY <1>7 DEF ReadsRefused
  <2> HIDE DEF m
  <2>4. \A a \in Ask : ask'[a] = ask[a] \/ (a = m.id /\ Asking(a))
    BY <1>a, <2>3 DEF TypeOK
  <2>5. \A a \in Ask : ask[a].state = "waiting" => StopsWaiting(a)
    BY <2>2, <2>3, <2>4 DEF StopsWaiting
  <2>6. \A a \in Ask : ask[a].state = "unconfirmed" => ask'[a].state = "unconfirmed"
    BY <2>4 DEF Asking
  <2> QED BY <1>0, <1>3, <1>7, <2>5, <2>6, WaitingKept
<1>8. ASSUME ReadsEnd(c) \/ Dies(c) \/ Disconnects(c) PROVE CarriedExpected'
  <2>1. Leaves(c) /\ l \in Link
    BY <1>8, <1>a DEF ReadsEnd, Dies, Disconnects, Connected, Off, TypeOK
  <2>2. SameFrames /\ link'[l].local = "closed"
    <3>1. CASE ReadsEnd(c)
      <4>1. /\ \A k \in Link : link'[k].up = link[k].up
            /\ \A k \in Link : link[k].local = "closed" => link'[k].local = "closed"
            /\ link'[l].local = "closed"
        BY <2>1, <3>1, <1>a DEF ReadsEnd, Links, LinkState
      <4> QED BY <4>1 DEF SameFrames
    <3>2. CASE Dies(c)
      <4>1. link' = Shut(link, l)
        BY <3>2 DEF Dies
      <4> HIDE DEF l
      <4>2. /\ \A k \in Link : k # l => link'[k] = link[k]
            /\ link'[l].up = link[l].up /\ link'[l].local = "closed"
        BY <1>a, <2>1, <4>1, ShutIs
      <4> QED BY <2>1, <4>2 DEF SameFrames
    <3>3. CASE Disconnects(c)
      <4> DEFINE f == Note("unregister", NoAsk)
                 sent == SendUp(l, f)
      <4>1. f \in Frame /\ ~IsAsk(f)
        BY Shapes DEF IsAsk, Note
      <4>2. link' = Shut(sent, l)
        BY <3>3 DEF Disconnects
      <4> HIDE DEF l, f
      <4>3. /\ sent \in Links /\ \A k \in Link : sent[k].local = link[k].local
            /\ \A k \in Link : \A i \in DOMAIN sent[k].up :
                 \/ i \in DOMAIN link[k].up /\ sent[k].up[i] = link[k].up[i]
                 \/ sent[k].up[i] = f
            /\ \A k \in Link : \A i \in DOMAIN link[k].up :
                 i \in DOMAIN sent[k].up /\ sent[k].up[i] = link[k].up[i]
        BY <1>a, <2>1, <4>1, SentIs
      <4> HIDE DEF sent
      <4>4. /\ \A k \in Link : k # l => link'[k] = sent[k]
            /\ link'[l].up = sent[l].up /\ link'[l].local = "closed"
        BY <2>1, <4>2, <4>3, ShutIs
      <4> QED BY <4>1, <4>3, <4>4 DEF SameFrames
    <3> QED BY <1>8, <3>1, <3>2, <3>3
  <2>3. \A a \in Ask : \/ ask'[a] = ask[a] /\ ~(Asking(a) /\ ask[a].by = c)
                       \/ Asking(a) /\ ask[a].by = c
    BY <2>1 DEF Leaves, Failed
  <2>4. \A k \in Client : k # c => client'[k] = client[k]
    BY <1>a, <2>1, LeavesIs
  <2>5. \A a \in Ask : ask[a].state = "waiting" => StopsWaiting(a)
    BY <1>b, <2>2, <2>3, <2>4 DEF StopsWaiting, Asking
  <2>6. \A a \in Ask : ask[a].state = "unconfirmed" => ask'[a].state = "unconfirmed"
    BY <2>3 DEF Asking
  <2> QED BY <1>0, <2>2, <2>5, <2>6, WaitingKept
<1> QED BY <1>1, <1>2, <1>4, <1>5, <1>6, <1>7, <1>8 DEF ClientReads

LEMMA TimeWaits ==
    ASSUME BrokerInductive, EdgesExpected, NEW a \in Ask, AskTimesOut(a) \/ SendTimesOut(a)
    PROVE  CarriedExpected'
<1>a. TypeOK /\ ask \in [Ask -> AskState]
  BY DEF BrokerInductive, TypeOK
<1>1. CASE SendTimesOut(a)
  <2>1. /\ UNCHANGED <<sessions, edges, link, client>> /\ ask[a].state = "waiting"
        /\ ask' = [ask EXCEPT ![a] = Ended(a, "unconfirmed")]
    BY <1>1 DEF SendTimesOut, Asking
  <2>2. /\ ask'[a].state = "unconfirmed"
        /\ \A x \in Ask : x # a => ask'[x] = ask[x]
    BY <1>a, <2>1, EndedIs
  <2>3. \A x \in Ask : ask[x].state = "waiting" => StopsWaiting(x)
    BY <2>1, <2>2 DEF StopsWaiting
  <2>4. SameFrames
    BY <2>1 DEF SameFrames
  <2> QED BY <2>1, <2>2, <2>3, <2>4, WaitingKept
<1>2. CASE AskTimesOut(a)
  <2> DEFINE l == client[ask[a].by].link
             f == Note("cancel", a)
  <2>1. /\ l \in Link /\ f \in Frame /\ ~IsAsk(f) /\ link' = SendUp(l, f)
        /\ UNCHANGED <<sessions, edges, client>> /\ ask[a].state = "waiting"
        /\ \A x \in Ask : x # a => ask'[x] = ask[x]
    BY <1>2, <1>a, Shapes DEF AskTimesOut, Connected, Off, Asking, TypeOK, Note, IsAsk
  <2> HIDE DEF l, f
  <2>2. link[l].remote # "gone" =>
          \E j \in DOMAIN link'[l].up : link'[l].up[j] = f /\ j > 0 /\ \A i \in DOMAIN link[l].up : j > i
    BY <1>a, <2>1, SentIs
  <2>3. StopsWaiting(a)
    BY <2>2 DEF StopsWaiting, l, f
  <2>4. \A x \in Ask : ask[x].state = "waiting" => StopsWaiting(x)
    BY <2>1, <2>3 DEF StopsWaiting
  <2>5. SameFrames
    BY <1>a, <2>1, SentFrames
  <2>6. \A x \in Ask : ask[x].state = "unconfirmed" => ask'[x].state = "unconfirmed"
    BY <2>1
  <2> QED BY <2>1, <2>4, <2>5, <2>6, WaitingKept
<1> QED BY <1>1, <1>2

(* An ask is sent on the connection on which its client waits for it.      *)
LEMMA AskWaits ==
    ASSUME BrokerInductive, EdgesExpected,
           NEW c \in Client, NEW a \in Ask, NEW re \in Ask \cup {NoAsk}, Asks(c, a, re)
    PROVE  CarriedExpected'
<1> DEFINE new == client[c].link
           f == [type |-> "send", id |-> a, to |-> Asked[a], replyTo |-> re]
<1>a. TypeOK
  BY DEF BrokerInductive
<1>1. /\ new \in Link /\ new[1] = c /\ link' = SendUp(new, f) /\ ask[a].state = "unused"
      /\ UNCHANGED <<sessions, edges, client>>
  BY <1>a DEF Asks, HasRoom, Connected, Off, TypeOK
<1>2. f \in Frame /\ f.id = a
  BY BrokerAssumption DEF Frame, Message
<1>3. /\ ask'[a].state = "waiting" /\ ask'[a].by = c
      /\ \A x \in Ask : x # a => ask'[x] = ask[x]
  BY <1>a DEF Asks, TypeOK
<1>4. client[c].link = new
  OBVIOUS
<1> HIDE DEF new, f
<1>5. /\ \A k \in Link : link'[k].local = link[k].local
      /\ \A k \in Link : \A i \in DOMAIN link'[k].up :
           \/ i \in DOMAIN link[k].up /\ link'[k].up[i] = link[k].up[i]
           \/ k = new /\ link'[k].up[i] = f
      /\ \A k \in Link : \A i \in DOMAIN link[k].up :
           i \in DOMAIN link'[k].up /\ link'[k].up[i] = link[k].up[i]
  BY <1>1, <1>2, <1>a, SentIs
<1> SUFFICES ASSUME NEW l \in Link, NEW b \in Ask, NEW i \in Nat, Carried(l, i, b)'
             PROVE  Expected(l, i, b)'
  BY DEF CarriedExpected
<1>6. CASE b = a
  <2>1. Edge(edges, a) = {} /\ \A k \in Link : \A j \in DOMAIN link[k].up : ~Sending(k, j, a)
    BY <1>1 DEF BrokerInductive, SentOnce, Once
  <2>2. Sending(l, i, a)'
    BY <1>1, <1>6, <2>1 DEF Carried, Edge
  <2>3. l = new
    BY <1>5, <2>1, <2>2 DEF Sending
  <2> QED BY <1>1, <1>3, <1>4, <1>6, <2>3 DEF Expected, Asking
<1>7. CASE b # a
  <2>1. Carried(l, i, b)
    <3>1. Sending(l, i, b)' => Sending(l, i, b)
      BY <1>2, <1>5, <1>7 DEF Sending
    <3> QED BY <1>1, <3>1 DEF Carried, Edge
  <2>2. Expected(l, i, b)
    BY <2>1 DEF EdgesExpected, CarriedExpected
  <2>3. (\E j \in DOMAIN link[l].up : j > i /\ link[l].up[j] = Note("cancel", b)) =>
          \E j \in DOMAIN link'[l].up : j > i /\ link'[l].up[j] = Note("cancel", b)
    BY <1>5
  <2> QED BY <1>1, <1>3, <1>5, <1>7, <2>2, <2>3 DEF Expected, Asking
<1> QED BY <1>6, <1>7

---------------------------------------------------------------------------
(* The broker reads: the ask at the head becomes an edge, and a            *)
(* cancellation at the head takes the edge of its ask away.                *)
LEMMA ReadWaits ==
    ASSUME BrokerInductive, EdgesExpected, NEW l \in Link, UpRead(l), client' = client,
           \A k \in Link : link'[k].local = link[k].local,
           \A a \in Ask : ask'[a].state = ask[a].state /\ ask'[a].by = ask[a].by,
           \A a \in Ask : \A e \in Edge(edges', a) :
              \/ /\ e \in edges /\ sessions'[e.from] = sessions[e.from]
                 /\ Head(link[l].up) = Note("cancel", a) => sessions[e.from] # l
              \/ sessions'[e.from] = l /\ Sending(l, 1, a)
    PROVE  CarriedExpected'
<1>a. TypeOK
  BY DEF BrokerInductive
<1>b. /\ 1 \in DOMAIN link[l].up /\ link[l].up[1] = Head(link[l].up)
      /\ \A i \in DOMAIN link'[l].up : i \in Nat /\ i # 0 /\ link'[l].up[i] = link[l].up[i + 1]
                                       /\ i + 1 \in DOMAIN link[l].up
      /\ \A j \in DOMAIN link[l].up :
           /\ j \in Nat
           /\ j > 1 => j - 1 \in DOMAIN link'[l].up /\ link'[l].up[j - 1] = link[l].up[j]
  BY <1>a, UpReadIs
<1>c. \A k \in Link : k # l => link'[k].up = link[k].up
  BY DEF UpRead
<1> SUFFICES ASSUME NEW k \in Link, NEW a \in Ask, NEW i \in Nat, Carried(k, i, a)'
             PROVE  Expected(k, i, a)'
  BY DEF CarriedExpected
(* Frame n is frame i after the read, or i is 0 and the head says nothing. *)
<1>1. ASSUME NEW n \in Nat, Expected(k, n, a),
             k = l => n = i + 1 \/ (n = 0 /\ i = 0 /\ Head(link[l].up) # Note("cancel", a)),
             k # l => n = i
      PROVE  Expected(k, i, a)'
  <2>1. CASE \E j \in DOMAIN link[k].up : j > n /\ link[k].up[j] = Note("cancel", a)
    <3>1. PICK j \in DOMAIN link[k].up : j > n /\ link[k].up[j] = Note("cancel", a)
      BY <2>1
    <3>2. CASE k # l
      <4>1. j \in DOMAIN link'[k].up /\ j > i /\ link'[k].up[j] = Note("cancel", a)
        BY <1>1, <1>c, <3>1, <3>2
      <4> QED BY <4>1 DEF Expected
    <3>3. CASE k = l
      <4>1. j \in Nat /\ j > 1 /\ j - 1 > i
        BY <1>1, <1>b, <3>1, <3>3
      <4>2. j - 1 \in DOMAIN link'[k].up /\ link'[k].up[j - 1] = Note("cancel", a)
        BY <1>b, <3>1, <3>3, <4>1
      <4> QED BY <4>1, <4>2 DEF Expected
    <3> QED BY <3>2, <3>3
  <2> QED BY <1>1, <2>1 DEF Expected, Asking
<1>2. ASSUME NEW n \in Nat, Carried(k, n, a) PROVE Expected(k, n, a)
  BY <1>2 DEF EdgesExpected, CarriedExpected
<1>3. CASE Sending(k, i, a)'
  <2>1. CASE k # l
    <3>1. Sending(k, i, a)
      BY <1>3, <1>c, <2>1 DEF Sending
    <3> QED BY <1>1, <1>2, <2>1, <3>1 DEF Carried
  <2>2. CASE k = l
    <3>1. Sending(l, i + 1, a)
      BY <1>3, <1>b, <2>2 DEF Sending
    <3> QED BY <1>1, <1>2, <2>2, <3>1 DEF Carried
  <2> QED BY <2>1, <2>2
<1>4. CASE i = 0 /\ \E e \in Edge(edges', a) : sessions'[e.from] = k
  <2>1. PICK e \in Edge(edges', a) : sessions'[e.from] = k
    BY <1>4
  <2>2. CASE sessions'[e.from] = l /\ Sending(l, 1, a)
    BY <1>1, <1>2, <1>4, <2>1, <2>2 DEF Carried
  <2>3. CASE /\ e \in edges /\ sessions'[e.from] = sessions[e.from]
             /\ Head(link[l].up) = Note("cancel", a) => sessions[e.from] # l
    <3>1. Carried(k, 0, a)
      BY <2>1, <2>3 DEF Carried, Edge
    <3> QED BY <1>1, <1>2, <1>4, <2>1, <2>3, <3>1
  <2> QED BY <2>1, <2>2, <2>3
<1> QED BY <1>3, <1>4 DEF Carried

LEMMA BrokerWaits ==
    ASSUME BrokerInductive, EdgesExpected, NEW l \in Link,
           Registers(l) \/ Sends(l) \/ Cancels(l) \/ Unregisters(l) \/ Closes(l)
    PROVE  CarriedExpected'
<1>a. /\ TypeOK /\ EdgesSound
      /\ \A n \in Name : sessions[n] # NoLink => Owner(sessions[n]) = n
      /\ \A e \in edges : e.from \in Name
      /\ NoLink \notin Link
  BY BrokerAssumption DEF BrokerInductive, TypeOK, LinksSound, Link
<1>1. CASE Registers(l)
  <2>1. /\ sessions' = [sessions EXCEPT ![Owner(l)] = l] /\ edges' \subseteq edges /\ UpRead(l)
        /\ sessions[Owner(l)] # NoLink => \A e \in edges' : e.from # Owner(l)
        /\ \A k \in Link : link'[k].local = link[k].local
        /\ client' = client /\ ask' = ask
    BY <1>1, <1>a, RegistersIs
  <2>2. Head(link[l].up).type = "register"
    BY <1>1 DEF Registers, Receives
  <2>3. \A a \in Ask : Head(link[l].up) # Note("cancel", a)
    BY <2>2 DEF Note
  <2>4. \A e \in edges' : e \in edges /\ sessions'[e.from] = sessions[e.from]
    BY <1>a, <2>1 DEF EdgesSound, TypeOK
  <2> QED BY <2>1, <2>3, <2>4, ReadWaits DEF Edge
<1>2. CASE Cancels(l)
  <2>1. UpRead(l) /\ EndsSame
    BY <1>2, <1>a, ReadOnlyIs DEF ReadOnly
  <2>2. /\ UNCHANGED <<sessions, client, ask>>
        /\ edges' = {e \in edges : e.id # Head(link[l].up).id \/ e.from # Owner(l)}
    BY <1>2 DEF Cancels
  <2>3. ASSUME NEW a \in Ask, NEW e \in Edge(edges', a), Head(link[l].up) = Note("cancel", a)
        PROVE  sessions[e.from] # l
    <3>1. e \in edges /\ e.id = a /\ (e.id # Head(link[l].up).id \/ e.from # Owner(l))
      BY <2>2, <2>3 DEF Edge
    <3>2. e.from # Owner(l)
      BY <2>3, <3>1 DEF Note
    <3> QED BY <1>a, <3>1, <3>2
  <2>4. \A a \in Ask : \A e \in Edge(edges', a) : e \in edges
    BY <2>2 DEF Edge
  <2> QED BY <2>1, <2>2, <2>3, <2>4, ReadWaits DEF EndsSame
<1>3. ASSUME Removes(l)
      PROVE  edges' \subseteq edges /\ \A e \in edges' : sessions'[e.from] = sessions[e.from]
  BY <1>3, <1>a, RemovesIs
<1>4. CASE Unregisters(l)
  <2>1. UpRead(l) /\ EndsSame /\ UNCHANGED <<client, ask>>
    BY <1>4, <1>a, ReadOnlyIs DEF ReadOnly, Unregisters
  <2>2. Head(link[l].up).type = "unregister"
    BY <1>4 DEF Unregisters, Receives
  <2>3. \A a \in Ask : Head(link[l].up) # Note("cancel", a)
    BY <2>2 DEF Note
  <2>4. \A e \in edges' : e \in edges /\ sessions'[e.from] = sessions[e.from]
    BY <1>3, <1>4 DEF Unregisters
  <2> QED BY <2>1, <2>3, <2>4, ReadWaits DEF Edge, EndsSame
<1>5. CASE Closes(l)
  <2>1. /\ link'[l] = Free /\ \A k \in Link : k # l => link'[k] = link[k]
        /\ UNCHANGED <<client, ask>>
    BY <1>5, <1>a, ClosesIs DEF Closes
  <2>2. \A e \in edges' : e \in edges /\ sessions'[e.from] = sessions[e.from]
    BY <1>3, <1>5 DEF Closes
  <2> SUFFICES ASSUME NEW k \in Link, NEW a \in Ask, NEW i \in Nat, Carried(k, i, a)'
               PROVE  Expected(k, i, a)'
    BY DEF CarriedExpected
  <2>3. CASE k = l
    BY <2>1, <2>3 DEF Expected, Free
  <2>4. CASE k # l
    <3>1. Carried(k, i, a)
      BY <2>1, <2>2, <2>4 DEF Carried, Sending, Edge
    <3>2. Expected(k, i, a)
      BY <3>1 DEF EdgesExpected, CarriedExpected
    <3> QED BY <2>1, <2>4, <3>2 DEF Expected, Asking
  <2> QED BY <2>3, <2>4
<1>6. CASE Sends(l)
  <2>1. PICK es \in SUBSET edges : Passes(l, es) \/ Refuses(l, es)
    BY <1>6 DEF Sends
  <2>2. Receives(l, "send") /\ UNCHANGED <<sessions, client>>
    BY <1>6 DEF Sends
  <2>3. UpRead(l) /\ EndsSame
    BY <1>a, <2>1, <2>2, PassIs, RefuseIs
  <2>4. \A a \in Ask : Head(link[l].up) # Note("cancel", a)
    BY <2>2 DEF Receives, Note
  <2>5. CASE Refuses(l, es)
    BY <2>2, <2>3, <2>4, <2>5, ReadWaits DEF Refuses, Edge, EndsSame
  <2>6. CASE Passes(l, es)
    <3>1. PICK m : m = Head(link[l].up)
      OBVIOUS
    <3>2. /\ sessions[Owner(l)] = l
          /\ \A e \in edges' : \/ e \in edges
                               \/ e = [id |-> m.id, from |-> Owner(l), to |-> m.to] /\ m.id # NoAsk
      BY <2>6, <3>1 DEF Passes, Accepts, Remaining
    <3>3. m.id # NoAsk => Sending(l, 1, m.id)
      BY <1>a, <2>2, <2>3, <3>1, HeadIs
    <3>4. \A a \in Ask : ask'[a].state = ask[a].state /\ ask'[a].by = ask[a].by
      BY <1>a, <2>6, PassAsks
    <3>5. ASSUME NEW a \in Ask, NEW e \in Edge(edges', a), e \notin edges
          PROVE  sessions'[e.from] = l /\ Sending(l, 1, a)
      <4>1. e \in edges' /\ e.id = a
        BY <3>5 DEF Edge
      <4>2. e.id = m.id /\ e.from = Owner(l) /\ m.id # NoAsk
        BY <3>2, <3>5, <4>1
      <4> QED BY <2>2, <3>2, <3>3, <4>1, <4>2
    <3> QED BY <2>2, <2>3, <2>4, <3>4, <3>5, ReadWaits DEF EndsSame
  <2> QED BY <2>1, <2>5, <2>6
<1> QED BY <1>1, <1>2, <1>4, <1>5, <1>6

LEMMA StepWaits ==
    ASSUME BrokerInductive, EdgesExpected, [Next]_vars
    PROVE  CarriedExpected'
<1>1. CASE UNCHANGED vars
  BY <1>1 DEF vars, EdgesExpected, CarriedExpected, Carried, Expected, Sending, Edge, Asking
<1>2. CASE BrokerDies
  <2>1. edges' = {} /\ \A k \in Link : link'[k].up = <<>>
    BY <1>2, BrokerDiesIs DEF BrokerInductive, Free
  <2> QED BY <2>1 DEF CarriedExpected, Carried, Sending, Edge
<1> QED BY <1>1, <1>2, ClientWaits, TimeWaits, AskWaits, BrokerWaits DEF Next, BrokerReads

---------------------------------------------------------------------------
(* Whatever a connection carries is expected, and what ends an ask is said *)
(* only when the broker has nothing more of it (handleMessage, cancelAsk). *)
THEOREM EdgesInvariant == Spec => [](BrokerInductive /\ EdgesExpected)
<1>1. Init => EdgesExpected
  <2> SUFFICES ASSUME Init PROVE EdgesExpected
    OBVIOUS
  <2>1. \A l \in Link : link[l] = Free
    BY DEF Init
  <2>2. GoneSilent
    BY <2>1, OwnerIs, BrokerAssumption DEF Init, GoneSilent, Free, Link
  <2>3. NewsSpent /\ CarriedExpected
    BY <2>1 DEF Init, NewsSpent, CarriedExpected, Carried, Sending, Edge, Free
  <2> QED BY <2>2, <2>3 DEF EdgesExpected
<1>2. BrokerInductive /\ EdgesExpected /\ [Next]_vars => BrokerInductive' /\ EdgesExpected'
  <2> SUFFICES ASSUME BrokerInductive, EdgesExpected, [Next]_vars
               PROVE  BrokerInductive' /\ EdgesExpected'
    OBVIOUS
  <2>1. BrokerInductive'
    BY StepTypes, StepLinks, StepAsks DEF BrokerInductive
  <2>2. GoneSilent' /\ NewsSpent' /\ CarriedExpected'
    BY <2>1, StepSilent, StepNews, StepWaits DEF BrokerInductive, EdgesExpected
  <2> QED BY <2>1, <2>2 DEF EdgesExpected
<1> QED BY <1>1, <1>2, InitHolds, PTL DEF Spec

(* An edge stands for a session that waits, or its cancellation or the end *)
(* of its connection is on the way, unless its sending was never confirmed *)
(* (ask, cancelAsk, cancel_ask).                                           *)
THEOREM EdgesStandForWaiters == Spec => []EdgeIsWaitedFor
<1>1. BrokerInductive /\ EdgesExpected => EdgeIsWaitedFor
  <2> SUFFICES ASSUME BrokerInductive, EdgesExpected, NEW e \in edges,
                      NEW l, l = sessions[e.from]
               PROVE  \/ ask[e.id].state \in {"waiting", "unconfirmed"}
                      \/ Note("cancel", e.id) \in ToSet(link[l].up)
                      \/ link[l].local = "closed"
    BY DEF EdgeIsWaitedFor
  <2>1. e.id \in Ask /\ l \in Link
    BY DEF BrokerInductive, TypeOK, EdgesSound
  <2>2. Carried(l, 0, e.id)
    BY DEF Carried, Edge
  <2>3. Expected(l, 0, e.id)
    BY <2>1, <2>2 DEF EdgesExpected, CarriedExpected
  <2>4. (\E j \in DOMAIN link[l].up : link[l].up[j] = Note("cancel", e.id)) =>
            Note("cancel", e.id) \in ToSet(link[l].up)
    BY DEF ToSet
  <2> QED BY <2>3, <2>4 DEF Expected, Asking
<1> QED BY <1>1, EdgesInvariant, PTL

---------------------------------------------------------------------------
(* The broker refuses the ask that would close a circle of two.  While     *)
(* specialists may not ask each other this excludes all circles, because   *)
(* the hub is at one end of every edge.                                    *)
HubEdges == \A e \in edges : e.from = Hub \/ e.to = Hub

NoCircle ==
    \A n \in Nat \ {0} : \A e \in [1 .. n -> edges] :
        ~ /\ \A i \in 1 .. n - 1 : e[i].to = e[i + 1].from
          /\ e[n].to = e[1].from

LEMMA StepHubEdges ==
    ASSUME ~AllowPeers, HubEdges, [Next]_vars
    PROVE  HubEdges'
<1>1. ASSUME edges' \subseteq edges PROVE HubEdges'
  BY <1>1 DEF HubEdges
<1>2. ASSUME NEW l \in Link, Removes(l) PROVE HubEdges'
  BY <1>1, <1>2 DEF Removes, Without
<1>3. ASSUME NEW l \in Link, Sends(l) PROVE HubEdges'
  <2>1. PICK es \in SUBSET edges : Passes(l, es) \/ Refuses(l, es)
    BY <1>3 DEF Sends
  <2>2. CASE Refuses(l, es)
    BY <1>1, <2>2 DEF Refuses
  <2>3. CASE Passes(l, es)
    BY <2>3 DEF Passes, Accepts, AclAllows, Remaining, HubEdges
  <2> QED BY <2>1, <2>2, <2>3
<1>4. ASSUME NEW l \in Link, Registers(l) \/ Cancels(l) \/ Unregisters(l) \/ Closes(l)
      PROVE  HubEdges'
  BY <1>1, <1>2, <1>4 DEF Registers, Cancels, Unregisters, Closes, Without
<1>5. CASE BrokerDies
  BY <1>1, <1>5 DEF BrokerDies
<1>6. ASSUME NEW c \in Client,
             \/ \E l \in Link : Connects(c, l)
             \/ \E a \in Ask : Replies(c, a) \/ \E re \in Ask \cup {NoAsk} : Asks(c, a, re)
             \/ ClientReads(c) \/ Disconnects(c) \/ Dies(c)
      PROVE  HubEdges'
  <2>1. edges' = edges
    BY <1>6 DEF Connects, Replies, Asks, ClientReads, ReadsRegistered, ReadsMessage, ReadsDelivered,
                ReadsRefused, ReadsEnd, Disconnects, Dies
  <2> QED BY <1>1, <2>1
<1>7. ASSUME NEW a \in Ask, AskTimesOut(a) \/ SendTimesOut(a) PROVE HubEdges'
  BY <1>1, <1>7 DEF AskTimesOut, SendTimesOut
<1>8. CASE UNCHANGED vars
  BY <1>1, <1>8 DEF vars
<1> QED BY <1>3, <1>4, <1>5, <1>6, <1>7, <1>8 DEF Next, BrokerReads

LEMMA HubBreaksCircles ==
    ASSUME HubEdges, EdgesSound
    PROVE  NoCircle
<1> SUFFICES ASSUME NEW n \in Nat \ {0}, NEW e \in [1 .. n -> edges],
                    \A i \in 1 .. n - 1 : e[i].to = e[i + 1].from, e[n].to = e[1].from
             PROVE  FALSE
  BY DEF NoCircle
<1>1. \A x, y \in edges : ~(y.from = x.to /\ y.to = x.from)
  BY DEF EdgesSound
(* The edge that leaves the hub, and the next one, which comes back.       *)
<1>2. ASSUME NEW x \in edges, NEW y \in edges, x.from = Hub, y.from = x.to PROVE FALSE
  <2>1. y.to = Hub
    BY <1>1, <1>2 DEF HubEdges
  <2> QED BY <1>1, <1>2, <2>1
<1>3. \A i \in 1 .. n : e[i] \in edges
  OBVIOUS
<1>4. n = 1 \/ (1 \in 1 .. n /\ 2 \in 1 .. n /\ e[1].to = e[2].from)
  <2>1. ASSUME n # 1 PROVE 1 \in 1 .. n - 1 /\ 1 + 1 = 2 /\ 2 \in 1 .. n /\ 1 \in 1 .. n
    BY <2>1
  <2> QED BY <2>1
<1>5. CASE n = 1
  BY <1>1, <1>3, <1>5
<1>6. CASE n # 1 /\ e[1].from = Hub
  BY <1>2, <1>3, <1>4, <1>6
<1>7. CASE n # 1 /\ e[1].to = Hub
  <2>1. e[2].from = Hub /\ e[1] \in edges /\ e[2] \in edges
    BY <1>3, <1>4, <1>7
  <2>2. CASE n = 2
    BY <1>1, <2>1, <2>2, <1>4
  <2>3. CASE n # 2
    <3>1. 2 \in 1 .. n - 1 /\ 2 + 1 \in 1 .. n
      BY <1>7, <2>3
    <3>2. e[2 + 1].from = e[2].to /\ e[2 + 1] \in edges
      BY <1>3, <3>1
    <3> QED BY <1>2, <2>1, <3>2
  <2> QED BY <2>2, <2>3
<1> QED BY <1>3, <1>4, <1>5, <1>6, <1>7 DEF HubEdges

(* Unless specialists may ask each other, no circle of sessions, however   *)
(* long, waits for itself, although the broker compares an ask only with   *)
(* the edges in the opposite direction (handleMessage).                    *)
THEOREM NobodyWaitsInCircles == ~AllowPeers => (Spec => []NoCircle)
<1> SUFFICES ASSUME ~AllowPeers PROVE Spec => []NoCircle
  OBVIOUS
<1>1. Init => HubEdges
  BY DEF Init, HubEdges
<1>2. HubEdges /\ [Next]_vars => HubEdges'
  BY StepHubEdges
<1>3. HubEdges /\ EdgesSound => NoCircle
  BY HubBreaksCircles
<1> QED BY <1>1, <1>2, <1>3, EdgesStaySound, PTL DEF Spec
===============================================================================
