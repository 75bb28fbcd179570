------------------------------------ MODULE Hub ------------------------------------
(***************************************************************************)
(* The WebSocket hub, ws/hub.go: the goroutine of Run, the readPump and    *)
(* writePump of every client, the publishers and Stop.  They meet in the   *)
(* channels register and unregister (a rendezvous is one step), broadcast  *)
(* and each client's send, in the client's groups and in its connection.   *)
(*                                                                         *)
(* A message is named by its position in the sequence of those published.  *)
(* Messages that no case of handleMessage fits, among them the method      *)
(* UNSUBSCRIBE, change nothing and are left out.                           *)
(***************************************************************************)
EXTENDS Integers, Sequences

CONSTANTS
    Clients,       \* a Client per connection; one that returns is another
    Kinds,         \* "trade", "ticker", "orderbook", ...
    Symbols,
    NoSymbol,      \* a topic without a symbol
    TopicSets,     \* what a request may name: sets of topics
    BroadcastCap,  \* cap(broadcast), SendBufferSize in the code
    SendCap,       \* cap(send), 1024 in the code
    MaxMessages,   \* bound of the model: messages published
    MaxRequests    \* bound of the model: requests of one client

ASSUME HubAssumption ==
    /\ NoSymbol \notin Symbols
    /\ BroadcastCap \in Nat \ {0} /\ SendCap \in Nat \ {0}
    /\ MaxMessages \in Nat /\ MaxRequests \in Nat

\* topic, or topic + "_" + symbol.
Topics == Kinds \X (Symbols \cup {NoSymbol})

ASSUME TopicAssumption == TopicSets \subseteq SUBSET Topics

Ack == 0    \* what a client is answered: subscribed or pong

VARIABLES
    published,  \* the kind and symbol of each message that got into broadcast
    broadcast,  \* the messages in the broadcast channel
    hub,        \* Run: "idle", "delivering" or "exited"
    cancelled,  \* Stop has been called
    message,    \* the message Run is delivering
    todo,       \* the clients its loop has not come to yet
    clients,    \* Hub.clients
    groups,     \* Client.groups
    send,       \* Client.send
    closed,     \* Client.send is closed
    conn,       \* the connection: "none", "open" or "closed"
    reader,     \* HandleWebSocket and then readPump
    topics,     \* the topics of the request readPump handles
    pending,    \* those it has not come to yet
    requests,   \* how many requests the client has made
    writer,     \* writePump
    left,       \* how many messages writePump still adds to its frame
    taken,      \* history: what writePump has taken from send, in order
    missed,     \* history: pairs of a client and a message its full buffer made it miss
    acked,      \* history: pairs of a client and a topic it was answered for
    owed        \* history: acked when each message was published, less what was given up

clientVars == <<groups, send, closed, conn, reader, topics, pending, requests, writer, left>>
historyVars == <<taken, missed, acked, owed>>
vars == <<published, broadcast, hub, cancelled, message, todo, clients, clientVars, historyVars>>

\* The topic Publish gives a message: its kind alone.
TopicOf(m) == <<published[m].kind, NoSymbol>>

\* The topic a client's request for the kind and symbol of a message names.
RequestedTopic(m) == <<published[m].kind, published[m].symbol>>

Init ==
    /\ published = <<>> /\ broadcast = <<>>
    /\ hub = "idle" /\ cancelled = FALSE
    /\ message = 0 /\ todo = {} /\ clients = {}
    /\ groups = [c \in Clients |-> {}]
    /\ send = [c \in Clients |-> <<>>]
    /\ closed = [c \in Clients |-> FALSE]
    /\ conn = [c \in Clients |-> "none"]
    /\ reader = [c \in Clients |-> "none"]
    /\ topics = [c \in Clients |-> {}]
    /\ pending = [c \in Clients |-> {}]
    /\ requests = [c \in Clients |-> 0]
    /\ writer = [c \in Clients |-> "none"]
    /\ left = [c \in Clients |-> 0]
    /\ taken = [c \in Clients |-> <<>>]
    /\ missed = {} /\ acked = {} /\ owed = <<>>

\* Mutant: the send waits for room.
OfferWaiting(c, item) ==
    /\ Len(send[c]) < SendCap
    /\ send' = [send EXCEPT ![c] = Append(@, item)]

\* A send with a default case: what does not fit is dropped.
Offer(c, item) ==
    send' = [send EXCEPT ![c] = IF Len(@) < SendCap THEN Append(@, item) ELSE @]

(* Publishers and Stop *)

\* Publish; a message that finds the channel full is dropped and changes nothing.
Publish(kind, symbol) ==
    /\ Len(published) < MaxMessages
    /\ Len(broadcast) < BroadcastCap
    /\ published' = Append(published, [kind |-> kind, symbol |-> symbol])
    /\ broadcast' = Append(broadcast, Len(published'))
    /\ owed' = Append(owed, acked)
    /\ UNCHANGED <<hub, cancelled, message, todo, clients, clientVars, taken, missed, acked>>

Stop ==
    /\ ~cancelled
    /\ cancelled' = TRUE
    /\ UNCHANGED <<published, broadcast, hub, message, todo, clients, clientVars, historyVars>>

(* Run *)

\* HandleWebSocket's client is registered and its pumps are started.
Register(c) ==
    /\ hub = "idle"
    /\ reader[c] = "registering"
    /\ clients' = clients \cup {c}
    /\ reader' = [reader EXCEPT ![c] = "reading"]
    /\ writer' = [writer EXCEPT ![c] = "waiting"]
    /\ UNCHANGED <<published, broadcast, hub, cancelled, message, todo, groups, send, closed,
                   conn, topics, pending, requests, left, historyVars>>

\* Mutant: the client is not deleted from Hub.clients.
UnregisterKeeping(c) ==
    /\ hub = "idle"
    /\ reader[c] = "leaving"
    /\ closed' = [closed EXCEPT ![c] = TRUE]
    /\ reader' = [reader EXCEPT ![c] = "closing"]
    /\ UNCHANGED <<published, broadcast, hub, cancelled, message, todo, clients, groups, send,
                   conn, topics, pending, requests, writer, left, historyVars>>

\* Mutant: readPump does this itself, whatever Run is doing.
UnregisterAnyTime(c) ==
    /\ reader[c] = "leaving"
    /\ clients' = clients \ {c}
    /\ closed' = [closed EXCEPT ![c] = @ \/ c \in clients]
    /\ reader' = [reader EXCEPT ![c] = "closing"]
    /\ UNCHANGED <<published, broadcast, hub, cancelled, message, todo, groups, send,
                   conn, topics, pending, requests, writer, left, historyVars>>

\* A client that is on the list is taken off it and its channel is closed.
Unregister(c) ==
    /\ hub = "idle"
    /\ reader[c] = "leaving"
    /\ clients' = clients \ {c}
    /\ closed' = [closed EXCEPT ![c] = @ \/ c \in clients]
    /\ reader' = [reader EXCEPT ![c] = "closing"]
    /\ UNCHANGED <<published, broadcast, hub, cancelled, message, todo, groups, send,
                   conn, topics, pending, requests, writer, left, historyVars>>

\* Mutant: the message stays in the channel.
PeekMessage ==
    /\ hub = "idle"
    /\ broadcast # <<>>
    /\ message' = Head(broadcast)
    /\ todo' = clients
    /\ hub' = "delivering"
    /\ UNCHANGED <<published, broadcast, cancelled, clients, clientVars, historyVars>>

TakeMessage ==
    /\ hub = "idle"
    /\ broadcast # <<>>
    /\ message' = Head(broadcast)
    /\ broadcast' = Tail(broadcast)
    /\ todo' = clients
    /\ hub' = "delivering"
    /\ UNCHANGED <<published, cancelled, clients, clientVars, historyVars>>

\* The loop over the clients, in any order, comes to c ...
Deliver(c) ==
    /\ hub = "delivering"
    /\ c \in todo
    /\ todo' = todo \ {c}
    /\ IF TopicOf(message) \in groups[c]
       THEN /\ Offer(c, message)
            /\ missed' = IF Len(send[c]) < SendCap THEN missed ELSE missed \cup {<<c, message>>}
       ELSE UNCHANGED <<send, missed>>
    /\ UNCHANGED <<published, broadcast, hub, cancelled, message, clients, groups, closed, conn,
                   reader, topics, pending, requests, writer, left, taken, acked, owed>>

\* ... and ends.
EndDelivery ==
    /\ hub = "delivering"
    /\ todo = {}
    /\ hub' = "idle" /\ message' = 0
    /\ UNCHANGED <<published, broadcast, cancelled, todo, clients, clientVars, historyVars>>

Exit ==
    /\ hub = "idle"
    /\ cancelled
    /\ hub' = "exited"
    /\ UNCHANGED <<published, broadcast, cancelled, message, todo, clients, clientVars, historyVars>>

HubStep ==
    \/ \E c \in Clients : Register(c) \/ Unregister(c) \/ Deliver(c)
    \/ TakeMessage \/ EndDelivery \/ Exit

(* HandleWebSocket and readPump *)

Connect(c) ==
    /\ conn[c] = "none"
    /\ conn' = [conn EXCEPT ![c] = "open"]
    /\ reader' = [reader EXCEPT ![c] = "registering"]
    /\ UNCHANGED <<published, broadcast, hub, cancelled, message, todo, clients, groups, send,
                   closed, topics, pending, requests, writer, left, historyVars>>

\* handleMessage, all its cases: a ping is a subscription to nothing.  The topics
\* given up are owed no more.
Request(c, kind, wanted) ==
    /\ reader[c] = "reading"
    /\ conn[c] = "open"
    /\ requests[c] < MaxRequests
    /\ requests' = [requests EXCEPT ![c] = @ + 1]
    /\ reader' = [reader EXCEPT ![c] = kind]
    /\ topics' = [topics EXCEPT ![c] = wanted]
    /\ pending' = [pending EXCEPT ![c] = wanted]
    /\ LET given == IF kind = "unsubscribe" THEN {c} \X wanted ELSE {}
       IN  /\ acked' = acked \ given
           /\ owed' = [m \in DOMAIN owed |-> owed[m] \ given]
    /\ UNCHANGED <<published, broadcast, hub, cancelled, message, todo, clients, groups, send,
                   closed, conn, writer, left, taken, missed>>

\* The topics are dealt with one by one, each under the client's lock, ...
Change(c, topic) ==
    /\ topic \in pending[c]
    /\ pending' = [pending EXCEPT ![c] = @ \ {topic}]
    /\ \/ /\ reader[c] = "subscribe"
          /\ groups' = [groups EXCEPT ![c] = @ \cup {topic}]
       \/ /\ reader[c] = "unsubscribe"
          /\ groups' = [groups EXCEPT ![c] = @ \ {topic}]
    /\ UNCHANGED <<published, broadcast, hub, cancelled, message, todo, clients, send, closed,
                   conn, reader, topics, requests, writer, left, historyVars>>

\* Mutant: the client is answered before its topics are dealt with.
ReplyEarly(c) ==
    /\ reader[c] = "subscribe"
    /\ acked' = acked \cup ({c} \X topics[c])
    /\ Offer(c, Ack)
    /\ reader' = [reader EXCEPT ![c] = IF pending[c] = {} THEN "reading" ELSE @]
    /\ UNCHANGED <<published, broadcast, hub, cancelled, message, todo, clients, groups, closed,
                   conn, topics, pending, requests, writer, left, taken, missed, owed>>

\* ... and then a subscription and a ping are answered, ...
Reply(c) ==
    /\ reader[c] = "subscribe"
    /\ pending[c] = {}
    /\ acked' = acked \cup ({c} \X topics[c])
    /\ Offer(c, Ack)
    /\ reader' = [reader EXCEPT ![c] = "reading"]
    /\ UNCHANGED <<published, broadcast, hub, cancelled, message, todo, clients, groups, closed,
                   conn, topics, pending, requests, writer, left, taken, missed, owed>>

\* ... which giving up topics is not.
EndUnsubscribe(c) ==
    /\ reader[c] = "unsubscribe"
    /\ pending[c] = {}
    /\ reader' = [reader EXCEPT ![c] = "reading"]
    /\ UNCHANGED <<published, broadcast, hub, cancelled, message, todo, clients, groups, send,
                   closed, conn, topics, pending, requests, writer, left, historyVars>>

\* ReadMessage fails: the peer has gone or is silent, or writePump has closed
\* the connection.
ReadFails(c) ==
    /\ reader[c] = "reading"
    /\ reader' = [reader EXCEPT ![c] = "leaving"]
    /\ acked' = acked \ ({c} \X Topics)
    /\ owed' = [m \in DOMAIN owed |-> owed[m] \ ({c} \X Topics)]
    /\ UNCHANGED <<published, broadcast, hub, cancelled, message, todo, clients, groups, send,
                   closed, conn, topics, pending, requests, writer, left, taken, missed>>

\* Once Run has received it from unregister, readPump closes the connection.
CloseConn(c) ==
    /\ reader[c] = "closing"
    /\ reader' = [reader EXCEPT ![c] = "gone"]
    /\ conn' = [conn EXCEPT ![c] = "closed"]
    /\ UNCHANGED <<published, broadcast, hub, cancelled, message, todo, clients, groups, send,
                   closed, topics, pending, requests, writer, left, historyVars>>

ReaderRuns(c) ==
    \/ \E topic \in Topics : Change(c, topic)
    \/ Reply(c) \/ EndUnsubscribe(c) \/ CloseConn(c)
    \/ conn[c] = "closed" /\ ReadFails(c)

(* writePump *)

\* A message is taken from the channel, ...
Take(c) ==
    /\ writer[c] = "waiting"
    /\ send[c] # <<>>
    /\ taken' = [taken EXCEPT ![c] = Append(@, Head(send[c]))]
    /\ send' = [send EXCEPT ![c] = Tail(@)]
    /\ writer' = [writer EXCEPT ![c] = "begun"]
    /\ UNCHANGED <<published, broadcast, hub, cancelled, message, todo, clients, groups, closed,
                   conn, reader, topics, pending, requests, left, missed, acked, owed>>

\* Mutant: one more than the channel holds is to be added.
CountOneMore(c) ==
    /\ writer[c] = "begun"
    /\ left' = [left EXCEPT ![c] = Len(send[c]) + 1]
    /\ writer' = [writer EXCEPT ![c] = "batch"]
    /\ UNCHANGED <<published, broadcast, hub, cancelled, message, todo, clients, groups, send,
                   closed, conn, reader, topics, pending, requests, historyVars>>

\* ... those that follow it are counted ...
Count(c) ==
    /\ writer[c] = "begun"
    /\ left' = [left EXCEPT ![c] = Len(send[c])]
    /\ writer' = [writer EXCEPT ![c] = "batch"]
    /\ UNCHANGED <<published, broadcast, hub, cancelled, message, todo, clients, groups, send,
                   closed, conn, reader, topics, pending, requests, historyVars>>

\* ... and added to the frame ...
Batch(c) ==
    /\ writer[c] = "batch"
    /\ left[c] > 0
    /\ send[c] # <<>>
    /\ taken' = [taken EXCEPT ![c] = Append(@, Head(send[c]))]
    /\ send' = [send EXCEPT ![c] = Tail(@)]
    /\ left' = [left EXCEPT ![c] = @ - 1]
    /\ UNCHANGED <<published, broadcast, hub, cancelled, message, todo, clients, groups, closed,
                   conn, reader, topics, pending, requests, writer, missed, acked, owed>>

\* ... which is sent, ...
Flush(c) ==
    /\ writer[c] = "batch"
    /\ left[c] = 0
    /\ conn[c] = "open"
    /\ writer' = [writer EXCEPT ![c] = "waiting"]
    /\ UNCHANGED <<published, broadcast, hub, cancelled, message, todo, clients, groups, send,
                   closed, conn, reader, topics, pending, requests, left, historyVars>>

\* Mutant: writePump ends without closing the connection.
EndWriterOnly(c) ==
    /\ writer' = [writer EXCEPT ![c] = "done"]
    /\ UNCHANGED <<published, broadcast, hub, cancelled, message, todo, clients, groups, send,
                   closed, conn, reader, topics, pending, requests, left, historyVars>>

EndWriter(c) ==
    /\ writer' = [writer EXCEPT ![c] = "done"]
    /\ conn' = [conn EXCEPT ![c] = "closed"]
    /\ UNCHANGED <<published, broadcast, hub, cancelled, message, todo, clients, groups, send,
                   closed, reader, topics, pending, requests, left, historyVars>>

\* ... unless NextWriter or Close fails.
WriteFails(c) ==
    /\ writer[c] = "begun" \/ (writer[c] = "batch" /\ left[c] = 0)
    /\ EndWriter(c)

PingFails(c) ==
    /\ writer[c] = "waiting"
    /\ EndWriter(c)

\* The channel is closed and empty.
SeeClosed(c) ==
    /\ writer[c] = "waiting"
    /\ send[c] = <<>> /\ closed[c]
    /\ EndWriter(c)

WriterRuns(c) ==
    Take(c) \/ Count(c) \/ Batch(c) \/ Flush(c) \/ WriteFails(c) \/ SeeClosed(c)

Next ==
    \/ \E kind \in Kinds, symbol \in Symbols : Publish(kind, symbol)
    \/ Stop
    \/ HubStep
    \/ \E c \in Clients :
        \/ Connect(c)
        \/ \E kind \in {"subscribe", "unsubscribe"}, wanted \in TopicSets :
                Request(c, kind, wanted)
        \/ ReaderRuns(c) \/ ReadFails(c)
        \/ WriterRuns(c) \/ PingFails(c)

Spec == Init /\ [][Next]_vars

\* The goroutines that are not blocked run.  The peer need do nothing, and a
\* write to one that does not read fails after ten seconds.
Fairness ==
    /\ WF_vars(HubStep)
    /\ \A c \in Clients : WF_vars(ReaderRuns(c)) /\ WF_vars(WriterRuns(c))

FairSpec == Spec /\ Fairness

-----------------------------------------------------------------------------
(* Properties *)

\* Every variable has its type and the channels keep within their buffers.
TypeOK ==
    /\ published \in Seq([kind : Kinds, symbol : Symbols])
    /\ broadcast \in Seq(1..Len(published)) /\ Len(broadcast) <= BroadcastCap
    /\ hub \in {"idle", "delivering", "exited"} /\ cancelled \in BOOLEAN
    /\ message \in 0..Len(published) /\ (message > 0 <=> hub = "delivering")
    /\ todo \subseteq clients /\ clients \subseteq Clients
    /\ groups \in [Clients -> SUBSET Topics]
    /\ send \in [Clients -> Seq(0..Len(published))]
    /\ \A c \in Clients : Len(send[c]) <= SendCap
    /\ closed \in [Clients -> BOOLEAN]
    /\ conn \in [Clients -> {"none", "open", "closed"}]
    /\ reader \in [Clients -> {"none", "registering", "reading", "subscribe", "unsubscribe",
                               "leaving", "closing", "gone"}]
    /\ topics \in [Clients -> SUBSET Topics] /\ pending \in [Clients -> SUBSET Topics]
    /\ requests \in [Clients -> Nat]
    /\ writer \in [Clients -> {"none", "waiting", "begun", "batch", "done"}]
    /\ left \in [Clients -> Nat]
    /\ taken \in [Clients -> Seq(0..Len(published))]
    /\ missed \subseteq Clients \X (1..Len(published))
    /\ acked \subseteq Clients \X Topics
    /\ owed \in Seq(SUBSET (Clients \X Topics)) /\ Len(owed) = Len(published)

\* A client's channel is closed once, by Run, when nobody can send on it any more:
\* Run will not come to the client and its readPump answers no more requests.
NoSendOnClosed ==
    \A c \in Clients : closed[c] =>
        c \notin clients /\ c \notin todo /\ reader[c] \in {"closing", "gone"}

\* writePump never waits, and never adds the nothing that a closed channel gives,
\* in the middle of a frame: what it counted is still there to be taken.
BatchIsThere == \A c \in Clients : writer[c] = "batch" => left[c] <= Len(send[c])

\* Everything sent to c so far, in order.
SentTo(c) == taken[c] \o send[c]
IsMessage(item) == item # Ack

\* A client gets each message at most once and in the order of publication,
\* whatever was dropped in between.
InOrder ==
    \A c \in Clients :
        LET sent == SentTo(c)
        IN  \A i, j \in DOMAIN sent :
                i < j /\ IsMessage(sent[i]) /\ IsMessage(sent[j]) => sent[i] < sent[j]

\* Run has not come to c with message m yet.
StillComing(c, m) ==
    \/ \E i \in DOMAIN broadcast : broadcast[i] = m
    \/ message = m /\ c \in todo

Delivered(c, m) ==
    \/ StillComing(c, m)
    \/ \E i \in DOMAIN SentTo(c) : SentTo(c)[i] = m
    \/ <<c, m>> \in missed

\* Who has been answered for a topic gets every message of that topic published
\* from then on, until it gives the topic up or goes, or finds its own buffer full.
AnsweredIsServed ==
    \A m \in DOMAIN published : \A c \in Clients :
        <<c, TopicOf(m)>> \in owed[m] => Delivered(c, m)

\* Unless the hub is stopped, a client that can no longer be written to is let go:
\* it neither stays on the list nor keeps its goroutines.
DeadIsLetGo ==
    \A c \in Clients : writer[c] = "done" ~> (c \notin clients /\ reader[c] = "gone") \/ cancelled

\* Unless the hub is stopped, every message is dealt with, whatever the clients do.
BroadcastDrains == broadcast # <<>> ~> broadcast = <<>> \/ cancelled

\* API.md:503 shows messages with the topic "trade_BTCUSDT" for the subscription
\* "BTCUSDT@trade" of API.md:456: who has been answered for a kind and symbol gets
\* the messages of that kind and symbol.
SubscriptionIsServed ==
    \A m \in DOMAIN published : \A c \in Clients :
        <<c, RequestedTopic(m)>> \in owed[m] => Delivered(c, m)

====================================================================================
