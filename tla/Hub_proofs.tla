------------------------------- MODULE Hub_proofs -------------------------------
(***************************************************************************)
(* What the WebSocket hub guarantees, for any number of clients, topics    *)
(* and messages and for buffers of every size.                             *)
(***************************************************************************)
EXTENDS Hub, SequenceTheorems, TLAPS

\* A client is on the list from its registration until Run has received it from
\* unregister, it connects once, and the loop's clients are gone when the loop is.
Listed ==
    /\ \A c \in Clients :
        c \in clients <=> reader[c] \in {"reading", "subscribe", "unsubscribe", "leaving"}
    /\ \A c \in Clients : conn[c] = "none" => reader[c] = "none"
    /\ hub # "delivering" => todo = {}

ListInv == TypeOK /\ Listed /\ NoSendOnClosed /\ BatchIsThere

-----------------------------------------------------------------------------
(* Sequences *)

\* A bounded buffer that loses its head or gains an item, if there is room.
LEMMA BufferFacts ==
    ASSUME NEW S, NEW s \in Seq(S)
    PROVE  /\ Len(s) \in Nat
           /\ s # <<>> => /\ Head(s) \in S /\ Tail(s) \in Seq(S)
                          /\ Head(s) = s[1] /\ Len(s) > 0
                          /\ Len(Tail(s)) = Len(s) - 1
                          /\ \A i \in 1..Len(s) - 1 : Tail(s)[i] = s[i + 1]
           /\ \A x \in S : /\ Append(s, x) \in Seq(S)
                           /\ Len(Append(s, x)) = Len(s) + 1
                           /\ Append(s, x)[Len(s) + 1] = x
                           /\ \A i \in 1..Len(s) : Append(s, x)[i] = s[i]
BY SMTT(30)

\* More messages are still messages.
LEMMA MoreMessages ==
    ASSUME NEW a \in Int, NEW n \in Nat, NEW s \in Seq(a..n)
    PROVE  s \in Seq(a..(n + 1))
<1>1. a..n \subseteq a..(n + 1)
  OBVIOUS
<1>2. QED
  BY <1>1, SeqMonotonic

\* What has been taken from a channel and what is left in it stay the same
\* together when a message is taken, ...
LEMMA MoveHead ==
    ASSUME NEW S, NEW t \in Seq(S), NEW s \in Seq(S), s # <<>>
    PROVE  Append(t, Head(s)) \o Tail(s) = t \o s
BY SMTT(30)

\* ... and gain a message when one is sent.
LEMMA GainLast ==
    ASSUME NEW S, NEW t \in Seq(S), NEW s \in Seq(S), NEW x \in S
    PROVE  t \o Append(s, x) = Append(t \o s, x)
BY SMTT(30)

-----------------------------------------------------------------------------
(* Types and the list of clients *)

LEMMA TypeInit == Init => TypeOK
<1>1. SUFFICES ASSUME Init PROVE TypeOK
  OBVIOUS
<1>2. /\ published = <<>> /\ broadcast = <<>> /\ owed = <<>>
      /\ send = [c \in Clients |-> <<>>] /\ taken = [c \in Clients |-> <<>>]
  BY <1>1 DEF Init
<1>3. /\ published \in Seq([kind : Kinds, symbol : Symbols]) /\ Len(published) = 0
      /\ broadcast \in Seq(1..Len(published)) /\ Len(broadcast) <= BroadcastCap
      /\ owed \in Seq(SUBSET (Clients \X Topics)) /\ Len(owed) = Len(published)
  BY <1>2, HubAssumption
<1>4. /\ send \in [Clients -> Seq(0..Len(published))]
      /\ taken \in [Clients -> Seq(0..Len(published))]
      /\ \A c \in Clients : Len(send[c]) <= SendCap
  BY <1>2, HubAssumption
<1>5. /\ groups \in [Clients -> SUBSET Topics] /\ closed \in [Clients -> BOOLEAN]
      /\ topics \in [Clients -> SUBSET Topics] /\ pending \in [Clients -> SUBSET Topics]
      /\ requests \in [Clients -> Nat] /\ left \in [Clients -> Nat]
      /\ conn \in [Clients -> {"none", "open", "closed"}]
      /\ reader \in [Clients -> {"none", "registering", "reading", "subscribe", "unsubscribe",
                                 "leaving", "closing", "gone"}]
      /\ writer \in [Clients -> {"none", "waiting", "begun", "batch", "done"}]
  BY <1>1 DEF Init
<1>6. /\ message \in 0..Len(published) /\ (message > 0 <=> hub = "delivering")
      /\ hub \in {"idle", "delivering", "exited"} /\ cancelled \in BOOLEAN
      /\ todo \subseteq clients /\ clients \subseteq Clients
      /\ missed \subseteq Clients \X (1..Len(published)) /\ acked \subseteq Clients \X Topics
  <2>1. /\ hub \in {"idle", "delivering", "exited"} /\ cancelled \in BOOLEAN
        /\ todo \subseteq clients /\ clients \subseteq Clients
        /\ missed = {} /\ acked = {} /\ message = 0 /\ hub = "idle"
    BY <1>1 DEF Init
  <2>2. QED
    BY <1>3, <2>1
<1>7. QED
  BY <1>3, <1>4, <1>5, <1>6 DEF TypeOK

\* A send with a default case, whatever becomes of the message.
LEMMA OfferFacts ==
    ASSUME TypeOK, NEW c \in Clients, NEW x \in 0..Len(published), Offer(c, x)
    PROVE  /\ send' \in [Clients -> Seq(0..Len(published))]
           /\ \A d \in Clients : Len(send'[d]) <= SendCap
           /\ \A d \in Clients : d # c => send'[d] = send[d]
           /\ send'[c] = IF Len(send[c]) < SendCap THEN Append(send[c], x) ELSE send[c]
<1>1. /\ send \in [Clients -> Seq(0..Len(published))]
      /\ \A d \in Clients : Len(send[d]) <= SendCap
  BY DEF TypeOK
<1>2. send' = [send EXCEPT ![c] = IF Len(@) < SendCap THEN Append(@, x) ELSE @]
  BY DEF Offer
<1>3. /\ send'[c] = IF Len(send[c]) < SendCap THEN Append(send[c], x) ELSE send[c]
      /\ \A d \in Clients : d # c => send'[d] = send[d]
      /\ send' \in [Clients -> Seq(0..Len(published))]
  <2>1. Append(send[c], x) \in Seq(0..Len(published))
    BY <1>1, BufferFacts
  <2>2. QED
    BY <1>1, <1>2, <2>1
<1>4. Len(send'[c]) <= SendCap
  BY <1>1, <1>3, BufferFacts, HubAssumption
<1>5. QED
  BY <1>1, <1>3, <1>4

\* writePump takes a message.
LEMMA TakeFacts ==
    ASSUME TypeOK, NEW c \in Clients, send[c] # <<>>,
           taken' = [taken EXCEPT ![c] = Append(@, Head(send[c]))],
           send' = [send EXCEPT ![c] = Tail(@)]
    PROVE  /\ send' \in [Clients -> Seq(0..Len(published))]
           /\ taken' \in [Clients -> Seq(0..Len(published))]
           /\ \A d \in Clients : Len(send'[d]) <= SendCap
           /\ \A d \in Clients : d # c => send'[d] = send[d]
           /\ Len(send'[c]) = Len(send[c]) - 1
           /\ \A d \in Clients : taken'[d] \o send'[d] = taken[d] \o send[d]
<1>1. /\ send \in [Clients -> Seq(0..Len(published))]
      /\ taken \in [Clients -> Seq(0..Len(published))]
      /\ \A d \in Clients : Len(send[d]) <= SendCap
  BY DEF TypeOK
<1>2. /\ send'[c] = Tail(send[c]) /\ taken'[c] = Append(taken[c], Head(send[c]))
      /\ \A d \in Clients : d # c => send'[d] = send[d] /\ taken'[d] = taken[d]
  BY <1>1
<1>3. /\ Head(send[c]) \in 0..Len(published) /\ Tail(send[c]) \in Seq(0..Len(published))
      /\ Len(Tail(send[c])) = Len(send[c]) - 1 /\ Len(send[c]) \in Nat
      /\ Append(taken[c], Head(send[c])) \in Seq(0..Len(published))
  BY <1>1, BufferFacts
<1>4. /\ send' \in [Clients -> Seq(0..Len(published))]
      /\ taken' \in [Clients -> Seq(0..Len(published))]
  BY <1>1, <1>3
<1>5. taken'[c] \o send'[c] = taken[c] \o send[c]
  <2>1. Append(taken[c], Head(send[c])) \o Tail(send[c]) = taken[c] \o send[c]
    <3>1. taken[c] \in Seq(0..Len(published)) /\ send[c] \in Seq(0..Len(published))
      BY <1>1
    <3>2. QED
      BY <3>1, MoveHead, Zenon
  <2>2. QED
    BY <1>2, <2>1
<1>6. \A d \in Clients : Len(send'[d]) <= SendCap
  BY <1>1, <1>2, <1>3, HubAssumption
<1>7. QED
  BY <1>2, <1>3, <1>4, <1>5, <1>6

\* What is owed is given up in part.
LEMMA GiveUpFacts ==
    ASSUME TypeOK, NEW given,
           acked' = acked \ given, owed' = [m \in DOMAIN owed |-> owed[m] \ given]
    PROVE  /\ acked' \subseteq Clients \X Topics
           /\ owed' \in Seq(SUBSET (Clients \X Topics)) /\ Len(owed') = Len(owed)
           /\ \A m \in DOMAIN owed : owed'[m] = owed[m] \ given
<1>1. /\ owed \in Seq(SUBSET (Clients \X Topics)) /\ acked \subseteq Clients \X Topics
  BY DEF TypeOK
<1>2. DOMAIN owed = 1..Len(owed) /\ Len(owed) \in Nat
  BY <1>1
<1>3. /\ \A m \in 1..Len(owed) : owed[m] \ given \in SUBSET (Clients \X Topics)
      /\ owed' = [m \in 1..Len(owed) |-> owed[m] \ given]
  BY <1>1, <1>2
<1>4. owed' \in Seq(SUBSET (Clients \X Topics)) /\ Len(owed') = Len(owed)
  BY <1>2, <1>3, IsASeq
<1>5. QED
  BY <1>1, <1>2, <1>3, <1>4

\* The steps of a client's goroutines, and of Run with one client.
LEMMA ClientTypes ==
    ASSUME TypeOK, Listed, NEW c \in Clients,
           \/ Connect(c) \/ Register(c) \/ Unregister(c) \/ Deliver(c)
           \/ \E kind \in {"subscribe", "unsubscribe"}, wanted \in TopicSets :
                Request(c, kind, wanted)
           \/ ReaderRuns(c) \/ ReadFails(c) \/ WriterRuns(c) \/ PingFails(c)
    PROVE  TypeOK'
<1>1. CASE Connect(c)
  BY <1>1 DEF Connect, TypeOK, clientVars, historyVars
<1>2. CASE Register(c)
  BY <1>2 DEF Register, TypeOK, clientVars, historyVars
<1>3. CASE Unregister(c)
  BY <1>3 DEF Unregister, TypeOK, Listed, clientVars, historyVars
<1>4. CASE Deliver(c)
  <2>1. message \in 0..Len(published) /\ message \in 1..Len(published)
    BY <1>4 DEF Deliver, TypeOK
  <2>2. /\ send' \in [Clients -> Seq(0..Len(published))]
        /\ \A d \in Clients : Len(send'[d]) <= SendCap
        /\ missed' \subseteq Clients \X (1..Len(published))
    <3>1. CASE TopicOf(message) \in groups[c]
      <4>1. Offer(c, message) /\ missed' \subseteq missed \cup {<<c, message>>}
        BY <1>4, <3>1 DEF Deliver
      <4>2. missed \subseteq Clients \X (1..Len(published))
        BY DEF TypeOK
      <4>3. QED
        BY <2>1, <4>1, <4>2, OfferFacts
    <3>2. CASE TopicOf(message) \notin groups[c]
      BY <1>4, <3>2 DEF Deliver, TypeOK
    <3>3. QED
      BY <3>1, <3>2
  <2>3. QED
    BY <1>4, <2>2 DEF Deliver, TypeOK
<1>5. ASSUME NEW kind \in {"subscribe", "unsubscribe"}, NEW wanted \in TopicSets,
             Request(c, kind, wanted)
      PROVE  TypeOK'
  <2>1. wanted \subseteq Topics
    BY TopicAssumption
  <2>2. /\ acked' \subseteq Clients \X Topics
        /\ owed' \in Seq(SUBSET (Clients \X Topics)) /\ Len(owed') = Len(owed)
    BY <1>5, GiveUpFacts DEF Request
  <2>3. /\ topics' \in [Clients -> SUBSET Topics] /\ pending' \in [Clients -> SUBSET Topics]
        /\ requests' \in [Clients -> Nat]
        /\ reader' \in [Clients -> {"none", "registering", "reading", "subscribe",
                                    "unsubscribe", "leaving", "closing", "gone"}]
    BY <1>5, <2>1 DEF Request, TypeOK
  <2>4. QED
    BY <1>5, <2>2, <2>3 DEF Request, TypeOK
<1>6. CASE ReadFails(c)
  <2>1. /\ acked' \subseteq Clients \X Topics
        /\ owed' \in Seq(SUBSET (Clients \X Topics)) /\ Len(owed') = Len(owed)
    BY <1>6, GiveUpFacts DEF ReadFails
  <2>2. QED
    BY <1>6, <2>1 DEF ReadFails, TypeOK
<1>7. ASSUME NEW topic \in Topics, Change(c, topic) PROVE TypeOK'
  <2>1. groups' \in [Clients -> SUBSET Topics] /\ pending' \in [Clients -> SUBSET Topics]
    <3>1. groups \in [Clients -> SUBSET Topics] /\ pending \in [Clients -> SUBSET Topics]
      BY DEF TypeOK
    <3>2. /\ pending' = [pending EXCEPT ![c] = @ \ {topic}]
          /\ \/ groups' = [groups EXCEPT ![c] = @ \cup {topic}]
             \/ groups' = [groups EXCEPT ![c] = @ \ {topic}]
      BY <1>7 DEF Change
    <3>3. groups[c] \cup {topic} \in SUBSET Topics /\ groups[c] \ {topic} \in SUBSET Topics
      BY <3>1
    <3>4. QED
      BY <3>1, <3>2, <3>3
  <2>2. QED
    BY <1>7, <2>1 DEF Change, TypeOK, historyVars
<1>8. CASE Reply(c)
  <2>1. Offer(c, Ack) /\ Ack \in 0..Len(published)
    BY <1>8 DEF Reply, Ack, TypeOK
  <2>2. /\ send' \in [Clients -> Seq(0..Len(published))]
        /\ \A d \in Clients : Len(send'[d]) <= SendCap
    BY <2>1, OfferFacts
  <2>3. acked' \subseteq Clients \X Topics
    BY <1>8 DEF Reply, TypeOK
  <2>4. QED
    BY <1>8, <2>2, <2>3 DEF Reply, TypeOK
<1>9. CASE EndUnsubscribe(c)
  BY <1>9 DEF EndUnsubscribe, TypeOK, historyVars
<1>10. CASE CloseConn(c)
  BY <1>10 DEF CloseConn, TypeOK, historyVars
<1>11. CASE Take(c) \/ Batch(c)
  <2>1. /\ send' \in [Clients -> Seq(0..Len(published))]
        /\ taken' \in [Clients -> Seq(0..Len(published))]
        /\ \A d \in Clients : Len(send'[d]) <= SendCap
    BY <1>11, TakeFacts DEF Take, Batch
  <2>2. CASE Take(c)
    BY <2>1, <2>2 DEF Take, TypeOK
  <2>3. CASE Batch(c)
    <3>1. left' \in [Clients -> Nat]
      <4>1. left \in [Clients -> Nat]
        BY DEF TypeOK
      <4>2. left[c] > 0 /\ left' = [left EXCEPT ![c] = @ - 1]
        BY <2>3 DEF Batch
      <4>3. QED
        BY <4>1, <4>2
    <3>2. QED
      BY <2>1, <2>3, <3>1 DEF Batch, TypeOK
  <2>4. QED
    BY <1>11, <2>2, <2>3
<1>12. CASE Count(c)
  <2>1. Len(send[c]) \in Nat
    BY DEF TypeOK
  <2>2. QED
    BY <1>12, <2>1 DEF Count, TypeOK, historyVars
<1>13. CASE Flush(c)
  BY <1>13 DEF Flush, TypeOK, historyVars
<1>14. CASE EndWriter(c)
  BY <1>14 DEF EndWriter, TypeOK, historyVars
<1>15. QED
  BY <1>1, <1>2, <1>3, <1>4, <1>5, <1>6, <1>7, <1>8, <1>9, <1>10, <1>11, <1>12, <1>13, <1>14
     DEF ReaderRuns, WriterRuns, WriteFails, PingFails, SeeClosed

\* The other steps of Run, the publishers and Stop.
LEMMA HubTypes ==
    ASSUME TypeOK, Listed,
           \/ \E kind \in Kinds, symbol \in Symbols : Publish(kind, symbol)
           \/ Stop \/ TakeMessage \/ EndDelivery \/ Exit \/ UNCHANGED vars
    PROVE  TypeOK'
<1>1. ASSUME NEW kind \in Kinds, NEW symbol \in Symbols, Publish(kind, symbol)
      PROVE  TypeOK'
  <2>1. /\ published \in Seq([kind : Kinds, symbol : Symbols])
        /\ broadcast \in Seq(1..Len(published)) /\ Len(broadcast) < BroadcastCap
        /\ owed \in Seq(SUBSET (Clients \X Topics)) /\ Len(owed) = Len(published)
        /\ acked \subseteq Clients \X Topics
        /\ send \in [Clients -> Seq(0..Len(published))]
        /\ taken \in [Clients -> Seq(0..Len(published))]
    BY <1>1 DEF Publish, TypeOK
  <2>2. /\ published' = Append(published, [kind |-> kind, symbol |-> symbol])
        /\ broadcast' = Append(broadcast, Len(published')) /\ owed' = Append(owed, acked)
    BY <1>1 DEF Publish
  <2>3. /\ published' \in Seq([kind : Kinds, symbol : Symbols])
        /\ Len(published') = Len(published) + 1 /\ Len(published) \in Nat
        /\ owed' \in Seq(SUBSET (Clients \X Topics)) /\ Len(owed') = Len(owed) + 1
    BY <2>1, <2>2
  <2>4. /\ broadcast \in Seq(1..Len(published'))
        /\ \A c \in Clients : /\ send[c] \in Seq(0..Len(published'))
                              /\ taken[c] \in Seq(0..Len(published'))
    BY <2>1, <2>3, MoreMessages
  <2>5. /\ broadcast' \in Seq(1..Len(published')) /\ Len(broadcast') <= BroadcastCap
    <3>1. Len(published') \in 1..Len(published')
      BY <2>3
    <3>2. broadcast' \in Seq(1..Len(published')) /\ Len(broadcast') = Len(broadcast) + 1
      BY <2>2, <2>4, <3>1, BufferFacts
    <3>3. QED
      BY <2>1, <3>2, HubAssumption
  <2>6. /\ send \in [Clients -> Seq(0..Len(published'))]
        /\ taken \in [Clients -> Seq(0..Len(published'))]
    BY <2>1, <2>4
  <2>7. missed' \subseteq Clients \X (1..Len(published'))
    BY <1>1, <2>3 DEF Publish, TypeOK
  <2>8. message' \in 0..Len(published')
    BY <1>1, <2>3 DEF Publish, TypeOK
  <2>9. QED
    BY <1>1, <2>1, <2>3, <2>5, <2>6, <2>7, <2>8 DEF Publish, TypeOK, clientVars
<1>2. CASE Stop
  BY <1>2 DEF Stop, TypeOK, clientVars, historyVars
<1>3. CASE TakeMessage
  <2>1. /\ Head(broadcast) \in 1..Len(published) /\ Tail(broadcast) \in Seq(1..Len(published))
        /\ Len(Tail(broadcast)) <= BroadcastCap
    BY <1>3, BufferFacts, HubAssumption DEF TakeMessage, TypeOK
  <2>2. message' \in 0..Len(published) /\ message' > 0
    BY <1>3, <2>1 DEF TakeMessage
  <2>3. QED
    BY <1>3, <2>1, <2>2 DEF TakeMessage, TypeOK, clientVars, historyVars
<1>4. CASE EndDelivery
  <2>1. message' \in 0..Len(published) /\ ~(message' > 0)
    BY <1>4 DEF EndDelivery, TypeOK
  <2>2. QED
    BY <1>4, <2>1 DEF EndDelivery, TypeOK, clientVars, historyVars
<1>5. CASE Exit
  BY <1>5 DEF Exit, TypeOK, clientVars, historyVars
<1>6. CASE UNCHANGED vars
  BY <1>6 DEF vars, TypeOK, clientVars, historyVars
<1>7. QED
  BY <1>1, <1>2, <1>3, <1>4, <1>5, <1>6

LEMMA TypeStep == TypeOK /\ Listed /\ [Next]_vars => TypeOK'
BY ClientTypes, HubTypes DEF Next, HubStep

\* What each action leaves alone of the list, the readers and the closed channels.
LEMMA ListStep == TypeOK /\ Listed /\ NoSendOnClosed /\ [Next]_vars => (Listed /\ NoSendOnClosed)'
<1>1. SUFFICES ASSUME TypeOK, Listed, NoSendOnClosed, [Next]_vars
               PROVE  (Listed /\ NoSendOnClosed)'
  OBVIOUS
<1>2. /\ reader \in [Clients -> {"none", "registering", "reading", "subscribe", "unsubscribe",
                                 "leaving", "closing", "gone"}]
      /\ conn \in [Clients -> {"none", "open", "closed"}]
      /\ closed \in [Clients -> BOOLEAN]
      /\ todo \subseteq clients /\ clients \subseteq Clients
  BY <1>1 DEF TypeOK
<1>3. ASSUME NEW c \in Clients, Register(c) \/ Unregister(c) \/ Connect(c)
      PROVE  (Listed /\ NoSendOnClosed)'
  <2>1. CASE Register(c)
    BY <1>1, <1>2, <2>1 DEF Register, Listed, NoSendOnClosed
  <2>2. CASE Unregister(c)
    <3>1. /\ hub = "idle" /\ todo' = {} /\ clients' = clients \ {c}
          /\ reader[c] = "leaving" /\ reader' = [reader EXCEPT ![c] = "closing"]
          /\ closed' = [closed EXCEPT ![c] = @ \/ c \in clients]
      BY <1>1, <2>2 DEF Unregister, Listed
    <3>2. conn' = conn
      BY <2>2 DEF Unregister
    <3>3. \A d \in Clients : d # c => closed'[d] = closed[d] /\ reader'[d] = reader[d]
      BY <1>2, <3>1
    <3>4. reader'[c] = "closing"
      BY <1>2, <3>1
    <3>5. Listed'
      BY <1>1, <3>1, <3>2, <3>3, <3>4 DEF Listed
    <3>6. NoSendOnClosed'
      BY <1>1, <3>1, <3>3, <3>4 DEF NoSendOnClosed
    <3>7. QED
      BY <3>5, <3>6
  <2>3. CASE Connect(c)
    <3>1. /\ reader[c] = "none"
          /\ conn' = [conn EXCEPT ![c] = "open"]
          /\ reader' = [reader EXCEPT ![c] = "registering"]
          /\ UNCHANGED <<hub, todo, clients, closed>>
      BY <1>1, <2>3 DEF Connect, Listed
    <3>2. QED
      BY <1>1, <1>2, <3>1 DEF Listed, NoSendOnClosed
  <2>4. QED
    BY <1>3, <2>1, <2>2, <2>3
<1>4. ASSUME NEW c \in Clients, Deliver(c) PROVE (Listed /\ NoSendOnClosed)'
  BY <1>1, <1>2, <1>4 DEF Deliver, Listed, NoSendOnClosed
<1>5. ASSUME NEW c \in Clients, NEW kind \in {"subscribe", "unsubscribe"},
             NEW wanted \in TopicSets, Request(c, kind, wanted)
      PROVE  (Listed /\ NoSendOnClosed)'
  BY <1>1, <1>2, <1>5 DEF Request, Listed, NoSendOnClosed
<1>6. ASSUME NEW c \in Clients, Reply(c) \/ EndUnsubscribe(c) \/ CloseConn(c) \/ ReadFails(c)
      PROVE  (Listed /\ NoSendOnClosed)'
  BY <1>1, <1>2, <1>6
     DEF Reply, EndUnsubscribe, CloseConn, ReadFails, historyVars, Listed, NoSendOnClosed
<1>7. ASSUME \/ TakeMessage \/ EndDelivery \/ Exit
      PROVE  (Listed /\ NoSendOnClosed)'
  BY <1>1, <1>2, <1>7
     DEF TakeMessage, EndDelivery, Exit, clientVars, historyVars, Listed, NoSendOnClosed
<1>8. ASSUME \/ \E kind \in Kinds, symbol \in Symbols : Publish(kind, symbol)
             \/ Stop \/ UNCHANGED vars
             \/ \E c \in Clients : WriterRuns(c) \/ PingFails(c)
             \/ \E c \in Clients, topic \in Topics : Change(c, topic)
      PROVE  (Listed /\ NoSendOnClosed)'
  <2>1. /\ UNCHANGED <<hub, clients, todo, reader, closed>>
        /\ conn' = conn \/ \E c \in Clients : conn' = [conn EXCEPT ![c] = "closed"]
    BY <1>8 DEF Publish, Stop, vars, clientVars, historyVars, WriterRuns, PingFails, Take,
                Count, Batch, Flush, WriteFails, SeeClosed, EndWriter, Change
  <2>2. \A c \in Clients : conn'[c] = "none" => conn[c] = "none"
    BY <1>2, <2>1
  <2>3. QED
    BY <1>1, <2>1, <2>2 DEF Listed, NoSendOnClosed
<1>9. QED
  BY <1>1, <1>3, <1>4, <1>5, <1>6, <1>7, <1>8 DEF Next, HubStep, ReaderRuns

\* The channel loses messages to writePump only, which counts them down.
LEMMA BatchStep == TypeOK /\ BatchIsThere /\ [Next]_vars => BatchIsThere'
<1>1. SUFFICES ASSUME TypeOK, BatchIsThere, [Next]_vars, NEW d \in Clients,
                      writer'[d] = "batch"
               PROVE  left'[d] <= Len(send'[d])
  BY DEF BatchIsThere
<1>2. /\ writer \in [Clients -> {"none", "waiting", "begun", "batch", "done"}]
      /\ left \in [Clients -> Nat]
      /\ \A c \in Clients : send[c] \in Seq(0..Len(published))
      /\ \A c \in Clients : Len(send[c]) \in Nat
  BY <1>1 DEF TypeOK
<1>3. ASSUME writer[d] = "batch", left'[d] = left[d], Len(send'[d]) >= Len(send[d]),
             Len(send'[d]) \in Nat
      PROVE  left'[d] <= Len(send'[d])
  BY <1>1, <1>2, <1>3 DEF BatchIsThere
<1>4. ASSUME NEW c \in Clients, NEW x \in 0..Len(published), Offer(c, x),
             UNCHANGED <<writer, left>>
      PROVE  left'[d] <= Len(send'[d])
  <2>1. Len(send'[d]) >= Len(send[d]) /\ Len(send'[d]) \in Nat
    <3>1. /\ \A e \in Clients : e # c => send'[e] = send[e]
          /\ send'[c] = IF Len(send[c]) < SendCap THEN Append(send[c], x) ELSE send[c]
      BY <1>1, <1>4, OfferFacts
    <3>2. Len(Append(send[c], x)) = Len(send[c]) + 1
      BY <1>2, <1>4, BufferFacts
    <3>3. Len(send[d]) \in Nat
      BY <1>2
    <3>4. CASE send'[d] = send[d]
      BY <3>3, <3>4
    <3>5. CASE d = c /\ send'[c] = Append(send[c], x)
      BY <3>2, <3>3, <3>5
    <3>6. QED
      BY <3>1, <3>4, <3>5
  <2>2. QED
    BY <1>1, <1>3, <1>4, <2>1
<1>5. ASSUME UNCHANGED <<writer, left, send>> PROVE left'[d] <= Len(send'[d])
  BY <1>1, <1>5 DEF BatchIsThere
<1>6. ASSUME NEW c \in Clients, Deliver(c) \/ Reply(c)
      PROVE  left'[d] <= Len(send'[d])
  <2>1. message \in 0..Len(published) /\ Ack \in 0..Len(published)
    BY <1>1 DEF TypeOK, Ack
  <2>2. UNCHANGED <<writer, left>>
    BY <1>6 DEF Deliver, Reply
  <2>3. UNCHANGED send \/ Offer(c, message) \/ Offer(c, Ack)
    BY <1>6 DEF Deliver, Reply
  <2>4. QED
    BY <1>4, <1>5, <2>1, <2>2, <2>3
<1>7. ASSUME NEW c \in Clients, Take(c) \/ Batch(c)
      PROVE  left'[d] <= Len(send'[d])
  <2>1. /\ \A e \in Clients : e # c => send'[e] = send[e]
        /\ Len(send'[c]) = Len(send[c]) - 1
    BY <1>1, <1>7, TakeFacts DEF Take, Batch
  <2>2. CASE Take(c)
    <3>1. writer' = [writer EXCEPT ![c] = "begun"] /\ left' = left
      BY <2>2 DEF Take
    <3>2. d # c /\ writer[d] = "batch"
      BY <1>1, <1>2, <3>1
    <3>3. QED
      BY <1>2, <1>3, <2>1, <3>1, <3>2
  <2>3. CASE Batch(c)
    <3>1. writer' = writer /\ left' = [left EXCEPT ![c] = @ - 1]
      BY <2>3 DEF Batch
    <3>2. left[d] <= Len(send[d])
      BY <1>1, <3>1 DEF BatchIsThere
    <3>3. CASE d = c
      BY <1>2, <2>1, <3>1, <3>2, <3>3
    <3>4. CASE d # c
      BY <1>2, <2>1, <3>1, <3>2, <3>4
    <3>5. QED
      BY <3>3, <3>4
  <2>4. QED
    BY <1>7, <2>2, <2>3
<1>8. ASSUME NEW c \in Clients, Count(c) PROVE left'[d] <= Len(send'[d])
  <2>1. send' = send /\ left' = [left EXCEPT ![c] = Len(send[c])]
        /\ writer' = [writer EXCEPT ![c] = "batch"]
    BY <1>8 DEF Count
  <2>2. CASE d = c
    BY <1>2, <2>1, <2>2
  <2>3. CASE d # c
    BY <1>1, <1>2, <2>1, <2>3 DEF BatchIsThere
  <2>4. QED
    BY <2>2, <2>3
<1>9. ASSUME NEW c \in Clients, Flush(c) \/ EndWriter(c) \/ Register(c)
      PROVE  left'[d] <= Len(send'[d])
  <2>1. /\ send' = send /\ left' = left
        /\ \E where \in {"waiting", "done"} : writer' = [writer EXCEPT ![c] = where]
    BY <1>9 DEF Flush, EndWriter, Register
  <2>2. writer[d] = "batch"
    BY <1>1, <1>2, <2>1
  <2>3. QED
    BY <1>1, <2>1, <2>2 DEF BatchIsThere
<1>10. ASSUME \/ \E kind \in Kinds, symbol \in Symbols : Publish(kind, symbol)
              \/ Stop \/ TakeMessage \/ EndDelivery \/ Exit \/ UNCHANGED vars
              \/ \E c \in Clients : Unregister(c) \/ Connect(c) \/ ReadFails(c)
              \/ \E c \in Clients : EndUnsubscribe(c) \/ CloseConn(c)
              \/ \E c \in Clients, topic \in Topics : Change(c, topic)
              \/ \E c \in Clients, kind \in {"subscribe", "unsubscribe"}, wanted \in TopicSets :
                    Request(c, kind, wanted)
       PROVE  left'[d] <= Len(send'[d])
  <2>1. UNCHANGED <<writer, left, send>>
    BY <1>10 DEF Publish, Stop, TakeMessage, EndDelivery, Exit, vars, clientVars, historyVars,
                 Unregister, Connect, ReadFails, EndUnsubscribe, CloseConn, Change, Request
  <2>2. QED
    BY <1>5, <2>1
<1>11. QED
  BY <1>1, <1>6, <1>7, <1>8, <1>9, <1>10
     DEF Next, HubStep, ReaderRuns, WriterRuns, WriteFails, PingFails, SeeClosed

-----------------------------------------------------------------------------
(* What the clients are sent *)

\* The messages in the channel are in the order of publication, behind the one
\* that Run delivers, which is behind all that was sent: strictly to the clients
\* Run has not come to.
OrderInv ==
    /\ \A i, j \in 1..Len(broadcast) : i < j => broadcast[i] < broadcast[j]
    /\ message > 0 => \A i \in 1..Len(broadcast) : message < broadcast[i]
    /\ \A c \in Clients : \A i \in 1..Len(SentTo(c)) :
        /\ \A j \in 1..Len(broadcast) : SentTo(c)[i] < broadcast[j]
        /\ message > 0 => SentTo(c)[i] <= message
        /\ c \in todo => SentTo(c)[i] < message
    /\ InOrder

LEMMA SentType == ASSUME TypeOK, NEW c \in Clients
                  PROVE  SentTo(c) \in Seq(0..Len(published)) /\ Len(SentTo(c)) \in Nat
                         /\ DOMAIN SentTo(c) = 1..Len(SentTo(c))
<1>1. taken[c] \in Seq(0..Len(published)) /\ send[c] \in Seq(0..Len(published))
  BY DEF TypeOK
<1>2. SentTo(c) \in Seq(0..Len(published))
  BY <1>1, ConcatProperties DEF SentTo
<1>3. QED
  BY <1>2, LenProperties

\* A send adds one message to what its client was sent, or nothing.
LEMMA SentByOffer ==
    ASSUME TypeOK, NEW c \in Clients, NEW x \in 0..Len(published), Offer(c, x), taken' = taken
    PROVE  /\ \A d \in Clients : d # c => SentTo(d)' = SentTo(d)
           /\ SentTo(c)' = IF Len(send[c]) < SendCap THEN Append(SentTo(c), x) ELSE SentTo(c)
<1>1. /\ \A d \in Clients : d # c => send'[d] = send[d]
      /\ send'[c] = IF Len(send[c]) < SendCap THEN Append(send[c], x) ELSE send[c]
  BY OfferFacts
<1> DEFINE Items == 0..Len(published)
<1>2. taken[c] \in Seq(Items) /\ send[c] \in Seq(Items) /\ x \in Items
  BY DEF TypeOK
<1>3. taken[c] \o Append(send[c], x) = Append(taken[c] \o send[c], x)
  <2> HIDE DEF Items
  <2>1. \A t, s \in Seq(Items) : \A y \in Items : t \o Append(s, y) = Append(t \o s, y)
    BY GainLast
  <2>2. QED
    BY <1>2, <2>1, Zenon
<1>4. QED
  BY <1>1, <1>3 DEF SentTo

\* A message that follows those of a sequence in order leaves it in order, and so
\* does an answer.
LEMMA AppendInOrder ==
    ASSUME NEW n \in Nat, NEW s \in Seq(0..n), NEW x \in 0..n,
           \A i, j \in DOMAIN s : i < j /\ IsMessage(s[i]) /\ IsMessage(s[j]) => s[i] < s[j],
           x = Ack \/ \A i \in 1..Len(s) : s[i] < x,
           NEW t, t = Append(s, x)
    PROVE  \A i, j \in DOMAIN t : i < j /\ IsMessage(t[i]) /\ IsMessage(t[j]) => t[i] < t[j]
<1>1. /\ Len(s) \in Nat /\ DOMAIN s = 1..Len(s) /\ DOMAIN t = 1..(Len(s) + 1)
      /\ t[Len(s) + 1] = x /\ \A i \in 1..Len(s) : t[i] = s[i]
  OBVIOUS
<1>2. SUFFICES ASSUME NEW i \in 1..(Len(s) + 1), NEW j \in 1..(Len(s) + 1), i < j,
                      IsMessage(t[i]), IsMessage(t[j])
               PROVE  t[i] < t[j]
  BY <1>1
<1>3. i \in 1..Len(s)
  BY <1>1, <1>2
<1>4. CASE j \in 1..Len(s)
  BY <1>1, <1>2, <1>3, <1>4
<1>5. CASE j = Len(s) + 1
  BY <1>1, <1>2, <1>3, <1>5 DEF IsMessage
<1>6. QED
  BY <1>1, <1>4, <1>5

\* A message sent to c that is ahead of those in the channel, and behind what c was
\* sent unless it is an answer.
LEMMA OfferOrder ==
    ASSUME TypeOK, OrderInv, NEW c \in Clients, NEW x \in 0..Len(published), Offer(c, x),
           UNCHANGED <<taken, broadcast, message>>, todo' \subseteq todo,
           \A j \in 1..Len(broadcast) : x < broadcast[j],
           message > 0 => x <= message,
           c \in todo' => x < message,
           x = Ack \/ \A i \in 1..Len(SentTo(c)) : SentTo(c)[i] < x
    PROVE  OrderInv'
<1>1. CASE SentTo(c)' = SentTo(c)
  <2>1. \A d \in Clients : SentTo(d)' = SentTo(d)
    BY <1>1, SentByOffer
  <2>2. QED
    BY <2>1 DEF OrderInv, InOrder
<1>2. CASE SentTo(c)' = Append(SentTo(c), x)
  <2>1. /\ SentTo(c) \in Seq(0..Len(published)) /\ Len(SentTo(c)) \in Nat
        /\ DOMAIN SentTo(c) = 1..Len(SentTo(c)) /\ Len(published) \in Nat
    <3>1. Len(published) \in Nat
      BY DEF TypeOK
    <3>2. QED
      BY <3>1, SentType
  <2>2. /\ Len(SentTo(c)') = Len(SentTo(c)) + 1
        /\ SentTo(c)'[Len(SentTo(c)) + 1] = x
        /\ \A i \in 1..Len(SentTo(c)) : SentTo(c)'[i] = SentTo(c)[i]
    BY <1>2, <2>1
  <2>3. \A d \in Clients : d # c => SentTo(d)' = SentTo(d)
    BY SentByOffer
  <2>4. \A d \in Clients : \A i \in 1..Len(SentTo(d)') :
            \/ i \in 1..Len(SentTo(d)) /\ SentTo(d)'[i] = SentTo(d)[i]
            \/ d = c /\ SentTo(d)'[i] = x
    <3>1. SUFFICES ASSUME NEW d \in Clients, NEW i \in 1..Len(SentTo(d)')
                   PROVE  \/ i \in 1..Len(SentTo(d)) /\ SentTo(d)'[i] = SentTo(d)[i]
                          \/ d = c /\ SentTo(d)'[i] = x
      OBVIOUS
    <3>2. CASE d # c
      BY <2>3, <3>1, <3>2
    <3>3. CASE d = c
      <4>1. i \in 1..Len(SentTo(c)) \/ i = Len(SentTo(c)) + 1
        BY <2>1, <2>2, <3>1, <3>3
      <4>2. QED
        BY <2>2, <3>3, <4>1
    <3>4. QED
      BY <3>2, <3>3
  <2>5. \A d \in Clients : \A i \in 1..Len(SentTo(d)') :
            /\ \A j \in 1..Len(broadcast) : SentTo(d)'[i] < broadcast[j]
            /\ message > 0 => SentTo(d)'[i] <= message
            /\ d \in todo' => SentTo(d)'[i] < message
    BY <2>4 DEF OrderInv
  <2>6. InOrder'
    <3>1. \A i, j \in DOMAIN SentTo(c)' : i < j /\ IsMessage(SentTo(c)'[i]) /\ IsMessage(SentTo(c)'[j])
            => SentTo(c)'[i] < SentTo(c)'[j]
      BY <1>2, <2>1, AppendInOrder DEF OrderInv, InOrder
    <3>2. \A d \in Clients : d # c =>
            \A i, j \in DOMAIN SentTo(d)' : i < j /\ IsMessage(SentTo(d)'[i]) /\ IsMessage(SentTo(d)'[j])
                => SentTo(d)'[i] < SentTo(d)'[j]
      BY <2>3 DEF OrderInv, InOrder
    <3>3. QED
      BY <3>1, <3>2 DEF InOrder
  <2>7. QED
    BY <2>5, <2>6 DEF OrderInv
<1>3. QED
  BY <1>1, <1>2, SentByOffer

LEMMA OrderStep == TypeOK /\ Listed /\ OrderInv /\ [Next]_vars => OrderInv'
<1>1. SUFFICES ASSUME TypeOK, Listed, OrderInv, [Next]_vars PROVE OrderInv'
  OBVIOUS
<1>2. /\ broadcast \in Seq(1..Len(published)) /\ Len(published) \in Nat
      /\ Len(broadcast) \in Nat /\ \A i \in 1..Len(broadcast) : broadcast[i] \in 1..Len(published)
      /\ message \in 0..Len(published)
  BY <1>1 DEF TypeOK
<1>3. \A c \in Clients : /\ SentTo(c) \in Seq(0..Len(published)) /\ Len(SentTo(c)) \in Nat
                         /\ \A i \in 1..Len(SentTo(c)) : SentTo(c)[i] \in 0..Len(published)
  BY <1>1, SentType
<1>4. ASSUME NEW kind \in Kinds, NEW symbol \in Symbols, Publish(kind, symbol)
      PROVE  OrderInv'
  <2>1. /\ Len(published') = Len(published) + 1 /\ broadcast' = Append(broadcast, Len(published'))
        /\ UNCHANGED <<message, todo, send, taken>>
    BY <1>1, <1>4 DEF Publish, TypeOK, clientVars
  <2>2. /\ Len(broadcast') = Len(broadcast) + 1
        /\ broadcast'[Len(broadcast) + 1] = Len(published) + 1
        /\ \A i \in 1..Len(broadcast) : broadcast'[i] = broadcast[i]
    BY <1>2, <2>1
  <2>3. \A j \in 1..Len(broadcast') : \/ j \in 1..Len(broadcast) /\ broadcast'[j] = broadcast[j]
                                      \/ j = Len(broadcast) + 1
    BY <1>2, <2>2
  <2>4. \A i, j \in 1..Len(broadcast') : i < j => broadcast'[i] < broadcast'[j]
    BY <1>1, <1>2, <2>2, <2>3 DEF OrderInv
  <2>5. message > 0 => \A j \in 1..Len(broadcast') : message < broadcast'[j]
    BY <1>1, <1>2, <2>2, <2>3 DEF OrderInv
  <2>6. \A c \in Clients : \A i \in 1..Len(SentTo(c)) : \A j \in 1..Len(broadcast') :
            SentTo(c)[i] < broadcast'[j]
    BY <1>1, <1>2, <1>3, <2>2, <2>3 DEF OrderInv
  <2>7. \A c \in Clients : SentTo(c)' = SentTo(c)
    BY <2>1 DEF SentTo
  <2>8. QED
    BY <1>1, <2>1, <2>4, <2>5, <2>6, <2>7 DEF OrderInv, InOrder
<1>5. CASE TakeMessage
  <2>1. /\ broadcast # <<>> /\ message' = Head(broadcast) /\ broadcast' = Tail(broadcast)
        /\ UNCHANGED <<send, taken>>
    BY <1>5 DEF TakeMessage, clientVars, historyVars
  <2>2. /\ Len(broadcast) > 0 /\ Len(broadcast') = Len(broadcast) - 1 /\ message' = broadcast[1]
        /\ \A i \in 1..Len(broadcast') : broadcast'[i] = broadcast[i + 1]
    BY <1>2, <2>1, BufferFacts
  <2>3. /\ 1 \in 1..Len(broadcast)
        /\ \A i \in 1..Len(broadcast') : i + 1 \in 1..Len(broadcast)
    BY <1>2, <2>2
  <2>4. ASSUME NEW i \in 1..Len(broadcast'), NEW j \in 1..Len(broadcast'), i < j
        PROVE  broadcast'[i] < broadcast'[j]
    <3>1. i + 1 < j + 1 /\ i + 1 \in 1..Len(broadcast) /\ j + 1 \in 1..Len(broadcast)
      BY <2>4, <2>3
    <3>2. broadcast[i + 1] < broadcast[j + 1]
      BY <1>1, <3>1 DEF OrderInv
    <3>3. QED
      BY <2>2, <3>2
  <2>5. \A i \in 1..Len(broadcast') : message' < broadcast'[i]
    <3>1. \A i \in 1..Len(broadcast') : 1 < i + 1
      BY <1>2, <2>2
    <3>2. QED
      BY <1>1, <2>2, <2>3, <3>1 DEF OrderInv
  <2>6. \A c \in Clients : \A i \in 1..Len(SentTo(c)) :
            /\ \A j \in 1..Len(broadcast') : SentTo(c)[i] < broadcast'[j]
            /\ SentTo(c)[i] < message'
    BY <1>1, <2>2, <2>3 DEF OrderInv
  <2>7. \A c \in Clients : \A i \in 1..Len(SentTo(c)) : SentTo(c)[i] <= message'
    BY <1>2, <1>3, <2>2, <2>6
  <2>8. \A c \in Clients : SentTo(c)' = SentTo(c)
    BY <2>1 DEF SentTo
  <2>9. QED
    BY <1>1, <2>4, <2>5, <2>6, <2>7, <2>8 DEF OrderInv, InOrder
<1>6. ASSUME NEW c \in Clients, Deliver(c) PROVE OrderInv'
  <2>1. /\ c \in todo /\ todo' = todo \ {c} /\ message > 0
        /\ UNCHANGED <<broadcast, message, taken>>
    BY <1>1, <1>6 DEF Deliver, TypeOK
  <2>2. CASE Offer(c, message)
    <3>1. /\ \A j \in 1..Len(broadcast) : message < broadcast[j]
          /\ \A i \in 1..Len(SentTo(c)) : SentTo(c)[i] < message
          /\ message <= message /\ c \notin todo' /\ todo' \subseteq todo
      BY <1>1, <1>2, <2>1 DEF OrderInv
    <3>2. QED
      BY <1>1, <1>2, <2>1, <2>2, <3>1, OfferOrder
  <2>3. CASE UNCHANGED send
    <3>1. \A d \in Clients : SentTo(d)' = SentTo(d)
      BY <2>1, <2>3 DEF SentTo
    <3>2. QED
      BY <1>1, <2>1, <3>1 DEF OrderInv, InOrder
  <2>4. QED
    BY <1>6, <2>2, <2>3 DEF Deliver
<1>7. CASE EndDelivery
  <2>1. /\ message' = 0 /\ todo' = {} /\ UNCHANGED <<broadcast, send, taken>>
    BY <1>7 DEF EndDelivery, clientVars, historyVars
  <2>2. \A d \in Clients : SentTo(d)' = SentTo(d)
    BY <2>1 DEF SentTo
  <2>3. QED
    BY <1>1, <2>1, <2>2 DEF OrderInv, InOrder
<1>8. ASSUME NEW c \in Clients, Reply(c) PROVE OrderInv'
  <2>1. Offer(c, Ack) /\ UNCHANGED <<taken, broadcast, message, todo>>
    BY <1>8 DEF Reply
  <2>2. Ack \in 0..Len(published) /\ \A j \in 1..Len(broadcast) : Ack < broadcast[j]
    BY <1>2 DEF Ack
  <2>3. todo # {} => message > 0
    BY <1>1 DEF Listed, TypeOK
  <2>4. /\ c \in todo' => Ack < message
        /\ message > 0 => Ack <= message
    BY <1>2, <2>1, <2>3 DEF Ack
  <2>5. QED
    BY <1>1, <2>1, <2>2, <2>4, OfferOrder
<1>9. ASSUME NEW c \in Clients, Take(c) \/ Batch(c) PROVE OrderInv'
  <2>1. /\ send[c] # <<>> /\ UNCHANGED <<broadcast, message, todo>>
        /\ taken' = [taken EXCEPT ![c] = Append(@, Head(send[c]))]
        /\ send' = [send EXCEPT ![c] = Tail(@)]
    BY <1>9 DEF Take, Batch
  <2>2. \A d \in Clients : SentTo(d)' = SentTo(d)
    BY <1>1, <2>1, TakeFacts DEF SentTo
  <2>3. QED
    BY <1>1, <2>1, <2>2 DEF OrderInv, InOrder
<1>10. ASSUME \/ Stop \/ Exit \/ UNCHANGED vars
              \/ \E c \in Clients : Register(c) \/ Unregister(c) \/ Connect(c) \/ ReadFails(c)
              \/ \E c \in Clients : EndUnsubscribe(c) \/ CloseConn(c) \/ Count(c) \/ Flush(c)
              \/ \E c \in Clients : EndWriter(c) \/ \E topic \in Topics : Change(c, topic)
              \/ \E c \in Clients, kind \in {"subscribe", "unsubscribe"}, wanted \in TopicSets :
                    Request(c, kind, wanted)
       PROVE  OrderInv'
  <2>1. UNCHANGED <<broadcast, message, todo, send, taken>>
    BY <1>10 DEF Stop, Exit, vars, clientVars, historyVars, Register, Unregister, Connect,
                 ReadFails, EndUnsubscribe, CloseConn, Count, Flush, EndWriter, Change, Request
  <2>2. \A d \in Clients : SentTo(d)' = SentTo(d)
    BY <2>1 DEF SentTo
  <2>3. QED
    BY <1>1, <2>1, <2>2 DEF OrderInv, InOrder
<1>11. QED
  BY <1>1, <1>4, <1>5, <1>6, <1>7, <1>8, <1>9, <1>10
     DEF Next, HubStep, ReaderRuns, WriterRuns, WriteFails, PingFails, SeeClosed

-----------------------------------------------------------------------------
(* What a client that has been answered is served *)

\* A client is answered for topics that are in its groups and stay there until it
\* gives them up, and a message is owed to those that are still answered for it.
AnswerInv ==
    /\ \A c \in Clients : \A t \in Topics : <<c, t>> \in acked =>
        /\ t \in groups[c]
        /\ reader[c] \in {"reading", "subscribe", "unsubscribe"}
        /\ reader[c] = "unsubscribe" => t \notin pending[c]
    /\ \A c \in Clients : reader[c] = "subscribe" => topics[c] \subseteq groups[c] \cup pending[c]
    /\ \A m \in 1..Len(owed) : owed[m] \subseteq acked

ServiceInv == AnswerInv /\ AnsweredIsServed

LEMMA AnswerStep == TypeOK /\ Listed /\ AnswerInv /\ [Next]_vars => AnswerInv'
<1>1. SUFFICES ASSUME TypeOK, Listed, AnswerInv, [Next]_vars PROVE AnswerInv'
  OBVIOUS
<1>2. /\ groups \in [Clients -> SUBSET Topics] /\ pending \in [Clients -> SUBSET Topics]
      /\ topics \in [Clients -> SUBSET Topics]
      /\ reader \in [Clients -> {"none", "registering", "reading", "subscribe", "unsubscribe",
                                 "leaving", "closing", "gone"}]
      /\ acked \subseteq Clients \X Topics
      /\ owed \in Seq(SUBSET (Clients \X Topics)) /\ Len(owed) \in Nat
      /\ DOMAIN owed = 1..Len(owed)
  BY <1>1 DEF TypeOK
<1>3. ASSUME NEW kind \in Kinds, NEW symbol \in Symbols, Publish(kind, symbol)
      PROVE  AnswerInv'
  <2>1. owed' = Append(owed, acked) /\ UNCHANGED <<groups, reader, topics, pending, acked>>
    BY <1>3 DEF Publish, clientVars
  <2>2. \A m \in 1..Len(owed') : owed'[m] \subseteq acked
    BY <1>1, <1>2, <2>1 DEF AnswerInv
  <2>3. QED
    BY <1>1, <2>1, <2>2 DEF AnswerInv
<1>4. ASSUME NEW c \in Clients, NEW kind \in {"subscribe", "unsubscribe"},
             NEW wanted \in TopicSets, Request(c, kind, wanted)
      PROVE  AnswerInv'
  <2> DEFINE given == IF kind = "unsubscribe" THEN {c} \X wanted ELSE {}
  <2>1. /\ reader[c] = "reading" /\ reader' = [reader EXCEPT ![c] = kind]
        /\ topics' = [topics EXCEPT ![c] = wanted] /\ pending' = [pending EXCEPT ![c] = wanted]
        /\ acked' = acked \ given /\ owed' = [m \in DOMAIN owed |-> owed[m] \ given]
        /\ groups' = groups
    BY <1>4 DEF Request
  <2>2. Len(owed') = Len(owed) /\ \A m \in 1..Len(owed) : owed'[m] = owed[m] \ given
    BY <1>1, <1>2, <2>1, GiveUpFacts
  <2>3. \A m \in 1..Len(owed') : owed'[m] \subseteq acked'
    BY <1>1, <2>1, <2>2 DEF AnswerInv
  <2>4. ASSUME NEW d \in Clients, NEW t \in Topics, <<d, t>> \in acked'
        PROVE  /\ t \in groups'[d]
               /\ reader'[d] \in {"reading", "subscribe", "unsubscribe"}
               /\ reader'[d] = "unsubscribe" => t \notin pending'[d]
    BY <1>1, <1>2, <2>1, <2>4 DEF AnswerInv
  <2>5. ASSUME NEW d \in Clients, reader'[d] = "subscribe"
        PROVE  topics'[d] \subseteq groups'[d] \cup pending'[d]
    BY <1>1, <1>2, <2>1, <2>5 DEF AnswerInv
  <2>6. QED
    BY <2>3, <2>4, <2>5 DEF AnswerInv
<1>5. ASSUME NEW c \in Clients, NEW topic \in Topics, Change(c, topic) PROVE AnswerInv'
  <2>1. /\ pending' = [pending EXCEPT ![c] = @ \ {topic}]
        /\ \/ reader[c] = "subscribe" /\ groups' = [groups EXCEPT ![c] = @ \cup {topic}]
           \/ reader[c] = "unsubscribe" /\ groups' = [groups EXCEPT ![c] = @ \ {topic}]
        /\ topic \in pending[c]
        /\ UNCHANGED <<reader, topics, acked, owed>>
    BY <1>5 DEF Change, historyVars
  <2>2. ASSUME NEW d \in Clients, NEW t \in Topics, <<d, t>> \in acked
        PROVE  /\ t \in groups'[d]
               /\ reader[d] \in {"reading", "subscribe", "unsubscribe"}
               /\ reader[d] = "unsubscribe" => t \notin pending'[d]
    BY <1>1, <1>2, <2>1, <2>2 DEF AnswerInv
  <2>3. ASSUME NEW d \in Clients, reader[d] = "subscribe"
        PROVE  topics[d] \subseteq groups'[d] \cup pending'[d]
    BY <1>1, <1>2, <2>1, <2>3 DEF AnswerInv
  <2>4. QED
    BY <1>1, <2>1, <2>2, <2>3 DEF AnswerInv
<1>6. ASSUME NEW c \in Clients, Reply(c) PROVE AnswerInv'
  <2>1. /\ reader[c] = "subscribe" /\ pending[c] = {}
        /\ acked' = acked \cup ({c} \X topics[c])
        /\ reader' = [reader EXCEPT ![c] = "reading"]
        /\ UNCHANGED <<groups, topics, pending, owed>>
    BY <1>6 DEF Reply
  <2>2. topics[c] \subseteq groups[c]
    BY <1>1, <2>1 DEF AnswerInv
  <2>3. QED
    BY <1>1, <1>2, <2>1, <2>2 DEF AnswerInv
<1>7. ASSUME NEW c \in Clients, ReadFails(c) PROVE AnswerInv'
  <2>1. /\ reader' = [reader EXCEPT ![c] = "leaving"]
        /\ acked' = acked \ ({c} \X Topics)
        /\ owed' = [m \in DOMAIN owed |-> owed[m] \ ({c} \X Topics)]
        /\ UNCHANGED <<groups, topics, pending>>
    BY <1>7 DEF ReadFails
  <2>2. /\ Len(owed') = Len(owed)
        /\ \A m \in 1..Len(owed) : owed'[m] = owed[m] \ ({c} \X Topics)
    BY <1>1, <1>2, <2>1, GiveUpFacts
  <2>3. \A m \in 1..Len(owed') : owed'[m] \subseteq acked'
    BY <1>1, <2>1, <2>2 DEF AnswerInv
  <2>4. QED
    BY <1>1, <1>2, <2>1, <2>3 DEF AnswerInv
<1>8. ASSUME NEW c \in Clients,
             Connect(c) \/ Register(c) \/ Unregister(c) \/ EndUnsubscribe(c) \/ CloseConn(c)
      PROVE  AnswerInv'
  <2>1. /\ UNCHANGED <<groups, topics, pending, acked, owed>>
        /\ \/ /\ reader[c] \notin {"reading", "subscribe", "unsubscribe"}
              /\ \E where \in {"registering", "reading", "closing", "gone"} :
                    reader' = [reader EXCEPT ![c] = where]
           \/ reader' = [reader EXCEPT ![c] = "reading"]
    BY <1>1, <1>8 DEF Connect, Register, Unregister, EndUnsubscribe, CloseConn, Listed,
                      historyVars
  <2>2. QED
    BY <1>1, <1>2, <2>1 DEF AnswerInv
<1>9. ASSUME \/ Stop \/ TakeMessage \/ EndDelivery \/ Exit \/ UNCHANGED vars
             \/ \E c \in Clients : Deliver(c) \/ WriterRuns(c) \/ PingFails(c)
      PROVE  AnswerInv'
  <2>1. UNCHANGED <<groups, reader, topics, pending, acked, owed>>
    BY <1>9 DEF Stop, TakeMessage, EndDelivery, Exit, vars, clientVars, historyVars, Deliver,
                WriterRuns, PingFails, Take, Count, Batch, Flush, WriteFails, SeeClosed, EndWriter
  <2>2. QED
    BY <1>1, <2>1 DEF AnswerInv
<1>10. QED
  BY <1>1, <1>3, <1>4, <1>5, <1>6, <1>7, <1>8, <1>9 DEF Next, HubStep, ReaderRuns

\* What has reached a client or was missed by it stays so; a message that is still
\* to come must stay so or reach it.
LEMMA DeliveredStays ==
    ASSUME TypeOK, NEW c \in Clients, NEW m, Delivered(c, m), missed \subseteq missed',
           SentTo(c)' = SentTo(c) \/ \E x : SentTo(c)' = Append(SentTo(c), x),
           StillComing(c, m) => Delivered(c, m)'
    PROVE  Delivered(c, m)'
<1>1. ASSUME NEW i \in DOMAIN SentTo(c), SentTo(c)[i] = m PROVE Delivered(c, m)'
  <2>1. /\ SentTo(c) \in Seq(0..Len(published)) /\ Len(SentTo(c)) \in Nat
        /\ DOMAIN SentTo(c) = 1..Len(SentTo(c))
    BY SentType
  <2>2. i \in DOMAIN SentTo(c)' /\ SentTo(c)'[i] = m
    BY <1>1, <2>1
  <2>3. QED
    BY <2>2 DEF Delivered
<1>2. QED
  BY <1>1 DEF Delivered

LEMMA ServiceStep ==
    TypeOK /\ Listed /\ AnswerInv /\ AnsweredIsServed /\ [Next]_vars => AnsweredIsServed'
<1>1. SUFFICES ASSUME TypeOK, Listed, AnswerInv, AnsweredIsServed, [Next]_vars
               PROVE  AnsweredIsServed'
  OBVIOUS
<1>2. /\ published \in Seq([kind : Kinds, symbol : Symbols])
      /\ broadcast \in Seq(1..Len(published)) /\ owed \in Seq(SUBSET (Clients \X Topics))
      /\ Len(owed) = Len(published) /\ Len(published) \in Nat /\ Len(broadcast) \in Nat
      /\ DOMAIN published = 1..Len(published) /\ DOMAIN owed = 1..Len(published)
      /\ DOMAIN broadcast = 1..Len(broadcast)
  BY <1>1 DEF TypeOK
\* It is enough that no message that is owed to a client is lost on its way.
<1>3. ASSUME published' = published, \A m \in 1..Len(published) : owed'[m] \subseteq owed[m],
             missed \subseteq missed',
             \A c \in Clients : \/ SentTo(c)' = SentTo(c)
                                \/ \E x : SentTo(c)' = Append(SentTo(c), x),
             \A m \in 1..Len(published) : \A c \in Clients :
                <<c, TopicOf(m)>> \in owed[m] /\ StillComing(c, m) => Delivered(c, m)'
      PROVE  AnsweredIsServed'
  <2>1. SUFFICES ASSUME NEW m \in 1..Len(published), NEW c \in Clients,
                        <<c, TopicOf(m)>> \in owed'[m]
                 PROVE  Delivered(c, m)'
    BY <1>2, <1>3 DEF AnsweredIsServed, TopicOf
  <2>2. <<c, TopicOf(m)>> \in owed[m] /\ Delivered(c, m)
    BY <1>1, <1>2, <1>3, <2>1 DEF AnsweredIsServed
  <2>3. QED
    BY <1>1, <1>3, <2>2, DeliveredStays
<1>4. ASSUME NEW kind \in Kinds, NEW symbol \in Symbols, Publish(kind, symbol)
      PROVE  AnsweredIsServed'
  <2>1. /\ published' = Append(published, [kind |-> kind, symbol |-> symbol])
        /\ broadcast' = Append(broadcast, Len(published')) /\ owed' = Append(owed, acked)
        /\ UNCHANGED <<message, todo, send, taken, missed>>
    BY <1>4 DEF Publish, clientVars
  <2>2. /\ Len(published') = Len(published) + 1 /\ DOMAIN published' = 1..(Len(published) + 1)
        /\ \A m \in 1..Len(published) : published'[m] = published[m] /\ owed'[m] = owed[m]
    BY <1>2, <2>1
  <2>3. /\ DOMAIN broadcast' = 1..(Len(broadcast) + 1)
        /\ broadcast'[Len(broadcast) + 1] = Len(published) + 1
        /\ \A i \in 1..Len(broadcast) : broadcast'[i] = broadcast[i]
    BY <1>2, <2>1, <2>2
  <2>4. \A c \in Clients : SentTo(c)' = SentTo(c)
    BY <2>1 DEF SentTo
  <2>5. ASSUME NEW m \in 1..Len(published), NEW c \in Clients, <<c, TopicOf(m)'>> \in owed'[m]
        PROVE  Delivered(c, m)'
    <3>1. <<c, TopicOf(m)>> \in owed[m]
      BY <2>2, <2>5 DEF TopicOf
    <3>2. Delivered(c, m)
      BY <1>1, <1>2, <3>1 DEF AnsweredIsServed
    <3>3. ASSUME StillComing(c, m) PROVE StillComing(c, m)'
      BY <1>2, <2>1, <2>3, <3>3 DEF StillComing
    <3>4. QED
      BY <2>1, <2>4, <3>2, <3>3 DEF Delivered
  <2>6. ASSUME NEW c \in Clients, NEW m, m = Len(published) + 1 PROVE Delivered(c, m)'
    <3>1. Len(broadcast) + 1 \in DOMAIN broadcast' /\ broadcast'[Len(broadcast) + 1] = m
      BY <1>2, <2>3, <2>6
    <3>2. QED
      BY <3>1 DEF Delivered, StillComing
  <2>7. \A m \in DOMAIN published' : m \in 1..Len(published) \/ m = Len(published) + 1
    BY <1>2, <2>2
  <2>8. QED
    BY <2>5, <2>6, <2>7 DEF AnsweredIsServed
<1>5. CASE TakeMessage
  <2>1. /\ broadcast # <<>> /\ message' = Head(broadcast) /\ broadcast' = Tail(broadcast)
        /\ hub = "idle" /\ todo' = clients
        /\ UNCHANGED <<published, send, taken, missed, owed>>
    BY <1>5 DEF TakeMessage, clientVars, historyVars
  <2>2. /\ Len(broadcast) > 0 /\ Len(broadcast') = Len(broadcast) - 1 /\ message' = broadcast[1]
        /\ \A i \in 1..Len(broadcast) - 1 : broadcast'[i] = broadcast[i + 1]
        /\ DOMAIN broadcast' = 1..Len(broadcast) - 1
    BY <1>2, <2>1, BufferFacts
  <2>3. ASSUME NEW m \in 1..Len(published), NEW c \in Clients,
               <<c, TopicOf(m)>> \in owed[m], StillComing(c, m)
        PROVE  Delivered(c, m)'
    <3>1. c \in clients
      <4>1. <<c, TopicOf(m)>> \in acked
        BY <1>1, <1>2, <2>3 DEF AnswerInv
      <4>2. TopicOf(m) \in Topics
        BY <1>1, <4>1 DEF TypeOK
      <4>3. QED
        BY <1>1, <4>1, <4>2 DEF AnswerInv, Listed
    <3>2. PICK i \in 1..Len(broadcast) : broadcast[i] = m
      BY <1>1, <1>2, <2>1, <2>3 DEF StillComing, Listed
    <3>3. CASE i = 1
      BY <2>1, <2>2, <3>1, <3>2, <3>3 DEF Delivered, StillComing
    <3>4. CASE i # 1
      <4>1. i - 1 \in 1..Len(broadcast) - 1 /\ (i - 1) + 1 = i
        BY <1>2, <3>2, <3>4
      <4>2. i - 1 \in DOMAIN broadcast' /\ broadcast'[i - 1] = m
        BY <2>2, <3>2, <4>1
      <4>3. QED
        BY <4>2 DEF Delivered, StillComing
    <3>5. QED
      BY <3>3, <3>4
  <2>4. \A c \in Clients : SentTo(c)' = SentTo(c)
    BY <2>1 DEF SentTo
  <2>5. QED
    BY <1>3, <2>1, <2>3, <2>4
<1>6. ASSUME NEW d \in Clients, Deliver(d) PROVE AnsweredIsServed'
  <2>1. /\ d \in todo /\ todo' = todo \ {d}
        /\ UNCHANGED <<published, broadcast, message, taken, owed>>
        /\ message \in 0..Len(published)
        /\ missed \subseteq missed'
    BY <1>1, <1>6 DEF Deliver, TypeOK
  <2>2. \A c \in Clients : \/ SentTo(c)' = SentTo(c)
                           \/ \E x : SentTo(c)' = Append(SentTo(c), x)
    <3>1. CASE Offer(d, message)
      BY <1>1, <2>1, <3>1, SentByOffer
    <3>2. CASE UNCHANGED send
      BY <2>1, <3>2 DEF SentTo
    <3>3. QED
      BY <1>6, <3>1, <3>2 DEF Deliver
  <2>3. ASSUME NEW m \in 1..Len(published), NEW c \in Clients,
               <<c, TopicOf(m)>> \in owed[m], StillComing(c, m)
        PROVE  Delivered(c, m)'
    <3>1. CASE c # d \/ message # m
      BY <2>1, <2>3, <3>1 DEF Delivered, StillComing
    <3>2. CASE c = d /\ message = m
      <4>1. TopicOf(m) \in groups[d]
        <5>1. <<c, TopicOf(m)>> \in acked
          BY <1>1, <1>2, <2>3 DEF AnswerInv
        <5>2. TopicOf(m) \in Topics
          BY <1>1, <5>1 DEF TypeOK
        <5>3. QED
          BY <1>1, <3>2, <5>1, <5>2 DEF AnswerInv
      <4>2. /\ Offer(d, m)
            /\ missed' = IF Len(send[d]) < SendCap THEN missed ELSE missed \cup {<<d, m>>}
        BY <1>6, <3>2, <4>1 DEF Deliver
      <4>3. CASE Len(send[d]) < SendCap
        <5>1. SentTo(d)' = Append(SentTo(d), m)
          BY <1>1, <2>1, <3>2, <4>2, <4>3, SentByOffer
        <5>2. SentTo(d) \in Seq(0..Len(published)) /\ Len(SentTo(d)) \in Nat
          BY <1>1, SentType
        <5>3. /\ Len(SentTo(d)) + 1 \in DOMAIN SentTo(d)'
              /\ SentTo(d)'[Len(SentTo(d)) + 1] = m
          BY <5>1, <5>2
        <5>4. QED
          BY <3>2, <5>3 DEF Delivered
      <4>4. CASE ~(Len(send[d]) < SendCap)
        BY <3>2, <4>2, <4>4 DEF Delivered
      <4>5. QED
        BY <4>3, <4>4
    <3>3. QED
      BY <3>1, <3>2
  <2>4. QED
    BY <1>3, <2>1, <2>2, <2>3
<1>7. CASE EndDelivery
  <2>1. /\ todo = {} /\ UNCHANGED <<published, broadcast, send, taken, missed, owed>>
    BY <1>7 DEF EndDelivery, clientVars, historyVars
  <2>2. \A c \in Clients : SentTo(c)' = SentTo(c)
    BY <2>1 DEF SentTo
  <2>3. \A m \in 1..Len(published) : \A c \in Clients : StillComing(c, m) => Delivered(c, m)'
    BY <2>1 DEF Delivered, StillComing
  <2>4. QED
    BY <1>3, <2>1, <2>2, <2>3
\* The steps that move no message on its way to a client.
<1>8. ASSUME UNCHANGED <<published, broadcast, message, todo, missed>>,
             \A m \in 1..Len(published) : owed'[m] \subseteq owed[m],
             \A c \in Clients : \/ SentTo(c)' = SentTo(c)
                                \/ \E x : SentTo(c)' = Append(SentTo(c), x)
      PROVE  AnsweredIsServed'
  <2>1. \A m \in 1..Len(published) : \A c \in Clients : StillComing(c, m) => Delivered(c, m)'
    BY <1>8 DEF Delivered, StillComing
  <2>2. QED
    BY <1>3, <1>8, <2>1
<1>9. ASSUME NEW d \in Clients, Reply(d) \/ Take(d) \/ Batch(d) PROVE AnsweredIsServed'
  <2>1. UNCHANGED <<published, broadcast, message, todo, missed, owed>>
    BY <1>9 DEF Reply, Take, Batch
  <2>2. \A c \in Clients : \/ SentTo(c)' = SentTo(c)
                           \/ \E x : SentTo(c)' = Append(SentTo(c), x)
    <3>1. CASE Reply(d)
      <4>1. Ack \in 0..Len(published)
        BY <1>2 DEF Ack
      <4>2. QED
        BY <1>1, <3>1, <4>1, SentByOffer DEF Reply
    <3>2. CASE Take(d) \/ Batch(d)
      BY <1>1, <3>2, TakeFacts DEF Take, Batch, SentTo
    <3>3. QED
      BY <1>9, <3>1, <3>2
  <2>3. QED
    BY <1>8, <2>1, <2>2
<1>10. ASSUME NEW d \in Clients,
              \/ ReadFails(d)
              \/ \E kind \in {"subscribe", "unsubscribe"}, wanted \in TopicSets :
                    Request(d, kind, wanted)
       PROVE  AnsweredIsServed'
  <2>1. /\ UNCHANGED <<published, broadcast, message, todo, send, taken, missed>>
        /\ \E given : acked' = acked \ given /\ owed' = [m \in DOMAIN owed |-> owed[m] \ given]
    <3>1. CASE ReadFails(d)
      BY <3>1 DEF ReadFails
    <3>2. ASSUME NEW kind \in {"subscribe", "unsubscribe"}, NEW wanted \in TopicSets,
                 Request(d, kind, wanted)
          PROVE  /\ UNCHANGED <<published, broadcast, message, todo, send, taken, missed>>
                 /\ \E given : /\ acked' = acked \ given
                               /\ owed' = [m \in DOMAIN owed |-> owed[m] \ given]
      BY <3>2 DEF Request
    <3>3. QED
      BY <1>10, <3>1, <3>2
  <2>2. \A m \in 1..Len(published) : owed'[m] \subseteq owed[m]
    BY <1>2, <2>1
  <2>3. \A c \in Clients : SentTo(c)' = SentTo(c)
    BY <2>1 DEF SentTo
  <2>4. QED
    BY <1>8, <2>1, <2>2, <2>3
<1>11. ASSUME \/ Stop \/ Exit \/ UNCHANGED vars
              \/ \E c \in Clients : Register(c) \/ Unregister(c) \/ Connect(c)
              \/ \E c \in Clients : EndUnsubscribe(c) \/ CloseConn(c) \/ Count(c) \/ Flush(c)
              \/ \E c \in Clients : EndWriter(c) \/ \E topic \in Topics : Change(c, topic)
       PROVE  AnsweredIsServed'
  <2>1. UNCHANGED <<published, broadcast, message, todo, send, taken, missed, owed>>
    BY <1>11 DEF Stop, Exit, vars, clientVars, historyVars, Register, Unregister, Connect,
                 EndUnsubscribe, CloseConn, Count, Flush, EndWriter, Change
  <2>2. \A c \in Clients : SentTo(c)' = SentTo(c)
    BY <2>1 DEF SentTo
  <2>3. QED
    BY <1>8, <2>1, <2>2
<1>12. QED
  BY <1>1, <1>4, <1>5, <1>6, <1>7, <1>9, <1>10, <1>11
     DEF Next, HubStep, ReaderRuns, WriterRuns, WriteFails, PingFails, SeeClosed

-----------------------------------------------------------------------------
(* Theorems *)

HubInv == ListInv /\ OrderInv /\ ServiceInv

LEMMA HubInvInit == Init => HubInv
<1>1. SUFFICES ASSUME Init PROVE HubInv
  OBVIOUS
<1>2. TypeOK
  BY <1>1, TypeInit
<1>3. Listed /\ NoSendOnClosed /\ BatchIsThere
  BY <1>1 DEF Init, Listed, NoSendOnClosed, BatchIsThere
<1>4. \A c \in Clients : SentTo(c) = <<>>
  <2>1. \A c \in Clients : taken[c] = <<>> /\ send[c] = <<>>
    BY <1>1 DEF Init
  <2>2. <<>> \o <<>> = <<>>
    OBVIOUS
  <2>3. QED
    BY <2>1, <2>2 DEF SentTo
<1>5. OrderInv
  <2>1. /\ broadcast = <<>> /\ message = 0 /\ \A c \in Clients : Len(SentTo(c)) = 0
        /\ \A c \in Clients : DOMAIN SentTo(c) = {}
    BY <1>1, <1>4 DEF Init
  <2>2. QED
    BY <2>1 DEF OrderInv, InOrder
<1>6. ServiceInv
  <2>1. /\ published = <<>> /\ owed = <<>> /\ acked = {}
        /\ \A c \in Clients : reader[c] = "none"
    BY <1>1 DEF Init
  <2>2. QED
    BY <2>1 DEF ServiceInv, AnswerInv, AnsweredIsServed
<1>7. QED
  BY <1>2, <1>3, <1>5, <1>6 DEF HubInv, ListInv

\* The invariant of the hub: no step of any goroutine breaks it.
THEOREM HubInvariance == Spec => []HubInv
<1>1. HubInv /\ [Next]_vars => HubInv'
  BY TypeStep, ListStep, BatchStep, OrderStep, AnswerStep, ServiceStep
     DEF HubInv, ListInv, ServiceInv
<1>2. QED
  BY HubInvInit, <1>1, PTL DEF Spec

\* Every variable of the hub keeps its type and its channels their buffers' bounds.
THEOREM HubTypeCorrect == Spec => []TypeOK
<1>1. HubInv => TypeOK
  BY DEF HubInv, ListInv
<1>2. QED
  BY HubInvariance, <1>1, PTL

\* A client's channel is closed only when neither Run nor the client's readPump can
\* send on it any more.
THEOREM ClosesSafely == Spec => []NoSendOnClosed
<1>1. HubInv => NoSendOnClosed
  BY DEF HubInv, ListInv
<1>2. QED
  BY HubInvariance, <1>1, PTL

\* What writePump has counted is there when it takes it.
THEOREM WholeBatches == Spec => []BatchIsThere
<1>1. HubInv => BatchIsThere
  BY DEF HubInv, ListInv
<1>2. QED
  BY HubInvariance, <1>1, PTL

\* Each client gets each message at most once and in the order of publication.
THEOREM DeliversInOrder == Spec => []InOrder
<1>1. HubInv => InOrder
  BY DEF HubInv, OrderInv
<1>2. QED
  BY HubInvariance, <1>1, PTL

\* Who has been answered for a topic is served it.
THEOREM ServesTheAnswered == Spec => []AnsweredIsServed
<1>1. HubInv => AnsweredIsServed
  BY DEF HubInv, ServiceInv
<1>2. QED
  BY HubInvariance, <1>1, PTL
=================================================================================
