-------------------------- MODULE MqttClientProofs --------------------------
(***************************************************************************)
(* Proofs about MqttClient, for every capacity of the channel, every       *)
(* number of packets and every number of streams, and about the keep-alive *)
(* of a stream.                                                            *)
(***************************************************************************)
EXTENDS MqttClient, MqttKeepAlive, SequenceTheorems, TLAPS

\* What the goroutines hold fits where they are: the strengthening that makes
\* the type invariant and the ledger inductive.
HandInv ==
    /\ cpc \in {"send", "sendDie"} => curr # NoPacket
    /\ cpc = "sending" => curr = NoPacket
    /\ cpc \in {"closeDie", "closeWait", "startPing", "connWait", "connDie", "subSend",
               "subWait", "send", "sending", "sendDie"} => cur # NoStream
    /\ \A s \in Streams : rcv[s] = "userSend" => upkt[s] # NoPacket
    /\ closing # "none" => dying
    /\ closing = "returned" => cpc = "done"

ClientInv == TypeOK /\ HandInv

LEMMA InitClientInv == Init => ClientInv
  <1> SUFFICES ASSUME Init PROVE ClientInv
    OBVIOUS
  <1>1. /\ cache \in Seq(Packets) /\ accepted \in Seq(Packets) /\ handed \in Seq(Packets)
        /\ Len(cache) <= MaxCacheMessages
        /\ offered \in 0 .. MaxSends /\ dialled \in 0 .. MaxStreams
    BY ClientAssumption, EmptySeq DEF Init
  <1>2. dying \in BOOLEAN /\ closing \in {"none", "wait", "early", "returned"}
    BY DEF Init
  <1>3. killed \in [Streams -> BOOLEAN] /\ connacked \in [Streams -> BOOLEAN]
    BY DEF Init
  <1>4. errs \in [Streams -> Nat] /\ upkt \in [Streams -> {NoPacket} \cup Packets]
    BY DEF Init
  <1> QED
    BY <1>1, <1>2, <1>3, <1>4 DEF Init, ClientInv, TypeOK, HandInv

\* A select case that puts a packet into the channel respects its capacity.
LEMMA EnqueueType ==
    ASSUME TypeOK, NEW pkt \in Packets, Enqueue(pkt) \/ UNCHANGED queueVars
    PROVE  /\ cache' \in Seq(Packets) /\ accepted' \in Seq(Packets)
           /\ Len(cache') <= MaxCacheMessages
  <1>1. CASE Enqueue(pkt)
    <2>1. cache' \in Seq(Packets) /\ Len(cache') = Len(cache) + 1
      BY <1>1, AppendProperties DEF TypeOK, Enqueue
    <2>2. accepted' \in Seq(Packets)
      BY <1>1, AppendProperties DEF TypeOK, Enqueue
    <2> QED
      BY <1>1, <2>1, <2>2, LenProperties, ClientAssumption DEF TypeOK, Enqueue
  <1>2. CASE UNCHANGED queueVars
    BY <1>2 DEF TypeOK, queueVars
  <1> QED
    BY <1>1, <1>2

\* The user's calls.
LEMMA UserClientInv ==
    ClientInv /\ (Start \/ Send \/ SendOrDrop \/ CloseKill \/ CloseReturn)
        => ClientInv'
  <1> SUFFICES ASSUME ClientInv, Start \/ Send \/ SendOrDrop \/ CloseKill \/ CloseReturn
               PROVE  ClientInv'
    OBVIOUS
  <1> USE ClientAssumption DEF ClientInv, HandInv, TypeOK,
          userVars, queueVars, sendVars, connVars, dieVars, rcvVars
  <1>1. CASE Start
    BY <1>1 DEF Start
  <1>2. CASE Send \/ SendOrDrop
    <2>1. offered' \in 0 .. MaxSends /\ offered + 1 \in Packets
      BY <1>2 DEF Send, SendOrDrop, Packets
    <2>2. Enqueue(offered + 1) \/ UNCHANGED queueVars
      BY <1>2 DEF Send, SendOrDrop
    <2>3. /\ cache' \in Seq(Packets) /\ accepted' \in Seq(Packets)
          /\ Len(cache') <= MaxCacheMessages
      BY <2>1, <2>2, EnqueueType
    <2> QED
      BY <1>2, <2>1, <2>3 DEF Send, SendOrDrop
  <1>3. CASE CloseKill \/ CloseReturn
    <2>1. dying' \in BOOLEAN /\ closing' \in {"none", "wait", "early", "returned"}
      BY <1>3 DEF CloseKill, CloseReturn
    <2> QED
      BY <1>3, <2>1 DEF CloseKill, CloseReturn
  <1> QED
    BY <1>1, <1>2, <1>3

\* The body of die, and the network.
LEMMA DieClientInv ==
    ASSUME NEW s \in Streams
    PROVE  ClientInv /\ (LinkBreaks(s) \/ Die(s)) => ClientInv'
  <1> SUFFICES ASSUME ClientInv, LinkBreaks(s) \/ Die(s)
               PROVE  ClientInv'
    OBVIOUS
  <1> USE ClientAssumption DEF ClientInv, HandInv, TypeOK,
          userVars, queueVars, sendVars, connVars, dieVars, rcvVars
  <1>1. CASE LinkBreaks(s)
    BY <1>1 DEF LinkBreaks
  <1>2. CASE DieReport(s)
    BY <1>2 DEF DieReport
  <1>3. CASE DieDisconnect(s)
    BY <1>3 DEF DieDisconnect, ConnSendOk, ConnSendFails
  <1>4. CASE DieKill(s)
    BY <1>4 DEF DieKill
  <1>5. CASE DieClose(s)
    BY <1>5 DEF DieClose
  <1> QED
    BY <1>1, <1>2, <1>3, <1>4, <1>5 DEF Die

\* connecting.
LEMMA ConnectingClientInv == ClientInv /\ Connecting => ClientInv'
  <1> SUFFICES ASSUME ClientInv, Connecting
               PROVE  ClientInv'
    OBVIOUS
  <1> USE ClientAssumption DEF ClientInv, HandInv, TypeOK,
          userVars, queueVars, sendVars, connVars, dieVars, rcvVars
  <1>1. CASE LoopTop
    BY <1>1 DEF LoopTop
  <1>2. CASE CloseWait
    BY <1>2 DEF CloseWait
  <1>3. CASE SelectDying
    BY <1>3 DEF SelectDying
  <1>4. CASE SelectTimer
    BY <1>4 DEF SelectTimer
  <1>5. CASE DialFails
    BY <1>5 DEF DialFails
  <1>6. CASE DialOk
    <2>1. dialled + 1 \in Streams /\ dialled + 1 # NoStream /\ dialled' \in 0 .. MaxStreams
      BY <1>6 DEF DialOk, Streams, NoStream
    <2> QED
      BY <1>6, <2>1 DEF DialOk
  <1>7. CASE StartPinging
    BY <1>7 DEF StartPinging
  <1>8. CASE ConnectAcked
    BY <1>8 DEF ConnectAcked, Establish
  <1>9. CASE WaitFails
    BY <1>9 DEF WaitFails
  <1>10. CASE SendSubscribe
    BY <1>10 DEF SendSubscribe, ConnSendOk, ConnSendFails
  <1>11. CASE SubscribeAcked
    BY <1>11 DEF SubscribeAcked, Establish
  <1>12. CASE SendingTake
    <2>1. curr' \in Packets /\ cache' \in Seq(Packets) /\ Len(cache') <= MaxCacheMessages
      BY <1>12, HeadTailProperties, LenProperties DEF SendingTake
    <2>2. curr' # NoPacket
      BY <2>1 DEF Packets, NoPacket
    <2> QED
      BY <1>12, <2>1, <2>2 DEF SendingTake
  <1>13. CASE SendingStop
    BY <1>13 DEF SendingStop
  <1>14. CASE SendPacketOk
    BY <1>14 DEF SendPacketOk, ConnSendOk
  <1>15. CASE SendPacketFails
    BY <1>15 DEF SendPacketFails, ConnSendFails
  <1>16. CASE ConnectingDies
    BY <1>16 DEF ConnectingDies, DieEnter, OnceTake, Cancel
  <1>17. CASE ConnectingDied
    BY <1>17 DEF ConnectingDied
  <1> QED
    BY <1>1, <1>2, <1>3, <1>4, <1>5, <1>6, <1>7, <1>8, <1>9, <1>10, <1>11, <1>12, <1>13, <1>14, <1>15, <1>16, <1>17 DEF Connecting

\* receiving.
LEMMA ReceivingClientInv ==
    ASSUME NEW s \in Streams
    PROVE  ClientInv /\ Receiving(s) => ClientInv'
  <1> SUFFICES ASSUME ClientInv, Receiving(s)
               PROVE  ClientInv'
    OBVIOUS
  <1> USE ClientAssumption DEF ClientInv, HandInv, TypeOK, RcvGoto,
          userVars, queueVars, sendVars, connVars, dieVars, rcvVars
  <1>1. CASE ReceiveFails(s)
    BY <1>1 DEF ReceiveFails
  <1>2. CASE ReceiveConnack(s)
    BY <1>2 DEF ReceiveConnack
  <1>3. CASE ReceiveBad(s)
    BY <1>3 DEF ReceiveBad
  <1>4. CASE ReceiveSuback(s)
    BY <1>4 DEF ReceiveSuback
  <1>5. CASE ReceivePublish(s)
    BY <1>5 DEF ReceivePublish
  <1>6. CASE CallbackSend(s)
    <2>1. offered + 1 \in Packets /\ offered + 1 # NoPacket /\ offered' \in 0 .. MaxSends
      BY <1>6 DEF CallbackSend, Packets, NoPacket
    <2> QED
      BY <1>6, <2>1 DEF CallbackSend
  <1>7. CASE CallbackSent(s)
    <2>1. upkt[s] \in Packets
      BY <1>7 DEF CallbackSent
    <2>2. /\ cache' \in Seq(Packets) /\ accepted' \in Seq(Packets)
          /\ Len(cache') <= MaxCacheMessages
      BY <1>7, <2>1, EnqueueType DEF CallbackSent
    <2> QED
      BY <1>7, <2>2 DEF CallbackSent
  <1>8. CASE PublishNotAcked(s)
    BY <1>8 DEF PublishNotAcked
  <1>9. CASE PublishAcked(s)
    <2>1. CASE ConnSendOk(s, TRUE) /\ RcvGoto(s, "read")
      BY <1>9, <2>1 DEF PublishAcked, ConnSendOk
    <2>2. CASE ConnSendFails(s) /\ RcvGoto(s, "die")
      BY <1>9, <2>2 DEF PublishAcked, ConnSendFails
    <2> QED
      BY <1>9, <2>1, <2>2 DEF PublishAcked
  <1>10. CASE ReceivingDies(s)
    BY <1>10 DEF ReceivingDies, DieEnter, OnceTake, Cancel
  <1>11. CASE ReceivingDied(s)
    BY <1>11 DEF ReceivingDied
  <1> QED
    BY <1>1, <1>2, <1>3, <1>4, <1>5, <1>6, <1>7, <1>8, <1>9, <1>10, <1>11 DEF Receiving

\* pinging.
LEMMA PingingClientInv ==
    ASSUME NEW s \in Streams
    PROVE  ClientInv /\ Pinging(s) => ClientInv'
  <1> SUFFICES ASSUME ClientInv, Pinging(s)
               PROVE  ClientInv'
    OBVIOUS
  <1> USE ClientAssumption DEF ClientInv, HandInv, TypeOK, PngGoto,
          userVars, queueVars, sendVars, connVars, dieVars, rcvVars
  <1>1. CASE PongMissing(s)
    BY <1>1 DEF PongMissing
  <1>2. CASE PingFails(s)
    BY <1>2 DEF PingFails, ConnSendFails
  <1>3. CASE PingingStop(s)
    BY <1>3 DEF PingingStop
  <1>4. CASE PingingDies(s)
    BY <1>4 DEF PingingDies, DieEnter, OnceTake, Cancel
  <1>5. CASE PingingDied(s)
    BY <1>5 DEF PingingDied
  <1> QED
    BY <1>1, <1>2, <1>3, <1>4, <1>5 DEF Pinging
LEMMA NextClientInv == ClientInv /\ [Next]_vars => ClientInv'
  <1> SUFFICES ASSUME ClientInv, [Next]_vars PROVE ClientInv'
    OBVIOUS
  <1>1. CASE Start \/ Send \/ SendOrDrop \/ CloseKill \/ CloseReturn
    BY <1>1, UserClientInv
  <1>2. CASE Connecting
    BY <1>2, ConnectingClientInv
  <1>3. CASE \E s \in Streams : LinkBreaks(s) \/ Die(s) \/ Receiving(s) \/ Pinging(s)
    BY <1>3, DieClientInv, ReceivingClientInv, PingingClientInv
  <1>4. CASE UNCHANGED vars
    BY <1>4 DEF ClientInv, HandInv, TypeOK, vars, userVars, queueVars, sendVars,
                connVars, dieVars, rcvVars
  <1> QED
    BY <1>1, <1>2, <1>3, <1>4 DEF Next

\* The type invariant of the client: in particular the channel never holds more
\* than its capacity, and the packet in hand is one that was passed to Send.
THEOREM ClientTypeCorrect == Spec => []TypeOK
  <1>1. Init => ClientInv
    BY InitClientInv
  <1>2. ClientInv /\ [Next]_vars => ClientInv'
    BY NextClientInv
  <1>3. ClientInv => TypeOK
    BY DEF ClientInv
  <1> QED
    BY <1>1, <1>2, <1>3, PTL DEF Spec
-----------------------------------------------------------------------------
(* The ledger                                                              *)

\* What the steps of the client do to the packets: nothing, or one of three
\* things; and Close does nothing to them.
PacketStep ==
    \/ UNCHANGED <<cache, accepted, curr, handed, closing>>
    \/ UNCHANGED <<cache, accepted, curr, handed>> /\ closing # "returned"
    \/ \E pkt \in Packets : Enqueue(pkt) /\ UNCHANGED <<curr, handed, closing>>
    \/ /\ curr = NoPacket /\ cache # <<>>
       /\ curr' = Head(cache) /\ cache' = Tail(cache)
       /\ UNCHANGED <<accepted, handed, closing>>
    \/ /\ curr \in Packets /\ closing # "returned"
       /\ handed' = Append(handed, curr) /\ curr' = NoPacket
       /\ UNCHANGED <<cache, accepted, closing>>

LEMMA StepIsPacketStep == ClientInv /\ [Next]_vars => PacketStep
  <1> SUFFICES ASSUME ClientInv, [Next]_vars PROVE PacketStep
    OBVIOUS
  <1> USE DEF PacketStep, userVars, queueVars, sendVars, connVars, dieVars, rcvVars
  <1>1. CASE Start \/ CloseKill \/ CloseReturn
    BY <1>1 DEF Start, CloseKill, CloseReturn
  <1>2. CASE Send \/ SendOrDrop
    <2>1. offered + 1 \in Packets
      BY <1>2, ClientAssumption DEF Send, SendOrDrop, Packets, ClientInv, TypeOK
    <2>2. Enqueue(offered + 1) \/ UNCHANGED queueVars
      BY <1>2 DEF Send, SendOrDrop
    <2>3. UNCHANGED <<curr, handed, closing>>
      BY <1>2 DEF Send, SendOrDrop
    <2> QED
      BY <2>1, <2>2, <2>3
  <1>3. CASE SendingTake
    BY <1>3 DEF SendingTake, ClientInv, HandInv
  <1>4. CASE SendPacketOk
    BY <1>4 DEF SendPacketOk, ClientInv, HandInv, TypeOK
  <1>5. CASE Connecting /\ ~SendingTake /\ ~SendPacketOk
    BY <1>5 DEF Connecting, LoopTop, CloseWait, SelectDying, SelectTimer, DialFails,
        DialOk, StartPinging, ConnectAcked, WaitFails, SendSubscribe, SubscribeAcked,
        SendingStop, SendPacketFails, ConnectingDies, ConnectingDied, DieEnter
  <1>6. ASSUME NEW s \in Streams, LinkBreaks(s) \/ Die(s)
        PROVE  PacketStep
    BY <1>6 DEF LinkBreaks, Die, DieReport, DieDisconnect, DieKill, DieClose
  <1>7. ASSUME NEW s \in Streams, CallbackSent(s)
        PROVE  PacketStep
    <2>1. upkt[s] \in Packets
      BY <1>7 DEF CallbackSent, ClientInv, HandInv, TypeOK
    <2>2. Enqueue(upkt[s]) \/ UNCHANGED queueVars
      BY <1>7 DEF CallbackSent
    <2>3. UNCHANGED <<curr, handed, closing>>
      BY <1>7 DEF CallbackSent
    <2> QED
      BY <2>1, <2>2, <2>3
  <1>8. ASSUME NEW s \in Streams, Receiving(s), ~CallbackSent(s)
        PROVE  PacketStep
    BY <1>8 DEF Receiving, ReceiveFails, ReceiveConnack, ReceiveBad, ReceiveSuback,
        ReceivePublish, CallbackSend, PublishNotAcked, PublishAcked, ReceivingDies,
        ReceivingDied, DieEnter
  <1>9. ASSUME NEW s \in Streams, Pinging(s)
        PROVE  PacketStep
    BY <1>9 DEF Pinging, PongMissing, PingFails, PingingStop, PingingDies, PingingDied,
        DieEnter
  <1>10. CASE UNCHANGED vars
    BY <1>10 DEF vars
  <1> QED
    BY <1>1, <1>2, <1>3, <1>4, <1>5, <1>6, <1>7, <1>8, <1>9, <1>10 DEF Next

LEMMA InHandType == TypeOK => InHand \in Seq(Packets) /\ Len(InHand) <= 1
  BY DEF TypeOK, InHand

\* Facts about the two places a packet passes through on its way.
LEMMA TakeKeepsQueue ==
    ASSUME NEW S, NEW q \in Seq(S), q # <<>>
    PROVE  <<Head(q)>> \o Tail(q) = <<>> \o q
  <1>1. Head(q) \in S /\ Tail(q) \in Seq(S)
    BY HeadTailProperties
  <1>2. <<Head(q)>> \in Seq(S)
    BY <1>1
  <1>3. <<Head(q)>> \o Tail(q) = q
    BY <1>1, <1>2, HeadTailProperties, ConcatProperties, SeqEqual, LenProperties
  <1> QED
    BY <1>3, ConcatEmptySeq
LEMMA NextLedger == ClientInv /\ Ledger /\ PacketStep => Ledger'
  <1> SUFFICES ASSUME ClientInv, Ledger, PacketStep PROVE Ledger'
    OBVIOUS
  <1>1. /\ cache \in Seq(Packets) /\ accepted \in Seq(Packets) /\ handed \in Seq(Packets)
        /\ InHand \in Seq(Packets) /\ handed \o InHand \in Seq(Packets)
    BY InHandType, ConcatProperties DEF ClientInv, TypeOK
  <1>2. CASE UNCHANGED <<cache, accepted, curr, handed>>
    BY <1>2 DEF Ledger, InHand
  <1>3. ASSUME NEW pkt \in Packets, Enqueue(pkt), UNCHANGED <<curr, handed>>
        PROVE  Ledger'
    <2>1. <<pkt>> \in Seq(Packets)
      OBVIOUS
    <2>2. accepted' = ((handed \o InHand) \o cache) \o <<pkt>>
      BY <1>1, <1>3, AppendIsConcat DEF Ledger, Enqueue
    <2>3. cache' = cache \o <<pkt>>
      BY <1>1, <1>3, AppendIsConcat DEF Enqueue
    <2>4. accepted' = (handed \o InHand) \o cache'
      BY <1>1, <2>1, <2>2, <2>3, ConcatAssociative
    <2> QED
      BY <1>3, <2>4 DEF Ledger, InHand
  <1>4. CASE /\ curr = NoPacket /\ cache # <<>>
             /\ curr' = Head(cache) /\ cache' = Tail(cache)
             /\ UNCHANGED <<accepted, handed, closing>>
    <2>1. Head(cache) \in Packets /\ Tail(cache) \in Seq(Packets)
      BY <1>1, <1>4, HeadTailProperties
    <2>2. InHand = <<>> /\ InHand' = <<Head(cache)>>
      BY <1>4, <2>1 DEF InHand, Packets, NoPacket
    <2>3. <<Head(cache)>> \o Tail(cache) = <<>> \o cache
      BY <1>1, <1>4, TakeKeepsQueue
    <2>4. accepted = handed \o (<<>> \o cache)
      BY <1>1, <2>2, ConcatAssociative DEF Ledger
    <2>5. accepted = handed \o (InHand' \o cache')
      BY <1>4, <2>2, <2>3, <2>4
    <2>6. InHand' \in Seq(Packets) /\ cache' \in Seq(Packets)
      BY <1>4, <2>1, <2>2
    <2>7. (handed \o InHand') \o cache' = handed \o (InHand' \o cache')
      BY <1>1, <2>6, ConcatAssociative
    <2>8. accepted' = (handed' \o InHand') \o cache'
      BY <1>4, <2>5, <2>7
    <2> QED
      BY <2>8 DEF Ledger
  <1>5. CASE /\ curr \in Packets /\ closing # "returned"
             /\ handed' = Append(handed, curr) /\ curr' = NoPacket
             /\ UNCHANGED <<cache, accepted, closing>>
    <2>1. InHand = <<curr>> /\ InHand' = <<>>
      BY <1>5 DEF InHand, Packets, NoPacket
    <2>2. handed' = handed \o <<curr>>
      BY <1>1, <1>5, AppendIsConcat
    <2>3. handed' \in Seq(Packets) /\ handed' \o InHand' = handed'
      BY <1>1, <1>5, <2>1, <2>2, ConcatEmptySeq
    <2> QED
      BY <1>5, <2>1, <2>2, <2>3 DEF Ledger
  <1> QED
    BY <1>2, <1>3, <1>4, <1>5 DEF PacketStep

\* Whatever streams fail and whenever the client is closed, no packet that Send
\* accepted is lost, duplicated or overtaken on its way to a connection.
THEOREM ClientLedger == Spec => []Ledger
  <1>1. Init => ClientInv /\ Ledger
    <2>1. Init => Ledger
      BY DEF Init, Ledger, InHand
    <2> QED
      BY <2>1, InitClientInv
  <1>2. (ClientInv /\ Ledger) /\ [Next]_vars => (ClientInv /\ Ledger)'
    BY NextClientInv, NextLedger, StepIsPacketStep
  <1> QED
    BY <1>1, <1>2, PTL DEF Spec

-----------------------------------------------------------------------------
(* The client implements SendQueue                                         *)

LEMMA StepIsQueueStep == ClientInv /\ PacketStep => [Queue!Next]_Queue!vars
  <1> SUFFICES ASSUME ClientInv, PacketStep PROVE [Queue!Next]_Queue!vars
    OBVIOUS
  <1> DEFINE q == InHand \o cache
  <1>1. /\ cache \in Seq(Packets) /\ handed \in Seq(Packets) /\ InHand \in Seq(Packets)
        /\ Len(InHand) <= 1 /\ Len(cache) \in Nat /\ Len(InHand) \in Nat
    BY InHandType, LenProperties DEF ClientInv, TypeOK
  <1>2. CASE UNCHANGED <<cache, accepted, curr, handed, closing>>
    BY <1>2 DEF Queue!vars, InHand
  <1>3. CASE UNCHANGED <<cache, accepted, curr, handed>> /\ closing # "returned"
    <2>1. CASE closing' = "returned"
      <3>1. Queue!Close
        BY <1>3, <2>1 DEF Queue!Close, InHand
      <3> QED
        BY <3>1 DEF Queue!Next
    <2>2. CASE closing' # "returned"
      BY <1>3, <2>2 DEF Queue!vars, InHand
    <2> QED
      BY <2>1, <2>2
  <1>4. ASSUME NEW pkt \in Packets, Enqueue(pkt), UNCHANGED <<curr, handed, closing>>
        PROVE  [Queue!Next]_Queue!vars
    <2>1. Len(q) < MaxCacheMessages + 1
      BY <1>1, <1>4, ConcatProperties, ClientAssumption DEF Enqueue
    <2>2. InHand' = InHand
      BY <1>4 DEF InHand
    <2>3. <<pkt>> \in Seq(Packets) /\ cache' = cache \o <<pkt>>
      BY <1>1, <1>4, AppendIsConcat DEF Enqueue
    <2>4. q \in Seq(Packets)
      BY <1>1, ConcatProperties
    <2>5. Append(q, pkt) = q \o <<pkt>>
      BY <2>4, AppendIsConcat
    <2>6. q \o <<pkt>> = InHand \o (cache \o <<pkt>>)
      BY <1>1, <2>3, ConcatAssociative
    <2>7. (InHand \o cache)' = Append(q, pkt)
      BY <2>2, <2>3, <2>5, <2>6
    <2>8. Queue!Put
      BY <1>4, <2>1, <2>7 DEF Queue!Put
    <2> QED
      BY <2>8 DEF Queue!Next
  <1>5. CASE /\ curr = NoPacket /\ cache # <<>>
             /\ curr' = Head(cache) /\ cache' = Tail(cache)
             /\ UNCHANGED <<accepted, handed, closing>>
    <2>1. Head(cache) \in Packets
      BY <1>1, <1>5, HeadTailProperties
    <2>2. InHand = <<>> /\ InHand' = <<Head(cache)>>
      BY <1>5, <2>1 DEF InHand, Packets, NoPacket
    <2>3. <<Head(cache)>> \o Tail(cache) = <<>> \o cache
      BY <1>1, <1>5, TakeKeepsQueue
    <2>4. (InHand \o cache)' = q
      BY <1>5, <2>2, <2>3
    <2> QED
      BY <1>5, <2>4 DEF Queue!vars
  <1>6. CASE /\ curr \in Packets /\ closing # "returned"
             /\ handed' = Append(handed, curr) /\ curr' = NoPacket
             /\ UNCHANGED <<cache, accepted, closing>>
    <2>1. InHand = <<curr>> /\ InHand' = <<>>
      BY <1>6 DEF InHand, Packets, NoPacket
    <2>2. q = <<curr>> \o cache /\ q \in Seq(Packets) /\ Len(q) = 1 + Len(cache)
      BY <1>1, <2>1, ConcatProperties
    <2>3. q # <<>> /\ q[1] = curr
      BY <1>1, <2>1, <2>2, ConcatProperties
    <2>4. Head(q) = curr
      BY <2>2, <2>3
    <2>5. Tail(q) \in Seq(Packets) /\ Len(Tail(q)) = Len(cache)
      BY <1>1, <2>2, <2>3, HeadTailProperties
    <2>6. \A i \in 1 .. Len(cache) : Tail(q)[i] = cache[i]
      BY <1>1, <2>1, <2>2, <2>3, <2>5, HeadTailProperties, ConcatProperties
    <2>7. Tail(q) = cache
      BY <1>1, <2>5, <2>6, SeqEqual
    <2>8. (InHand \o cache)' = Tail(q)
      BY <1>1, <1>6, <2>1, <2>7, ConcatEmptySeq
    <2>9. Queue!HandOver
      BY <1>6, <2>3, <2>4, <2>8 DEF Queue!HandOver
    <2> QED
      BY <2>9 DEF Queue!Next
  <1> QED
    BY <1>2, <1>3, <1>4, <1>5, <1>6 DEF PacketStep

\* The client is a bounded first-in first-out queue of packets that hands each
\* of them over once, in order, and none once Close has returned.
THEOREM ClientImplementsSendQueue == Spec => ImplementsSendQueue
  <1>1. Init => Queue!Init
    BY DEF Init, Queue!Init, InHand
  <1>2. Init => ClientInv
    BY InitClientInv
  <1>3. ClientInv /\ [Next]_vars => ClientInv'
    BY NextClientInv
  <1>4. ClientInv /\ [Next]_vars => [Queue!Next]_Queue!vars
    BY StepIsPacketStep, StepIsQueueStep
  <1> QED
    BY <1>1, <1>2, <1>3, <1>4, PTL DEF Spec, ImplementsSendQueue, Queue!Spec

-----------------------------------------------------------------------------
(* The streams: how they are established, die and are reaped               *)


\* connecting: without a stream in hand; with one that connect has not returned yet.
Without == {"idle", "select", "dial", "done"}
Unestablished == {"startPing", "connWait", "connDie", "subSend", "subWait"}

\* What connecting knows of the stream in its hands.
ConnInv ==
    /\ cur \in 0 .. dialled
    /\ \A s \in established : s <= dialled
    /\ cpc \in Without => cur = NoStream
    /\ cpc \in Unestablished => cur \notin established
    /\ cpc \in {"loop", "closeDie"} /\ cur # NoStream => dying \/ killed[cur]
    /\ cpc = "closeWait" => once[cur] = "done"
    /\ cpc \in {"subSend", "subWait"} => cfut[cur] = "completed"

\* How far die has got on a stream, and what it has done by then.  A stream that is
\* not dialled yet has no goroutine that could touch it.
DieInv(s) ==
    /\ s > dialled => once[s] = "free" /\ link[s] = "none" /\ rcv[s] = "none" /\ png[s] = "none"
    /\ once[s] = "free" => stage[s] = "none" /\ cause[s] = "none" /\ ~killed[s] /\ errs[s] = 0
    /\ stage[s] = "none" => once[s] \in {"free", "done"}
    /\ once[s] = "connecting" => s = cur /\ cpc \in {"closeDie", "connDie", "sendDie"}
    /\ stage[s] = "report" => errs[s] = 0 /\ ~killed[s]
    /\ stage[s] = "kill" => errs[s] = 1 \/ cause[s] = "close"
    /\ stage[s] = "close" => killed[s]
    /\ cfut[s] = "completed" => connacked[s]

StreamInv ==
    /\ ConnInv /\ \A s \in Streams : DieInv(s)
    /\ OldStreamsReaped /\ SendsOnAckedStream /\ DeathIsComplete

LEMMA InitStreamInv == Init => StreamInv
  BY DEF Init, StreamInv, ConnInv, DieInv, OldStreamsReaped, SendsOnAckedStream,
         DeathIsComplete, Without, Unestablished, NoStream

\* The user's calls.
LEMMA UserStreams ==
    ClientInv /\ StreamInv /\ (Start \/ Send \/ SendOrDrop \/ CloseKill \/ CloseReturn) => StreamInv'
  <1> SUFFICES ASSUME ClientInv, StreamInv, Start \/ Send \/ SendOrDrop \/ CloseKill \/ CloseReturn
               PROVE  StreamInv'
    OBVIOUS
  <1> USE ClientAssumption DEF ClientInv, HandInv, TypeOK, StreamInv, ConnInv, DieInv,
          OldStreamsReaped, SendsOnAckedStream, DeathIsComplete, TombDead, Without,
          Unestablished, Streams, NoStream,
          userVars, queueVars, sendVars, connVars, dieVars, rcvVars
  <1>1. CASE Start
    BY <1>1 DEF Start
  <1>2. CASE Send
    BY <1>2 DEF Send
  <1>3. CASE SendOrDrop
    BY <1>3 DEF SendOrDrop
  <1>4. CASE CloseKill
    BY <1>4 DEF CloseKill
  <1>5. CASE CloseReturn
    BY <1>5 DEF CloseReturn
  <1> QED
    BY <1>1, <1>2, <1>3, <1>4, <1>5

\* The body of die, and the network.
LEMMA DieStreams ==
    ASSUME NEW r \in Streams
    PROVE  ClientInv /\ StreamInv /\ (LinkBreaks(r) \/ Die(r)) => StreamInv'
  <1> SUFFICES ASSUME ClientInv, StreamInv, LinkBreaks(r) \/ Die(r)
               PROVE  StreamInv'
    OBVIOUS
  <1> USE ClientAssumption DEF ClientInv, HandInv, TypeOK, StreamInv, ConnInv, DieInv,
          OldStreamsReaped, SendsOnAckedStream, DeathIsComplete, TombDead, Without,
          Unestablished, Streams, NoStream,
          userVars, queueVars, sendVars, connVars, dieVars, rcvVars
  <1>1. CASE LinkBreaks(r)
    BY <1>1 DEF LinkBreaks
  <1>2. CASE DieReport(r)
    BY <1>2 DEF DieReport
  <1>3. CASE DieDisconnect(r)
    <2>1. CASE ConnSendOk(r, FALSE) /\ stage' = [stage EXCEPT ![r] = "kill"]
      BY <1>3, <2>1 DEF DieDisconnect, ConnSendOk
    <2>2. CASE ConnSendFails(r) /\ stage' = [stage EXCEPT ![r] = "reentered"]
      BY <1>3, <2>2 DEF DieDisconnect, ConnSendFails
    <2> QED
      BY <1>3, <2>1, <2>2 DEF DieDisconnect
  <1>4. CASE DieKill(r)
    BY <1>4 DEF DieKill
  <1>5. CASE DieClose(r)
    BY <1>5 DEF DieClose
  <1> QED
    BY <1>1, <1>2, <1>3, <1>4, <1>5 DEF Die

\* connecting.
LEMMA ConnectingStreams ==
    ClientInv /\ StreamInv /\ (Connecting) => StreamInv'
  <1> SUFFICES ASSUME ClientInv, StreamInv, Connecting
               PROVE  StreamInv'
    OBVIOUS
  <1> USE ClientAssumption DEF ClientInv, HandInv, TypeOK, StreamInv, ConnInv, DieInv,
          OldStreamsReaped, SendsOnAckedStream, DeathIsComplete, TombDead, Without,
          Unestablished, Streams, NoStream,
          userVars, queueVars, sendVars, connVars, dieVars, rcvVars
  <1>1. CASE LoopTop
    BY <1>1 DEF LoopTop
  <1>2. CASE CloseWait
    BY <1>2 DEF CloseWait
  <1>3. CASE SelectDying
    BY <1>3 DEF SelectDying
  <1>4. CASE SelectTimer
    BY <1>4 DEF SelectTimer
  <1>5. CASE DialFails
    BY <1>5 DEF DialFails
  <1>6. CASE DialOk
    BY <1>6 DEF DialOk
  <1>7. CASE StartPinging
    BY <1>7 DEF StartPinging
  <1>8. CASE ConnectAcked
    <2>1. /\ cpc = "connWait" /\ cfut[cur] = "completed"
          /\ UNCHANGED <<cur, dialled, userVars, queueVars, sendVars, link, dieVars,
                         rcvVars, png>>
      BY <1>8 DEF ConnectAcked
    <2>2. CASE HasSubscriptions
      <3>1. cpc' = "subSend" /\ UNCHANGED established
        BY <1>8, <2>2 DEF ConnectAcked
      <3> QED
        BY <2>1, <2>2, <3>1
    <2>3. CASE ~HasSubscriptions
      <3>1. cpc' \in {"send", "sending"} /\ established' = established \cup {cur}
        BY <1>8, <2>3 DEF ConnectAcked, Establish
      <3> QED
        BY <2>1, <2>3, <3>1
    <2> QED
      BY <2>2, <2>3
  <1>9. CASE WaitFails
    BY <1>9 DEF WaitFails
  <1>10. CASE SendSubscribe
    <2>1. CASE ConnSendOk(cur, FALSE) /\ cpc' = "subWait" /\ UNCHANGED cur
      BY <1>10, <2>1 DEF SendSubscribe, ConnSendOk
    <2>2. CASE ConnSendFails(cur) /\ cpc' = "loop" /\ cur' = NoStream
      BY <1>10, <2>2 DEF SendSubscribe, ConnSendFails
    <2> QED
      BY <1>10, <2>1, <2>2 DEF SendSubscribe
  <1>11. CASE SubscribeAcked
    BY <1>11 DEF SubscribeAcked, Establish
  <1>12. CASE SendingTake
    BY <1>12 DEF SendingTake
  <1>13. CASE SendingStop
    BY <1>13 DEF SendingStop
  <1>14. CASE SendPacketOk
    BY <1>14 DEF SendPacketOk, ConnSendOk
  <1>15. CASE SendPacketFails
    BY <1>15 DEF SendPacketFails, ConnSendFails
  <1>16. CASE ConnectingDies
    <2>1. /\ cpc \in {"closeDie", "connDie", "sendDie"} /\ once[cur] = "free"
          /\ once' = [once EXCEPT ![cur] = "connecting"]
          /\ stage' = [stage EXCEPT ![cur] = "report"]
          /\ cfut' = Cancel(cfut, cur) /\ sfut' = Cancel(sfut, cur)
          /\ UNCHANGED <<killed, errs, userVars, queueVars, sendVars, connVars, link, rcvVars, png>>
      BY <1>16 DEF ConnectingDies, DieEnter, OnceTake
    <2>2. CASE cpc = "closeDie"
      <3>1. cause' = [cause EXCEPT ![cur] = "close"]
        BY <1>16, <2>2 DEF ConnectingDies, DieEnter, OnceTake
      <3>2. dying
        BY <2>1, <2>2
      <3> QED
        BY <2>1, <2>2, <3>1, <3>2 DEF Cancel
    <2>3. CASE cpc # "closeDie"
      <3>1. cause' = [cause EXCEPT ![cur] = "error"]
        BY <1>16, <2>3 DEF ConnectingDies, DieEnter, OnceTake
      <3> QED
        BY <2>1, <2>3, <3>1 DEF Cancel
    <2> QED
      BY <2>2, <2>3
  <1>17. CASE ConnectingDied
    BY <1>17 DEF ConnectingDied
  <1> QED
    BY <1>1, <1>2, <1>3, <1>4, <1>5, <1>6, <1>7, <1>8, <1>9, <1>10, <1>11, <1>12, <1>13, <1>14, <1>15, <1>16, <1>17 DEF Connecting

\* receiving.
LEMMA ReceivingStreams ==
    ASSUME NEW r \in Streams
    PROVE  ClientInv /\ StreamInv /\ (Receiving(r)) => StreamInv'
  <1> SUFFICES ASSUME ClientInv, StreamInv, Receiving(r)
               PROVE  StreamInv'
    OBVIOUS
  <1> USE ClientAssumption DEF ClientInv, HandInv, TypeOK, StreamInv, ConnInv, DieInv,
          OldStreamsReaped, SendsOnAckedStream, DeathIsComplete, TombDead, Without,
          Unestablished, Streams, NoStream,
          userVars, queueVars, sendVars, connVars, dieVars, rcvVars, RcvGoto
  <1>1. CASE ReceiveFails(r)
    BY <1>1 DEF ReceiveFails
  <1>2. CASE ReceiveConnack(r)
    BY <1>2 DEF ReceiveConnack
  <1>3. CASE ReceiveBad(r)
    <2>1. /\ rcv[r] = "read" /\ rcv' = [rcv EXCEPT ![r] = "die"]
          /\ connacked' = [connacked EXCEPT ![r] = TRUE]
          /\ UNCHANGED <<upkt, userVars, queueVars, sendVars, connVars, link, dieVars, png>>
      BY <1>3 DEF ReceiveBad
    <2>2. \A s \in Streams : connacked[s] => connacked'[s]
      BY <2>1
    <2>3. ConnInv' /\ OldStreamsReaped' /\ DeathIsComplete'
      BY <2>1
    <2>4. \A s \in Streams : DieInv(s)'
      BY <2>1, <2>2
    <2>5. SendsOnAckedStream'
      BY <2>1, <2>2
    <2> QED
      BY <2>3, <2>4, <2>5
  <1>4. CASE ReceiveSuback(r)
    BY <1>4 DEF ReceiveSuback
  <1>5. CASE ReceivePublish(r)
    BY <1>5 DEF ReceivePublish
  <1>6. CASE CallbackSend(r)
    BY <1>6 DEF CallbackSend
  <1>7. CASE CallbackSent(r)
    BY <1>7 DEF CallbackSent
  <1>8. CASE PublishNotAcked(r)
    BY <1>8 DEF PublishNotAcked
  <1>9. CASE PublishAcked(r)
    <2>1. CASE ConnSendOk(r, TRUE) /\ RcvGoto(r, "read")
      BY <1>9, <2>1 DEF PublishAcked, ConnSendOk
    <2>2. CASE ConnSendFails(r) /\ RcvGoto(r, "die")
      BY <1>9, <2>2 DEF PublishAcked, ConnSendFails
    <2> QED
      BY <1>9, <2>1, <2>2 DEF PublishAcked
  <1>10. CASE ReceivingDies(r)
    BY <1>10 DEF ReceivingDies, DieEnter, OnceTake, Cancel
  <1>11. CASE ReceivingDied(r)
    BY <1>11 DEF ReceivingDied
  <1> QED
    BY <1>1, <1>2, <1>3, <1>4, <1>5, <1>6, <1>7, <1>8, <1>9, <1>10, <1>11 DEF Receiving

\* pinging.
LEMMA PingingStreams ==
    ASSUME NEW r \in Streams
    PROVE  ClientInv /\ StreamInv /\ (Pinging(r)) => StreamInv'
  <1> SUFFICES ASSUME ClientInv, StreamInv, Pinging(r)
               PROVE  StreamInv'
    OBVIOUS
  <1> USE ClientAssumption DEF ClientInv, HandInv, TypeOK, StreamInv, ConnInv, DieInv,
          OldStreamsReaped, SendsOnAckedStream, DeathIsComplete, TombDead, Without,
          Unestablished, Streams, NoStream,
          userVars, queueVars, sendVars, connVars, dieVars, rcvVars, PngGoto
  <1>1. CASE PongMissing(r)
    BY <1>1 DEF PongMissing
  <1>2. CASE PingFails(r)
    BY <1>2 DEF PingFails, ConnSendFails
  <1>3. CASE PingingStop(r)
    BY <1>3 DEF PingingStop
  <1>4. CASE PingingDies(r)
    BY <1>4 DEF PingingDies, DieEnter, OnceTake, Cancel
  <1>5. CASE PingingDied(r)
    BY <1>5 DEF PingingDied
  <1> QED
    BY <1>1, <1>2, <1>3, <1>4, <1>5 DEF Pinging

LEMMA NextStreamInv == ClientInv /\ StreamInv /\ [Next]_vars => StreamInv'
  <1> SUFFICES ASSUME ClientInv, StreamInv, [Next]_vars PROVE StreamInv'
    OBVIOUS
  <1>1. CASE Start \/ Send \/ SendOrDrop \/ CloseKill \/ CloseReturn
    BY <1>1, UserStreams
  <1>2. CASE Connecting
    BY <1>2, ConnectingStreams
  <1>3. CASE \E r \in Streams : LinkBreaks(r) \/ Die(r) \/ Receiving(r) \/ Pinging(r)
    BY <1>3, DieStreams, ReceivingStreams, PingingStreams
  <1>4. CASE UNCHANGED vars
    BY <1>4 DEF StreamInv, ConnInv, DieInv, OldStreamsReaped, SendsOnAckedStream,
                DeathIsComplete, TombDead, vars, userVars, queueVars, sendVars,
                connVars, dieVars, rcvVars
  <1> QED
    BY <1>1, <1>2, <1>3, <1>4 DEF Next

LEMMA StreamInvariant == Spec => []StreamInv
  <1>1. Init => ClientInv /\ StreamInv
    BY InitClientInv, InitStreamInv
  <1>2. (ClientInv /\ StreamInv) /\ [Next]_vars => (ClientInv /\ StreamInv)'
    BY NextClientInv, NextStreamInv
  <1> QED
    BY <1>1, <1>2, PTL DEF Spec

\* When connecting has left a stream that connect returned, or Close has returned,
\* the stream's goroutines have returned and its connection is closed.
THEOREM ClientReapsStreams == Spec => []OldStreamsReaped
  <1>1. StreamInv => OldStreamsReaped
    BY DEF StreamInv
  <1> QED
    BY <1>1, StreamInvariant, PTL

\* The client sends packets only on a stream that was acknowledged, with its
\* subscriptions, before it died.
THEOREM ClientSendsOnAcked == Spec => []SendsOnAckedStream
  <1>1. StreamInv => SendsOnAckedStream
    BY DEF StreamInv
  <1> QED
    BY <1>1, StreamInvariant, PTL

\* Whichever of its three goroutines find a stream broken, in whatever order, die
\* runs once: OnError is called once if the stream dies of an error and not at all if the
\* client closes it, which it does only when it is closed itself, no future stays pending, and the
\* connection of a dead stream is closed.
THEOREM ClientDiesOnce == Spec => []DeathIsComplete
  <1>1. StreamInv => DeathIsComplete
    BY DEF StreamInv
  <1> QED
    BY <1>1, StreamInvariant, PTL

-----------------------------------------------------------------------------
(* Keep-alive, for every window, every width of the tracker's counter and  *)
(* every peer that answers within the window                               *)

\* At most one Pingreq is unanswered, none when the next one is sent.  While a peer
\* that is up owes an answer, the tracker's age is not above what the answer has
\* taken so far: the window cannot end before the answer comes.
AnswerInv ==
    /\ owed <= 1 /\ (pinger = "send" => owed = 0)
    /\ owed > 0 /\ peer = "up" => age <= waited
    /\ pinger = "ping" /\ peer = "up" => owed = 0

\* The timer fires when the window ends; and silence is not longer than the tracker's
\* age, plus one window once a Pingreq is out.
SilenceInv ==
    /\ pinger = "select" => age + sleep <= KeepAlive + 1
    /\ pinger # "dead" => age <= KeepAlive + 1
    /\ peer = "up" => idle = 0
    /\ pinger # "dead" => idle <= age + (IF owed = 0 THEN 0 ELSE KeepAlive + 1)

PingInv == HealthyStreamLives /\ AnswerInv /\ SilenceInv

LEMMA PingInvInit == PingInit => PingInv
  BY KeepAliveAssumption
     DEF PingInit, PingInv, HealthyStreamLives, PingTypeOK, AnswerInv, SilenceInv

\* The tracker's counter does not wrap, up or down.
LEMMA CounterExact ==
    /\ (0 + 1) % PingMod = 1
    /\ (1 - 1) % PingMod = 0
  BY KeepAliveAssumption

LEMMA PingInvNext == PingInv /\ [PingNext]_pingVars => PingInv'
  <1> SUFFICES ASSUME PingInv, [PingNext]_pingVars PROVE PingInv'
    OBVIOUS
  <1> USE KeepAliveAssumption DEF PingInv, HealthyStreamLives, PingTypeOK, AnswerInv, SilenceInv
  <1>1. CASE CheckWindow
    BY <1>1 DEF CheckWindow, Window
  <1>2. CASE NoPong
    BY <1>2 DEF NoPong, Pending
  <1>3. CASE TrackerPing
    <2>1. pings = 0 /\ pings' = 1
      BY <1>3, CounterExact DEF TrackerPing, Pending
    <2> QED
      BY <1>3, <2>1 DEF TrackerPing
  <1>4. CASE SendPingreq
    BY <1>4 DEF SendPingreq
  <1>5. CASE SendPingreqFails
    BY <1>5 DEF SendPingreqFails
  <1>6. CASE Wake
    BY <1>6 DEF Wake
  <1>7. CASE PingTick
    BY <1>7 DEF PingTick
  <1>8. CASE OtherSend
    BY <1>8 DEF OtherSend
  <1>9. CASE Pong
    <2>1. owed = 1 /\ pings = 1 /\ pings' = 0
      BY <1>9, CounterExact DEF Pong
    <2> QED
      BY <1>9, <2>1 DEF Pong
  <1>10. CASE FallSilent
    BY <1>10 DEF FallSilent
  <1>11. CASE UNCHANGED pingVars
    BY <1>11 DEF pingVars
  <1> QED
    BY <1>1, <1>2, <1>3, <1>4, <1>5, <1>6, <1>7, <1>8, <1>9, <1>10, <1>11 DEF PingNext

\* A stream whose peer answers within the keep-alive does not die of a missing pong,
\* and the unsigned counter of the tracker is the number of unanswered pings.
THEOREM KeepAliveSparesHealthy == PingSpec => []HealthyStreamLives
  <1>1. PingInv => HealthyStreamLives
    BY DEF PingInv
  <1> QED
    BY <1>1, PingInvInit, PingInvNext, PTL DEF PingSpec

\* A silent peer is noticed within two windows, and a broker hears from a living
\* stream within one.
THEOREM KeepAliveFindsSilence == PingSpec => []SilenceDetected
  <1>1. PingInv => SilenceDetected
    BY KeepAliveAssumption DEF PingInv, HealthyStreamLives, PingTypeOK, AnswerInv, SilenceInv, SilenceDetected
  <1> QED
    BY <1>1, PingInvInit, PingInvNext, PTL DEF PingSpec
=============================================================================
