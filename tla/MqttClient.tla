----------------------------- MODULE MqttClient -----------------------------
(***************************************************************************)
(* The auto-reconnecting MQTT client (src/mqtt/client.go) and the streams  *)
(* it runs one after the other (src/mqtt/stream.go).                       *)
(*                                                                         *)
(* Goroutines: the user's calls of Send, SendOrDrop and Close; connecting  *)
(* (pc cpc), which runs connect, sending and stream.close inline; and, for *)
(* every stream s, receiving (pc rcv[s]) and pinging (pc png[s]).  die is  *)
(* guarded by sync.Once, which blocks late callers until the first one is  *)
(* through: once[s] is the goroutine that runs its body, stage[s] how far  *)
(* the body has got.                                                       *)
(*                                                                         *)
(* Packets are numbered 1, 2, ... in the order of the calls that pass      *)
(* them.  accepted and handed are history variables: the packets put into  *)
(* cache, and the packets for which Connection.Send returned nil.          *)
(***************************************************************************)
EXTENDS Naturals, Sequences

CONSTANTS
    MaxCacheMessages,   \* capacity of the channel Client.cache
    HasSubscriptions,   \* len(ops.Subscriptions) # 0
    HasKeepAlive,       \* ops.KeepAlive > 0
    CallbackSends,      \* the observer's OnPublish calls Client.Send
    MaxSends,           \* bound: calls of Send and SendOrDrop
    MaxStreams          \* bound: connections dialled

ASSUME ClientAssumption ==
    /\ MaxCacheMessages \in Nat \ {0}
    /\ HasSubscriptions \in BOOLEAN
    /\ HasKeepAlive \in BOOLEAN
    /\ CallbackSends \in BOOLEAN
    /\ MaxSends \in Nat
    /\ MaxStreams \in Nat

Streams == 1 .. MaxStreams
Packets == 1 .. MaxSends
NoPacket == 0           \* the nil Packet
NoStream == 0           \* the nil *stream

VARIABLES
    cache,      \* Client.cache, the channel of packets to send
    offered,    \* how many packets the user has passed to Send or SendOrDrop
    dying,      \* Client.tomb is dying (Close has been called)
    closing,    \* Close: none, wait (for the tomb), early (it has returned before the
                \* client was started), returned
    cpc,        \* where connecting is
    curr,       \* the packet connecting and sending hold (local curr, pkt)
    cur,        \* connecting's local variable stream
    dialled,    \* how many streams exist: they are 1 .. dialled
    link,       \* stream.conn: up, down (peer or network gone), closed locally
    once,       \* stream.once
    cause,      \* die's err: error, or close if it is nil
    stage,      \* the statement of die's body that runs next
    killed,     \* stream.tomb is dying
    cfut,       \* stream.connectFuture
    sfut,       \* stream.subscribeFuture
    rcv,        \* where receiving is
    connacked,  \* receiving's local variable
    upkt,       \* the packet a callback of receiving passes to Send
    png,        \* where pinging is
    errs,       \* history: calls of the observer's OnError for the stream
    established,\* history: the streams connect returned
    accepted,   \* history: packets put into cache, in order
    handed      \* history: packets the connections took, in order

userVars   == <<offered, dying, closing>>
queueVars  == <<cache, accepted>>
sendVars   == <<curr, handed>>
connVars   == <<cpc, cur, dialled, established>>
dieVars    == <<once, cause, stage, killed, cfut, sfut, errs>>
rcvVars    == <<rcv, connacked, upkt>>
vars == <<userVars, queueVars, sendVars, connVars, link, dieVars, rcvVars, png>>

-----------------------------------------------------------------------------
Init ==
    /\ cache = <<>> /\ accepted = <<>> /\ handed = <<>>
    /\ offered = 0 /\ dying = FALSE /\ closing = "none"
    /\ cpc = "idle" /\ curr = NoPacket /\ cur = NoStream /\ dialled = 0
    /\ established = {}
    /\ link = [s \in Streams |-> "none"]
    /\ once = [s \in Streams |-> "free"]
    /\ cause = [s \in Streams |-> "none"]
    /\ stage = [s \in Streams |-> "none"]
    /\ killed = [s \in Streams |-> FALSE]
    /\ cfut = [s \in Streams |-> "pending"]
    /\ sfut = [s \in Streams |-> "pending"]
    /\ rcv = [s \in Streams |-> "none"]
    /\ connacked = [s \in Streams |-> FALSE]
    /\ upkt = [s \in Streams |-> NoPacket]
    /\ png = [s \in Streams |-> "none"]
    /\ errs = [s \in Streams |-> 0]

-----------------------------------------------------------------------------
(* The user's calls                                                        *)

\* c.cache <- pkt: a select case that is ready while the channel has room.
Enqueue(pkt) ==
    /\ Len(cache) < MaxCacheMessages
    /\ cache' = Append(cache, pkt)
    /\ accepted' = Append(accepted, pkt)

\* Start: connecting begins to run.  The client is started once, be it after Close: the tomb
\* of a client that was not started is dying then, but not dead.
Start ==
    /\ cpc = "idle"
    /\ cpc' = "loop"
    /\ UNCHANGED <<cur, dialled, established, userVars, queueVars, sendVars,
                   link, dieVars, rcvVars, png>>

\* Send: blocks until the channel has room or the client is dying; when both
\* cases are ready, select takes either.
Send ==
    /\ offered < MaxSends
    /\ offered' = offered + 1
    /\ \/ Enqueue(offered + 1)
       \/ dying /\ UNCHANGED queueVars
    /\ UNCHANGED <<dying, closing, sendVars, connVars, link, dieVars, rcvVars, png>>

\* SendOrDrop: never blocks; default drops the packet when the channel is full.
SendOrDrop ==
    /\ offered < MaxSends
    /\ offered' = offered + 1
    /\ \/ Enqueue(offered + 1)
       \/ dying /\ UNCHANGED queueVars
       \/ ~dying /\ Len(cache) >= MaxCacheMessages /\ UNCHANGED queueVars
    /\ UNCHANGED <<dying, closing, sendVars, connVars, link, dieVars, rcvVars, png>>

\* Close, first half: tomb.Kill(nil).
CloseKill ==
    /\ closing \in {"none", "early"}
    /\ dying' = TRUE
    /\ closing' = "wait"
    /\ UNCHANGED <<offered, queueVars, sendVars, connVars, link, dieVars,
                   rcvVars, png>>

\* Close, second half: tomb.Wait returns when connecting has ended, and at
\* once when it was never started.
CloseReturn ==
    /\ closing = "wait"
    /\ cpc \in {"idle", "done"}
    /\ closing' = IF cpc = "idle" THEN "early" ELSE "returned"
    /\ UNCHANGED <<offered, dying, queueVars, sendVars, connVars, link, dieVars,
                   rcvVars, png>>

-----------------------------------------------------------------------------
(* The connection (gomqtt transport.Conn), as stream.go relies on it       *)

\* The peer or the network goes away.
LinkBreaks(s) ==
    /\ link[s] = "up"
    /\ link' = [link EXCEPT ![s] = "down"]
    /\ UNCHANGED <<userVars, queueVars, sendVars, connVars, dieVars, rcvVars, png>>

\* conn.Send returns nil: an asynchronous write only fills a buffer, so it may
\* succeed even after the connection has been closed.
ConnSendOk(s, async) ==
    /\ link[s] # "closed" \/ async
    /\ UNCHANGED link

\* conn.Send returns an error, having closed the connection.
ConnSendFails(s) ==
    /\ link[s] # "up"
    /\ link' = [link EXCEPT ![s] = "closed"]

-----------------------------------------------------------------------------
(* stream.die: a goroutine g in {"connecting", "receiving", "pinging"} that *)
(* calls it takes the Once or finds it done; while another goroutine runs   *)
(* the body it waits.                                                       *)

Cancel(fut, s) == IF fut[s] = "pending" THEN [fut EXCEPT ![s] = "canceled"] ELSE fut

\* Only stream.close passes a nil err.
OnceTake(s, g) ==
    /\ once[s] = "free"
    /\ once' = [once EXCEPT ![s] = g]
    /\ cause' = [cause EXCEPT ![s] =
                    IF g = "connecting" /\ cpc = "closeDie" THEN "close" ELSE "error"]
    /\ stage' = [stage EXCEPT ![s] = "report"]
    /\ cfut' = Cancel(cfut, s)
    /\ sfut' = Cancel(sfut, s)
    /\ UNCHANGED <<killed, errs>>

\* g enters die(msg, err) on s and runs its first two statements.
DieEnter(s, g) ==
    /\ OnceTake(s, g)
    /\ UNCHANGED <<userVars, queueVars, sendVars, connVars, link, rcvVars, png>>

\* Faulty variant: the observer is also told of a close.
DieReportAlways(s) ==
    /\ stage[s] = "report"
    /\ errs' = [errs EXCEPT ![s] = @ + 1]
    /\ stage' = [stage EXCEPT ![s] = "kill"]
    /\ UNCHANGED <<once, cause, killed, cfut, sfut, userVars, queueVars, sendVars,
                   connVars, link, rcvVars, png>>

\* err # nil: onError calls the observer.
DieReport(s) ==
    /\ stage[s] = "report" /\ cause[s] = "error"
    /\ errs' = [errs EXCEPT ![s] = @ + 1]
    /\ stage' = [stage EXCEPT ![s] = "kill"]
    /\ UNCHANGED <<once, cause, killed, cfut, sfut, userVars, queueVars, sendVars,
                   connVars, link, rcvVars, png>>

\* err = nil: send(NewDisconnect(), false).  When
\* that fails, send calls die again, inside the Once it already holds.
DieDisconnect(s) ==
    /\ stage[s] = "report" /\ cause[s] = "close"
    /\ \/ ConnSendOk(s, FALSE) /\ stage' = [stage EXCEPT ![s] = "kill"]
       \/ ConnSendFails(s) /\ stage' = [stage EXCEPT ![s] = "reentered"]
    /\ UNCHANGED <<once, cause, killed, cfut, sfut, errs, userVars, queueVars, sendVars,
                   connVars, rcvVars, png>>

\* s.tomb.Kill(err)
DieKill(s) ==
    /\ stage[s] = "kill"
    /\ killed' = [killed EXCEPT ![s] = TRUE]
    /\ stage' = [stage EXCEPT ![s] = "close"]
    /\ UNCHANGED <<once, cause, cfut, sfut, errs, userVars, queueVars, sendVars, connVars,
                   link, rcvVars, png>>

\* Faulty variant: die leaves the connection open.
DieCloseOpen(s) ==
    /\ stage[s] = "close"
    /\ once' = [once EXCEPT ![s] = "done"]
    /\ stage' = [stage EXCEPT ![s] = "none"]
    /\ UNCHANGED <<link, cause, killed, cfut, sfut, errs, userVars, queueVars, sendVars,
                   connVars, rcvVars, png>>

\* s.conn.Close(), and the Once is done.
DieClose(s) ==
    /\ stage[s] = "close"
    /\ link' = [link EXCEPT ![s] = "closed"]
    /\ once' = [once EXCEPT ![s] = "done"]
    /\ stage' = [stage EXCEPT ![s] = "none"]
    /\ UNCHANGED <<cause, killed, cfut, sfut, errs, userVars, queueVars, sendVars, connVars,
                   rcvVars, png>>

Die(s) == DieReport(s) \/ DieDisconnect(s) \/ DieKill(s) \/ DieClose(s)

-----------------------------------------------------------------------------
(* connecting, with connect, sending and stream.close inline               *)

\* The top of the loop: arm the timer, run the reconnect callback, then close
\* the stream of the previous round if there is one.
LoopTop ==
    /\ cpc = "loop"
    /\ cpc' = IF cur # NoStream THEN "closeDie" ELSE "select"
    /\ UNCHANGED <<cur, dialled, established, userVars, queueVars, sendVars, link,
                   dieVars, rcvVars, png>>

\* tomb.v2: the stream's tomb is dead when every goroutine it runs has returned.
TombDead(s) ==
    /\ rcv[s] = "exit"
    /\ png[s] \in {"none", "exit"}

\* Faulty variant: stream.close does not wait for the stream's goroutines.
CloseWaitNot ==
    /\ cpc = "closeWait"
    /\ cur' = NoStream
    /\ cpc' = "select"
    /\ UNCHANGED <<dialled, established, userVars, queueVars, sendVars, link,
                   dieVars, rcvVars, png>>

\* stream.close, second half: tomb.Wait, and stream = nil.
CloseWait ==
    /\ cpc = "closeWait"
    /\ TombDead(cur)
    /\ cur' = NoStream
    /\ cpc' = "select"
    /\ UNCHANGED <<dialled, established, userVars, queueVars, sendVars, link,
                   dieVars, rcvVars, png>>

\* The select between the client's tomb and the reconnect timer; when both are
\* ready it takes either.
SelectDying ==
    /\ cpc = "select" /\ dying
    /\ cpc' = "done"
    /\ UNCHANGED <<cur, dialled, established, userVars, queueVars, sendVars, link,
                   dieVars, rcvVars, png>>

SelectTimer ==
    /\ cpc = "select"
    /\ cpc' = "dial"
    /\ UNCHANGED <<cur, dialled, established, userVars, queueVars, sendVars, link,
                   dieVars, rcvVars, png>>

\* connect: the dial or the sending of Connect fails, and no stream is made.
DialFails ==
    /\ cpc = "dial"
    /\ cpc' = "loop"
    /\ UNCHANGED <<cur, dialled, established, userVars, queueVars, sendVars, link,
                   dieVars, rcvVars, png>>

\* connect: the connection is made, Connect sent and receiving started.
DialOk ==
    /\ cpc = "dial"
    /\ dialled < MaxStreams
    /\ dialled' = dialled + 1
    /\ cur' = dialled + 1
    /\ link' = [link EXCEPT ![dialled + 1] = "up"]
    /\ rcv' = [rcv EXCEPT ![dialled + 1] = "read"]
    /\ cpc' = IF HasKeepAlive THEN "startPing" ELSE "connWait"
    /\ UNCHANGED <<established, userVars, queueVars, sendVars, dieVars, connacked, upkt, png>>

\* tomb.Go(pinging): panics, recovered by utils.Tomb, when receiving has
\* already returned and the tomb is dead; the error is ignored.
StartPinging ==
    /\ cpc = "startPing"
    /\ png' = [png EXCEPT ![cur] = IF rcv[cur] = "exit" THEN "none" ELSE "loop"]
    /\ cpc' = "connWait"
    /\ UNCHANGED <<cur, dialled, established, userVars, queueVars, sendVars, link,
                   dieVars, rcvVars>>

\* connect returns the stream; sending first sends the packet left over.
Establish ==
    /\ established' = established \cup {cur}
    /\ cpc' = IF curr # NoPacket THEN "send" ELSE "sending"

\* connectFuture.Wait returns nil.
ConnectAcked ==
    /\ cpc = "connWait"
    /\ cfut[cur] = "completed"
    /\ IF HasSubscriptions THEN cpc' = "subSend" /\ UNCHANGED established
                           ELSE Establish
    /\ UNCHANGED <<cur, dialled, userVars, queueVars, sendVars, link, dieVars,
                   rcvVars, png>>

\* A Wait that is not over in time, or whose future is cancelled, makes connect
\* call die with that error.
WaitFails ==
    /\ cpc \in {"connWait", "subWait"}
    /\ cpc' = "connDie"
    /\ UNCHANGED <<cur, dialled, established, userVars, queueVars, sendVars, link,
                   dieVars, rcvVars, png>>

\* conn.Send(subscribe): on an error connect closes the connection and returns,
\* and leaves the dying of the stream to receiving.
SendSubscribe ==
    /\ cpc = "subSend"
    /\ \/ /\ ConnSendOk(cur, FALSE)
          /\ cpc' = "subWait" /\ UNCHANGED cur
       \/ /\ ConnSendFails(cur)
          /\ cpc' = "loop" /\ cur' = NoStream
    /\ UNCHANGED <<dialled, established, userVars, queueVars, sendVars, dieVars,
                   rcvVars, png>>

\* Faulty variant: a cancelled future counts as completed.
SubscribeAckedOrCanceled ==
    /\ cpc = "subWait"
    /\ sfut[cur] # "pending"
    /\ Establish
    /\ UNCHANGED <<cur, dialled, userVars, queueVars, sendVars, link, dieVars,
                   rcvVars, png>>

\* subscribeFuture.Wait returns nil.
SubscribeAcked ==
    /\ cpc = "subWait"
    /\ sfut[cur] = "completed"
    /\ Establish
    /\ UNCHANGED <<cur, dialled, userVars, queueVars, sendVars, link, dieVars,
                   rcvVars, png>>

\* sending: take the next packet from the channel ...
SendingTake ==
    /\ cpc = "sending"
    /\ cache # <<>>
    /\ curr' = Head(cache)
    /\ cache' = Tail(cache)
    /\ cpc' = "send"
    /\ UNCHANGED <<accepted, handed, cur, dialled, established, userVars, link,
                   dieVars, rcvVars, png>>

\* Faulty variant: sending does not watch the stream's tomb.
SendingStopDyingOnly ==
    /\ cpc = "sending"
    /\ dying
    /\ cpc' = "loop"
    /\ UNCHANGED <<cur, dialled, established, userVars, queueVars, sendVars, link,
                   dieVars, rcvVars, png>>

\* ... or return nil because the client or the stream is dying.
SendingStop ==
    /\ cpc = "sending"
    /\ dying \/ killed[cur]
    /\ cpc' = "loop"
    /\ UNCHANGED <<cur, dialled, established, userVars, queueVars, sendVars, link,
                   dieVars, rcvVars, png>>

\* send(curr, true): nil, and the packet is the connection's ...
SendPacketOk ==
    /\ cpc = "send"
    /\ ConnSendOk(cur, TRUE)
    /\ handed' = Append(handed, curr)
    /\ curr' = NoPacket
    /\ cpc' = "sending"
    /\ UNCHANGED <<cur, dialled, established, userVars, queueVars, dieVars, rcvVars,
                   png>>

\* Faulty variant: sending returns nil after an error and the packet is gone.
SendPacketFailsLost ==
    /\ cpc = "send"
    /\ ConnSendFails(cur)
    /\ cpc' = "sendDie"
    /\ curr' = NoPacket
    /\ UNCHANGED <<handed, cur, dialled, established, userVars, queueVars, dieVars,
                   rcvVars, png>>

\* ... or an error: die, and sending returns the packet to connecting.
SendPacketFails ==
    /\ cpc = "send"
    /\ ConnSendFails(cur)
    /\ cpc' = "sendDie"
    /\ UNCHANGED <<cur, dialled, established, userVars, queueVars, sendVars, dieVars,
                   rcvVars, png>>

\* connecting calls die: from close, after a failed connect, from send.
ConnectingDies ==
    /\ cpc \in {"closeDie", "connDie", "sendDie"}
    /\ DieEnter(cur, "connecting")

\* die returns to connecting.
ConnectingDied ==
    /\ cpc \in {"closeDie", "connDie", "sendDie"}
    /\ once[cur] = "done"
    /\ cpc' = IF cpc = "closeDie" THEN "closeWait" ELSE "loop"
    /\ cur' = IF cpc = "connDie" THEN NoStream ELSE cur
    /\ UNCHANGED <<dialled, established, userVars, queueVars, sendVars, link,
                   dieVars, rcvVars, png>>

Connecting ==
    \/ LoopTop \/ CloseWait \/ SelectDying \/ SelectTimer \/ DialFails \/ DialOk
    \/ StartPinging \/ ConnectAcked \/ WaitFails \/ SendSubscribe \/ SubscribeAcked
    \/ SendingTake \/ SendingStop \/ SendPacketOk \/ SendPacketFails
    \/ ConnectingDies \/ ConnectingDied

-----------------------------------------------------------------------------
(* receiving                                                               *)

RcvGoto(s, pc) == rcv' = [rcv EXCEPT ![s] = pc]

\* conn.Receive fails; it does so only when the connection is gone.
ReceiveFails(s) ==
    /\ rcv[s] = "read"
    /\ link[s] # "up"
    /\ link' = [link EXCEPT ![s] = "closed"]
    /\ RcvGoto(s, "die")
    /\ UNCHANGED <<connacked, upkt, userVars, queueVars, sendVars, connVars, dieVars, png>>

\* The first packet must be an accepting Connack; it completes connectFuture.
ReceiveConnack(s) ==
    /\ rcv[s] = "read" /\ ~connacked[s]
    /\ connacked' = [connacked EXCEPT ![s] = TRUE]
    /\ cfut' = [cfut EXCEPT ![s] = IF @ = "pending" THEN "completed" ELSE @]
    /\ UNCHANGED <<rcv, upkt, once, cause, stage, killed, sfut, errs, userVars, queueVars,
                   sendVars, connVars, link, png>>

\* Any other first packet or a refusal, a second Connack, a failed Suback, a
\* packet of an unknown type, an error of OnPuback: die.
ReceiveBad(s) ==
    /\ rcv[s] = "read"
    /\ connacked' = [connacked EXCEPT ![s] = TRUE]
    /\ RcvGoto(s, "die")
    /\ UNCHANGED <<upkt, userVars, queueVars, sendVars, connVars, link, dieVars, png>>

\* A Suback for the subscription, with every return code granted.
ReceiveSuback(s) ==
    /\ rcv[s] = "read" /\ connacked[s]
    /\ sfut' = [sfut EXCEPT ![s] = IF @ = "pending" THEN "completed" ELSE @]
    /\ UNCHANGED <<once, cause, stage, killed, cfut, errs, userVars, queueVars, sendVars,
                   connVars, link, rcvVars, png>>

\* A Publish: the observer's OnPublish is called.
ReceivePublish(s) ==
    /\ rcv[s] = "read" /\ connacked[s]
    /\ RcvGoto(s, "user")
    /\ UNCHANGED <<connacked, upkt, userVars, queueVars, sendVars, connVars, link, dieVars,
                   png>>

\* An observer that sends a packet of its own from the callback.
CallbackSend(s) ==
    /\ CallbackSends
    /\ rcv[s] = "user"
    /\ offered < MaxSends
    /\ offered' = offered + 1
    /\ upkt' = [upkt EXCEPT ![s] = offered + 1]
    /\ RcvGoto(s, "userSend")
    /\ UNCHANGED <<connacked, dying, closing, queueVars, sendVars, connVars, link,
                   dieVars, png>>

\* That call of Client.Send returns: it waits for room in the channel or for
\* the client's dying, like every other call.
CallbackSent(s) ==
    /\ rcv[s] = "userSend"
    /\ \/ Enqueue(upkt[s])
       \/ dying /\ UNCHANGED queueVars
    /\ upkt' = [upkt EXCEPT ![s] = NoPacket]
    /\ RcvGoto(s, "user")
    /\ UNCHANGED <<connacked, userVars, sendVars, connVars, link, dieVars, png>>

\* OnPublish returns; qos 0, DisableAutoAck or an error of the user's code:
\* no Puback.
PublishNotAcked(s) ==
    /\ rcv[s] = "user"
    /\ RcvGoto(s, "read")
    /\ UNCHANGED <<connacked, upkt, userVars, queueVars, sendVars, connVars, link, dieVars,
                   png>>

\* OnPublish returns nil for a qos 1 Publish: send(ack, true).
PublishAcked(s) ==
    /\ rcv[s] = "user"
    /\ \/ ConnSendOk(s, TRUE) /\ RcvGoto(s, "read")
       \/ ConnSendFails(s) /\ RcvGoto(s, "die")
    /\ UNCHANGED <<connacked, upkt, userVars, queueVars, sendVars, connVars, dieVars, png>>

ReceivingDies(s) ==
    /\ rcv[s] = "die"
    /\ DieEnter(s, "receiving")

\* die returns, and receiving with it: the tomb is killed with its error.
ReceivingDied(s) ==
    /\ rcv[s] = "die"
    /\ once[s] = "done"
    /\ RcvGoto(s, "exit")
    /\ UNCHANGED <<connacked, upkt, userVars, queueVars, sendVars, connVars, link, dieVars,
                   png>>

Receiving(s) ==
    \/ ReceiveFails(s) \/ ReceiveConnack(s) \/ ReceiveBad(s) \/ ReceiveSuback(s)
    \/ ReceivePublish(s) \/ CallbackSend(s) \/ CallbackSent(s)
    \/ PublishNotAcked(s) \/ PublishAcked(s) \/ ReceivingDies(s) \/ ReceivingDied(s)

-----------------------------------------------------------------------------
(* pinging.  When the tracker's window ends and whether a pong is missing   *)
(* is left open here; MqttKeepAlive models the tracker and time.            *)

PngGoto(s, pc) == png' = [png EXCEPT ![s] = pc]

PongMissing(s) ==
    /\ png[s] = "loop"
    /\ PngGoto(s, "die")
    /\ UNCHANGED <<userVars, queueVars, sendVars, connVars, link, dieVars, rcvVars>>

\* send(NewPingreq(), false); on an error send has called die.  A ping that is
\* sent changes nothing that is kept here.
PingFails(s) ==
    /\ png[s] = "loop"
    /\ ConnSendFails(s)
    /\ PngGoto(s, "die")
    /\ UNCHANGED <<userVars, queueVars, sendVars, connVars, dieVars, rcvVars>>

PingingStop(s) ==
    /\ png[s] = "loop" /\ killed[s]
    /\ PngGoto(s, "exit")
    /\ UNCHANGED <<userVars, queueVars, sendVars, connVars, link, dieVars, rcvVars>>

PingingDies(s) ==
    /\ png[s] = "die"
    /\ DieEnter(s, "pinging")

PingingDied(s) ==
    /\ png[s] = "die"
    /\ once[s] = "done"
    /\ PngGoto(s, "exit")
    /\ UNCHANGED <<userVars, queueVars, sendVars, connVars, link, dieVars, rcvVars>>

Pinging(s) ==
    \/ PongMissing(s) \/ PingFails(s) \/ PingingStop(s) \/ PingingDies(s)
    \/ PingingDied(s)

-----------------------------------------------------------------------------
Next ==
    \/ Start \/ Send \/ SendOrDrop \/ CloseKill \/ CloseReturn
    \/ Connecting
    \/ \E s \in Streams : LinkBreaks(s) \/ Die(s) \/ Receiving(s) \/ Pinging(s)

Spec == Init /\ [][Next]_vars

\* What the Go runtime and the code's timeouts guarantee.  Every goroutine that
\* can go on does; the waits of connect time out.  A select with several ready
\* cases takes each of them sooner or later, and the senders blocked on a
\* channel are served in turn.  Receive fails once the connection has been
\* closed here and what it had buffered is read.  Nothing is assumed of the
\* broker, of the network or of the user's calls; callbacks return.
Fairness ==
    /\ WF_vars(CloseReturn) /\ WF_vars(Connecting)
    /\ SF_vars(SelectDying) /\ SF_vars(SendingStop)
    /\ \A s \in Streams :
        /\ WF_vars(Die(s))
        /\ SF_vars(ReceiveFails(s) /\ link[s] = "closed")
        /\ WF_vars(PublishNotAcked(s) \/ PublishAcked(s)) /\ SF_vars(CallbackSent(s))
        /\ WF_vars(ReceivingDies(s)) /\ WF_vars(ReceivingDied(s))
        /\ WF_vars(PingingStop(s)) /\ WF_vars(PingingDies(s)) /\ WF_vars(PingingDied(s))

FairSpec == Spec /\ Fairness

-----------------------------------------------------------------------------
(* Properties                                                              *)

TypeOK ==
    /\ cache \in Seq(Packets) /\ accepted \in Seq(Packets) /\ handed \in Seq(Packets)
    /\ Len(cache) <= MaxCacheMessages
    /\ offered \in 0 .. MaxSends /\ dying \in BOOLEAN
    /\ closing \in {"none", "wait", "early", "returned"}
    /\ cpc \in {"idle", "loop", "closeDie", "closeWait", "select", "dial",
                "startPing", "connWait", "connDie", "subSend", "subWait",
                "send", "sending", "sendDie", "done"}
    /\ curr \in {NoPacket} \cup Packets
    /\ cur \in {NoStream} \cup Streams
    /\ dialled \in 0 .. MaxStreams
    /\ established \subseteq Streams
    /\ link \in [Streams -> {"none", "up", "down", "closed"}]
    /\ once \in [Streams -> {"free", "connecting", "receiving", "pinging", "done"}]
    /\ cause \in [Streams -> {"none", "error", "close"}]
    /\ stage \in [Streams -> {"none", "report", "kill", "close", "reentered"}]
    /\ killed \in [Streams -> BOOLEAN]
    /\ cfut \in [Streams -> {"pending", "completed", "canceled"}]
    /\ sfut \in [Streams -> {"pending", "completed", "canceled"}]
    /\ rcv \in [Streams -> {"none", "read", "user", "userSend", "die", "exit"}]
    /\ connacked \in [Streams -> BOOLEAN]
    /\ upkt \in [Streams -> {NoPacket} \cup Packets]
    /\ png \in [Streams -> {"none", "loop", "die", "exit"}]
    /\ errs \in [Streams -> Nat]

InHand == IF curr = NoPacket THEN <<>> ELSE <<curr>>

\* No packet that Send accepted is lost, duplicated or overtaken on its way to
\* a connection, whatever streams fail in between: what the connections took,
\* the packet in connecting's hands and the channel make up what was accepted,
\* in order.  (What a connection does with it is not the client's.)
Ledger == accepted = handed \o InHand \o cache

\* The client implements the bounded first-in first-out queue of SendQueue: one
\* packet more than the channel holds, the one in connecting's hands.
Queue == INSTANCE SendQueue WITH
            Packet <- Packets, Capacity <- MaxCacheMessages + 1,
            queue <- InHand \o cache, out <- handed,
            closed <- (closing = "returned")

ImplementsSendQueue == Queue!Spec

\* A stream that connect returned is torn down completely before the client
\* goes on: when connecting has left it, or Close of a client that was started has
\* returned, its goroutines have
\* returned, so that none of its callbacks runs or can still come, and its
\* connection is closed.  (Streams whose connect failed are not waited for.)
OldStreamsReaped ==
    \A s \in established : s # cur \/ closing = "returned" => TombDead(s) /\ link[s] = "closed"

\* Packets are sent only on a stream whose broker accepted the connection and,
\* if there are subscriptions, confirmed them, and which took these answers
\* before it died.
SendsOnAckedStream ==
    cpc \in {"sending", "send"} =>
        /\ cfut[cur] = "completed" /\ connacked[cur]
        /\ HasSubscriptions => sfut[cur] = "completed"

\* However many goroutines find the stream broken, the body of die runs once and
\* in its order: the observer's OnError is called once for a stream that dies of
\* an error and never for one that the client closed, which it does only when it is
\* closed itself, nobody waits for a future of a stream that is dying, and the
\* connection of a dead stream is closed.
DeathIsComplete ==
    \A s \in Streams :
        /\ errs[s] <= 1 /\ (errs[s] = 1 => cause[s] = "error")
        /\ killed[s] => errs[s] = 1 \/ cause[s] = "close"
        /\ cause[s] = "close" => dying
        /\ once[s] # "free" => cfut[s] # "pending" /\ sfut[s] # "pending"
        /\ once[s] = "done" => killed[s] /\ link[s] = "closed"

\* The call of die that waits for itself: send, called by die for Disconnect,
\* failed and called die.
Reentered == \E s \in Streams : stage[s] = "reentered"

\* Close returns, unless die waits for itself: nothing else can hang it, be it
\* an unanswering broker, a full channel or a blocked sender.
CloseReturnsOrReentered == closing = "wait" ~> (closing # "wait" \/ Reentered)

\* Close returns.
CloseReturns == closing = "wait" ~> closing # "wait"

\* A stream that has died is given up for the next attempt to connect.
DeadStreamReplaced ==
    \A s \in Streams : (cur = s /\ killed[s]) ~> (cur # s \/ dying)
=============================================================================
