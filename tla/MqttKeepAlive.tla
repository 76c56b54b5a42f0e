---------------------------- MODULE MqttKeepAlive ----------------------------
(***************************************************************************)
(* The keep-alive of one stream (src/mqtt/stream.go, pinging): the tracker *)
(* of gomqtt that it reads, the sends that reset the tracker and the       *)
(* Pingresp that receiving reports to it, in discrete time.                *)
(*                                                                         *)
(* Time passes only while pinging sleeps, so pinging is as prompt as its   *)
(* timers.  A peer that is up answers every Pingreq within AnswerWithin.   *)
(***************************************************************************)
EXTENDS Integers

CONSTANTS
    KeepAlive,      \* ops.KeepAlive, in ticks
    PingMod,        \* 2^w, where w is the width of the tracker's counter (8)
    AnswerWithin,   \* a peer that is up answers a Pingreq within so many ticks
    MaxIdle         \* bound: ticks of silence counted

ASSUME KeepAliveAssumption ==
    /\ KeepAlive \in Nat \ {0}
    /\ PingMod \in Nat \ {0, 1}
    /\ AnswerWithin \in 0 .. KeepAlive
    /\ MaxIdle \in Nat

VARIABLES
    pinger,     \* where pinging is: loop, ping, send, select, dead
    sleep,      \* ticks until time.After(window) fires
    age,        \* ticks since the tracker's last Reset
    pings,      \* the tracker's counter of pings without a pong
    owed,       \* Pingreqs the peer has received and not answered
    waited,     \* ticks an answer from a peer that is up is due
    peer,       \* up or silent
    idle        \* ticks since the peer fell silent and nothing else was sent

pingVars == <<pinger, sleep, age, pings, owed, waited, peer, idle>>

PingInit ==
    /\ pinger = "loop" /\ sleep = 0 /\ age = 0 /\ pings = 0
    /\ owed = 0 /\ waited = 0 /\ peer = "up" /\ idle = 0

\* tracker.Window()
Window == KeepAlive - age

\* Faulty variant: the window is not awaited when a pong is pending.
CheckWindowHasty ==
    /\ pinger = "loop"
    /\ pinger' = IF Window < 0 \/ pings > 0 THEN "ping" ELSE "select"
    /\ sleep' = IF Window < 0 \/ pings > 0 THEN 0 ELSE Window + 1
    /\ UNCHANGED <<age, pings, owed, waited, peer, idle>>

\* The top of the loop: if the window is over, look at the pong, else sleep.  A
\* timer fires strictly after its duration: a sleep of w takes w + 1 ticks.
CheckWindow ==
    /\ pinger = "loop"
    /\ pinger' = IF Window < 0 THEN "ping" ELSE "select"
    /\ sleep' = IF Window < 0 THEN 0 ELSE Window + 1
    /\ UNCHANGED <<age, pings, owed, waited, peer, idle>>

\* Faulty variant: one unanswered ping is let pass.
PendingTwo == pings > 1

\* tracker.Pending()
Pending == pings > 0

\* The previous ping has not been answered: the stream dies.
NoPong ==
    /\ pinger = "ping" /\ Pending
    /\ pinger' = "dead"
    /\ UNCHANGED <<sleep, age, pings, owed, waited, peer, idle>>

\* tracker.Ping(), before the Pingreq is sent.
TrackerPing ==
    /\ pinger = "ping" /\ ~Pending
    /\ pings' = (pings + 1) % PingMod
    /\ pinger' = "send"
    /\ UNCHANGED <<sleep, age, owed, waited, peer, idle>>

\* send(NewPingreq(), false) resets the tracker; then the select sleeps for the
\* window computed before, which is over.
SendPingreq ==
    /\ pinger = "send"
    /\ age' = 0
    /\ owed' = owed + 1
    /\ waited' = IF owed = 0 THEN 0 ELSE waited
    /\ sleep' = 0
    /\ pinger' = "select"
    /\ UNCHANGED <<pings, peer, idle>>

\* The Pingreq cannot be sent: send has called die.
SendPingreqFails ==
    /\ pinger = "send" /\ peer = "silent"
    /\ pinger' = "dead"
    /\ UNCHANGED <<sleep, age, pings, owed, waited, peer, idle>>

\* time.After fires.
Wake ==
    /\ pinger = "select" /\ sleep = 0
    /\ pinger' = "loop"
    /\ UNCHANGED <<sleep, age, pings, owed, waited, peer, idle>>

PingTick ==
    /\ pinger = "select" /\ sleep > 0
    /\ owed > 0 /\ peer = "up" => waited < AnswerWithin
    /\ sleep' = sleep - 1
    /\ age' = age + 1
    /\ waited' = IF owed > 0 /\ peer = "up" THEN waited + 1 ELSE 0
    /\ idle' = IF peer = "silent" /\ idle < MaxIdle THEN idle + 1 ELSE idle
    /\ UNCHANGED <<pinger, pings, owed, peer>>

\* Another goroutine sends a packet: send resets the tracker.
OtherSend ==
    /\ pinger # "dead"
    /\ age' = 0
    /\ idle' = 0
    /\ UNCHANGED <<pinger, sleep, pings, owed, waited, peer>>

\* Receiving gets the answer: tracker.Pong().
Pong ==
    /\ pinger # "dead" /\ owed > 0 /\ peer = "up"
    /\ owed' = owed - 1
    /\ waited' = 0
    /\ pings' = (pings - 1) % PingMod
    /\ UNCHANGED <<pinger, sleep, age, peer, idle>>

\* The peer stops answering, and the network does not say so.
FallSilent ==
    /\ peer = "up"
    /\ peer' = "silent"
    /\ UNCHANGED <<pinger, sleep, age, pings, owed, waited, idle>>

PingNext ==
    \/ CheckWindow \/ NoPong \/ TrackerPing \/ SendPingreq \/ SendPingreqFails
    \/ Wake \/ PingTick \/ OtherSend \/ Pong \/ FallSilent

PingSpec == PingInit /\ [][PingNext]_pingVars

-----------------------------------------------------------------------------
PingTypeOK ==
    /\ pinger \in {"loop", "ping", "send", "select", "dead"}
    /\ sleep \in 0 .. KeepAlive + 1
    /\ age \in Nat
    /\ pings \in 0 .. PingMod - 1
    /\ owed \in Nat
    /\ waited \in 0 .. AnswerWithin
    /\ peer \in {"up", "silent"}
    /\ idle \in Nat

\* A stream whose peer answers in time does not die of a missing pong, however
\* the answers and other traffic fall into the pings; and the unsigned counter is
\* the number of unanswered pings: no answer that comes before its question was
\* counted takes it below zero.
HealthyStreamLives ==
    /\ PingTypeOK
    /\ peer = "up" => pinger # "dead"
    /\ pinger # "dead" => pings = owed + (IF pinger = "send" THEN 1 ELSE 0)

\* Silence is noticed on both sides: with nothing else to send, the stream dies
\* within two keep-alive windows of a silent peer (and the ticks by which each must
\* be exceeded); and while it lives the broker hears from it within the keep-alive.
SilenceDetected == pinger # "dead" => idle <= 2 * (KeepAlive + 1) /\ age <= KeepAlive + 1
=============================================================================
