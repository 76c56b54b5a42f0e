--------------------------- MODULE PubsubProcessor ---------------------------
(***************************************************************************)
(* The processor of a subscription (src/pubsub/processor.go): a goroutine  *)
(* that hands the messages of a channel to a handler and, if it has a      *)
(* timeout, tells the handler when none came and ends.  Its channel is one *)
(* of the hub's: module Hub composes the two.                              *)
(*                                                                         *)
(* time.Timer as Go 1.18 has it (go.mod): a tick that was not received     *)
(* stays in timer.C, and Reset does not remove it.                         *)
(***************************************************************************)
EXTENDS Naturals, Sequences

VARIABLES
    timed,      \* p.timeout > 0
    channel,    \* the messages in the channel
    pc,         \* off, select, handle (in OnMessage), timeout (in OnTimeout), done
    armed,      \* the timer runs
    tick,       \* timer.C holds a tick
    dying,      \* the tomb is dying
    cpc,        \* Close: idle, wait, early (it found no goroutine), returned
    came,       \* history: the messages that came, in order
    handled     \* history: the messages OnMessage was called with, in order

vars == <<timed, channel, pc, armed, tick, dying, cpc, came, handled>>

Init ==
    /\ timed \in BOOLEAN
    /\ channel = <<>> /\ came = <<>> /\ handled = <<>>
    /\ pc = "off" /\ armed = FALSE /\ tick = FALSE
    /\ dying = FALSE /\ cpc = "idle"

\* Start, before Close, while it runs or after one that found no goroutine:
\* timerProcessing makes a timer, processing does not.  (Tomb.Go works on a tomb
\* that is dying, not on a dead one.)
Start ==
    /\ pc = "off"
    /\ pc' = "select"
    /\ armed' = timed
    /\ UNCHANGED <<timed, channel, tick, dying, cpc, came, handled>>

TimerFires ==
    /\ armed
    /\ armed' = FALSE
    /\ tick' = TRUE
    /\ UNCHANGED <<timed, channel, pc, dying, cpc, came, handled>>

\* Faulty variant: a message that comes with the timeout is taken for late.
TakeMessageLate ==
    /\ pc = "select" /\ channel # <<>>
    /\ channel' = Tail(channel)
    /\ IF tick THEN UNCHANGED <<pc, handled>>
               ELSE pc' = "handle" /\ handled' = Append(handled, Head(channel))
    /\ UNCHANGED <<timed, armed, tick, dying, cpc, came>>

\* The select takes a message and calls OnMessage.
TakeMessage ==
    /\ pc = "select" /\ channel # <<>>
    /\ channel' = Tail(channel)
    /\ handled' = Append(handled, Head(channel))
    /\ pc' = "handle"
    /\ UNCHANGED <<timed, armed, tick, dying, cpc, came>>

\* Faulty variant: the timer is not armed again.
OnMessageReturnsUnarmed ==
    /\ pc = "handle"
    /\ pc' = "select"
    /\ armed' = FALSE
    /\ UNCHANGED <<timed, channel, tick, dying, cpc, came, handled>>

\* OnMessage returns, with an error or not: timer.Reset.
OnMessageReturns ==
    /\ pc = "handle"
    /\ pc' = "select"
    /\ armed' = timed
    /\ UNCHANGED <<timed, channel, tick, dying, cpc, came, handled>>

\* The select takes the timer's tick and calls OnTimeout.
TakeTick ==
    /\ pc = "select" /\ tick
    /\ tick' = FALSE
    /\ pc' = "timeout"
    /\ UNCHANGED <<timed, channel, armed, dying, cpc, came, handled>>

\* OnTimeout returns: tomb.Kill(ErrProcessorTimeout).
OnTimeoutReturns ==
    /\ pc = "timeout"
    /\ pc' = "select"
    /\ dying' = TRUE
    /\ UNCHANGED <<timed, channel, armed, tick, cpc, came, handled>>

\* The select takes Dying.
Stop ==
    /\ pc = "select" /\ dying
    /\ pc' = "done"
    /\ armed' = FALSE
    /\ UNCHANGED <<timed, channel, tick, dying, cpc, came, handled>>

\* Close, which may be called again; after one that waited it changes nothing.
CloseKill ==
    /\ cpc \in {"idle", "early"}
    /\ dying' = TRUE
    /\ cpc' = "wait"
    /\ UNCHANGED <<timed, channel, pc, armed, tick, came, handled>>

\* Faulty variant: Close does not wait for the goroutine.
CloseReturnsHasty ==
    /\ cpc = "wait"
    /\ cpc' = IF pc = "off" THEN "early" ELSE "returned"
    /\ UNCHANGED <<timed, channel, pc, armed, tick, dying, came, handled>>

\* tomb.Wait: the goroutine has ended, or none was started and it returns at once.
CloseReturns ==
    /\ cpc = "wait" /\ pc \in {"off", "done"}
    /\ cpc' = IF pc = "off" THEN "early" ELSE "returned"
    /\ UNCHANGED <<timed, channel, pc, armed, tick, dying, came, handled>>

Processing ==
    TakeMessage \/ OnMessageReturns \/ TakeTick \/ OnTimeoutReturns \/ Stop

-----------------------------------------------------------------------------
TypeOK ==
    /\ pc \in {"off", "select", "handle", "timeout", "done"}
    /\ timed \in BOOLEAN /\ armed \in BOOLEAN /\ tick \in BOOLEAN /\ dying \in BOOLEAN
    /\ cpc \in {"idle", "wait", "early", "returned"}
    /\ armed \/ tick => timed
=============================================================================
