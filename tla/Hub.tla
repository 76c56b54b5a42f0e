--------------------------------- MODULE Hub ---------------------------------
(***************************************************************************)
(* The hub with a processor on one of its channels (src/pubsub): what the  *)
(* publishers put into the channel is what the processor's select takes.   *)
(* The other channels are read by anyone.                                  *)
(***************************************************************************)
EXTENDS Pubsub

CONSTANT Proc       \* the channel that the processor was made with

ASSUME HubAssumption == Proc \in Channels

VARIABLES timed, pc, armed, tick, dying, cpc, handled

P == INSTANCE PubsubProcessor WITH channel <- buffer[Proc], came <- sent[Proc]

procVars == <<timed, pc, armed, tick, dying, cpc, handled>>
allVars == <<vars, procVars>>

HubInit == Init /\ P!Init

\* The processor is made with a channel that Subscribe has returned.
StartProcessor == UNCHANGED vars /\ Proc \notin fresh /\ P!Start

HandleMessage == Receive(Proc) /\ P!TakeMessage

\* The steps of the processor that leave its channel alone.
HandlerReturns == UNCHANGED vars /\ P!OnMessageReturns
TimeOut == UNCHANGED vars /\ P!TakeTick
TimeoutReturns == UNCHANGED vars /\ P!OnTimeoutReturns
StopProcessor == UNCHANGED vars /\ P!Stop
TimerFires == UNCHANGED vars /\ P!TimerFires
CloseProcessor == UNCHANGED vars /\ P!CloseKill
CloseProcessorReturns == UNCHANGED vars /\ P!CloseReturns

Processing ==
    HandleMessage \/ HandlerReturns \/ TimeOut \/ TimeoutReturns \/ StopProcessor

HubNext ==
    /\ ~crashed
    /\ \/ /\ \/ Close
             \/ \E c \in Channels : Subscribe(c) \/ Unsubscribe(c)
             \/ \E c \in Channels \ {Proc} : Receive(c)
             \/ \E p \in Publishers : PublishBegins(p) \/ Publish(p)
          /\ UNCHANGED procVars
       \/ StartProcessor \/ Processing \/ TimerFires
       \/ CloseProcessor \/ CloseProcessorReturns

Spec == HubInit /\ [][HubNext]_allVars

\* The handler returns, the processor's timer fires, and its goroutine and Close go
\* on.  (Which ready case the select takes is left open.)
Fairness ==
    /\ WF_allVars(~crashed /\ Processing)
    /\ WF_allVars(~crashed /\ TimerFires)
    /\ WF_allVars(~crashed /\ CloseProcessorReturns)

FairSpec == Spec /\ Fairness

-----------------------------------------------------------------------------
\* From the moment a Close of the started processor returns, its handler is not
\* called, neither with a message nor because of a timeout, no call of it is under way
\* and no Start brings it back, though publishers still put messages into the channel.
\* This is so also when an earlier Close found no goroutine to wait for: after that
\* one alone the processor can still be started and hand messages to its handler.
QuietAfterClose ==
    [][cpc = "returned" => pc' = "done" /\ handled' = handled]_allVars

\* A processor with a timeout ends by itself once no more messages come, also
\* when the last message is handled while the timer fires.
SilenceEndsProcessor == timed /\ pc = "select" ~> (pc = "done" \/ crashed)

\* What Publish has put into the channel, whoever raced it, the handler gets once
\* and in that order; what it has not got when the processor times out, stops or is
\* closed is still in the channel: no case of the select loses a message.
AcceptedIsHandled == P!TypeOK /\ sent[Proc] = handled \o buffer[Proc]
=============================================================================
