------------------------------ MODULE DmContext ------------------------------
(***************************************************************************)
(* The device context (src/dmcontext/context.go, observer.go): messages of *)
(* a device go from the MQTT observer through the device's channel to its  *)
(* processing goroutine, which runs the user's callbacks and hands answers *)
(* to the caller of GetDeviceProperties that has registered a channel for  *)
(* the device.                                                             *)
(*                                                                         *)
(* A call of GetDeviceProperties is a number, its channel and its request  *)
(* have the same number.  It publishes the request BEFORE it registers the *)
(* channel and has its timer, and waits for that while the MQTT client's   *)
(* cache is full; the channel has no buffer: an answer finds the caller in *)
(* its select or is thrown away.                                           *)
(***************************************************************************)
EXTENDS Naturals, Sequences, FiniteSets

CONSTANTS
    Devices,        \* the devices of the driver
    Clients,        \* goroutines of the driver that ask for properties
    ChannelSize,    \* capacity of a device's channel (1024 in the code)
    CacheSize,      \* capacity of the MQTT client's cache (MaxCacheMessages)
    CallbackGets,   \* the delta callback calls GetDeviceProperties
    MaxGets,        \* bound: calls of GetDeviceProperties
    MaxDeltas       \* bound: messages other than answers

ASSUME ContextAssumption ==
    /\ Devices # {} /\ Devices \cap Clients = {}
    /\ ChannelSize \in Nat \ {0} /\ CacheSize \in Nat
    /\ CallbackGets \in BOOLEAN
    /\ MaxGets \in Nat
    /\ MaxDeltas \in Nat

Calls == 1 .. MaxGets
NoCall == 0
\* Who may call: the clients, and a device's processing goroutine in a callback.
Callers == Clients \cup Devices
\* A message: the answer to request r, or (for 0) a delta, event or property-get.
Messages == 0 .. MaxGets
Delta == 0

VARIABLES
    started,    \* devices that Start has given a channel and a goroutine
    down,       \* Close was called: the MQTT client is being closed, or is
    dying,      \* the client is closed, and the context's tomb is killed
    msgCh,      \* the devices' channels
    deltas,     \* how many deltas were sent
    cbSet,      \* a delta callback is registered
    proc,       \* processing: off, select, handle, reply, callback
    cur,        \* the message in its hands
    ch,         \* processResponse: the channel it has loaded
    response,   \* DmCtx.response: the channel registered for a device
    calls,      \* how many calls have published their request
    gpc,        \* a caller: idle, publish, register, ready, select, timedOut, answered
    call,       \* its call
    target,     \* the device it asks for
    outbox,     \* requests in the client's cache
    open,       \* requests that the broker may still answer
    answered    \* history: call |-> the request whose answer it got

procVars == <<started, msgCh, proc, cur, ch>>
getVars == <<calls, gpc, call, target, outbox, open>>
ctxVars == <<down, dying, deltas, cbSet>>
vars == <<procVars, getVars, ctxVars, response, answered>>

Init ==
    /\ started = {} /\ down = FALSE /\ dying = FALSE /\ deltas = 0 /\ cbSet = FALSE
    /\ msgCh = [d \in Devices |-> <<>>]
    /\ proc = [d \in Devices |-> "off"]
    /\ cur = [d \in Devices |-> Delta]
    /\ ch = [d \in Devices |-> NoCall]
    /\ response = [d \in Devices |-> NoCall]
    /\ calls = 0 /\ outbox = {} /\ open = {}
    /\ gpc = [c \in Callers |-> "idle"]
    /\ call = [c \in Callers |-> NoCall]
    /\ target = [c \in Callers |-> CHOOSE d \in Devices : TRUE]
    /\ answered = [r \in Calls |-> NoCall]

-----------------------------------------------------------------------------
(* The observer, Start, Close and the callback                             *)

\* One round of Start's loop: the device gets its channel and its goroutine.
Start(d) ==
    /\ d \notin started
    /\ started' = started \cup {d}
    /\ proc' = [proc EXCEPT ![d] = "select"]
    /\ UNCHANGED <<msgCh, cur, ch, getVars, ctxVars, response, answered>>

\* OnPublish: into the channel if it exists and has room, else away.
Route(d, m) ==
    msgCh' = IF d \in started /\ Len(msgCh[d]) < ChannelSize
             THEN [msgCh EXCEPT ![d] = Append(@, m)] ELSE msgCh

OnPublishDelta(d) ==
    /\ ~dying /\ deltas < MaxDeltas
    /\ deltas' = deltas + 1
    /\ Route(d, Delta)
    /\ UNCHANGED <<started, proc, cur, ch, getVars, down, dying, cbSet, response, answered>>

\* The broker answers request r of device d, at any time or never.
OnPublishAnswer(d, r) ==
    /\ ~dying /\ <<d, r>> \in open
    /\ open' = open \ {<<d, r>>}
    /\ Route(d, r)
    /\ UNCHANGED <<started, proc, cur, ch, calls, gpc, call, target, outbox, ctxVars,
                   response, answered>>

RegisterDeltaCallback ==
    /\ ~cbSet
    /\ cbSet' = TRUE
    /\ UNCHANGED <<procVars, getVars, down, dying, deltas, response, answered>>

\* Close closes the client, ...
CloseClient ==
    /\ ~down
    /\ down' = TRUE
    /\ UNCHANGED <<procVars, getVars, dying, deltas, cbSet, response, answered>>

\* ... and when that returns it kills the tomb.  The goroutines are not the tomb's, so
\* that its Wait does not wait for them.
Close ==
    /\ down /\ ~dying
    /\ dying' = TRUE
    /\ UNCHANGED <<procVars, getVars, down, deltas, cbSet, response, answered>>

-----------------------------------------------------------------------------
(* GetDeviceProperties                                                     *)

MayCall(c) ==
    \/ c \in Clients
    \/ c \in Devices /\ CallbackGets /\ proc[c] = "callback"

\* The call comes to Publish.
GetPublish(c, d) ==
    /\ gpc[c] = "idle" /\ MayCall(c) /\ calls < MaxGets
    /\ c \in Devices => d = c
    /\ gpc' = [gpc EXCEPT ![c] = "publish"]
    /\ target' = [target EXCEPT ![c] = d]
    /\ UNCHANGED <<procVars, calls, call, outbox, open, ctxVars, response, answered>>

Return(c) ==
    /\ gpc' = [gpc EXCEPT ![c] = "idle"]
    /\ call' = [call EXCEPT ![c] = NoCall]

\* Client.Send: the cache has room for the request, ...
GetPublished(c) ==
    /\ gpc[c] = "publish" /\ calls < MaxGets
    /\ Cardinality(outbox) < CacheSize
    /\ outbox' = outbox \cup {<<target[c], calls + 1>>}
    /\ calls' = calls + 1
    /\ gpc' = [gpc EXCEPT ![c] = "register"]
    /\ call' = [call EXCEPT ![c] = calls + 1]
    /\ UNCHANGED <<procVars, target, open, ctxVars, response, answered>>

\* ... or the client is being closed.
GetRefused(c) ==
    /\ gpc[c] = "publish" /\ down
    /\ Return(c)
    /\ UNCHANGED <<procVars, calls, target, outbox, open, ctxVars, response, answered>>

\* The client sends a request to the broker, whenever it has a connection.
HandOver(d, r) ==
    /\ ~dying /\ <<d, r>> \in outbox
    /\ outbox' = outbox \ {<<d, r>>}
    /\ open' = open \cup {<<d, r>>}
    /\ UNCHANGED <<procVars, calls, gpc, call, target, ctxVars, response, answered>>

\* Faulty variant: Store instead of LoadOrStore.
GetRegisterStore(c) ==
    /\ gpc[c] = "register"
    /\ response' = [response EXCEPT ![target[c]] = call[c]]
    /\ gpc' = [gpc EXCEPT ![c] = "ready"]
    /\ UNCHANGED <<procVars, call, calls, target, outbox, open, ctxVars, answered>>

\* LoadOrStore: refused when another call has its channel there.
GetRegister(c) ==
    LET d == target[c]
    IN  /\ gpc[c] = "register"
        /\ IF response[d] # NoCall
           THEN Return(c) /\ UNCHANGED response
           ELSE /\ response' = [response EXCEPT ![d] = call[c]]
                /\ gpc' = [gpc EXCEPT ![c] = "ready"]
                /\ UNCHANGED call
        /\ UNCHANGED <<procVars, calls, target, outbox, open, ctxVars, answered>>

\* The caller comes to its select.
GetSelect(c) ==
    /\ gpc[c] = "ready"
    /\ gpc' = [gpc EXCEPT ![c] = "select"]
    /\ UNCHANGED <<procVars, calls, call, target, outbox, open, ctxVars,
                   response, answered>>

\* Faulty variant: the caller has no timer and waits for Close.
GetTimesOutDying(c) ==
    /\ gpc[c] = "select" /\ dying
    /\ gpc' = [gpc EXCEPT ![c] = "timedOut"]
    /\ UNCHANGED <<procVars, calls, call, target, outbox, open, ctxVars,
                   response, answered>>

\* The second is over.
GetTimesOut(c) ==
    /\ gpc[c] = "select"
    /\ gpc' = [gpc EXCEPT ![c] = "timedOut"]
    /\ UNCHANGED <<procVars, calls, call, target, outbox, open, ctxVars,
                   response, answered>>

\* The deferred function: delete the device's entry, and return.
GetReturns(c) ==
    /\ gpc[c] \in {"timedOut", "answered"}
    /\ response' = [response EXCEPT ![target[c]] = NoCall]
    /\ Return(c)
    /\ UNCHANGED <<procVars, calls, target, outbox, open, ctxVars, answered>>

Get(c) ==
    \/ GetPublished(c) \/ GetRefused(c) \/ GetRegister(c) \/ GetSelect(c)
    \/ GetTimesOut(c) \/ GetReturns(c)

-----------------------------------------------------------------------------
(* processing                                                              *)

Goto(d, pc) == proc' = [proc EXCEPT ![d] = pc]

Take(d) ==
    /\ proc[d] = "select" /\ msgCh[d] # <<>>
    /\ cur' = [cur EXCEPT ![d] = Head(msgCh[d])]
    /\ msgCh' = [msgCh EXCEPT ![d] = Tail(@)]
    /\ Goto(d, "handle")
    /\ UNCHANGED <<started, ch, getVars, ctxVars, response, answered>>

\* Faulty variant: Dying is looked at only when there is a message.
StopWithMessage(d) ==
    /\ proc[d] = "select" /\ dying /\ msgCh[d] # <<>>
    /\ Goto(d, "off")
    /\ UNCHANGED <<started, msgCh, cur, ch, getVars, ctxVars, response,
                   answered>>

Stop(d) ==
    /\ proc[d] = "select" /\ dying
    /\ Goto(d, "off")
    /\ UNCHANGED <<started, msgCh, cur, ch, getVars, ctxVars, response,
                   answered>>

\* processDelta: ignored without a callback, refused when it cannot be parsed.
DeltaIgnored(d) ==
    /\ proc[d] = "handle" /\ cur[d] = Delta
    /\ Goto(d, "select")
    /\ UNCHANGED <<started, msgCh, cur, ch, getVars, ctxVars, response,
                   answered>>

DeltaCallback(d) ==
    /\ proc[d] = "handle" /\ cur[d] = Delta /\ cbSet
    /\ Goto(d, "callback")
    /\ UNCHANGED <<started, msgCh, cur, ch, getVars, ctxVars, response,
                   answered>>

CallbackReturns(d) ==
    /\ proc[d] = "callback" /\ gpc[d] = "idle"
    /\ Goto(d, "select")
    /\ UNCHANGED <<started, msgCh, cur, ch, getVars, ctxVars, response,
                   answered>>

\* processResponse: Load the device's channel; without one, or when the shadow
\* cannot be parsed, the answer is thrown away.
ResponseLoad(d) ==
    /\ proc[d] = "handle" /\ cur[d] # Delta
    /\ \/ /\ response[d] # NoCall
          /\ ch' = [ch EXCEPT ![d] = response[d]]
          /\ Goto(d, "reply")
       \/ Goto(d, "select") /\ UNCHANGED ch
    /\ UNCHANGED <<started, msgCh, cur, getVars, ctxVars, response, answered>>

\* Faulty variant: an answer that was handed over is kept for the next call.
ResponseSendKept(d) ==
    /\ proc[d] = "reply"
    /\ LET waiting == {c \in Callers : gpc[c] = "select" /\ call[c] = ch[d]}
       IN  IF waiting # {}
           THEN /\ gpc' = [c \in Callers |-> IF c \in waiting THEN "answered" ELSE gpc[c]]
                /\ answered' = [answered EXCEPT ![ch[d]] = cur[d]]
           ELSE UNCHANGED <<gpc, answered>>
    /\ ch' = [ch EXCEPT ![d] = NoCall]
    /\ Goto(d, "handle")
    /\ UNCHANGED <<started, msgCh, cur, calls, call, target, outbox, open, ctxVars,
                   response>>

\* The send that does not wait: it succeeds if the channel's caller is in select.
ResponseSend(d) ==
    /\ proc[d] = "reply"
    /\ LET waiting == {c \in Callers : gpc[c] = "select" /\ call[c] = ch[d]}
       IN  IF waiting # {}
           THEN /\ gpc' = [c \in Callers |-> IF c \in waiting THEN "answered" ELSE gpc[c]]
                /\ answered' = [answered EXCEPT ![ch[d]] = cur[d]]
           ELSE UNCHANGED <<gpc, answered>>
    /\ ch' = [ch EXCEPT ![d] = NoCall]
    /\ Goto(d, "select")
    /\ UNCHANGED <<started, msgCh, cur, calls, call, target, outbox, open, ctxVars,
                   response>>

Processing(d) ==
    \/ Take(d) \/ Stop(d) \/ DeltaIgnored(d) \/ DeltaCallback(d) \/ CallbackReturns(d)
    \/ ResponseLoad(d) \/ ResponseSend(d)

-----------------------------------------------------------------------------
Next ==
    \/ RegisterDeltaCallback \/ CloseClient \/ Close
    \/ \E d \in Devices :
        \/ Start(d) \/ OnPublishDelta(d) \/ Processing(d)
        \/ \E r \in Calls : HandOver(d, r) \/ OnPublishAnswer(d, r)
        \/ \E c \in Callers : GetPublish(c, d)
    \/ \E c \in Callers : Get(c)

Spec == Init /\ [][Next]_vars

\* Goroutines go on, the callback returns (it does not ask for properties for ever),
\* the timer of a call fires, and the select of processing takes Dying sooner or
\* later.  (Whether the client ever has a connection, or its Close returns, is left
\* open.)
FairSpec ==
    /\ Spec
    /\ \A c \in Callers : WF_vars(Get(c))
    /\ \A d \in Devices :
        WF_vars(Processing(d)) /\ SF_vars(Stop(d)) /\ SF_vars(CallbackReturns(d))

-----------------------------------------------------------------------------
TypeOK ==
    /\ started \subseteq Devices /\ deltas \in 0 .. MaxDeltas
    /\ down \in BOOLEAN /\ dying \in BOOLEAN /\ cbSet \in BOOLEAN
    /\ msgCh \in [Devices -> Seq(Messages)]
    /\ \A d \in Devices : Len(msgCh[d]) <= ChannelSize
    /\ proc \in [Devices -> {"off", "select", "handle", "reply", "callback"}]
    /\ cur \in [Devices -> Messages]
    /\ ch \in [Devices -> Calls \cup {NoCall}]
    /\ response \in [Devices -> Calls \cup {NoCall}]
    /\ calls \in 0 .. MaxGets
    /\ outbox \subseteq Devices \X Calls /\ open \subseteq Devices \X Calls
    /\ gpc \in [Callers -> {"idle", "publish", "register", "ready", "select", "timedOut",
                            "answered"}]
    /\ call \in [Callers -> Calls \cup {NoCall}]
    /\ target \in [Callers -> Devices]
    /\ answered \in [Calls -> Messages]

Holds(c) == gpc[c] \in {"ready", "select", "timedOut", "answered"}

\* The registered channel is always that of the one call that waits for the
\* device: a call never deletes the channel of another, never leaves its own
\* behind, and two calls never wait for the same device.
EntryHasItsCaller ==
    /\ \A d \in Devices : response[d] # NoCall =>
        \E c \in Callers : Holds(c) /\ target[c] = d /\ call[c] = response[d]
    /\ \A c \in Callers : Holds(c) => response[target[c]] = call[c]

\* An answer ends one call: no two calls get the same one, even when an answer
\* comes late and is taken by a later call for the same device.
AnswerEndsOneCall ==
    \A r, q \in Calls : r # q /\ answered[r] # NoCall => answered[r] # answered[q]

\* A call whose request the client has taken ends, whatever happens to the request
\* and its answer; and one that still waits for the client ends once that is closed.
\* (Before its Publish returns a call has no timer: without a connection it waits.)
GetEnds ==
    \A c \in Callers :
        (gpc[c] # "idle" /\ (gpc[c] = "publish" => down)) ~> gpc[c] = "idle"

\* After Close every processing goroutine ends (though Close has not waited).
ProcessingEnds == \A d \in Devices : (dying /\ d \in started) ~> proc[d] = "off"
=============================================================================
