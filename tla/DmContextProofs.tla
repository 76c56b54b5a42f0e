--------------------------- MODULE DmContextProofs ---------------------------
(***************************************************************************)
(* The response table of the device context, for any number of devices,    *)
(* clients, calls and messages: type correctness, and that an entry of the *)
(* table always belongs to the one call that waits for the device.         *)
(*                                                                         *)
(* EntryHasItsCaller is not inductive: a call that returns deletes the     *)
(* entry of its device, and only because calls that are under way have     *)
(* different numbers is that the entry of no other call.                   *)
(*                                                                         *)
(* Then the values of properties, for all widths of the integer types and  *)
(* all float types.                                                        *)
(***************************************************************************)
EXTENDS DmContext, DmFormat, WellFoundedInduction, TLAPS

\* A call whose request was taken has a number, and no two have the same.
Numbered(c) == gpc[c] \notin {"idle", "publish"}

CallsDistinct ==
    /\ \A c \in Callers : Numbered(c) => call[c] \in 1 .. calls
    /\ \A c, e \in Callers : c # e /\ Numbered(c) /\ Numbered(e) => call[c] # call[e]

TableInv == TypeOK /\ CallsDistinct /\ EntryHasItsCaller

\* The places where an answer may be: still to come, from a request in the client's
\* cache or at the broker; in a channel, in the hands of a processing goroutine, and at a
\* call that got it.
Out == open \cup outbox
AtBroker(r) == \E d \in Devices : <<d, r>> \in Out
Slots(d) == 1 .. Len(msgCh[d])
Queued(r) == \E d \in Devices : \E i \in Slots(d) : msgCh[d][i] = r
Holding(d) == proc[d] \in {"handle", "reply"}
InHand(r) == \E d \in Devices : Holding(d) /\ cur[d] = r
Given(r) == \E q \in Calls : answered[q] = r

\* An answer is in one of them only, ...
OnePlace ==
    \A r \in Calls :
        /\ AtBroker(r) => ~Queued(r) /\ ~InHand(r) /\ ~Given(r)
        /\ Queued(r) => ~InHand(r) /\ ~Given(r)
        /\ InHand(r) => ~Given(r)

\* ... once, ...
Once ==
    /\ open \cap outbox = {}
    /\ \A d, e \in Devices, r \in Calls : <<d, r>> \in Out /\ <<e, r>> \in Out => d = e
    /\ \A d, e \in Devices : \A i \in Slots(d), j \in Slots(e) :
        msgCh[d][i] # Delta /\ msgCh[d][i] = msgCh[e][j] => d = e /\ i = j
    /\ \A d, e \in Devices :
        Holding(d) /\ Holding(e) /\ cur[d] # Delta /\ cur[d] = cur[e] => d = e

\* ... and nowhere before its request was made.
Asked ==
    \A r \in Calls : AtBroker(r) \/ Queued(r) \/ InHand(r) \/ Given(r) => r <= calls

AnswerInv == OnePlace /\ Once /\ Asked /\ AnswerEndsOneCall

-----------------------------------------------------------------------------
\* NewContext leaves the table empty and every variable in its type.
LEMMA InitTable == Init => TableInv
  <1> SUFFICES ASSUME Init PROVE TableInv
    OBVIOUS
  <1>1. \E d \in Devices : TRUE
    BY ContextAssumption
  <1>2. (CHOOSE d \in Devices : TRUE) \in Devices
    BY <1>1
  <1>a. down \in BOOLEAN /\ dying \in BOOLEAN /\ cbSet \in BOOLEAN
    BY DEF Init
  <1>b. <<>> \in Seq(Messages) /\ Len(<<>>) = 0
    OBVIOUS
  <1>c. Delta \in Messages /\ NoCall \in Messages /\ 0 \in 0 .. MaxGets /\ 0 \in 0 .. MaxDeltas
    BY ContextAssumption DEF Delta, Messages, NoCall
  <1>d. /\ msgCh \in [Devices -> Seq(Messages)]
        /\ \A d \in Devices : Len(msgCh[d]) <= ChannelSize
    BY <1>b, ContextAssumption DEF Init
  <1>e. target \in [Callers -> Devices]
    BY <1>2 DEF Init
  <1>3. TypeOK
    BY <1>a, <1>c, <1>d, <1>e DEF Init, TypeOK
  <1>4. CallsDistinct
    BY DEF Init, CallsDistinct, Numbered
  <1>5. EntryHasItsCaller
    BY <1>2 DEF Init, EntryHasItsCaller, Holds, NoCall
  <1> QED
    BY <1>3, <1>4, <1>5 DEF TableInv

-----------------------------------------------------------------------------
(* Type correctness of the steps                                           *)

\* Routing a message keeps the channels within their capacity (OnPublish).
LEMMA RouteType ==
  ASSUME TypeOK, NEW d \in Devices, NEW m \in Messages, Route(d, m)
  PROVE  /\ msgCh' \in [Devices -> Seq(Messages)]
         /\ \A e \in Devices : Len(msgCh'[e]) <= ChannelSize
  <1>1. CASE d \in started /\ Len(msgCh[d]) < ChannelSize
    <2>1. msgCh' = [msgCh EXCEPT ![d] = Append(@, m)]
      BY <1>1 DEF Route
    <2>2. msgCh[d] \in Seq(Messages) /\ Len(msgCh[d]) \in Nat
      BY DEF TypeOK
    <2>3. Append(msgCh[d], m) \in Seq(Messages)
      BY <2>2
    <2>4. Len(Append(msgCh[d], m)) = Len(msgCh[d]) + 1
      BY <2>2
    <2> QED
      BY <1>1, <2>1, <2>2, <2>3, <2>4, ContextAssumption DEF TypeOK
  <1>2. CASE ~(d \in started /\ Len(msgCh[d]) < ChannelSize)
    BY <1>2 DEF Route, TypeOK
  <1> QED
    BY <1>1, <1>2

\* The steps outside GetDeviceProperties and processing keep the type.
LEMMA ContextTypeStep ==
  ASSUME TypeOK,
         \/ RegisterDeltaCallback \/ CloseClient \/ Close
         \/ \E d \in Devices : Start(d) \/ OnPublishDelta(d)
         \/ \E d \in Devices : \E r \in Calls : HandOver(d, r) \/ OnPublishAnswer(d, r)
  PROVE  TypeOK'
  <1>1. CASE RegisterDeltaCallback \/ CloseClient \/ Close
    BY <1>1 DEF RegisterDeltaCallback, CloseClient, Close, TypeOK, procVars, getVars
  <1>2. ASSUME NEW d \in Devices, Start(d) PROVE TypeOK'
    BY <1>2 DEF Start, TypeOK, getVars, ctxVars
  <1>3. ASSUME NEW d \in Devices, OnPublishDelta(d) PROVE TypeOK'
    <2>1. Delta \in Messages
      BY ContextAssumption DEF Delta, Messages
    <2>2. /\ msgCh' \in [Devices -> Seq(Messages)]
          /\ \A e \in Devices : Len(msgCh'[e]) <= ChannelSize
      BY <1>3, <2>1, RouteType DEF OnPublishDelta
    <2> QED
      BY <1>3, <2>2, ContextAssumption DEF OnPublishDelta, TypeOK, getVars
  <1>4. ASSUME NEW d \in Devices, NEW r \in Calls, OnPublishAnswer(d, r) PROVE TypeOK'
    <2>1. r \in Messages
      BY ContextAssumption DEF Calls, Messages
    <2>2. /\ msgCh' \in [Devices -> Seq(Messages)]
          /\ \A e \in Devices : Len(msgCh'[e]) <= ChannelSize
      BY <1>4, <2>1, RouteType DEF OnPublishAnswer
    <2> QED
      BY <1>4, <2>2 DEF OnPublishAnswer, TypeOK, ctxVars
  <1>5. ASSUME NEW d \in Devices, NEW r \in Calls, HandOver(d, r) PROVE TypeOK'
    <2>1. outbox' \subseteq Devices \X Calls /\ open' \subseteq Devices \X Calls
      BY <1>5 DEF HandOver, TypeOK
    <2> QED
      BY <1>5, <2>1 DEF HandOver, TypeOK, procVars, ctxVars
  <1> QED
    BY <1>1, <1>2, <1>3, <1>4, <1>5

\* The steps of GetDeviceProperties keep the type.
LEMMA GetTypeStep ==
  ASSUME TypeOK, NEW c \in Callers,
         (\E d \in Devices : GetPublish(c, d)) \/ Get(c)
  PROVE  TypeOK'
  <1>1. ASSUME NEW d \in Devices, GetPublish(c, d) PROVE TypeOK'
    BY <1>1 DEF GetPublish, TypeOK, procVars, ctxVars
  <1>5. CASE GetPublished(c)
    <2>1. calls + 1 \in Calls /\ target[c] \in Devices
      BY <1>5, ContextAssumption DEF GetPublished, TypeOK, Calls
    <2>2. outbox' \subseteq Devices \X Calls
      BY <1>5, <2>1 DEF GetPublished, TypeOK
    <2>3. calls' \in 0 .. MaxGets /\ call' \in [Callers -> Calls \cup {NoCall}]
      BY <1>5, <2>1, ContextAssumption DEF GetPublished, TypeOK, Calls
    <2> QED
      BY <1>5, <2>2, <2>3 DEF GetPublished, TypeOK, procVars, ctxVars
  <1>6. CASE GetRefused(c)
    BY <1>6 DEF GetRefused, Return, TypeOK, procVars, ctxVars, NoCall
  <1>2. CASE GetRegister(c)
    BY <1>2 DEF GetRegister, Return, TypeOK, procVars, ctxVars, NoCall
  <1>3. CASE GetSelect(c) \/ GetTimesOut(c)
    BY <1>3 DEF GetSelect, GetTimesOut, TypeOK, procVars, ctxVars
  <1>4. CASE GetReturns(c)
    BY <1>4 DEF GetReturns, Return, TypeOK, procVars, ctxVars, NoCall
  <1> QED
    BY <1>1, <1>2, <1>3, <1>4, <1>5, <1>6 DEF Get

\* The steps of a processing goroutine keep the type.
LEMMA ProcessingTypeStep ==
  ASSUME TypeOK, NEW d \in Devices, Processing(d)
  PROVE  TypeOK'
  <1>1. CASE Take(d)
    <2>1. msgCh[d] \in Seq(Messages) /\ msgCh[d] # <<>>
      BY <1>1 DEF Take, TypeOK
    <2>2. /\ Head(msgCh[d]) \in Messages
          /\ Tail(msgCh[d]) \in Seq(Messages)
          /\ Len(Tail(msgCh[d])) = Len(msgCh[d]) - 1
      BY <2>1
    <2>3. Len(Tail(msgCh[d])) <= ChannelSize
      BY <2>1, <2>2, ContextAssumption DEF TypeOK
    <2> QED
      BY <1>1, <2>2, <2>3 DEF Take, Goto, TypeOK, getVars, ctxVars
  <1>2. CASE Stop(d) \/ DeltaIgnored(d) \/ DeltaCallback(d) \/ CallbackReturns(d)
    BY <1>2 DEF Stop, DeltaIgnored, DeltaCallback, CallbackReturns, Goto, TypeOK, getVars, ctxVars
  <1>3. CASE ResponseLoad(d)
    BY <1>3 DEF ResponseLoad, Goto, TypeOK, getVars, ctxVars
  <1>4. CASE ResponseSend(d)
    BY <1>4 DEF ResponseSend, Goto, TypeOK, ctxVars, NoCall
  <1> QED
    BY <1>1, <1>2, <1>3, <1>4 DEF Processing

-----------------------------------------------------------------------------
(* The table                                                               *)

\* A step that leaves the callers and the table alone keeps what is said of them.
LEMMA TableFrame ==
  ASSUME CallsDistinct, EntryHasItsCaller, UNCHANGED <<gpc, call, target, calls, response>>
  PROVE  CallsDistinct' /\ EntryHasItsCaller'
  BY DEF CallsDistinct, Numbered, EntryHasItsCaller, Holds

\* A call that begins does not touch the table.
LEMMA PublishTable ==
  ASSUME TableInv, NEW c \in Callers, NEW d \in Devices, GetPublish(c, d)
  PROVE  CallsDistinct' /\ EntryHasItsCaller'
  <1>1. /\ \A e \in Callers : e # c => gpc'[e] = gpc[e] /\ target'[e] = target[e]
        /\ gpc'[c] = "publish" /\ gpc[c] = "idle" /\ UNCHANGED <<call, calls, response>>
    BY DEF GetPublish, TableInv, TypeOK
  <1>2. CallsDistinct'
    BY <1>1 DEF TableInv, CallsDistinct, Numbered
  <1>3. EntryHasItsCaller'
    BY <1>1 DEF TableInv, EntryHasItsCaller, Holds
  <1> QED
    BY <1>2, <1>3

\* Its request takes a number that no other call has.
LEMMA PublishedTable ==
  ASSUME TableInv, NEW c \in Callers, GetPublished(c) \/ GetRefused(c)
  PROVE  CallsDistinct' /\ EntryHasItsCaller'
  <1>1. /\ \A e \in Callers : e # c => gpc'[e] = gpc[e] /\ call'[e] = call[e]
        /\ gpc[c] = "publish" /\ UNCHANGED <<target, response>> /\ calls \in Nat
        /\ \/ gpc'[c] = "register" /\ call'[c] = calls + 1 /\ calls' = calls + 1
           \/ gpc'[c] = "idle" /\ calls' = calls
    BY DEF GetPublished, GetRefused, Return, TableInv, TypeOK
  <1>2. CallsDistinct'
    BY <1>1 DEF TableInv, CallsDistinct, Numbered
  <1>3. EntryHasItsCaller'
    BY <1>1 DEF TableInv, EntryHasItsCaller, Holds
  <1> QED
    BY <1>2, <1>3

\* Registering, waiting and returning keep the table: the loser of LoadOrStore has no
\* entry, and a call that returns deletes its own.
LEMMA GetTable ==
  ASSUME TableInv, NEW c \in Callers, Get(c)
  PROVE  CallsDistinct' /\ EntryHasItsCaller'
  <1>1. CASE GetRegister(c)
    <2>1. CASE response[target[c]] # NoCall
      <3>1. /\ gpc' = [gpc EXCEPT ![c] = "idle"]
            /\ call' = [call EXCEPT ![c] = NoCall]
            /\ UNCHANGED <<response, target, calls>> /\ gpc[c] = "register"
        BY <1>1, <2>1 DEF GetRegister, Return
      <3>2. \A e \in Callers : e # c => gpc'[e] = gpc[e] /\ call'[e] = call[e]
        BY <3>1 DEF TableInv, TypeOK
      <3>3. gpc'[c] = "idle"
        BY <3>1 DEF TableInv, TypeOK
      <3>4. CallsDistinct'
        BY <3>1, <3>2, <3>3 DEF TableInv, CallsDistinct, Numbered
      <3>5. EntryHasItsCaller'
        BY <3>1, <3>2, <3>3 DEF TableInv, EntryHasItsCaller, Holds
      <3> QED
        BY <3>4, <3>5
    <2>2. CASE response[target[c]] = NoCall
      <3>1. /\ response' = [response EXCEPT ![target[c]] = call[c]]
            /\ gpc' = [gpc EXCEPT ![c] = "ready"]
            /\ UNCHANGED <<call, target, calls>> /\ gpc[c] = "register"
        BY <1>1, <2>2 DEF GetRegister
      <3>2. \A e \in Callers : Holds(e) => target[e] # target[c]
        <4> SUFFICES ASSUME NEW e \in Callers, Holds(e), target[e] = target[c]
                     PROVE  FALSE
          OBVIOUS
        <4>1. call[e] = NoCall
          BY <2>2 DEF TableInv, EntryHasItsCaller
        <4>2. Numbered(e)
          BY DEF Holds, Numbered
        <4> QED
          BY <4>1, <4>2 DEF TableInv, TypeOK, CallsDistinct, NoCall
      <3>3. CallsDistinct'
        BY <3>1 DEF TableInv, TypeOK, CallsDistinct, Numbered
      <3>4. EntryHasItsCaller'
        <4>1. /\ response'[target[c]] = call[c] /\ target[c] \in Devices
              /\ \A d \in Devices : d # target[c] => response'[d] = response[d]
          BY <3>1 DEF TableInv, TypeOK
        <4>2. Holds(c)' /\ \A e \in Callers : e # c => (Holds(e)' <=> Holds(e))
          BY <3>1 DEF TableInv, TypeOK, Holds
        <4>3. ~Holds(c)
          BY <3>1 DEF Holds
        <4>4. \A e \in Callers : Holds(e)' => response'[target'[e]] = call'[e]
          BY <3>1, <3>2, <4>1, <4>2 DEF TableInv, TypeOK, EntryHasItsCaller
        <4>5. \A d \in Devices : response'[d] # NoCall =>
                \E e \in Callers : Holds(e)' /\ target'[e] = d /\ call'[e] = response'[d]
          BY <3>1, <4>1, <4>2, <4>3 DEF TableInv, EntryHasItsCaller
        <4> QED
          BY <4>4, <4>5 DEF EntryHasItsCaller
      <3> QED
        BY <3>3, <3>4
    <2> QED
      BY <2>1, <2>2
  <1>2. CASE GetSelect(c) \/ GetTimesOut(c)
    <2>1. /\ \A e \in Callers : gpc'[e] = gpc[e] \/ (Holds(e) /\ gpc'[e] \in {"select", "timedOut"})
          /\ UNCHANGED <<call, target, calls, response>>
      BY <1>2 DEF GetSelect, GetTimesOut, TableInv, TypeOK, Holds
    <2>2. CallsDistinct'
      BY <2>1 DEF TableInv, CallsDistinct, Numbered, Holds
    <2>3. EntryHasItsCaller'
      BY <2>1 DEF TableInv, EntryHasItsCaller, Holds
    <2> QED
      BY <2>2, <2>3
  <1>3. CASE GetReturns(c)
    <2>1. /\ response' = [response EXCEPT ![target[c]] = NoCall]
          /\ gpc' = [gpc EXCEPT ![c] = "idle"]
          /\ call' = [call EXCEPT ![c] = NoCall]
          /\ UNCHANGED <<target, calls>> /\ Holds(c) /\ gpc[c] # "idle"
      BY <1>3 DEF GetReturns, Return, Holds
    <2>2. \A e \in Callers : e # c /\ Holds(e) => target[e] # target[c]
      <3> SUFFICES ASSUME NEW e \in Callers, e # c, Holds(e), target[e] = target[c]
                   PROVE  FALSE
        OBVIOUS
      <3>1. call[e] = call[c]
        BY <2>1 DEF TableInv, EntryHasItsCaller
      <3> QED
        BY <2>1, <3>1 DEF TableInv, CallsDistinct, Numbered, Holds
    <2>3. \A e \in Callers : e # c => gpc'[e] = gpc[e] /\ call'[e] = call[e]
      BY <2>1 DEF TableInv, TypeOK
    <2>4. gpc'[c] = "idle"
      BY <2>1 DEF TableInv, TypeOK
    <2>5. /\ response'[target[c]] = NoCall
          /\ \A d \in Devices : d # target[c] => response'[d] = response[d]
      BY <2>1 DEF TableInv, TypeOK
    <2>6. CallsDistinct'
      BY <2>1, <2>3, <2>4 DEF TableInv, CallsDistinct, Numbered
    <2>7. \A e \in Callers : Holds(e)' => e # c /\ Holds(e) /\ target[e] # target[c]
      BY <2>2, <2>3, <2>4 DEF Holds
    <2>8. \A e \in Callers : Holds(e)' => response'[target'[e]] = call'[e]
      BY <2>1, <2>3, <2>5, <2>7 DEF TableInv, TypeOK, EntryHasItsCaller
    <2>9. ASSUME NEW d \in Devices, response'[d] # NoCall
          PROVE  \E e \in Callers : Holds(e)' /\ target'[e] = d /\ call'[e] = response'[d]
      <3>1. d # target[c] /\ response'[d] = response[d]
        BY <2>5, <2>9
      <3>2. PICK e \in Callers : Holds(e) /\ target[e] = d /\ call[e] = response[d]
        BY <2>9, <3>1 DEF TableInv, EntryHasItsCaller
      <3>3. e # c
        BY <3>1, <3>2
      <3> QED
        BY <2>1, <2>3, <3>1, <3>2, <3>3 DEF Holds
    <2> QED
      BY <2>6, <2>8, <2>9 DEF EntryHasItsCaller
  <1> QED
    BY <1>1, <1>2, <1>3, PublishedTable DEF Get

\* Handing over an answer moves callers on but ends no call by itself.
LEMMA ProcessingTable ==
  ASSUME TableInv, NEW d \in Devices, Processing(d)
  PROVE  CallsDistinct' /\ EntryHasItsCaller'
  <1>1. CASE ResponseSend(d)
    <2>1. /\ \A c \in Callers : gpc'[c] = gpc[c] \/ (gpc[c] = "select" /\ gpc'[c] = "answered")
          /\ UNCHANGED <<call, target, calls, response>>
      BY <1>1 DEF ResponseSend
    <2> QED
      BY <2>1 DEF TableInv, CallsDistinct, Numbered, EntryHasItsCaller, Holds
  <1>2. CASE ~ResponseSend(d)
    <2>1. UNCHANGED <<gpc, call, target, calls, response>>
      BY <1>2 DEF Processing, Take, Stop, DeltaIgnored, DeltaCallback, CallbackReturns,
                  ResponseLoad, getVars
    <2> QED
      BY <2>1, TableFrame DEF TableInv
  <1> QED
    BY <1>1, <1>2

-----------------------------------------------------------------------------
\* Every step of the device context keeps the invariant.
LEMMA NextTable == TableInv /\ [Next]_vars => TableInv'
  <1> SUFFICES ASSUME TableInv, [Next]_vars PROVE TableInv'
    OBVIOUS
  <1>0. TypeOK /\ CallsDistinct /\ EntryHasItsCaller
    BY DEF TableInv
  <1>1. CASE \/ RegisterDeltaCallback \/ CloseClient \/ Close
             \/ \E d \in Devices : Start(d) \/ OnPublishDelta(d)
             \/ \E d \in Devices : \E r \in Calls : HandOver(d, r) \/ OnPublishAnswer(d, r)
    <2>1. TypeOK'
      BY <1>0, <1>1, ContextTypeStep
    <2>2. UNCHANGED <<gpc, call, target, calls, response>>
      BY <1>1 DEF RegisterDeltaCallback, CloseClient, Close, Start, OnPublishDelta,
                  HandOver, OnPublishAnswer, getVars
    <2> QED
      BY <1>0, <2>1, <2>2, TableFrame DEF TableInv
  <1>2. ASSUME NEW d \in Devices, Processing(d) PROVE TableInv'
    BY <1>0, <1>2, ProcessingTypeStep, ProcessingTable DEF TableInv
  <1>3. ASSUME NEW c \in Callers, NEW d \in Devices, GetPublish(c, d) PROVE TableInv'
    BY <1>0, <1>3, GetTypeStep, PublishTable DEF TableInv
  <1>4. ASSUME NEW c \in Callers, Get(c) PROVE TableInv'
    BY <1>0, <1>4, GetTypeStep, GetTable DEF TableInv
  <1>5. CASE UNCHANGED vars
    BY <1>5 DEF TableInv, TypeOK, CallsDistinct, Numbered, EntryHasItsCaller, Holds,
                vars, procVars, getVars, ctxVars
  <1> QED
    BY <1>1, <1>2, <1>3, <1>4, <1>5 DEF Next

-----------------------------------------------------------------------------
(* The answers                                                             *)

\* A step after which no answer is where it was not before.
LEMMA AnswerFrame ==
  ASSUME AnswerInv, calls \in Nat, calls' \in Nat, calls' >= calls,
         Out' \subseteq Out, open' \cap outbox' = {}, answered' = answered,
         \A d \in Devices : \A i \in Slots(d)' :
            msgCh'[d][i] = Delta \/ (i \in Slots(d) /\ msgCh'[d][i] = msgCh[d][i]),
         \A d \in Devices : Holding(d)' =>
            cur'[d] = Delta \/ (Holding(d) /\ cur'[d] = cur[d])
  PROVE  AnswerInv'
  <1>0. \A r \in Calls : r # Delta /\ r \in Nat
    BY ContextAssumption DEF Calls, Delta
  <1>1. \A r \in Calls : /\ AtBroker(r)' => AtBroker(r)
                         /\ Queued(r)' => Queued(r)
                         /\ InHand(r)' => InHand(r)
                         /\ Given(r)' <=> Given(r)
    BY <1>0 DEF AtBroker, Queued, InHand, Given
  <1>2. OnePlace'
    BY <1>1 DEF AnswerInv, OnePlace
  <1>3. Once'
    BY DEF AnswerInv, Once
  <1>4. Asked'
    BY <1>0, <1>1 DEF AnswerInv, Asked
  <1>5. AnswerEndsOneCall'
    BY DEF AnswerInv, AnswerEndsOneCall
  <1> QED
    BY <1>2, <1>3, <1>4, <1>5 DEF AnswerInv

\* What routing does to the slots of the channels.
LEMMA RouteSlots ==
  ASSUME TypeOK, NEW d \in Devices, NEW m \in Messages, Route(d, m)
  PROVE  \A e \in Devices : \A i \in Slots(e)' :
            \/ i \in Slots(e) /\ msgCh'[e][i] = msgCh[e][i]
            \/ e = d /\ i = Len(msgCh[d]) + 1 /\ msgCh'[e][i] = m
  <1>0. \A e \in Devices : msgCh[e] \in Seq(Messages)
    BY DEF TypeOK
  <1>1. CASE d \in started /\ Len(msgCh[d]) < ChannelSize
    <2>1. msgCh' = [msgCh EXCEPT ![d] = Append(@, m)]
      BY <1>1 DEF Route
    <2>2. msgCh'[d] = Append(msgCh[d], m)
      BY <2>1 DEF TypeOK
    <2>3. \A e \in Devices : e # d => msgCh'[e] = msgCh[e]
      BY <2>1 DEF TypeOK
    <2>4. /\ Len(msgCh'[d]) = Len(msgCh[d]) + 1
          /\ \A i \in 1 .. Len(msgCh[d]) : msgCh'[d][i] = msgCh[d][i]
          /\ msgCh'[d][Len(msgCh[d]) + 1] = m
      BY <1>0, <2>2
    <2>5. Len(msgCh[d]) \in Nat
      BY <1>0
    <2> QED
      BY <2>3, <2>4, <2>5 DEF Slots
  <1>2. CASE ~(d \in started /\ Len(msgCh[d]) < ChannelSize)
    BY <1>2 DEF Route, Slots
  <1> QED
    BY <1>1, <1>2

\* A request is new: nothing can answer it yet.
LEMMA PublishAnswers ==
  ASSUME TableInv, AnswerInv, NEW c \in Callers, GetPublished(c)
  PROVE  AnswerInv'
  <1>d. PICK d \in Devices : d = target[c]
    BY DEF TableInv, TypeOK
  <1>0. /\ calls \in Nat /\ calls' = calls + 1 /\ UNCHANGED <<msgCh, proc, cur, answered, open>>
        /\ outbox' = outbox \cup {<<d, calls + 1>>}
    BY <1>d DEF GetPublished, TableInv, TypeOK, procVars
  <1>1. \A r \in Calls : /\ AtBroker(r)' => AtBroker(r) \/ r = calls + 1
                         /\ Queued(r)' <=> Queued(r)
                         /\ InHand(r)' <=> InHand(r)
                         /\ Given(r)' <=> Given(r)
    BY <1>0 DEF AtBroker, Out, Queued, Slots, InHand, Holding, Given
  <1>2. \A r \in Calls : r \in Nat
    BY DEF Calls
  <1>3. \A r \in Calls : AtBroker(r) \/ Queued(r) \/ InHand(r) \/ Given(r) => r # calls + 1
    BY <1>0, <1>2 DEF AnswerInv, Asked
  <1>4. OnePlace'
    BY <1>1, <1>3 DEF AnswerInv, OnePlace
  <1>5. \A e \in Devices, r \in Calls : <<e, r>> \in Out' =>
          <<e, r>> \in Out \/ (e = d /\ r = calls + 1)
    BY <1>0 DEF Out
  <1>6. \A e \in Devices, r \in Calls : <<e, r>> \in Out => r # calls + 1
    BY <1>3 DEF AtBroker
  <1>7. open' \cap outbox' = {}
    <2>1. calls + 1 \in Calls
      BY <1>0, ContextAssumption DEF GetPublished, Calls
    <2>3. open \cap outbox = {}
      BY DEF AnswerInv, Once
    <2>2. <<d, calls + 1>> \notin open
      BY <1>6, <2>1 DEF Out
    <2> QED
      BY <1>0, <2>2, <2>3
  <1>8. Once'
    BY <1>0, <1>5, <1>6, <1>7 DEF AnswerInv, Once, Slots, Holding
  <1>9. Asked'
    BY <1>0, <1>1, <1>2 DEF AnswerInv, Asked
  <1>10. AnswerEndsOneCall'
    BY <1>0 DEF AnswerInv, AnswerEndsOneCall
  <1> QED
    BY <1>4, <1>8, <1>9, <1>10 DEF AnswerInv

\* The broker's answer goes from the broker to the channel, or away.
LEMMA OnPublishAnswers ==
  ASSUME TableInv, AnswerInv, NEW d \in Devices, NEW q \in Calls, OnPublishAnswer(d, q)
  PROVE  AnswerInv'
  <1>0. /\ UNCHANGED <<proc, cur, calls, answered>> /\ calls \in Nat
        /\ open' \cap outbox' = {} /\ <<d, q>> \in Out /\ Out' = Out \ {<<d, q>>}
    <2>1. /\ UNCHANGED <<proc, cur, calls, answered, outbox>> /\ calls \in Nat
          /\ open' = open \ {<<d, q>>} /\ <<d, q>> \in open
      BY DEF OnPublishAnswer, TableInv, TypeOK
    <2>2. open \cap outbox = {}
      BY DEF AnswerInv, Once
    <2> QED
      BY <2>1, <2>2 DEF Out
  <1>1. q \in Messages /\ \A r \in Calls : r # Delta /\ r \in Nat
    BY ContextAssumption DEF Calls, Messages, Delta
  <1>2. \A e \in Devices : \A i \in Slots(e)' :
            \/ i \in Slots(e) /\ msgCh'[e][i] = msgCh[e][i]
            \/ e = d /\ i = Len(msgCh[d]) + 1 /\ msgCh'[e][i] = q
    BY <1>1, RouteSlots DEF OnPublishAnswer, TableInv
  <1>3. AtBroker(q) /\ ~Queued(q) /\ ~InHand(q) /\ ~Given(q) /\ q <= calls
    BY <1>0 DEF AtBroker, AnswerInv, OnePlace, Asked
  <1>4. \A r \in Calls : /\ AtBroker(r)' => AtBroker(r)
                         /\ Queued(r)' => Queued(r) \/ r = q
                         /\ InHand(r)' <=> InHand(r)
                         /\ Given(r)' <=> Given(r)
    BY <1>0, <1>2 DEF AtBroker, Queued, InHand, Holding, Given
  <1>5. ~AtBroker(q)'
    BY <1>0 DEF AtBroker, AnswerInv, Once
  <1>6. OnePlace'
    BY <1>3, <1>4, <1>5 DEF AnswerInv, OnePlace
  <1>7. \A e \in Devices : \A i \in Slots(e) : msgCh[e][i] # q
    BY <1>3 DEF Queued
  <1>8. Once'
    <2>1. \A e, f \in Devices, r \in Calls : <<e, r>> \in Out' /\ <<f, r>> \in Out' => e = f
      BY <1>0 DEF AnswerInv, Once
    <2>2. \A e, f \in Devices : \A i \in Slots(e)', j \in Slots(f)' :
            msgCh'[e][i] # Delta /\ msgCh'[e][i] = msgCh'[f][j] => e = f /\ i = j
      BY <1>2, <1>7 DEF AnswerInv, Once
    <2> QED
      BY <1>0, <2>1, <2>2 DEF AnswerInv, Once, Holding
  <1>9. Asked'
    BY <1>0, <1>1, <1>3, <1>4 DEF AnswerInv, Asked
  <1>10. AnswerEndsOneCall'
    BY <1>0 DEF AnswerInv, AnswerEndsOneCall
  <1> QED
    BY <1>6, <1>8, <1>9, <1>10 DEF AnswerInv

\* A processing goroutine takes the first message of its channel into its hands.
LEMMA TakeAnswers ==
  ASSUME TableInv, AnswerInv, NEW d \in Devices, Take(d)
  PROVE  AnswerInv'
  <1>1. msgCh[d] \in Seq(Messages) /\ msgCh[d] # <<>>
    BY DEF Take, TableInv, TypeOK
  <1>m. PICK m \in Messages : m = Head(msgCh[d])
    BY <1>1
  <1>0. /\ UNCHANGED <<open, outbox, Out, calls, answered>> /\ calls \in Nat
        /\ \A e \in Devices : e # d => UNCHANGED <<proc[e], cur[e], msgCh[e]>>
        /\ msgCh'[d] = Tail(msgCh[d]) /\ cur'[d] = m /\ proc'[d] = "handle"
        /\ ~Holding(d)
    BY <1>m DEF Take, Goto, Holding, TableInv, TypeOK, getVars, Out
  <1>2. /\ 1 \in Slots(d) /\ m = msgCh[d][1]
        /\ \A i \in Slots(d)' : i + 1 \in Slots(d) /\ i + 1 # 1 /\ msgCh'[d][i] = msgCh[d][i + 1]
    BY <1>0, <1>1, <1>m DEF Slots
  <1>3. \A e \in Devices : e # d => Slots(e)' = Slots(e) /\ (Holding(e)' <=> Holding(e))
    BY <1>0 DEF Slots, Holding
  <1>4. \A r \in Calls : r # Delta /\ r \in Nat
    BY ContextAssumption DEF Calls, Delta
  <1>5. \A r \in Calls : /\ AtBroker(r)' <=> AtBroker(r)
                         /\ Queued(r)' => Queued(r)
                         /\ InHand(r)' => InHand(r) \/ r = m
                         /\ Given(r)' <=> Given(r)
    <2>1. \A r \in Calls : (AtBroker(r)' <=> AtBroker(r)) /\ (Given(r)' <=> Given(r))
      BY <1>0 DEF AtBroker, Given
    <2>2. \A r \in Calls : Queued(r)' => Queued(r)
      <3> SUFFICES ASSUME NEW r \in Calls, NEW e \in Devices, NEW i \in Slots(e)', msgCh'[e][i] = r
                   PROVE  \E j \in Slots(e) : msgCh[e][j] = r
        BY DEF Queued
      <3>1. CASE e = d
        BY <1>2, <3>1
      <3>2. CASE e # d
        BY <1>0, <1>3, <3>2
      <3> QED
        BY <3>1, <3>2
    <2>3. \A r \in Calls : InHand(r)' => InHand(r) \/ r = m
      BY <1>0, <1>3 DEF InHand
    <2> QED
      BY <2>1, <2>2, <2>3
  <1>6. m \in Calls => Queued(m) /\ ~Queued(m)' /\ ~InHand(m) /\ ~AtBroker(m) /\ ~Given(m)
    <2> SUFFICES ASSUME m \in Calls
                 PROVE  Queued(m) /\ ~Queued(m)' /\ ~InHand(m) /\ ~AtBroker(m) /\ ~Given(m)
      OBVIOUS
    <2>1. Queued(m)
      BY <1>2 DEF Queued
    <2>2. ASSUME NEW e \in Devices, NEW i \in Slots(e)', msgCh'[e][i] = m PROVE FALSE
      <3>1. CASE e = d
        BY <1>2, <1>4, <2>2, <3>1 DEF AnswerInv, Once
      <3>2. CASE e # d
        BY <1>0, <1>2, <1>3, <1>4, <2>2, <3>2 DEF AnswerInv, Once
      <3> QED
        BY <3>1, <3>2
    <2>3. ~Queued(m)'
      BY <2>2 DEF Queued
    <2> QED
      BY <2>1, <2>3 DEF AnswerInv, OnePlace
  <1>7. OnePlace'
    BY <1>5, <1>6 DEF AnswerInv, OnePlace
  <1>8. m = Delta \/ m \in Calls
    BY ContextAssumption DEF Messages, Delta, Calls
  <1>9. Once'
    <2>1. \A e, f \in Devices, r \in Calls : <<e, r>> \in Out' /\ <<f, r>> \in Out' => e = f
      BY <1>0 DEF AnswerInv, Once
    <2>2. ASSUME NEW e \in Devices, NEW f \in Devices, NEW i \in Slots(e)', NEW j \in Slots(f)',
                 msgCh'[e][i] # Delta, msgCh'[e][i] = msgCh'[f][j]
          PROVE  e = f /\ i = j
      <3>1. i \in Nat /\ j \in Nat
        BY DEF Slots
      <3>2. CASE e = d /\ f = d
        BY <1>2, <2>2, <3>1, <3>2 DEF AnswerInv, Once
      <3>3. CASE e # d /\ f = d
        <4>1. j + 1 \in Slots(d) /\ msgCh'[d][j] = msgCh[d][j + 1]
          BY <1>2, <3>3
        <4>2. i \in Slots(e) /\ msgCh'[e][i] = msgCh[e][i]
          BY <1>0, <1>3, <3>3
        <4> QED
          BY <2>2, <3>3, <4>1, <4>2 DEF AnswerInv, Once
      <3>4. CASE e = d /\ f # d
        <4>1. i + 1 \in Slots(d) /\ msgCh'[d][i] = msgCh[d][i + 1]
          BY <1>2, <3>4
        <4>2. j \in Slots(f) /\ msgCh'[f][j] = msgCh[f][j]
          BY <1>0, <1>3, <3>4
        <4> QED
          BY <2>2, <3>4, <4>1, <4>2 DEF AnswerInv, Once
      <3>5. CASE e # d /\ f # d
        BY <1>0, <1>3, <2>2, <3>5 DEF AnswerInv, Once
      <3> QED
        BY <3>2, <3>3, <3>4, <3>5
    <2>3. \A e, f \in Devices :
            Holding(e)' /\ Holding(f)' /\ cur'[e] # Delta /\ cur'[e] = cur'[f] => e = f
      BY <1>0, <1>3, <1>6, <1>8 DEF AnswerInv, Once, InHand
    <2> QED
      BY <1>0, <2>1, <2>2, <2>3 DEF AnswerInv, Once
  <1>10. Asked'
    BY <1>0, <1>5, <1>6 DEF AnswerInv, Asked
  <1>11. AnswerEndsOneCall'
    BY <1>0 DEF AnswerInv, AnswerEndsOneCall
  <1> QED
    BY <1>7, <1>9, <1>10, <1>11 DEF AnswerInv

\* The answer leaves the hands, and at most the call whose channel was loaded gets it.
LEMMA SendAnswers ==
  ASSUME TableInv, AnswerInv, NEW d \in Devices, ResponseSend(d)
  PROVE  AnswerInv'
  <1>m. PICK m \in Messages : m = cur[d]
    BY DEF TableInv, TypeOK
  <1>0. /\ UNCHANGED <<open, outbox, Out, calls, msgCh, cur>> /\ calls \in Nat
        /\ \A e \in Devices : e # d => (Holding(e)' <=> Holding(e))
        /\ Holding(d) /\ ~Holding(d)'
    BY DEF ResponseSend, Goto, Holding, TableInv, TypeOK, Out
  <1>1. \A q \in Calls : answered'[q] = answered[q] \/ (q = ch[d] /\ answered'[q] = m)
    BY <1>m DEF ResponseSend, TableInv, TypeOK
  <1>2. \A r \in Calls : r # NoCall /\ r \in Nat
    BY ContextAssumption DEF Calls, NoCall
  <1>3. \A r \in Calls : /\ AtBroker(r)' <=> AtBroker(r)
                         /\ Queued(r)' <=> Queued(r)
                         /\ InHand(r)' => InHand(r)
                         /\ Given(r)' => Given(r) \/ (r = m /\ InHand(r))
    BY <1>0, <1>1, <1>m DEF AtBroker, Queued, Slots, InHand, Given
  <1>4. m = NoCall \/ m \in Calls
    BY ContextAssumption DEF Messages, NoCall, Calls
  <1>5. m \in Calls => ~InHand(m)' /\ ~Given(m)
    <2>1. m \in Calls => InHand(m)
      BY <1>0, <1>m DEF InHand
    <2>2. m \in Calls => ~InHand(m)'
      BY <1>0, <1>2, <1>m DEF InHand, AnswerInv, Once, NoCall, Delta
    <2> QED
      BY <2>1, <2>2 DEF AnswerInv, OnePlace
  <1>6. OnePlace'
    BY <1>3, <1>5 DEF AnswerInv, OnePlace
  <1>7. Once'
    BY <1>0 DEF AnswerInv, Once, Slots
  <1>8. Asked'
    BY <1>0, <1>3 DEF AnswerInv, Asked
  <1>9. AnswerEndsOneCall'
    <2> SUFFICES ASSUME NEW r \in Calls, NEW q \in Calls, r # q, answered'[r] # NoCall,
                        answered'[r] = answered'[q]
                 PROVE  FALSE
      BY DEF AnswerEndsOneCall
    <2>1. CASE answered'[r] = answered[r] /\ answered'[q] = answered[q]
      BY <2>1 DEF AnswerInv, AnswerEndsOneCall
    <2>2. CASE r = ch[d] /\ answered'[r] = m
      BY <1>1, <1>4, <1>5, <2>2 DEF Given
    <2>3. CASE q = ch[d] /\ answered'[q] = m
      BY <1>1, <1>4, <1>5, <2>3 DEF Given
    <2> QED
      BY <1>1, <2>1, <2>2, <2>3
  <1> QED
    BY <1>6, <1>7, <1>8, <1>9 DEF AnswerInv

\* Every step of the device context keeps what is said of the answers.
LEMMA NextAnswers == TableInv /\ AnswerInv /\ [Next]_vars => AnswerInv'
  <1> SUFFICES ASSUME TableInv, AnswerInv, [Next]_vars PROVE AnswerInv'
    OBVIOUS
  <1>0. calls \in Nat
    BY DEF TableInv, TypeOK
  <1>1. ASSUME UNCHANGED <<calls, msgCh, answered>>, Out' \subseteq Out, open' \cap outbox' = {},
               \A d \in Devices : Holding(d)' => Holding(d) /\ cur'[d] = cur[d]
        PROVE  AnswerInv'
    <2>1. \A d \in Devices : \A i \in Slots(d)' : i \in Slots(d) /\ msgCh'[d][i] = msgCh[d][i]
      BY <1>1 DEF Slots
    <2> QED
      BY <1>0, <1>1, <2>1, AnswerFrame
  <1>u. ASSUME UNCHANGED <<open, outbox>> PROVE Out' \subseteq Out /\ open' \cap outbox' = {}
    BY <1>u DEF Out, AnswerInv, Once
  <1>2. CASE RegisterDeltaCallback \/ CloseClient \/ Close \/ UNCHANGED vars
    BY <1>1, <1>u, <1>2 DEF RegisterDeltaCallback, CloseClient, Close, vars, procVars, getVars, Holding
  <1>3. ASSUME NEW d \in Devices, Start(d) PROVE AnswerInv'
    BY <1>1, <1>u, <1>3 DEF Start, getVars, Holding, TableInv, TypeOK
  <1>4. ASSUME NEW d \in Devices, OnPublishDelta(d) PROVE AnswerInv'
    <2>1. Delta \in Messages
      BY ContextAssumption DEF Delta, Messages
    <2>2. \A e \in Devices : \A i \in Slots(e)' :
            msgCh'[e][i] = Delta \/ (i \in Slots(e) /\ msgCh'[e][i] = msgCh[e][i])
      BY <1>4, <2>1, RouteSlots DEF OnPublishDelta, TableInv
    <2>3. UNCHANGED <<open, outbox, calls, proc, cur, answered>>
      BY <1>4 DEF OnPublishDelta, getVars
    <2> QED
      BY <1>0, <1>u, <2>2, <2>3, AnswerFrame DEF Holding
  <1>5. ASSUME NEW d \in Devices, Processing(d) PROVE AnswerInv'
    <2>1. CASE Take(d)
      BY <2>1, TakeAnswers
    <2>2. CASE ResponseSend(d)
      BY <2>2, SendAnswers
    <2>3. CASE Stop(d) \/ DeltaIgnored(d) \/ DeltaCallback(d) \/ CallbackReturns(d) \/ ResponseLoad(d)
      BY <1>1, <1>u, <2>3 DEF Stop, DeltaIgnored, DeltaCallback, CallbackReturns, ResponseLoad, Goto,
                        getVars, Holding, TableInv, TypeOK
    <2> QED
      BY <1>5, <2>1, <2>2, <2>3 DEF Processing
  <1>6. ASSUME NEW d \in Devices, NEW r \in Calls, OnPublishAnswer(d, r) PROVE AnswerInv'
    BY <1>6, OnPublishAnswers
  <1>7. ASSUME NEW c \in Callers, NEW d \in Devices, GetPublish(c, d) PROVE AnswerInv'
    BY <1>1, <1>u, <1>7 DEF GetPublish, procVars, Holding
  <1>8. ASSUME NEW c \in Callers, Get(c), ~GetPublished(c) PROVE AnswerInv'
    BY <1>1, <1>u, <1>8 DEF Get, GetRefused, GetRegister, Return, GetSelect, GetTimesOut,
                            GetReturns, procVars, Holding
  <1>9. ASSUME NEW c \in Callers, GetPublished(c) PROVE AnswerInv'
    BY <1>9, PublishAnswers
  <1>10. ASSUME NEW d \in Devices, NEW r \in Calls, HandOver(d, r) PROVE AnswerInv'
    <2>1. Out' = Out /\ open' \cap outbox' = {}
      BY <1>10 DEF HandOver, Out, AnswerInv, Once
    <2> QED
      BY <1>1, <1>10, <2>1 DEF HandOver, procVars, Holding
  <1> QED
    BY <1>2, <1>3, <1>4, <1>5, <1>6, <1>7, <1>8, <1>9, <1>10 DEF Next

\* Every variable of the device context keeps its type, and no device's channel holds
\* more than its capacity, for any devices, clients, capacity and bounds.
THEOREM ContextTypeCorrect == Spec => []TypeOK
  <1>1. TableInv => TypeOK
    BY DEF TableInv
  <1> QED
    BY InitTable, NextTable, <1>1, PTL DEF Spec

\* The response table has an entry for a device exactly while one call waits for it, and
\* it is that call's channel: no call deletes or overwrites the channel of another,
\* however calls, answers and timeouts interleave.
THEOREM ContextTableSound == Spec => []EntryHasItsCaller
  <1>1. TableInv => EntryHasItsCaller
    BY DEF TableInv
  <1> QED
    BY InitTable, NextTable, <1>1, PTL DEF Spec

\* No answer ends two calls, for any number of devices, calls and answers that come early,
\* late or in any order: an answer is still to come, in a channel, in a goroutine's hands or
\* at the call that got it, in one of these places and once.
THEOREM ContextAnswersOnce == Spec => []AnswerEndsOneCall
  <1>1. Init => AnswerInv
    BY ContextAssumption DEF Init, AnswerInv, OnePlace, Once, Asked, AnswerEndsOneCall, AtBroker, Out, Queued,
                             Slots, InHand, Holding, Given, Calls, NoCall
  <1>2. AnswerInv => AnswerEndsOneCall
    BY DEF AnswerInv
  <1> QED
    BY InitTable, NextTable, NextAnswers, <1>1, <1>2, PTL DEF Spec

-----------------------------------------------------------------------------
(* The values of properties.  A number that was converted to an integer    *)
(* type is in the type's range, where another conversion changes nothing;  *)
(* one that was rounded is a float, which is the nearest to itself.  That  *)
(* gives both that formatting is done once and that what a delta's number  *)
(* was turned into stays as it is.                                         *)

\* The low bits of a number are in the type's range, and those of a number in it are the number.
LEMMA WrapRange ==
  ASSUME NEW type \in IntTypes, NEW n \in Int
  PROVE  /\ Limit[type] \in Nat /\ Limit[type] > 1
         /\ Wrap(type, n) \in Int /\ InRange(type, Wrap(type, n))
         /\ InRange(type, n) => Wrap(type, n) = n
  <1> DEFINE L == Limit[type]
  <1>1. L \in Nat /\ L > 1
    BY FormatAssumption
  <1> HIDE DEF L
  <1>2. (n + L) % (2 * L) \in 0 .. 2 * L - 1
    BY <1>1
  <1>3. n + L \in 0 .. 2 * L - 1 => (n + L) % (2 * L) = n + L
    BY <1>1
  <1>4. Wrap(type, n) = ((n + L) % (2 * L)) - L /\ (InRange(type, n) <=> -L <= n /\ n < L)
    BY DEF Wrap, InRange, L
  <1>5. Wrap(type, n) \in Int /\ -L <= Wrap(type, n) /\ Wrap(type, n) < L
    BY <1>1, <1>2, <1>4
  <1>6. InRange(type, n) => Wrap(type, n) = n
    BY <1>1, <1>3, <1>4
  <1> QED
    BY <1>1, <1>5, <1>6 DEF InRange, L

\* Cutting a number gives a whole one, and a whole one is not changed.
LEMMA TruncWhole ==
  ASSUME NEW q \in Rationals
  PROVE  Trunc(q) \in Int /\ (Whole(q) => Trunc(q) = q[1] /\ q = Rat(q[1]))
  <1>1. q[1] \in Int /\ q[2] \in Nat \ {0} /\ q = <<q[1], q[2]>>
    BY DEF Rationals
  <1>2. \A n \in Nat, d \in Nat \ {0} : n \div d \in Int
    OBVIOUS
  <1>3. Trunc(q) \in Int
    BY <1>1, <1>2 DEF Trunc
  <1>4. ASSUME Whole(q) PROVE Trunc(q) = q[1] /\ q = Rat(q[1])
    BY <1>1, <1>4 DEF Whole, Trunc, Rat
  <1> QED
    BY <1>3, <1>4

\* A fraction in lowest form, if it is whole, is the same number.
LEMMA LowestSame ==
  ASSUME NEW q \in Rationals
  PROVE  /\ Lowest(q) \in Rationals /\ Same(Lowest(q), q)
         /\ Whole(q) => Lowest(q) = q
  <1>1. q[1] \in Int /\ q[2] \in Nat \ {0} /\ q = <<q[1], q[2]>>
    BY DEF Rationals
  <1>2. \A n \in Int, d \in Nat \ {0} : n \div d \in Int /\ (n % d = 0 => (n \div d) * d = n)
    OBVIOUS
  <1>3. Lowest(q) \in Rationals /\ Same(Lowest(q), q)
    <2>1. CASE q[1] % q[2] = 0
      <3> DEFINE m == q[1] \div q[2]
      <3>1. Lowest(q) = <<m, 1>>
        BY <2>1 DEF Lowest, Rat
      <3>2. m \in Int /\ m * q[2] = q[1]
        BY <1>1, <1>2, <2>1
      <3> HIDE DEF m
      <3> QED
        BY <1>1, <3>1, <3>2 DEF Same, Rationals
    <2>2. CASE q[1] % q[2] # 0
      BY <1>1, <2>2 DEF Lowest, Same
    <2> QED
      BY <2>1, <2>2
  <1>4. ASSUME Whole(q) PROVE Lowest(q) = q
    BY <1>1, <1>4 DEF Whole, Lowest, Rat
  <1> QED
    BY <1>3, <1>4

\* A set of naturals has a least one.
LEMMA LeastOf ==
  ASSUME NEW S \in SUBSET Nat, S # {}
  PROVE  \E n \in S : \A m \in S : n <= m
  <1> DEFINE R == OpToRel(<, Nat)
  <1>1. \E x \in S : \A y \in S : ~(<<y, x>> \in R)
    BY NatLessThanWellFounded, WFMin, Zenon
  <1>2. \A x, y \in Nat : x < y => <<x, y>> \in R
    BY DEF OpToRel
  <1> HIDE DEF R
  <1>3. PICK x \in S : \A y \in S : ~(<<y, x>> \in R)
    BY <1>1
  <1>4. \A y \in S : ~(y < x)
    BY <1>2, <1>3
  <1> QED
    BY <1>4

\* Products by a positive number keep the order.
LEMMA Cancel ==
  ASSUME NEW a \in Int, NEW b \in Int, NEW c \in Nat \ {0}
  PROVE  /\ a * c \in Int
         /\ a * c = b * c => a = b
         /\ a < b => a * c < b * c
  OBVIOUS

\* What FloatAssumption and FormatAssumption say of one float type.
LEMMA FloatType ==
  ASSUME NEW type \in FloatTypes
  PROVE  /\ Unit \in Nat \ {0} /\ Limit[type] \in Nat \ {0, 1}
         /\ Floats[type] \subseteq Int
         /\ \A f \in Floats[type] : -Limit[type] * Unit <= f /\ f <= Limit[type] * Unit
         /\ 0 \in Floats[type] /\ Unit \in Floats[type]
         /\ Limit[type] * Unit \in Floats[type] /\ -Limit[type] * Unit \in Floats[type]
  <1>1. Unit \in Nat \ {0} /\ Limit[type] \in Nat \ {0, 1}
    BY FormatAssumption, FloatAssumption
  <1> DEFINE L == Limit[type] * Unit
  <1>2. L \in Int /\ -Limit[type] * Unit = -L
    BY <1>1
  <1>3. Floats[type] \subseteq -L .. L /\ {-L, 0, Unit, L} \subseteq Floats[type]
    BY <1>2, FloatAssumption
  <1> HIDE DEF L
  <1>4. Floats[type] \subseteq Int /\ \A f \in Floats[type] : -L <= f /\ f <= L
    BY <1>2, <1>3
  <1> QED
    BY <1>1, <1>2, <1>3, <1>4 DEF L

\* A distance is a natural number, and zero at the number itself.
LEMMA DistanceNat ==
  ASSUME NEW q \in Rationals, NEW f \in Int, Unit \in Nat \ {0}
  PROVE  /\ Distance(q, f) \in Nat
         /\ Distance(q, f) = 0 <=> q[1] * Unit = f * q[2]
         /\ q[1] \in Int /\ q[2] \in Nat \ {0} /\ q[1] * Unit \in Int /\ f * q[2] \in Int
  <1>1. q[1] \in Int /\ q[2] \in Nat \ {0}
    BY DEF Rationals
  <1>2. q[1] * Unit \in Int /\ f * q[2] \in Int
    BY <1>1
  <1> QED
    BY <1>1, <1>2 DEF Distance, Abs

\* There is a nearest float.
LEMMA NearestIs ==
  ASSUME NEW type \in FloatTypes, NEW q \in Rationals
  PROVE  /\ Nearest(type, q) \in Floats[type] /\ Nearest(type, q) \in Int
         /\ \A g \in Floats[type] : Distance(q, Nearest(type, q)) <= Distance(q, g)
  <1> DEFINE D == {Distance(q, f) : f \in Floats[type]}
  <1>1. D \in SUBSET Nat /\ D # {}
    BY FloatType, DistanceNat
  <1>2. PICK n \in D : \A m \in D : n <= m
    BY <1>1, LeastOf
  <1>3. PICK f \in Floats[type] : n = Distance(q, f)
    BY <1>2
  <1>4. \A g \in Floats[type] : Distance(q, f) <= Distance(q, g)
    BY <1>2, <1>3
  <1> QED
    BY <1>3, <1>4, FloatType DEF Nearest

\* A number that the type has is not changed by rounding.
LEMMA NearestSame ==
  ASSUME NEW type \in FloatTypes, NEW q \in Rationals, NEW f \in Floats[type], Same(q, <<f, Unit>>)
  PROVE  Nearest(type, q) = f
  <1> DEFINE n == Nearest(type, q)
  <1>1. n \in Int /\ Distance(q, n) <= Distance(q, f)
    BY NearestIs
  <1> HIDE DEF n
  <1>2. f \in Int /\ Unit \in Nat \ {0}
    BY FloatType
  <1>3. q[1] * Unit = f * q[2]
    BY DEF Same
  <1>4. Distance(q, f) = 0
    BY <1>2, <1>3, DistanceNat
  <1>5. Distance(q, n) \in Nat /\ (Distance(q, n) = 0 <=> q[1] * Unit = n * q[2]) /\ q[2] \in Nat \ {0}
    BY <1>1, <1>2, DistanceNat
  <1>6. n * q[2] = f * q[2]
    BY <1>1, <1>3, <1>4, <1>5
  <1>7. n = f
    BY <1>1, <1>2, <1>5, <1>6, Cancel
  <1> QED
    BY <1>7 DEF n

\* So rounding is done once.
LEMMA RoundAgain ==
  ASSUME NEW type \in FloatTypes, NEW q \in Rationals
  PROVE  /\ Round(type, q) \in Rationals /\ Same(Round(type, q), <<Nearest(type, q), Unit>>)
         /\ Round(type, Round(type, q)) = Round(type, q)
  <1> DEFINE n == Nearest(type, q)
             r == Round(type, q)
  <1>1. n \in Floats[type] /\ n \in Int /\ Unit \in Nat \ {0}
    BY NearestIs, FloatType
  <1>2. r = Lowest(<<n, Unit>>)
    BY DEF Round
  <1>3. <<n, Unit>> \in Rationals
    BY <1>1 DEF Rationals
  <1> HIDE DEF n, r
  <1>4. r \in Rationals /\ Same(r, <<n, Unit>>)
    BY <1>2, <1>3, LowestSame
  <1>5. Nearest(type, r) = n
    BY <1>1, <1>4, NearestSame
  <1>6. Round(type, r) = r
    BY <1>2, <1>5 DEF Round
  <1> QED
    BY <1>4, <1>6 DEF n, r

\* A whole number that the type has.
LEMMA RoundWhole ==
  ASSUME NEW type \in FloatTypes, NEW n \in Int, n * Unit \in Floats[type]
  PROVE  /\ Rat(n) \in Rationals /\ Round(type, Rat(n)) = Rat(n)
         /\ \A q \in Rationals : Nearest(type, q) = n * Unit => Round(type, q) = Rat(n)
  <1>1. Unit \in Nat \ {0}
    BY FloatType
  <1>2. (n * Unit) % Unit = 0 /\ (n * Unit) \div Unit = n
    BY <1>1
  <1>3. Lowest(<<n * Unit, Unit>>) = Rat(n)
    BY <1>2 DEF Lowest
  <1>4. Rat(n) \in Rationals /\ Same(Rat(n), <<n * Unit, Unit>>)
    BY <1>1 DEF Rat, Rationals, Same
  <1>5. Nearest(type, Rat(n)) = n * Unit
    BY <1>4, NearestSame
  <1> QED
    BY <1>3, <1>4, <1>5 DEF Round

\* ParseFloat: a finite number that is nearest, or the number is beyond all of them.
LEMMA ParsedFloat ==
  ASSUME NEW type \in FloatTypes, NEW q \in Rationals
  PROVE  /\ Ok(ParseFloat(type, q)) =>
                /\ ParseFloat(type, q) = Value(type, Round(type, q))
                /\ Abs(Nearest(type, q)) # Limit[type] * Unit
         /\ ~Ok(ParseFloat(type, q)) => Beyond(type, q)
  <1> DEFINE n == Nearest(type, q)
             L == Limit[type] * Unit
             inf == {Rat(-Limit[type]), Rat(Limit[type])}
  <1>1. /\ Unit \in Nat \ {0} /\ Limit[type] \in Nat \ {0, 1} /\ L \in Nat /\ -Limit[type] * Unit = -L
        /\ n \in Int /\ -L <= n /\ n <= L /\ L \in Floats[type] /\ -L \in Floats[type]
    BY FloatType, NearestIs
  <1>2. Ok(Value(type, Round(type, q))) /\ ~Ok(Error)
    BY DEF Ok, Value, Error, FloatTypes
  <1>3. ASSUME Abs(n) = L PROVE Round(type, q) \in inf
    <2>1. n = L \/ n = -L
      BY <1>1, <1>3 DEF Abs
    <2>2. CASE n = L
      BY <1>1, <2>2, RoundWhole
    <2>3. CASE n = -L
      <3>1. -Limit[type] \in Int
        BY <1>1
      <3> QED
        BY <1>1, <2>3, <3>1, RoundWhole
    <2> QED
      BY <2>1, <2>2, <2>3
  <1>4. ASSUME Round(type, q) \in inf PROVE n = L \/ n = -L
    <2>1. Same(Round(type, q), <<n, Unit>>)
      BY RoundAgain
    <2>2. PICK l \in {Limit[type], -Limit[type]} : Round(type, q) = <<l, 1>>
      BY <1>4 DEF Rat
    <2>3. l * Unit = n * 1
      BY <2>1, <2>2 DEF Same
    <2> QED
      BY <1>1, <2>2, <2>3
  <1>5. ASSUME n = L \/ n = -L PROVE Beyond(type, q)
    <2> DEFINE finite == Floats[type] \ {-Limit[type] * Unit, L}
    <2>1. \A f \in finite : f \in Int /\ -L < f /\ f < L
      BY <1>1, FloatType
    <2>2. q[1] * Unit \in Int /\ q[2] \in Nat \ {0} /\ L * q[2] \in Int /\ (-L) * q[2] \in Int
      BY <1>1, DistanceNat
    <2>3. ASSUME NEW f \in finite
          PROVE  /\ f * q[2] \in Int /\ f * q[2] < L * q[2] /\ (-L) * q[2] < f * q[2]
                 /\ Distance(q, n) <= Distance(q, f)
      <3>1. f \in Int /\ -L < f /\ f < L /\ f \in Floats[type]
        BY <2>1
      <3>2. f * q[2] \in Int /\ f * q[2] < L * q[2]
        BY <1>1, <2>2, <3>1, Cancel
      <3>3. (-L) * q[2] < f * q[2]
        <4>1. -L \in Int
          BY <1>1
        <4> QED
          BY <4>1, <2>2, <3>1, Cancel
      <3> QED
        BY <3>1, <3>2, <3>3, NearestIs
    <2>4. CASE n = L
      <3>1. ASSUME NEW f \in finite PROVE f * q[2] < q[1] * Unit
        <4>1. Abs(q[1] * Unit - L * q[2]) <= Abs(q[1] * Unit - f * q[2])
          BY <2>3, <2>4 DEF Distance
        <4> QED
          BY <2>2, <2>3, <4>1 DEF Abs
      <3> QED
        BY <3>1 DEF Beyond
    <2>5. CASE n = -L
      <3>1. ASSUME NEW f \in finite PROVE f * q[2] > q[1] * Unit
        <4>1. Abs(q[1] * Unit - (-L) * q[2]) <= Abs(q[1] * Unit - f * q[2])
          BY <2>3, <2>5 DEF Distance
        <4> QED
          BY <2>2, <2>3, <4>1 DEF Abs
      <3> QED
        BY <3>1 DEF Beyond
    <2> QED
      BY <1>5, <2>4, <2>5
  <1>6. ParseFloat(type, q) = IF Round(type, q) \in inf THEN Error ELSE Value(type, Round(type, q))
    BY DEF ParseFloat
  <1> QED
    BY <1>2, <1>3, <1>4, <1>5, <1>6

\* A number that is formatted is of the type, and is not changed when it is again.
LEMMA NumberAgain ==
  ASSUME NEW type, Numeric(type), NEW x, Scalar(x), Ok(ToNumberE(type, x))
  PROVE  /\ ToNumberE(type, x).type = type
         /\ ToNumberE(type, ToNumberE(type, x)) = ToNumberE(type, x)
  <1>0. ASSUME NEW y, Numeric(y.type)
        PROVE  ToNumberE(type, y) = Number(type, y.v)
    BY <1>0 DEF ToNumberE, Numeric, IntTypes, FloatTypes
  <1>1. ASSUME NEW q \in Rationals
        PROVE  Number(type, q).type = type /\ ToNumberE(type, Number(type, q)) = Number(type, q)
    <2>1. CASE type \in IntTypes
      <3> DEFINE w == Wrap(type, Trunc(q))
      <3>1. w \in Int /\ InRange(type, w) /\ Wrap(type, w) = w
        BY <2>1, TruncWhole, WrapRange
      <3>2. Number(type, q) = Value(type, Rat(w))
        BY <2>1 DEF Number
      <3> HIDE DEF w
      <3>3. Rat(w) \in Rationals /\ Whole(Rat(w)) /\ Rat(w)[1] = w
        BY <3>1 DEF Rat, Rationals, Whole
      <3>4. Trunc(Rat(w)) = w
        BY <3>3, TruncWhole
      <3>5. Number(type, Rat(w)) = Value(type, Rat(w))
        BY <2>1, <3>1, <3>4 DEF Number
      <3>6. ToNumberE(type, Value(type, Rat(w))) = Number(type, Rat(w))
        BY <1>0 DEF Value
      <3> QED
        BY <3>2, <3>5, <3>6 DEF Value
    <2>2. CASE type \notin IntTypes
      <3> DEFINE r == Round(type, q)
      <3>1. Number(type, q) = Value(type, r) /\ Number(type, r) = Value(type, Round(type, r))
        BY <2>2 DEF Number
      <3>2. Round(type, r) = r
        BY <2>2, RoundAgain DEF Numeric
      <3> HIDE DEF r
      <3>3. ToNumberE(type, Value(type, r)) = Number(type, r)
        BY <1>0 DEF Value
      <3> QED
        BY <3>1, <3>2, <3>3 DEF Value
    <2> QED
      BY <2>1, <2>2
  <1>2. ASSUME NEW b \in {0, 1}
        PROVE  ToNumberE(type, Value(type, Rat(b))) = Value(type, Rat(b))
    <2>1. Rat(b) \in Rationals /\ Whole(Rat(b)) /\ Rat(b)[1] = b
      BY DEF Rat, Rationals, Whole
    <2>2. ToNumberE(type, Value(type, Rat(b))) = Number(type, Rat(b))
      BY <1>0 DEF Value
    <2>3. Trunc(Rat(b)) = b
      BY <2>1, TruncWhole
    <2>4. type \in IntTypes => Wrap(type, b) = b
      <3>1. ASSUME type \in IntTypes PROVE InRange(type, b)
        BY <3>1, FormatAssumption DEF InRange
      <3> QED
        BY <3>1, WrapRange
    <2>5. type \notin IntTypes => Round(type, Rat(b)) = Rat(b)
      <3>1. ASSUME type \in FloatTypes PROVE b * Unit \in Floats[type]
        BY <3>1, FloatType
      <3> QED
        BY <3>1, RoundWhole DEF Numeric
    <2> QED
      BY <2>2, <2>3, <2>4, <2>5 DEF Number
  <1>3. CASE Numeric(x.type)
    <2>1. ToNumberE(type, x) = Number(type, x.v) /\ x.v \in Rationals
      BY <1>0, <1>3 DEF Scalar
    <2> QED
      BY <1>1, <2>1
  <1>4. CASE x.type = "string"
    <2>1. x.v[1] = "digits"
      BY <1>4 DEF ToNumberE, Ok, Error, Value, Numeric, IntTypes, FloatTypes
    <2>2. x.v[2] \in Rationals
      BY <1>4, <2>1 DEF Scalar
    <2>3. ToNumberE(type, x) = Number(type, x.v[2])
      <3>1. CASE type \in FloatTypes
        <4>1. ToNumberE(type, x) = ParseFloat(type, x.v[2])
          BY <1>4, <2>1, <3>1 DEF ToNumberE, Numeric, IntTypes, FloatTypes
        <4>2. ParseFloat(type, x.v[2]) = Value(type, Round(type, x.v[2]))
          BY <2>2, <3>1, <4>1, ParsedFloat
        <4> QED
          BY <3>1, <4>1, <4>2 DEF Number, IntTypes, FloatTypes
      <3>2. CASE type \notin FloatTypes
        BY <1>4, <3>2 DEF ToNumberE, Ok, Error, Value, Numeric, IntTypes, FloatTypes
      <3> QED
        BY <3>1, <3>2
    <2> QED
      BY <1>1, <2>2, <2>3
  <1>5. CASE x.type = "bool"
    <2>1. \E b \in {0, 1} : ToNumberE(type, x) = Value(type, Rat(b))
      BY <1>5 DEF ToNumberE, Numeric, IntTypes, FloatTypes
    <2> QED
      BY <1>2, <2>1 DEF Value
  <1>6. CASE x.type = "nil"
    <2>1. ToNumberE(type, x) = Value(type, Rat(0))
      BY <1>6 DEF ToNumberE, Numeric, IntTypes, FloatTypes
    <2> QED
      BY <1>2, <2>1 DEF Value
  <1>7. CASE ~Numeric(x.type) /\ x.type \notin {"string", "bool", "nil"}
    <2>1. ToNumberE(type, x) = Error
      BY <1>7 DEF ToNumberE
    <2> QED
      BY <2>1 DEF Ok, Error, Value
  <1> QED
    BY <1>3, <1>4, <1>5, <1>6, <1>7

\* A date or time that is formatted is one of the format, which parses again.
LEMMA TimeAgain ==
  ASSUME NEW x, NEW format, format # "mm-dd-yyyy", Ok(parseTime(x, format))
  PROVE  parseTime(parseTime(x, format), format) = parseTime(x, format)
  <1>1. format \in DOMAIN timeFormats
    BY DEF parseTime, Ok, Error, Value
  <1> DEFINE layout == timeFormats[format]
  <1>2. layout \in parseLayout /\ layout = <<layout[1], layout[2]>> /\ layout[1] \in {"date", "clock"}
    BY <1>1 DEF timeFormats, parseLayout
  <1> HIDE DEF layout
  <1>3. \E t : parseTime(x, format) = Format(layout, t)
    <2>1. x.type # "nil"
      BY <1>1 DEF parseTime, Ok, Panic, Value
    <2>2. x.type = "string" \/ x.type = "Time"
      BY <1>1, <2>1 DEF parseTime, Ok, Error, Value
    <2>3. CASE x.type = "string"
      <3>1. parseTime(x, format) = Format(layout, TimeOf(x.v))
        BY <1>1, <2>3 DEF parseTime, Ok, Error, Value, layout
      <3> QED
        BY <3>1
    <2>4. CASE x.type = "Time"
      <3>1. parseTime(x, format) = Format(layout, x.v)
        BY <1>1, <2>4 DEF parseTime, layout
      <3> QED
        BY <3>1
    <2> QED
      BY <2>2, <2>3, <2>4
  <1>4. PICK t : parseTime(x, format) = Format(layout, t)
    BY <1>3
  <1> DEFINE shown == IF layout[1] = "clock" THEN t[2] ELSE t[1]
             text == <<layout[1], layout[2], shown>>
  <1>5. Format(layout, t) = Str(text)
    BY DEF Format
  <1>6. text[1] = layout[1] /\ text[2] = layout[2] /\ text[3] = shown
    OBVIOUS
  <1> HIDE DEF shown, text
  <1>7. parseTime(Str(text), format) = Format(layout, TimeOf(text))
    BY <1>1, <1>2, <1>6 DEF parseTime, Str, Value, layout
  <1>8. Format(layout, TimeOf(text)) = Str(text)
    <2>1. CASE layout[1] = "clock"
      BY <1>6, <2>1 DEF Format, TimeOf, text
    <2>2. CASE layout[1] = "date"
      BY <1>6, <2>2 DEF Format, TimeOf, text
    <2> QED
      BY <1>2, <2>1, <2>2
  <1> QED
    BY <1>4, <1>5, <1>7, <1>8
\* What is not composite.
LEMMA SimpleAgain ==
  ASSUME NEW type, NEW x, Scalar(x), NEW format, type \in TimeTypes => format # "mm-dd-yyyy",
         Ok(ParseSimple(type, x, format))
  PROVE  ParseSimple(type, ParseSimple(type, x, format), format) = ParseSimple(type, x, format)
  <1>1. CASE Numeric(type)
    <2>1. \A y : ParseSimple(type, y, format) = ToNumberE(type, y)
      BY <1>1 DEF ParseSimple, Numeric, IntTypes, FloatTypes, TimeTypes
    <2> QED
      BY <1>1, <2>1, NumberAgain
  <1>2. CASE type = "bool"
    <2>1. \A y : ParseSimple(type, y, format) = ToBoolE(y)
      BY <1>2 DEF ParseSimple, Numeric, IntTypes, FloatTypes, TimeTypes
    <2>2. Ok(ToBoolE(x))
      BY <2>1
    <2>3. ToBoolE(x).type = "bool"
      BY <2>2 DEF ToBoolE, Ok, Error, Value, Str
    <2>4. ToBoolE(ToBoolE(x)) = ToBoolE(x)
      <3> DEFINE y == ToBoolE(x)
      <3> HIDE DEF y
      <3>1. y.type = "bool" => ToBoolE(y) = y
        <4>1. \A v : Str(v).type = "string"
          BY DEF Str, Value
        <4>2. y.type = "bool" => \A v : y # Str(v)
          BY <4>1
        <4> QED
          BY <4>2 DEF ToBoolE
      <3> QED
        BY <2>3, <3>1 DEF y
    <2> QED
      BY <2>1, <2>4
  <1>3. CASE type = "string"
    <2>1. \A y : ParseSimple(type, y, format) = ToStringE(y)
      BY <1>3 DEF ParseSimple, Numeric, IntTypes, FloatTypes, TimeTypes
    <2>2. Ok(ToStringE(x))
      BY <2>1
    <2>3. ToStringE(x).type = "string"
      BY <2>2 DEF ToStringE, Ok, Error, Value, Str
    <2>4. ToStringE(ToStringE(x)) = ToStringE(x)
      <3> DEFINE y == ToStringE(x)
      <3> HIDE DEF y
      <3>1. y.type = "string" => ToStringE(y) = y
        BY DEF ToStringE, Numeric, IntTypes, FloatTypes
      <3> QED
        BY <2>3, <3>1 DEF y
    <2> QED
      BY <2>1, <2>4
  <1>4. CASE type \in TimeTypes
    <2>1. \A y : ParseSimple(type, y, format) = parseTime(y, format)
      BY <1>4 DEF ParseSimple, Numeric, IntTypes, FloatTypes, TimeTypes
    <2> QED
      BY <1>4, <2>1, TimeAgain
  <1>5. CASE ~Numeric(type) /\ type \notin {"bool", "string"} \cup TimeTypes
    <2>1. ParseSimple(type, x, format) = Error
      BY <1>5 DEF ParseSimple
    <2> QED
      BY <2>1 DEF Ok, Error, Value
  <1> QED
    BY <1>1, <1>2, <1>3, <1>4, <1>5

\* An object: its members are formatted, and are the members of the result.
LEMMA ObjectAgain ==
  ASSUME NEW x, x.type = "map" => \A k \in DOMAIN x.v : Scalar(x.v[k]), NEW args,
         \A k \in DOMAIN args.members :
            args.members[k].type \in TimeTypes => args.members[k].format # "mm-dd-yyyy",
         Ok(parseObject(x, args))
  PROVE  parseObject(parseObject(x, args), args) = parseObject(x, args)
  <1> DEFINE M == args.members
             P(k, y) == ParseSimple(M[k].type, y, M[k].format)
             members == [k \in DOMAIN M \cap DOMAIN x.v |-> P(k, x.v[k])]
  <1>1. x.type = "map"
    BY DEF parseObject, Ok, Error, Value
  <1>2. \A k \in DOMAIN members : Ok(members[k])
    <2>1. ASSUME \E k \in DOMAIN members : ~Ok(members[k]) PROVE FALSE
      <3> DEFINE bad == CHOOSE k \in DOMAIN members : ~Ok(members[k])
      <3>1. ~Ok(members[bad])
        <4> HIDE DEF members
        <4> QED
          BY <2>1
      <3>2. parseObject(x, args) = members[bad]
        BY <1>1, <2>1, Zenon DEF parseObject
      <3> QED
        BY <3>1, <3>2, Zenon
    <2> QED
      BY <2>1
  <1>3. parseObject(x, args) = Value("map", members)
    <2>1. ~\E k \in DOMAIN members : ~Ok(members[k])
      BY <1>2
    <2> QED
      BY <1>1, <2>1, Zenon DEF parseObject
  <1>4. DOMAIN members = DOMAIN M \cap DOMAIN x.v
    OBVIOUS
  <1>5. ASSUME NEW k \in DOMAIN members PROVE P(k, members[k]) = members[k]
    <2>1. k \in DOMAIN M /\ k \in DOMAIN x.v /\ members[k] = P(k, x.v[k])
      BY <1>4
    <2>2. Scalar(x.v[k]) /\ Ok(P(k, x.v[k]))
      BY <1>1, <1>2, <2>1
    <2>3. M[k].type \in TimeTypes => M[k].format # "mm-dd-yyyy"
      BY <2>1
    <2> QED
      BY <2>1, <2>2, <2>3, SimpleAgain
  <1> HIDE DEF members
  <1> DEFINE y == Value("map", members)
             again == [k \in DOMAIN M \cap DOMAIN y.v |-> P(k, y.v[k])]
  <1>6. y.type = "map" /\ y.v = members
    BY DEF Value
  <1>7. members = [k \in DOMAIN members |-> members[k]]
    BY DEF members
  <1>8. again = members
    <2>1. DOMAIN M \cap DOMAIN y.v = DOMAIN members
      BY <1>4, <1>6
    <2>2. again = [k \in DOMAIN members |-> members[k]]
      BY <1>5, <1>6, <2>1
    <2> QED
      BY <1>7, <2>2
  <1> HIDE DEF y
  <1>9. parseObject(y, args) = Value("map", again)
    <2>1. ~\E k \in DOMAIN again : ~Ok(again[k])
      BY <1>2, <1>8
    <2> QED
      BY <1>6, <2>1, Zenon DEF parseObject
  <1> QED
    BY <1>3, <1>8, <1>9 DEF y
\* What a value of a delta is given as.
TypedAs(type, s, x) ==
    /\ x.type = type
    /\ type \in IntTypes => x.v = s.v
    /\ type \in FloatTypes => \E f \in Floats[type] :
            /\ Same(x.v, <<f, Unit>>) /\ Abs(f) # Limit[type] * Unit
            /\ \A g \in Floats[type] : Distance(s.v, f) <= Distance(s.v, g)
    /\ type \notin {"int64", "float32"} => Same(parseValueToFloat64(x).v, x.v)
    /\ ParseSimple(type, x, "") = x

\* It is the number in the type of the model, or as near as the type comes (parsePropertyValue).
LEMMA TypedExact ==
  ASSUME NEW type, Numeric(type), NEW s,
         s.type \notin {"Number", "error", "panic"}, s.type = "number" => s.v \in Rationals,
         Ok(parsePropertyValue(type, ExactUnmarshal(s)))
  PROVE  TypedAs(type, s, parsePropertyValue(type, ExactUnmarshal(s)))
  <1> DEFINE x == parsePropertyValue(type, ExactUnmarshal(s))
             u == ExactUnmarshal(s)
  <1>1. (u.type = "Number" <=> s.type = "number") /\ (s.type = "number" => u.v = s.v)
    BY DEF ExactUnmarshal, Value
  <1>2. ASSUME NEW q, x = Value(type, q)
        PROVE  x.type = type /\ x.v = q /\ ParseSimple(type, x, "") = Number(type, q)
    <2> HIDE DEF x
    <2>1. x.type = type /\ x.v = q
      BY <1>2 DEF Value
    <2> QED
      BY <2>1 DEF ParseSimple, ToNumberE, Numeric, IntTypes, FloatTypes, TimeTypes
  <1> HIDE DEF u
  <1>3. CASE type \in IntTypes \ {"int"}
    <2>1. x = IF u.type = "Number" /\ Whole(u.v) /\ InRange(type, u.v[1]) THEN Value(type, u.v) ELSE Error
      BY <1>3 DEF parsePropertyValue, IntTypes, FloatTypes, TimeTypes, Composite, u
    <2>2. u.type = "Number" /\ Whole(u.v) /\ InRange(type, u.v[1])
      BY <2>1 DEF Ok, Error, Value, u
    <2>3. s.v \in Rationals /\ u.v = s.v
      BY <1>1, <2>2
    <2>4. x.type = type /\ x.v = s.v /\ ParseSimple(type, x, "") = Number(type, s.v) /\ x = Value(type, s.v)
      BY <1>2, <2>1, <2>2, <2>3
    <2> HIDE DEF x
    <2> DEFINE n == s.v[1]
    <2>5. n \in Int /\ s.v = Rat(n) /\ Trunc(s.v) = n /\ Wrap(type, n) = n /\ InRange(type, n)
      <3>1. n \in Int
        BY <2>3 DEF Rationals
      <3> QED
        BY <1>3, <2>2, <2>3, <3>1, TruncWhole, WrapRange
    <2>6. Number(type, s.v) = Value(type, s.v)
      BY <1>3, <2>5 DEF Number
    <2>7. ASSUME type # "int64" PROVE Same(parseValueToFloat64(x).v, x.v)
      <3>1. type \in {"int16", "int32"}
        BY <1>3, <2>7 DEF IntTypes
      <3>2. n * Unit \in Floats["float64"]
        <4>1. Limit[type] \in Nat /\ n \in -Limit[type] .. Limit[type]
          BY <1>3, <2>5, WrapRange DEF InRange
        <4> QED
          BY <3>1, <4>1, FloatAssumption
      <3>3. Round("float64", s.v) = s.v
        BY <2>5, <3>2, RoundWhole DEF FloatTypes
      <3>4. parseValueToFloat64(x).v = s.v
        BY <2>4, <3>1, <3>3 DEF parseValueToFloat64, isCalculable, Numeric, IntTypes, Value
      <3> QED
        BY <2>4, <3>4 DEF Same
    <2>8. type \notin FloatTypes
      BY <1>3 DEF IntTypes, FloatTypes
    <2>9. TypedAs(type, s, x)
      BY <2>4, <2>6, <2>7, <2>8 DEF TypedAs
    <2> QED
      BY <2>9 DEF x
  <1>4. CASE type \in FloatTypes
    <2>1. x = IF u.type = "Number" THEN ParseFloat(type, u.v) ELSE Error
      BY <1>4 DEF parsePropertyValue, IntTypes, FloatTypes, TimeTypes, Composite, u
    <2>2. u.type = "Number"
      BY <2>1 DEF Ok, Error, Value, u
    <2>3. s.v \in Rationals /\ u.v = s.v
      BY <1>1, <2>2
    <2> DEFINE n == Nearest(type, s.v)
               r == Round(type, s.v)
    <2>4. Ok(ParseFloat(type, s.v))
      BY <2>1, <2>2, <2>3 DEF u
    <2>5. x = Value(type, r) /\ Abs(n) # Limit[type] * Unit
      BY <1>4, <2>1, <2>2, <2>3, <2>4, ParsedFloat
    <2>6. n \in Floats[type] /\ \A g \in Floats[type] : Distance(s.v, n) <= Distance(s.v, g)
      BY <1>4, <2>3, NearestIs
    <2>7. r \in Rationals /\ Same(r, <<n, Unit>>) /\ Round(type, r) = r
      BY <1>4, <2>3, RoundAgain
    <2> HIDE DEF n, r
    <2>8. x.type = type /\ x.v = r /\ ParseSimple(type, x, "") = Number(type, r)
      BY <1>2, <2>5
    <2> HIDE DEF x
    <2>9. type \notin IntTypes
      BY <1>4 DEF IntTypes, FloatTypes
    <2>10. ParseSimple(type, x, "") = x
      BY <2>5, <2>7, <2>8, <2>9 DEF Number
    <2>11. ASSUME type # "float32" PROVE Same(parseValueToFloat64(x).v, x.v)
      <3>1. type = "float64"
        BY <1>4, <2>11 DEF FloatTypes
      <3>2. parseValueToFloat64(x).v = r
        BY <2>7, <2>8, <3>1 DEF parseValueToFloat64, isCalculable, Numeric, FloatTypes, Value
      <3> QED
        BY <2>8, <3>2 DEF Same
    <2>12. TypedAs(type, s, x)
      BY <2>5, <2>6, <2>7, <2>8, <2>9, <2>10, <2>11 DEF TypedAs
    <2> QED
      BY <2>12 DEF x
  <1>5. CASE type = "int"
    <2>1. x = Error
      BY <1>5 DEF parsePropertyValue, IntTypes, FloatTypes, TimeTypes, Composite
    <2> QED
      BY <2>1 DEF Ok, Error, Value
  <1> QED
    BY <1>3, <1>4, <1>5 DEF Numeric

\* A value that is refused does not fit the type of the model.
Unfit(type, s) ==
    \/ type \notin Typed
    \/ s.type # "number"
    \/ type \in IntTypes /\ ~(Whole(s.v) /\ InRange(type, s.v[1]))
    \/ type \in FloatTypes /\ Beyond(type, s.v)

\* It is refused for no other reason (parsePropertyValue).
LEMMA RefusedUnfit ==
  ASSUME NEW type, NEW s,
         s.type \notin {"Number", "error", "panic"}, s.type = "number" => s.v \in Rationals,
         ~Ok(parsePropertyValue(type, ExactUnmarshal(s)))
  PROVE  Unfit(type, s)
  <1> SUFFICES ASSUME type \in Typed, s.type = "number"
               PROVE  \/ type \in IntTypes /\ ~(Whole(s.v) /\ InRange(type, s.v[1]))
                      \/ type \in FloatTypes /\ Beyond(type, s.v)
    BY DEF Unfit
  <1> DEFINE u == ExactUnmarshal(s)
  <1>1. u.type = "Number" /\ u.v = s.v /\ s.v \in Rationals
    BY DEF ExactUnmarshal, Value
  <1> HIDE DEF u
  <1>2. CASE type \in IntTypes \ {"int"}
    <2>1. parsePropertyValue(type, u) =
            IF Whole(u.v) /\ InRange(type, u.v[1]) THEN Value(type, u.v) ELSE Error
      BY <1>1, <1>2 DEF parsePropertyValue, IntTypes, FloatTypes, TimeTypes, Composite
    <2>2. Ok(Value(type, u.v))
      BY <1>2 DEF Ok, Value, IntTypes
    <2> QED
      BY <1>1, <1>2, <2>1, <2>2 DEF u
  <1>3. CASE type \in FloatTypes
    <2>1. parsePropertyValue(type, u) = ParseFloat(type, s.v)
      BY <1>1, <1>3 DEF parsePropertyValue, IntTypes, FloatTypes, TimeTypes, Composite
    <2>2. ~Ok(ParseFloat(type, s.v))
      BY <2>1 DEF u
    <2> QED
      BY <1>1, <1>3, <2>2, ParsedFloat
  <1>4. CASE type \in {"bool", "string"} \cup TimeTypes \cup Composite
    <2>1. parsePropertyValue(type, u) = u
      BY <1>4 DEF parsePropertyValue, IntTypes, FloatTypes, TimeTypes, Composite
    <2>2. Ok(u)
      BY <1>1 DEF Ok
    <2> QED
      BY <2>1, <2>2 DEF u
  <1> QED
    BY <1>2, <1>3, <1>4 DEF Typed
\* What DeltaExact says of one call.
TypedWell(sent, got) ==
    IF Ok(got)
    THEN \A k \in DOMAIN sent : Numeric(Model[k]) => TypedAs(Model[k], sent[k], got.v[k])
    ELSE \E k \in DOMAIN sent : k \notin DOMAIN Model \/ Unfit(Model[k], sent[k])

\* What FormatStable says of one.
FormattedWell(type, args, got) ==
    Ok(got) /\ type \notin {"array", "enum"}
        /\ (type = "object" => \A k \in DOMAIN args.members :
                args.members[k].type \in TimeTypes => args.members[k].format # "mm-dd-yyyy")
        /\ (type # "object" => (type \in TimeTypes => args.format # "mm-dd-yyyy")) =>
            ParseValue(type, got, args) = got

\* The last call, whether it typed a delta or formatted a value.
DoneWell ==
    /\ done.op = "delta" => TypedWell(done.sent, done.got)
    /\ done.op = "format" => FormattedWell(done.type, done.args, done.got)

\* Every delta is typed so (parsePropertyValues).
LEMMA DeltaWell ==
  ASSUME NEW delta \in Deltas
  PROVE  TypedWell(delta, parsePropertyValues([k \in DOMAIN delta |-> ExactUnmarshal(delta[k])]))
  <1> DEFINE props == [k \in DOMAIN delta |-> ExactUnmarshal(delta[k])]
             P(k) == parsePropertyValue(Model[k], ExactUnmarshal(delta[k]))
             good == DOMAIN delta \subseteq DOMAIN Model /\ \A k \in DOMAIN delta : Ok(P(k))
             got == parsePropertyValues(props)
  <1>1. \A k \in DOMAIN delta :
          /\ delta[k].type \notin {"Number", "error", "panic"}
          /\ delta[k].type = "number" => delta[k].v \in Rationals
    BY FormatAssumption
  <1>2. CASE good
    <2>1. got = Value("map", [k \in DOMAIN delta |-> P(k)])
      BY <1>2 DEF parsePropertyValues
    <2> DEFINE typed == [k \in DOMAIN delta |-> P(k)]
    <2>2. \A k \in DOMAIN delta : typed[k] = P(k)
      OBVIOUS
    <2> HIDE DEF typed
    <2>3. Ok(got) /\ got.v = typed
      BY <2>1 DEF Ok, Value, typed
    <2> HIDE DEF got
    <2>4. ASSUME NEW k \in DOMAIN delta, Numeric(Model[k]) PROVE TypedAs(Model[k], delta[k], P(k))
      BY <1>1, <1>2, <2>4, TypedExact
    <2>5. ASSUME NEW k \in DOMAIN delta, Numeric(Model[k]) PROVE TypedAs(Model[k], delta[k], got.v[k])
      <3>1. got.v[k] = P(k)
        BY <2>2, <2>3
      <3> QED
        BY <2>4, <2>5, <3>1
    <2>6. TypedWell(delta, got)
      BY <2>3, <2>5 DEF TypedWell
    <2> QED
      BY <2>6 DEF got
  <1>3. CASE ~good
    <2>1. got = Error
      BY <1>3 DEF parsePropertyValues
    <2>2. ~Ok(got)
      BY <2>1 DEF Ok, Error, Value
    <2>3. \E k \in DOMAIN delta : k \notin DOMAIN Model \/ ~Ok(P(k))
      BY <1>3
    <2>4. \E k \in DOMAIN delta : k \notin DOMAIN Model \/ Unfit(Model[k], delta[k])
      BY <1>1, <2>3, RefusedUnfit
    <2> QED
      BY <2>2, <2>4 DEF TypedWell
  <1> QED
    BY <1>2, <1>3

\* Every value is formatted so (ParseValue).
LEMMA FormatWell ==
  ASSUME NEW type, NEW x \in GoValues, NEW args
  PROVE  FormattedWell(type, args, ParseValue(type, x, args))
  <1>1. Scalar(x) /\ (x.type = "map" => \A k \in DOMAIN x.v : Scalar(x.v[k]))
    BY FormatAssumption
  <1>2. CASE type = "object"
    <2>1. \A y : ParseValue(type, y, args) = parseObject(y, args)
      BY <1>2 DEF ParseValue
    <2> QED
      BY <1>1, <1>2, <2>1, ObjectAgain DEF FormattedWell
  <1>3. CASE type \notin {"array", "enum", "object"}
    <2>1. \A y : ParseValue(type, y, args) = ParseSimple(type, y, args.format)
      BY <1>3 DEF ParseValue
    <2> QED
      BY <1>1, <1>3, <2>1, SimpleAgain DEF FormattedWell
  <1>4. CASE type \in {"array", "enum"}
    BY <1>4 DEF FormattedWell
  <1> QED
    BY <1>2, <1>3, <1>4

\* After any number of calls.
LEMMA DoneWellHolds == FormatSpec => []DoneWell
  <1>1. done = NotDone => DoneWell
    BY DEF NotDone, DoneWell
  <1>2. DoneWell /\ [FormatNext]_done => DoneWell'
    <2> SUFFICES ASSUME DoneWell, [FormatNext]_done
                 PROVE  DoneWell'
      OBVIOUS
    <2>1. ASSUME NEW delta \in Deltas, processDelta(delta) PROVE DoneWell'
      <3> DEFINE got == parsePropertyValues([k \in DOMAIN delta |-> ExactUnmarshal(delta[k])])
      <3>1. done' = [op |-> "delta", sent |-> delta, got |-> got]
        BY <2>1 DEF processDelta
      <3>2. TypedWell(delta, got)
        BY DeltaWell
      <3> HIDE DEF got
      <3>3. done'.op = "delta" /\ done'.sent = delta /\ done'.got = got
        BY <3>1
      <3> QED
        BY <3>2, <3>3 DEF DoneWell
    <2>2. ASSUME NEW type, NEW x \in GoValues, NEW args, FormatValue(type, x, args) PROVE DoneWell'
      <3> DEFINE got == ParseValue(type, x, args)
      <3>1. done' = [op |-> "format", type |-> type, args |-> args, got |-> got]
        BY <2>2 DEF FormatValue
      <3>2. FormattedWell(type, args, got)
        BY FormatWell
      <3> HIDE DEF got
      <3>3. done'.op = "format" /\ done'.type = type /\ done'.args = args /\ done'.got = got
        BY <3>1
      <3> QED
        BY <3>2, <3>3 DEF DoneWell
    <2>3. ASSUME UNCHANGED done PROVE DoneWell'
      BY <2>3 DEF DoneWell
    <2> QED
      BY <2>1, <2>2, <2>3 DEF FormatNext
  <1> QED
    BY <1>1, <1>2, PTL DEF FormatSpec

\* For all widths of the integer types, all float types, device models and deltas: a delta
\* reaches the callback with the integers that were sent and the floats that are nearest to
\* what was sent, or is refused as a whole because a number does not fit (processDelta,
\* parsePropertyValues).
THEOREM DeltasTyped == FormatSpec => []DeltaExact
  <1>1. DoneWell => DeltaExact
    BY DEF DoneWell, TypedWell, TypedAs, Unfit, DeltaExact
  <1> QED
    BY <1>1, DoneWellHolds, PTL

\* For all widths, values and arguments: what was formatted is not changed when it is
\* formatted again (ParseValue).
THEOREM FormattedOnce == FormatSpec => []FormatStable
  <1>1. DoneWell => FormatStable
    BY DEF DoneWell, FormattedWell, FormatStable
  <1> QED
    BY <1>1, DoneWellHolds, PTL
=============================================================================
