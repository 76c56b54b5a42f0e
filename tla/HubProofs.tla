------------------------------ MODULE HubProofs ------------------------------
(***************************************************************************)
(* Proofs about the hub with its processor (Hub, Pubsub), for any number   *)
(* of channels, publishers, messages and maps and every capacity.          *)
(***************************************************************************)
EXTENDS Hub, SequenceTheorems, TLAPS

Messages == 1 .. MaxPublishes

\* A call of Publish is under way; it is through with a channel.
Active(p) == ppc[p] \in {"range", "send", "return"}
Through(p, c) == c \in seen[p] /\ ~(ppc[p] = "send" /\ pch[p] = c)

\* Calls have messages of their own, and what a call owes is in the map it ranges
\* over, even when Close has dropped that map and Subscribe made another one.
CallInv ==
    /\ \A p \in Publishers : ~Active(p) => seen[p] = {} /\ ~failed[p]
    /\ \A p \in Publishers : Active(p) => pmsg[p] \in 1 .. issued
    /\ \A p, q \in Publishers : Active(p) /\ Active(q) /\ pmsg[p] = pmsg[q] => p = q
    /\ \A p \in Publishers : ppc[p] \in {"range", "send"} =>
        pmap[p] \in Maps /\ owed[p] \subseteq chs[pmap[p]]
    /\ \A p \in Publishers : ppc[p] = "send" => pch[p] \in seen[p]

\* A call's message is in a channel only if the call is through with it, and then it
\* is in every one that is owed, unless the call has failed.
SentInv ==
    /\ \A c \in Channels : \A m \in ToSet(sent[c]) : m <= issued
    /\ \A p \in Publishers, c \in Channels :
        Active(p) /\ pmsg[p] \in ToSet(sent[c]) => Through(p, c)
    /\ \A p \in Publishers, c \in Channels :
        Active(p) /\ ~failed[p] /\ c \in owed[p] /\ Through(p, c) => pmsg[p] \in ToSet(sent[c])
    /\ \A p \in Publishers : ppc[p] = "return" => owed[p] \subseteq seen[p]
    /\ \A c \in Channels : IsInjective(sent[c])

PubInv == TypeOK /\ CallInv /\ SentInv

LEMMA InitPub == Init => PubInv
  <1> SUFFICES ASSUME Init PROVE PubInv
    OBVIOUS
  <1>1. TypeOK
    <2>1. failed \in [Publishers -> BOOLEAN] /\ crashed \in BOOLEAN
      BY DEF Init
    <2>2. /\ chs \in [Maps -> SUBSET Channels] /\ seen \in [Publishers -> SUBSET Channels]
          /\ owed \in [Publishers -> SUBSET Channels] /\ fresh \subseteq Channels
      BY DEF Init
    <2>3. /\ ppc \in [Publishers -> {"off", "idle", "range", "send", "return"}]
          /\ pch \in [Publishers -> Channels \cup {None}]
      BY DEF Init
    <2>4. /\ buffer \in [Channels -> Seq(1 .. MaxPublishes)]
          /\ sent \in [Channels -> Seq(1 .. MaxPublishes)]
          /\ \A c \in Channels : Len(buffer[c]) <= Size
      BY PubsubAssumption, EmptySeq DEF Init
    <2>5. /\ made \in 0 .. MaxMaps /\ current \in {0} \cup Maps /\ issued \in 0 .. MaxPublishes
          /\ pmap \in [Publishers -> {0} \cup Maps] /\ pmsg \in [Publishers -> 0 .. MaxPublishes]
      BY PubsubAssumption DEF Init
    <2> QED
      BY <2>1, <2>2, <2>3, <2>4, <2>5 DEF TypeOK
  <1>2. CallInv
    BY DEF Init, CallInv, Active
  <1>3. SentInv
    BY DEF Init, SentInv, Active, ToSet, IsInjective
  <1> QED
    BY <1>1, <1>2, <1>3 DEF PubInv

\* What a channel holds and was given, when it takes a message that is new to it.
LEMMA PutInChannel ==
    ASSUME NEW T, NEW q \in Seq(T), NEW t \in T
    PROVE  /\ ToSet(Append(q, t)) = ToSet(q) \cup {t}
           /\ IsInjective(q) /\ t \notin ToSet(q) => IsInjective(Append(q, t))
  <1> DEFINE r == Append(q, t)
  <1>1. /\ r \in Seq(T) /\ Len(r) = Len(q) + 1 /\ Len(q) \in Nat
        /\ DOMAIN q = 1 .. Len(q) /\ DOMAIN r = 1 .. (Len(q) + 1)
        /\ \A i \in 1 .. Len(q) : r[i] = q[i]
        /\ r[Len(q) + 1] = t
    BY AppendProperties, LenProperties
  <1> HIDE DEF r
  <1>2. ToSet(r) = ToSet(q) \cup {t}
    BY <1>1 DEF ToSet
  <1>3. IsInjective(q) /\ t \notin ToSet(q) => IsInjective(r)
    BY <1>1 DEF IsInjective, ToSet
  <1> QED
    BY <1>2, <1>3 DEF r

\* Subscribe, Unsubscribe and Close, whatever calls of Publish are under way.
LEMMA TableKeepsPub ==
    ASSUME PubInv, Close \/ \E c \in Channels : Subscribe(c) \/ Unsubscribe(c)
    PROVE  PubInv'
  <1> USE DEF PubInv, TypeOK, hubVars, pubVars
  <1>1. crashed' \in BOOLEAN
    BY DEF Close, Subscribe, Unsubscribe, MapFault
  <1>2. UNCHANGED <<buffer, sent, issued, ppc, pmap, pmsg, seen, pch, failed>>
    BY DEF Close, Subscribe, Unsubscribe
  <1>3. \A p \in Publishers : (Active(p)' <=> Active(p)) /\ \A c \in Channels : (Through(p, c)' <=> Through(p, c))
    BY <1>2 DEF Active, Through
  <1>4. ASSUME NEW c \in Channels, Subscribe(c)
        PROVE  PubInv'
    <2>1. PICK m \in Maps : /\ chs' = [chs EXCEPT ![m] = @ \cup {c}]
                            /\ current' = m /\ made' \in 0 .. MaxMaps
      <3> DEFINE m == IF current = 0 THEN made + 1 ELSE current
      <3>1. m \in Maps /\ chs' = [chs EXCEPT ![m] = @ \cup {c}] /\ current' = m
        BY <1>4 DEF Subscribe
      <3>2. made' \in 0 .. MaxMaps
        BY <1>4, <3>1, PubsubAssumption DEF Subscribe, Maps
      <3> QED
        BY <3>1, <3>2
    <2>2. TypeOK'
      BY <1>1, <1>2, <1>4, <2>1 DEF Subscribe
    <2>3. UNCHANGED owed /\ \A n \in Maps : chs[n] \subseteq chs'[n]
      BY <1>4, <2>1 DEF Subscribe
    <2>4. CallInv'
      BY <1>2, <1>3, <2>3 DEF CallInv
    <2>5. SentInv'
      BY <1>2, <1>3, <2>3 DEF SentInv
    <2> QED
      BY <2>2, <2>4, <2>5
  <1>5. ASSUME NEW S, S \subseteq Channels, Forget(S), current \in Maps,
               chs' = [chs EXCEPT ![current] = @ \ S],
               UNCHANGED <<made, fresh>>, current' \in {0} \cup Maps
        PROVE  PubInv'
    <2>1. /\ owed' \in [Publishers -> SUBSET Channels]
          /\ \A p \in Publishers : owed'[p] = owed[p] \ S
      BY <1>5 DEF Forget
    <2>2. chs' \in [Maps -> SUBSET Channels] /\ \A n \in Maps : chs[n] \ S \subseteq chs'[n]
      BY <1>5
    <2>3. TypeOK'
      BY <1>1, <1>2, <1>5, <2>1, <2>2
    <2>4. CallInv'
      BY <1>2, <1>3, <2>1, <2>2 DEF CallInv
    <2>5. SentInv'
      BY <1>2, <1>3, <2>1 DEF SentInv
    <2> QED
      BY <2>3, <2>4, <2>5
  <1>6. ASSUME NEW c \in Channels, Unsubscribe(c)
        PROVE  PubInv'
    <2>1. current \in Maps
      BY <1>6 DEF Unsubscribe, Subscribed
    <2> QED
      BY <1>5, <1>6, <2>1 DEF Unsubscribe
  <1>7. CASE Close
    <2>1. current \in Maps /\ Subscribed = chs[current] /\ Subscribed \subseteq Channels
      BY <1>7 DEF Close, Subscribed
    <2>2. chs' = [chs EXCEPT ![current] = @ \ Subscribed]
      BY <1>7, <2>1 DEF Close
    <2> QED
      BY <1>5, <1>7, <2>1, <2>2 DEF Close
  <1> QED
    BY <1>4, <1>6, <1>7

\* A call of Publish begins, with a message that no channel has.
LEMMA BeginKeepsPub ==
    ASSUME PubInv, NEW p \in Publishers, PublishBegins(p)
    PROVE  PubInv'
  <1> USE DEF PubInv, TypeOK, hubVars
  <1>1. issued \in Nat /\ issued' = issued + 1 /\ issued' \in 0 .. MaxPublishes
    BY PubsubAssumption DEF PublishBegins
  <1>2. Subscribed \subseteq Channels /\ (current # 0 => Subscribed = chs[current])
    BY DEF Subscribed
  <1>3. UNCHANGED <<chs, made, current, fresh, buffer, sent, seen, pch, failed, crashed>>
    BY DEF PublishBegins
  <1>4. TypeOK'
    BY <1>1, <1>2, <1>3 DEF PublishBegins
  <1>5. seen[p] = {} /\ ~failed[p] /\ ~Active(p)
    BY DEF PublishBegins, CallInv, Active
  <1>6. /\ Active(p)' /\ pmsg'[p] = issued + 1 /\ owed'[p] = Subscribed /\ ppc'[p] # "send"
        /\ ppc'[p] = "range" => pmap'[p] \in Maps /\ owed'[p] \subseteq chs[pmap'[p]]
        /\ ppc'[p] = "return" => owed'[p] = {}
    BY <1>2, PubsubAssumption DEF PublishBegins, Active, Subscribed
  <1>7. \A q \in Publishers : q # p =>
            /\ (Active(q)' <=> Active(q)) /\ pmsg'[q] = pmsg[q] /\ owed'[q] = owed[q]
            /\ pmap'[q] = pmap[q] /\ ppc'[q] = ppc[q]
            /\ \A c \in Channels : (Through(q, c)' <=> Through(q, c))
    BY DEF PublishBegins, Active, Through
  <1>8. CallInv'
    <2>1. \A q \in Publishers : ~Active(q)' => seen'[q] = {} /\ ~failed'[q]
      BY <1>3, <1>6, <1>7 DEF CallInv
    <2>2. \A q \in Publishers : Active(q)' =>
            pmsg'[q] \in 1 .. issued' /\ (q # p => pmsg'[q] <= issued)
      <3>1. \A q \in Publishers : q # p /\ Active(q)' => pmsg'[q] \in 1 .. issued
        BY <1>7 DEF CallInv
      <3>2. pmsg'[p] \in 1 .. issued'
        BY <1>1, <1>6
      <3> QED
        BY <1>1, <3>1, <3>2
    <2>3. \A q, r \in Publishers : Active(q)' /\ Active(r)' /\ pmsg'[q] = pmsg'[r] => q = r
      <3>1. \A q, r \in Publishers : q # p /\ r # p /\ Active(q)' /\ Active(r)' /\ pmsg'[q] = pmsg'[r]
                => q = r
        BY <1>7 DEF CallInv
      <3>2. \A q \in Publishers : q # p /\ Active(q)' => pmsg'[q] # pmsg'[p]
        BY <1>1, <1>6, <2>2
      <3> QED
        BY <3>1, <3>2
    <2>4. \A q \in Publishers : ppc'[q] \in {"range", "send"} =>
            pmap'[q] \in Maps /\ owed'[q] \subseteq chs'[pmap'[q]]
      BY <1>3, <1>6, <1>7 DEF CallInv
    <2>5. \A q \in Publishers : ppc'[q] = "send" => pch'[q] \in seen'[q]
      BY <1>3, <1>6, <1>7 DEF CallInv
    <2> QED
      BY <2>1, <2>2, <2>3, <2>4, <2>5 DEF CallInv
  <1>9. SentInv'
    <2>1. \A c \in Channels : \A m \in ToSet(sent[c]) : m \in 1 .. MaxPublishes /\ m <= issued
      <3>1. \A c \in Channels : ToSet(sent[c]) \subseteq 1 .. MaxPublishes
        <4> SUFFICES ASSUME NEW c \in Channels, NEW i \in DOMAIN sent[c]
                     PROVE  sent[c][i] \in 1 .. MaxPublishes
          BY DEF ToSet
        <4>1. sent[c] \in Seq(1 .. MaxPublishes)
          OBVIOUS
        <4> QED
          BY <4>1, LenProperties, ElementOfSeq
      <3> QED
        BY <3>1 DEF SentInv
    <2>2. \A c \in Channels : pmsg'[p] \notin ToSet(sent[c]) /\ ~Through(p, c)'
      BY <1>1, <1>3, <1>5, <1>6, <2>1 DEF Through
    <2>3. \A c \in Channels : \A m \in ToSet(sent'[c]) : m <= issued'
      BY <1>1, <1>3, <2>1
    <2>4. \A q \in Publishers, c \in Channels :
            Active(q)' /\ pmsg'[q] \in ToSet(sent'[c]) => Through(q, c)'
      BY <1>3, <1>7, <2>2 DEF SentInv
    <2>5. \A q \in Publishers, c \in Channels :
            Active(q)' /\ ~failed'[q] /\ c \in owed'[q] /\ Through(q, c)'
                => pmsg'[q] \in ToSet(sent'[c])
      BY <1>3, <1>7, <2>2 DEF SentInv
    <2>6. \A q \in Publishers : ppc'[q] = "return" => owed'[q] \subseteq seen'[q]
      BY <1>3, <1>6, <1>7 DEF SentInv
    <2> QED
      BY <1>3, <2>3, <2>4, <2>5, <2>6 DEF SentInv
  <1> QED
    BY <1>4, <1>8, <1>9

\* The range goes on or ends; a send that times out, and the return.
LEMMA RangeKeepsPub ==
    ASSUME PubInv, NEW p \in Publishers,
           RangeNext(p) \/ RangeEnds(p) \/ SendTimesOut(p) \/ PublishReturns(p)
    PROVE  PubInv'
  <1> USE DEF PubInv, TypeOK, hubVars
  <1>1. UNCHANGED <<chs, made, current, fresh, buffer, sent, issued, crashed>>
    BY DEF RangeNext, RangeEnds, SendTimesOut, PublishReturns
  <1>2. TypeOK'
    <2>1. failed' \in [Publishers -> BOOLEAN]
      BY DEF RangeNext, RangeEnds, SendTimesOut, PublishReturns
    <2>2. pmsg' \in [Publishers -> 0 .. MaxPublishes]
      <3>1. UNCHANGED pmsg \/ pmsg' = [pmsg EXCEPT ![p] = 0]
        BY DEF RangeNext, RangeEnds, SendTimesOut, PublishReturns
      <3>2. 0 \in 0 .. MaxPublishes
        BY PubsubAssumption
      <3> QED
        BY <3>1, <3>2
    <2>3. /\ ppc' \in [Publishers -> {"off", "idle", "range", "send", "return"}]
          /\ pmap' \in [Publishers -> {0} \cup Maps]
          /\ owed' \in [Publishers -> SUBSET Channels]
      BY DEF RangeNext, RangeEnds, SendTimesOut, PublishReturns
    <2>4. CASE RangeNext(p)
      <3>1. pmap[p] \in Maps
        BY <2>4 DEF RangeNext, CallInv
      <3>2. seen' \in [Publishers -> SUBSET Channels] /\ pch' \in [Publishers -> Channels \cup {None}]
        BY <2>4, <3>1 DEF RangeNext
      <3> QED
        BY <1>1, <2>1, <2>2, <2>3, <3>2
    <2>5. CASE RangeEnds(p) \/ SendTimesOut(p) \/ PublishReturns(p)
      <3>1. seen' \in [Publishers -> SUBSET Channels] /\ pch' \in [Publishers -> Channels \cup {None}]
        BY <2>5 DEF RangeEnds, SendTimesOut, PublishReturns
      <3> QED
        BY <1>1, <2>1, <2>2, <2>3, <3>1
    <2> QED
      BY <2>4, <2>5
  <1>3. CASE RangeNext(p)
    <2>1. CallInv'
      BY <1>1, <1>3 DEF RangeNext, CallInv, Active
    <2>2. SentInv'
      BY <1>1, <1>3 DEF RangeNext, SentInv, Active, Through
    <2> QED
      BY <1>2, <2>1, <2>2
  <1>4. CASE RangeEnds(p)
    <2>1. CallInv'
      BY <1>1, <1>4 DEF RangeEnds, CallInv, Active
    <2>2. owed[p] \subseteq seen[p]
      BY <1>4 DEF RangeEnds, CallInv
    <2>3. SentInv'
      BY <1>1, <1>4, <2>2 DEF RangeEnds, SentInv, Active, Through
    <2> QED
      BY <1>2, <2>1, <2>3
  <1>5. CASE SendTimesOut(p)
    <2>1. CallInv'
      BY <1>1, <1>5 DEF SendTimesOut, CallInv, Active
    <2>2. SentInv'
      BY <1>1, <1>5 DEF SendTimesOut, SentInv, Active, Through
    <2> QED
      BY <1>2, <2>1, <2>2
  <1>6. CASE PublishReturns(p)
    <2>1. CallInv'
      BY <1>1, <1>6 DEF PublishReturns, CallInv, Active
    <2>2. SentInv'
      BY <1>1, <1>6 DEF PublishReturns, SentInv, Active, Through
    <2> QED
      BY <1>2, <2>1, <2>2
  <1> QED
    BY <1>3, <1>4, <1>5, <1>6

\* A channel takes a call's message, which it has not had before.
LEMMA SendKeepsPub ==
    ASSUME PubInv, NEW p \in Publishers, SendTaken(p)
    PROVE  PubInv'
  <1> USE DEF PubInv, TypeOK, hubVars
  <1>1. PICK c \in Channels : c = pch[p] /\ c \in seen[p]
    BY DEF SendTaken, CallInv
  <1>2. PICK m \in 1 .. MaxPublishes : m = pmsg[p] /\ m <= issued
    BY PubsubAssumption DEF SendTaken, CallInv, Active
  <1>3. /\ ppc[p] = "send" /\ Active(p) /\ ~Through(p, c)
        /\ UNCHANGED <<chs, made, current, fresh, issued, pmap, pmsg, seen, failed, owed, crashed>>
        /\ ppc' = [ppc EXCEPT ![p] = "range"] /\ pch' = [pch EXCEPT ![p] = None]
        /\ buffer' = [buffer EXCEPT ![c] = Append(@, m)]
        /\ sent' = [sent EXCEPT ![c] = Append(@, m)]
        /\ Len(buffer[c]) < Size
    BY <1>1, <1>2 DEF SendTaken, Active, Through
  <1>4. m \notin ToSet(sent[c])
    BY <1>2, <1>3 DEF SentInv
  <1>5. /\ ToSet(sent'[c]) = ToSet(sent[c]) \cup {m} /\ IsInjective(sent'[c])
        /\ sent'[c] \in Seq(1 .. MaxPublishes)
    <2>1. sent'[c] = Append(sent[c], m) /\ sent[c] \in Seq(1 .. MaxPublishes)
      BY <1>3
    <2>2. IsInjective(sent[c])
      BY DEF SentInv
    <2>3. ToSet(Append(sent[c], m)) = ToSet(sent[c]) \cup {m}
      <3>1. m \in Messages /\ sent[c] \in Seq(Messages)
        BY <2>1 DEF Messages
      <3> QED
        BY <3>1, PutInChannel
    <2>4. IsInjective(Append(sent[c], m))
      BY <1>4, <2>1, <2>2, PutInChannel
    <2>5. Append(sent[c], m) \in Seq(1 .. MaxPublishes)
      BY <2>1, AppendProperties
    <2> QED
      BY <2>1, <2>3, <2>4, <2>5
  <1>6. buffer'[c] \in Seq(1 .. MaxPublishes) /\ Len(buffer'[c]) <= Size
    BY <1>3, AppendProperties, LenProperties, PubsubAssumption
  <1>7. \A d \in Channels : d # c => sent'[d] = sent[d] /\ buffer'[d] = buffer[d]
    BY <1>3
  <1>8. TypeOK'
    <2>1. sent' \in [Channels -> Seq(1 .. MaxPublishes)] /\ buffer' \in [Channels -> Seq(1 .. MaxPublishes)]
      BY <1>3, <1>5, <1>6, <1>7
    <2>2. \A d \in Channels : Len(buffer'[d]) <= Size
      BY <1>6, <1>7
    <2> QED
      BY <1>3, <2>1, <2>2
  <1>9. CallInv'
    BY <1>3 DEF CallInv, Active
  <1>10. /\ \A q \in Publishers : (Active(q)' <=> Active(q))
         /\ \A q \in Publishers, d \in Channels : q # p \/ d # c => (Through(q, d)' <=> Through(q, d))
         /\ Through(p, c)'
    BY <1>1, <1>3 DEF Active, Through
  <1>11. SentInv'
    <2>1. \A d \in Channels : \A k \in ToSet(sent'[d]) : k <= issued'
      BY <1>2, <1>3, <1>5, <1>7 DEF SentInv
    <2>2. \A q \in Publishers, d \in Channels :
            Active(q)' /\ pmsg'[q] \in ToSet(sent'[d]) => Through(q, d)'
      <3> SUFFICES ASSUME NEW q \in Publishers, NEW d \in Channels, q # p \/ d # c,
                          Active(q), pmsg[q] \in ToSet(sent'[d])
                   PROVE  Through(q, d)
        BY <1>3, <1>10
      <3>1. q # p => pmsg[q] # m
        BY <1>2, <1>3 DEF CallInv
      <3>2. pmsg[q] \in ToSet(sent[d])
        BY <1>5, <1>7, <3>1
      <3> QED
        BY <3>2 DEF SentInv
    <2>3. \A q \in Publishers, d \in Channels :
            Active(q)' /\ ~failed'[q] /\ d \in owed'[q] /\ Through(q, d)'
                => pmsg'[q] \in ToSet(sent'[d])
      BY <1>2, <1>3, <1>5, <1>7, <1>10 DEF SentInv
    <2>4. \A q \in Publishers : ppc'[q] = "return" => owed'[q] \subseteq seen'[q]
      BY <1>3 DEF SentInv
    <2>5. \A d \in Channels : IsInjective(sent'[d])
      BY <1>5, <1>7 DEF SentInv
    <2> QED
      BY <2>1, <2>2, <2>3, <2>4, <2>5 DEF SentInv
  <1> QED
    BY <1>8, <1>9, <1>11

\* A subscriber reads its channel.
LEMMA ReceiveKeepsPub ==
    ASSUME PubInv, NEW c \in Channels, Receive(c)
    PROVE  PubInv'
  <1> USE DEF PubInv, TypeOK, hubVars, pubVars
  <1>1. Tail(buffer[c]) \in Seq(1 .. MaxPublishes) /\ Len(Tail(buffer[c])) <= Size
    BY HeadTailProperties, LenProperties, PubsubAssumption DEF Receive
  <1>2. TypeOK'
    BY <1>1 DEF Receive
  <1>3. CallInv'
    BY DEF Receive, CallInv, Active
  <1>4. SentInv'
    BY DEF Receive, SentInv, Active, Through
  <1> QED
    BY <1>2, <1>3, <1>4

LEMMA StutterKeepsPub == PubInv /\ UNCHANGED vars => PubInv'
  BY DEF PubInv, TypeOK, CallInv, SentInv, Active, Through, vars

-----------------------------------------------------------------------------
(* The processor                                                           *)

\* After a Close that waited has returned, the goroutine has ended.
ProcInv ==
    /\ AcceptedIsHandled
    /\ handled \in Seq(1 .. MaxPublishes)
    /\ cpc = "returned" => pc = "done"

HubInv == PubInv /\ ProcInv

\* The processor's side of a step of the hub that does not read its channel.
LEMMA HubKeepsProc ==
    ASSUME HubInv, UNCHANGED procVars, UNCHANGED <<buffer[Proc], sent[Proc]>>
    PROVE  ProcInv'
  BY DEF HubInv, ProcInv, AcceptedIsHandled, P!TypeOK, procVars

\* Publish puts a message into the processor's channel, behind those it has.
LEMMA SendKeepsProc ==
    ASSUME HubInv, NEW p \in Publishers, SendTaken(p), UNCHANGED procVars
    PROVE  ProcInv'
  <1>1. CASE pch[p] # Proc
    <2>1. UNCHANGED <<buffer[Proc], sent[Proc]>>
      BY <1>1, HubAssumption DEF SendTaken, HubInv, PubInv, TypeOK
    <2> QED
      BY <2>1, HubKeepsProc
  <1>2. CASE pch[p] = Proc
    <2>1. pmsg[p] \in 1 .. MaxPublishes
      BY PubsubAssumption DEF SendTaken, HubInv, PubInv, TypeOK, CallInv, Active
    <2>2. /\ buffer[Proc] \in Seq(1 .. MaxPublishes) /\ sent[Proc] \in Seq(1 .. MaxPublishes)
          /\ buffer'[Proc] = Append(buffer[Proc], pmsg[p])
          /\ sent'[Proc] = Append(sent[Proc], pmsg[p])
      BY <1>2, HubAssumption DEF SendTaken, HubInv, PubInv, TypeOK
    <2>3. /\ handled \in Seq(1 .. MaxPublishes) /\ sent[Proc] = handled \o buffer[Proc]
      BY DEF HubInv, ProcInv, AcceptedIsHandled
    <2>4. sent'[Proc] = handled \o buffer'[Proc]
      <3>1. pmsg[p] \in Messages /\ handled \in Seq(Messages) /\ buffer[Proc] \in Seq(Messages)
        BY <2>1, <2>2, <2>3 DEF Messages
      <3>2. <<pmsg[p]>> \in Seq(Messages) /\ sent[Proc] \in Seq(Messages)
        BY <2>2, <3>1 DEF Messages
      <3>3. buffer'[Proc] = buffer[Proc] \o <<pmsg[p]>>
        BY <2>2, <3>1, AppendIsConcat
      <3>4. sent'[Proc] = (handled \o buffer[Proc]) \o <<pmsg[p]>>
        BY <2>2, <2>3, <3>1, <3>2, AppendIsConcat
      <3>5. (handled \o buffer[Proc]) \o <<pmsg[p]>> = handled \o (buffer[Proc] \o <<pmsg[p]>>)
        <4>1. PICK h \in Seq(Messages), q \in Seq(Messages), e \in Seq(Messages) :
                h = handled /\ q = buffer[Proc] /\ e = <<pmsg[p]>>
          BY <3>1, <3>2
        <4>2. (h \o q) \o e = h \o (q \o e)
          BY ConcatAssociative
        <4> QED
          BY <4>1, <4>2
      <3> QED
        BY <3>3, <3>4, <3>5
    <2> QED
      BY <2>4 DEF HubInv, ProcInv, AcceptedIsHandled, P!TypeOK, procVars
  <1> QED
    BY <1>1, <1>2

\* The select takes a message, the oldest one.
LEMMA HandleKeepsProc == HubInv /\ HandleMessage => ProcInv'
  <1> SUFFICES ASSUME HubInv, HandleMessage PROVE ProcInv'
    OBVIOUS
  <1> DEFINE q == buffer[Proc]
  <1>1. /\ q \in Seq(1 .. MaxPublishes) /\ q # <<>> /\ buffer'[Proc] = Tail(q)
        /\ handled' = Append(handled, Head(q)) /\ UNCHANGED sent
    BY HubAssumption DEF HandleMessage, Receive, P!TakeMessage, HubInv, PubInv, TypeOK
  <1>2. handled \in Seq(1 .. MaxPublishes) /\ sent[Proc] = handled \o q
    BY DEF HubInv, ProcInv, AcceptedIsHandled
  <1> HIDE DEF q
  <1>3. Head(q) \in 1 .. MaxPublishes /\ Tail(q) \in Seq(1 .. MaxPublishes)
    BY <1>1, HeadTailProperties
  <1>4. <<Head(q)>> \in Seq(1 .. MaxPublishes) /\ handled' = handled \o <<Head(q)>>
    BY <1>1, <1>2, <1>3, AppendIsConcat
  <1>5. <<Head(q)>> \o Tail(q) = q
    BY <1>1, <1>3, <1>4, HeadTailProperties, ConcatProperties, SeqEqual, LenProperties
  <1>6. handled' \o Tail(q) = handled \o q
    BY <1>2, <1>3, <1>4, <1>5, ConcatAssociative
  <1>7. handled' \in Seq(1 .. MaxPublishes)
    BY <1>1, <1>2, <1>3, AppendProperties
  <1> QED
    BY <1>1, <1>2, <1>6, <1>7
       DEF HandleMessage, P!TakeMessage, HubInv, ProcInv, AcceptedIsHandled, P!TypeOK

\* The other steps of the processor, and Close.
LEMMA StepKeepsProc ==
    ASSUME HubInv,
           \/ StartProcessor \/ HandlerReturns \/ TimeOut \/ TimeoutReturns
           \/ StopProcessor \/ TimerFires \/ CloseProcessor \/ CloseProcessorReturns
    PROVE  ProcInv' /\ UNCHANGED vars
  <1> USE DEF HubInv, ProcInv, AcceptedIsHandled, P!TypeOK, vars
  <1>1. CASE StartProcessor
    BY <1>1 DEF StartProcessor, P!Start
  <1>2. CASE HandlerReturns
    BY <1>2 DEF HandlerReturns, P!OnMessageReturns
  <1>3. CASE TimeOut
    BY <1>3 DEF TimeOut, P!TakeTick
  <1>4. CASE TimeoutReturns
    BY <1>4 DEF TimeoutReturns, P!OnTimeoutReturns
  <1>5. CASE StopProcessor
    BY <1>5 DEF StopProcessor, P!Stop
  <1>6. CASE TimerFires
    BY <1>6 DEF TimerFires, P!TimerFires
  <1>7. CASE CloseProcessor
    BY <1>7 DEF CloseProcessor, P!CloseKill
  <1>8. CASE CloseProcessorReturns
    BY <1>8 DEF CloseProcessorReturns, P!CloseReturns
  <1> QED
    BY <1>1, <1>2, <1>3, <1>4, <1>5, <1>6, <1>7, <1>8

-----------------------------------------------------------------------------
LEMMA InitHub == HubInit => HubInv
  <1> SUFFICES ASSUME HubInit PROVE HubInv
    OBVIOUS
  <1>1. PubInv
    BY InitPub DEF HubInit
  <1>2. /\ handled = <<>> /\ buffer[Proc] = <<>> /\ sent[Proc] = <<>>
        /\ pc = "off" /\ cpc = "idle"
    BY HubAssumption DEF HubInit, Init, P!Init
  <1>3. P!TypeOK
    BY DEF HubInit, P!Init, P!TypeOK
  <1>4. <<>> \o <<>> = <<>>
    OBVIOUS
  <1>5. handled \in Seq(1 .. MaxPublishes)
    BY <1>2
  <1> QED
    BY <1>1, <1>2, <1>3, <1>4, <1>5 DEF HubInv, ProcInv, AcceptedIsHandled

LEMMA NextHub == HubInv /\ [HubNext]_allVars => HubInv'
  <1> SUFFICES ASSUME HubInv, [HubNext]_allVars PROVE HubInv'
    OBVIOUS
  <1> USE DEF HubInv
  <1>1. CASE /\ Close \/ \E c \in Channels : Subscribe(c) \/ Unsubscribe(c)
             /\ UNCHANGED procVars
    <2>1. UNCHANGED <<buffer, sent>>
      BY <1>1 DEF Close, Subscribe, Unsubscribe
    <2> QED
      BY <1>1, <2>1, TableKeepsPub, HubKeepsProc
  <1>2. ASSUME NEW c \in Channels \ {Proc}, Receive(c), UNCHANGED procVars
        PROVE  HubInv'
    <2>1. UNCHANGED <<buffer[Proc], sent[Proc]>>
      BY <1>2, HubAssumption DEF Receive, PubInv, TypeOK
    <2> QED
      BY <1>2, <2>1, ReceiveKeepsPub, HubKeepsProc
  <1>3. ASSUME NEW p \in Publishers, PublishBegins(p), UNCHANGED procVars
        PROVE  HubInv'
    <2>1. UNCHANGED <<buffer, sent>>
      BY <1>3 DEF PublishBegins
    <2> QED
      BY <1>3, <2>1, BeginKeepsPub, HubKeepsProc
  <1>4. ASSUME NEW p \in Publishers, Publish(p), UNCHANGED procVars
        PROVE  HubInv'
    <2>1. CASE SendTaken(p)
      BY <1>4, <2>1, SendKeepsPub, SendKeepsProc
    <2>2. CASE RangeNext(p) \/ RangeEnds(p) \/ SendTimesOut(p) \/ PublishReturns(p)
      <3>1. UNCHANGED <<buffer, sent>>
        BY <2>2 DEF RangeNext, RangeEnds, SendTimesOut, PublishReturns
      <3> QED
        BY <1>4, <2>2, <3>1, RangeKeepsPub, HubKeepsProc
    <2> QED
      BY <1>4, <2>1, <2>2 DEF Publish
  <1>5. CASE HandleMessage
    <2>1. PubInv'
      BY <1>5, HubAssumption, ReceiveKeepsPub DEF HandleMessage
    <2> QED
      BY <1>5, <2>1, HandleKeepsProc
  <1>6. CASE \/ StartProcessor \/ HandlerReturns \/ TimeOut \/ TimeoutReturns
             \/ StopProcessor \/ TimerFires \/ CloseProcessor \/ CloseProcessorReturns
    BY <1>6, StepKeepsProc, StutterKeepsPub
  <1>7. CASE UNCHANGED allVars
    <2>1. UNCHANGED vars /\ UNCHANGED procVars /\ UNCHANGED <<buffer, sent>>
      BY <1>7 DEF allVars, vars
    <2> QED
      BY <2>1, StutterKeepsPub, HubKeepsProc
  <1> QED
    BY <1>1, <1>2, <1>3, <1>4, <1>5, <1>6, <1>7 DEF HubNext, Processing

LEMMA HubInvariant == Spec => []HubInv
  BY InitHub, NextHub, PTL DEF Spec

\* When Publish returns nil, every channel that was subscribed throughout the call has
\* taken the message, though the map was ranged over without its lock; and no
\* channel has a message twice.
THEOREM PublishDelivers == Spec => []NilMeansDelivered
  <1>1. HubInv => NilMeansDelivered
    <2> SUFFICES ASSUME HubInv PROVE NilMeansDelivered
      OBVIOUS
    <2>1. ASSUME NEW p \in Publishers, ppc[p] = "return", ~failed[p], NEW c \in owed[p]
          PROVE  pmsg[p] \in ToSet(sent[c])
      <3>1. c \in Channels /\ Active(p)
        BY <2>1 DEF HubInv, PubInv, TypeOK, Active
      <3>2. Through(p, c)
        BY <2>1 DEF HubInv, PubInv, SentInv, Through
      <3> QED
        BY <2>1, <3>1, <3>2 DEF HubInv, PubInv, SentInv
    <2>2. TypeOK /\ \A c \in Channels : IsInjective(sent[c])
      BY DEF HubInv, PubInv, SentInv
    <2> QED
      BY <2>1, <2>2 DEF NilMeansDelivered
  <1> QED
    BY <1>1, HubInvariant, PTL

\* The processor's handler gets what publishers put into its channel, once and in that
\* order; what it has not got is still in the channel.
THEOREM ProcessorHandlesAll == Spec => []AcceptedIsHandled
  <1>1. HubInv => AcceptedIsHandled
    BY DEF HubInv, ProcInv
  <1> QED
    BY <1>1, HubInvariant, PTL

\* No step after a Close of the started processor has returned calls its handler.
THEOREM ProcessorQuiet == Spec => QuietAfterClose
  <1>1. HubInv /\ [HubNext]_allVars =>
            [cpc = "returned" => pc' = "done" /\ handled' = handled]_allVars
    <2> SUFFICES ASSUME HubInv, HubNext, cpc = "returned"
                 PROVE  pc' = "done" /\ handled' = handled
      OBVIOUS
    <2>1. pc = "done"
      BY DEF HubInv, ProcInv
    <2> QED
      BY <2>1 DEF HubNext, Processing, procVars, StartProcessor, HandleMessage,
            HandlerReturns, TimeOut, TimeoutReturns, StopProcessor, TimerFires,
            CloseProcessor, CloseProcessorReturns, P!Start, P!TakeMessage,
            P!OnMessageReturns, P!TakeTick, P!OnTimeoutReturns, P!Stop, P!TimerFires,
            P!CloseKill, P!CloseReturns
  <1> QED
    BY <1>1, HubInvariant, PTL DEF Spec, QuietAfterClose
=============================================================================
