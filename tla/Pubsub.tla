------------------------------- MODULE Pubsub -------------------------------
(***************************************************************************)
(* The in-memory publish/subscribe hub (src/pubsub/pubsub.go), for one     *)
(* topic.  Publish takes the topic's map of channels under the read lock,  *)
(* but ranges over it after the lock is released, while Subscribe,         *)
(* Unsubscribe and Close may change it: an entry removed before it is      *)
(* reached is not visited, an entry added may or may not be, and a change  *)
(* that meets the iterator in a step of its own is fatal to the process.   *)
(* Close also drops the map itself; the next Subscribe makes another one.  *)
(*                                                                         *)
(* Messages are numbered in the order of the calls of Publish.             *)
(***************************************************************************)
EXTENDS Naturals, Sequences, SequencesExt

CONSTANTS
    Channels,       \* the channels Subscribe makes
    Publishers,     \* goroutines that call Publish
    Size,           \* capacity of a channel
    MaxPublishes,   \* bound: calls of Publish
    MaxMaps         \* bound: maps made for the topic

ASSUME PubsubAssumption ==
    /\ Size \in Nat \ {0}
    /\ MaxPublishes \in Nat
    /\ MaxMaps \in Nat

Maps == 1 .. MaxMaps
None == "none"

VARIABLES
    chs,        \* the content of every map made for the topic
    made,       \* how many maps were made
    current,    \* channels[topic]: one of them, or 0
    fresh,      \* channels that will still be made by Subscribe
    buffer,     \* what is in a channel
    issued,     \* how many messages were published
    ppc,        \* where a call of Publish is: idle, range, send, return; off: never called
    pmap,       \* the map it ranges over
    pmsg,       \* its message
    seen,       \* the channels it has visited
    pch,        \* the channel it sends to
    failed,     \* len(errs) > 0
    owed,       \* history: subscribed since the call began, and still
    sent,       \* history: the messages put into a channel, in order
    crashed     \* the runtime has detected the concurrent map access

vars == <<chs, made, current, fresh, buffer, issued, ppc, pmap, pmsg, seen, pch,
          failed, owed, sent, crashed>>
hubVars == <<chs, made, current, fresh>>
pubVars == <<issued, ppc, pmap, pmsg, seen, pch, failed>>

Init ==
    /\ chs = [m \in Maps |-> {}] /\ made = 0 /\ current = 0
    /\ fresh \in SUBSET Channels
    /\ buffer = [c \in Channels |-> <<>>]
    /\ issued = 0
    /\ ppc \in [Publishers -> {"idle", "off"}]
    /\ pmap = [p \in Publishers |-> 0]
    /\ pmsg = [p \in Publishers |-> 0]
    /\ seen = [p \in Publishers |-> {}]
    /\ pch = [p \in Publishers |-> None]
    /\ failed = [p \in Publishers |-> FALSE]
    /\ owed = [p \in Publishers |-> {}]
    /\ sent = [c \in Channels |-> <<>>]
    /\ crashed = FALSE

-----------------------------------------------------------------------------
Subscribed == IF current = 0 THEN {} ELSE chs[current]

\* A write to map m meets a range over it between two visits.
MapFault(m) ==
    \E p \in Publishers : ppc[p] = "range" /\ pmap[p] = m /\ crashed' = TRUE

\* Subscribe, under the write lock: make the map if there is none, and a channel.
Subscribe(c) ==
    LET m == IF current = 0 THEN made + 1 ELSE current
    IN  /\ c \in fresh /\ m \in Maps
        /\ current' = m
        /\ made' = IF current = 0 THEN made + 1 ELSE made
        /\ chs' = [chs EXCEPT ![m] = @ \cup {c}]
        /\ fresh' = fresh \ {c}
        /\ MapFault(m) \/ UNCHANGED crashed
        /\ UNCHANGED <<buffer, pubVars, owed, sent>>

Forget(S) == owed' = [p \in Publishers |-> owed[p] \ S]

Unsubscribe(c) ==
    /\ c \in Subscribed
    /\ chs' = [chs EXCEPT ![current] = @ \ {c}]
    /\ Forget({c})
    /\ MapFault(current) \/ UNCHANGED crashed
    /\ UNCHANGED <<made, current, fresh, buffer, pubVars, sent>>

\* Close empties the map and drops it.
Close ==
    /\ current # 0
    /\ chs' = [chs EXCEPT ![current] = {}]
    /\ current' = 0
    /\ Forget(Subscribed)
    /\ MapFault(current) \/ UNCHANGED crashed
    /\ UNCHANGED <<made, fresh, buffer, pubVars, sent>>

\* Publish: getChannel, under the read lock; without a map it is over at once.
PublishBegins(p) ==
    /\ ppc[p] = "idle" /\ issued < MaxPublishes
    /\ issued' = issued + 1
    /\ ppc' = [ppc EXCEPT ![p] = IF current = 0 THEN "return" ELSE "range"]
    /\ pmap' = [pmap EXCEPT ![p] = current]
    /\ pmsg' = [pmsg EXCEPT ![p] = issued + 1]
    /\ owed' = [owed EXCEPT ![p] = Subscribed]
    /\ UNCHANGED <<hubVars, buffer, seen, pch, failed, sent, crashed>>

\* The range goes on to an entry it has not visited.
RangeNext(p) ==
    /\ ppc[p] = "range"
    /\ \E c \in chs[pmap[p]] \ seen[p] :
        /\ pch' = [pch EXCEPT ![p] = c]
        /\ seen' = [seen EXCEPT ![p] = @ \cup {c}]
    /\ ppc' = [ppc EXCEPT ![p] = "send"]
    /\ UNCHANGED <<hubVars, buffer, issued, pmap, pmsg, failed, owed, sent, crashed>>

\* The range is over when it has visited what was there when it began; entries
\* that were added since may be skipped.
RangeEnds(p) ==
    /\ ppc[p] = "range"
    /\ owed[p] \cap chs[pmap[p]] \subseteq seen[p]
    /\ ppc' = [ppc EXCEPT ![p] = "return"]
    /\ UNCHANGED <<hubVars, buffer, issued, pmap, pmsg, seen, pch, failed, owed, sent, crashed>>

\* publish: the channel takes the message ...
SendTaken(p) ==
    LET c == pch[p]
    IN  /\ ppc[p] = "send" /\ Len(buffer[c]) < Size
        /\ buffer' = [buffer EXCEPT ![c] = Append(@, pmsg[p])]
        /\ sent' = [sent EXCEPT ![c] = Append(@, pmsg[p])]
        /\ ppc' = [ppc EXCEPT ![p] = "range"]
        /\ pch' = [pch EXCEPT ![p] = None]
        /\ UNCHANGED <<hubVars, issued, pmap, pmsg, seen, failed, owed, crashed>>

\* Faulty variant: the error of one channel is forgotten.
SendTimesOutSilently(p) ==
    /\ ppc[p] = "send"
    /\ ppc' = [ppc EXCEPT ![p] = "range"]
    /\ pch' = [pch EXCEPT ![p] = None]
    /\ UNCHANGED <<hubVars, buffer, issued, pmap, pmsg, seen, failed, owed, sent, crashed>>

\* ... or the timer fires first, and the error is kept.
SendTimesOut(p) ==
    /\ ppc[p] = "send"
    /\ failed' = [failed EXCEPT ![p] = TRUE]
    /\ ppc' = [ppc EXCEPT ![p] = "range"]
    /\ pch' = [pch EXCEPT ![p] = None]
    /\ UNCHANGED <<hubVars, buffer, issued, pmap, pmsg, seen, owed, sent, crashed>>

\* The call is over, and its local variables with it.
PublishReturns(p) ==
    /\ ppc[p] = "return"
    /\ ppc' = [ppc EXCEPT ![p] = "idle"]
    /\ pmap' = [pmap EXCEPT ![p] = 0]
    /\ pmsg' = [pmsg EXCEPT ![p] = 0]
    /\ seen' = [seen EXCEPT ![p] = {}]
    /\ failed' = [failed EXCEPT ![p] = FALSE]
    /\ owed' = [owed EXCEPT ![p] = {}]
    /\ UNCHANGED <<hubVars, buffer, issued, pch, sent, crashed>>

\* A subscriber reads its channel.
Receive(c) ==
    /\ buffer[c] # <<>>
    /\ buffer' = [buffer EXCEPT ![c] = Tail(@)]
    /\ UNCHANGED <<hubVars, pubVars, owed, sent, crashed>>

Publish(p) ==
    \/ RangeNext(p) \/ RangeEnds(p) \/ SendTaken(p) \/ SendTimesOut(p) \/ PublishReturns(p)

-----------------------------------------------------------------------------
TypeOK ==
    /\ chs \in [Maps -> SUBSET Channels] /\ made \in 0 .. MaxMaps
    /\ current \in {0} \cup Maps
    /\ fresh \subseteq Channels
    /\ buffer \in [Channels -> Seq(1 .. MaxPublishes)]
    /\ \A c \in Channels : Len(buffer[c]) <= Size
    /\ issued \in 0 .. MaxPublishes
    /\ ppc \in [Publishers -> {"off", "idle", "range", "send", "return"}]
    /\ pmap \in [Publishers -> {0} \cup Maps]
    /\ pmsg \in [Publishers -> 0 .. MaxPublishes]
    /\ seen \in [Publishers -> SUBSET Channels]
    /\ pch \in [Publishers -> Channels \cup {None}]
    /\ failed \in [Publishers -> BOOLEAN]
    /\ owed \in [Publishers -> SUBSET Channels]
    /\ sent \in [Channels -> Seq(1 .. MaxPublishes)]
    /\ crashed \in BOOLEAN

\* When Publish returns nil, every channel that was subscribed from its
\* beginning to its end has taken the message, whoever else subscribed,
\* unsubscribed or published meanwhile; and no channel is given a message twice.
NilMeansDelivered ==
    /\ TypeOK
    /\ \A p \in Publishers : ppc[p] = "return" /\ ~failed[p] =>
        \A c \in owed[p] : pmsg[p] \in ToSet(sent[c])
    /\ \A c \in Channels : IsInjective(sent[c])
=============================================================================
