------------------------------ MODULE TopicRules ------------------------------
(***************************************************************************)
(* MQTT topics: which ones are accepted (mqtt/topic.go), with what QoS a   *)
(* published one is delivered (mqtt/gomqtt.go), and of which device it is  *)
(* (dmcontext/observer.go).                                                *)
(*                                                                         *)
(* A topic is the sequence of its levels and a level the sequence of its   *)
(* parts: a wildcard, a "$", a NUL, or a word that has none of them.       *)
(***************************************************************************)
EXTENDS Integers, Sequences, SequencesExt

CONSTANTS
    CheckedLevels,      \* levels of the topics that are checked
    DeviceLevels,       \* levels of the topics that are parsed for a device
    SysTopics,          \* arguments of NewTopicChecker: sets of levels; {} for CheckTopic
    Subscriptions,      \* what is subscribed to: pairs of a filter and its QoS
    MaxParsedLevels,    \* bound: levels of the topics that are parsed for a device
    MaxTopicLevels,     \* 9 in the code
    MaxTopicLength      \* 255 in the code

ASSUME TopicsAssumption ==
    /\ CheckedLevels \cup DeviceLevels \subseteq Seq(STRING)
    /\ MaxTopicLevels \in Nat /\ MaxParsedLevels \in Nat
    /\ \A s \in Subscriptions : s[2] \in Nat

VARIABLE topicCall      \* the last call with its result

NoTopicCall == <<"none">>

Plus == <<"+">>
Hash == <<"#">>
HasWildcard(level) == Contains(level, "+") \/ Contains(level, "#")
HasPrefix(level) == level # <<>> /\ level[1] = "$"
Lengths(topic) == [i \in DOMAIN topic |-> Len(topic[i])]
Length(topic) == Len(topic) - 1 + SumFunction(Lengths(topic))

-----------------------------------------------------------------------------
\* Faulty variant: a wildcard is looked for only where none may be.
LevelOkLax(level, final, wildcard) ==
    /\ ~wildcard => ~HasWildcard(level)
    /\ level = Hash => final

LevelOk(level, final, wildcard) ==
    /\ Len(level) > 1 => ~HasWildcard(level)
    /\ ~wildcard => level \notin {Plus, Hash}
    /\ level = Hash => final

\* A "$" level in front is not counted, and has to be one of the given ones if there are
\* any.
checkTopic(topic, wildcard, sysTopics) ==
    LET sys == HasPrefix(topic[1])
        skipped == IF sys THEN 1 ELSE 0
    IN  /\ topic # << <<>> >>
        /\ Length(topic) <= MaxTopicLength
        /\ \A i \in DOMAIN topic : ~Contains(topic[i], "NUL")
        /\ sys => /\ Len(topic) >= 2
                  /\ IF sysTopics = {} THEN ~HasWildcard(topic[1]) ELSE topic[1] \in sysTopics
        /\ Len(topic) - skipped <= MaxTopicLevels
        /\ \A i \in skipped + 1 .. Len(topic) : LevelOk(topic[i], i = Len(topic), wildcard)

CheckTopic(topic, sysTopics) ==
    topicCall' = <<"check", topic, sysTopics, checkTopic(topic, FALSE, sysTopics),
                   checkTopic(topic, TRUE, sysTopics)>>

\* What MQTT says: whether a filter matches a topic.  # stands for any number of levels,
\* none too.
Match(filter, topic) ==
    /\ \/ Len(topic) = Len(filter)
       \/ Len(topic) >= Len(filter) - 1 /\ Last(filter) = Hash
    /\ \A i \in DOMAIN filter :
        \/ i \in DOMAIN topic /\ filter[i] = topic[i]
        \/ filter[i] \in {Plus, Hash} /\ (filter[i] = Hash => i = Len(filter))
           /\ (i = 1 => ~HasPrefix(topic[1]))

\* trie: subscriptions, pairs of a filter and its QoS.  The loop leaves with the first QoS
\* below 1.
MatchTopicQOS(trie, topic) ==
    LET ss == {s[2] : s \in {s \in trie : Match(s[1], topic)}} IN
    topicCall' = <<"qos", trie, topic, ss # {}, IF \E us \in ss : us < 1 THEN 0 ELSE 1>>

-----------------------------------------------------------------------------
\* The ways to read levels as k texts, none of them empty, with slashes between: where each
\* text but the last one ends.
Cuts(levels, k) ==
    {c \in [0 .. k -> 0 .. Len(levels)] :
        /\ c[0] = 0 /\ c[k] = Len(levels)
        /\ \A i \in 1 .. k : c[i] > c[i-1] /\ (c[i] = c[i-1] + 1 => levels[c[i]] # <<>>)}

\* The first texts are as long as they can be.
Greedy(levels, k) ==
    CHOOSE c \in Cuts(levels, k) : \A d \in Cuts(levels, k) \ {c} :
        \E i \in 1 .. k : c[i] > d[i] /\ \A h \in 1 .. i - 1 : c[h] = d[h]

\* The expression: levels given in front, then k texts; it is found anywhere in the topic,
\* at its first place, which may be inside of a level: its first level is the end of one.
Submatch(topic, front, k, group) ==
    LET after(i) == SubSeq(topic, i + Len(front), Len(topic))
        places == {i \in 1 .. Len(topic) :
            /\ IsSuffix(front[1], topic[i])
            /\ IsPrefix(Tail(front), SubSeq(topic, i + 1, Len(topic)))
            /\ Cuts(after(i), k) # {}}
        first == CHOOSE i \in places : \A j \in places : i <= j
        cut == Greedy(after(first), k)
    IN  IF places = {} THEN <<>>
        ELSE SubSeq(after(first), cut[group - 1] + 1, cut[group])

parseBlinkTopic(topic) == Submatch(topic, << <<"thing">> >>, 4, 2)
ParseTopic(topic) == Submatch(topic, << <<"$", "baetyl">>, <<"device">> >>, 2, 1)

\* The levels of the device's name; none for an error.
Device(topic) == IF HasPrefix(topic[1]) THEN ParseTopic(topic) ELSE parseBlinkTopic(topic)
ParseDeviceTopic(topic) == topicCall' = <<"device", topic, Device(topic)>>

-----------------------------------------------------------------------------
TopicInit == topicCall = NoTopicCall

\* Bound: topics of one level more than is accepted, and two subscriptions.
Topic(n, levels) == UNION {[1 .. k -> levels] : k \in 1 .. n}

TopicNext ==
    \/ \E topic \in Topic(MaxTopicLevels + 2, CheckedLevels), sysTopics \in SysTopics :
        CheckTopic(topic, sysTopics)
    \/ \E a, b \in Subscriptions, topic \in Topic(3, {<<"w">>, <<"$", "w">>}) :
        MatchTopicQOS({a, b}, topic)
    \/ \E topic \in Topic(MaxParsedLevels, DeviceLevels) : ParseDeviceTopic(topic)

TopicSpec == TopicInit /\ [][TopicNext]_topicCall

\* A topic is accepted for subscribing exactly if it matches some topic of as many levels
\* that is accepted for publishing, and accepted for publishing exactly if it matches
\* itself only.
FiltersUseful ==
    topicCall[1] = "check" =>
        LET t == topicCall[2]
            instances == {[i \in DOMAIN t |-> IF i \in S THEN <<"w">> ELSE t[i]] : S \in SUBSET DOMAIN t}
        IN  /\ topicCall[5] <=>
                \E u \in instances : checkTopic(u, FALSE, topicCall[3]) /\ Match(t, u)
            /\ topicCall[4] <=>
                topicCall[5] /\ \A u \in instances : Match(t, u) => u = t

Granted(trie, topic) == {s[2] : s \in {s \in trie : Match(s[1], topic)}}

\* MatchTopicQOS (mqtt/gomqtt.go) says of itself that it returns the lowest QoS if a topic
\* is matched.  It does not: subscriptions of QoS 2 alone make it return 1.
LowestQOS ==
    topicCall[1] = "qos" /\ topicCall[4] =>
        LET ss == Granted(topicCall[2], topicCall[3])
        IN  topicCall[5] \in ss /\ \A q \in ss : topicCall[5] <= q

\* What it returns: the lowest QoS of the matching subscriptions or 1, whichever is less.
CappedQOS ==
    topicCall[1] = "qos" =>
        LET ss == Granted(topicCall[2], topicCall[3])
        IN  /\ topicCall[4] <=> ss # {}
            /\ topicCall[5] \in ss \cup {1} /\ \A q \in ss \cup {1} : topicCall[5] <= q

\* $baetyl/device/<device>/<any> and thing/<any>/<device>/<any>/<any> are of that device,
\* also when the names repeat the words of the pattern; no level more or less makes a topic
\* one of another device: a device of one level stands at its place from the end, wherever
\* the pattern was found.
DevicesRouted ==
    topicCall[1] = "device" =>
        LET t == topicCall[2]
            d == topicCall[3]
            n == Len(t)
            whole == \A i \in 1 .. n : t[i] # <<>>
        IN  /\ whole /\ n = 4 /\ t[1] = <<"$", "baetyl">> /\ t[2] = <<"device">> => d = << t[3] >>
            /\ whole /\ n = 5 /\ t[1] = <<"thing">> => d = << t[3] >>
            /\ whole /\ Len(d) = 1 => d = IF HasPrefix(t[1]) THEN << t[n - 1] >> ELSE << t[n - 2] >>

TopicsSound == FiltersUseful /\ CappedQOS /\ DevicesRouted
=============================================================================
