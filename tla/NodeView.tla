------------------------------- MODULE NodeView -------------------------------
(***************************************************************************)
(* What is shown of a node (View in src/spec/v1/node.go), and the typed    *)
(* accessors of its report.  A node reports its "node" and "nodestats" in  *)
(* one of two shapes: a cluster's are objects of members, a single node's  *)
(* have the fields of the one member.  View turns the second into the      *)
(* first, in the report itself, with Go structures in place of JSON        *)
(* objects; further reports are merged over it.                            *)
(*                                                                         *)
(* Documents are NodeShadow's.  A quantity is [n, u], with one of Units    *)
(* ("1" if it has no suffix).                                              *)
(***************************************************************************)
EXTENDS NodeShadow, FiniteSets

CONSTANTS
    Reports,    \* the documents nodes report
    InfoLists,  \* what SetAppInfos is called with
    Timeout,    \* View's argument
    MaxNow      \* bound: the clock

\* The empty string.
Blank == ""

InfoFields == {"hostname", "os", "containerRuntime", "role"}
StatsFields == {"ready", "usage", "capacity", "extension"}

Keys(doc) == {p[1] : p \in DOMAIN doc}

\* What the object at key k holds; nothing if there is none.
Part(doc, k) ==
    [p \in {Tail(q) : q \in {r \in DOMAIN doc : r[1] = k /\ Len(r) > 1}} |-> doc[<<k>> \o p]]

\* An object that holds doc, at key k.
Under(k, doc) ==
    [p \in {<<k>>} \cup {<<k>> \o q : q \in DOMAIN doc} |-> IF p = <<k>> THEN Object ELSE doc[Tail(p)]]

\* The document of one value, and two documents with different keys side by side.
Put(k, v) == [p \in {<<k>>} |-> v]
Join(a, b) == [p \in DOMAIN a \cup DOMAIN b |-> IF p \in DOMAIN a THEN a[p] ELSE b[p]]

Only(doc, ks) == Restrict(doc, {p \in DOMAIN doc : p[1] \in ks})

\* The values at the keys of a document, as a Go map has them.
Fields(doc) == [k \in Keys(doc) |-> doc[<<k>>]]

-----------------------------------------------------------------------------
(* The two shapes                                                          *)

\* Decoding as an object of structures succeeds if every value is an object.
DecodesAsMembers(doc) == \A k \in Keys(doc) : doc[<<k>>] = Object

Hostname(doc) == IF "hostname" \in Keys(doc) THEN doc[<<"hostname">>][2] ELSE Blank

\* Faulty variant: an object among the values makes it a cluster's.
compatibleSingleNodeAny(rep) ==
    LET node == Part(rep, "node")
        members == {k \in Keys(node) : node[<<k>>] = Object}
        rest == Only(rep, Keys(rep) \ {"node"})
    IN  IF node = EmptyDoc THEN rep
        ELSE IF members # {} THEN Join(rest, Under("node", Only(node, members)))
        ELSE Join(rest, Under("node", Under(Hostname(node), node)))

\* compatibleSingleNode: the node decides for the statistics too.
compatibleSingleNode(rep) ==
    LET node == Part(rep, "node")
        info == Join(Put("role", <<"leaf", "master">>), Only(node, InfoFields \ {"role"}))
        stats == Only(Part(rep, "nodestats"), StatsFields)
        member(k, doc) == IF k \in Keys(rep) THEN Under(k, Under(Hostname(node), doc)) ELSE EmptyDoc
    IN  IF "node" \notin Keys(rep) \/ DecodesAsMembers(node) THEN rep
        ELSE Join(Only(rep, Keys(rep) \ {"node", "nodestats"}),
                  Join(member("node", info), member("nodestats", stats)))

-----------------------------------------------------------------------------
(* Statistics                                                              *)

Units == {"n", "m", "1", "Ki", "bad"}

Ceil(a, b) == (a + b - 1) \div b

\* Faulty variant: the value is cut to whole units before it is scaled.
translateQuantityCut(q, milli) ==
    (CASE q.u = "1" -> q.n [] q.u = "Ki" -> 1024 * q.n
       [] q.u = "m" -> q.n \div 1000 [] OTHER -> 0) * (IF milli THEN 1000 ELSE 1)

\* Value and MilliValue round up.
translateQuantityToDecimal(q, milli) ==
    LET v == [q EXCEPT !.n = IF milli THEN 1000 * @ ELSE @]
    IN  CASE q.u = "1" -> v.n [] q.u = "Ki" -> 1024 * v.n
          [] q.u = "m" -> Ceil(v.n, 1000) [] OTHER -> Ceil(v.n, 1000000000)

\* populateMemoryResource, populateCPUResource: the number the quantity is replaced by,
\* for the CPU in thousandths.
populateResource(r, q) == translateQuantityToDecimal(q, r = "cpu")

Populated(r, map) == [map EXCEPT ![r] = <<"leaf", populateResource(r, @[2])>>]

\* A share of the capacity as a fraction; it is shown as 0 if one of both is not known.
processResourcePercent(r, usage, capacity) ==
    LET u == populateResource(r, usage[r][2])
        total == populateResource(r, capacity[r][2])
    IN  IF r \notin DOMAIN usage \/ r \notin DOMAIN capacity \/ total = 0 THEN <<0, 1>>
        ELSE IF u >= total THEN <<1, 1>> ELSE <<u, total>>

\* populateGPUStats, populateDiskNetStats: where the fields of the extension go.
ExtensionKeys ==
    [usedMemory |-> <<"usage", "gpu">>, totalMemory |-> <<"capacity", "gpu">>,
     percent |-> <<"percent", "gpu">>, diskUsed |-> <<"usage", "disk">>,
     diskTotal |-> <<"capacity", "disk">>, diskPercent |-> <<"percent", "disk">>,
     netBytesSent |-> <<"netio", "netBytesSent">>]

\* A value that is no number counts as 0.
FromExtension(ext, kind) ==
    LET ks == {k \in DOMAIN ext \cap DOMAIN ExtensionKeys : ExtensionKeys[k][1] = kind}
    IN  [r \in {ExtensionKeys[k][2] : k \in ks} |->
            LET k == CHOOSE j \in ks : ExtensionKeys[j][2] = r
            IN  IF ext[k][1] = "leaf" /\ ext[k][2] \in Nat THEN ext[k] ELSE <<"leaf", 0>>]

Resources == {"cpu", "memory"}

\* One member's NodeStats after populateNodeStats.
Stats(s) ==
    LET usage == Fields(Part(s, "usage"))
        capacity == Fields(Part(s, "capacity"))
        ext == Fields(Part(s, "extension"))
        Numbers(m) == [r \in DOMAIN m |-> IF r \in Resources THEN Populated(r, m)[r] ELSE m[r]]
        Shares == [r \in Resources |-> <<"leaf", processResourcePercent(r, usage, capacity)>>]
    IN  [usage    |-> Join(FromExtension(ext, "usage"), Numbers(usage)),
         capacity |-> Join(FromExtension(ext, "capacity"), Numbers(capacity)),
         percent  |-> Join(FromExtension(ext, "percent"), Shares),
         netio    |-> FromExtension(ext, "netio")]

AppList(rep, k) == IF k \in Keys(rep) THEN rep[<<k>>][2] ELSE <<>>
StatsKeys == {"appstats", "sysappstats"}

BadQuantity(m) == \E r \in DOMAIN m \cap Resources : m[r][2].u = "bad"

\* Decoding the report into a ReportView or populating it gives an error.
ViewFails(rep) ==
    \/ \E k \in {"node", "nodestats"} : ~DecodesAsMembers(Part(rep, k))
    \/ \E h \in Keys(Part(rep, "nodestats")) :
        LET s == Part(Part(rep, "nodestats"), h)
        IN  BadQuantity(Fields(Part(s, "usage"))) \/ BadQuantity(Fields(Part(s, "capacity")))
    \/ \E k \in StatsKeys : \E i \in DOMAIN AppList(rep, k) :
        \E ins \in AppList(rep, k)[i].instances : BadQuantity(ins.usage)

-----------------------------------------------------------------------------
(* The view                                                                *)

NodeUninstall == 0
NodeOnline == 1
NodeOffline == 2

Ready(rep, t) ==
    IF "time" \notin Keys(rep) THEN NodeUninstall
    ELSE IF t < rep[<<"time">>][2] + Timeout THEN NodeOnline ELSE NodeOffline

translateResourceQuantity(ins) ==
    [ins EXCEPT !.usage = [r \in DOMAIN @ |-> IF r \in Resources THEN Populated(r, @)[r] ELSE @[r]]]

\* translateServiceResourceQuantity and resetNodeAppStats.
ShownApps(rep, k, ready) ==
    [i \in DOMAIN AppList(rep, k) |->
        [AppList(rep, k)[i] EXCEPT !.status = IF ready = NodeOnline THEN @ ELSE Blank,
                                   !.instances = {translateResourceQuantity(ins) : ins \in @}]]

InstancesIn(rep) ==
    UNION {UNION {{<<k, i, ins>> : ins \in AppList(rep, k)[i].instances} : i \in DOMAIN AppList(rep, k)} :
           k \in StatsKeys}

countInstanceNum(rep) ==
    [h \in {x[3].node : x \in InstancesIn(rep)} |->
        Cardinality({x \in InstancesIn(rep) : x[3].node = h})]

\* A member without a container runtime (and without a machine id, which comes with it).
calculateAppMode(rep) ==
    IF \E h \in Keys(Part(rep, "node")) :
        "containerRuntime" \notin Keys(Part(Part(rep, "node"), h))
    THEN "native" ELSE "kube"

NoView == [known |-> FALSE]

\* View, of a report in the cluster's shape.
ViewOf(rep, t) ==
    LET stats == Part(rep, "nodestats")
    IN  [known |-> TRUE, ready |-> Ready(rep, t),
         nodes |-> [h \in Keys(Part(rep, "node")) |-> Only(Part(Part(rep, "node"), h), InfoFields)],
         stats |-> [h \in Keys(stats) |-> Stats(Part(stats, h))],
         apps |-> [k \in StatsKeys |-> ShownApps(rep, k, Ready(rep, t))],
         num |-> countInstanceNum(rep), mode |-> calculateAppMode(rep)]

-----------------------------------------------------------------------------
(* Accessors                                                               *)

\* An AppInfo, and what it is in JSON: empty fields are left out.
AppFields == {"name", "version"}
Infos == [AppFields -> STRING]
Entries == Infos \cup [{"name"} -> STRING] \cup [{"version"} -> STRING] \cup [{} -> STRING]
Encoded(info) == [f \in {g \in AppFields : info[g] # Blank} |-> info[f]]
Decoded(entry) == [f \in AppFields |-> IF f \in DOMAIN entry THEN entry[f] ELSE Blank]

\* Faulty variant: decoded lists are not known.
getAppInfosTyped(rep, isTyped) ==
    [panics |-> FALSE, val |-> IF isTyped THEN AppList(rep, "apps") ELSE <<>>]

\* getAppInfos: a list that was set is returned; of one that was decoded every entry must
\* have both fields, or the type assertion panics.
getAppInfos(rep, isTyped) ==
    LET list == AppList(rep, "apps")
    IN  [panics |-> ~isTyped /\ \E i \in DOMAIN list : DOMAIN list[i] # AppFields,
         val |-> list]

-----------------------------------------------------------------------------
(* What nodes report                                                       *)

Quantities == [n : Nat, u : Units]

\* Where a quantity is, in a single node's report and in a cluster's.
IsAmount(p) ==
    \/ Len(p) = 3 /\ p[1] = "nodestats" /\ p[2] \in {"usage", "capacity"}
    \/ Len(p) = 4 /\ p[1] = "nodestats" /\ p[3] \in {"usage", "capacity"}

\* The value v at path p, as the code decodes it.  The CPU is not counted in Ki, and
\* nodes are not called like the fields of their statistics.
WellFormed(p, v) ==
    /\ p \in {<<k>> : k \in StatsKeys} =>
        \A i \in DOMAIN v[2] : {"status", "instances"} \subseteq DOMAIN v[2][i]
    /\ p \in {<<"node">>, <<"nodestats">>} => v \in {Object, Null}
    /\ p = <<"node", "hostname">> => v[1] = "leaf" /\ v[2] \in JsonKeys \ (StatsFields \cup {"hostname"})
    /\ IsAmount(p) => v[1] = "leaf" /\ v[2] \in Quantities /\ (p[Len(p)] = "cpu" => v[2].u # "Ki")

\* The report is in the shape of a single node.
Single(doc) == "hostname" \in Keys(Part(doc, "node"))

\* A node is reported in one of the two shapes, and it is not so deep that its merge fails.
ASSUME ReportsAssumption ==
    /\ \A doc \in Reports :
        /\ IsDoc(doc) /\ \A p \in DOMAIN doc : WellFormed(p, doc[p])
        /\ Single(doc) \/ DecodesAsMembers(Part(doc, "node"))
        /\ \A p \in DOMAIN doc : p[1] = "node" /\ doc[p] = Object => Len(p) + 1 < MaxDepth
        /\ "apps" \in Keys(doc) => doc[<<"apps">>] # Object /\ AppList(doc, "apps") \in Seq(Entries)
    /\ InfoLists \subseteq Seq(Infos)

\* A node without a name is called Blank.
ASSUME KeysAssumption ==
    {Blank, "node", "nodestats", "time", "apps"} \cup StatsKeys \cup InfoFields \cup StatsFields \cup Resources
        \subseteq JsonKeys

-----------------------------------------------------------------------------
VARIABLES
    now,
    typed,      \* the keys of the report that hold Go structures
    infos,      \* history: the apps that were set or reported last
    hidden,     \* history: the last report was a cluster's over a single node's
    view        \* what View returned last

viewVars == <<shadowVars, now, typed, infos, hidden, view>>

ViewInit ==
    /\ ShadowInit /\ now = 0 /\ typed = {} /\ infos = <<>> /\ hidden = FALSE
    /\ view = NoView

TickView == now < MaxNow /\ now' = now + 1 /\ UNCHANGED <<shadowVars, typed, infos, hidden, view>>

\* Report.Merge asserts that the object it merges an object into is a
\* map[string]interface{}.
MergePanics(doc) ==
    \E k \in typed \cap {"node", "nodestats"} : <<k>> \in DOMAIN doc /\ doc[<<k>>] = Object

\* What becomes of the keys when doc was merged.
Merges(doc) ==
    /\ typed' = typed \ Keys(doc)
    /\ infos' = IF "apps" \notin Keys(doc) THEN infos
                ELSE [i \in DOMAIN AppList(doc, "apps") |-> Decoded(AppList(doc, "apps")[i])]

ReportNode(doc) ==
    /\ ~MergePanics(doc)
    /\ MergeReport(doc) /\ Merges(doc)
    /\ hidden' = (Single(report') /\ ~Single(doc))
    /\ UNCHANGED <<now, view>>

ReportNodeFails(doc, part) ==
    /\ ~MergePanics(doc)
    /\ MergeReportFails(doc, part) /\ Merges(part)
    /\ UNCHANGED <<now, hidden, view>>

\* The panic takes the node along; there is a new one.
ReportNodePanics(doc) ==
    /\ MergePanics(doc)
    /\ report' = EmptyDoc /\ last' = [op |-> "panic", doc |-> doc]
    /\ typed' = {} /\ infos' = <<>> /\ view' = NoView
    /\ UNCHANGED <<desire, now, hidden>>

\* history: the report was changed since it was merged.
Touched == [last EXCEPT !.op = IF @ = "report" THEN "touched" ELSE @]

SetAppInfos(list) ==
    /\ report' = Join(Only(report, Keys(report) \ {"apps"}), Put("apps", <<"leaf", list>>))
    /\ typed' = typed \cup {"apps"} /\ infos' = list /\ last' = Touched
    /\ UNCHANGED <<desire, now, hidden, view>>

\* The report is rewritten even if the view then fails.
ViewNode ==
    LET rep == compatibleSingleNode(report)
    IN  /\ report' = rep
        /\ typed' = IF rep = report THEN typed ELSE typed \cup (Keys(rep) \cap {"node", "nodestats"})
        /\ view' = IF ViewFails(rep) THEN NoView ELSE ViewOf(rep, now)
        /\ last' = Touched
        /\ UNCHANGED <<desire, now, infos, hidden>>

\* The node is stored as JSON and loaded.
Reload ==
    /\ typed # {} /\ typed' = {}
    /\ report' = IF "apps" \notin typed THEN report
                 ELSE [report EXCEPT ![<<"apps">>] =
                        <<"leaf", [i \in DOMAIN @[2] |-> Encoded(@[2][i])]>>]
    /\ last' = Touched
    /\ UNCHANGED <<desire, now, infos, hidden, view>>

ViewNext ==
    \/ TickView \/ ViewNode \/ Reload
    \/ \E doc \in Reports :
        \/ ReportNode(doc) \/ ReportNodePanics(doc)
        \/ \E part \in Parts(report, doc) : ReportNodeFails(doc, part)
    \/ \E list \in InfoLists : SetAppInfos(list)

ViewSpec == ViewInit /\ [][ViewNext]_viewVars

-----------------------------------------------------------------------------
\* The members a report speaks of, with their fields.
Members(doc, k, fields) ==
    IF Single(doc) THEN [h \in {Hostname(Part(doc, "node"))} |-> Only(Part(doc, k), fields)]
    ELSE [h \in Keys(Part(doc, k)) |-> Only(Part(Part(doc, k), h), fields)]

\* After a report the view shows all of what it says of its node, whatever was shown,
\* stored and merged before, and in either shape; a cluster's report is hidden, though, as
\* long as the fields of a single node are still there, and a single node is always shown
\* as the master.
ViewShowsReport ==
    LET doc == last.doc
        rep == compatibleSingleNode(report)
        nodes == Members(doc, "node", IF Single(doc) THEN InfoFields \ {"role"} ELSE InfoFields)
        stats == Members(doc, "nodestats", StatsFields)
        shown == ViewOf(rep, now)
    IN  last.op \in {"report", "touched"} /\ {"node", "nodestats"} \subseteq Keys(doc)
        /\ ~hidden /\ ~ViewFails(rep) =>
            /\ \A h \in DOMAIN nodes : h \in DOMAIN shown.nodes /\ Says(shown.nodes[h], nodes[h])
            /\ \A h \in DOMAIN stats :
                /\ h \in DOMAIN shown.stats
                /\ LET usage == Fields(Part(stats[h], "usage"))
                       capacity == Fields(Part(stats[h], "capacity"))
                   IN  \A r \in Resources \cap DOMAIN usage \cap DOMAIN capacity :
                        shown.stats[h].percent[r][2] = processResourcePercent(r, usage, capacity)

\* A quantity in 10^-9 of a unit, where Milli are a thousandth of it.
Milli == 1000000
Nano(q) == CASE q.u = "1" -> 1000 * Milli * q.n [] q.u = "m" -> Milli * q.n [] OTHER -> q.n

\* What is shown is consistent: a CPU is full only if less than a thousandth is left and
\* always if nothing is, and statuses are only shown of a node that is online.
ViewConsistent ==
    view.known /\ ~ViewFails(report) =>
        /\ \A h \in Keys(Part(report, "nodestats")) :
            LET s == Part(Part(report, "nodestats"), h)
                used == Fields(Part(s, "usage"))
                all == Fields(Part(s, "capacity"))
                full == Stats(s).percent["cpu"][2] = <<1, 1>>
            IN  "cpu" \in DOMAIN used \cap DOMAIN all /\ all["cpu"][2].n # 0 =>
                    /\ Nano(used["cpu"][2]) >= Nano(all["cpu"][2]) => full
                    /\ full => Nano(used["cpu"][2]) > Nano(all["cpu"][2]) - Milli
        /\ \A k \in StatsKeys : \A i \in DOMAIN view.apps[k] :
            view.ready = NodeOnline \/ view.apps[k][i].status = Blank

\* The accessor returns the apps that were set or reported last, after any number of
\* views, merges and reloads.  It panics only if they came as JSON, from a report or from
\* the store, and one of them has no name or no version, which JSON leaves out.
InfosSurvive ==
    LET got == getAppInfos(report, "apps" \in typed)
    IN  /\ got.panics => "apps" \notin typed /\ \E i \in DOMAIN infos : Blank \in Range(infos[i])
        /\ ~got.panics => got.val = infos
=============================================================================
