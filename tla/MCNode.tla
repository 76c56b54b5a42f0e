-------------------------------- MODULE MCNode --------------------------------
(***************************************************************************)
(* Shadows and views of nodes for TLC, each in behaviours of its own.      *)
(***************************************************************************)
EXTENDS NodeView

MCKeys == STRING

Leaf(k, v) == Put(k, <<"leaf", v>>)

\* Documents of five levels: two keys at the top (the second with few values), one below,
\* and two levels between with one key each.
Inner == {EmptyDoc, Leaf("d", 1), Leaf("d", 2)}
Lower == {EmptyDoc, Put("c", Null), Leaf("c", 1), Leaf("c", 2)} \cup {Under("c", doc) : doc \in Inner}
First ==
    {EmptyDoc, Put("a", Null), Leaf("a", 1)}
        \cup {Under("a", Under("x", Under("y", doc))) : doc \in Lower}
Second == {EmptyDoc, Leaf("b", 1), Under("b", EmptyDoc), Under("b", Under("c", Leaf("d", 1)))}

MCDocs == {a @@ b : a \in First, b \in Second}

Q(n, u) == [n |-> n, u |-> u]
Amounts(cpu, mem) == Leaf("cpu", cpu) @@ Leaf("memory", mem)
Usage(cpu, mem, cap) ==
    Under("usage", Amounts(cpu, mem)) @@ Under("capacity", Amounts(cap, Q(1, "Ki")))

SingleNode(host, os) == Under("node", Leaf("hostname", host) @@ Leaf("os", os))
Member(host, os) ==
    Under(host, Leaf("hostname", host) @@ Leaf("os", os) @@ Leaf("containerRuntime", "docker"))

AppStat(status, instances) == [status |-> status, instances |-> instances]
Instance(name, node, cpu) == [name |-> name, node |-> node, usage |-> "cpu" :> <<"leaf", cpu>>]

\* A single node that is renamed, whose statistics come alone once, a cluster of two, one
\* of them with an extension that is too deep to be merged, applications, and a report that
\* takes the node back, with an application that has no version and a quantity that does
\* not parse.
MCReports ==
    {SingleNode("h", 1) @@ Leaf("time", 0)
        @@ Under("nodestats", Leaf("ready", 1) @@ Usage(Q(1, "1"), Q(1, "Ki"), Q(1500, "m"))),
     SingleNode("g", 2) @@ Leaf("time", 1)
        @@ Under("nodestats", Usage(Q(1, "n"), Q(512, "1"), Q(0, "1"))),
     Under("nodestats", Leaf("ready", 1) @@ Usage(Q(1, "n"), Q(1, "Ki"), Q(1, "m"))),
     Under("node", Member("h", 3) @@ Member("k", 3)) @@ Leaf("time", 1)
        @@ Under("nodestats", Under("h", Usage(Q(1500, "m"), Q(1, "1"), Q(1, "1")))
            @@ Under("k", Under("extension", Under("percent", EmptyDoc) @@ Leaf("diskUsed", 7)))),
     Leaf("appstats", <<AppStat("Running", {Instance("i", "h", Q(1, "m")), Instance("j", "k", Q(2, "1"))})>>)
        @@ Leaf("sysappstats", <<AppStat("Running", {Instance("i", "h", Q(1, "m"))})>>)
        @@ Leaf("apps", <<[name |-> "a", version |-> "1"]>>),
     Put("node", Null) @@ Leaf("apps", <<[name |-> "c"]>>)
        @@ Leaf("appstats", <<AppStat("Running", {Instance("i", "h", Q(1, "bad"))})>>)}

MCInfoLists == {<<[name |-> "a", version |-> "2"], [name |-> "b", version |-> ""]>>}

\* A behaviour of the one kind has not begun the other.
NodeNext ==
    \/ now = 0 /\ view = NoView /\ typed = {} /\ infos = <<>>
       /\ Keys(report) \subseteq {"a", "b"} /\ ShadowNext /\ UNCHANGED <<now, typed, infos, hidden, view>>
    \/ desire = EmptyDoc /\ Keys(report) \cap {"a", "b"} = {} /\ ViewNext

NodeSpec == ViewInit /\ [][NodeNext]_viewVars
=============================================================================
