-------------------------------- MODULE Plugins --------------------------------
(***************************************************************************)
(* The plugins of a process (plugin/register.go): a table of factories and *)
(* one of instances, shared by every goroutine without a lock over both.   *)
(* A name is its text and whether it is written with capitals.             *)
(***************************************************************************)
EXTENDS Naturals, FiniteSets, Functions

CONSTANTS
    Users,      \* goroutines
    Words,      \* texts of names
    Factories,
    MaxGets     \* bound on calls of GetPlugin

ASSUME PluginsAssumption == MaxGets \in Nat

Names == Words \X BOOLEAN
ToLower(name) == <<name[1], FALSE>>

VARIABLES
    pluginFactory,  \* name to factory
    plugins,        \* name to instance
    user,           \* where a goroutine is, with the name, factory and instance in hand
    instances, closed,   \* instances that factories made, and those that Close was called on
    gets,           \* number of calls of GetPlugin
    given,          \* history: what GetPlugin returned, by name
    ranging         \* ClosePlugins: the names not yet visited, of those in the table

pluginVars == <<pluginFactory, plugins, user, instances, closed, gets, given, ranging>>

Nil == "nil"
Idle == [pc |-> "idle", name |-> Nil, f |-> Nil, p |-> Nil]
NotYet == [pc |-> "before", left |-> {}]

PluginInit ==
    /\ pluginFactory = <<>> /\ plugins = <<>> /\ user = [u \in Users |-> Idle]
    /\ instances = {} /\ closed = {} /\ gets = 0 /\ given = {} /\ ranging = NotYet

-----------------------------------------------------------------------------

\* Store of a sync.Map.
Put(table, key, value) ==
    [k \in DOMAIN table \cup {key} |-> IF k = key THEN value ELSE table[k]]

\* The name is looked up and, if it is new, stored by a second step.
RegisterLoads(u, name, f) ==
    /\ user[u].pc = "idle" /\ name \notin DOMAIN pluginFactory
    /\ user' = [user EXCEPT ![u] = [pc |-> "register", name |-> name, f |-> f, p |-> Nil]]
    /\ UNCHANGED <<pluginFactory, plugins, instances, closed, gets, given, ranging>>

RegisterStores(u) ==
    /\ user[u].pc = "register"
    /\ pluginFactory' = Put(pluginFactory, user[u].name, user[u].f)
    /\ user' = [user EXCEPT ![u] = Idle]
    /\ UNCHANGED <<plugins, instances, closed, gets, given, ranging>>

Return(u, name, p) ==
    /\ user' = [user EXCEPT ![u] = Idle]
    /\ given' = given \cup {<<name, p>>}

GetPlugin(u, name) ==
    LET low == ToLower(name) IN
    /\ user[u].pc = "idle" /\ gets < MaxGets
    /\ gets' = gets + 1
    /\ \/ low \in DOMAIN plugins /\ Return(u, low, plugins[low])
       \/ /\ low \notin DOMAIN plugins
          /\ user' = [user EXCEPT ![u] = [pc |-> "lookup", name |-> low, f |-> Nil, p |-> Nil]]
          /\ UNCHANGED given
    /\ UNCHANGED <<pluginFactory, plugins, instances, closed, ranging>>

\* Without a factory, the plugin is not found.
LookupFactory(u) ==
    LET name == user[u].name IN
    /\ user[u].pc = "lookup"
    /\ \/ name \notin DOMAIN pluginFactory /\ user' = [user EXCEPT ![u] = Idle]
       \/ /\ name \in DOMAIN pluginFactory
          /\ user' = [user EXCEPT ![u] = [pc |-> "make", name |-> name, f |-> pluginFactory[name],
                                          p |-> Nil]]
    /\ UNCHANGED <<pluginFactory, plugins, instances, closed, gets, given, ranging>>

FactoryFails(u) ==
    /\ user[u].pc = "make"
    /\ user' = [user EXCEPT ![u] = Idle]
    /\ UNCHANGED <<pluginFactory, plugins, instances, closed, gets, given, ranging>>

FactoryMakes(u) ==
    LET p == [id |-> Cardinality(instances), name |-> user[u].name, by |-> user[u].f] IN
    /\ user[u].pc = "make"
    /\ instances' = instances \cup {p}
    /\ user' = [user EXCEPT ![u].pc = "made", ![u].p = p]
    /\ UNCHANGED <<pluginFactory, plugins, closed, gets, given, ranging>>

\* Faulty variant: the instance is stored over another one's.
LoadOrStoreBlind(u) ==
    /\ user[u].pc = "made"
    /\ plugins' = Put(plugins, user[u].name, user[u].p)
    /\ Return(u, user[u].name, user[u].p)
    /\ UNCHANGED <<pluginFactory, instances, closed, gets, ranging>>

LoadOrStore(u) ==
    LET name == user[u].name IN
    /\ user[u].pc = "made"
    /\ \/ /\ name \in DOMAIN plugins
          /\ user' = [user EXCEPT ![u].pc = "extra"] /\ UNCHANGED <<plugins, given>>
       \/ /\ name \notin DOMAIN plugins
          /\ plugins' = Put(plugins, name, user[u].p)
          /\ Return(u, name, user[u].p)
    /\ UNCHANGED <<pluginFactory, instances, closed, gets, ranging>>

\* Another call was faster: its instance is returned and this one closed.
CloseExtra(u) ==
    /\ user[u].pc = "extra"
    /\ closed' = closed \cup {user[u].p}
    /\ Return(u, user[u].name, plugins[user[u].name])
    /\ UNCHANGED <<pluginFactory, plugins, instances, gets, ranging>>

\* Range visits the names of the table as it was, and may visit later ones.
ClosePlugins ==
    /\ ranging.pc = "before"
    /\ ranging' = [pc |-> "in", left |-> DOMAIN plugins]
    /\ UNCHANGED <<pluginFactory, plugins, user, instances, closed, gets, given>>

CloseNext(name) ==
    /\ ranging.pc = "in" /\ plugins[name] \notin closed
    /\ closed' = closed \cup {plugins[name]}
    /\ ranging' = [ranging EXCEPT !.left = @ \ {name}]
    /\ UNCHANGED <<pluginFactory, plugins, user, instances, gets, given>>

ClosePluginsEnds ==
    /\ ranging.pc = "in" /\ ranging.left = {}
    /\ ranging' = [ranging EXCEPT !.pc = "after"]
    /\ UNCHANGED <<pluginFactory, plugins, user, instances, closed, gets, given>>

PluginNext ==
    \/ \E u \in Users :
        \/ \E name \in Names : (\E f \in Factories : RegisterLoads(u, name, f)) \/ GetPlugin(u, name)
        \/ RegisterStores(u) \/ LookupFactory(u) \/ FactoryFails(u) \/ FactoryMakes(u)
        \/ LoadOrStore(u) \/ CloseExtra(u)
    \/ ClosePlugins \/ (\E name \in DOMAIN plugins : CloseNext(name)) \/ ClosePluginsEnds

PluginSpec == PluginInit /\ [][PluginNext]_pluginVars

-----------------------------------------------------------------------------

\* One plugin per name: whoever asks for a name, however calls of GetPlugin and
\* registrations race, gets the same instance; every instance that lost the race is
\* closed (or its maker is about to), and one that was returned is closed by
\* ClosePlugins only.
PluginsShared ==
    /\ \A a, b \in given : a[1] = b[1] => a[2] = b[2]
    /\ \A p \in instances :
        \/ p \in closed \/ p \in Range(plugins)
        \/ \E u \in Users : user[u].pc \in {"made", "extra"} /\ user[u].p = p
    /\ ranging.pc = "before" => \A g \in given : g[2] \notin closed
=============================================================================
