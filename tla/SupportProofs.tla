----------------------------- MODULE SupportProofs -----------------------------
(***************************************************************************)
(* Proofs about the smaller components: the allocators of ports and packet *)
(* ids, for every range of ports and every width of ids; the plugins, for  *)
(* any number of goroutines, names and factories; the filter of reports,   *)
(* for all access templates and all sampled numbers; and the topics, for   *)
(* all levels, lists of system topics and subscriptions.                   *)
(***************************************************************************)
EXTENDS Allocators, Plugins, DmReport, TopicRules, FiniteSetTheorems, SequenceTheorems,
        WellFoundedInduction, TLAPS

-----------------------------------------------------------------------------
(* The allocators.  What a step of the scan does to the port it comes to   *)
(* depends on when that port was last come to, which the state does not    *)
(* say directly: the invariant reads it off the offset, and off the next   *)
(* id likewise.  The remainder, which neither of the two needs but at the  *)
(* end of a turn, is taken out by a lemma.                                 *)


\* The number of the probe that came last to a port, or would have, had the scan always gone on.
LastProbe(p) == IF p < base + offset THEN probes - (base + offset - 1 - p)
                ELSE probes - (base + offset - 1 - p) - size

\* The ports that this call has been at.
Passed == {p \in Ports : (p < base + offset /\ p >= base + offset - times)
                         \/ p >= base + offset + size - times}

PortInv ==
    /\ asked \in Int \X Int
    /\ base = asked[1] /\ size = asked[2] - asked[1] + 1 /\ size > 1
    /\ offset \in 0 .. size - 1 /\ times \in 0 .. size /\ probes \in Nat
    /\ handed \in [Ports -> Nat]
    /\ \A p \in Ports : handed[p] # 0 => handed[p] <= LastProbe(p)
    /\ apc \in {"scan", "failed"} => refused = Passed
    /\ apc = "failed" => times = size

\* The same for ids.
LastDraw(i) == IF i < next THEN draws - (next - 1 - i) ELSE draws - (next - 1 - i) - (IdSpace - 1)

IdInv ==
    /\ next \in 0 .. IdSpace - 1 /\ draws \in Nat
    /\ drawn \in [Ids -> Nat] /\ drawn[0] \in {0, 1}
    /\ next = 0 => draws = 0 /\ drawn = [i \in Ids |-> 0]
    /\ \A i \in Ids \ {0} : drawn[i] # 0 => drawn[i] <= LastDraw(i)

TurnInv == (NoPorts \/ PortInv) /\ IdInv

-----------------------------------------------------------------------------
\* The remainder at the end of a turn and before it.
LEMMA TurnMod ==
  ASSUME NEW n \in Nat, n > 1, NEW k \in 0 .. n
  PROVE  k % n = IF k = n THEN 0 ELSE k
  OBVIOUS

\* Ids are counted from 1 to the largest one and then again from 1.
LEMMA IdTurn ==
  ASSUME NEW i \in 0 .. IdSpace - 1
  PROVE  NextCounterID(i) = IF i = IdSpace - 1 THEN 1 ELSE i + 1
  <1>1. Inc(i) = IF i = IdSpace - 1 THEN 0 ELSE i + 1
    <2>1. i + 1 \in 0 .. IdSpace /\ IdSpace \in Nat /\ IdSpace > 1
      BY AllocatorsAssumption
    <2>2. (i + 1) % IdSpace = IF i + 1 = IdSpace THEN 0 ELSE i + 1
      BY <2>1, TurnMod
    <2>3. i + 1 = IdSpace <=> i = IdSpace - 1
      BY <2>1
    <2> QED
      BY <2>2, <2>3 DEF Inc
  <1>2. Inc(0) = 1
    BY TurnMod, AllocatorsAssumption DEF Inc
  <1> QED
    BY <1>1, <1>2, AllocatorsAssumption DEF NextCounterID

\* Before anything was handed out.
LEMMA TurnInit == AllocInit => TurnInv
  BY AllocatorsAssumption DEF AllocInit, NewCounter, NoneDrawn, TurnInv, IdInv, Ids, LastDraw

-----------------------------------------------------------------------------
\* A draw gives the id that was drawn longest ago (Publish, NextID).
LEMMA DrawStep ==
  ASSUME IdInv, NextID
  PROVE  /\ IdInv'
         /\ \A i \in Ids : drawn[i] # 0 /\ drawn'[i] \notin {0, drawn[i]} =>
                drawn'[i] - drawn[i] >= IdSpace - 1
  <1>1. /\ draws' = draws + 1
        /\ next' = IF next = IdSpace - 1 THEN 1 ELSE next + 1
        /\ drawn' = [drawn EXCEPT ![next] = draws + 1]
    BY IdTurn DEF NextID, IdInv
  <1>2. next \in Ids /\ \A i \in Ids : i \in Int /\ i >= 0 /\ i <= IdSpace - 1
    BY AllocatorsAssumption DEF IdInv, Ids
  <1>3. next' \in 1 .. IdSpace - 1 /\ draws' \in Nat
    BY <1>1, AllocatorsAssumption DEF IdInv
  <1>4. drawn' \in [Ids -> Nat] /\ drawn'[0] \in {0, 1}
    BY <1>1, <1>2 DEF IdInv
  <1>5. \A i \in Ids \ {0} : drawn'[i] # 0 => drawn'[i] <= LastDraw(i)'
    BY <1>1, <1>2, AllocatorsAssumption DEF IdInv, LastDraw
  <1>6. \A i \in Ids : drawn[i] # 0 /\ drawn'[i] \notin {0, drawn[i]} =>
            drawn'[i] - drawn[i] >= IdSpace - 1
    BY <1>1, <1>2, AllocatorsAssumption DEF IdInv, LastDraw
  <1> QED
    BY <1>3, <1>4, <1>5, <1>6, next' # 0 DEF IdInv

\* Publish and Reset keep the order of the ids.
LEMMA IdStep ==
  ASSUME IdInv, IdNext
  PROVE  /\ IdInv'
         /\ \A i \in Ids : drawn[i] # 0 /\ drawn'[i] \notin {0, drawn[i]} =>
                drawn'[i] - drawn[i] >= IdSpace - 1
  <1>1. CASE NextID
    BY <1>1, DrawStep
  <1>2. CASE UNCHANGED idVars
    BY <1>2 DEF idVars, IdInv, LastDraw
  <1>3. CASE Reset
    BY <1>3, AllocatorsAssumption DEF Reset, IdInv, LastDraw, Ids
  <1> QED
    BY <1>1, <1>2, <1>3 DEF IdNext, Publish

-----------------------------------------------------------------------------
\* The scan comes to the port it was at longest ago (Allocate).
LEMMA ProbeStep ==
  ASSUME PortInv, Probe
  PROVE  /\ PortInv'
         /\ \A p \in DOMAIN handed : handed[p] # 0 /\ handed'[p] # handed[p] =>
                handed'[p] - handed[p] >= asked[2] - asked[1] + 1
  <1>1. /\ offset' = IF offset + 1 = size THEN 0 ELSE offset + 1
        /\ probes' = probes + 1
        /\ UNCHANGED <<asked, base, size>>
    <2>1. size \in Nat /\ offset + 1 \in 0 .. size
      BY DEF PortInv
    <2> QED
      BY <2>1, TurnMod DEF Probe, PortInv
  <1>2. /\ base + offset \in Ports /\ Ports' = Ports
        /\ \A p \in Ports : p \in Int /\ p >= base /\ p < base + size
    BY <1>1 DEF PortInv, Ports
  <1>3. offset' \in 0 .. size' - 1 /\ probes' \in Nat
    BY <1>1 DEF PortInv
  <1>4. \A p \in Ports : LastProbe(p)' = IF p = base + offset THEN probes + 1 ELSE LastProbe(p)
    BY <1>1, <1>2 DEF PortInv, LastProbe
  <1>5. LastProbe(base + offset) = probes + 1 - size
    BY DEF PortInv, LastProbe
  <1>6. CASE CheckPortAvailable(base + offset)
    <2>1. /\ handed' = [handed EXCEPT ![base + offset] = probes + 1]
          /\ apc' = "idle" /\ times' = times
      BY <1>1, <1>6 DEF Probe
    <2>2. handed' \in [Ports' -> Nat]
      BY <1>2, <1>3, <2>1 DEF PortInv
    <2>3. \A p \in Ports : handed'[p] # 0 => handed'[p] <= LastProbe(p)'
      BY <1>2, <1>4, <2>1 DEF PortInv
    <2>4. \A p \in Ports : handed[p] # 0 /\ handed'[p] # handed[p] =>
            handed'[p] - handed[p] >= size
      BY <1>2, <1>5, <2>1 DEF PortInv
    <2>5. PortInv'
      BY <1>1, <1>2, <1>3, <2>1, <2>2, <2>3 DEF PortInv
    <2> QED
      BY <2>4, <2>5 DEF PortInv
  <1>7. CASE ~CheckPortAvailable(base + offset)
    <2>1. /\ UNCHANGED <<handed, apc>> /\ apc = "scan"
          /\ times' = times + 1 /\ times < size /\ times \in Nat
          /\ refused' = refused \cup {base + offset}
      BY <1>7 DEF Probe, PortInv
    <2>2. \A p \in Ports : handed'[p] # 0 => handed'[p] <= LastProbe(p)'
      BY <1>2, <1>4, <1>5, <2>1 DEF PortInv
    <2>3. \A p \in Ports : p \in Passed' <=> p \in Passed \/ p = base + offset
      BY <1>1, <1>2, <2>1 DEF PortInv, Passed
    <2>4. refused' = Passed'
      BY <1>2, <2>1, <2>3 DEF PortInv, Passed
    <2>5. PortInv'
      BY <1>1, <1>2, <1>3, <2>1, <2>2, <2>4 DEF PortInv
    <2> QED
      BY <2>1, <2>5
  <1> QED
    BY <1>6, <1>7

\* The other steps of the allocator hand out nothing.
LEMMA PortStep ==
  ASSUME NoPorts \/ PortInv, PortNext
  PROVE  /\ NoPorts' \/ PortInv'
         /\ \A p \in DOMAIN handed : handed[p] # 0 /\ handed'[p] # handed[p] =>
                handed'[p] - handed[p] >= asked[2] - asked[1] + 1
  <1>1. ASSUME NEW range \in Ranges, NewPortAllocator(range)
        PROVE  PortInv' /\ DOMAIN handed = {}
    <2>1. range \in Int \X Int
      BY AllocatorsAssumption
    <2>2. NoPorts
      BY <1>1 DEF NewPortAllocator, PortInv, NoRange
    <2> QED
      BY <1>1, <2>1, <2>2 DEF NewPortAllocator, NoPorts, PortInv, Ports, LastProbe
  <1>2. ASSUME PortInv, NEW p \in Ports, Listen(p) PROVE PortInv' /\ handed' = handed
    BY <1>2 DEF Listen, PortInv, Ports, LastProbe, Passed
  <1>3. ASSUME PortInv, Allocate PROVE PortInv' /\ handed' = handed
    <2>1. Passed' = {}
      BY <1>3 DEF Allocate, PortInv, Ports, Passed
    <2> QED
      BY <1>3, <2>1 DEF Allocate, PortInv, Ports, LastProbe
  <1>4. ASSUME PortInv, AllocateFails PROVE PortInv' /\ handed' = handed
    BY <1>4 DEF AllocateFails, PortInv, Ports, LastProbe, Passed
  <1>5. NoPorts => asked = NoRange /\ apc # "scan"
    BY DEF NoPorts
  <1> QED
    BY <1>1, <1>2, <1>3, <1>4, <1>5, ProbeStep DEF PortNext, Allocate, Probe, AllocateFails

-----------------------------------------------------------------------------
\* The invariant says that nothing was left out.
LEMMA TurnNone == TurnInv => NoneLeftOut
  <1>1. PortInv /\ apc = "failed" => Passed = Ports
    BY DEF PortInv, Passed, Ports
  <1> QED
    BY <1>1 DEF TurnInv, PortInv, NoPorts, IdInv, NoneLeftOut

\* Every step keeps the invariant, and takes the numbers in turn.
LEMMA TurnNext ==
  ASSUME TurnInv, [AllocNext]_<<portVars, idVars>>
  PROVE  TurnInv' /\ [TurnStep]_<<portVars, idVars>>
  <1>0. TurnInv' => NoneLeftOut'
    BY TurnNone, PTL
  <1>1. CASE PortNext /\ UNCHANGED idVars
    <2>1. IdInv' /\ drawn' = drawn
      BY <1>1 DEF TurnInv, IdInv, idVars, LastDraw
    <2> QED
      BY <1>0, <1>1, <2>1, PortStep DEF TurnInv, TurnStep
  <1>2. CASE IdNext /\ UNCHANGED portVars
    <2>1. (NoPorts' \/ PortInv') /\ handed' = handed
      BY <1>2 DEF TurnInv, NoPorts, PortInv, portVars, Ports, LastProbe, Passed
    <2> QED
      BY <1>0, <1>2, <2>1, IdStep DEF TurnInv, TurnStep
  <1>3. CASE UNCHANGED <<portVars, idVars>>
    BY <1>3 DEF TurnInv, NoPorts, PortInv, IdInv, portVars, idVars, Ports, LastProbe, Passed, LastDraw
  <1> QED
    BY <1>1, <1>2, <1>3 DEF AllocNext

\* For every range and every width: Allocate gives up only after it found each port of the
\* range busy, a port is handed out again only after the scan was at all the others, and an
\* id only after all the others were drawn; 0 is drawn by a counter that begins with it, at first only.
THEOREM AllocatorsInTurn == AllocSpec => NumbersInTurn
  BY TurnInit, TurnNext, PTL DEF AllocSpec, NumbersInTurn

-----------------------------------------------------------------------------
(* Plugins                                                                 *)

\* A goroutine has an instance in its hands.
Holds(u) == user[u].pc \in {"made", "extra"}

\* Instances are told apart by a number that grows with every one made.
FreshInv ==
    /\ IsFiniteSet(instances)
    /\ \A p \in instances : p.id \in Nat /\ p.id < Cardinality(instances)

UserInv ==
    /\ user = [u \in Users |-> user[u]]
    /\ \A u \in Users :
        user[u] = [pc |-> user[u].pc, name |-> user[u].name, f |-> user[u].f, p |-> user[u].p]

\* An instance in the hands of a goroutine is in no other one's, nor in the table, nor
\* closed; when another one won, the table has the name.
HandsInv ==
    /\ \A u \in Users : Holds(u) =>
        /\ user[u].p \in instances \ closed
        /\ \A n \in DOMAIN plugins : plugins[n] # user[u].p
        /\ user[u].pc = "extra" => user[u].name \in DOMAIN plugins
    /\ \A u, v \in Users : Holds(u) /\ Holds(v) /\ user[u].p = user[v].p => u = v

\* What was given out is in the table and stays there.
StoreInv ==
    /\ closed \subseteq instances
    /\ \A n \in DOMAIN plugins : plugins[n] \in instances
    /\ \A g \in given : g[1] \in DOMAIN plugins /\ plugins[g[1]] = g[2]
    /\ ranging.pc = "before" => \A n \in DOMAIN plugins : plugins[n] \notin closed

\* No instance is lost.
KeptInv ==
    \A p \in instances :
        \/ p \in closed \/ (\E n \in DOMAIN plugins : plugins[n] = p)
        \/ \E u \in Users : Holds(u) /\ user[u].p = p

PluginInv == FreshInv /\ UserInv /\ HandsInv /\ StoreInv /\ KeptInv

-----------------------------------------------------------------------------
\* Changing two fields of a goroutine's record.
LEMMA ChangeInstance ==
    ASSUME NEW r, r = [pc |-> r.pc, name |-> r.name, f |-> r.f, p |-> r.p], NEW c, NEW v
    PROVE  [[r EXCEPT !.pc = c] EXCEPT !.p = v] = [pc |-> c, name |-> r.name, f |-> r.f, p |-> v]
  <1>1. PICK q : q = [r EXCEPT !.pc = c]
    OBVIOUS
  <1>2. q \in [pc : {c}, name : {r.name}, f : {r.f}, p : {r.p}]
    BY <1>1
  <1>3. [q EXCEPT !.p = v] \in [pc : {c}, name : {r.name}, f : {r.f}, p : {v}]
    BY <1>2
  <1>4. [q EXCEPT !.p = v] = [pc |-> c, name |-> r.name, f |-> r.f, p |-> v]
    BY <1>3
  <1> QED
    BY <1>1, <1>4

LEMMA InitPlugins == PluginInit => PluginInv
  <1> SUFFICES ASSUME PluginInit PROVE PluginInv
    OBVIOUS
  <1>1. FreshInv /\ UserInv
    BY FS_EmptySet DEF PluginInit, FreshInv, UserInv, Idle
  <1>2. HandsInv /\ StoreInv /\ KeptInv
    BY DEF PluginInit, HandsInv, StoreInv, KeptInv, Holds, Idle
  <1> QED
    BY <1>1, <1>2 DEF PluginInv

\* A goroutine without an instance takes a step: nobody's instance is touched.
LEMMA EmptyHandStep ==
    ASSUME PluginInv, NEW u \in Users, ~Holds(u), NEW x,
           x = [pc |-> x.pc, name |-> x.name, f |-> x.f, p |-> x.p],
           x.pc \notin {"made", "extra"},
           user' = [user EXCEPT ![u] = x],
           UNCHANGED <<plugins, instances, closed, ranging>>,
           \A g \in given' : g \in given \/ (g[1] \in DOMAIN plugins /\ plugins[g[1]] = g[2])
    PROVE  PluginInv'
  <1>1. user'[u] = x /\ (\A v \in Users : v # u => user'[v] = user[v])
    BY DEF PluginInv, UserInv
  <1>2. \A v \in Users : (Holds(v)' <=> Holds(v)) /\ (Holds(v) => user'[v] = user[v])
    BY <1>1 DEF Holds
  <1>3. FreshInv'
    BY DEF PluginInv, FreshInv
  <1>4. UserInv'
    BY <1>1 DEF PluginInv, UserInv
  <1>5. HandsInv'
    BY <1>2 DEF PluginInv, HandsInv
  <1>6. StoreInv'
    BY DEF PluginInv, StoreInv
  <1>7. KeptInv'
    BY <1>2 DEF PluginInv, KeptInv
  <1> QED
    BY <1>3, <1>4, <1>5, <1>6, <1>7 DEF PluginInv

LEMMA RegisterKeeps ==
    ASSUME PluginInv, NEW u \in Users,
           (\E name \in Names, f \in Factories : RegisterLoads(u, name, f)) \/ RegisterStores(u)
    PROVE  PluginInv'
  <1>1. CASE RegisterStores(u)
    BY <1>1, EmptyHandStep DEF RegisterStores, Holds, Idle
  <1>2. ASSUME NEW name, NEW f, RegisterLoads(u, name, f) PROVE PluginInv'
    <2> DEFINE x == [pc |-> "register", name |-> name, f |-> f, p |-> Nil]
    <2>1. x.pc = "register" /\ x = [pc |-> x.pc, name |-> x.name, f |-> x.f, p |-> x.p]
      OBVIOUS
    <2>2. user' = [user EXCEPT ![u] = x] /\ ~Holds(u)
      BY <1>2 DEF RegisterLoads, Holds
    <2>3. UNCHANGED <<plugins, instances, closed, ranging, given>>
      BY <1>2 DEF RegisterLoads
    <2> HIDE DEF x
    <2> QED
      BY <2>1, <2>2, <2>3, EmptyHandStep
  <1> QED
    BY <1>1, <1>2

LEMMA GetKeeps ==
    ASSUME PluginInv, NEW u \in Users, NEW name, GetPlugin(u, name)
    PROVE  PluginInv'
  <1> DEFINE low == ToLower(name)
             x == [pc |-> "lookup", name |-> low, f |-> Nil, p |-> Nil]
  <1>1. /\ ~Holds(u) /\ UNCHANGED <<plugins, instances, closed, ranging>>
        /\ \/ low \in DOMAIN plugins /\ Return(u, low, plugins[low])
           \/ user' = [user EXCEPT ![u] = x] /\ UNCHANGED given
    BY DEF GetPlugin, Holds
  <1>2. x.pc = "lookup" /\ x = [pc |-> x.pc, name |-> x.name, f |-> x.f, p |-> x.p]
    OBVIOUS
  <1> HIDE DEF x, low
  <1>3. CASE low \in DOMAIN plugins /\ Return(u, low, plugins[low])
    <2>1. Idle.pc = "idle" /\ Idle = [pc |-> Idle.pc, name |-> Idle.name, f |-> Idle.f, p |-> Idle.p]
      BY DEF Idle
    <2>2. \A g \in given' : g \in given \/ (g[1] \in DOMAIN plugins /\ plugins[g[1]] = g[2])
      BY <1>3 DEF Return
    <2>3. user' = [user EXCEPT ![u] = Idle]
      BY <1>3 DEF Return
    <2> QED
      BY <1>1, <2>1, <2>2, <2>3, EmptyHandStep
  <1>4. CASE user' = [user EXCEPT ![u] = x] /\ UNCHANGED given
    BY <1>1, <1>2, <1>4, EmptyHandStep
  <1> QED
    BY <1>1, <1>3, <1>4

LEMMA LookupKeeps ==
    ASSUME PluginInv, NEW u \in Users, LookupFactory(u) \/ FactoryFails(u)
    PROVE  PluginInv'
  <1> DEFINE x == [pc |-> "make", name |-> user[u].name, f |-> pluginFactory[user[u].name], p |-> Nil]
  <1>1. /\ ~Holds(u) /\ UNCHANGED <<plugins, instances, closed, given, ranging>>
        /\ user' = [user EXCEPT ![u] = Idle] \/ user' = [user EXCEPT ![u] = x]
    BY DEF LookupFactory, FactoryFails, Holds
  <1>2. CASE user' = [user EXCEPT ![u] = Idle]
    BY <1>1, <1>2, EmptyHandStep DEF Idle
  <1>3. x.pc = "make" /\ x = [pc |-> x.pc, name |-> x.name, f |-> x.f, p |-> x.p]
    OBVIOUS
  <1> HIDE DEF x
  <1>4. CASE user' = [user EXCEPT ![u] = x]
    BY <1>1, <1>3, <1>4, EmptyHandStep
  <1> QED
    BY <1>1, <1>2, <1>4

\* The instance that is made is new, so it is nobody else's.
LEMMA FactoryMakesKeeps ==
    ASSUME PluginInv, NEW u \in Users, FactoryMakes(u)
    PROVE  PluginInv'
  <1>1. PICK p : /\ p = [id |-> Cardinality(instances), name |-> user[u].name, by |-> user[u].f]
                 /\ instances' = instances \cup {p}
                 /\ user' = [user EXCEPT ![u].pc = "made", ![u].p = p]
    BY DEF FactoryMakes
  <1>2. /\ ~Holds(u) /\ UNCHANGED <<plugins, closed, given, ranging>>
    BY DEF FactoryMakes, Holds
  <1>3. Cardinality(instances) \in Nat /\ p.id = Cardinality(instances)
    BY <1>1, FS_CardinalityType DEF PluginInv, FreshInv
  <1>4. p \notin instances
    BY <1>3 DEF PluginInv, FreshInv
  <1>5. IsFiniteSet(instances') /\ Cardinality(instances') = Cardinality(instances) + 1
    BY <1>1, <1>4, FS_AddElement DEF PluginInv, FreshInv
  <1>6. FreshInv'
    <2> SUFFICES ASSUME NEW q \in instances' PROVE q.id \in Nat /\ q.id < Cardinality(instances')
      BY <1>5 DEF FreshInv
    <2>1. CASE q = p
      BY <1>3, <1>5, <2>1
    <2>2. CASE q \in instances
      BY <1>3, <1>5, <2>2 DEF PluginInv, FreshInv
    <2> QED
      BY <1>1, <2>1, <2>2
  <1>7. /\ user'[u] = [pc |-> "made", name |-> user[u].name, f |-> user[u].f, p |-> p]
        /\ \A v \in Users : v # u => user'[v] = user[v]
        /\ UserInv'
    <2>1. user' = [user EXCEPT ![u] = [[user[u] EXCEPT !.pc = "made"] EXCEPT !.p = p]]
      BY <1>1 DEF PluginInv, UserInv
    <2>2. [[user[u] EXCEPT !.pc = "made"] EXCEPT !.p = p]
              = [pc |-> "made", name |-> user[u].name, f |-> user[u].f, p |-> p]
      BY ChangeInstance DEF PluginInv, UserInv
    <2> QED
      BY <2>1, <2>2 DEF PluginInv, UserInv
  <1>8. Holds(u)' /\ user'[u].p = p /\ user'[u].pc = "made"
        /\ \A v \in Users : v # u => (Holds(v)' <=> Holds(v)) /\ user'[v] = user[v]
    BY <1>7 DEF Holds
  <1>9. HandsInv'
    <2>1. p \notin closed /\ (\A n \in DOMAIN plugins : plugins[n] # p)
      BY <1>4 DEF PluginInv, StoreInv
    <2>2. \A v \in Users : v # u /\ Holds(v) => user[v].p # p
      BY <1>4 DEF PluginInv, HandsInv
    <2>3. instances' = instances \cup {p}
      BY <1>1
    <2>4. ASSUME NEW v \in Users, Holds(v)'
          PROVE  /\ user'[v].p \in instances' \ closed
                 /\ \A n \in DOMAIN plugins : plugins[n] # user'[v].p
                 /\ user'[v].pc = "extra" => user'[v].name \in DOMAIN plugins
      <3>1. CASE v = u
        BY <1>8, <2>1, <2>3, <3>1
      <3>2. CASE v # u
        BY <1>8, <2>3, <2>4, <3>2 DEF PluginInv, HandsInv
      <3> QED
        BY <3>1, <3>2
    <2>5. ASSUME NEW v \in Users, NEW w \in Users, Holds(v)', Holds(w)', user'[v].p = user'[w].p
          PROVE  v = w
      BY <1>8, <2>2, <2>5 DEF PluginInv, HandsInv
    <2> QED
      BY <1>2, <2>4, <2>5 DEF HandsInv
  <1>10. StoreInv'
    BY <1>1, <1>2 DEF PluginInv, StoreInv
  <1>11. KeptInv'
    <2> SUFFICES ASSUME NEW q \in instances'
                 PROVE  \/ q \in closed \/ (\E n \in DOMAIN plugins : plugins[n] = q)
                        \/ \E v \in Users : Holds(v)' /\ user'[v].p = q
      BY <1>2 DEF KeptInv
    <2>1. CASE q = p
      BY <1>8, <2>1
    <2>2. CASE q \in instances
      BY <1>2, <1>8, <2>2 DEF PluginInv, KeptInv
    <2> QED
      BY <1>1, <2>1, <2>2
  <1> QED
    BY <1>6, <1>7, <1>9, <1>10, <1>11 DEF PluginInv

\* The instance is stored, or another one was faster.
LEMMA LoadOrStoreKeeps ==
    ASSUME PluginInv, NEW u \in Users, LoadOrStore(u)
    PROVE  PluginInv'
  <1> DEFINE name == user[u].name
             p == user[u].p
  <1>1. /\ Holds(u) /\ user[u].pc = "made" /\ UNCHANGED <<instances, closed, ranging>>
        /\ \/ /\ name \in DOMAIN plugins
              /\ user' = [user EXCEPT ![u].pc = "extra"] /\ UNCHANGED <<plugins, given>>
           \/ /\ name \notin DOMAIN plugins
              /\ plugins' = Put(plugins, name, p)
              /\ Return(u, name, p)
    BY DEF LoadOrStore, Holds
  <1>2. FreshInv'
    BY <1>1 DEF PluginInv, FreshInv
  <1>3. CASE /\ name \in DOMAIN plugins
             /\ user' = [user EXCEPT ![u].pc = "extra"] /\ UNCHANGED <<plugins, given>>
    <2>1. /\ user'[u] = [pc |-> "extra", name |-> user[u].name, f |-> user[u].f, p |-> user[u].p]
          /\ \A v \in Users : v # u => user'[v] = user[v]
          /\ UserInv'
      BY <1>3 DEF PluginInv, UserInv
    <2>2. \A v \in Users : (Holds(v)' <=> Holds(v)) /\ user'[v].p = user[v].p
                           /\ user'[v].name = user[v].name
      BY <1>1, <2>1 DEF Holds
    <2>3. HandsInv'
      BY <1>1, <1>3, <2>1, <2>2 DEF PluginInv, HandsInv
    <2>4. StoreInv' /\ KeptInv'
      BY <1>1, <1>3, <2>2 DEF PluginInv, StoreInv, KeptInv
    <2> QED
      BY <1>2, <2>1, <2>3, <2>4 DEF PluginInv
  <1>4. CASE /\ name \notin DOMAIN plugins /\ plugins' = Put(plugins, name, p) /\ Return(u, name, p)
    <2>1. /\ user'[u] = Idle /\ (\A v \in Users : v # u => user'[v] = user[v]) /\ UserInv'
      BY <1>4 DEF Return, PluginInv, UserInv, Idle
    <2>2. ~Holds(u)' /\ \A v \in Users : v # u => (Holds(v)' <=> Holds(v)) /\ user'[v] = user[v]
      BY <2>1 DEF Holds, Idle
    <2>3. /\ DOMAIN plugins' = DOMAIN plugins \cup {name} /\ plugins'[name] = p
          /\ \A n \in DOMAIN plugins : plugins'[n] = plugins[n]
      <3> HIDE DEF name, p
      <3>1. plugins' = Put(plugins, name, p) /\ name \notin DOMAIN plugins
        BY <1>4 DEF name, p
      <3>2. DOMAIN Put(plugins, name, p) = DOMAIN plugins \cup {name} /\ Put(plugins, name, p)[name] = p
        BY DEF Put
      <3>3. \A n \in DOMAIN plugins : n # name => Put(plugins, name, p)[n] = plugins[n]
        BY DEF Put
      <3> QED
        BY <3>1, <3>2, <3>3, Zenon
    <2>4. p \in instances \ closed
      BY <1>1 DEF PluginInv, HandsInv
    <2>5. \A v \in Users : v # u /\ Holds(v) => user[v].p # p
      BY <1>1 DEF PluginInv, HandsInv
    <2>6. given' = given \cup {<<name, p>>}
      BY <1>4 DEF Return
    <2> HIDE DEF name, p
    <2>7. HandsInv'
      BY <1>1, <2>2, <2>3, <2>5 DEF PluginInv, HandsInv
    <2>8. StoreInv'
      BY <1>1, <2>3, <2>4, <2>6 DEF PluginInv, StoreInv
    <2>9. KeptInv'
      <3> SUFFICES ASSUME NEW q \in instances
                   PROVE  \/ q \in closed \/ (\E n \in DOMAIN plugins' : plugins'[n] = q)
                          \/ \E v \in Users : Holds(v)' /\ user'[v].p = q
        BY <1>1 DEF KeptInv
      <3>1. CASE q = p
        BY <2>3, <3>1
      <3>2. CASE q # p
        <4>1. \/ q \in closed \/ (\E n \in DOMAIN plugins : plugins[n] = q)
              \/ \E v \in Users : v # u /\ Holds(v) /\ user[v].p = q
          BY <3>2 DEF PluginInv, KeptInv, p
        <4> QED
          BY <2>2, <2>3, <4>1
      <3> QED
        BY <3>1, <3>2
    <2> QED
      BY <1>2, <2>1, <2>7, <2>8, <2>9 DEF PluginInv
  <1> QED
    BY <1>1, <1>3, <1>4

\* The one that came second closes its own instance, which nobody else has.
LEMMA CloseExtraKeeps ==
    ASSUME PluginInv, NEW u \in Users, CloseExtra(u)
    PROVE  PluginInv'
  <1>1. /\ Holds(u) /\ user[u].pc = "extra" /\ UNCHANGED <<plugins, instances, ranging>>
        /\ closed' = closed \cup {user[u].p}
        /\ Return(u, user[u].name, plugins[user[u].name])
    BY DEF CloseExtra, Holds
  <1>2. /\ user'[u] = Idle /\ (\A v \in Users : v # u => user'[v] = user[v]) /\ UserInv'
    BY <1>1 DEF Return, PluginInv, UserInv, Idle
  <1>3. ~Holds(u)' /\ \A v \in Users : v # u => (Holds(v)' <=> Holds(v)) /\ user'[v] = user[v]
    BY <1>2 DEF Holds, Idle
  <1>4. /\ user[u].p \in instances /\ user[u].name \in DOMAIN plugins
        /\ \A n \in DOMAIN plugins : plugins[n] # user[u].p
        /\ \A v \in Users : v # u /\ Holds(v) => user[v].p # user[u].p
    BY <1>1 DEF PluginInv, HandsInv
  <1>5. given' = given \cup {<<user[u].name, plugins[user[u].name]>>}
    BY <1>1 DEF Return
  <1>6. FreshInv'
    BY <1>1 DEF PluginInv, FreshInv
  <1>7. HandsInv'
    BY <1>1, <1>3, <1>4 DEF PluginInv, HandsInv
  <1>8. StoreInv'
    BY <1>1, <1>4, <1>5 DEF PluginInv, StoreInv
  <1>9. KeptInv'
    <2> SUFFICES ASSUME NEW q \in instances
                 PROVE  \/ q \in closed' \/ (\E n \in DOMAIN plugins : plugins[n] = q)
                        \/ \E v \in Users : Holds(v)' /\ user'[v].p = q
      BY <1>1 DEF KeptInv
    <2>1. \/ q \in closed \/ (\E n \in DOMAIN plugins : plugins[n] = q) \/ q = user[u].p
          \/ \E v \in Users : v # u /\ Holds(v) /\ user[v].p = q
      BY DEF PluginInv, KeptInv
    <2> QED
      BY <1>1, <1>3, <2>1
  <1> QED
    BY <1>2, <1>6, <1>7, <1>8, <1>9 DEF PluginInv

\* ClosePlugins closes what is in the table.
LEMMA ClosePluginsKeeps ==
    ASSUME PluginInv,
           ClosePlugins \/ (\E name \in DOMAIN plugins : CloseNext(name)) \/ ClosePluginsEnds
    PROVE  PluginInv'
  <1>1. CASE ClosePlugins \/ ClosePluginsEnds
    <2>1. /\ UNCHANGED <<plugins, user, instances, closed, given>> /\ ranging'.pc # "before"
      <3>1. CASE ClosePlugins
        BY <3>1 DEF ClosePlugins
      <3>2. CASE ClosePluginsEnds
        BY <3>2 DEF ClosePluginsEnds
      <3> QED
        BY <1>1, <3>1, <3>2
    <2> QED
      BY <2>1 DEF PluginInv, FreshInv, UserInv, HandsInv, StoreInv, KeptInv, Holds
  <1>2. ASSUME NEW name \in DOMAIN plugins, CloseNext(name) PROVE PluginInv'
    <2>1. /\ closed' = closed \cup {plugins[name]} /\ ranging'.pc # "before"
          /\ UNCHANGED <<plugins, user, instances, given>>
      BY <1>2 DEF CloseNext
    <2>2. \A u \in Users : Holds(u)' <=> Holds(u)
      BY <2>1 DEF Holds
    <2>3. FreshInv' /\ UserInv'
      BY <2>1 DEF PluginInv, FreshInv, UserInv
    <2>4. HandsInv'
      BY <2>1, <2>2 DEF PluginInv, HandsInv
    <2>5. StoreInv'
      BY <2>1 DEF PluginInv, StoreInv
    <2>6. KeptInv'
      BY <2>1, <2>2 DEF PluginInv, KeptInv
    <2> QED
      BY <2>3, <2>4, <2>5, <2>6 DEF PluginInv
  <1> QED
    BY <1>1, <1>2

LEMMA PluginsNext == PluginInv /\ [PluginNext]_pluginVars => PluginInv'
  <1> SUFFICES ASSUME PluginInv, [PluginNext]_pluginVars PROVE PluginInv'
    OBVIOUS
  <1>1. CASE UNCHANGED pluginVars
    BY <1>1 DEF pluginVars, PluginInv, FreshInv, UserInv, HandsInv, StoreInv, KeptInv, Holds
  <1>2. ASSUME NEW u \in Users,
               (\E name \in Names, f \in Factories : RegisterLoads(u, name, f)) \/ RegisterStores(u)
        PROVE  PluginInv'
    BY <1>2, RegisterKeeps
  <1>3. ASSUME NEW u \in Users, NEW name \in Names, GetPlugin(u, name) PROVE PluginInv'
    BY <1>3, GetKeeps
  <1>4. ASSUME NEW u \in Users, LookupFactory(u) \/ FactoryFails(u) PROVE PluginInv'
    BY <1>4, LookupKeeps
  <1>5. ASSUME NEW u \in Users, FactoryMakes(u) PROVE PluginInv'
    BY <1>5, FactoryMakesKeeps
  <1>6. ASSUME NEW u \in Users, LoadOrStore(u) PROVE PluginInv'
    BY <1>6, LoadOrStoreKeeps
  <1>7. ASSUME NEW u \in Users, CloseExtra(u) PROVE PluginInv'
    BY <1>7, CloseExtraKeeps
  <1>8. CASE ClosePlugins \/ (\E name \in DOMAIN plugins : CloseNext(name)) \/ ClosePluginsEnds
    BY <1>8, ClosePluginsKeeps
  <1> QED
    BY <1>1, <1>2, <1>3, <1>4, <1>5, <1>6, <1>7, <1>8 DEF PluginNext

LEMMA PluginInvShared == PluginInv => PluginsShared
  <1>1. PluginInv => \A a, b \in given : a[1] = b[1] => a[2] = b[2]
    BY DEF PluginInv, StoreInv
  <1>2. PluginInv => \A p \in instances :
                        \/ p \in closed \/ p \in Range(plugins)
                        \/ \E u \in Users : user[u].pc \in {"made", "extra"} /\ user[u].p = p
    BY DEF PluginInv, KeptInv, Holds, Range
  <1>3. PluginInv /\ ranging.pc = "before" => \A g \in given : g[2] \notin closed
    BY DEF PluginInv, StoreInv
  <1> QED
    BY <1>1, <1>2, <1>3 DEF PluginsShared

\* For any number of goroutines, names and factories, however their calls of
\* RegisterFactory, GetPlugin and ClosePlugins interleave: one instance per name is given
\* out, every other one is closed by its maker, and only ClosePlugins closes one that was
\* given out.
THEOREM PluginsOnePerName == PluginSpec => []PluginsShared
  BY InitPlugins, PluginsNext, PluginInvShared, PTL DEF PluginSpec

-----------------------------------------------------------------------------
(* Filtered reports                                                        *)

Entry == [time : Int, value : Values]

\* The baseline of a property is what was last let through, published or not.
Based(p) ==
    /\ passed[p] = None => last[p] = None
    /\ passed[p] # None => passed[p].time = last[p].time /\ passed[p].value = last[p].value

BaselineInv ==
    /\ now \in Nat
    /\ last \in [Properties -> Entry \cup {None}]
    /\ \A p \in Properties : Based(p)

LEMMA InitBaseline == Init => BaselineInv
  BY DEF Init, BaselineInv, Based

\* One property of one call: the baseline is the sample if it passes, and stays otherwise.
LEMMA RebasedEntry ==
    ASSUME now \in Nat, NEW b \in Entry \cup {None}, NEW v \in Values, NEW m
    PROVE  Rebased(b, v, m) \in Entry \cup {None}
  BY DEF Rebased, Entry

LEMMA ReportKeeps ==
    ASSUME BaselineInv, NEW d \in Devices, NEW report \in Reports, NEW ok \in BOOLEAN,
           ReportDevicePropertiesWithFilter(d, report, ok)
    PROVE  BaselineInv'
  <1> DEFINE mapped == DOMAIN report \cap DOMAIN Mapping[d]
             filter == {p \in mapped : Passes(last[p], report[p], Mapping[d][p])}
             pass(p) == [time |-> now, value |-> report[p], device |-> d, published |-> ok]
  <1>1. /\ last' = [p \in Properties |->
                        IF p \in mapped THEN Rebased(last[p], report[p], Mapping[d][p]) ELSE last[p]]
        /\ passed' = [p \in Properties |-> IF p \in filter THEN pass(p) ELSE passed[p]]
        /\ now' = now
    BY DEF ReportDevicePropertiesWithFilter
  <1>2. \A p \in mapped : report[p] \in Values
    BY DEF Reports
  <1>3. \A p \in Properties : last[p] \in Entry \cup {None}
    BY DEF BaselineInv
  <1>4. \A p \in Properties : last'[p] \in Entry \cup {None}
    <2> SUFFICES ASSUME NEW p \in Properties PROVE last'[p] \in Entry \cup {None}
      OBVIOUS
    <2>1. CASE p \in mapped
      <3> HIDE DEF mapped
      <3>1. last'[p] = Rebased(last[p], report[p], Mapping[d][p])
        BY <1>1, <2>1
      <3>2. now \in Nat
        BY DEF BaselineInv
      <3> QED
        BY <1>2, <1>3, <2>1, <3>1, <3>2, RebasedEntry
    <2>2. CASE p \notin mapped
      BY <1>1, <1>3, <2>2
    <2> QED
      BY <2>1, <2>2
  <1>5. ASSUME NEW p \in Properties PROVE Based(p)'
    <2>1. CASE p \in filter
      <3>1. last'[p] = [time |-> now, value |-> report[p]]
        BY <1>1, <2>1 DEF Rebased
      <3>2. passed'[p] = pass(p)
        BY <1>1, <2>1
      <3>3. pass(p) \in Pass
        BY <1>2, <2>1 DEF Pass, BaselineInv
      <3> QED
        BY <3>1, <3>2, <3>3, ReportAssumption DEF Based
    <2>2. CASE p \notin filter
      <3>1. last'[p] = last[p] /\ passed'[p] = passed[p]
        BY <1>1, <2>2 DEF Rebased
      <3> QED
        BY <3>1 DEF BaselineInv, Based
    <2> QED
      BY <2>1, <2>2
  <1> HIDE DEF mapped, filter, pass
  <1>6. last' \in [Properties -> Entry \cup {None}]
    BY <1>1, <1>4
  <1> QED
    BY <1>1, <1>5, <1>6 DEF BaselineInv

LEMMA NextBaseline == BaselineInv /\ [Next]_vars => BaselineInv'
  <1>1. BaselineInv /\ UNCHANGED vars => BaselineInv'
    BY DEF BaselineInv, Based, vars
  <1>2. BaselineInv /\ Tick => BaselineInv'
    BY DEF BaselineInv, Based, Tick
  <1> QED
    BY <1>1, <1>2, ReportKeeps DEF Next

\* What the rules leave out is near to the baseline.
LEMMA NotPassed ==
    ASSUME now \in Nat, NEW b \in Entry \cup {None}, NEW v \in Values,
           NEW m \in [deviation : Nat, silentWin : Nat], ~Passes(b, v, m)
    PROVE  /\ b # None /\ now - b.time <= m.silentWin
           /\ v # Text /\ b.value # Text => 100 * v < b.value * (100 + m.deviation)
  <1>1. b # None /\ b \in Entry /\ ~(now - b.time > m.silentWin)
    BY DEF Passes, Silent
  <1>2. b.time \in Int /\ b.value \in Values /\ m.silentWin \in Nat /\ m.deviation \in Nat
    BY <1>1 DEF Entry
  <1>3. now - b.time <= m.silentWin
    BY <1>1, <1>2
  <1>4. ASSUME v # Text, b.value # Text PROVE 100 * v < b.value * (100 + m.deviation)
    <2>1. v \in Int /\ b.value \in Int
      BY <1>2, <1>4, ReportAssumption DEF Values
    <2>2. ~(100 * (v - b.value) >= b.value * m.deviation)
      BY <1>4 DEF Passes, Deviates
    <2>3. b.value * (100 + m.deviation) = 100 * b.value + b.value * m.deviation
      BY <1>2, <2>1
    <2>4. b.value * m.deviation \in Int
      BY <1>2, <2>1
    <2> QED
      BY <2>1, <2>2, <2>3, <2>4
  <1> QED
    BY <1>1, <1>3, <1>4

\* For every set of devices and their templates, all samples, all delays between
\* calls and whichever reports fail: a property is left out only within the device's
\* window since some call let it through, and if that was one for the same device which
\* was published, only while it has not risen by the deviation above what was.
THEOREM FilterStaysNear == Spec => SuppressedIsNearPublished
  <1> DEFINE Suppressed ==
        call' # None =>
            LET d == call'.device
            IN  \A p \in (DOMAIN call'.report \cap DOMAIN Mapping[d]) \ call'.filter :
                    /\ Recent(passed[p], Mapping[d][p])
                    /\ passed[p].device = d /\ passed[p].published =>
                        Near(passed[p], call'.report[p], Mapping[d][p])
  <1>1. BaselineInv /\ [Next]_vars => [Suppressed]_vars
    <2> SUFFICES ASSUME BaselineInv, Next PROVE Suppressed
      BY DEF Suppressed
    <2>1. CASE Tick
      BY <2>1 DEF Tick
    <2>2. ASSUME NEW d \in Devices, NEW report \in Reports, NEW ok \in BOOLEAN,
                 ReportDevicePropertiesWithFilter(d, report, ok)
          PROVE  Suppressed
      <3>1. call' = [device |-> d, report |-> report,
                     filter |-> {p \in DOMAIN report \cap DOMAIN Mapping[d] :
                                    Passes(last[p], report[p], Mapping[d][p])}]
        BY <2>2 DEF ReportDevicePropertiesWithFilter
      <3>2. ASSUME NEW p \in DOMAIN report \cap DOMAIN Mapping[d],
                   ~Passes(last[p], report[p], Mapping[d][p])
            PROVE  Recent(passed[p], Mapping[d][p]) /\ Near(passed[p], report[p], Mapping[d][p])
        <4>1. p \in Properties /\ Mapping[d][p] \in [deviation : Nat, silentWin : Nat]
          BY ReportAssumption DEF Properties
        <4>2. report[p] \in Values
          BY DEF Reports
        <4>3. last[p] \in Entry \cup {None} /\ now \in Nat /\ Based(p)
          BY <4>1 DEF BaselineInv
        <4>4. /\ last[p] # None /\ now - last[p].time <= Mapping[d][p].silentWin
              /\ report[p] # Text /\ last[p].value # Text =>
                    100 * report[p] < last[p].value * (100 + Mapping[d][p].deviation)
          BY <3>2, <4>1, <4>2, <4>3, NotPassed
        <4> QED
          BY <4>3, <4>4 DEF Based, Recent, Near
      <3>3. /\ call'.device = d /\ call'.report = report
            /\ \A p \in (DOMAIN report \cap DOMAIN Mapping[d]) \ call'.filter :
                ~Passes(last[p], report[p], Mapping[d][p])
        BY <3>1
      <3> QED
        BY <3>2, <3>3
    <2> QED
      BY <2>1, <2>2 DEF Next
  <1> QED
    BY <1>1, InitBaseline, NextBaseline, PTL DEF Spec, SuppressedIsNearPublished

-----------------------------------------------------------------------------
(* The topics.  A filter that matches an instance of itself differs from it *)
(* where it has wildcards only, and is as long: what is checked besides the *)
(* wildcards has the same answer for both.  For the devices, the cut whose  *)
(* first texts are longest leaves one level to each of the other texts.     *)

\* What stands for a level that a wildcard matches.
Word == <<"w">>
Part == STRING \cup {"+", "#", "w"}
Level == Seq(Part)

\* The topic that has it at the positions of S.
Instance(t, S) == [i \in DOMAIN t |-> IF i \in S THEN Word ELSE t[i]]

\* What is checked and parsed are sequences of levels, at least one of them.
LEMMA TopicLevels ==
  ASSUME NEW n \in Nat, NEW L, L \subseteq Level, NEW t \in Topic(n, L)
  PROVE  t \in Seq(Level) /\ Len(t) \in Nat \ {0} /\ DOMAIN t = 1 .. Len(t)
  <1>1. PICK k \in 1 .. n : t \in [1 .. k -> L]
    BY DEF Topic
  <1>2. k \in Nat /\ t \in [1 .. k -> Level]
    BY <1>1
  <1>3. t \in Seq(Level)
    BY <1>2, SeqDef
  <1>4. Len(t) = k
    BY <1>2, <1>3, LenProperties
  <1> QED
    BY <1>1, <1>3, <1>4, LenProperties

\* The two wildcards and the word that stands for what they match.
LEMMA OnePartLevels ==
  /\ Plus \in Level /\ Hash \in Level /\ Word \in Level
  /\ Len(Plus) = 1 /\ Len(Hash) = 1 /\ Len(Word) = 1
  /\ Plus # Hash /\ Plus # Word /\ Hash # Word
  /\ ~HasPrefix(Plus) /\ ~HasPrefix(Hash) /\ ~HasPrefix(Word)
  /\ ~Contains(Plus, "NUL") /\ ~Contains(Hash, "NUL") /\ ~Contains(Word, "NUL")
  /\ HasWildcard(Plus) /\ HasWildcard(Hash) /\ ~HasWildcard(Word)
  <1>1. /\ Plus \in Level /\ Hash \in Level /\ Word \in Level
        /\ Len(Plus) = 1 /\ Len(Hash) = 1 /\ Len(Word) = 1
        /\ Plus[1] = "+" /\ Hash[1] = "#" /\ Word[1] = "w"
    <2>1. "+" \in Part /\ "#" \in Part /\ "w" \in Part
      BY DEF Part
    <2>2. Plus \in Level /\ Hash \in Level /\ Word \in Level
      BY <2>1 DEF Plus, Hash, Word, Level
    <2>3. /\ Len(Plus) = 1 /\ Len(Hash) = 1 /\ Len(Word) = 1
          /\ Plus[1] = "+" /\ Hash[1] = "#" /\ Word[1] = "w"
      BY DEF Plus, Hash, Word
    <2> QED
      BY <2>2, <2>3
  <1>2. Plus # Hash /\ Plus # Word /\ Hash # Word
    BY <1>1
  <1>3. ~HasPrefix(Plus) /\ ~HasPrefix(Hash) /\ ~HasPrefix(Word)
    BY <1>1 DEF HasPrefix
  <1>4. ~Contains(Plus, "NUL") /\ ~Contains(Hash, "NUL") /\ ~Contains(Word, "NUL")
    BY <1>1 DEF Contains
  <1>5. HasWildcard(Plus) /\ HasWildcard(Hash) /\ ~HasWildcard(Word)
    BY <1>1 DEF HasWildcard, Contains
  <1> QED
    BY <1>1, <1>2, <1>3, <1>4, <1>5

\* It has as many levels.
LEMMA InstanceLevels ==
  ASSUME NEW t \in Seq(Level), NEW S \in SUBSET DOMAIN t
  PROVE  /\ Instance(t, S) \in Seq(Level) /\ Len(Instance(t, S)) = Len(t)
         /\ DOMAIN Instance(t, S) = 1 .. Len(t)
         /\ \A i \in 1 .. Len(t) : Instance(t, S)[i] = IF i \in S THEN Word ELSE t[i]
  <1>1. Len(t) \in Nat /\ DOMAIN t = 1 .. Len(t) /\ t \in [1 .. Len(t) -> Level]
    BY LenProperties
  <1>2. Instance(t, S) \in [1 .. Len(t) -> Level]
    BY <1>1, OnePartLevels DEF Instance
  <1>3. Instance(t, S) \in Seq(Level)
    BY <1>1, <1>2, SeqDef
  <1>4. DOMAIN Instance(t, S) = 1 .. Len(t) /\ DOMAIN Instance(t, S) = 1 .. Len(Instance(t, S))
    BY <1>2, <1>3, LenProperties
  <1>5. Len(Instance(t, S)) = Len(t)
    BY <1>1, <1>3, <1>4, LenProperties
  <1> QED
    BY <1>1, <1>3, <1>4, <1>5 DEF Instance

\* A filter matches such an instance exactly if only wildcards are replaced, and # is last.
Fills(t, S) == \A i \in 1 .. Len(t) :
    i \in S => t[i] = Word \/ (t[i] \in {Plus, Hash} /\ (t[i] = Hash => i = Len(t)))

LEMMA MatchFills ==
  ASSUME NEW t \in Seq(Level), NEW S \in SUBSET DOMAIN t
  PROVE  Match(t, Instance(t, S)) <=> Fills(t, S)
  <1> DEFINE u == Instance(t, S)
  <1>1. Len(t) \in Nat /\ DOMAIN t = 1 .. Len(t) /\ DOMAIN u = 1 .. Len(t) /\ Len(u) = Len(t)
        /\ \A i \in 1 .. Len(t) : u[i] = IF i \in S THEN Word ELSE t[i]
    BY LenProperties, InstanceLevels
  <1> HIDE DEF u
  <1>2. Match(t, u) <=> \A i \in 1 .. Len(t) :
          \/ t[i] = u[i]
          \/ t[i] \in {Plus, Hash} /\ (t[i] = Hash => i = Len(t)) /\ (i = 1 => ~HasPrefix(u[1]))
    BY <1>1 DEF Match
  <1>3. ASSUME NEW i \in 1 .. Len(t)
        PROVE  (\/ t[i] = u[i]
                \/ t[i] \in {Plus, Hash} /\ (t[i] = Hash => i = Len(t)) /\ (i = 1 => ~HasPrefix(u[1])))
               <=> (i \in S => t[i] = Word \/ (t[i] \in {Plus, Hash} /\ (t[i] = Hash => i = Len(t))))
    <2>1. CASE i \in S
      BY <1>1, <2>1, OnePartLevels
    <2>2. CASE i \notin S
      BY <1>1, <2>2
    <2> QED
      BY <2>1, <2>2
  <1>4. Match(t, u) <=> Fills(t, S)
    BY <1>2, <1>3 DEF Fills
  <1> QED
    BY <1>4 DEF u

\* An instance that is matched is as long as the filter.
LEMMA FillsLength ==
  ASSUME NEW t \in Seq(Level), NEW S \in SUBSET DOMAIN t, Fills(t, S)
  PROVE  Length(Instance(t, S)) = Length(t)
  <1>1. Len(t) \in Nat /\ DOMAIN t = 1 .. Len(t)
    BY LenProperties
  <1>2. \A i \in 1 .. Len(t) : Len(Instance(t, S)[i]) = Len(t[i])
    BY InstanceLevels, OnePartLevels DEF Fills
  <1>3. Lengths(Instance(t, S)) = Lengths(t)
    BY <1>1, <1>2, InstanceLevels DEF Lengths
  <1> QED
    BY <1>3, InstanceLevels DEF Length

\* Accepted for publishing, or for subscribing.
Publishable(t, sys) == checkTopic(t, FALSE, sys)
Subscribable(t, sys) == checkTopic(t, TRUE, sys)

\* What both of them take, and the positions whose levels are checked.
Common(t, sys) ==
    /\ t # << <<>> >>
    /\ Length(t) <= MaxTopicLength
    /\ \A i \in 1 .. Len(t) : ~Contains(t[i], "NUL")
    /\ HasPrefix(t[1]) => /\ Len(t) >= 2
                          /\ IF sys = {} THEN ~HasWildcard(t[1]) ELSE t[1] \in sys
    /\ Len(t) - (IF HasPrefix(t[1]) THEN 1 ELSE 0) <= MaxTopicLevels
Counted(t) == (IF HasPrefix(t[1]) THEN 1 ELSE 0) + 1 .. Len(t)

\* No wildcard may be in a topic that is published (checkTopic).
LEMMA PublishableDef ==
  ASSUME NEW t \in Seq(Level), NEW sys
  PROVE  Publishable(t, sys) <=>
           Common(t, sys) /\ \A i \in Counted(t) : /\ Len(t[i]) > 1 => ~HasWildcard(t[i])
                                                   /\ t[i] \notin {Plus, Hash}
  <1>1. DOMAIN t = 1 .. Len(t)
    BY LenProperties
  <1> QED
    BY <1>1 DEF Publishable, checkTopic, Common, Counted, LevelOk

\* One that is subscribed to may have them as levels, # as the last one.
LEMMA SubscribableDef ==
  ASSUME NEW t \in Seq(Level), NEW sys
  PROVE  Subscribable(t, sys) <=>
           Common(t, sys) /\ \A i \in Counted(t) : /\ Len(t[i]) > 1 => ~HasWildcard(t[i])
                                                   /\ t[i] = Hash => i = Len(t)
  <1>1. DOMAIN t = 1 .. Len(t)
    BY LenProperties
  <1> QED
    BY <1>1 DEF Subscribable, checkTopic, Common, Counted, LevelOk
\* What holds of the topic that is published holds of the filter that matches it, and the
\* other way round, but for the wildcards.
LEMMA FillsCommon ==
  ASSUME NEW t \in Seq(Level), Len(t) \in Nat \ {0}, NEW sys,
         NEW S \in SUBSET DOMAIN t, Fills(t, S)
  PROVE  /\ Common(Instance(t, S), sys) <=> Common(t, sys)
         /\ Counted(Instance(t, S)) = Counted(t)
  <1> DEFINE u == Instance(t, S)
  <1>1. /\ u \in Seq(Level) /\ Len(u) = Len(t) /\ DOMAIN t = 1 .. Len(t)
        /\ \A i \in 1 .. Len(t) : u[i] = IF i \in S THEN Word ELSE t[i]
    BY InstanceLevels, LenProperties
  <1>2. Length(u) = Length(t)
    BY FillsLength
  <1> HIDE DEF u
  <1>3. HasPrefix(u[1]) <=> HasPrefix(t[1])
    BY <1>1, OnePartLevels DEF Fills
  <1>4. HasPrefix(t[1]) => u[1] = t[1]
    BY <1>1, OnePartLevels DEF Fills
  <1>5. ASSUME NEW i \in 1 .. Len(t)
        PROVE  Contains(u[i], "NUL") <=> Contains(t[i], "NUL")
    BY <1>1, OnePartLevels DEF Fills
  <1>6. u = << <<>> >> <=> t = << <<>> >>
    <2>1. ASSUME NEW s \in Seq(Level)
          PROVE  s = << <<>> >> <=> Len(s) = 1 /\ s[1] = <<>>
      <3>1. Len(<< <<>> >>) = 1 /\ << <<>> >>[1] = <<>>
        OBVIOUS
      <3>2. << <<>> >> \in Seq(Level)
        <4>1. <<>> \in Level
          BY EmptySeq DEF Level
        <4> QED
          BY <4>1
      <3>3. ASSUME Len(s) = 1, s[1] = <<>> PROVE s = << <<>> >>
        BY <3>1, <3>2, <3>3, SeqEqual
      <3> QED
        BY <3>1, <3>3
    <2>2. Word # <<>> /\ Plus # <<>> /\ Hash # <<>>
      BY OnePartLevels
    <2>3. u[1] = <<>> <=> t[1] = <<>>
      BY <1>1, <2>2 DEF Fills
    <2> QED
      BY <1>1, <2>1, <2>3
  <1>7. Common(u, sys) <=> Common(t, sys)
    BY <1>1, <1>2, <1>3, <1>4, <1>5, <1>6 DEF Common
  <1>8. Counted(u) = Counted(t)
    BY <1>1, <1>3 DEF Counted
  <1> QED
    BY <1>7, <1>8 DEF u

\* The wildcards of a filter.
Wilds(t) == {i \in DOMAIN t : t[i] \in {Plus, Hash}}

\* A topic that is accepted for subscribing matches one that is for publishing.
LEMMA FilterHasTopic ==
  ASSUME NEW t \in Seq(Level), Len(t) \in Nat \ {0}, NEW sys, Subscribable(t, sys)
  PROVE  Fills(t, Wilds(t)) /\ Publishable(Instance(t, Wilds(t)), sys)
  <1>1. DOMAIN t = 1 .. Len(t) /\ Wilds(t) \in SUBSET DOMAIN t
    BY LenProperties DEF Wilds
  <1>2. /\ Common(t, sys)
        /\ \A i \in Counted(t) : (Len(t[i]) > 1 => ~HasWildcard(t[i])) /\ (t[i] = Hash => i = Len(t))
    BY SubscribableDef
  <1>3. ASSUME NEW i \in Wilds(t) PROVE i \in Counted(t)
    BY <1>1, OnePartLevels DEF Wilds, Counted
  <1>4. Fills(t, Wilds(t))
    BY <1>1, <1>2, <1>3 DEF Fills, Wilds
  <1> DEFINE u == Instance(t, Wilds(t))
  <1>5. /\ u \in Seq(Level) /\ Len(u) = Len(t)
        /\ \A i \in 1 .. Len(t) : u[i] = IF i \in Wilds(t) THEN Word ELSE t[i]
    BY <1>1, InstanceLevels
  <1>6. Common(u, sys) /\ Counted(u) = Counted(t)
    BY <1>1, <1>2, <1>4, FillsCommon
  <1> HIDE DEF u
  <1>7. \A i \in Counted(t) : i \in 1 .. Len(t)
    BY DEF Counted
  <1>8. \A i \in Counted(u) : (Len(u[i]) > 1 => ~HasWildcard(u[i])) /\ u[i] \notin {Plus, Hash}
    BY <1>1, <1>2, <1>5, <1>6, <1>7, OnePartLevels DEF Wilds
  <1>9. Publishable(u, sys)
    BY <1>5, <1>6, <1>8, PublishableDef
  <1> QED
    BY <1>4, <1>9 DEF u

\* And what matches one that is for publishing is for subscribing.
LEMMA TopicHasFilter ==
  ASSUME NEW t \in Seq(Level), Len(t) \in Nat \ {0}, NEW sys, NEW S \in SUBSET DOMAIN t,
         Fills(t, S), Publishable(Instance(t, S), sys)
  PROVE  Subscribable(t, sys)
  <1> DEFINE u == Instance(t, S)
  <1>1. /\ u \in Seq(Level) /\ Len(u) = Len(t)
        /\ \A i \in 1 .. Len(t) : u[i] = IF i \in S THEN Word ELSE t[i]
    BY InstanceLevels
  <1>2. /\ Common(u, sys)
        /\ \A i \in Counted(u) : (Len(u[i]) > 1 => ~HasWildcard(u[i])) /\ u[i] \notin {Plus, Hash}
    BY <1>1, PublishableDef
  <1>3. Common(t, sys) /\ Counted(u) = Counted(t)
    BY <1>2, FillsCommon
  <1> HIDE DEF u
  <1>4. \A i \in Counted(t) : i \in 1 .. Len(t)
    BY DEF Counted
  <1>5. ASSUME NEW i \in Counted(t)
        PROVE  (Len(t[i]) > 1 => ~HasWildcard(t[i])) /\ (t[i] = Hash => i = Len(t))
    <2>1. CASE i \in S
      <3>1. t[i] = Word \/ t[i] = Plus \/ (t[i] = Hash /\ i = Len(t))
        BY <1>4, <2>1 DEF Fills
      <3>2. Len(t[i]) = 1
        BY <3>1, OnePartLevels
      <3>3. t[i] = Hash => i = Len(t)
        BY <3>1, OnePartLevels
      <3> QED
        BY <3>2, <3>3
    <2>2. CASE i \notin S
      BY <1>1, <1>2, <1>3, <1>4, <2>2
    <2> QED
      BY <2>1, <2>2
  <1> QED
    BY <1>3, <1>5, SubscribableDef

\* A topic is accepted for publishing exactly if it is for subscribing and has no wildcard.
LEMMA PublishableNoWilds ==
  ASSUME NEW t \in Seq(Level), Len(t) \in Nat \ {0}, NEW sys
  PROVE  Publishable(t, sys) <=> Subscribable(t, sys) /\ Wilds(t) = {}
  <1>1. DOMAIN t = 1 .. Len(t)
    BY LenProperties
  <1>2. ASSUME NEW i \in Wilds(t) PROVE i \in Counted(t)
    BY <1>1, OnePartLevels DEF Wilds, Counted
  <1>3. \A i \in Counted(t) : i \in 1 .. Len(t)
    BY DEF Counted
  <1> QED
    BY <1>1, <1>2, <1>3, PublishableDef, SubscribableDef DEF Wilds

\* The instances that are matched are the filter alone exactly if it has no wildcard.
LEMMA MatchesItself ==
  ASSUME NEW t \in Seq(Level), Len(t) \in Nat \ {0}, NEW sys, Subscribable(t, sys)
  PROVE  Wilds(t) = {} <=>
           \A S \in SUBSET DOMAIN t : Fills(t, S) => Instance(t, S) = t
  <1>1. DOMAIN t = 1 .. Len(t) /\ Wilds(t) \in SUBSET DOMAIN t
    BY LenProperties DEF Wilds
  <1>2. ASSUME Wilds(t) = {}, NEW S \in SUBSET DOMAIN t, Fills(t, S)
        PROVE  Instance(t, S) = t
    <2>1. \A i \in 1 .. Len(t) : i \in S => t[i] = Word
      BY <1>1, <1>2 DEF Fills, Wilds
    <2>2. \A i \in 1 .. Len(t) : Instance(t, S)[i] = t[i]
      BY <2>1, InstanceLevels
    <2> QED
      BY <2>2, InstanceLevels, SeqEqual
  <1>3. ASSUME NEW i \in Wilds(t)
        PROVE  \E S \in SUBSET DOMAIN t : Fills(t, S) /\ Instance(t, S) # t
    <2>1. Fills(t, Wilds(t))
      BY FilterHasTopic
    <2>2. Instance(t, Wilds(t))[i] = Word /\ t[i] # Word
      BY <1>1, InstanceLevels, OnePartLevels DEF Wilds
    <2> QED
      BY <1>1, <2>1, <2>2
  <1> QED
    BY <1>2, <1>3
\* FiltersUseful of one topic.
Useful(t, sys) ==
    LET filled == {[i \in DOMAIN t |-> IF i \in S THEN <<"w">> ELSE t[i]] : S \in SUBSET DOMAIN t}
    IN  /\ Subscribable(t, sys) <=> \E u \in filled : Publishable(u, sys) /\ Match(t, u)
        /\ Publishable(t, sys) <=>
             Subscribable(t, sys) /\ \A u \in filled : Match(t, u) => u = t

\* It holds of every topic.
LEMMA TopicsUseful ==
  ASSUME NEW t \in Seq(Level), Len(t) \in Nat \ {0}, NEW sys
  PROVE  Useful(t, sys)
  <1> DEFINE filled == {Instance(t, S) : S \in SUBSET DOMAIN t}
  <1>1. Subscribable(t, sys) <=> \E S \in SUBSET DOMAIN t : Publishable(Instance(t, S), sys) /\ Fills(t, S)
    <2>1. Wilds(t) \in SUBSET DOMAIN t
      BY DEF Wilds
    <2> QED
      BY <2>1, FilterHasTopic, TopicHasFilter
  <1>2. Publishable(t, sys) <=>
          Subscribable(t, sys) /\ \A S \in SUBSET DOMAIN t : Fills(t, S) => Instance(t, S) = t
    BY PublishableNoWilds, MatchesItself
  <1>3. Subscribable(t, sys) <=> \E u \in filled : Publishable(u, sys) /\ Match(t, u)
    BY <1>1, MatchFills
  <1>4. Publishable(t, sys) <=>
          Subscribable(t, sys) /\ \A u \in filled : Match(t, u) => u = t
    BY <1>2, MatchFills
  <1> QED
    BY <1>3, <1>4, Zenon DEF Useful, Instance, Word

\* What is true of the last call: the answers are those of the topic that was asked for.
Judged ==
    topicCall[1] = "check" =>
        /\ topicCall[4] <=> Publishable(topicCall[2], topicCall[3])
        /\ topicCall[5] <=> Subscribable(topicCall[2], topicCall[3])
        /\ Useful(topicCall[2], topicCall[3])

TopicInv == Judged /\ CappedQOS /\ DevicesRouted

\* What a check answers.
LEMMA CheckStep ==
  ASSUME NEW t \in Seq(Level), Len(t) \in Nat \ {0}, NEW sys, CheckTopic(t, sys)
  PROVE  TopicInv'
  <1> DEFINE p == Publishable(t, sys)
             s == Subscribable(t, sys)
  <1>1. topicCall' = <<"check", t, sys, p, s>>
    BY DEF CheckTopic, Publishable, Subscribable
  <1> HIDE DEF p, s
  <1>2. topicCall'[1] = "check" /\ topicCall'[2] = t /\ topicCall'[3] = sys
        /\ topicCall'[4] = p /\ topicCall'[5] = s
    BY <1>1
  <1>3. (topicCall'[4] <=> Publishable(t, sys)) /\ (topicCall'[5] <=> Subscribable(t, sys))
    BY <1>2, Zenon DEF p, s
  <1>4. Judged'
    BY <1>2, <1>3, TopicsUseful DEF Judged
  <1>5. CappedQOS' /\ DevicesRouted'
    BY <1>2 DEF CappedQOS, DevicesRouted
  <1> QED
    BY <1>4, <1>5 DEF TopicInv

\* A set of numbers has a least one.
LEMMA LeastMember ==
  ASSUME NEW T, T \subseteq Nat, T # {}
  PROVE  \E x \in T : \A y \in T : x <= y
  <1>1. \E x \in T : \A y \in T : ~(<<y, x>> \in OpToRel(<, Nat))
    BY NatLessThanWellFounded, WFMin, Zenon
  <1>2. \A x, y \in Nat : x < y => <<x, y>> \in OpToRel(<, Nat)
    BY DEF OpToRel
  <1> DEFINE R == OpToRel(<, Nat)
  <1> HIDE DEF R
  <1>3. PICK x \in T : \A y \in T : ~(<<y, x>> \in R)
    BY <1>1 DEF R
  <1>4. ASSUME NEW y \in T PROVE x <= y
    <2>1. x \in Nat /\ y \in Nat
      OBVIOUS
    <2>2. ~(y < x)
      BY <1>2, <1>3, <2>1 DEF R
    <2> QED
      BY <2>1, <2>2
  <1> QED
    BY <1>4

\* The QoS that a message is delivered with.
LEMMA QOSStep ==
  ASSUME NEW trie, \A s \in trie : s[2] \in Nat, NEW t, MatchTopicQOS(trie, t)
  PROVE  TopicInv'
  <1> DEFINE ss == {s[2] : s \in {s \in trie : Match(s[1], t)}}
             found == ss # {}
             qos == IF \E us \in ss : us < 1 THEN 0 ELSE 1
  <1>1. topicCall' = <<"qos", trie, t, found, qos>>
    BY DEF MatchTopicQOS
  <1>2. \A q \in ss : q \in Nat
    OBVIOUS
  <1>3. (\A q \in ss \cup {1} : qos <= q) /\ qos \in ss \cup {1}
    <2> HIDE DEF ss
    <2> QED
      BY <1>2
  <1> HIDE DEF found, qos
  <1>4. topicCall'[1] = "qos" /\ topicCall'[2] = trie /\ topicCall'[3] = t
        /\ topicCall'[4] = found /\ topicCall'[5] = qos
    BY <1>1
  <1>5. Granted(topicCall'[2], topicCall'[3]) = ss
    BY <1>4 DEF Granted
  <1> HIDE DEF ss
  <1>6. topicCall'[4] <=> ss # {}
    BY <1>4, Zenon DEF found
  <1>7. CappedQOS'
    BY <1>3, <1>4, <1>5, <1>6 DEF CappedQOS
  <1>8. Judged' /\ DevicesRouted'
    BY <1>4 DEF Judged, DevicesRouted
  <1> QED
    BY <1>7, <1>8 DEF TopicInv

\* Of levels that are not empty, every text but the first is one level.
LEMMA GreedyTwo ==
  ASSUME NEW r \in Seq(Level), Len(r) >= 2, \A i \in 1 .. Len(r) : r[i] # <<>>
  PROVE  /\ Cuts(r, 2) # {}
         /\ Greedy(r, 2) = [i \in 0 .. 2 |-> IF i = 0 THEN 0 ELSE Len(r) - 2 + i]
  <1> DEFINE m == Len(r)
             c == [i \in 0 .. 2 |-> IF i = 0 THEN 0 ELSE m - 2 + i]
             G(x) == \A d \in Cuts(r, 2) \ {x} :
                       \E i \in 1 .. 2 : x[i] > d[i] /\ \A h \in 1 .. i - 1 : x[h] = d[h]
  <1>0. m \in Nat
    BY LenProperties
  <1>1. c \in Cuts(r, 2)
    BY <1>0 DEF Cuts
  <1>2. ASSUME NEW d \in Cuts(r, 2)
        PROVE  d \in [0 .. 2 -> 0 .. m] /\ d[0] = 0 /\ d[2] = m /\ d[1] <= m - 1 /\ d[1] \in Nat
    BY <1>0 DEF Cuts
  <1>3. ASSUME NEW d \in Cuts(r, 2), d # c
        PROVE  c[1] > d[1]
    <2>1. c[1] = m - 1 /\ c[0] = 0 /\ c[2] = m /\ c \in [0 .. 2 -> 0 .. m]
      BY <1>0
    <2>2. d[1] # m - 1
      BY <1>2, <1>3, <2>1, <1>0
    <2> QED
      BY <1>0, <1>2, <2>1, <2>2
  <1> HIDE DEF c
  <1>4. G(c)
    BY <1>3
  <1>5. ASSUME NEW x \in Cuts(r, 2), G(x) PROVE x = c
    <2>1. ASSUME x # c PROVE FALSE
      <3>1. c[1] > x[1]
        BY <1>3, <2>1
      <3>2. PICK i \in 1 .. 2 : x[i] > c[i] /\ \A h \in 1 .. i - 1 : x[h] = c[h]
        BY <1>1, <1>5, <2>1
      <3>3. c[1] \in Nat /\ x[1] \in Nat /\ x[2] = m /\ c[2] = m
        BY <1>1, <1>2
      <3> QED
        BY <1>0, <3>1, <3>2, <3>3
    <2> QED
      BY <2>1
  <1>6. Greedy(r, 2) = CHOOSE x \in Cuts(r, 2) : G(x)
    BY DEF Greedy
  <1> HIDE DEF G
  <1>7. Greedy(r, 2) = c
    BY <1>1, <1>4, <1>5, <1>6
  <1> QED
    BY <1>1, <1>7 DEF c
\* The same for four texts.
LEMMA GreedyFour ==
  ASSUME NEW r \in Seq(Level), Len(r) >= 4, \A i \in 1 .. Len(r) : r[i] # <<>>
  PROVE  /\ Cuts(r, 4) # {}
         /\ Greedy(r, 4) = [i \in 0 .. 4 |-> IF i = 0 THEN 0 ELSE Len(r) - 4 + i]
  <1> DEFINE m == Len(r)
             c == [i \in 0 .. 4 |-> IF i = 0 THEN 0 ELSE m - 4 + i]
             Above(x, d) == \E i \in 1 .. 4 : x[i] > d[i] /\ \A h \in 1 .. i - 1 : x[h] = d[h]
             G(x) == \A d \in Cuts(r, 4) \ {x} : Above(x, d)
  <1>0. m \in Nat
    BY LenProperties
  <1>1. c \in Cuts(r, 4)
    BY <1>0 DEF Cuts
  <1>2. ASSUME NEW d \in Cuts(r, 4)
        PROVE  /\ d \in [0 .. 4 -> 0 .. m] /\ d[0] = 0 /\ d[4] = m
               /\ d[3] <= m - 1 /\ d[2] <= m - 2 /\ d[1] <= m - 3
               /\ d[1] \in Nat /\ d[2] \in Nat /\ d[3] \in Nat
    <2>1. /\ d \in [0 .. 4 -> 0 .. m] /\ d[0] = 0 /\ d[4] = m
          /\ \A i \in 1 .. 4 : d[i] > d[i-1]
      BY DEF Cuts
    <2>2. d[4] > d[3] /\ d[3] > d[2] /\ d[2] > d[1] /\ d[1] \in Nat /\ d[2] \in Nat /\ d[3] \in Nat
      BY <1>0, <2>1
    <2> QED
      BY <1>0, <2>1, <2>2
  <1>3. c[1] = m - 3 /\ c[2] = m - 2 /\ c[3] = m - 1 /\ c[4] = m /\ c[0] = 0 /\ c \in [0 .. 4 -> 0 .. m]
    BY <1>0
  <1> HIDE DEF c
  <1>4. ASSUME NEW d \in Cuts(r, 4), d # c
        PROVE  /\ Above(c, d)
               /\ d[1] < c[1] \/ (d[1] = c[1] /\ d[2] < c[2])
                  \/ (d[1] = c[1] /\ d[2] = c[2] /\ d[3] < c[3])
    <2>1. d[1] # c[1] \/ d[2] # c[2] \/ d[3] # c[3]
      <3>1. ASSUME d[1] = c[1], d[2] = c[2], d[3] = c[3] PROVE FALSE
        <4>1. \A i \in 0 .. 4 : d[i] = c[i]
          BY <1>2, <1>3, <3>1
        <4> QED
          BY <4>1, <1>2, <1>3, <1>4
      <3> QED
        BY <3>1
    <2>2. d[1] < c[1] \/ (d[1] = c[1] /\ d[2] < c[2])
           \/ (d[1] = c[1] /\ d[2] = c[2] /\ d[3] < c[3])
      BY <1>0, <1>2, <1>3, <2>1
    <2>3. CASE d[1] < c[1]
      <3>1. c[1] > d[1] /\ \A h \in 1 .. 1 - 1 : c[h] = d[h]
        BY <1>0, <1>2, <1>3, <2>3
      <3> QED
        BY <2>2, <3>1
    <2>4. CASE d[1] = c[1] /\ d[2] < c[2]
      <3>1. c[2] > d[2] /\ \A h \in 1 .. 2 - 1 : c[h] = d[h]
        BY <1>0, <1>2, <1>3, <2>4
      <3> QED
        BY <2>2, <3>1
    <2>5. CASE d[1] = c[1] /\ d[2] = c[2] /\ d[3] < c[3]
      <3>1. c[3] > d[3] /\ \A h \in 1 .. 3 - 1 : c[h] = d[h]
        BY <1>0, <1>2, <1>3, <2>5
      <3> QED
        BY <2>2, <3>1
    <2> QED
      BY <2>2, <2>3, <2>4, <2>5
  <1>5. G(c)
    BY <1>4
  <1>6. ASSUME NEW x \in Cuts(r, 4), G(x) PROVE x = c
    <2>1. ASSUME x # c PROVE FALSE
      <3>1. x[1] < c[1] \/ (x[1] = c[1] /\ x[2] < c[2])
             \/ (x[1] = c[1] /\ x[2] = c[2] /\ x[3] < c[3])
        BY <1>4, <2>1
      <3>2. PICK i \in 1 .. 4 : x[i] > c[i] /\ \A h \in 1 .. i - 1 : x[h] = c[h]
        BY <1>1, <1>6, <2>1
      <3>3. x[1] \in Nat /\ x[2] \in Nat /\ x[3] \in Nat /\ x[4] = m
        BY <1>2
      <3>4. CASE i = 1
        BY <1>0, <1>3, <3>1, <3>2, <3>3, <3>4
      <3>5. CASE i = 2
        <4>1. x[1] = c[1] /\ x[2] > c[2]
          BY <3>2, <3>5
        <4> QED
          BY <1>0, <1>3, <3>1, <3>3, <4>1
      <3>6. CASE i = 3
        <4>1. x[1] = c[1] /\ x[2] = c[2] /\ x[3] > c[3]
          BY <3>2, <3>6
        <4> QED
          BY <1>0, <1>3, <3>1, <3>3, <4>1
      <3>7. CASE i = 4
        BY <1>0, <1>3, <3>2, <3>3, <3>7
      <3> QED
        BY <3>4, <3>5, <3>6, <3>7
    <2> QED
      BY <2>1
  <1>7. Greedy(r, 4) = CHOOSE x \in Cuts(r, 4) : G(x)
    BY DEF Greedy
  <1> HIDE DEF G
  <1>8. Greedy(r, 4) = c
    BY <1>1, <1>5, <1>6, <1>7
  <1> QED
    BY <1>1, <1>8 DEF c

\* The levels from one on.
LEMMA RestOf ==
  ASSUME NEW t \in Seq(Level), NEW i \in Nat \ {0}
  PROVE  /\ SubSeq(t, i, Len(t)) \in Seq(Level)
         /\ Len(SubSeq(t, i, Len(t))) = IF i <= Len(t) THEN Len(t) - i + 1 ELSE 0
         /\ \A j \in 1 .. Len(t) - i + 1 : SubSeq(t, i, Len(t))[j] = t[i + j - 1]
  <1>1. Len(t) \in Nat /\ \A j \in i .. Len(t) : t[j] \in Level
    BY LenProperties, ElementOfSeq
  <1> DEFINE n == Len(t)
  <1> HIDE DEF n
  <1>2. n \in Int /\ i \in Int /\ \A j \in i .. n : t[j] \in Level
    BY <1>1 DEF n
  <1>3. /\ SubSeq(t, i, n) \in Seq(Level)
        /\ Len(SubSeq(t, i, n)) = IF i <= n THEN n - i + 1 ELSE 0
        /\ \A j \in 1 .. n - i + 1 : SubSeq(t, i, n)[j] = t[i + j - 1]
    BY <1>2, SubSeqProperties
  <1> QED
    BY <1>3 DEF n

\* One level of a sequence, cut out.
LEMMA OneLevel ==
  ASSUME NEW r \in Seq(Level), NEW j \in 1 .. Len(r)
  PROVE  SubSeq(r, j, j) = << r[j] >>
  <1>1. Len(r) \in Nat /\ j \in Int /\ \A i \in j .. j : r[i] \in Level
    BY LenProperties, ElementOfSeq
  <1>2. /\ SubSeq(r, j, j) \in Seq(Level) /\ Len(SubSeq(r, j, j)) = 1
        /\ SubSeq(r, j, j)[1] = r[j]
    <2>1. /\ SubSeq(r, j, j) \in Seq(Level)
          /\ Len(SubSeq(r, j, j)) = IF j <= j THEN j - j + 1 ELSE 0
          /\ \A i \in 1 .. j - j + 1 : SubSeq(r, j, j)[i] = r[j + i - 1]
      BY <1>1, SubSeqProperties
    <2> QED
      BY <1>1, <2>1
  <1>3. << r[j] >> \in Seq(Level) /\ Len(<< r[j] >>) = 1 /\ << r[j] >>[1] = r[j]
    <2>1. r[j] \in Level
      BY ElementOfSeq
    <2> QED
      BY <2>1
  <1> DEFINE a == SubSeq(r, j, j)
             b == << r[j] >>
  <1>4. a \in Seq(Level) /\ b \in Seq(Level) /\ Len(a) = 1 /\ Len(b) = 1 /\ a[1] = b[1]
    BY <1>2, <1>3
  <1> HIDE DEF a, b
  <1>5. a = b
    BY <1>4, SeqEqual
  <1> QED
    BY <1>5 DEF a, b
\* Two texts take two levels at least, four take four.
LEMMA CutsLength ==
  ASSUME NEW r \in Seq(Level)
  PROVE  (Cuts(r, 2) # {} => Len(r) >= 2) /\ (Cuts(r, 4) # {} => Len(r) >= 4)
  <1>1. Len(r) \in Nat
    BY LenProperties
  <1>2. ASSUME NEW d \in Cuts(r, 2) PROVE Len(r) >= 2
    <2>1. /\ d \in [0 .. 2 -> 0 .. Len(r)] /\ d[0] = 0 /\ d[2] = Len(r)
          /\ \A i \in 1 .. 2 : d[i] > d[i-1]
      BY DEF Cuts
    <2>2. d[2] > d[1] /\ d[1] > d[0] /\ d[1] \in Nat
      BY <1>1, <2>1
    <2> QED
      BY <1>1, <2>1, <2>2
  <1>3. ASSUME NEW d \in Cuts(r, 4) PROVE Len(r) >= 4
    <2>1. /\ d \in [0 .. 4 -> 0 .. Len(r)] /\ d[0] = 0 /\ d[4] = Len(r)
          /\ \A i \in 1 .. 4 : d[i] > d[i-1]
      BY DEF Cuts
    <2>2. d[4] > d[3] /\ d[3] > d[2] /\ d[2] > d[1] /\ d[1] > d[0]
          /\ d[1] \in Nat /\ d[2] \in Nat /\ d[3] \in Nat
      BY <1>1, <2>1
    <2> QED
      BY <1>1, <2>1, <2>2
  <1> QED
    BY <1>2, <1>3

\* A place where the expression is found, and the text that is read there.
Placed(t, front, k, i) ==
    /\ IsSuffix(front[1], t[i])
    /\ IsPrefix(Tail(front), SubSeq(t, i + 1, Len(t)))
    /\ Cuts(SubSeq(t, i + Len(front), Len(t)), k) # {}
TextAt(t, front, k, g, i) ==
    LET r == SubSeq(t, i + Len(front), Len(t)) IN SubSeq(r, Greedy(r, k)[g - 1] + 1, Greedy(r, k)[g])

\* Either there is no place, or the text is read at one.
LEMMA SubmatchFirst ==
  ASSUME NEW t \in Seq(Level), NEW front, NEW k, NEW g
  PROVE  \/ Submatch(t, front, k, g) = <<>> /\ \A i \in 1 .. Len(t) : ~Placed(t, front, k, i)
         \/ \E f \in 1 .. Len(t) :
               Placed(t, front, k, f) /\ Submatch(t, front, k, g) = TextAt(t, front, k, g, f)
  <1> DEFINE P == {i \in 1 .. Len(t) : Placed(t, front, k, i)}
             first == CHOOSE i \in P : \A j \in P : i <= j
  <1>1. Submatch(t, front, k, g) = IF P = {} THEN <<>> ELSE TextAt(t, front, k, g, first)
    BY Zenon DEF Submatch, Placed, TextAt
  <1>2. CASE P = {}
    BY <1>1, <1>2
  <1>3. CASE P # {}
    <2>1. P \subseteq Nat
      BY LenProperties
    <2> HIDE DEF P
    <2>2. \E i \in P : \A j \in P : i <= j
      BY <1>3, <2>1, LeastMember
    <2>3. first \in P
      BY <2>2
    <2> HIDE DEF first
    <2>4. first \in 1 .. Len(t) /\ Placed(t, front, k, first)
      BY <2>3 DEF P
    <2>5. Submatch(t, front, k, g) = TextAt(t, front, k, g, first)
      BY <1>1, <1>3
    <2> QED
      BY <2>4, <2>5
  <1> QED
    BY <1>2, <1>3

\* No level is empty.
Whole(t) == \A i \in 1 .. Len(t) : t[i] # <<>>

\* The device of $baetyl/device/<device>/<any>: what is read at a place ends before the last
\* level.
LEMMA TextOfTwo ==
  ASSUME NEW t \in Seq(Level), Whole(t), NEW front, Len(front) \in Nat,
         NEW f \in 1 .. Len(t), Placed(t, front, 2, f),
         Len(TextAt(t, front, 2, 1, f)) = 1 \/ Len(t) = Len(front) + 2
  PROVE  TextAt(t, front, 2, 1, f) = << t[Len(t) - 1] >>
  <1> DEFINE b == f + Len(front)
             r == SubSeq(t, b, Len(t))
             m == Len(r)
             n == Len(t)
  <1>1. n \in Nat /\ b \in Nat \ {0} /\ f >= 1
    BY LenProperties
  <1>2. r \in Seq(Level) /\ m = (IF b <= n THEN n - b + 1 ELSE 0)
        /\ \A j \in 1 .. n - b + 1 : r[j] = t[b + j - 1]
    BY <1>1, RestOf
  <1>3. Cuts(r, 2) # {}
    BY DEF Placed
  <1>4. TextAt(t, front, 2, 1, f) = SubSeq(r, Greedy(r, 2)[1 - 1] + 1, Greedy(r, 2)[1])
    BY DEF TextAt
  <1> HIDE DEF r
  <1>5. m >= 2 /\ m \in Nat
    BY <1>2, <1>3, CutsLength, LenProperties
  <1> HIDE DEF b, m, n
  <1>6. b = n - m + 1
    BY <1>1, <1>2, <1>5
  <1>7. \A j \in 1 .. m : r[j] = t[b + j - 1] /\ b + j - 1 \in 1 .. n
    BY <1>1, <1>2, <1>5, <1>6
  <1>8. \A j \in 1 .. m : r[j] # <<>>
    BY <1>7 DEF Whole, n
  <1>9. Greedy(r, 2)[0] = 0 /\ Greedy(r, 2)[1] = m - 1
    <2>1. Greedy(r, 2) = [i \in 0 .. 2 |-> IF i = 0 THEN 0 ELSE m - 2 + i]
      BY <1>2, <1>5, <1>8, GreedyTwo DEF m
    <2> QED
      BY <1>5, <2>1
  <1>10. TextAt(t, front, 2, 1, f) = SubSeq(r, 1, m - 1)
    <2>1. 1 - 1 = 0 /\ 0 + 1 = 1
      OBVIOUS
    <2> QED
      BY <1>4, <1>9, <2>1
  <1>11. m = 2
    <2>1. CASE Len(TextAt(t, front, 2, 1, f)) = 1
      <3>1. \A i \in 1 .. m - 1 : r[i] \in Level
        BY <1>2, <1>5, ElementOfSeq DEF m
      <3>2. Len(SubSeq(r, 1, m - 1)) = IF 1 <= m - 1 THEN m - 1 - 1 + 1 ELSE 0
        BY <1>5, <3>1, SubSeqProperties
      <3> QED
        BY <1>5, <1>10, <2>1, <3>2
    <2>2. CASE n = Len(front) + 2
      BY <1>1, <1>5, <1>6, <2>2 DEF b, n
    <2> QED
      BY <2>1, <2>2 DEF n
  <1>12. SubSeq(r, 1, 1) = << r[1] >>
    <2>1. 1 \in 1 .. Len(r)
      BY <1>11 DEF m
    <2> QED
      BY <1>2, <2>1, OneLevel
  <1>13. r[1] = t[n - 1]
    BY <1>1, <1>5, <1>6, <1>7, <1>11
  <1> QED
    BY <1>10, <1>11, <1>12, <1>13 DEF n

\* The device of thing/<any>/<device>/<any>/<any>: the last but two.
LEMMA TextOfFour ==
  ASSUME NEW t \in Seq(Level), Whole(t), NEW front, Len(front) \in Nat,
         NEW f \in 1 .. Len(t), Placed(t, front, 4, f)
  PROVE  TextAt(t, front, 4, 2, f) = << t[Len(t) - 2] >>
  <1> DEFINE b == f + Len(front)
             r == SubSeq(t, b, Len(t))
             m == Len(r)
             n == Len(t)
  <1>1. n \in Nat /\ b \in Nat \ {0}
    BY LenProperties
  <1>2. r \in Seq(Level) /\ m = (IF b <= n THEN n - b + 1 ELSE 0)
        /\ \A j \in 1 .. n - b + 1 : r[j] = t[b + j - 1]
    BY <1>1, RestOf
  <1>3. Cuts(r, 4) # {}
    BY DEF Placed
  <1>4. TextAt(t, front, 4, 2, f) = SubSeq(r, Greedy(r, 4)[2 - 1] + 1, Greedy(r, 4)[2])
    BY DEF TextAt
  <1> HIDE DEF r
  <1>5. m >= 4 /\ m \in Nat
    BY <1>2, <1>3, CutsLength, LenProperties
  <1> HIDE DEF b, m, n
  <1>6. b = n - m + 1
    BY <1>1, <1>2, <1>5
  <1>7. \A j \in 1 .. m : r[j] = t[b + j - 1] /\ b + j - 1 \in 1 .. n
    BY <1>1, <1>2, <1>5, <1>6
  <1>8. \A j \in 1 .. m : r[j] # <<>>
    BY <1>7 DEF Whole, n
  <1>9. Greedy(r, 4)[1] = m - 3 /\ Greedy(r, 4)[2] = m - 2
    <2>1. Greedy(r, 4) = [i \in 0 .. 4 |-> IF i = 0 THEN 0 ELSE m - 4 + i]
      BY <1>2, <1>5, <1>8, GreedyFour DEF m
    <2> QED
      BY <1>5, <2>1
  <1>10. TextAt(t, front, 4, 2, f) = SubSeq(r, m - 2, m - 2)
    <2>1. (m - 3) + 1 = m - 2 /\ 2 - 1 = 1
      BY <1>5
    <2> QED
      BY <1>4, <1>9, <2>1
  <1>11. m - 2 \in 1 .. m
    BY <1>5
  <1>12. SubSeq(r, m - 2, m - 2) = << r[m - 2] >>
    BY <1>2, <1>11, OneLevel DEF m
  <1>13. r[m - 2] = t[n - 2]
    BY <1>1, <1>5, <1>6, <1>7, <1>11
  <1> QED
    BY <1>10, <1>12, <1>13 DEF n

\* A level ends with itself.
LEMMA OwnSuffix ==
  ASSUME NEW x \in Level
  PROVE  IsSuffix(x, x)
  <1> DEFINE r == Reverse(x)
  <1>1. Len(x) \in Nat
    BY LenProperties DEF Level
  <1>2. r = [i \in 1 .. Len(x) |-> x[(Len(x) - i) + 1]]
    BY DEF Reverse
  <1>3. \A i \in 1 .. Len(x) : x[(Len(x) - i) + 1] \in Part
    BY <1>1, ElementOfSeq DEF Level
  <1> HIDE DEF r
  <1>4. r \in [1 .. Len(x) -> Part]
    BY <1>2, <1>3
  <1>5. r \in Seq(Part)
    BY <1>1, <1>4, SeqDef
  <1>6. Len(r) \in Nat
    BY <1>5, LenProperties
  <1>7. Len(r) <= Len(r)
    BY <1>6
  <1>8. IsPrefix(r, r)
    BY <1>7 DEF IsPrefix
  <1> QED
    BY <1>8 DEF IsSuffix, r

\* What is parsed for a device.
LEMMA DeviceStep ==
  ASSUME NEW t \in Seq(Level), Len(t) \in Nat \ {0}, ParseDeviceTopic(t)
  PROVE  TopicInv'
  <1> DEFINE d == Device(t)
             n == Len(t)
             sysFront == << <<"$", "baetyl">>, <<"device">> >>
             blinkFront == << <<"thing">> >>
  <1>1. topicCall' = <<"device", t, d>>
    BY DEF ParseDeviceTopic
  <1>2. Len(sysFront) = 2 /\ Len(blinkFront) = 1
    OBVIOUS
  <1>3. d = IF HasPrefix(t[1]) THEN Submatch(t, sysFront, 2, 1) ELSE Submatch(t, blinkFront, 4, 2)
    BY DEF Device, ParseTopic, parseBlinkTopic
  <1> HIDE DEF d, sysFront, blinkFront
  <1>4. ASSUME Whole(t), Len(d) = 1
        PROVE  d = IF HasPrefix(t[1]) THEN << t[n - 1] >> ELSE << t[n - 2] >>
    <2>1. d # <<>>
      <3>1. Len(<<>>) = 0 /\ 0 # 1
        OBVIOUS
      <3> QED
        BY <1>4, <3>1, Zenon
    <2>2. CASE HasPrefix(t[1])
      <3>1. PICK f \in 1 .. Len(t) : Placed(t, sysFront, 2, f) /\ d = TextAt(t, sysFront, 2, 1, f)
        BY <1>3, <2>1, <2>2, SubmatchFirst
      <3> QED
        BY <1>2, <1>4, <2>2, <3>1, TextOfTwo
    <2>3. CASE ~HasPrefix(t[1])
      <3>1. PICK f \in 1 .. Len(t) : Placed(t, blinkFront, 4, f) /\ d = TextAt(t, blinkFront, 4, 2, f)
        BY <1>3, <2>1, <2>3, SubmatchFirst
      <3> QED
        BY <1>2, <1>4, <2>3, <3>1, TextOfFour
    <2> QED
      BY <2>2, <2>3
  <1>5. ASSUME Whole(t), n = 4, t[1] = <<"$", "baetyl">>, t[2] = <<"device">>
        PROVE  d = << t[3] >>
    <2>1. HasPrefix(t[1])
      BY <1>5 DEF HasPrefix
    <2>2. Placed(t, sysFront, 2, 1)
      <3>1. IsSuffix(sysFront[1], t[1])
        <4>1. sysFront[1] = t[1]
          BY <1>5 DEF sysFront
        <4>2. t[1] \in Level
          BY <1>5, ElementOfSeq
        <4> QED
          BY <4>1, <4>2, OwnSuffix
      <3>3. IsPrefix(Tail(sysFront), SubSeq(t, 1 + 1, Len(t)))
        <4> DEFINE a == << t[2] >>
                   r == SubSeq(t, 1 + 1, Len(t))
        <4>1. Tail(sysFront) = a
          <5>1. Tail(sysFront) = << <<"device">> >>
            BY DEF sysFront
          <5> QED
            BY <1>5, <5>1
        <4>2. /\ r \in Seq(Level)
              /\ Len(r) = IF 1 + 1 <= Len(t) THEN Len(t) - (1 + 1) + 1 ELSE 0
              /\ \A j \in 1 .. Len(t) - (1 + 1) + 1 : r[j] = t[(1 + 1) + j - 1]
          BY RestOf
        <4> HIDE DEF r
        <4>3. Len(r) = 3 /\ r[1] = t[2]
          BY <1>5, <4>2
        <4>4. a \in Seq(Level) /\ Len(a) = 1 /\ a[1] = t[2]
          <5>1. t[2] \in Level
            BY <1>5, ElementOfSeq
          <5> QED
            BY <5>1
        <4> HIDE DEF a
        <4>5. SubSeq(a, 1, 1) = << t[2] >> /\ SubSeq(r, 1, 1) = << t[2] >>
          <5>1. 1 \in 1 .. Len(a) /\ 1 \in 1 .. Len(r)
            BY <4>3, <4>4
          <5> QED
            BY <4>2, <4>3, <4>4, <5>1, OneLevel
        <4>6. IsPrefix(a, r)
          BY <4>3, <4>4, <4>5 DEF IsPrefix
        <4> QED
          BY <4>1, <4>6 DEF r
      <3>2. Cuts(SubSeq(t, 1 + Len(sysFront), Len(t)), 2) # {}
        <4> DEFINE r == SubSeq(t, 3, Len(t))
        <4>1. r \in Seq(Level) /\ Len(r) = 2 /\ \A j \in 1 .. 2 : r[j] = t[3 + j - 1]
          <5>1. /\ r \in Seq(Level)
                /\ Len(r) = IF 3 <= Len(t) THEN Len(t) - 3 + 1 ELSE 0
                /\ \A j \in 1 .. Len(t) - 3 + 1 : r[j] = t[3 + j - 1]
            BY RestOf
          <5> HIDE DEF r
          <5> QED
            BY <1>5, <5>1
        <4> HIDE DEF r
        <4>2. \A i \in 1 .. Len(r) : r[i] # <<>>
          BY <1>5, <4>1 DEF Whole
        <4>3. Cuts(r, 2) # {}
          BY <4>1, <4>2, Len(r) >= 2, GreedyTwo
        <4> QED
          BY <1>2, <4>3 DEF r
      <3> QED
        BY <3>1, <3>2, <3>3 DEF Placed
    <2>3. PICK f \in 1 .. Len(t) : Placed(t, sysFront, 2, f) /\ d = TextAt(t, sysFront, 2, 1, f)
      BY <1>3, <2>1, <2>2, 1 \in 1 .. Len(t), SubmatchFirst
    <2> QED
      <3>1. d = << t[Len(t) - 1] >>
        <4>1. Whole(t) /\ Len(t) = Len(sysFront) + 2 /\ Len(sysFront) \in Nat
          BY <1>2, <1>5
        <4> QED
          BY <2>3, <4>1, TextOfTwo
      <3>2. Len(t) - 1 = 3
        BY <1>5
      <3> QED
        BY <3>1, <3>2
  <1>6. ASSUME Whole(t), n = 5, t[1] = <<"thing">>
        PROVE  d = << t[3] >>
    <2>1. ~HasPrefix(t[1])
      BY <1>6 DEF HasPrefix
    <2>2. Placed(t, blinkFront, 4, 1)
      <3>1. IsSuffix(blinkFront[1], t[1])
        <4>1. blinkFront[1] = t[1]
          BY <1>6 DEF blinkFront
        <4>2. t[1] \in Level
          BY <1>6, ElementOfSeq
        <4> QED
          BY <4>1, <4>2, OwnSuffix
      <3>3. IsPrefix(Tail(blinkFront), SubSeq(t, 1 + 1, Len(t)))
        <4> DEFINE r == SubSeq(t, 1 + 1, Len(t))
        <4>1. Tail(blinkFront) = <<>>
          BY DEF blinkFront
        <4>2. r \in Seq(Level)
          BY RestOf
        <4> HIDE DEF r
        <4>3. Len(r) \in Nat /\ Len(<<>>) = 0
          BY <4>2, LenProperties
        <4>4. SubSeq(r, 1, 0) = <<>> /\ SubSeq(<<>>, 1, 0) = <<>>
          BY <4>2, SubSeqEmpty
        <4>5. IsPrefix(<<>>, r)
          BY <4>3, <4>4 DEF IsPrefix
        <4> QED
          BY <4>1, <4>5 DEF r
      <3>2. Cuts(SubSeq(t, 1 + Len(blinkFront), Len(t)), 4) # {}
        <4> DEFINE r == SubSeq(t, 2, Len(t))
        <4>1. r \in Seq(Level) /\ Len(r) = 4 /\ \A j \in 1 .. 4 : r[j] = t[2 + j - 1]
          <5>1. /\ r \in Seq(Level)
                /\ Len(r) = IF 2 <= Len(t) THEN Len(t) - 2 + 1 ELSE 0
                /\ \A j \in 1 .. Len(t) - 2 + 1 : r[j] = t[2 + j - 1]
            BY RestOf
          <5> HIDE DEF r
          <5> QED
            BY <1>6, <5>1
        <4> HIDE DEF r
        <4>2. \A i \in 1 .. Len(r) : r[i] # <<>>
          BY <1>6, <4>1 DEF Whole
        <4>3. Cuts(r, 4) # {}
          BY <4>1, <4>2, Len(r) >= 4, GreedyFour
        <4> QED
          BY <1>2, <4>3 DEF r
      <3> QED
        BY <3>1, <3>2, <3>3 DEF Placed
    <2>3. PICK f \in 1 .. Len(t) : Placed(t, blinkFront, 4, f) /\ d = TextAt(t, blinkFront, 4, 2, f)
      BY <1>3, <2>1, <2>2, 1 \in 1 .. Len(t), SubmatchFirst
    <2> QED
      <3>1. d = << t[Len(t) - 2] >>
        <4>1. Whole(t) /\ Len(blinkFront) \in Nat
          BY <1>2, <1>6
        <4> QED
          BY <2>3, <4>1, TextOfFour
      <3>2. Len(t) - 2 = 3
        BY <1>6
      <3> QED
        BY <3>1, <3>2
  <1>7. topicCall'[1] = "device" /\ topicCall'[2] = t /\ topicCall'[3] = d
    BY <1>1
  <1>8. DevicesRouted'
    BY <1>4, <1>5, <1>6, <1>7 DEF DevicesRouted, Whole
  <1>9. Judged' /\ CappedQOS'
    BY <1>7 DEF Judged, CappedQOS
  <1> QED
    BY <1>8, <1>9 DEF TopicInv

\* For all levels, lists of system topics, subscriptions and bounds: a topic is accepted for
\* subscribing exactly if it matches one that is accepted for publishing, a message is
\* delivered with the lowest QoS that is granted, though with 1 at most, and a topic is of the device at its place (CheckTopic,
\* MatchTopicQOS, ParseDeviceTopic).
THEOREM TopicsJudged == TopicSpec => []TopicsSound
  <1>1. TopicInit => TopicInv
    BY DEF TopicInit, NoTopicCall, TopicInv, Judged, CappedQOS, DevicesRouted
  <1>2. ASSUME NEW L, L \subseteq Seq(STRING)
        PROVE  L \subseteq Level
    <2>1. STRING \subseteq Part
      BY DEF Part
    <2>2. ASSUME NEW s \in L PROVE s \in Level
      BY <1>2, <2>1, SeqMonotonic DEF Level
    <2> QED
      BY <2>2
  <1>3. CheckedLevels \subseteq Level /\ DeviceLevels \subseteq Level
    BY <1>2, TopicsAssumption
  <1>4. TopicInv /\ [TopicNext]_topicCall => TopicInv'
    <2> SUFFICES ASSUME TopicInv, [TopicNext]_topicCall
                 PROVE  TopicInv'
      OBVIOUS
    <2>1. ASSUME NEW t \in Topic(MaxTopicLevels + 2, CheckedLevels), NEW sys \in SysTopics,
                 CheckTopic(t, sys)
          PROVE  TopicInv'
      <3>1. t \in Seq(Level) /\ Len(t) \in Nat \ {0}
        <4>1. MaxTopicLevels + 2 \in Nat
          BY TopicsAssumption
        <4> QED
          BY <1>3, <4>1, TopicLevels
      <3> QED
        BY <2>1, <3>1, CheckStep
    <2>2. ASSUME NEW a \in Subscriptions, NEW b \in Subscriptions, NEW t, MatchTopicQOS({a, b}, t)
          PROVE  TopicInv'
      <3>1. \A s \in {a, b} : s[2] \in Nat
        BY TopicsAssumption
      <3> QED
        BY <2>2, <3>1, QOSStep
    <2>3. ASSUME NEW t \in Topic(MaxParsedLevels, DeviceLevels), ParseDeviceTopic(t)
          PROVE  TopicInv'
      <3>1. t \in Seq(Level) /\ Len(t) \in Nat \ {0}
        BY <1>3, TopicsAssumption, TopicLevels
      <3> QED
        BY <2>3, <3>1, DeviceStep
    <2>4. ASSUME UNCHANGED topicCall PROVE TopicInv'
      <3>1. Judged'
        BY <2>4 DEF TopicInv, Judged
      <3>2. CappedQOS'
        BY <2>4 DEF TopicInv, CappedQOS
      <3>3. DevicesRouted'
        BY <2>4 DEF TopicInv, DevicesRouted
      <3> QED
        BY <3>1, <3>2, <3>3 DEF TopicInv
    <2> QED
      BY <2>1, <2>2, <2>3, <2>4 DEF TopicNext
  <1>5. TopicInv => TopicsSound
    BY Zenon DEF TopicInv, Judged, TopicsSound, FiltersUseful, Useful, Publishable
  <1> QED
    BY <1>1, <1>4, <1>5, PTL DEF TopicSpec

=============================================================================
