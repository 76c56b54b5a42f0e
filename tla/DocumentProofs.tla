---------------------------- MODULE DocumentProofs ----------------------------
(***************************************************************************)
(* Proofs about what is kept as a document: the service mapping and its    *)
(* file, for any set of instances, services and lists of ports; and the    *)
(* shadow of a node and what is shown of it, for all documents, to any     *)
(* depth.                                                                  *)
(***************************************************************************)
EXTENDS ServiceMapping, NodeView, SequenceTheorems, WellFoundedInduction, TLAPS

-----------------------------------------------------------------------------
(* The service mapping                                                     *)

\* A round through a list of n ports has got to place o: the places up to o were
\* used once more than the others.
Round(n, o, u) ==
    n > 0 => /\ o < n
             /\ \A i, j \in 1 .. n :
                  /\ (i <= o <=> j <= o) => u[i] = u[j]
                  /\ i <= o /\ j > o => u[i] = u[j] + 1

RoundInv ==
    \A m \in Instances : \A s \in DOMAIN services[m] :
        Round(Len(services[m][s]), offset[m][s], used[m][s])

SavedInv == saved = "yes" /\ pc[Writer] = "idle" => file = services[Writer]

MappingInv == TypeOK /\ RoundInv /\ SavedInv

-----------------------------------------------------------------------------
(* Tables                                                                  *)

LEMMA TableType ==
    ASSUME NEW t \in Table
    PROVE  /\ DOMAIN t \subseteq Services
           /\ \A s \in DOMAIN t : t[s] \in Ports
           /\ t = [s \in DOMAIN t |-> t[s]]
  BY DEF Table

LEMMA TableMade ==
    ASSUME NEW D \in SUBSET Services, NEW t \in [D -> Ports]
    PROVE  t \in Table
  BY DEF Table

\* Reading the file keeps the services of the table, and changes nothing when the
\* file is the table.
LEMMA MergedTable ==
    ASSUME NEW t \in Table, NEW c \in Table
    PROVE  /\ Merged(t, c) \in Table
           /\ DOMAIN Merged(t, c) = DOMAIN t \cup DOMAIN c
           /\ \A s \in DOMAIN t \cup DOMAIN c :
                Merged(t, c)[s] = IF s \in DOMAIN c THEN c[s] ELSE t[s]
           /\ c = t => Merged(t, c) = t
  <1>1. /\ DOMAIN t \subseteq Services /\ DOMAIN c \subseteq Services
        /\ \A s \in DOMAIN t : t[s] \in Ports
        /\ \A s \in DOMAIN c : c[s] \in Ports
        /\ t = [s \in DOMAIN t |-> t[s]]
    BY TableType
  <1>2. DOMAIN t \cup DOMAIN c \in SUBSET Services
    BY <1>1
  <1>3. Merged(t, c) \in [DOMAIN t \cup DOMAIN c -> Ports]
    BY <1>1 DEF Merged
  <1>4. Merged(t, c) \in Table
    BY <1>2, <1>3, TableMade
  <1>5. c = t => Merged(t, c) = t
    BY <1>1 DEF Merged
  <1> QED
    BY <1>4, <1>5 DEF Merged

LEMMA EmptyTable == Empty \in Table /\ DOMAIN Empty = {}
  <1>1. DOMAIN Empty = {} /\ Empty \in [{} -> Ports]
    BY DEF Empty
  <1> QED
    BY <1>1, TableMade

\* A list of ports has its places among Places, and nothing of it is used at first.
LEMMA PlacesOf ==
    ASSUME NEW p \in Ports
    PROVE  /\ Len(p) \in Nat /\ 1 .. Len(p) \subseteq Places
           /\ Round(Len(p), 0, Unused)
  <1>1. p \in Seq(Nat)
    BY MappingAssumption
  <1>2. Len(p) \in Nat /\ DOMAIN p = 1 .. Len(p)
    BY <1>1, LenProperties
  <1>3. 1 .. Len(p) \subseteq Places
    BY <1>2 DEF Places
  <1> QED
    BY <1>2, <1>3 DEF Round, Unused

LEMMA UnusedType == Unused \in [Places -> 0 .. MaxGets]
  BY MappingAssumption DEF Unused

\* portsInfo.Next goes on with the round.
LEMMA NextRound ==
    ASSUME NEW n \in Nat \ {0}, NEW o \in Nat, NEW u, Round(n, o, u),
           \A i \in 1 .. n : u[i] \in Nat,
           NEW v, \A i \in 1 .. n : v[i] = IF i = o + 1 THEN u[i] + 1 ELSE u[i]
    PROVE  NextOffset(o, n) \in Nat /\ Round(n, NextOffset(o, n), v)
  <1>1. o < n
    BY DEF Round
  <1>2. CASE o + 1 < n
    <2>1. NextOffset(o, n) = o + 1
      BY <1>2 DEF NextOffset
    <2> QED
      BY <1>2, <2>1 DEF Round
  <1>3. CASE o + 1 = n
    <2>1. NextOffset(o, n) = 0
      BY <1>3 DEF NextOffset
    <2> QED
      BY <1>3, <2>1 DEF Round
  <1> QED
    BY <1>1, <1>2, <1>3

-----------------------------------------------------------------------------
LEMMA InitMapping == Init => MappingInv
  <1> SUFFICES ASSUME Init PROVE MappingInv
    OBVIOUS
  <1>1. /\ file \in Table /\ services \in [Instances -> Table]
    BY EmptyTable DEF Init
  <1>2. /\ error \in [Instances -> BOOLEAN] /\ ended \in [Instances -> BOOLEAN]
        /\ event \in [Instances -> BOOLEAN] /\ saved \in {"no", "yes", "failed"}
    BY DEF Init
  <1>3. used \in [Instances -> [Services -> [Places -> 0 .. MaxGets]]]
    BY UnusedType DEF Init
  <1>4. TypeOK
    BY <1>1, <1>2, <1>3, MappingAssumption DEF Init, TypeOK
  <1>5. RoundInv /\ SavedInv
    BY EmptyTable DEF Init, RoundInv, SavedInv
  <1> QED
    BY <1>4, <1>5 DEF MappingInv

LEMMA NotifiedType ==
    ASSUME TypeOK
    PROVE  Notified \in [Instances -> BOOLEAN]
  BY DEF TypeOK, Notified

\* load, by whichever instance: the services that were read begin a new round, and a
\* writer that reads its own file keeps its table.
LEMMA LoadKeeps ==
    ASSUME MappingInv, NEW m \in Instances, Load(m), UNCHANGED <<file, saved>>,
           pc'[Writer] = pc[Writer]
    PROVE  /\ services' \in [Instances -> Table]
           /\ offset' \in [Instances -> [Services -> Nat]]
           /\ used' \in [Instances -> [Services -> [Places -> 0 .. MaxGets]]]
           /\ RoundInv' /\ SavedInv'
           /\ \A n \in Instances : DOMAIN services[n] \subseteq DOMAIN services'[n]
  <1> DEFINE t == Merged(services[m], file)
  <1>1. /\ services[m] \in Table /\ file \in Table /\ services' = [services EXCEPT ![m] = t]
        /\ services \in [Instances -> Table]
    BY DEF Load, MappingInv, TypeOK
  <1>2. /\ t \in Table /\ DOMAIN t = DOMAIN services[m] \cup DOMAIN file
        /\ \A s \in DOMAIN t : t[s] = IF s \in DOMAIN file THEN file[s] ELSE services[m][s]
        /\ file = services[m] => t = services[m]
    <2>1. /\ t \in Table /\ DOMAIN t = DOMAIN services[m] \cup DOMAIN file
          /\ file = services[m] => t = services[m]
      <3>1. /\ Merged(services[m], file) \in Table
            /\ DOMAIN Merged(services[m], file) = DOMAIN services[m] \cup DOMAIN file
        BY <1>1, MergedTable, Zenon
      <3>2. file = services[m] => Merged(services[m], file) = services[m]
        BY <1>1, MergedTable, Zenon
      <3> QED
        BY <3>1, <3>2, Zenon
    <2>2. \A s \in DOMAIN services[m] \cup DOMAIN file :
              Merged(services[m], file)[s] = IF s \in DOMAIN file THEN file[s] ELSE services[m][s]
      BY DEF Merged
    <2> QED
      BY <2>1, <2>2, Zenon
  <1> HIDE DEF t
  <1>3. services' \in [Instances -> Table]
    BY <1>1, <1>2
  <1>4. /\ Restarted(m) \in [Services -> Nat] /\ offset' = [offset EXCEPT ![m] = Restarted(m)]
        /\ offset' \in [Instances -> [Services -> Nat]]
    BY DEF Load, Restarted, MappingInv, TypeOK
  <1>5. PICK u : /\ u = [s \in Services |-> IF s \in DOMAIN file THEN Unused ELSE used[m][s]]
                 /\ used' = [used EXCEPT ![m] = u]
    BY DEF Load
  <1>6. used' \in [Instances -> [Services -> [Places -> 0 .. MaxGets]]]
    <2>1. u \in [Services -> [Places -> 0 .. MaxGets]]
      BY <1>5, UnusedType DEF MappingInv, TypeOK
    <2> QED
      BY <1>5, <2>1 DEF MappingInv, TypeOK
  <1>7. RoundInv'
    <2> SUFFICES ASSUME NEW n \in Instances, NEW s \in DOMAIN services'[n]
                 PROVE  Round(Len(services'[n][s]), offset'[n][s], used'[n][s])
      BY DEF RoundInv
    <2>1. CASE n # m
      <3>1. services'[n] = services[n] /\ offset'[n] = offset[n] /\ used'[n] = used[n]
        BY <1>1, <1>4, <1>5, <2>1 DEF MappingInv, TypeOK
      <3> QED
        BY <3>1 DEF MappingInv, RoundInv
    <2>2. CASE n = m
      <3>1. services'[n] = t /\ offset'[n] = Restarted(m) /\ used'[n] = u /\ s \in DOMAIN t
        BY <1>1, <1>4, <1>5, <2>2 DEF MappingInv, TypeOK
      <3>2. s \in Services
        BY <1>2, <3>1, TableType
      <3>3. CASE s \in DOMAIN file
        <4>1. services'[n][s] = file[s] /\ file[s] \in Ports
          BY <1>1, <1>2, <3>1, <3>3, TableType
        <4>2. offset'[n][s] = 0 /\ used'[n][s] = Unused
          BY <1>5, <3>1, <3>2, <3>3 DEF Restarted
        <4> QED
          BY <4>1, <4>2, PlacesOf
      <3>4. CASE s \notin DOMAIN file
        <4>1. services'[n][s] = services[m][s] /\ s \in DOMAIN services[m]
          BY <1>2, <3>1, <3>4
        <4>2. offset'[n][s] = offset[m][s] /\ used'[n][s] = used[m][s]
          BY <1>5, <3>1, <3>2, <3>4 DEF Restarted
        <4> QED
          BY <4>1, <4>2 DEF MappingInv, RoundInv
      <3> QED
        BY <3>3, <3>4
    <2> QED
      BY <2>1, <2>2
  <1>8. SavedInv'
    BY <1>1, <1>2 DEF MappingInv, SavedInv, Instances
  <1>9. \A n \in Instances : DOMAIN services[n] \subseteq DOMAIN services'[n]
    BY <1>1, <1>2
  <1> QED
    BY <1>3, <1>4, <1>6, <1>7, <1>8, <1>9

-----------------------------------------------------------------------------
(* One lemma for each kind of step                                         *)

\* The service begins a new round; the file is empty until the save goes on, or the
\* save is refused.
LEMMA SetKeeps ==
    ASSUME MappingInv, NEW s \in Services, NEW p \in Ports, SetServicePorts(s, p)
    PROVE  MappingInv'
  <1>1. PICK t : /\ t = [x \in DOMAIN services[Writer] \cup {s} |->
                            IF x = s THEN p ELSE services[Writer][x]]
                 /\ services' = [services EXCEPT ![Writer] = t]
    BY DEF SetServicePorts
  <1>2. Writer \in Instances /\ services[Writer] \in Table /\ services \in [Instances -> Table]
    BY DEF Instances, MappingInv, TypeOK
  <1>3. /\ DOMAIN t = DOMAIN services[Writer] \cup {s} /\ t[s] = p
        /\ \A x \in DOMAIN services[Writer] : x # s => t[x] = services[Writer][x]
    BY <1>1
  <1>4. t \in Table
    <2>1. DOMAIN services[Writer] \subseteq Services
          /\ \A x \in DOMAIN services[Writer] : services[Writer][x] \in Ports
      BY <1>2, TableType
    <2>2. t \in [DOMAIN services[Writer] \cup {s} -> Ports]
      BY <1>1, <2>1
    <2> QED
      BY <2>1, <2>2, TableMade
  <1>5. /\ services' \in [Instances -> Table] /\ file' \in Table
        /\ event' \in [Instances -> BOOLEAN]
    BY <1>1, <1>2, <1>4, EmptyTable, NotifiedType DEF SetServicePorts, SaveBegins, MappingInv, TypeOK
  <1>6. /\ offset' = [offset EXCEPT ![Writer][s] = 0]
        /\ used' = [used EXCEPT ![Writer][s] = Unused]
        /\ offset' \in [Instances -> [Services -> Nat]]
        /\ used' \in [Instances -> [Services -> [Places -> 0 .. MaxGets]]]
    BY UnusedType DEF SetServicePorts, SaveBegins, MappingInv, TypeOK
  <1>7. error' \in [Instances -> BOOLEAN] /\ ended' \in [Instances -> BOOLEAN] /\ saved' \in {"no", "yes", "failed"}
    BY DEF SetServicePorts, SaveBegins, MappingInv, TypeOK
  <1>8. TypeOK'
    <2>1. pc' \in [Instances -> {"idle", "truncated"}]
      BY DEF SetServicePorts, SaveBegins, MappingInv, TypeOK
    <2>2. writes' \in 0 .. MaxWrites
      BY MappingAssumption DEF SetServicePorts, SaveBegins, MappingInv, TypeOK
    <2> QED
      BY <1>5, <1>6, <1>7, <2>1, <2>2 DEF SetServicePorts, MappingInv, TypeOK
  <1>9. RoundInv'
    <2> SUFFICES ASSUME NEW n \in Instances, NEW x \in DOMAIN services'[n]
                 PROVE  Round(Len(services'[n][x]), offset'[n][x], used'[n][x])
      BY DEF RoundInv
    <2>1. CASE n = Writer /\ x = s
      <3>1. services'[n][x] = p /\ offset'[n][x] = 0 /\ used'[n][x] = Unused
        BY <1>1, <1>2, <1>3, <1>6, <2>1 DEF MappingInv, TypeOK
      <3> QED
        BY <3>1, PlacesOf
    <2>2. CASE ~(n = Writer /\ x = s)
      <3>1. x \in DOMAIN services[n] /\ services'[n][x] = services[n][x]
        BY <1>1, <1>2, <1>3, <2>2
      <3>2. offset'[n][x] = offset[n][x] /\ used'[n][x] = used[n][x]
        BY <1>6, <2>2 DEF MappingInv, TypeOK
      <3> QED
        BY <3>1, <3>2 DEF MappingInv, RoundInv
    <2> QED
      BY <2>1, <2>2
  <1>10. SavedInv'
    BY <1>2 DEF SetServicePorts, SaveBegins, SavedInv, MappingInv, TypeOK
  <1> QED
    BY <1>8, <1>9, <1>10 DEF MappingInv

LEMMA DeleteKeeps ==
    ASSUME MappingInv, NEW s \in Services, DeleteServicePorts(s)
    PROVE  MappingInv'
  <1>1. PICK t : /\ t = [x \in DOMAIN services[Writer] \ {s} |-> services[Writer][x]]
                 /\ services' = [services EXCEPT ![Writer] = t]
    BY DEF DeleteServicePorts
  <1>2. Writer \in Instances /\ services[Writer] \in Table /\ services \in [Instances -> Table]
    BY DEF Instances, MappingInv, TypeOK
  <1>3. t \in Table
    <2>1. DOMAIN services[Writer] \subseteq Services
          /\ \A x \in DOMAIN services[Writer] : services[Writer][x] \in Ports
      BY <1>2, TableType
    <2>2. t \in [DOMAIN services[Writer] \ {s} -> Ports]
      BY <1>1, <2>1
    <2> QED
      BY <2>1, <2>2, TableMade
  <1>4. /\ services' \in [Instances -> Table] /\ file' \in Table
        /\ event' \in [Instances -> BOOLEAN]
    BY <1>1, <1>2, <1>3, EmptyTable, NotifiedType DEF DeleteServicePorts, SaveBegins, MappingInv, TypeOK
  <1>5. error' \in [Instances -> BOOLEAN] /\ ended' \in [Instances -> BOOLEAN] /\ saved' \in {"no", "yes", "failed"}
    BY DEF DeleteServicePorts, SaveBegins, MappingInv, TypeOK
  <1>6. TypeOK'
    <2>1. pc' \in [Instances -> {"idle", "truncated"}]
      BY DEF DeleteServicePorts, SaveBegins, MappingInv, TypeOK
    <2>2. writes' \in 0 .. MaxWrites
      BY MappingAssumption DEF DeleteServicePorts, SaveBegins, MappingInv, TypeOK
    <2> QED
      BY <1>4, <1>5, <2>1, <2>2 DEF DeleteServicePorts, MappingInv, TypeOK
  <1>7. RoundInv'
    <2> SUFFICES ASSUME NEW n \in Instances, NEW x \in DOMAIN services'[n]
                 PROVE  Round(Len(services'[n][x]), offset'[n][x], used'[n][x])
      BY DEF RoundInv
    <2>1. x \in DOMAIN services[n] /\ services'[n][x] = services[n][x]
      BY <1>1, <1>2
    <2> QED
      BY <2>1 DEF DeleteServicePorts, MappingInv, RoundInv
  <1>8. SavedInv'
    BY <1>2 DEF DeleteServicePorts, SaveBegins, SavedInv, MappingInv, TypeOK
  <1> QED
    BY <1>6, <1>7, <1>8 DEF MappingInv

LEMMA SaveWritesKeeps ==
    ASSUME MappingInv, SaveWrites
    PROVE  MappingInv'
  <1>1. file' \in Table /\ event' \in [Instances -> BOOLEAN]
    BY NotifiedType DEF SaveWrites, MappingInv, TypeOK, Instances
  <1>2. error' \in [Instances -> BOOLEAN] /\ ended' \in [Instances -> BOOLEAN] /\ saved' \in {"no", "yes", "failed"}
    BY DEF SaveWrites, MappingInv, TypeOK
  <1>3. TypeOK'
    BY <1>1, <1>2 DEF SaveWrites, MappingInv, TypeOK
  <1>4. RoundInv' /\ SavedInv'
    BY DEF SaveWrites, RoundInv, SavedInv, MappingInv
  <1> QED
    BY <1>3, <1>4 DEF MappingInv

\* A cut file is a table as well.
LEMMA SaveFailsKeeps ==
    ASSUME MappingInv, SaveFails
    PROVE  MappingInv'
  <1>1. file' \in Table /\ event' \in [Instances -> BOOLEAN]
    BY NotifiedType DEF SaveFails, Cut, MappingInv
  <1>2. error' \in [Instances -> BOOLEAN] /\ ended' \in [Instances -> BOOLEAN] /\ saved' = "failed"
    BY DEF SaveFails, MappingInv, TypeOK
  <1>3. TypeOK'
    BY <1>1, <1>2 DEF SaveFails, MappingInv, TypeOK
  <1>4. RoundInv' /\ SavedInv'
    BY DEF SaveFails, RoundInv, SavedInv, MappingInv
  <1> QED
    BY <1>3, <1>4 DEF MappingInv

LEMMA RestartKeeps ==
    ASSUME MappingInv, Restart
    PROVE  MappingInv'
  <1>1. Writer \in Instances
    BY DEF Instances
  <1>2. services' \in [Instances -> Table]
    BY EmptyTable DEF Restart, MappingInv, TypeOK
  <1>3. /\ error' \in [Instances -> BOOLEAN] /\ ended' \in [Instances -> BOOLEAN]
        /\ event' \in [Instances -> BOOLEAN] /\ saved' \in {"no", "yes", "failed"}
    BY DEF Restart, MappingInv, TypeOK
  <1>4. used' \in [Instances -> [Services -> [Places -> 0 .. MaxGets]]]
    BY UnusedType DEF Restart, MappingInv, TypeOK
  <1>5. TypeOK'
    BY <1>2, <1>3, <1>4 DEF Restart, MappingInv, TypeOK
  <1>6. RoundInv'
    <2> SUFFICES ASSUME NEW n \in Instances, NEW x \in DOMAIN services'[n]
                 PROVE  Round(Len(services'[n][x]), offset'[n][x], used'[n][x])
      BY DEF RoundInv
    <2>1. n # Writer
      BY <1>1, EmptyTable DEF Restart, MappingInv, TypeOK
    <2>2. services'[n] = services[n] /\ offset'[n] = offset[n] /\ used'[n] = used[n]
      BY <2>1 DEF Restart, MappingInv, TypeOK
    <2> QED
      BY <2>2 DEF MappingInv, RoundInv
  <1>7. SavedInv'
    BY DEF Restart, SavedInv
  <1> QED
    BY <1>5, <1>6, <1>7 DEF MappingInv

\* The steps in which an instance reads the file.
LEMMA ReadKeeps ==
    ASSUME MappingInv, NEW m \in Instances, WatchLoad(m) \/ HandleEvent(m)
    PROVE  MappingInv'
  <1>1. Load(m) /\ UNCHANGED <<file, error, pc, ended, saved, writes>>
    BY DEF WatchLoad, HandleEvent
  <1>2. /\ services' \in [Instances -> Table]
        /\ offset' \in [Instances -> [Services -> Nat]]
        /\ used' \in [Instances -> [Services -> [Places -> 0 .. MaxGets]]]
        /\ RoundInv' /\ SavedInv'
    BY <1>1, LoadKeeps
  <1>3. watch' \in [Instances -> {"off", "read", "added", "on"}]
    BY DEF WatchLoad, HandleEvent, MappingInv, TypeOK
  <1>4. event' \in [Instances -> BOOLEAN]
    BY DEF WatchLoad, HandleEvent, MappingInv, TypeOK
  <1>5. TypeOK'
    BY <1>1, <1>2, <1>3, <1>4 DEF MappingInv, TypeOK
  <1> QED
    BY <1>2, <1>5 DEF MappingInv

\* The other steps of watching: they touch neither the tables nor the file.
LEMMA WatchKeeps ==
    ASSUME MappingInv, NEW m \in Instances,
           WatchAdd(m) \/ HandleEventFails(m) \/ WatcherFails(m) \/ Close(m)
    PROVE  MappingInv'
  <1>1. UNCHANGED <<file, services, offset, pc, saved, writes, used>>
    BY DEF WatchAdd, HandleEventFails, WatcherFails, Close
  <1>2. watch' \in [Instances -> {"off", "read", "added", "on"}]
    BY DEF WatchAdd, HandleEventFails, WatcherFails, Close, MappingInv, TypeOK
  <1>3. error' \in [Instances -> BOOLEAN]
    BY DEF WatchAdd, HandleEventFails, WatcherFails, Close, MappingInv, TypeOK
  <1>4. ended' \in [Instances -> BOOLEAN]
    BY DEF WatchAdd, HandleEventFails, WatcherFails, Close, MappingInv, TypeOK
  <1>5. event' \in [Instances -> BOOLEAN]
    BY DEF WatchAdd, HandleEventFails, WatcherFails, Close, MappingInv, TypeOK
  <1>6. TypeOK'
    BY <1>1, <1>2, <1>3, <1>4, <1>5 DEF MappingInv, TypeOK
  <1>7. RoundInv' /\ SavedInv'
    BY <1>1 DEF MappingInv, RoundInv, SavedInv
  <1> QED
    BY <1>6, <1>7 DEF MappingInv

\* A port is handed out: the round goes on, and begins again after the last place.
LEMMA GetKeeps ==
    ASSUME MappingInv, NEW m \in Instances, NEW s \in Services, GetServiceNextPort(m, s)
    PROVE  MappingInv'
  <1>1. PICK n, o : /\ n = Len(services[m][s]) /\ o = offset[m][s]
                    /\ n > 0 /\ used[m][s][o + 1] < MaxGets
                    /\ offset' = [offset EXCEPT ![m][s] = NextOffset(o, n)]
                    /\ used' = [used EXCEPT ![m][s][o + 1] = @ + 1]
                    /\ s \in DOMAIN services[m]
    BY DEF GetServiceNextPort
  <1>2. UNCHANGED <<file, services, error, pc, watch, ended, event, saved, writes>>
    BY DEF GetServiceNextPort
  <1>3. n \in Nat \ {0} /\ 1 .. n \subseteq Places
    <2>1. services[m] \in Table
      BY DEF MappingInv, TypeOK
    <2>2. services[m][s] \in Ports
      BY <1>1, <2>1, TableType
    <2> QED
      BY <1>1, <2>2, PlacesOf
  <1>4. o \in Nat /\ used[m][s] \in [Places -> 0 .. MaxGets]
    BY <1>1 DEF MappingInv, TypeOK
  <1>5. Round(n, o, used[m][s])
    BY <1>1 DEF MappingInv, RoundInv
  <1>6. o + 1 \in 1 .. n
    BY <1>3, <1>4, <1>5 DEF Round
  <1>7. used'[m][s] = [used[m][s] EXCEPT ![o + 1] = @ + 1]
    BY <1>1 DEF MappingInv, TypeOK
  <1>8. NextOffset(o, n) \in Nat /\ Round(n, NextOffset(o, n), used'[m][s])
    <2>1. \A i \in 1 .. n : used[m][s][i] \in Nat
      BY <1>3, <1>4, MappingAssumption
    <2>2. \A i \in 1 .. n : used'[m][s][i] =
                IF i = o + 1 THEN used[m][s][i] + 1 ELSE used[m][s][i]
      BY <1>3, <1>4, <1>7
    <2> QED
      BY <1>3, <1>4, <1>5, <2>1, <2>2, NextRound
  <1>9. used' \in [Instances -> [Services -> [Places -> 0 .. MaxGets]]]
    <2>1. o + 1 \in Places
      BY <1>3, <1>6
    <2>2. used[m][s][o + 1] \in 0 .. MaxGets
      BY <1>4, <2>1
    <2>3. used[m][s][o + 1] + 1 \in 0 .. MaxGets
      BY <1>1, <2>2, MappingAssumption
    <2> QED
      BY <1>1, <1>4, <2>3 DEF MappingInv, TypeOK
  <1>10. TypeOK'
    <2>1. offset' \in [Instances -> [Services -> Nat]]
      BY <1>1, <1>8 DEF MappingInv, TypeOK
    <2> QED
      BY <1>2, <1>9, <2>1 DEF MappingInv, TypeOK
  <1>11. RoundInv'
    <2> SUFFICES ASSUME NEW k \in Instances, NEW x \in DOMAIN services'[k]
                 PROVE  Round(Len(services'[k][x]), offset'[k][x], used'[k][x])
      BY DEF RoundInv
    <2>1. services'[k][x] = services[k][x] /\ x \in DOMAIN services[k]
      BY <1>2
    <2>2. CASE k = m /\ x = s
      <3>1. offset'[k][x] = NextOffset(o, n)
        BY <1>1, <2>2 DEF MappingInv, TypeOK
      <3> QED
        BY <1>1, <1>8, <2>1, <2>2, <3>1
    <2>3. CASE ~(k = m /\ x = s)
      <3>1. offset'[k][x] = offset[k][x] /\ used'[k][x] = used[k][x]
        BY <1>1, <2>3 DEF MappingInv, TypeOK
      <3> QED
        BY <2>1, <3>1 DEF MappingInv, RoundInv
    <2> QED
      BY <2>2, <2>3
  <1>12. SavedInv'
    BY <1>2 DEF MappingInv, SavedInv
  <1> QED
    BY <1>10, <1>11, <1>12 DEF MappingInv

-----------------------------------------------------------------------------
LEMMA NextMapping == MappingInv /\ [Next]_vars => MappingInv'
  <1> SUFFICES ASSUME MappingInv, [Next]_vars PROVE MappingInv'
    OBVIOUS
  <1>1. Readers \subseteq Instances /\ Users \subseteq Readers
    BY MappingAssumption DEF Instances
  <1>2. CASE UNCHANGED vars
    BY <1>2 DEF vars, MappingInv, TypeOK, RoundInv, SavedInv
  <1>3. ASSUME NEW s \in Services, DeleteServicePorts(s) PROVE MappingInv'
    BY <1>3, DeleteKeeps
  <1>4. ASSUME NEW s \in Services, NEW p \in Ports, SetServicePorts(s, p) PROVE MappingInv'
    BY <1>4, SetKeeps
  <1>5. CASE SaveWrites \/ SaveFails
    BY <1>5, SaveWritesKeeps, SaveFailsKeeps
  <1>6. CASE Restart
    BY <1>6, RestartKeeps
  <1>7. ASSUME NEW m \in Readers, WatchLoad(m) \/ HandleEvent(m) PROVE MappingInv'
    BY <1>1, <1>7, ReadKeeps
  <1>8. ASSUME NEW m \in Readers,
               WatchAdd(m) \/ HandleEventFails(m) \/ WatcherFails(m) \/ Close(m)
        PROVE  MappingInv'
    BY <1>1, <1>8, WatchKeeps
  <1>9. ASSUME NEW m \in Users, NEW s \in Services, GetServiceNextPort(m, s) PROVE MappingInv'
    BY <1>1, <1>9, GetKeeps
  <1> QED
    BY <1>2, <1>3, <1>4, <1>5, <1>6, <1>7, <1>8, <1>9 DEF Next

LEMMA MappingSound == MappingInv => TablesSound
  <1> SUFFICES ASSUME MappingInv PROVE TablesSound
    OBVIOUS
  <1>1. ASSUME NEW m \in Instances, NEW s \in DOMAIN services[m]
        PROVE  /\ services[m][s] \in Seq(Nat) /\ Len(services[m][s]) \in Nat
               /\ 1 .. Len(services[m][s]) \subseteq Places
               /\ s \in Services
               /\ Round(Len(services[m][s]), offset[m][s], used[m][s])
    <2>1. services[m] \in Table
      BY DEF MappingInv, TypeOK
    <2>2. services[m][s] \in Ports /\ s \in Services
      BY <2>1, TableType
    <2> QED
      BY <2>2, PlacesOf, MappingAssumption DEF MappingInv, RoundInv
  <1>2. UsedEvenly
    <2> SUFFICES ASSUME NEW m \in Readers, NEW s \in DOMAIN services[m],
                        NEW i \in 1 .. Len(services[m][s]), NEW j \in 1 .. Len(services[m][s])
                 PROVE  used[m][s][i] <= used[m][s][j] + 1
      BY DEF UsedEvenly
    <2>1. m \in Instances
      BY DEF Instances
    <2>2. /\ i \in Places /\ j \in Places /\ i \in Nat /\ j \in Nat
          /\ s \in Services /\ Len(services[m][s]) > 0
      BY <1>1, <2>1
    <2>3. used[m][s][i] \in Nat /\ used[m][s][j] \in Nat /\ offset[m][s] \in Nat
      BY <2>1, <2>2, MappingAssumption DEF MappingInv, TypeOK
    <2>4. Round(Len(services[m][s]), offset[m][s], used[m][s])
      BY <1>1, <2>1
    <2>5. /\ (i <= offset[m][s] <=> j <= offset[m][s]) => used[m][s][i] = used[m][s][j]
          /\ i <= offset[m][s] /\ j > offset[m][s] => used[m][s][i] = used[m][s][j] + 1
          /\ j <= offset[m][s] /\ i > offset[m][s] => used[m][s][j] = used[m][s][i] + 1
      BY <2>2, <2>4 DEF Round
    <2> QED
      BY <2>2, <2>3, <2>5
  <1>3. ASSUME NEW m \in Instances, NEW s \in DOMAIN services[m], services[m][s] # <<>>
        PROVE  offset[m][s] < Len(services[m][s])
    <2>1. Len(services[m][s]) > 0
      BY <1>1, <1>3, EmptySeq
    <2> QED
      BY <1>1, <2>1 DEF Round
  <1> QED
    BY <1>2, <1>3 DEF TablesSound, MappingInv, SavedInv

\* No list of ports is read beyond its end, ports are used in turn, and the file is
\* the table of the instance that saved it, for every set of instances and services
\* and all lists of ports, whatever restarts, half-written files and lost events
\* come in between.
THEOREM MappingTablesSound == Spec => []TablesSound
  <1>1. Init => MappingInv
    BY InitMapping
  <1>2. MappingInv /\ [Next]_vars => MappingInv'
    BY NextMapping
  <1>3. MappingInv => TablesSound
    BY MappingSound
  <1> QED
    BY <1>1, <1>2, <1>3, PTL DEF Spec

\* An instance that only reads never loses a service.
THEOREM MappingReadersKeep == Spec => ReadersKeepServices
  <1> DEFINE Unmoved == \A m \in Readers \ {Writer} : DOMAIN services[m] \subseteq DOMAIN services'[m]
  <1>1. Init => MappingInv
    BY InitMapping
  <1>2. MappingInv /\ [Next]_vars => MappingInv'
    BY NextMapping
  <1>3. MappingInv /\ [Next]_vars => [Unmoved]_vars
    <2> SUFFICES ASSUME MappingInv, Next, NEW m \in Readers \ {Writer}
                 PROVE  DOMAIN services[m] \subseteq DOMAIN services'[m]
      OBVIOUS
    <2>1. m \in Instances /\ Readers \subseteq Instances
      BY DEF Instances
    <2>2. CASE \E s \in Services : DeleteServicePorts(s) \/ \E p \in Ports : SetServicePorts(s, p)
      BY <2>1, <2>2 DEF DeleteServicePorts, SetServicePorts, MappingInv, TypeOK
    <2>3. CASE SaveWrites \/ SaveFails \/ Restart
      BY <2>1, <2>3 DEF SaveWrites, SaveFails, Restart, MappingInv, TypeOK
    <2>4. ASSUME NEW n \in Readers, WatchLoad(n) \/ HandleEvent(n)
          PROVE  DOMAIN services[m] \subseteq DOMAIN services'[m]
      <3>1. Load(n) /\ UNCHANGED <<file, saved, pc>>
        BY <2>4 DEF WatchLoad, HandleEvent
      <3> QED
        BY <2>1, <3>1, LoadKeeps
    <2>5. ASSUME NEW n \in Readers,
                 \/ WatchAdd(n) \/ HandleEventFails(n) \/ WatcherFails(n) \/ Close(n)
                 \/ n \in Users /\ \E s \in Services : GetServiceNextPort(n, s)
          PROVE  DOMAIN services[m] \subseteq DOMAIN services'[m]
      BY <2>5 DEF WatchAdd, HandleEventFails, WatcherFails, Close, GetServiceNextPort
    <2> QED
      BY <2>2, <2>3, <2>4, <2>5, MappingAssumption DEF Next
  <1> QED
    BY <1>1, <1>2, <1>3, PTL DEF Spec, ReadersKeepServices

-----------------------------------------------------------------------------
(* Paths                                                                   *)

Paths == Seq(JsonKeys) \ {<<>>}

\* A set of naturals that is not empty has a least member.
LEMMA LeastOf ==
    ASSUME NEW S \in SUBSET Nat, S # {}
    PROVE  \E n \in S : \A m \in S : n <= m
<1>1. \E x \in S : \A y \in S : ~(<<y, x>> \in OpToRel(<, Nat))
    BY NatLessThanWellFounded, WFMin, Zenon
<1>2. \A x, y \in Nat : x < y => <<x, y>> \in OpToRel(<, Nat)
    BY DEF OpToRel
<1> DEFINE R == OpToRel(<, Nat)
<1> HIDE DEF R
<1>3. PICK x \in S : \A y \in S : ~(<<y, x>> \in R)
    BY <1>1 DEF R
<1>4. ASSUME NEW y \in S PROVE x <= y
  <2>1. ~(y < x)
    BY <1>2, <1>3 DEF R
  <2> QED BY <2>1
<1> QED BY <1>4

\* The path with those above it, by their lengths.
LEMMA UptoIs ==
    ASSUME NEW p \in Paths
    PROVE  /\ Upto(p) = {SubSeq(p, 1, n) : n \in 1 .. Len(p)}
           /\ \A n \in 1 .. Len(p) : SubSeq(p, 1, n) \in Paths /\ Len(SubSeq(p, 1, n)) = n
<1>1. p \in Seq(JsonKeys) /\ Len(p) \in Nat
    BY DEF Paths
<1>2. \A n \in 0 .. Len(p) : SubSeq(p, 1, n) \in Seq(JsonKeys) /\ Len(SubSeq(p, 1, n)) = n
    BY <1>1, SubSeqProperties
<1>3. \A n \in 1 .. Len(p) : SubSeq(p, 1, n) \in Paths
    BY <1>1, <1>2, EmptySeq DEF Paths
<1>4. SubSeq(p, 1, 0) = <<>>
    BY <1>1, <1>2, EmptySeq
<1> QED BY <1>1, <1>2, <1>3, <1>4 DEF Upto, Prefixes, Paths

\* A part of a part.
LEMMA SubSub ==
    ASSUME NEW p \in Paths, NEW n \in 1 .. Len(p), NEW m \in 1 .. n
    PROVE  SubSeq(SubSeq(p, 1, n), 1, m) = SubSeq(p, 1, m)
<1>1. p \in Seq(JsonKeys) /\ Len(p) \in Nat
    BY DEF Paths
<1> DEFINE q == SubSeq(p, 1, n)
<1>2. q \in Seq(JsonKeys) /\ Len(q) = n /\ \A i \in 1 .. n : q[i] = p[i]
    BY <1>1, SubSeqProperties
<1> HIDE DEF q
<1>3. /\ SubSeq(q, 1, m) \in Seq(JsonKeys) /\ Len(SubSeq(q, 1, m)) = m
      /\ \A i \in 1 .. m : SubSeq(q, 1, m)[i] = q[i]
    BY <1>2, SubSeqProperties
<1>4. /\ SubSeq(p, 1, m) \in Seq(JsonKeys) /\ Len(SubSeq(p, 1, m)) = m
      /\ \A i \in 1 .. m : SubSeq(p, 1, m)[i] = p[i]
    BY <1>1, SubSeqProperties
<1>5. SubSeq(q, 1, m) = SubSeq(p, 1, m)
    BY <1>2, <1>3, <1>4, SeqEqual
<1> QED BY <1>5 DEF q

\* A path has a length.
LEMMA PathLen ==
    ASSUME NEW p \in Paths
    PROVE  p \in Seq(JsonKeys) /\ Len(p) \in Nat /\ Len(p) >= 1
BY EmptySeq DEF Paths

\* A part of a path from the top is above it.
LEMMA UptoAt ==
    ASSUME NEW p \in Paths, NEW n \in 1 .. Len(p)
    PROVE  SubSeq(p, 1, n) \in Upto(p) /\ SubSeq(p, 1, n) \in Paths /\ Len(SubSeq(p, 1, n)) = n
BY UptoIs

\* What is above a path are paths, and the path is the longest of them.
LEMMA UptoSelf ==
    ASSUME NEW p \in Paths
    PROVE  p \in Upto(p) /\ Upto(p) \subseteq Paths /\ SubSeq(p, 1, Len(p)) = p
<1>1. p \in Seq(JsonKeys) /\ Len(p) \in 1 .. Len(p)
    BY PathLen
<1>2. SubSeq(p, 1, Len(p)) = p
    BY <1>1, PathLen, SubSeqProperties, SeqEqual
<1>3. p \in Upto(p)
    BY <1>1, <1>2, UptoAt
<1>4. ASSUME NEW q \in Upto(p) PROVE q \in Paths
  <2>1. PICK n \in 1 .. Len(p) : q = SubSeq(p, 1, n)
    BY UptoIs
  <2> QED BY <2>1, UptoAt
<1> QED BY <1>2, <1>3, <1>4

\* What is above something above a path is above that path.
LEMMA UptoDown ==
    ASSUME NEW p \in Paths, NEW q \in Upto(p)
    PROVE  Upto(q) \subseteq Upto(p)
<1>1. PICK n \in 1 .. Len(p) : q = SubSeq(p, 1, n)
    BY UptoIs
<1>2. q \in Paths /\ Len(q) = n /\ Len(p) \in Nat
    BY <1>1, UptoAt, PathLen
<1>3. ASSUME NEW r \in Upto(q) PROVE r \in Upto(p)
  <2>1. PICK m \in 1 .. n : r = SubSeq(q, 1, m)
    BY <1>2, UptoIs
  <2>2. r = SubSeq(p, 1, m)
    BY <1>1, <2>1, SubSub
  <2> QED BY <1>2, <2>2, UptoAt
<1> QED BY <1>3

\* Of two paths above a path one is above the other.
LEMMA UptoLinear ==
    ASSUME NEW p \in Paths, NEW q \in Upto(p), NEW r \in Upto(p)
    PROVE  q \in Upto(r) \/ r \in Upto(q)
<1>1. PICK n \in 1 .. Len(p) : q = SubSeq(p, 1, n)
    BY UptoIs
<1>2. PICK m \in 1 .. Len(p) : r = SubSeq(p, 1, m)
    BY UptoIs
<1>3. q \in Paths /\ Len(q) = n
    BY <1>1, UptoAt
<1>4. r \in Paths /\ Len(r) = m
    BY <1>2, UptoAt
<1>5. CASE n <= m
  <2>1. n \in 1 .. m /\ q = SubSeq(r, 1, n)
    BY <1>1, <1>2, <1>5, SubSub
  <2> QED BY <1>4, <2>1, UptoAt
<1>6. CASE m <= n
  <2>1. m \in 1 .. n /\ r = SubSeq(q, 1, m)
    BY <1>1, <1>2, <1>6, SubSub
  <2> QED BY <1>3, <2>1, UptoAt
<1> QED BY <1>5, <1>6

\* Two paths that are above each other are the same.
LEMMA UptoSame ==
    ASSUME NEW p \in Paths, NEW q \in Upto(p), p \in Upto(q)
    PROVE  p = q
<1>1. PICK n \in 1 .. Len(p) : q = SubSeq(p, 1, n)
    BY UptoIs
<1>2. q \in Paths /\ Len(q) = n /\ Len(p) \in Nat
    BY <1>1, UptoAt, PathLen
<1>3. PICK m \in 1 .. Len(q) : p = SubSeq(q, 1, m)
    BY <1>2, UptoIs
<1>4. Len(p) = m
    BY <1>2, <1>3, UptoAt
<1> QED BY <1>2, <1>3, <1>4, UptoSelf

\* The first path on the way down to p that is not in S.
LEMMA FirstOut ==
    ASSUME NEW p \in Paths, NEW S, p \notin S
    PROVE  \E q \in Upto(p) : q \notin S /\ Above(q) \subseteq S
<1> DEFINE out == {n \in 1 .. Len(p) : SubSeq(p, 1, n) \notin S}
<1>1. Len(p) \in out /\ out \subseteq Nat
  <2>1. Len(p) \in 1 .. Len(p) /\ 1 .. Len(p) \subseteq Nat
    BY PathLen
  <2>2. SubSeq(p, 1, Len(p)) \notin S
    BY UptoSelf
  <2> QED BY <2>1, <2>2
<1>2. PICK n \in out : \A m \in out : n <= m
  <2> HIDE DEF out
  <2> QED BY <1>1, LeastOf
<1> DEFINE q == SubSeq(p, 1, n)
<1>3. q \in Upto(p) /\ q \in Paths /\ Len(q) = n /\ q \notin S
    BY UptoAt
<1> HIDE DEF q
<1>4. ASSUME NEW r \in Above(q) PROVE r \in S
  <2>1. PICK m \in 1 .. n : r = SubSeq(q, 1, m)
    BY <1>3, <1>4, UptoIs DEF Above
  <2>2. r = SubSeq(p, 1, m)
    BY <2>1, SubSub DEF q
  <2>3. m # n
    BY <1>4, <2>2 DEF Above, q
  <2>4. m \in 1 .. Len(p) /\ ~(n <= m)
    BY <2>3, PathLen
  <2> QED BY <1>2, <2>2, <2>4
<1> QED BY <1>3, <1>4

-----------------------------------------------------------------------------
(* Merging                                                                 *)

\* A document of the paths of another with what is above them is a document.
LEMMA DocPaths ==
    ASSUME NEW doc, IsDoc(doc), NEW p \in DOMAIN doc
    PROVE  /\ p \in Paths /\ p \in Upto(p)
           /\ \A q \in Upto(p) : q \in DOMAIN doc /\ (q # p => doc[q] = Object)
<1>1. p \in Paths
    BY DEF IsDoc, Paths
<1> QED BY <1>1, UptoSelf DEF IsDoc, Above

\* What is above a value that is kept is kept.
LEMMA KeptUpto ==
    ASSUME NEW left, IsDoc(left), NEW right, NEW p \in Kept(left, right), NEW q \in Upto(p)
    PROVE  q \in Kept(left, right)
<1>1. p \in DOMAIN left /\ p \in Paths
    BY DocPaths DEF Kept
<1>2. q \in DOMAIN left
    BY <1>1, DocPaths
<1>3. Upto(q) \subseteq Upto(p)
    BY <1>1, UptoDown
<1> QED BY <1>2, <1>3 DEF Kept

\* Documents are merged into a document.
LEMMA MergeDoc ==
    ASSUME NEW left, NEW right, IsDoc(left), IsDoc(right)
    PROVE  IsDoc(Merge(left, right))
<1> DEFINE doc == Merge(left, right)
<1>1. /\ DOMAIN doc = DOMAIN right \cup Kept(left, right)
      /\ doc = [p \in DOMAIN doc |-> doc[p]]
      /\ \A p \in DOMAIN doc : doc[p] = IF p \in DOMAIN right THEN right[p] ELSE left[p]
    BY DEF Merge
<1> HIDE DEF doc
<1>2. DOMAIN doc \subseteq Paths
    BY <1>1, DocPaths DEF Kept
<1>3. ASSUME NEW p \in DOMAIN doc, NEW q \in Above(p)
      PROVE  q \in DOMAIN doc /\ doc[q] = Object
  <2>1. CASE p \in DOMAIN right
    BY <1>1, <1>3, <2>1, DocPaths DEF Above
  <2>2. CASE p \notin DOMAIN right
    <3>1. p \in Kept(left, right) /\ p \in DOMAIN left /\ q \in Upto(p) /\ q # p
        BY <1>1, <1>3, <2>2 DEF Kept, Above
    <3>2. q \in Kept(left, right) /\ left[q] = Object
        BY <3>1, KeptUpto, DocPaths
    <3>3. q \in DOMAIN right => right[q] = Object
        BY <3>1 DEF Kept, Meet
    <3> QED BY <1>1, <3>2, <3>3
  <2> QED BY <2>1, <2>2
<1>4. IsDoc(doc)
    BY <1>1, <1>2, <1>3 DEF IsDoc, Paths
<1> QED BY <1>4 DEF doc

\* What was merged when a merge failed is a document, of values of right.
LEMMA PartsDoc ==
    ASSUME NEW left, NEW right, IsDoc(left), IsDoc(right), NEW part \in Parts(left, right)
    PROVE  /\ IsDoc(part) /\ DOMAIN part \subseteq DOMAIN right
           /\ \A p \in DOMAIN part : part[p] = right[p]
<1>1. PICK q \in AtLimit(left, right) : \E S \in SUBSET Beside(left, right, q) :
        part = Restrict(right, {p \in DOMAIN right : p \in Upto(q) \/ Upto(p) \cap S # {}})
    BY DEF Parts
<1>2. PICK S \in SUBSET Beside(left, right, q) :
        part = Restrict(right, {p \in DOMAIN right : p \in Upto(q) \/ Upto(p) \cap S # {}})
    BY <1>1
<1>3. /\ DOMAIN part = {p \in DOMAIN right : p \in Upto(q) \/ Upto(p) \cap S # {}}
      /\ part = [p \in DOMAIN part |-> part[p]]
      /\ \A p \in DOMAIN part : part[p] = right[p]
    BY <1>2 DEF Restrict
<1>4. q \in Paths
    BY DocPaths DEF AtLimit
<1>5. ASSUME NEW p \in DOMAIN part, NEW r \in Above(p)
      PROVE  r \in DOMAIN part /\ part[r] = Object
  <2>1. p \in DOMAIN right /\ p \in Paths /\ r \in DOMAIN right /\ right[r] = Object /\ r \in Upto(p)
    BY <1>3, <1>5, DocPaths DEF Above
  <2>2. CASE p \in Upto(q)
    BY <1>3, <1>4, <2>1, <2>2, UptoDown
  <2>3. CASE p \notin Upto(q)
    <3>1. PICK s \in S : s \in Upto(p)
        BY <1>3, <2>3
    <3>2. Above(s) \subseteq Upto(q)
        BY DEF Beside
    <3>3. CASE s \in Upto(r)
        BY <1>3, <2>1, <3>3
    <3>4. CASE r \in Upto(s) /\ r # s
        BY <1>3, <2>1, <3>2, <3>4 DEF Above
    <3>5. r = s => s \in Upto(r)
        BY <2>1, DocPaths
    <3> QED BY <2>1, <3>1, <3>3, <3>4, <3>5, UptoLinear
  <2> QED BY <2>2, <2>3
<1>6. DOMAIN part \subseteq Seq(JsonKeys) \ {<<>>}
    BY <1>3 DEF IsDoc
<1> QED BY <1>3, <1>5, <1>6 DEF IsDoc

\* A document that was merged says what it did, and merging it again changes nothing.
LEMMA MergeHolds ==
    ASSUME NEW left, NEW right, IsDoc(left), IsDoc(right)
    PROVE  /\ Says(Merge(left, right), right)
           /\ Merge(Merge(left, right), right) = Merge(left, right)
<1> DEFINE doc == Merge(left, right)
<1>1. /\ DOMAIN doc = DOMAIN right \cup Kept(left, right)
      /\ doc = [p \in DOMAIN doc |-> doc[p]]
      /\ \A p \in DOMAIN doc : doc[p] = IF p \in DOMAIN right THEN right[p] ELSE left[p]
    BY DEF Merge
<1> HIDE DEF doc
<1>2. Says(doc, right)
    BY <1>1 DEF Says
<1>3. ASSUME NEW p \in DOMAIN doc, p \notin DOMAIN right PROVE p \in Kept(doc, right)
  <2>1. p \in Kept(left, right)
    BY <1>1, <1>3
  <2>2. ASSUME NEW q \in Upto(p) \cap DOMAIN right PROVE Meet(doc, right, q)
    BY <1>1, <2>1 DEF Kept, Meet
  <2> QED BY <2>2 DEF Kept
<1>4. DOMAIN right \cup Kept(doc, right) = DOMAIN doc
    BY <1>1, <1>3 DEF Kept
<1>5. Merge(doc, right) = [p \in DOMAIN doc |-> doc[p]]
    BY <1>1, <1>4 DEF Merge
<1> QED BY <1>1, <1>2, <1>5 DEF doc

-----------------------------------------------------------------------------
(* Deltas                                                                  *)

Changed(a, b) == {p \in DOMAIN b : p \notin DOMAIN a \/ a[p] # b[p]}
Gone(a, b) == {p \in DOMAIN a \ DOMAIN b : \A q \in Above(p) : q \in DOMAIN b /\ b[q] = Object}

\* What a delta says, and where.
LEMMA DeltaIs ==
    ASSUME NEW a, NEW b, IsDoc(a), IsDoc(b)
    PROVE  LET d == CreateMergePatch(a, b)
           IN  /\ Changed(a, b) \cup Gone(a, b) \subseteq DOMAIN d
               /\ \A q \in DOMAIN d : IF q \in Gone(a, b) THEN d[q] = Null
                                                          ELSE q \in DOMAIN b /\ d[q] = b[q]
<1> DEFINE d == CreateMergePatch(a, b)
<1>1. /\ DOMAIN d = UNION {Upto(p) : p \in Changed(a, b) \cup Gone(a, b)}
      /\ \A q \in DOMAIN d : d[q] = IF q \in Gone(a, b) THEN Null ELSE b[q]
    BY DEF CreateMergePatch, Changed, Gone
<1> HIDE DEF d
<1>2. \A p \in Changed(a, b) \cup Gone(a, b) : p \in Upto(p)
    BY DocPaths DEF Changed, Gone
<1>3. ASSUME NEW q \in DOMAIN d, q \notin Gone(a, b) PROVE q \in DOMAIN b
  <2>1. PICK p \in Changed(a, b) \cup Gone(a, b) : q \in Upto(p)
    BY <1>1
  <2>2. CASE p \in Changed(a, b)
    BY <2>1, <2>2, DocPaths DEF Changed
  <2>3. CASE p \in Gone(a, b)
    BY <1>3, <2>1, <2>3 DEF Gone, Above
  <2> QED BY <2>2, <2>3
<1> QED BY <1>1, <1>2, <1>3 DEF d

\* What is above a change is an object, before and after it.
LEMMA DeltaAbove ==
    ASSUME NEW a, NEW b, IsDoc(a), IsDoc(b),
           NEW p \in Changed(a, b) \cup Gone(a, b), NEW q \in Above(p)
    PROVE  q \in DOMAIN b /\ b[q] = Object
<1>1. CASE p \in Changed(a, b)
    BY <1>1, DocPaths DEF Changed, Above
<1>2. CASE p \in Gone(a, b)
    BY <1>2 DEF Gone
<1> QED BY <1>1, <1>2

\* A delta without its nulls is a document.
LEMMA CleanDoc ==
    ASSUME NEW a, NEW b, IsDoc(a), IsDoc(b)
    PROVE  IsDoc(Clean(CreateMergePatch(a, b)))
<1> DEFINE d == CreateMergePatch(a, b)
           doc == Clean(d)
<1>1. DOMAIN d = UNION {Upto(p) : p \in Changed(a, b) \cup Gone(a, b)}
    BY DEF CreateMergePatch, Changed, Gone
<1>2. \A q \in DOMAIN d : IF q \in Gone(a, b) THEN d[q] = Null ELSE q \in DOMAIN b /\ d[q] = b[q]
    BY DeltaIs
<1> HIDE DEF d
<1>3. /\ DOMAIN doc = {p \in DOMAIN d : d[p] # Null}
      /\ doc = [p \in DOMAIN doc |-> doc[p]]
      /\ \A p \in DOMAIN doc : doc[p] = d[p]
    BY DEF Clean, Restrict
<1> HIDE DEF doc
<1>4. DOMAIN doc \subseteq Paths
    BY <1>2, <1>3, DocPaths
<1>5. ASSUME NEW q \in DOMAIN doc, NEW r \in Above(q)
      PROVE  r \in DOMAIN doc /\ doc[r] = Object
  <2>1. PICK p \in Changed(a, b) \cup Gone(a, b) : q \in Upto(p)
    BY <1>1, <1>3
  <2>2. p \in Paths
    BY DocPaths DEF Changed, Gone
  <2>3. r \in Upto(p) /\ r \in Upto(q) /\ r # q
    BY <1>5, <2>1, <2>2, UptoDown DEF Above
  <2>4. r # p
    BY <2>1, <2>2, <2>3, UptoSame
  <2>5. r \in DOMAIN b /\ b[r] = Object
    BY <2>3, <2>4, DeltaAbove DEF Above
  <2>6. r \in DOMAIN d /\ d[r] = Object
    BY <1>1, <1>2, <2>3, <2>5 DEF Gone
  <2> QED BY <1>3, <2>6 DEF Null, Object
<1>6. IsDoc(doc)
    BY <1>3, <1>4, <1>5 DEF IsDoc, Paths
<1> QED BY <1>6 DEF doc, d

\* A value that is as desired and not in the delta stays.
LEMMA UnchangedKept ==
    ASSUME NEW a, NEW b, IsDoc(a), IsDoc(b), NEW d,
           \A q \in DOMAIN d \cap DOMAIN b : d[q] = b[q],
           NEW p \in DOMAIN b, p \notin Changed(a, b), p \notin DOMAIN d
    PROVE  p \in Kept(a, d)
<1>1. p \in DOMAIN a
    BY DEF Changed
<1>2. ASSUME NEW q \in Upto(p) \cap DOMAIN d PROVE Meet(a, d, q)
    BY <1>1, <1>2, DocPaths DEF Meet
<1> QED BY <1>1, <1>2 DEF Kept

\* Patched with the delta a report becomes the desire, if nothing desired is null.
LEMMA PatchReaches ==
    ASSUME NEW a, NEW b, IsDoc(a), IsDoc(b), NullFree(b)
    PROVE  Patch(a, DiffWithNil(b, a)) = b
<1> DEFINE d == CreateMergePatch(a, b)
           doc == MergePatch(a, d)
<1>1. /\ Changed(a, b) \cup Gone(a, b) \subseteq DOMAIN d
      /\ \A q \in DOMAIN d : IF q \in Gone(a, b) THEN d[q] = Null ELSE q \in DOMAIN b /\ d[q] = b[q]
    BY DeltaIs
<1> HIDE DEF d
<1>2. /\ DOMAIN doc = {q \in DOMAIN d : d[q] # Null} \cup Kept(a, d)
      /\ doc = [p \in DOMAIN doc |-> doc[p]]
      /\ \A p \in DOMAIN doc : doc[p] = IF p \in DOMAIN d THEN d[p] ELSE a[p]
    BY DEF MergePatch
<1> HIDE DEF doc
<1>3. ASSUME NEW p \in DOMAIN b PROVE p \in DOMAIN doc /\ doc[p] = b[p]
  <2>1. p \notin Gone(a, b) /\ b[p] # Null
    BY DEF Gone, NullFree
  <2>2. CASE p \in DOMAIN d
    BY <1>1, <1>2, <2>1, <2>2
  <2>3. CASE p \notin DOMAIN d
    <3>1. p \notin Changed(a, b)
        BY <1>1, <2>3
    <3>2. \A q \in DOMAIN d \cap DOMAIN b : d[q] = b[q]
        BY <1>1 DEF Gone
    <3>3. p \in Kept(a, d)
        BY <2>3, <3>1, <3>2, UnchangedKept
    <3> QED BY <1>2, <2>3, <3>1, <3>3 DEF Changed
  <2> QED BY <2>2, <2>3
<1>4. ASSUME NEW p \in DOMAIN doc, p \notin DOMAIN b PROVE FALSE
  <2>1. p \in Kept(a, d) /\ p \in DOMAIN a /\ p \in Paths
    BY <1>1, <1>2, <1>4, DocPaths DEF Kept
  <2>2. PICK q \in Upto(p) : q \notin DOMAIN b /\ Above(q) \subseteq DOMAIN b
    BY <1>4, <2>1, FirstOut
  <2>3. q \in DOMAIN a
    BY <2>1, DocPaths
  <2>4. CASE \A r \in Above(q) : b[r] = Object
    <3>1. q \in Gone(a, b)
        BY <2>2, <2>3, <2>4 DEF Gone
    <3> QED BY <1>1, <2>1, <3>1 DEF Kept, Meet, Null, Object
  <2>5. ASSUME NEW r \in Above(q), b[r] # Object PROVE FALSE
    <3>1. r \in Upto(p) /\ r \in DOMAIN b
        BY <2>1, <2>2, <2>5, UptoDown DEF Above
    <3>2. r \in DOMAIN a /\ a[r] = Object
        BY <2>1, <3>1, <1>4, DocPaths
    <3>3. r \in Changed(a, b)
        BY <2>5, <3>1, <3>2 DEF Changed
    <3> QED BY <1>1, <2>1, <2>5, <3>1, <3>3 DEF Kept, Meet, Gone
  <2> QED BY <2>4, <2>5
<1>5. doc = b
    BY <1>2, <1>3, <1>4 DEF IsDoc
<1> QED BY <1>5 DEF doc, d, Patch, DiffWithNil

\* A report with the delta merged into it lacks no value that is desired.
LEMMA DeltaReaches ==
    ASSUME NEW a, NEW b, IsDoc(a), IsDoc(b), NEW p \in DOMAIN b, b[p] # Null
    PROVE  LET doc == Merge(a, Diff(b, a)) IN p \in DOMAIN doc /\ doc[p] = b[p]
<1> DEFINE d == CreateMergePatch(a, b)
           c == Clean(d)
           doc == Merge(a, c)
<1>1. /\ Changed(a, b) \cup Gone(a, b) \subseteq DOMAIN d
      /\ \A q \in DOMAIN d : IF q \in Gone(a, b) THEN d[q] = Null ELSE q \in DOMAIN b /\ d[q] = b[q]
    BY DeltaIs
<1> HIDE DEF d
<1>2. DOMAIN c = {q \in DOMAIN d : d[q] # Null} /\ \A q \in DOMAIN c : c[q] = d[q]
    BY DEF Clean, Restrict
<1> HIDE DEF c
<1>3. /\ DOMAIN doc = DOMAIN c \cup Kept(a, c)
      /\ \A q \in DOMAIN doc : doc[q] = IF q \in DOMAIN c THEN c[q] ELSE a[q]
    BY DEF Merge
<1> HIDE DEF doc
<1>4. \A q \in DOMAIN c : q \in DOMAIN b /\ c[q] = b[q]
    BY <1>1, <1>2
<1>5. p \in DOMAIN doc /\ doc[p] = b[p]
  <2>1. CASE p \in DOMAIN c
    BY <1>3, <1>4, <2>1
  <2>2. CASE p \notin DOMAIN c
    <3>1. p \notin Changed(a, b)
        BY <1>1, <1>2, <2>2 DEF Gone
    <3>2. p \in Kept(a, c)
        BY <1>4, <2>2, <3>1, UnchangedKept
    <3> QED BY <1>3, <2>2, <3>1, <3>2 DEF Changed
  <2> QED BY <2>1, <2>2
<1> QED BY <1>5 DEF doc, c, d, Diff, DiffWithNil

\* If no desired value is lacking, the delta asks for none.
LEMMA NothingAsked ==
    ASSUME NEW a, NEW b, IsDoc(a), IsDoc(b),
           \A p \in DOMAIN b : b[p] # Null => p \in DOMAIN a /\ a[p] = b[p]
    PROVE  Leafless(Diff(b, a))
<1> DEFINE d == CreateMergePatch(a, b)
           c == Clean(d)
<1>1. DOMAIN d = UNION {Upto(p) : p \in Changed(a, b) \cup Gone(a, b)}
    BY DEF CreateMergePatch, Changed, Gone
<1>2. \A q \in DOMAIN d : IF q \in Gone(a, b) THEN d[q] = Null ELSE q \in DOMAIN b /\ d[q] = b[q]
    BY DeltaIs
<1> HIDE DEF d
<1>3. DOMAIN c = {q \in DOMAIN d : d[q] # Null} /\ \A q \in DOMAIN c : c[q] = d[q]
    BY DEF Clean, Restrict
<1> HIDE DEF c
<1>4. ASSUME NEW q \in DOMAIN c PROVE c[q] = Object
  <2>1. q \notin Gone(a, b) /\ q \in DOMAIN b /\ c[q] = b[q] /\ b[q] # Null
    BY <1>2, <1>3
  <2>2. q \notin Changed(a, b)
    BY <2>1 DEF Changed
  <2>3. PICK p \in Changed(a, b) \cup Gone(a, b) : q \in Upto(p)
    BY <1>1, <1>3
  <2> QED BY <2>1, <2>2, <2>3, DeltaAbove DEF Above
<1> QED BY <1>4 DEF Leafless, c, d, Diff, DiffWithNil

-----------------------------------------------------------------------------
(* The shadow of a node                                                    *)

\* Both are documents, and the last call did what it promises.
ShadowInv == IsDoc(desire) /\ IsDoc(report) /\ LastReportHolds
             /\ (last.op = "delta" => Leafless(Diff(desire, report)))

LEMMA ShadowInvInit == ShadowInit => ShadowInv
<1> SUFFICES ASSUME ShadowInit PROVE ShadowInv
    OBVIOUS
<1>1. IsDoc(EmptyDoc)
    BY DEF IsDoc, EmptyDoc
<1> QED BY <1>1 DEF ShadowInit, ShadowInv, LastReportHolds

LEMMA ShadowInvNext == ShadowInv /\ [ShadowNext]_shadowVars => ShadowInv'
<1> SUFFICES ASSUME ShadowInv, [ShadowNext]_shadowVars PROVE ShadowInv'
    OBVIOUS
<1>1. CASE ReportDelta
  <2> DEFINE delta == Diff(desire, report)
  <2>1. IsDoc(delta)
    BY CleanDoc DEF Diff, DiffWithNil, ShadowInv
  <2>2. report' = Merge(report, delta) /\ desire' = desire /\ last'.op = "delta"
    BY <1>1 DEF ReportDelta
  <2> HIDE DEF delta
  <2>3. IsDoc(report')
    BY <2>1, <2>2, MergeDoc DEF ShadowInv
  <2>4. \A p \in DOMAIN desire : desire[p] # Null => p \in DOMAIN report' /\ report'[p] = desire[p]
    BY <2>2, DeltaReaches DEF ShadowInv, delta
  <2>5. Leafless(Diff(desire, report'))
    BY <2>3, <2>4, NothingAsked DEF ShadowInv
  <2> QED BY <2>2, <2>3, <2>5 DEF ShadowInv, LastReportHolds
<1>2. ASSUME NEW doc \in Docs, MergeDesire(doc) PROVE ShadowInv'
  <2>1. IsDoc(desire')
    BY <1>2, MergeDoc, DocsAssumption DEF MergeDesire, ShadowInv
  <2> QED BY <1>2, <2>1 DEF MergeDesire, ShadowInv, LastReportHolds
<1>3. ASSUME NEW doc \in Docs, MergeDesireFails(doc) PROVE ShadowInv'
  <2>1. PICK part \in Parts(desire, doc) : desire' = Merge(desire, part)
    BY <1>3 DEF MergeDesireFails
  <2>2. IsDoc(desire')
    BY <2>1, MergeDoc, PartsDoc, DocsAssumption DEF ShadowInv
  <2> QED BY <1>3, <2>2 DEF MergeDesireFails, ShadowInv, LastReportHolds
<1>4. ASSUME NEW doc \in Docs, MergeReport(doc) PROVE ShadowInv'
  <2>1. IsDoc(report') /\ Says(report', doc) /\ Merge(report', doc) = report'
    BY <1>4, MergeDoc, MergeHolds, DocsAssumption DEF MergeReport, ShadowInv
  <2> QED BY <1>4, <2>1 DEF MergeReport, ShadowInv, LastReportHolds
<1>5. ASSUME NEW doc \in Docs, NEW part \in Parts(report, doc), MergeReportFails(doc, part)
      PROVE  ShadowInv'
  <2>1. IsDoc(report')
    BY <1>5, MergeDoc, PartsDoc, DocsAssumption DEF MergeReportFails, ShadowInv
  <2> QED BY <1>5, <2>1 DEF MergeReportFails, ShadowInv, LastReportHolds
<1>6. CASE UNCHANGED shadowVars
    BY <1>6 DEF shadowVars, ShadowInv, LastReportHolds
<1> QED BY <1>1, <1>2, <1>3, <1>4, <1>5, <1>6 DEF ShadowNext

\* Deltas settle, whatever documents are merged and to whatever depth (Merge, Diff,
\* DiffWithNil and Patch of src/spec/v1/node.go).
THEOREM ShadowSettles == ShadowSpec => []DeltaSettles
<1>1. ShadowInv => DeltaSettles
    BY PatchReaches DEF ShadowInv, DeltaSettles
<1> QED BY <1>1, ShadowInvInit, ShadowInvNext, PTL DEF ShadowSpec

-----------------------------------------------------------------------------
(* Parts of documents                                                      *)

\* A path of one key.
LEMMA OneKey ==
    ASSUME NEW k \in JsonKeys
    PROVE  <<k>> \in Seq(JsonKeys) /\ Len(<<k>>) = 1 /\ <<k>>[1] = k /\ <<k>> \in Paths
<1>1. Len(<<k>>) = 1 /\ <<k>>[1] = k
    OBVIOUS
<1>2. <<k>> \in Seq(JsonKeys)
  <2>1. <<k>> = Append(<<>>, k)
    OBVIOUS
  <2>2. <<>> \in Seq(JsonKeys)
    BY EmptySeq
  <2>3. Append(<<>>, k) \in Seq(JsonKeys)
    BY <2>2, AppendProperties
  <2> QED BY <2>1, <2>3
<1> QED BY <1>1, <1>2, EmptySeq DEF Paths

LEMMA SubOne ==
    ASSUME NEW p \in Paths
    PROVE  SubSeq(p, 1, 1) = <<p[1]>> /\ p[1] \in JsonKeys
<1>1. p \in Seq(JsonKeys) /\ 1 \in 1 .. Len(p)
    BY PathLen
<1>2. p[1] \in JsonKeys
    BY <1>1, ElementOfSeq
<1>3. SubSeq(p, 1, 1) \in Seq(JsonKeys) /\ Len(SubSeq(p, 1, 1)) = 1 /\ SubSeq(p, 1, 1)[1] = p[1]
    BY <1>1, <1>2, SubSeqProperties
<1>4. \A i \in 1 .. 1 : SubSeq(p, 1, 1)[i] = <<p[1]>>[i]
    BY <1>2, <1>3, OneKey
<1> QED BY <1>2, <1>3, <1>4, OneKey, SeqEqual

\* The first key of a path leads to what is above it.
LEMMA PathHead ==
    ASSUME NEW p \in Paths
    PROVE  p[1] \in JsonKeys /\ <<p[1]>> \in Upto(p) /\ \A q \in Upto(p) : q[1] = p[1]
<1>1. p \in Seq(JsonKeys) /\ Len(p) \in Nat /\ Len(p) >= 1
    BY PathLen
<1>2. SubSeq(p, 1, 1) = <<p[1]>> /\ p[1] \in JsonKeys
    BY SubOne
<1>3. <<p[1]>> \in Upto(p)
  <2>1. 1 \in 1 .. Len(p)
    BY <1>1
  <2>2. SubSeq(p, 1, 1) \in Upto(p)
    BY <2>1, UptoAt
  <2> QED BY <1>2, <2>2
<1>4. ASSUME NEW q \in Upto(p) PROVE q[1] = p[1]
  <2>1. PICK n \in 1 .. Len(p) : q = SubSeq(p, 1, n)
    BY UptoIs
  <2> QED BY <1>1, <2>1, SubSeqProperties
<1> QED BY <1>2, <1>3, <1>4

\* One level down.
LEMMA PathDown ==
    ASSUME NEW k \in JsonKeys, NEW p \in Paths
    PROVE  /\ <<k>> \o p \in Paths /\ Len(<<k>> \o p) = Len(p) + 1 /\ (<<k>> \o p)[1] = k
           /\ Tail(<<k>> \o p) = p /\ <<k>> \o p # <<k>> /\ <<k>> \in Paths
           /\ \A i \in 1 .. Len(p) : (<<k>> \o p)[i + 1] = p[i]
<1>1. p \in Seq(JsonKeys) /\ Len(p) \in Nat /\ Len(p) >= 1
    BY PathLen
<1>2. /\ <<k>> \o p \in Seq(JsonKeys) /\ Len(<<k>> \o p) = Len(p) + 1 /\ (<<k>> \o p)[1] = k
      /\ \A i \in 1 .. Len(p) : (<<k>> \o p)[i + 1] = p[i]
  <2> DEFINE one == <<k>>
  <2>1. one \in Seq(JsonKeys) /\ Len(one) = 1 /\ one[1] = k
    BY OneKey
  <2> HIDE DEF one
  <2>2. /\ one \o p \in Seq(JsonKeys) /\ Len(one \o p) = Len(one) + Len(p)
        /\ \A i \in 1 .. Len(one) + Len(p) :
            (one \o p)[i] = IF i <= Len(one) THEN one[i] ELSE p[i - Len(one)]
    BY <1>1, <2>1, ConcatProperties
  <2>3. /\ one \o p \in Seq(JsonKeys) /\ Len(one \o p) = Len(p) + 1 /\ (one \o p)[1] = k
        /\ \A i \in 1 .. Len(p) : (one \o p)[i + 1] = p[i]
    <3>1. (one \o p)[1] = k
      <4>1. 1 \in 1 .. Len(one) + Len(p) /\ 1 <= Len(one)
        BY <1>1, <2>1
      <4> QED BY <2>1, <2>2, <4>1
    <3>2. ASSUME NEW i \in 1 .. Len(p) PROVE (one \o p)[i + 1] = p[i]
      <4>1. i + 1 \in 1 .. Len(one) + Len(p) /\ ~(i + 1 <= Len(one)) /\ (i + 1) - Len(one) = i
        BY <1>1, <2>1
      <4> QED BY <2>2, <4>1
    <3> QED BY <1>1, <2>1, <2>2, <3>1, <3>2
  <2> QED BY <2>3 DEF one
<1>3. Len(<<k>>) = 1 /\ <<k>> \in Paths
    BY OneKey
<1>4. <<k>> \o p \in Paths /\ <<k>> \o p # <<k>>
  <2>1. Len(<<k>> \o p) # 0 /\ Len(<<k>> \o p) # 1
    BY <1>1, <1>2
  <2> QED BY <1>2, <1>3, <2>1, EmptySeq DEF Paths
<1>5. Tail(<<k>> \o p) = p
  <2> DEFINE q == <<k>> \o p
  <2>1. q \in Seq(JsonKeys) /\ q # <<>>
    BY <1>4 DEF Paths
  <2>2. /\ Tail(q) \in Seq(JsonKeys) /\ Len(Tail(q)) = Len(q) - 1
        /\ \A i \in 1 .. Len(Tail(q)) : Tail(q)[i] = q[i + 1]
    BY <2>1, HeadTailProperties
  <2>3. Len(Tail(q)) = Len(p) /\ \A i \in 1 .. Len(p) : Tail(q)[i] = p[i]
    BY <1>1, <1>2, <2>2
  <2> QED BY <1>1, <2>2, <2>3, SeqEqual
<1> QED BY <1>2, <1>3, <1>4, <1>5

\* A path of more than one key is below its first.
LEMMA PathSplit ==
    ASSUME NEW p \in Paths, p # <<p[1]>>
    PROVE  Tail(p) \in Paths /\ p = <<p[1]>> \o Tail(p) /\ Len(p) > 1
<1>1. p \in Seq(JsonKeys) /\ Len(p) \in Nat /\ Len(p) >= 1 /\ p # <<>>
    BY PathLen DEF Paths
<1>2. /\ Tail(p) \in Seq(JsonKeys) /\ Len(Tail(p)) = Len(p) - 1
      /\ \A i \in 1 .. Len(Tail(p)) : Tail(p)[i] = p[i + 1]
    BY <1>1, HeadTailProperties
<1>3. Len(p) > 1
  <2>1. ASSUME Len(p) = 1 PROVE FALSE
    <3>1. <<p[1]>> \in Seq(JsonKeys) /\ Len(<<p[1]>>) = 1
        BY <1>1, <2>1
    <3> QED BY <1>1, <2>1, <3>1, SeqEqual
  <2>2. Len(p) \in Nat /\ Len(p) >= 1
    BY <1>1
  <2> QED BY ONLY <2>1, <2>2
<1>4. Tail(p) \in Paths
  <2>1. Len(Tail(p)) # 0
    BY <1>1, <1>2, <1>3
  <2> QED BY <1>2, <2>1, EmptySeq DEF Paths
<1>5. p = <<p[1]>> \o Tail(p)
  <2> DEFINE q == <<p[1]>> \o Tail(p)
  <2>1. /\ q \in Seq(JsonKeys) /\ Len(q) = Len(p) /\ q[1] = p[1]
        /\ \A i \in 1 .. Len(Tail(p)) : q[i + 1] = p[i + 1]
    BY <1>1, <1>2, <1>4, PathHead, PathDown DEF Paths
  <2> HIDE DEF q
  <2>2. ASSUME NEW i \in 1 .. Len(p) PROVE p[i] = q[i]
    <3>1. CASE i = 1
        BY <2>1, <3>1
    <3>2. CASE i # 1
        <4>1. i - 1 \in 1 .. Len(Tail(p)) /\ (i - 1) + 1 = i
            BY <1>1, <1>2, <3>2
        <4> QED BY <2>1, <4>1
    <3> QED BY <3>1, <3>2
  <2> QED BY <1>1, <2>1, <2>2, SeqEqual DEF q
<1> QED BY <1>3, <1>4, <1>5

\* What is above a path one level down.
LEMMA UptoDownIs ==
    ASSUME NEW k \in JsonKeys, NEW p \in Paths
    PROVE  /\ Upto(<<k>> \o p) = {<<k>>} \cup {<<k>> \o q : q \in Upto(p)}
           /\ Upto(<<k>>) = {<<k>>}
<1> DEFINE d == <<k>> \o p
<1>1. /\ d \in Paths /\ Len(d) = Len(p) + 1 /\ d[1] = k /\ <<k>> \in Paths
      /\ \A i \in 1 .. Len(p) : d[i + 1] = p[i]
    BY PathDown
<1>2. p \in Seq(JsonKeys) /\ Len(p) \in Nat /\ Len(p) >= 1
    BY PathLen
<1>3. SubSeq(d, 1, 1) = <<k>>
    BY <1>1, SubOne
<1>4. ASSUME NEW n \in 1 .. Len(p) PROVE SubSeq(d, 1, n + 1) = <<k>> \o SubSeq(p, 1, n)
  <2> DEFINE a == SubSeq(d, 1, n + 1)
             s == SubSeq(p, 1, n)
             b == <<k>> \o s
  <2>1. a \in Seq(JsonKeys) /\ Len(a) = n + 1 /\ \A i \in 1 .. n + 1 : a[i] = d[i]
    <3> HIDE DEF d
    <3>1. d \in Seq(JsonKeys) /\ n + 1 \in 1 .. Len(d) /\ Len(d) \in Nat
        BY <1>1, <1>2, PathLen
    <3>2. \A i \in 1 .. n + 1 : d[i] \in JsonKeys
        BY <3>1, ElementOfSeq
    <3> QED BY <3>1, <3>2, SubSeqProperties
  <2>2. s \in Paths /\ Len(s) = n /\ \A i \in 1 .. n : s[i] = p[i]
    BY <1>2, UptoAt, SubSeqProperties
  <2> HIDE DEF s
  <2>3. b \in Seq(JsonKeys) /\ Len(b) = n + 1 /\ b[1] = k /\ \A i \in 1 .. n : b[i + 1] = s[i]
    BY <2>2, PathDown DEF Paths
  <2> HIDE DEF a, b
  <2>4. ASSUME NEW i \in 1 .. n + 1 PROVE a[i] = b[i]
    <3>1. CASE i = 1
        BY <1>1, <2>1, <2>3, <3>1
    <3>2. CASE i # 1
        <4>1. i - 1 \in 1 .. n /\ i - 1 \in 1 .. Len(p) /\ (i - 1) + 1 = i
            BY <1>2, <3>2
        <4>2. b[i] = s[i - 1] /\ s[i - 1] = p[i - 1] /\ d[i] = p[i - 1]
            BY <1>1, <2>2, <2>3, <4>1
        <4> QED BY <2>1, <4>2
    <3> QED BY <3>1, <3>2
  <2> QED BY <2>1, <2>3, <2>4, SeqEqual DEF a, b, s
<1>5. ASSUME NEW q \in Upto(d) PROVE q \in {<<k>>} \cup {<<k>> \o r : r \in Upto(p)}
  <2>1. PICK n \in 1 .. Len(d) : q = SubSeq(d, 1, n)
    BY <1>1, UptoIs
  <2>2. CASE n = 1
    BY <1>3, <2>1, <2>2
  <2>3. CASE n # 1
    <3>1. n - 1 \in 1 .. Len(p) /\ (n - 1) + 1 = n
        BY <1>1, <1>2, <2>3
    <3>2. q = <<k>> \o SubSeq(p, 1, n - 1) /\ SubSeq(p, 1, n - 1) \in Upto(p)
        BY <1>4, <2>1, <3>1, UptoAt
    <3> QED BY <3>2
  <2> QED BY <2>2, <2>3
<1>6. <<k>> \in Upto(d)
    BY <1>1, PathHead
<1>7. ASSUME NEW q \in Upto(p) PROVE <<k>> \o q \in Upto(d)
  <2>1. PICK n \in 1 .. Len(p) : q = SubSeq(p, 1, n)
    BY UptoIs
  <2>2. n + 1 \in 1 .. Len(d)
    BY <1>1, <1>2
  <2> QED BY <1>1, <1>4, <2>1, <2>2, UptoAt
<1>8. Upto(<<k>>) = {<<k>>}
  <2>1. Len(<<k>>) = 1
    OBVIOUS
  <2>2. Upto(<<k>>) = {SubSeq(<<k>>, 1, n) : n \in 1 .. 1} /\ SubSeq(<<k>>, 1, 1) = <<k>>
    BY <1>1, <2>1, UptoIs, UptoSelf
  <2>3. 1 .. 1 = {1}
    OBVIOUS
  <2> QED BY <2>2, <2>3
<1> QED BY <1>5, <1>6, <1>7, <1>8

\* A document has a value at each of its keys.
LEMMA KeyPath ==
    ASSUME NEW doc, IsDoc(doc), NEW k
    PROVE  /\ k \in Keys(doc) <=> <<k>> \in DOMAIN doc
           /\ k \in Keys(doc) => k \in JsonKeys
<1>1. ASSUME k \in Keys(doc) PROVE <<k>> \in DOMAIN doc /\ k \in JsonKeys
  <2>1. PICK p \in DOMAIN doc : p[1] = k
    BY <1>1 DEF Keys
  <2> QED BY <2>1, DocPaths, PathHead
<1>2. ASSUME <<k>> \in DOMAIN doc PROVE k \in Keys(doc)
  <2>1. <<k>>[1] = k
    OBVIOUS
  <2> QED BY <1>2, <2>1 DEF Keys
<1> QED BY <1>1, <1>2

\* The paths of an object, one level up.
LEMMA PartIs ==
    ASSUME NEW doc, IsDoc(doc), NEW k \in JsonKeys
    PROVE  /\ DOMAIN Part(doc, k) = {p \in Paths : <<k>> \o p \in DOMAIN doc}
           /\ \A p \in DOMAIN Part(doc, k) : Part(doc, k)[p] = doc[<<k>> \o p]
           /\ IsDoc(Part(doc, k))
<1> DEFINE D == {Tail(q) : q \in {r \in DOMAIN doc : r[1] = k /\ Len(r) > 1}}
           part == Part(doc, k)
<1>1. /\ DOMAIN part = D /\ part = [p \in DOMAIN part |-> part[p]]
      /\ \A p \in DOMAIN part : part[p] = doc[<<k>> \o p]
    BY DEF Part
<1>2. ASSUME NEW p \in D PROVE p \in Paths /\ <<k>> \o p \in DOMAIN doc
  <2>1. PICK q \in DOMAIN doc : q[1] = k /\ Len(q) > 1 /\ p = Tail(q)
    OBVIOUS
  <2>2. q \in Paths /\ q # <<q[1]>>
    BY <2>1, DocPaths, OneKey
  <2> QED BY <2>1, <2>2, PathSplit
<1>3. ASSUME NEW p \in Paths, <<k>> \o p \in DOMAIN doc PROVE p \in D
  <2>1. (<<k>> \o p)[1] = k /\ Tail(<<k>> \o p) = p /\ Len(<<k>> \o p) > 1
    BY PathDown, PathLen
  <2> QED BY <1>3, <2>1
<1>4. DOMAIN part = {p \in Paths : <<k>> \o p \in DOMAIN doc}
    BY <1>1, <1>2, <1>3
<1> HIDE DEF part, D
<1>5. ASSUME NEW p \in DOMAIN part, NEW q \in Above(p)
      PROVE  q \in DOMAIN part /\ part[q] = Object
  <2>1. p \in Paths /\ <<k>> \o p \in DOMAIN doc /\ q \in Upto(p) /\ q # p
    BY <1>4, <1>5 DEF Above
  <2>2. q \in Paths
    BY <2>1, UptoSelf
  <2>3. <<k>> \o q \in Upto(<<k>> \o p)
    <3>1. Upto(<<k>> \o p) = {<<k>>} \cup {<<k>> \o r : r \in Upto(p)}
        BY <2>1, UptoDownIs
    <3> QED BY <2>1, <3>1
  <2>4. <<k>> \o q # <<k>> \o p
    BY <2>1, <2>2, PathDown
  <2>5. <<k>> \o q \in DOMAIN doc /\ doc[<<k>> \o q] = Object
    BY <2>1, <2>3, <2>4, DocPaths
  <2> QED BY <1>1, <1>4, <2>2, <2>5
<1>6. IsDoc(part)
    BY <1>1, <1>4, <1>5 DEF IsDoc, Paths
<1> QED BY <1>1, <1>4, <1>6 DEF part

\* An object at a key of its own.
LEMMA UnderIs ==
    ASSUME NEW doc, IsDoc(doc), NEW k \in JsonKeys
    PROVE  /\ DOMAIN Under(k, doc) = {<<k>>} \cup {<<k>> \o p : p \in DOMAIN doc}
           /\ Under(k, doc)[<<k>>] = Object
           /\ \A p \in DOMAIN doc : Under(k, doc)[<<k>> \o p] = doc[p]
           /\ IsDoc(Under(k, doc)) /\ Keys(Under(k, doc)) = {k}
<1> DEFINE u == Under(k, doc)
<1>1. /\ DOMAIN u = {<<k>>} \cup {<<k>> \o p : p \in DOMAIN doc}
      /\ u = [p \in DOMAIN u |-> u[p]]
      /\ \A p \in DOMAIN u : u[p] = IF p = <<k>> THEN Object ELSE doc[Tail(p)]
    BY DEF Under
<1> HIDE DEF u
<1>2. ASSUME NEW p \in DOMAIN doc
      PROVE  /\ p \in Paths /\ <<k>> \o p \in Paths /\ (<<k>> \o p)[1] = k
             /\ <<k>> \o p \in DOMAIN u /\ u[<<k>> \o p] = doc[p]
  <2>1. p \in Paths
    BY DocPaths
  <2>2. <<k>> \o p # <<k>> /\ Tail(<<k>> \o p) = p /\ <<k>> \o p \in Paths /\ (<<k>> \o p)[1] = k
    BY <2>1, PathDown
  <2>3. <<k>> \o p \in DOMAIN u
    BY <1>1
  <2> QED BY <1>1, <2>1, <2>2, <2>3
<1>3. <<k>> \in DOMAIN u /\ u[<<k>>] = Object /\ <<k>> \in Paths /\ <<k>>[1] = k
    BY <1>1, OneKey
<1>4. ASSUME NEW p \in DOMAIN u, NEW q \in Above(p)
      PROVE  q \in DOMAIN u /\ u[q] = Object
  <2>1. CASE p = <<k>>
    <3>1. Upto(p) = {p}
        BY <1>3, <2>1, UptoDownIs
    <3> QED BY <1>4, <3>1 DEF Above
  <2>2. CASE p # <<k>>
    <3>1. PICK r \in DOMAIN doc : p = <<k>> \o r
        BY <1>1, <2>2
    <3>2. r \in Paths
        BY <1>2
    <3>3. Upto(p) = {<<k>>} \cup {<<k>> \o s : s \in Upto(r)}
        BY <3>1, <3>2, UptoDownIs
    <3>4. CASE q = <<k>>
        BY <1>3, <3>4
    <3>5. ASSUME NEW s \in Upto(r), q = <<k>> \o s PROVE q \in DOMAIN u /\ u[q] = Object
        <4>1. s # r
            BY <1>4, <3>1, <3>5 DEF Above
        <4>2. s \in DOMAIN doc /\ doc[s] = Object
            BY <3>1, <4>1, DocPaths
        <4> QED BY <1>2, <3>5, <4>2
    <3> QED BY <1>4, <3>3, <3>4, <3>5 DEF Above
  <2> QED BY <2>1, <2>2
<1>5. IsDoc(u)
    BY <1>1, <1>2, <1>3, <1>4 DEF IsDoc, Paths
<1>6. Keys(u) = {k}
  <2>1. \A p \in DOMAIN u : p[1] = k
    BY <1>1, <1>2, <1>3
  <2> QED BY <1>3, <2>1 DEF Keys
<1> QED BY <1>1, <1>2, <1>3, <1>5, <1>6 DEF u

\* Some keys of a document.
LEMMA OnlyIs ==
    ASSUME NEW doc, IsDoc(doc), NEW ks
    PROVE  /\ DOMAIN Only(doc, ks) = {p \in DOMAIN doc : p[1] \in ks}
           /\ \A p \in DOMAIN Only(doc, ks) : Only(doc, ks)[p] = doc[p]
           /\ IsDoc(Only(doc, ks)) /\ Keys(Only(doc, ks)) = Keys(doc) \cap ks
<1> DEFINE o == Only(doc, ks)
<1>1. /\ DOMAIN o = {p \in DOMAIN doc : p[1] \in ks}
      /\ o = [p \in DOMAIN o |-> o[p]]
      /\ \A p \in DOMAIN o : o[p] = doc[p]
    BY DEF Only, Restrict
<1> HIDE DEF o
<1>2. ASSUME NEW p \in DOMAIN o, NEW q \in Above(p) PROVE q \in DOMAIN o /\ o[q] = Object
  <2>1. p \in DOMAIN doc /\ p \in Paths /\ q \in Upto(p) /\ q # p
    BY <1>1, <1>2, DocPaths DEF Above
  <2>2. q \in DOMAIN doc /\ doc[q] = Object /\ q[1] = p[1]
    BY <2>1, DocPaths, PathHead
  <2> QED BY <1>1, <2>2
<1>3. IsDoc(o)
    BY <1>1, <1>2 DEF IsDoc
<1>4. Keys(o) = Keys(doc) \cap ks
    BY <1>1 DEF Keys
<1> QED BY <1>1, <1>3, <1>4 DEF o

\* Documents with different keys, side by side.
LEMMA JoinIs ==
    ASSUME NEW a, NEW b, IsDoc(a), IsDoc(b), Keys(a) \cap Keys(b) = {}
    PROVE  /\ DOMAIN Join(a, b) = DOMAIN a \cup DOMAIN b
           /\ \A p \in DOMAIN a : Join(a, b)[p] = a[p]
           /\ \A p \in DOMAIN b : Join(a, b)[p] = b[p]
           /\ IsDoc(Join(a, b)) /\ Keys(Join(a, b)) = Keys(a) \cup Keys(b)
<1> DEFINE j == Join(a, b)
<1>1. /\ DOMAIN j = DOMAIN a \cup DOMAIN b /\ j = [p \in DOMAIN j |-> j[p]]
      /\ \A p \in DOMAIN j : j[p] = IF p \in DOMAIN a THEN a[p] ELSE b[p]
    BY DEF Join
<1> HIDE DEF j
<1>2. \A p \in DOMAIN b : p \notin DOMAIN a
    BY DEF Keys
<1>3. ASSUME NEW p \in DOMAIN j, NEW q \in Above(p) PROVE q \in DOMAIN j /\ j[q] = Object
  <2>1. CASE p \in DOMAIN a
    BY <1>1, <1>3, <2>1 DEF IsDoc
  <2>2. CASE p \in DOMAIN b
    BY <1>1, <1>2, <1>3, <2>2 DEF IsDoc
  <2> QED BY <1>1, <2>1, <2>2
<1>4. IsDoc(j)
    BY <1>1, <1>3 DEF IsDoc
<1>5. Keys(j) = Keys(a) \cup Keys(b)
    BY <1>1 DEF Keys
<1> QED BY <1>1, <1>2, <1>4, <1>5 DEF j

\* A document of one value that is no object.
LEMMA OneIs ==
    ASSUME NEW k \in JsonKeys, NEW v
    PROVE  /\ DOMAIN Put(k, v) = {<<k>>} /\ Put(k, v)[<<k>>] = v
           /\ IsDoc(Put(k, v)) /\ Keys(Put(k, v)) = {k}
<1> DEFINE o == Put(k, v)
<1>1. o = [p \in {<<k>>} |-> v]
    BY DEF Put
<1>2. DOMAIN o = {<<k>>} /\ o[<<k>>] = v /\ o = [p \in DOMAIN o |-> o[p]]
    BY <1>1
<1> HIDE DEF o
<1>3. <<k>> \in Paths /\ <<k>>[1] = k /\ Upto(<<k>>) = {<<k>>}
    BY OneKey, UptoDownIs
<1> QED BY <1>2, <1>3 DEF IsDoc, Keys, Above, Paths, o

\* What is below a key.
LEMMA BelowHead ==
    ASSUME NEW k \in JsonKeys, NEW j \in JsonKeys, NEW p \in Paths, NEW q \in Paths,
           <<k>> \o p = <<j>> \o q
    PROVE  k = j /\ p = q
<1>1. (<<k>> \o p)[1] = k /\ Tail(<<k>> \o p) = p
    BY PathDown
<1>2. (<<j>> \o q)[1] = j /\ Tail(<<j>> \o q) = q
    BY PathDown
<1> QED BY <1>1, <1>2

LEMMA EmptyIs == IsDoc(EmptyDoc) /\ Keys(EmptyDoc) = {} /\ DOMAIN EmptyDoc = {}
BY DEF IsDoc, EmptyDoc, Keys

\* What was put under a key is found there.
LEMMA PartUnder ==
    ASSUME NEW doc, IsDoc(doc), NEW k \in JsonKeys
    PROVE  Part(Under(k, doc), k) = doc
<1> DEFINE u == Under(k, doc)
           part == Part(u, k)
<1>1. /\ DOMAIN u = {<<k>>} \cup {<<k>> \o p : p \in DOMAIN doc}
      /\ \A p \in DOMAIN doc : u[<<k>> \o p] = doc[p]
      /\ IsDoc(u)
    BY UnderIs
<1> HIDE DEF u
<1>2. /\ DOMAIN part = {p \in Paths : <<k>> \o p \in DOMAIN u}
      /\ \A p \in DOMAIN part : part[p] = u[<<k>> \o p]
      /\ IsDoc(part)
    BY <1>1, PartIs
<1> HIDE DEF part
<1>3. ASSUME NEW p \in DOMAIN part PROVE p \in DOMAIN doc
  <2>1. p \in Paths /\ <<k>> \o p \in DOMAIN u /\ <<k>> \o p # <<k>>
    BY <1>2, PathDown
  <2>2. PICK q \in DOMAIN doc : <<k>> \o p = <<k>> \o q
    BY <1>1, <2>1
  <2> QED BY <2>1, <2>2, DocPaths, BelowHead
<1>4. ASSUME NEW p \in DOMAIN doc PROVE p \in DOMAIN part /\ part[p] = doc[p]
    BY <1>1, <1>2, DocPaths
<1>5. part = doc
    BY <1>2, <1>3, <1>4 DEF IsDoc
<1> QED BY <1>5 DEF part, u

\* Two documents that agree below a key have the same part there.
LEMMA SamePart ==
    ASSUME NEW a, NEW b, IsDoc(a), IsDoc(b), NEW k \in JsonKeys,
           \A p \in Paths : p[1] = k =>
                (p \in DOMAIN a <=> p \in DOMAIN b) /\ (p \in DOMAIN a => a[p] = b[p])
    PROVE  Part(a, k) = Part(b, k)
<1> DEFINE pa == Part(a, k)
           pb == Part(b, k)
<1>1. /\ DOMAIN pa = {p \in Paths : <<k>> \o p \in DOMAIN a}
      /\ \A p \in DOMAIN pa : pa[p] = a[<<k>> \o p]
      /\ IsDoc(pa)
    BY PartIs
<1>2. /\ DOMAIN pb = {p \in Paths : <<k>> \o p \in DOMAIN b}
      /\ \A p \in DOMAIN pb : pb[p] = b[<<k>> \o p]
      /\ IsDoc(pb)
    BY PartIs
<1> HIDE DEF pa, pb
<1>3. \A p \in Paths : <<k>> \o p \in Paths /\ (<<k>> \o p)[1] = k
    BY PathDown
<1>4. DOMAIN pa = DOMAIN pb /\ \A p \in DOMAIN pa : pa[p] = pb[p]
    BY <1>1, <1>2, <1>3
<1>5. pa = pb
    BY <1>1, <1>2, <1>4 DEF IsDoc
<1> QED BY <1>5 DEF pa, pb

\* A document of two with different keys has the parts of the one and the other.
LEMMA PartJoin ==
    ASSUME NEW a, NEW b, IsDoc(a), IsDoc(b), Keys(a) \cap Keys(b) = {}, NEW k \in JsonKeys
    PROVE  /\ k \notin Keys(b) => Part(Join(a, b), k) = Part(a, k)
           /\ k \notin Keys(a) => Part(Join(a, b), k) = Part(b, k)
<1> DEFINE j == Join(a, b)
<1>1. /\ DOMAIN j = DOMAIN a \cup DOMAIN b /\ IsDoc(j)
      /\ \A p \in DOMAIN a : j[p] = a[p]
      /\ \A p \in DOMAIN b : j[p] = b[p]
    BY JoinIs
<1> HIDE DEF j
<1>2. ASSUME k \notin Keys(b) PROVE Part(j, k) = Part(a, k)
  <2>1. \A p \in Paths : p[1] = k => p \notin DOMAIN b
    BY <1>2 DEF Keys
  <2>2. \A p \in Paths : p[1] = k =>
            (p \in DOMAIN j <=> p \in DOMAIN a) /\ (p \in DOMAIN j => j[p] = a[p])
    BY <1>1, <2>1
  <2> QED BY <1>1, <2>2, SamePart
<1>3. ASSUME k \notin Keys(a) PROVE Part(j, k) = Part(b, k)
  <2>1. \A p \in Paths : p[1] = k => p \notin DOMAIN a
    BY <1>3 DEF Keys
  <2>2. \A p \in Paths : p[1] = k =>
            (p \in DOMAIN j <=> p \in DOMAIN b) /\ (p \in DOMAIN j => j[p] = b[p])
    BY <1>1, <2>1
  <2> QED BY <1>1, <2>2, SamePart
<1> QED BY <1>2, <1>3 DEF j

LEMMA PartOnly ==
    ASSUME NEW doc, IsDoc(doc), NEW ks, NEW k \in JsonKeys, k \in ks
    PROVE  Part(Only(doc, ks), k) = Part(doc, k)
<1>1. /\ DOMAIN Only(doc, ks) = {p \in DOMAIN doc : p[1] \in ks} /\ IsDoc(Only(doc, ks))
      /\ \A p \in DOMAIN Only(doc, ks) : Only(doc, ks)[p] = doc[p]
    BY OnlyIs
<1> QED BY <1>1, SamePart

\* A key that is not there holds nothing.
LEMMA PartNone ==
    ASSUME NEW doc, IsDoc(doc), NEW k \in JsonKeys, k \notin Keys(doc)
    PROVE  Part(doc, k) = EmptyDoc
<1>1. \A p \in Paths : p[1] = k => p \notin DOMAIN doc
    BY DEF Keys
<1>2. Part(doc, k) = Part(EmptyDoc, k)
    BY <1>1, EmptyIs, SamePart
<1>3. DOMAIN Part(EmptyDoc, k) = {} /\ IsDoc(Part(EmptyDoc, k))
    BY EmptyIs, PartIs
<1> QED BY <1>2, <1>3 DEF IsDoc, EmptyDoc

\* A sequence of two, one after the other.
LEMMA PairIs ==
    ASSUME NEW S, NEW k \in S, NEW j \in S, NEW s \in Seq(S), Len(s) = 2, s[1] = k, s[2] = j
    PROVE  <<k, j>> = s
OBVIOUS

LEMMA AppendPair ==
    ASSUME NEW S, NEW k \in S, NEW j \in S
    PROVE  Append(<<k>>, j) = <<k, j>>
<1>1. Append(<<k>>, j) \in Seq(S) /\ Len(Append(<<k>>, j)) = 2
    OBVIOUS
<1>2. Append(<<k>>, j)[1] = k /\ Append(<<k>>, j)[2] = j
    OBVIOUS
<1> QED BY <1>1, <1>2, PairIs

\* The value at a key of a part.
LEMMA PartKey ==
    ASSUME NEW doc, IsDoc(doc), NEW k \in JsonKeys, NEW j \in JsonKeys
    PROVE  /\ j \in Keys(Part(doc, k)) <=> <<k, j>> \in DOMAIN doc
           /\ j \in Keys(Part(doc, k)) => Part(doc, k)[<<j>>] = doc[<<k, j>>]
           /\ j \in Keys(Part(doc, k)) => k \in Keys(doc)
<1>2. <<j>> \in Paths /\ <<k>> \in Paths
    BY OneKey
<1>1. <<k>> \o <<j>> = <<k, j>>
  <2>1. Append(<<k>>, j) = <<k, j>>
    BY AppendPair
  <2>2. <<k>> \in Seq(JsonKeys)
    BY OneKey
  <2> QED BY <2>1, <2>2, AppendIsConcat
<1>3. j \in Keys(Part(doc, k)) <=> <<j>> \in DOMAIN Part(doc, k)
    BY PartIs, KeyPath
<1>4. /\ <<j>> \in DOMAIN Part(doc, k) <=> <<k, j>> \in DOMAIN doc
      /\ <<j>> \in DOMAIN Part(doc, k) => Part(doc, k)[<<j>>] = doc[<<k, j>>]
  <2>1. /\ DOMAIN Part(doc, k) = {p \in Paths : <<k>> \o p \in DOMAIN doc}
        /\ \A p \in DOMAIN Part(doc, k) : Part(doc, k)[p] = doc[<<k>> \o p]
    BY PartIs
  <2>2. <<j>> \in DOMAIN Part(doc, k) <=> <<k>> \o <<j>> \in DOMAIN doc
    BY <1>2, <2>1
  <2>3. <<j>> \in DOMAIN Part(doc, k) => Part(doc, k)[<<j>>] = doc[<<k>> \o <<j>>]
    BY <2>1
  <2> QED BY <1>1, <2>2, <2>3
<1>5. ASSUME <<k, j>> \in DOMAIN doc PROVE doc[<<k>>] = Object /\ k \in Keys(doc)
  <2>1. <<k>> \in Upto(<<k, j>>) /\ <<k>> # <<k, j>>
    BY <1>1, <1>2, UptoDownIs, PathDown
  <2> QED BY <1>5, <2>1, DocPaths, KeyPath
<1> QED BY <1>3, <1>4, <1>5

-----------------------------------------------------------------------------
(* What is shown of a node                                                 *)

\* The keys the code names.
LEMMA CodeKeys ==
    /\ "node" \in JsonKeys /\ "nodestats" \in JsonKeys /\ "apps" \in JsonKeys
    /\ "hostname" \in JsonKeys /\ "role" \in JsonKeys
    /\ "usage" \in JsonKeys /\ "capacity" \in JsonKeys /\ "extension" \in JsonKeys
    /\ "cpu" \in JsonKeys /\ "memory" \in JsonKeys
BY KeysAssumption DEF InfoFields, StatsFields, Resources

AllWell(doc) == \A p \in DOMAIN doc : WellFormed(p, doc[p])

\* The one member a single node is shown as, and its statistics.
InfoOf(node) == Join(Put("role", <<"leaf", "master">>), Only(node, InfoFields \ {"role"}))
StatsOf(doc) == Only(Part(doc, "nodestats"), StatsFields)

IsSingle(doc) == "node" \in Keys(doc) /\ ~DecodesAsMembers(Part(doc, "node"))

LEMMA EmptyKey == Blank \in JsonKeys \ (StatsFields \cup {"hostname"})
BY KeysAssumption, Zenon DEF Blank, StatsFields

\* The name a single node is shown by is none of the fields.
LEMMA HostIs ==
    ASSUME NEW doc, IsDoc(doc), AllWell(doc)
    PROVE  Hostname(Part(doc, "node")) \in JsonKeys \ (StatsFields \cup {"hostname"})
<1>1. CASE "hostname" \in Keys(Part(doc, "node"))
  <2>1. /\ <<"node", "hostname">> \in DOMAIN doc
        /\ Part(doc, "node")[<<"hostname">>] = doc[<<"node", "hostname">>]
    <3>1. "node" \in JsonKeys /\ "hostname" \in JsonKeys
        BY CodeKeys
    <3>2. \A n \in JsonKeys, j \in JsonKeys : j \in Keys(Part(doc, n)) =>
                <<n, j>> \in DOMAIN doc /\ Part(doc, n)[<<j>>] = doc[<<n, j>>]
        BY PartKey
    <3>3. "hostname" \in Keys(Part(doc, "node")) => <<"node", "hostname">> \in DOMAIN doc
        BY <3>1, <3>2
    <3>4. "hostname" \in Keys(Part(doc, "node")) =>
                Part(doc, "node")[<<"hostname">>] = doc[<<"node", "hostname">>]
        BY <3>1, <3>2
    <3> QED BY <1>1, <3>3, <3>4
  <2>2. doc[<<"node", "hostname">>][2] \in JsonKeys \ (StatsFields \cup {"hostname"})
    BY <2>1 DEF AllWell, WellFormed
  <2> QED BY <1>1, <2>1, <2>2 DEF Hostname
<1>2. CASE "hostname" \notin Keys(Part(doc, "node"))
    BY <1>2, EmptyKey DEF Hostname
<1> QED BY <1>1, <1>2

LEMMA InfoIs ==
    ASSUME NEW node, IsDoc(node)
    PROVE  /\ IsDoc(InfoOf(node))
           /\ \A p \in DOMAIN node : p[1] \in InfoFields \ {"role"} =>
                p \in DOMAIN InfoOf(node) /\ InfoOf(node)[p] = node[p]
<1> DEFINE a == Put("role", <<"leaf", "master">>)
           b == Only(node, InfoFields \ {"role"})
<1>1. IsDoc(a) /\ Keys(a) = {"role"}
    BY OneIs, CodeKeys
<1>2. /\ IsDoc(b) /\ Keys(b) = Keys(node) \cap (InfoFields \ {"role"})
      /\ DOMAIN b = {p \in DOMAIN node : p[1] \in InfoFields \ {"role"}}
      /\ \A p \in DOMAIN b : b[p] = node[p]
    BY OnlyIs
<1> HIDE DEF a, b
<1>5. Keys(a) \cap Keys(b) = {}
    BY <1>1, <1>2
<1>6. IsDoc(a) /\ IsDoc(b)
    BY <1>1, <1>2
<1>3. /\ IsDoc(Join(a, b)) /\ DOMAIN Join(a, b) = DOMAIN a \cup DOMAIN b
      /\ \A p \in DOMAIN b : Join(a, b)[p] = b[p]
    BY ONLY <1>5, <1>6, JoinIs
<1>4. InfoOf(node) = Join(a, b)
    BY DEF InfoOf, a, b
<1> QED BY <1>2, <1>3, <1>4

\* Two keys down.
LEMMA Under2Is ==
    ASSUME NEW doc, IsDoc(doc), NEW k \in JsonKeys, NEW h \in JsonKeys
    PROVE  /\ \A q \in DOMAIN Under(k, Under(h, doc)) :
                q = <<k>> \/ q = <<k>> \o <<h>> \/ \E p \in DOMAIN doc : q = <<k>> \o (<<h>> \o p)
           /\ \A p \in DOMAIN doc : Under(k, Under(h, doc))[<<k>> \o (<<h>> \o p)] = doc[p]
<1> DEFINE v == Under(h, doc)
           u == Under(k, v)
<1>1. /\ IsDoc(v) /\ DOMAIN v = {<<h>>} \cup {<<h>> \o p : p \in DOMAIN doc}
      /\ \A p \in DOMAIN doc : v[<<h>> \o p] = doc[p]
    BY UnderIs
<1> HIDE DEF v
<1>2. /\ IsDoc(u) /\ Keys(u) = {k} /\ DOMAIN u = {<<k>>} \cup {<<k>> \o p : p \in DOMAIN v}
      /\ \A p \in DOMAIN v : u[<<k>> \o p] = v[p]
    BY <1>1, UnderIs
<1> HIDE DEF u
<1>3. \A q \in DOMAIN u :
        q = <<k>> \/ q = <<k>> \o <<h>> \/ \E p \in DOMAIN doc : q = <<k>> \o (<<h>> \o p)
    BY <1>1, <1>2
<1>4. \A p \in DOMAIN doc : u[<<k>> \o (<<h>> \o p)] = doc[p]
    BY <1>1, <1>2
<1> QED BY <1>2, <1>3, <1>4 DEF u, v

\* compatibleSingleNode, of a single node.
NodeMember(doc) == Under("node", Under(Hostname(Part(doc, "node")), InfoOf(Part(doc, "node"))))
StatsMember(doc) ==
    IF "nodestats" \in Keys(doc) THEN Under("nodestats", Under(Hostname(Part(doc, "node")), StatsOf(doc)))
    ELSE EmptyDoc

LEMMA CompatForm ==
    ASSUME NEW doc
    PROVE  /\ ~IsSingle(doc) => compatibleSingleNode(doc) = doc
           /\ IsSingle(doc) =>
                compatibleSingleNode(doc) =
                    Join(Only(doc, Keys(doc) \ {"node", "nodestats"}), Join(NodeMember(doc), StatsMember(doc)))
BY DEF compatibleSingleNode, IsSingle, NodeMember, StatsMember, InfoOf, StatsOf

\* The member of the node, and of its statistics: documents of one key.
LEMMA NodeMemberIs ==
    ASSUME NEW doc, IsDoc(doc), AllWell(doc)
    PROVE  /\ IsDoc(NodeMember(doc)) /\ Keys(NodeMember(doc)) = {"node"}
           /\ Part(NodeMember(doc), "node") = Under(Hostname(Part(doc, "node")), InfoOf(Part(doc, "node")))
           /\ AllWell(NodeMember(doc))
<1> DEFINE h == Hostname(Part(doc, "node"))
           info == InfoOf(Part(doc, "node"))
           u == Under("node", Under(h, info))
<1>1. "node" \in JsonKeys /\ "hostname" \in JsonKeys
    BY CodeKeys
<1>2. h \in JsonKeys /\ h # "hostname"
    BY HostIs
<1>3. IsDoc(Part(doc, "node"))
    BY <1>1, PartIs
<1>4. IsDoc(info)
    BY <1>3, InfoIs
<1> HIDE DEF h, info
<1>5. IsDoc(Under(h, info))
    BY <1>2, <1>4, UnderIs
<1>6. Part(u, "node") = Under(h, info)
    BY <1>1, <1>5, PartUnder
<1>7. IsDoc(u) /\ Keys(u) = {"node"}
    BY <1>1, <1>5, UnderIs
<1> HIDE DEF u
<1>8. \A p \in DOMAIN u : p[1] = "node"
    BY <1>7 DEF Keys
<1>9. <<"node", "hostname">> \notin DOMAIN u
  <2>1. "hostname" \in Keys(Part(u, "node")) <=> <<"node", "hostname">> \in DOMAIN u
    BY <1>1, <1>7, PartKey
  <2>2. Keys(Under(h, info)) = {h}
    BY <1>2, <1>4, UnderIs
  <2> QED BY <1>2, <1>6, <2>1, <2>2
<1>10. ASSUME NEW p \in DOMAIN u PROVE WellFormed(p, u[p])
  <2>1. p[1] = "node" /\ p # <<"node", "hostname">>
    BY <1>8, <1>9
  <2>2. ~IsAmount(p)
    BY <2>1 DEF IsAmount
  <2>3. \A k \in StatsKeys : p # <<k>>
    BY <2>1 DEF StatsKeys
  <2>4. p \in {<<"node">>, <<"nodestats">>} => u[p] = Object
    <3>1. u[<<"node">>] = Object
      BY <1>1, <1>5, UnderIs DEF u
    <3>2. p # <<"nodestats">>
      BY <2>1
    <3> QED BY <3>1, <3>2
  <2> QED BY <2>1, <2>2, <2>3, <2>4 DEF WellFormed
<1> QED BY <1>6, <1>7, <1>10 DEF AllWell, NodeMember, u, h, info

LEMMA StatsMemberIs ==
    ASSUME NEW doc, IsDoc(doc), AllWell(doc)
    PROVE  /\ IsDoc(StatsMember(doc)) /\ Keys(StatsMember(doc)) = Keys(doc) \cap {"nodestats"}
           /\ "nodestats" \in Keys(doc) =>
                Part(StatsMember(doc), "nodestats") = Under(Hostname(Part(doc, "node")), StatsOf(doc))
           /\ AllWell(StatsMember(doc))
<1>1. CASE "nodestats" \notin Keys(doc)
    BY <1>1, EmptyIs DEF StatsMember, AllWell
<1>2. CASE "nodestats" \in Keys(doc)
  <2> DEFINE h == Hostname(Part(doc, "node"))
             stats == StatsOf(doc)
             u == Under("nodestats", Under(h, stats))
  <2>1. "nodestats" \in JsonKeys
    BY CodeKeys
  <2>2. h \in JsonKeys /\ h \notin StatsFields
    BY HostIs
  <2>3. /\ IsDoc(Part(doc, "nodestats"))
        /\ DOMAIN Part(doc, "nodestats") = {p \in Paths : <<"nodestats">> \o p \in DOMAIN doc}
        /\ \A p \in DOMAIN Part(doc, "nodestats") : Part(doc, "nodestats")[p] = doc[<<"nodestats">> \o p]
    BY <2>1, PartIs
  <2>4. /\ IsDoc(stats)
        /\ \A p \in DOMAIN stats : p \in DOMAIN Part(doc, "nodestats") /\ p[1] \in StatsFields
        /\ \A p \in DOMAIN stats : stats[p] = Part(doc, "nodestats")[p]
    <3> DEFINE ns == Part(doc, "nodestats")
    <3>1. IsDoc(ns)
      BY <2>3
    <3> HIDE DEF ns
    <3>2. /\ IsDoc(Only(ns, StatsFields)) /\ DOMAIN Only(ns, StatsFields) = {p \in DOMAIN ns : p[1] \in StatsFields}
          /\ \A p \in DOMAIN Only(ns, StatsFields) : Only(ns, StatsFields)[p] = ns[p]
      BY <3>1, OnlyIs
    <3>3. stats = Only(ns, StatsFields)
      BY DEF StatsOf, ns
    <3> HIDE DEF stats
    <3> QED BY <3>2, <3>3 DEF ns
  <2>5. \A p \in DOMAIN stats : p \in Paths /\ <<"nodestats">> \o p \in DOMAIN doc /\ stats[p] = doc[<<"nodestats">> \o p]
    BY <2>3, <2>4
  <2> HIDE DEF h, stats
  <2>6. IsDoc(Under(h, stats))
    BY <2>2, <2>4, UnderIs
  <2>7. Part(u, "nodestats") = Under(h, stats)
    BY <2>1, <2>6, PartUnder
  <2>8. IsDoc(u) /\ Keys(u) = {"nodestats"}
    BY <2>1, <2>6, UnderIs
  <2>9. /\ \A q \in DOMAIN u : \/ q = <<"nodestats">> \/ q = <<"nodestats">> \o <<h>>
                               \/ \E p \in DOMAIN stats : q = <<"nodestats">> \o (<<h>> \o p)
        /\ \A p \in DOMAIN stats : u[<<"nodestats">> \o (<<h>> \o p)] = stats[p]
    <3>1. IsDoc(stats) /\ h \in JsonKeys
      BY <2>2, <2>4
    <3> QED BY ONLY <2>1, <3>1, Under2Is
  <2> HIDE DEF u
  <2>10. ASSUME NEW p \in DOMAIN u, IsAmount(p)
         PROVE  u[p][1] = "leaf" /\ u[p][2] \in Quantities /\ (p[Len(p)] = "cpu" => u[p][2].u # "Ki")
    <3>1. <<h>> \in Paths /\ <<"nodestats">> \in Paths /\ Len(<<"nodestats">>) = 1 /\ Len(<<h>>) = 1
      BY <2>1, <2>2, OneKey
    <3>2. Len(<<"nodestats">> \o <<h>>) = 2
      BY <2>1, <3>1, PathDown
    <3>3. PICK r \in DOMAIN stats : p = <<"nodestats">> \o (<<h>> \o r)
      <4>1. Len(p) = 3 \/ Len(p) = 4
        BY <2>10 DEF IsAmount
      <4>2. p # <<"nodestats">> /\ p # <<"nodestats">> \o <<h>>
        BY ONLY <3>1, <3>2, <4>1
      <4> QED BY ONLY <2>9, <2>10, <4>2
    <3>4. r \in Paths /\ <<"nodestats">> \o r \in DOMAIN doc /\ u[p] = doc[<<"nodestats">> \o r]
      BY <2>5, <2>9, <3>3
    <3> DEFINE s == <<h>> \o r
               d == <<"nodestats">> \o r
    <3>5. s \in Paths /\ Len(s) = Len(r) + 1 /\ s[1] = h /\ \A i \in 1 .. Len(r) : s[i + 1] = r[i]
      BY <2>2, <3>4, PathDown
    <3>6. d \in Paths /\ Len(d) = Len(r) + 1 /\ d[1] = "nodestats" /\ \A i \in 1 .. Len(r) : d[i + 1] = r[i]
      BY <2>1, <3>4, PathDown
    <3>7. Len(r) \in Nat /\ Len(r) >= 1
      BY <3>4, PathLen
    <3> HIDE DEF s
    <3>8. Len(p) = Len(s) + 1 /\ p[1] = "nodestats" /\ \A i \in 1 .. Len(s) : p[i + 1] = s[i]
      BY <2>1, <3>3, <3>5, PathDown DEF s
    <3> HIDE DEF d
    <3>9. p[2] = h
      <4>1. 1 \in 1 .. Len(s) /\ 1 + 1 = 2
        BY <3>5, <3>7
      <4>2. p[1 + 1] = s[1]
        BY <3>8, <4>1
      <4> QED BY <3>5, <4>1, <4>2
    <3>10. h \notin {"usage", "capacity"}
      BY <2>2 DEF StatsFields
    <3>11. Len(p) = 4 /\ p[3] \in {"usage", "capacity"}
      BY <2>10, <3>9, <3>10 DEF IsAmount
    <3>12. Len(r) = 2 /\ Len(d) = 3
      <4>1. Len(r) \in Nat /\ Len(p) = Len(s) + 1 /\ Len(s) = Len(r) + 1 /\ Len(d) = Len(r) + 1 /\ Len(p) = 4
        BY <3>5, <3>6, <3>7, <3>8, <3>11
      <4>3. Len(s) \in Nat
        BY <3>5, PathLen
      <4>4. \A a, b \in Nat : 4 = b + 1 /\ b = a + 1 => a = 2
        OBVIOUS
      <4>2. Len(r) = 2
        BY <4>1, <4>3, <4>4
      <4> QED BY <4>1, <4>2
    <3>13. p[3] = r[1] /\ p[4] = r[2] /\ d[2] = r[1] /\ d[3] = r[2]
      <4>1. 1 \in 1 .. Len(r) /\ 2 \in 1 .. Len(r) /\ 2 \in 1 .. Len(s) /\ 3 \in 1 .. Len(s)
        BY <3>5, <3>12
      <4>2. 1 + 1 = 2 /\ 2 + 1 = 3 /\ 3 + 1 = 4
        OBVIOUS
      <4>3. p[2 + 1] = s[2] /\ p[3 + 1] = s[3]
        BY <3>8, <4>1
      <4>4. s[1 + 1] = r[1] /\ s[2 + 1] = r[2]
        BY <3>5, <4>1
      <4>5. d[1 + 1] = r[1] /\ d[2 + 1] = r[2]
        BY <3>6, <4>1
      <4> QED BY ONLY <4>2, <4>3, <4>4, <4>5
    <3>14. IsAmount(d)
      BY <3>6, <3>11, <3>12, <3>13 DEF IsAmount
    <3>15. d \in DOMAIN doc /\ u[p] = doc[d]
      BY <3>4 DEF d
    <3>16. doc[d][1] = "leaf" /\ doc[d][2] \in Quantities /\ (d[Len(d)] = "cpu" => doc[d][2].u # "Ki")
      BY <3>14, <3>15 DEF AllWell, WellFormed
    <3> QED BY <3>11, <3>12, <3>13, <3>15, <3>16
  <2>11. ASSUME NEW p \in DOMAIN u PROVE WellFormed(p, u[p])
    <3>1. p[1] = "nodestats"
      BY <2>8 DEF Keys
    <3>2. \A k \in StatsKeys : p # <<k>>
      BY <3>1 DEF StatsKeys
    <3>3. p # <<"node", "hostname">>
      BY <3>1
    <3>4. p \in {<<"node">>, <<"nodestats">>} => u[p] = Object
      <4>1. u[<<"nodestats">>] = Object
        BY <2>1, <2>6, UnderIs DEF u
      <4>2. p # <<"node">>
        BY <3>1
      <4> QED BY <4>1, <4>2
    <3> QED BY <2>10, <3>2, <3>3, <3>4 DEF WellFormed
  <2>12. StatsMember(doc) = u
    BY <1>2 DEF StatsMember, u, h, stats
  <2> QED BY <1>2, <2>7, <2>8, <2>11, <2>12 DEF AllWell, h, stats
<1> QED BY <1>1, <1>2

\* A single node is shown as the one member of a cluster, with its statistics; what else is
\* in the report stays.
LEMMA CompatIs ==
    ASSUME NEW doc, IsDoc(doc), AllWell(doc), IsSingle(doc)
    PROVE  LET new == compatibleSingleNode(doc)
           IN  /\ IsDoc(new) /\ AllWell(new) /\ Keys(new) = Keys(doc)
               /\ \A p \in Paths : p[1] \notin {"node", "nodestats"} =>
                    (p \in DOMAIN new <=> p \in DOMAIN doc) /\ (p \in DOMAIN new => new[p] = doc[p])
               /\ Part(new, "node") = Under(Hostname(Part(doc, "node")), InfoOf(Part(doc, "node")))
               /\ "nodestats" \in Keys(doc) =>
                    Part(new, "nodestats") = Under(Hostname(Part(doc, "node")), StatsOf(doc))
<1> DEFINE a == Only(doc, Keys(doc) \ {"node", "nodestats"})
           n == NodeMember(doc)
           s == StatsMember(doc)
           m == Join(n, s)
           new == Join(a, m)
<1>1. compatibleSingleNode(doc) = new
    BY CompatForm
<1>2. /\ IsDoc(a) /\ Keys(a) = Keys(doc) \cap (Keys(doc) \ {"node", "nodestats"})
      /\ DOMAIN a = {p \in DOMAIN doc : p[1] \in Keys(doc) \ {"node", "nodestats"}}
      /\ \A p \in DOMAIN a : a[p] = doc[p]
    BY OnlyIs
<1>3. /\ IsDoc(n) /\ Keys(n) = {"node"} /\ AllWell(n)
      /\ Part(n, "node") = Under(Hostname(Part(doc, "node")), InfoOf(Part(doc, "node")))
    BY NodeMemberIs
<1>4. /\ IsDoc(s) /\ Keys(s) = Keys(doc) \cap {"nodestats"} /\ AllWell(s)
      /\ "nodestats" \in Keys(doc) => Part(s, "nodestats") = Under(Hostname(Part(doc, "node")), StatsOf(doc))
    BY StatsMemberIs
<1> HIDE DEF a, n, s
<1>5. Keys(n) \cap Keys(s) = {} /\ Keys(a) = Keys(doc) \ {"node", "nodestats"}
    BY <1>2, <1>3, <1>4
<1>6. /\ DOMAIN m = DOMAIN n \cup DOMAIN s /\ IsDoc(m) /\ Keys(m) = Keys(n) \cup Keys(s)
      /\ \A p \in DOMAIN n : m[p] = n[p]
      /\ \A p \in DOMAIN s : m[p] = s[p]
    BY <1>3, <1>4, <1>5, JoinIs
<1>7. "node" \in JsonKeys /\ "nodestats" \in JsonKeys
    BY CodeKeys
<1>8. Part(m, "node") = Part(n, "node") /\ Part(m, "nodestats") = Part(s, "nodestats")
  <2>1. "node" \notin Keys(s) /\ "nodestats" \notin Keys(n)
    BY <1>3, <1>4
  <2> QED BY <1>3, <1>4, <1>5, <1>7, <2>1, PartJoin
<1> HIDE DEF m
<1>9. Keys(a) \cap Keys(m) = {} /\ "node" \notin Keys(a) /\ "nodestats" \notin Keys(a)
    BY <1>3, <1>4, <1>5, <1>6
<1>10. /\ DOMAIN new = DOMAIN a \cup DOMAIN m /\ IsDoc(new) /\ Keys(new) = Keys(a) \cup Keys(m)
       /\ \A p \in DOMAIN a : new[p] = a[p]
       /\ \A p \in DOMAIN m : new[p] = m[p]
  <2>1. IsDoc(a) /\ IsDoc(m) /\ Keys(a) \cap Keys(m) = {}
    BY <1>2, <1>6, <1>9
  <2> QED BY ONLY <2>1, JoinIs
<1>11. Part(new, "node") = Part(m, "node") /\ Part(new, "nodestats") = Part(m, "nodestats")
    BY <1>2, <1>6, <1>7, <1>9, PartJoin
<1> HIDE DEF new
<1>12. Keys(new) = Keys(doc)
    BY <1>3, <1>4, <1>5, <1>6, <1>10 DEF IsSingle
<1>13. AllWell(new)
    BY <1>2, <1>3, <1>4, <1>6, <1>10 DEF AllWell
<1>14. ASSUME NEW p \in Paths, p[1] \notin {"node", "nodestats"}
       PROVE  (p \in DOMAIN new <=> p \in DOMAIN doc) /\ (p \in DOMAIN new => new[p] = doc[p])
  <2>1. p \notin DOMAIN m
    BY <1>3, <1>4, <1>6, <1>14 DEF Keys
  <2>2. p \in DOMAIN doc <=> p \in DOMAIN a
    BY <1>2, <1>14 DEF Keys
  <2> QED BY <1>2, <1>10, <2>1, <2>2
<1> QED BY <1>1, <1>3, <1>4, <1>8, <1>10, <1>11, <1>12, <1>13, <1>14

\* Whatever node, its report is a document of decodable values after View.
LEMMA CompatDoc ==
    ASSUME NEW doc, IsDoc(doc), AllWell(doc)
    PROVE  LET new == compatibleSingleNode(doc)
           IN  /\ IsDoc(new) /\ AllWell(new) /\ Keys(new) = Keys(doc)
               /\ <<"apps">> \in DOMAIN new <=> <<"apps">> \in DOMAIN doc
               /\ <<"apps">> \in DOMAIN doc => new[<<"apps">>] = doc[<<"apps">>]
<1>1. CASE ~IsSingle(doc)
    BY <1>1, CompatForm
<1>2. CASE IsSingle(doc)
  <2> DEFINE new == compatibleSingleNode(doc)
  <2>1. /\ IsDoc(new) /\ AllWell(new) /\ Keys(new) = Keys(doc)
        /\ \A p \in Paths : p[1] \notin {"node", "nodestats"} =>
             (p \in DOMAIN new <=> p \in DOMAIN doc) /\ (p \in DOMAIN new => new[p] = doc[p])
    BY <1>2, CompatIs
  <2> HIDE DEF new
  <2>2. <<"apps">> \in Paths /\ <<"apps">>[1] = "apps"
    BY CodeKeys, OneKey
  <2>3. (<<"apps">> \in DOMAIN new <=> <<"apps">> \in DOMAIN doc)
            /\ (<<"apps">> \in DOMAIN new => new[<<"apps">>] = doc[<<"apps">>])
    BY <2>1, <2>2
  <2> QED BY <2>1, <2>3 DEF new
<1> QED BY <1>1, <1>2

\* The merge of two reports.
LEMMA MergeWell ==
    ASSUME NEW left, NEW right, IsDoc(left), IsDoc(right), AllWell(left), AllWell(right)
    PROVE  /\ IsDoc(Merge(left, right)) /\ AllWell(Merge(left, right))
           /\ \A k \in Keys(right) : k \in Keys(Merge(left, right)) /\ Merge(left, right)[<<k>>] = right[<<k>>]
           /\ \A k : k \notin Keys(right) =>
                /\ k \in Keys(Merge(left, right)) <=> k \in Keys(left)
                /\ k \in Keys(left) => Merge(left, right)[<<k>>] = left[<<k>>]
<1> DEFINE m == Merge(left, right)
<1>1. /\ DOMAIN m = DOMAIN right \cup Kept(left, right)
      /\ \A p \in DOMAIN m : m[p] = IF p \in DOMAIN right THEN right[p] ELSE left[p]
    BY DEF Merge
<1>2. IsDoc(m)
    BY MergeDoc
<1> HIDE DEF m
<1>3. AllWell(m)
    BY <1>1 DEF AllWell, Kept
<1>4. ASSUME NEW k \in Keys(right) PROVE k \in Keys(m) /\ m[<<k>>] = right[<<k>>]
    BY <1>1, <1>2, <1>4, KeyPath
<1>5. ASSUME NEW k, k \notin Keys(right)
      PROVE  (k \in Keys(m) <=> k \in Keys(left)) /\ (k \in Keys(left) => m[<<k>>] = left[<<k>>])
  <2>1. <<k>> \notin DOMAIN right
    BY <1>5, KeyPath
  <2>2. <<k>> \in DOMAIN m => <<k>> \in DOMAIN left
    BY <1>1, <2>1 DEF Kept
  <2>3. ASSUME <<k>> \in DOMAIN left PROVE <<k>> \in DOMAIN m /\ m[<<k>>] = left[<<k>>]
    <3>1. k \in JsonKeys
        BY <2>3, KeyPath
    <3>2. Upto(<<k>>) = {<<k>>}
        BY <3>1, OneKey, UptoDownIs
    <3>3. <<k>> \in Kept(left, right)
        BY <2>1, <2>3, <3>2 DEF Kept
    <3> QED BY <1>1, <2>1, <3>3
  <2> QED BY <1>2, <2>2, <2>3, KeyPath
<1> QED BY <1>2, <1>3, <1>4, <1>5 DEF m

-----------------------------------------------------------------------------
(* The applications a node reports                                         *)

EncodedAll(list) == [i \in DOMAIN list |-> Encoded(list[i])]
DecodedAll(list) == [i \in DOMAIN list |-> Decoded(list[i])]

\* A list of objects that have some of an AppInfo's fields, and one of those that have all.
IsList(list) ==
    /\ list = [i \in DOMAIN list |-> list[i]]
    /\ \A i \in DOMAIN list :
        DOMAIN list[i] \subseteq AppFields /\ list[i] = [f \in DOMAIN list[i] |-> list[i][f]]
IsFull(list) == IsList(list) /\ \A i \in DOMAIN list : DOMAIN list[i] = AppFields

\* The list in the report is the one that was set or reported last, as it is or as JSON.
AppsInv ==
    /\ IsFull(infos)
    /\ "apps" \in typed => "apps" \in Keys(report)
    /\ "apps" \in Keys(report) => report[<<"apps">>] # Object
    /\ "apps" \in typed => AppList(report, "apps") = infos
    /\ "apps" \notin typed =>
        IsList(AppList(report, "apps")) /\ infos = DecodedAll(AppList(report, "apps"))

ViewInv == IsDoc(report) /\ AllWell(report) /\ AppsInv

\* The lists that are set and reported.
LEMMA ListIs ==
    ASSUME NEW list
    PROVE  list \in Seq(Entries) => IsList(list)
<1> SUFFICES ASSUME list \in Seq(Entries) PROVE IsList(list)
    OBVIOUS
<1>1. list = [i \in DOMAIN list |-> list[i]] /\ \A i \in DOMAIN list : list[i] \in Entries
    OBVIOUS
<1>2. \A e \in Entries : DOMAIN e \subseteq AppFields /\ e = [f \in DOMAIN e |-> e[f]]
    BY DEF Entries, Infos, AppFields
<1> QED BY <1>1, <1>2 DEF IsList

LEMMA InfosAre ==
    ASSUME NEW list \in Seq(Infos)
    PROVE  IsFull(list)
<1>1. list = [i \in DOMAIN list |-> list[i]] /\ \A i \in DOMAIN list : list[i] \in Infos
    OBVIOUS
<1>2. \A e \in Infos : DOMAIN e = AppFields /\ e = [f \in DOMAIN e |-> e[f]]
    BY DEF Infos
<1> QED BY <1>1, <1>2 DEF IsList, IsFull

\* What is decoded has all fields; what is encoded is decoded to what it was.
LEMMA DecodedIs ==
    ASSUME NEW list, IsList(list)
    PROVE  /\ IsFull(DecodedAll(list))
           /\ (\A i \in DOMAIN list : DOMAIN list[i] = AppFields) => DecodedAll(list) = list
           /\ \A i \in DOMAIN list : DOMAIN list[i] # AppFields => Blank \in Range(DecodedAll(list)[i])
<1> DEFINE d == DecodedAll(list)
<1>1. DOMAIN d = DOMAIN list /\ d = [i \in DOMAIN list |-> d[i]] /\ \A i \in DOMAIN list : d[i] = Decoded(list[i])
    BY DEF DecodedAll
<1>2. \A e : DOMAIN Decoded(e) = AppFields /\ Decoded(e) = [f \in AppFields |-> Decoded(e)[f]]
    BY DEF Decoded
<1> HIDE DEF d
<1>3. IsFull(d)
    BY <1>1, <1>2 DEF IsFull, IsList
<1>4. ASSUME \A i \in DOMAIN list : DOMAIN list[i] = AppFields PROVE d = list
  <2>1. ASSUME NEW i \in DOMAIN list PROVE d[i] = list[i]
    <3>1. DOMAIN list[i] = AppFields /\ list[i] = [f \in AppFields |-> list[i][f]]
        BY <1>4 DEF IsList
    <3>2. Decoded(list[i]) = [f \in AppFields |-> list[i][f]]
        BY <3>1 DEF Decoded
    <3> QED BY <1>1, <3>1, <3>2
  <2>2. list = [i \in DOMAIN list |-> list[i]]
    BY DEF IsList
  <2> QED BY <1>1, <2>1, <2>2
<1>5. ASSUME NEW i \in DOMAIN list, DOMAIN list[i] # AppFields PROVE Blank \in Range(d[i])
  <2>1. PICK f \in AppFields : f \notin DOMAIN list[i]
    BY <1>5 DEF IsList
  <2>2. Decoded(list[i])[f] = Blank
    BY <2>1 DEF Decoded
  <2> QED BY <1>1, <1>2, <2>1, <2>2 DEF Range
<1> QED BY <1>3, <1>4, <1>5 DEF d

LEMMA EncodedIs ==
    ASSUME NEW list, IsFull(list)
    PROVE  IsList(EncodedAll(list)) /\ DecodedAll(EncodedAll(list)) = list
<1> DEFINE e == EncodedAll(list)
<1>1. DOMAIN e = DOMAIN list /\ e = [i \in DOMAIN list |-> e[i]] /\ \A i \in DOMAIN list : e[i] = Encoded(list[i])
    BY DEF EncodedAll
<1>2. \A x : DOMAIN Encoded(x) \subseteq AppFields /\ Encoded(x) = [f \in DOMAIN Encoded(x) |-> Encoded(x)[f]]
    BY DEF Encoded
<1> HIDE DEF e
<1>3. IsList(e)
    BY <1>1, <1>2 DEF IsList
<1>4. ASSUME NEW i \in DOMAIN list PROVE Decoded(e[i]) = list[i]
  <2> DEFINE x == list[i]
  <2>1. x = [f \in AppFields |-> x[f]]
    BY DEF IsFull, IsList
  <2> HIDE DEF x
  <2>2. DOMAIN Encoded(x) = {f \in AppFields : x[f] # Blank} /\ \A f \in DOMAIN Encoded(x) : Encoded(x)[f] = x[f]
    BY DEF Encoded
  <2>3. Decoded(Encoded(x)) = [f \in AppFields |-> x[f]]
    BY <2>2 DEF Decoded
  <2> QED BY <1>1, <2>1, <2>3 DEF x
<1>5. list = [i \in DOMAIN list |-> list[i]]
    BY DEF IsFull, IsList
<1>6. DecodedAll(e) = list
    BY <1>1, <1>4, <1>5 DEF DecodedAll
<1> QED BY <1>3, <1>6 DEF e

\* What is merged of a report: all, or a part of it.
LEMMA PartWell ==
    ASSUME NEW doc \in Reports, IsDoc(report), NEW part, part = doc \/ part \in Parts(report, doc)
    PROVE  /\ IsDoc(part) /\ AllWell(part)
           /\ "apps" \in Keys(part) => part[<<"apps">>] # Object /\ IsList(AppList(part, "apps"))
<1>1. /\ IsDoc(doc) /\ AllWell(doc)
      /\ "apps" \in Keys(doc) => doc[<<"apps">>] # Object /\ IsList(AppList(doc, "apps"))
    BY ReportsAssumption, ListIs DEF AllWell
<1>2. CASE part \in Parts(report, doc)
  <2>1. /\ IsDoc(part) /\ DOMAIN part \subseteq DOMAIN doc
        /\ \A p \in DOMAIN part : part[p] = doc[p]
    BY <1>1, <1>2, PartsDoc
  <2>2. AllWell(part)
    BY <1>1, <2>1 DEF AllWell
  <2>3. ASSUME "apps" \in Keys(part) PROVE "apps" \in Keys(doc) /\ part[<<"apps">>] = doc[<<"apps">>]
    <3>1. <<"apps">> \in DOMAIN part
        BY <2>1, <2>3, KeyPath
    <3> QED BY <1>1, <2>1, <3>1, KeyPath
  <2>4. ASSUME "apps" \in Keys(part) PROVE part[<<"apps">>] # Object /\ IsList(AppList(part, "apps"))
    BY <1>1, <2>3, <2>4 DEF AppList
  <2> QED BY <2>1, <2>2, <2>4
<1> QED BY <1>1, <1>2

\* A report is merged, whole or in part.
LEMMA MergesApps ==
    ASSUME ViewInv, NEW part, IsDoc(part), AllWell(part),
           "apps" \in Keys(part) => part[<<"apps">>] # Object /\ IsList(AppList(part, "apps")),
           report' = Merge(report, part), Merges(part)
    PROVE  ViewInv'
<1>1. /\ IsDoc(report') /\ AllWell(report')
      /\ \A k \in Keys(part) : k \in Keys(report') /\ report'[<<k>>] = part[<<k>>]
      /\ \A k : k \notin Keys(part) =>
                /\ k \in Keys(report') <=> k \in Keys(report)
                /\ k \in Keys(report) => report'[<<k>>] = report[<<k>>]
    BY MergeWell DEF ViewInv
<1>2. CASE "apps" \in Keys(part)
  <2>1. "apps" \in Keys(report') /\ report'[<<"apps">>] = part[<<"apps">>] /\ "apps" \notin typed'
    BY <1>1, <1>2 DEF Merges
  <2>2. infos' = DecodedAll(AppList(part, "apps")) /\ AppList(report', "apps") = AppList(part, "apps")
    BY <1>2, <2>1 DEF Merges, AppList, DecodedAll
  <2>3. IsFull(infos')
    BY <1>2, <2>2, DecodedIs
  <2>4. AppsInv'
    BY <1>2, <2>1, <2>2, <2>3 DEF AppsInv
  <2> QED BY <1>1, <2>4 DEF ViewInv
<1>3. CASE "apps" \notin Keys(part)
  <2>1. /\ "apps" \in Keys(report') <=> "apps" \in Keys(report)
        /\ "apps" \in Keys(report) => report'[<<"apps">>] = report[<<"apps">>]
        /\ "apps" \in typed' <=> "apps" \in typed
        /\ infos' = infos
    BY <1>1, <1>3 DEF Merges
  <2>2. AppList(report', "apps") = AppList(report, "apps")
    BY <2>1 DEF AppList
  <2>3. AppsInv'
    BY <2>1, <2>2 DEF AppsInv, ViewInv
  <2> QED BY <1>1, <2>3 DEF ViewInv
<1> QED BY <1>2, <1>3

\* A list of applications may be anything.
LEMMA AppsWell ==
    ASSUME NEW v
    PROVE  WellFormed(<<"apps">>, v)
<1>1. Len(<<"apps">>) = 1
    OBVIOUS
<1>2. ~IsAmount(<<"apps">>)
    BY <1>1 DEF IsAmount
<1>3. \A k \in StatsKeys : <<"apps">> # <<k>>
    BY DEF StatsKeys
<1>4. <<"apps">> # <<"node", "hostname">>
    OBVIOUS
<1> QED BY <1>2, <1>3, <1>4 DEF WellFormed

\* Each of the other calls keeps the applications.
LEMMA SetApps ==
    ASSUME ViewInv, NEW list \in InfoLists, SetAppInfos(list)
    PROVE  ViewInv'
<1> DEFINE a == Only(report, Keys(report) \ {"apps"})
           b == Put("apps", <<"leaf", list>>)
<1>1. report' = Join(a, b) /\ "apps" \in typed' /\ infos' = list
    BY DEF SetAppInfos
<1>2. "apps" \in JsonKeys
    BY CodeKeys
<1>3. /\ IsDoc(a) /\ Keys(a) = Keys(report) \cap (Keys(report) \ {"apps"})
      /\ DOMAIN a = {p \in DOMAIN report : p[1] \in Keys(report) \ {"apps"}}
      /\ \A p \in DOMAIN a : a[p] = report[p]
    BY OnlyIs DEF ViewInv
<1>4. IsDoc(b) /\ Keys(b) = {"apps"} /\ DOMAIN b = {<<"apps">>} /\ b[<<"apps">>] = <<"leaf", list>>
    BY <1>2, OneIs
<1> HIDE DEF a, b
<1>5. IsDoc(a) /\ IsDoc(b) /\ Keys(a) \cap Keys(b) = {}
    BY <1>3, <1>4
<1>6. /\ DOMAIN Join(a, b) = DOMAIN a \cup DOMAIN b /\ IsDoc(Join(a, b)) /\ Keys(Join(a, b)) = Keys(a) \cup Keys(b)
      /\ \A p \in DOMAIN a : Join(a, b)[p] = a[p]
      /\ \A p \in DOMAIN b : Join(a, b)[p] = b[p]
    BY ONLY <1>5, JoinIs
<1>7. "apps" \in Keys(report') /\ report'[<<"apps">>] = <<"leaf", list>>
    BY <1>1, <1>4, <1>6
<1>9. AllWell(report')
  <2>1. AllWell(a)
    BY <1>3 DEF AllWell, ViewInv
  <2> QED BY <1>1, <1>4, <1>6, <2>1, AppsWell DEF AllWell
<1>10. AppsInv'
  <2>1. IsFull(list)
    BY ReportsAssumption, InfosAre
  <2>2. AppList(report', "apps") = list
    BY <1>7 DEF AppList
  <2>3. report'[<<"apps">>] # Object
    BY <1>7 DEF Object
  <2> QED BY <1>1, <1>7, <2>1, <2>2, <2>3 DEF AppsInv
<1> QED BY <1>1, <1>6, <1>9, <1>10 DEF ViewInv

LEMMA ReloadApps ==
    ASSUME ViewInv, Reload
    PROVE  ViewInv'
<1>1. CASE "apps" \notin typed
  <2>1. report' = report /\ "apps" \notin typed' /\ infos' = infos
    BY <1>1 DEF Reload
  <2> QED BY <1>1, <2>1 DEF ViewInv, AppsInv
<1>2. CASE "apps" \in typed
  <2> DEFINE v == <<"leaf", [i \in DOMAIN report[<<"apps">>][2] |-> Encoded(report[<<"apps">>][2][i])]>>
  <2>1. report' = [report EXCEPT ![<<"apps">>] = v] /\ typed' = {} /\ infos' = infos
    BY <1>2 DEF Reload
  <2> HIDE DEF v
  <2>2. "apps" \in Keys(report) /\ <<"apps">> \in DOMAIN report /\ report[<<"apps">>] # Object
    BY <1>2, KeyPath DEF ViewInv, AppsInv
  <2>3. /\ DOMAIN report' = DOMAIN report /\ report' = [p \in DOMAIN report' |-> report'[p]]
        /\ report'[<<"apps">>] = v
        /\ \A p \in DOMAIN report : p # <<"apps">> => report'[p] = report[p]
    BY <2>1, <2>2
  <2>4. IsDoc(report')
    <3>1. ASSUME NEW p \in DOMAIN report', NEW q \in Above(p)
          PROVE  q \in DOMAIN report' /\ report'[q] = Object
        BY <2>2, <2>3, <3>1 DEF IsDoc, ViewInv
    <3> QED BY <2>3, <3>1 DEF IsDoc, ViewInv
  <2>5. AllWell(report')
    BY <2>3, AppsWell DEF AllWell, ViewInv
  <2>6. "apps" \in Keys(report')
    BY <2>2, <2>3, <2>4, KeyPath
  <2>7. AppList(report, "apps") = infos
    BY <1>2 DEF AppsInv, ViewInv
  <2>8. report[<<"apps">>][2] = infos
    BY <2>2, <2>7 DEF AppList
  <2>9. AppList(report', "apps") = EncodedAll(infos')
    BY <2>1, <2>3, <2>6, <2>8 DEF AppList, EncodedAll, v
  <2>10. report'[<<"apps">>] # Object
    BY <2>3 DEF v, Object
  <2>11. AppsInv'
    BY <2>1, <2>9, <2>10, EncodedIs DEF AppsInv, ViewInv
  <2> QED BY <2>4, <2>5, <2>11 DEF ViewInv
<1> QED BY <1>1, <1>2

LEMMA ViewApps ==
    ASSUME ViewInv, ViewNode
    PROVE  ViewInv'
<1>1. /\ report' = compatibleSingleNode(report) /\ infos' = infos
      /\ "apps" \in typed' <=> "apps" \in typed
    BY DEF ViewNode
<1>2. /\ IsDoc(report') /\ AllWell(report') /\ Keys(report') = Keys(report)
      /\ <<"apps">> \in DOMAIN report => report'[<<"apps">>] = report[<<"apps">>]
    BY <1>1, CompatDoc DEF ViewInv
<1>3. "apps" \in Keys(report) => report'[<<"apps">>] = report[<<"apps">>]
    BY <1>2, KeyPath DEF ViewInv
<1>4. AppList(report', "apps") = AppList(report, "apps")
    BY <1>2, <1>3 DEF AppList
<1> QED BY <1>1, <1>2, <1>3, <1>4 DEF ViewInv, AppsInv

LEMMA NoApps == IsFull(<<>>) /\ IsList(<<>>) /\ DecodedAll(<<>>) = <<>>
<1>1. <<>> \in Seq(Infos)
    BY EmptySeq
<1>2. IsFull(<<>>) /\ IsList(<<>>)
    BY <1>1, InfosAre DEF IsFull
<1> QED BY <1>2, DecodedIs DEF IsFull

LEMMA ViewInvInit == ViewInit => ViewInv
<1> SUFFICES ASSUME ViewInit PROVE ViewInv
    OBVIOUS
<1>1. report = EmptyDoc /\ typed = {} /\ infos = <<>>
    BY DEF ViewInit, ShadowInit
<1>2. IsDoc(EmptyDoc) /\ Keys(EmptyDoc) = {} /\ DOMAIN EmptyDoc = {}
    BY EmptyIs
<1>3. AppsInv
    BY <1>1, <1>2, NoApps DEF AppsInv, AppList
<1> QED BY <1>1, <1>2, <1>3 DEF ViewInv, AllWell

LEMMA ViewInvNext == ViewInv /\ [ViewNext]_viewVars => ViewInv'
<1> SUFFICES ASSUME ViewInv, [ViewNext]_viewVars PROVE ViewInv'
    OBVIOUS
<1>1. CASE TickView
    BY <1>1 DEF TickView, shadowVars, ViewInv, AppsInv
<1>2. CASE ViewNode
    BY <1>2, ViewApps
<1>3. CASE Reload
    BY <1>3, ReloadApps
<1>4. ASSUME NEW doc \in Reports, ReportNode(doc) PROVE ViewInv'
  <2>1. report' = Merge(report, doc) /\ Merges(doc)
    BY <1>4 DEF ReportNode, MergeReport
  <2> QED BY <2>1, PartWell, MergesApps DEF ViewInv
<1>5. ASSUME NEW doc \in Reports, NEW part \in Parts(report, doc), ReportNodeFails(doc, part) PROVE ViewInv'
  <2>1. report' = Merge(report, part) /\ Merges(part)
    BY <1>5 DEF ReportNodeFails, MergeReportFails
  <2> QED BY <2>1, PartWell, MergesApps DEF ViewInv
<1>6. ASSUME NEW doc \in Reports, ReportNodePanics(doc) PROVE ViewInv'
  <2>1. report' = EmptyDoc /\ typed' = {} /\ infos' = <<>>
    BY <1>6 DEF ReportNodePanics
  <2>2. AppsInv'
    BY <2>1, EmptyIs, NoApps DEF AppsInv, AppList
  <2> QED BY <2>1, <2>2, EmptyIs DEF ViewInv, AllWell
<1>7. ASSUME NEW list \in InfoLists, SetAppInfos(list) PROVE ViewInv'
    BY <1>7, SetApps
<1>8. CASE UNCHANGED viewVars
    BY <1>8 DEF viewVars, shadowVars, ViewInv, AppsInv
<1> QED BY <1>1, <1>2, <1>3, <1>4, <1>5, <1>6, <1>7, <1>8 DEF ViewNext

\* The applications that were set or reported last survive every sequence of reports, views
\* and reloads, unless they are JSON that leaves out a field (SetAppInfos, AppInfos, Merge and
\* View of src/spec/v1/node.go).
THEOREM AppsSurvive == ViewSpec => []InfosSurvive
<1>1. ViewInv => InfosSurvive
  <2> SUFFICES ASSUME ViewInv PROVE InfosSurvive
    OBVIOUS
  <2> DEFINE list == AppList(report, "apps")
             got == getAppInfos(report, "apps" \in typed)
  <2>1. /\ got.val = list
        /\ got.panics <=> "apps" \notin typed /\ \E i \in DOMAIN list : DOMAIN list[i] # AppFields
    BY DEF getAppInfos
  <2>2. IF "apps" \in typed THEN list = infos ELSE IsList(list) /\ infos = DecodedAll(list)
    BY DEF ViewInv, AppsInv
  <2> HIDE DEF list, got
  <2>3. CASE "apps" \in typed
    BY <2>1, <2>2, <2>3 DEF InfosSurvive, got
  <2>4. CASE "apps" \notin typed
    <3>1. DOMAIN infos = DOMAIN list
        BY <2>2, <2>4 DEF DecodedAll
    <3>2. ASSUME NEW i \in DOMAIN list, DOMAIN list[i] # AppFields PROVE Blank \in Range(infos[i])
        BY <2>2, <2>4, <3>2, DecodedIs
    <3>3. (\A i \in DOMAIN list : DOMAIN list[i] = AppFields) => infos = list
        BY <2>2, <2>4, DecodedIs
    <3> QED BY <2>1, <2>4, <3>1, <3>2, <3>3 DEF InfosSurvive, got
  <2> QED BY <2>3, <2>4
<1> QED BY <1>1, ViewInvInit, ViewInvNext, PTL DEF ViewSpec

-----------------------------------------------------------------------------
(* Shares of the capacity                                                  *)

\* A quantity in the statistics of a member.
LEMMA AmountIs ==
    ASSUME NEW doc, IsDoc(doc), AllWell(doc), NEW h \in JsonKeys, NEW f \in {"usage", "capacity"},
           NEW r \in Keys(Part(Part(Part(doc, "nodestats"), h), f))
    PROVE  LET v == Part(Part(Part(doc, "nodestats"), h), f)[<<r>>]
           IN  v[1] = "leaf" /\ v[2] \in Quantities /\ (r = "cpu" => v[2].u # "Ki")
<1> DEFINE a == Part(doc, "nodestats")
           b == Part(a, h)
           c == Part(b, f)
           x == <<f>> \o <<r>>
           y == <<h>> \o x
           z == <<"nodestats">> \o y
<1>1. "nodestats" \in JsonKeys /\ f \in JsonKeys
    BY CodeKeys
<1>2. /\ IsDoc(a) /\ DOMAIN a = {p \in Paths : <<"nodestats">> \o p \in DOMAIN doc}
      /\ \A p \in DOMAIN a : a[p] = doc[<<"nodestats">> \o p]
    BY <1>1, PartIs
<1> HIDE DEF a
<1>3. /\ IsDoc(b) /\ DOMAIN b = {p \in Paths : <<h>> \o p \in DOMAIN a}
      /\ \A p \in DOMAIN b : b[p] = a[<<h>> \o p]
    BY <1>2, PartIs
<1> HIDE DEF b
<1>4. /\ IsDoc(c) /\ DOMAIN c = {p \in Paths : <<f>> \o p \in DOMAIN b}
      /\ \A p \in DOMAIN c : c[p] = b[<<f>> \o p]
    BY <1>1, <1>3, PartIs
<1>5. r \in Keys(c)
    BY DEF a, b, c
<1> HIDE DEF c
<1>6. <<r>> \in DOMAIN c /\ r \in JsonKeys
    BY <1>4, <1>5, KeyPath
<1>7. <<r>> \in Paths /\ Len(<<r>>) = 1 /\ <<r>>[1] = r
    BY <1>6, OneKey
<1>8. x \in DOMAIN b /\ c[<<r>>] = b[x]
    BY <1>4, <1>6
<1>9. x \in Paths /\ Len(x) = Len(<<r>>) + 1 /\ x[1] = f /\ \A i \in 1 .. Len(<<r>>) : x[i + 1] = <<r>>[i]
    BY <1>1, <1>7, PathDown
<1>10. Len(x) = 2 /\ x[2] = r
  <2> HIDE DEF x
  <2>1. 1 \in 1 .. Len(<<r>>) /\ 1 + 1 = 2
    BY <1>7
  <2>2. x[1 + 1] = <<r>>[1]
    BY <1>9, <2>1
  <2>3. x[2] = <<r>>[1]
    BY ONLY <2>1, <2>2
  <2>4. Len(x) = 1 + 1
    BY <1>7, <1>9
  <2> QED BY <1>7, <2>1, <2>3, <2>4
<1> HIDE DEF x
<1>11. y \in DOMAIN a /\ b[x] = a[y]
    BY <1>3, <1>8
<1>12. y \in Paths /\ Len(y) = Len(x) + 1 /\ y[1] = h /\ \A i \in 1 .. Len(x) : y[i + 1] = x[i]
    BY <1>9, PathDown
<1> HIDE DEF y
<1>13. z \in DOMAIN doc /\ a[y] = doc[z]
    BY <1>2, <1>11
<1>14. z \in Paths /\ Len(z) = Len(y) + 1 /\ z[1] = "nodestats" /\ \A i \in 1 .. Len(y) : z[i + 1] = y[i]
    BY <1>1, <1>12, PathDown
<1> HIDE DEF z
<1>15. Len(z) = 4 /\ z[3] = f /\ z[4] = r
  <2>1. Len(y) = 3 /\ 1 \in 1 .. Len(x) /\ 2 \in 1 .. Len(x)
    BY <1>10, <1>12
  <2>2. 2 \in 1 .. Len(y) /\ 3 \in 1 .. Len(y) /\ Len(z) = 4
    BY <1>14, <2>1
  <2>3. 1 + 1 = 2 /\ 2 + 1 = 3 /\ 3 + 1 = 4
    OBVIOUS
  <2>4. y[1 + 1] = x[1] /\ y[2 + 1] = x[2]
    BY <1>12, <2>1
  <2>5. z[2 + 1] = y[2] /\ z[3 + 1] = y[3]
    BY <1>14, <2>2
  <2>6. z[3] = x[1] /\ z[4] = x[2]
    BY ONLY <2>3, <2>4, <2>5
  <2> QED BY <1>9, <1>10, <2>2, <2>6
<1>16. IsAmount(z)
    BY <1>14, <1>15 DEF IsAmount
<1>17. doc[z][1] = "leaf" /\ doc[z][2] \in Quantities /\ (z[Len(z)] = "cpu" => doc[z][2].u # "Ki")
    BY <1>13, <1>16 DEF AllWell, WellFormed
<1>18. c[<<r>>] = doc[z] /\ z[Len(z)] = r
    BY <1>8, <1>11, <1>13, <1>15
<1> QED BY <1>17, <1>18 DEF a, b, c

\* The CPU in thousandths is rounded up.
LEMMA CpuIs ==
    ASSUME NEW q \in Quantities, q.u # "Ki", q.u # "bad"
    PROVE  LET m == populateResource("cpu", q)
           IN  /\ m \in Nat /\ Nano(q) \in Nat
               /\ Milli * m >= Nano(q) /\ Milli * m < Nano(q) + Milli
               /\ q.n # 0 => m # 0
<1>1. q.n \in Nat /\ q.u \in {"n", "m", "1"}
    BY DEF Quantities, Units
<1>2. /\ q.u = "1" => populateResource("cpu", q) = 1000 * q.n
      /\ q.u = "m" => populateResource("cpu", q) = Ceil(1000 * q.n, 1000)
      /\ q.u = "n" => populateResource("cpu", q) = Ceil(1000 * q.n, 1000000000)
    BY <1>1, SMT DEF populateResource, translateQuantityToDecimal, Quantities
<1>3. CASE q.u = "1"
  <2>1. Nano(q) = 1000000000 * q.n
    BY <1>3, SMT DEF Nano, Milli
  <2> QED BY <1>1, <1>2, <1>3, <2>1, SMT DEF Milli
<1>4. CASE q.u = "m"
  <2>1. \A n \in Nat : (1000 * n + 1000 - 1) \div 1000 = n
    BY SMT
  <2>2. populateResource("cpu", q) = q.n
    BY <1>1, <1>2, <1>4, <2>1, SMT DEF Ceil
  <2>3. Nano(q) = 1000000 * q.n
    BY <1>4, SMT DEF Nano, Milli
  <2> QED BY <1>1, <2>2, <2>3, SMT DEF Milli
<1>5. CASE q.u = "n"
  <2>2. Nano(q) = q.n
    BY <1>5, SMT DEF Nano, Milli
  <2> DEFINE m == populateResource("cpu", q)
  <2>3. m = (1000 * q.n + 1000000000 - 1) \div 1000000000
    BY <1>2, <1>5, SMT DEF Ceil
  <2> HIDE DEF m
  <2>4. m \in Nat /\ 1000000 * m >= q.n /\ 1000000 * m < q.n + 1000000
    <3> DEFINE n == q.n
    <3>1. n \in Nat /\ m = (1000 * n + 1000000000 - 1) \div 1000000000
        BY <1>1, <2>3, SMT
    <3> HIDE DEF n
    <3>2. m \in Nat /\ 1000000 * m >= n /\ 1000000 * m < n + 1000000
        BY ONLY <3>1, SMT
    <3> QED BY <3>2, SMT DEF n
  <2>5. q.n # 0 => m # 0
    BY ONLY <1>1, <2>4, SMT
  <2> QED BY <1>1, <2>2, <2>4, <2>5, SMT DEF m, Milli
<1> QED BY <1>1, <1>3, <1>4, <1>5

\* The share that is shown is the one of the code's computation: the fields of the extension
\* are about other resources.
LEMMA PercentIs ==
    ASSUME NEW s, NEW r \in Resources
    PROVE  Stats(s).percent[r][2] =
                processResourcePercent(r, Fields(Part(s, "usage")), Fields(Part(s, "capacity")))
<1> DEFINE usage == Fields(Part(s, "usage"))
           capacity == Fields(Part(s, "capacity"))
           from == FromExtension(Fields(Part(s, "extension")), "percent")
           shares == [x \in Resources |-> <<"leaf", processResourcePercent(x, usage, capacity)>>]
<1>1. Stats(s).percent = Join(from, shares)
    BY DEF Stats
<1>2. \A k \in DOMAIN ExtensionKeys : ExtensionKeys[k][2] \notin Resources
    BY DEF ExtensionKeys, Resources
<1>3. r \notin DOMAIN from
    BY <1>2 DEF FromExtension
<1> HIDE DEF from
<1>4. Join(from, shares)[r] = shares[r]
    BY <1>3 DEF Join
<1> QED BY <1>1, <1>4

\* A full CPU.
LEMMA CpuFull ==
    ASSUME NEW usage, NEW capacity, "cpu" \in DOMAIN usage, "cpu" \in DOMAIN capacity,
           usage["cpu"][2] \in Quantities, capacity["cpu"][2] \in Quantities,
           usage["cpu"][2].u \notin {"Ki", "bad"}, capacity["cpu"][2].u \notin {"Ki", "bad"},
           capacity["cpu"][2].n # 0
    PROVE  LET full == processResourcePercent("cpu", usage, capacity) = <<1, 1>>
           IN  /\ Nano(usage["cpu"][2]) >= Nano(capacity["cpu"][2]) => full
               /\ full => Nano(usage["cpu"][2]) > Nano(capacity["cpu"][2]) - Milli
<1> DEFINE q == usage["cpu"][2]
           t == capacity["cpu"][2]
           u == populateResource("cpu", q)
           total == populateResource("cpu", t)
           nq == Nano(q)
           nt == Nano(t)
           pct == processResourcePercent("cpu", usage, capacity)
<1>1. u \in Nat /\ nq \in Nat /\ Milli * u >= nq /\ Milli * u < nq + Milli
  <2>1. q \in Quantities /\ q.u # "Ki" /\ q.u # "bad"
    BY Zenon
  <2> HIDE DEF q
  <2> QED BY <2>1, CpuIs
<1>2. total \in Nat /\ nt \in Nat /\ Milli * total >= nt /\ Milli * total < nt + Milli /\ total # 0
  <2>1. t \in Quantities /\ t.u # "Ki" /\ t.u # "bad" /\ t.n # 0
    BY Zenon
  <2> HIDE DEF t
  <2>2. total \in Nat /\ nt \in Nat /\ Milli * total >= nt /\ Milli * total < nt + Milli
    BY <2>1, CpuIs
  <2>3. total # 0
    BY <2>1, CpuIs
  <2> QED BY <2>2, <2>3
<1>3. pct = IF total = 0 THEN <<0, 1>> ELSE IF u >= total THEN <<1, 1>> ELSE <<u, total>>
    BY SMT DEF processResourcePercent
<1> HIDE DEF u, total, nq, nt, pct
<1>4. pct = <<1, 1>> <=> u >= total
    BY <1>1, <1>2, <1>3, SMT
<1>5. nq >= nt => u >= total
    BY ONLY <1>1, <1>2, SMT DEF Milli
<1>6. u >= total => nq > nt - Milli
    BY ONLY <1>1, <1>2, SMT DEF Milli
<1> QED BY <1>4, <1>5, <1>6 DEF pct, nq, nt, q, t

\* What View returned shows a status only of a node that is online.
StatusInv ==
    view.known =>
        \A k \in StatsKeys : \A i \in DOMAIN view.apps[k] :
            view.ready = NodeOnline \/ view.apps[k][i].status = Blank

LEMMA ViewStatus ==
    ASSUME NEW rep, IsDoc(rep), AllWell(rep), NEW t, NEW k \in StatsKeys,
           NEW i \in DOMAIN ViewOf(rep, t).apps[k]
    PROVE  ViewOf(rep, t).ready = NodeOnline \/ ViewOf(rep, t).apps[k][i].status = Blank
<1> DEFINE ready == Ready(rep, t)
           list == AppList(rep, k)
<1>1. ViewOf(rep, t).ready = ready /\ ViewOf(rep, t).apps[k] = ShownApps(rep, k, ready)
    BY DEF ViewOf
<1>2. i \in DOMAIN list
    BY <1>1 DEF ShownApps
<1>3. k \in Keys(rep) /\ list = rep[<<k>>][2]
    BY <1>2 DEF AppList
<1>4. "status" \in DOMAIN list[i]
  <2>1. <<k>> \in DOMAIN rep
    BY <1>3, KeyPath
  <2>2. WellFormed(<<k>>, rep[<<k>>])
    BY <2>1 DEF AllWell
  <2> QED BY <1>2, <1>3, <2>2 DEF WellFormed
<1> HIDE DEF ready, list
<1>5. ShownApps(rep, k, ready)[i] =
        [list[i] EXCEPT !.status = IF ready = NodeOnline THEN @ ELSE Blank,
                        !.instances = {translateResourceQuantity(ins) : ins \in @}]
    BY <1>2 DEF ShownApps, list
<1>6. CASE ready # NodeOnline
  <2>1. ShownApps(rep, k, ready)[i].status = Blank
    BY <1>4, <1>5, <1>6
  <2> QED BY <1>1, <2>1
<1> QED BY <1>1, <1>6

LEMMA StatusNext == ViewInv /\ StatusInv /\ [ViewNext]_viewVars => StatusInv'
<1> SUFFICES ASSUME ViewInv, StatusInv, [ViewNext]_viewVars PROVE StatusInv'
    OBVIOUS
<1>1. CASE ViewNode
  <2> DEFINE rep == compatibleSingleNode(report)
  <2>1. IsDoc(rep) /\ AllWell(rep)
    BY CompatDoc DEF ViewInv
  <2>2. view' = IF ViewFails(rep) THEN NoView ELSE ViewOf(rep, now)
    BY <1>1 DEF ViewNode
  <2> HIDE DEF rep
  <2>3. CASE ViewFails(rep)
    BY <2>2, <2>3 DEF StatusInv, NoView
  <2>4. CASE ~ViewFails(rep)
    BY <2>1, <2>2, <2>4, ViewStatus DEF StatusInv
  <2> QED BY <2>3, <2>4
<1>2. CASE view' = view
    BY <1>2 DEF StatusInv
<1>3. CASE view' = NoView
    BY <1>3 DEF StatusInv, NoView
<1> QED BY <1>1, <1>2, <1>3
        DEF ViewNext, viewVars, TickView, Reload, ReportNode, ReportNodeFails, ReportNodePanics, SetAppInfos

\* The shares of a member: decoded, and none of its quantities bad.
LEMMA SharesConsistent ==
    ASSUME NEW doc, IsDoc(doc), AllWell(doc), ~ViewFails(doc), NEW h \in Keys(Part(doc, "nodestats"))
    PROVE  LET s == Part(Part(doc, "nodestats"), h)
               use == Fields(Part(s, "usage"))
               all == Fields(Part(s, "capacity"))
               full == Stats(s).percent["cpu"][2] = <<1, 1>>
           IN  "cpu" \in DOMAIN use \cap DOMAIN all /\ all["cpu"][2].n # 0 =>
                    /\ Nano(use["cpu"][2]) >= Nano(all["cpu"][2]) => full
                    /\ full => Nano(use["cpu"][2]) > Nano(all["cpu"][2]) - Milli
<1> DEFINE s == Part(Part(doc, "nodestats"), h)
           use == Fields(Part(s, "usage"))
           all == Fields(Part(s, "capacity"))
           pct == Stats(s).percent["cpu"][2]
<1> SUFFICES ASSUME "cpu" \in DOMAIN use, "cpu" \in DOMAIN all, all["cpu"][2].n # 0
             PROVE  /\ Nano(use["cpu"][2]) >= Nano(all["cpu"][2]) => pct = <<1, 1>>
                    /\ pct = <<1, 1>> => Nano(use["cpu"][2]) > Nano(all["cpu"][2]) - Milli
    BY Zenon
<1>1. h \in JsonKeys
  <2>1. IsDoc(Part(doc, "nodestats"))
    BY CodeKeys, PartIs
  <2> QED BY <2>1, KeyPath
<1>2. ~BadQuantity(use) /\ ~BadQuantity(all)
    BY Zenon DEF ViewFails
<1>3. /\ "cpu" \in Keys(Part(s, "usage")) /\ use["cpu"] = Part(s, "usage")[<<"cpu">>]
      /\ "cpu" \in Keys(Part(s, "capacity")) /\ all["cpu"] = Part(s, "capacity")[<<"cpu">>]
    BY DEF Fields
<1>4. use["cpu"][2] \in Quantities /\ use["cpu"][2].u # "Ki"
    BY <1>1, <1>3, AmountIs
<1>5. all["cpu"][2] \in Quantities /\ all["cpu"][2].u # "Ki"
    BY <1>1, <1>3, AmountIs
<1>6. use["cpu"][2].u # "bad" /\ all["cpu"][2].u # "bad"
    BY <1>2 DEF BadQuantity, Resources
<1>7. pct = processResourcePercent("cpu", use, all)
    BY PercentIs DEF Resources
<1> HIDE DEF use, all, pct
<1> QED BY <1>4, <1>5, <1>6, <1>7, CpuFull

\* What a view shows is consistent, after every sequence of reports, views and reloads
\* (View, populateNodeStats, processResourcePercent and resetNodeAppStats of
\* src/spec/v1/node.go).
THEOREM ShownConsistent == ViewSpec => []ViewConsistent
<1>1. ViewInit => StatusInv
    BY DEF ViewInit, StatusInv, NoView
<1>2. ViewInv /\ StatusInv => ViewConsistent
  <2> SUFFICES ASSUME ViewInv, StatusInv, view.known, ~ViewFails(report)
               PROVE  ViewConsistent
    BY DEF ViewConsistent
  <2>1. IsDoc(report) /\ AllWell(report)
    BY DEF ViewInv
  <2>2. \A k \in StatsKeys : \A i \in DOMAIN view.apps[k] :
            view.ready = NodeOnline \/ view.apps[k][i].status = Blank
    BY DEF StatusInv
  <2> QED BY <2>1, <2>2, SharesConsistent DEF ViewConsistent
<1> QED BY <1>1, <1>2, ViewInvInit, ViewInvNext, StatusNext, PTL DEF ViewSpec

-----------------------------------------------------------------------------
(* What a report says is shown                                             *)

\* A node is in one of the two shapes.
Shaped(doc) == Single(doc) \/ DecodesAsMembers(Part(doc, "node"))

LEMMA ShapeIs ==
    ASSUME NEW doc, IsDoc(doc)
    PROVE  /\ Single(doc) <=> <<"node", "hostname">> \in DOMAIN doc
           /\ DecodesAsMembers(Part(doc, "node")) <=>
                \A j \in JsonKeys : <<"node", j>> \in DOMAIN doc => doc[<<"node", j>>] = Object
<1> DEFINE node == Part(doc, "node")
<1>1. "node" \in JsonKeys /\ "hostname" \in JsonKeys
    BY CodeKeys
<1>2. \A n \in JsonKeys, j \in JsonKeys :
        /\ j \in Keys(Part(doc, n)) <=> <<n, j>> \in DOMAIN doc
        /\ j \in Keys(Part(doc, n)) => Part(doc, n)[<<j>>] = doc[<<n, j>>]
    BY PartKey
<1>3. \A j \in JsonKeys : /\ j \in Keys(node) <=> <<"node", j>> \in DOMAIN doc
                          /\ j \in Keys(node) => node[<<j>>] = doc[<<"node", j>>]
    BY <1>1, <1>2
<1>4. IsDoc(node)
    BY <1>1, PartIs
<1> HIDE DEF node
<1>5. \A j \in Keys(node) : j \in JsonKeys
    BY <1>4, KeyPath
<1>6. Single(doc) <=> "hostname" \in Keys(node)
    BY DEF Single, node
<1>7. DecodesAsMembers(node) <=> \A j \in Keys(node) : node[<<j>>] = Object
    BY DEF DecodesAsMembers
<1>8. DecodesAsMembers(node) <=>
        \A j \in JsonKeys : <<"node", j>> \in DOMAIN doc => doc[<<"node", j>>] = Object
    BY <1>3, <1>5, <1>7
<1> QED BY <1>1, <1>3, <1>6, <1>8 DEF node

\* Paths of two keys.
LEMMA TwoKeys ==
    ASSUME NEW k \in JsonKeys, NEW j \in JsonKeys
    PROVE  /\ <<k, j>> \in Paths /\ Upto(<<k, j>>) = {<<k>>, <<k, j>>}
<1>1. <<k>> \o <<j>> = <<k, j>>
  <2>1. Append(<<k>>, j) = <<k, j>>
    BY AppendPair
  <2>2. <<k>> \in Seq(JsonKeys)
    BY OneKey
  <2> QED BY <2>1, <2>2, AppendIsConcat
<1>2. <<j>> \in Paths /\ Upto(<<j>>) = {<<j>>}
    BY OneKey, UptoDownIs
<1>3. <<k>> \o <<j>> \in Paths
    BY <1>2, PathDown
<1>4. Upto(<<k>> \o <<j>>) = {<<k>>} \cup {<<k>> \o q : q \in Upto(<<j>>)}
    BY <1>2, UptoDownIs
<1>5. Upto(<<k>> \o <<j>>) = {<<k>>, <<k>> \o <<j>>}
    BY <1>2, <1>4
<1> QED BY <1>1, <1>3, <1>5

\* Merged nodes are in one of the shapes.
LEMMA MergeShape ==
    ASSUME NEW left, NEW right, IsDoc(left), IsDoc(right), Shaped(left), Shaped(right)
    PROVE  Shaped(Merge(left, right))
<1> DEFINE m == Merge(left, right)
           n == <<"node">>
           nh == <<"node", "hostname">>
<1>1. /\ DOMAIN m = DOMAIN right \cup Kept(left, right)
      /\ \A p \in DOMAIN m : m[p] = IF p \in DOMAIN right THEN right[p] ELSE left[p]
    BY DEF Merge
<1>2. IsDoc(m)
    BY MergeDoc
<1> HIDE DEF m
<1>3. "node" \in JsonKeys /\ "hostname" \in JsonKeys
    BY CodeKeys
<1>4. \A j \in JsonKeys : Upto(<<"node", j>>) = {n, <<"node", j>>} /\ n # <<"node", j>>
    BY <1>3, TwoKeys
<1>5. /\ Single(m) <=> nh \in DOMAIN m
      /\ DecodesAsMembers(Part(m, "node")) <=>
            \A j \in JsonKeys : <<"node", j>> \in DOMAIN m => m[<<"node", j>>] = Object
    BY <1>2, ShapeIs
<1>6. /\ Single(left) <=> nh \in DOMAIN left
      /\ DecodesAsMembers(Part(left, "node")) <=>
            \A j \in JsonKeys : <<"node", j>> \in DOMAIN left => left[<<"node", j>>] = Object
    BY ShapeIs
<1>7. /\ Single(right) <=> nh \in DOMAIN right
      /\ DecodesAsMembers(Part(right, "node")) <=>
            \A j \in JsonKeys : <<"node", j>> \in DOMAIN right => right[<<"node", j>>] = Object
    BY ShapeIs
<1>8. SUFFICES ASSUME nh \notin DOMAIN m, NEW j \in JsonKeys, <<"node", j>> \in DOMAIN m
      PROVE  m[<<"node", j>>] = Object
    BY <1>5 DEF Shaped, m
<1>9. nh \notin DOMAIN right
    BY <1>1, <1>8
<1>10. <<"node", j>> \in DOMAIN right => right[<<"node", j>>] = Object
    BY <1>7, <1>9 DEF Shaped
<1>11. ASSUME nh \in DOMAIN left PROVE FALSE
  <2>1. n \in DOMAIN left /\ left[n] = Object
    BY <1>3, <1>4, <1>11, DocPaths
  <2>2. nh \notin Kept(left, right)
    BY <1>1, <1>8
  <2>3. PICK q \in Upto(nh) \cap DOMAIN right : ~Meet(left, right, q)
    BY <1>11, <2>2 DEF Kept
  <2>4. q = n
    BY <1>3, <1>4, <1>9, <2>3
  <2>5. n \in DOMAIN right /\ right[n] # Object
    BY <2>1, <2>3, <2>4 DEF Meet
  <2>6. <<"node", j>> \notin DOMAIN right
    BY <1>4, <2>5, DocPaths
  <2>7. <<"node", j>> \notin Kept(left, right)
    BY <1>4, <2>5 DEF Kept, Meet
  <2> QED BY <1>1, <1>8, <2>6, <2>7
<1>12. <<"node", j>> \in DOMAIN left => left[<<"node", j>>] = Object
    BY <1>6, <1>11 DEF Shaped
<1> QED BY <1>1, <1>8, <1>10, <1>12 DEF Kept

\* When the merge of a report fails, its node was merged as a whole or not at all.
LEMMA PartsNode ==
    ASSUME NEW left, NEW right, IsDoc(left), IsDoc(right), NEW part \in Parts(left, right),
           \A p \in DOMAIN right : p[1] = "node" /\ right[p] = Object => Len(p) + 1 < MaxDepth,
           NEW p \in DOMAIN part, p[1] = "node", NEW r \in DOMAIN right, r[1] = "node"
    PROVE  r \in DOMAIN part
<1>1. PICK q \in AtLimit(left, right) : \E S \in SUBSET Beside(left, right, q) :
        part = Restrict(right, {x \in DOMAIN right : x \in Upto(q) \/ Upto(x) \cap S # {}})
    BY DEF Parts
<1>2. PICK S \in SUBSET Beside(left, right, q) :
        part = Restrict(right, {x \in DOMAIN right : x \in Upto(q) \/ Upto(x) \cap S # {}})
    BY <1>1
<1>3. DOMAIN part = {x \in DOMAIN right : x \in Upto(q) \/ Upto(x) \cap S # {}}
    BY <1>2 DEF Restrict
<1>4. q \in DOMAIN right /\ q \in Paths /\ Len(q) + 1 = MaxDepth /\ right[q] = Object
    BY DocPaths DEF AtLimit, Meet
<1>5. q[1] # "node"
  <2>1. MaxDepth \in Nat
    BY DocsAssumption
  <2> QED BY <1>4, <2>1
<1>6. \A x \in Upto(q) : x[1] # "node"
    BY <1>4, <1>5, PathHead
<1>7. p \in DOMAIN right /\ p \in Paths /\ p \notin Upto(q)
    BY <1>3, <1>6, DocPaths
<1>8. PICK s \in S : s \in Upto(p)
    BY <1>3, <1>7
<1>9. s \in Paths /\ s[1] = "node" /\ Above(s) \subseteq Upto(q)
    BY <1>7, <1>8, PathHead, UptoSelf DEF Beside
<1>10. s = <<"node">>
  <2>1. <<"node">> \in Upto(s)
    BY <1>9, PathHead
  <2>2. <<"node">>[1] = "node"
    OBVIOUS
  <2> QED BY <1>6, <1>9, <2>1, <2>2 DEF Above
<1>11. <<"node">> \in Upto(r)
    BY DocPaths, PathHead
<1> QED BY <1>3, <1>8, <1>10, <1>11

LEMMA PartsShape ==
    ASSUME NEW doc \in Reports, NEW left, IsDoc(left), NEW part \in Parts(left, doc)
    PROVE  Shaped(part)
<1>1. /\ IsDoc(doc) /\ Shaped(doc)
      /\ \A p \in DOMAIN doc : p[1] = "node" /\ doc[p] = Object => Len(p) + 1 < MaxDepth
    BY ReportsAssumption DEF Shaped
<1>2. /\ IsDoc(part) /\ DOMAIN part \subseteq DOMAIN doc
      /\ \A p \in DOMAIN part : part[p] = doc[p]
    BY <1>1, PartsDoc
<1>3. "node" \in JsonKeys
    BY CodeKeys
<1>4. CASE \E p \in DOMAIN part : p[1] = "node"
  <2>1. \A r \in DOMAIN doc : r[1] = "node" => r \in DOMAIN part
    BY <1>1, <1>4, PartsNode
  <2>2. Part(part, "node") = Part(doc, "node")
    BY <1>1, <1>2, <1>3, <2>1, SamePart
  <2> QED BY <1>1, <2>2 DEF Shaped, Single
<1>5. CASE ~\E p \in DOMAIN part : p[1] = "node"
  <2>1. "node" \notin Keys(part)
    BY <1>5 DEF Keys
  <2>2. Part(part, "node") = EmptyDoc
    BY <1>2, <1>3, <2>1, PartNone
  <2> QED BY <2>2, EmptyIs DEF Shaped, DecodesAsMembers
<1> QED BY <1>4, <1>5

\* What a document says, its parts say.
LEMMA SaysPart ==
    ASSUME NEW a, NEW b, IsDoc(a), IsDoc(b), Says(a, b), NEW k \in JsonKeys
    PROVE  Says(Part(a, k), Part(b, k)) /\ Keys(b) \subseteq Keys(a)
<1> DEFINE pa == Part(a, k)
           pb == Part(b, k)
<1>1. DOMAIN pa = {p \in Paths : <<k>> \o p \in DOMAIN a} /\ \A p \in DOMAIN pa : pa[p] = a[<<k>> \o p]
    BY PartIs
<1>2. DOMAIN pb = {p \in Paths : <<k>> \o p \in DOMAIN b} /\ \A p \in DOMAIN pb : pb[p] = b[<<k>> \o p]
    BY PartIs
<1> HIDE DEF pa, pb
<1>3. Says(pa, pb)
    BY <1>1, <1>2 DEF Says
<1>4. Keys(b) \subseteq Keys(a)
    BY DEF Says, Keys
<1> QED BY <1>3, <1>4 DEF pa, pb

LEMMA SaysOnly ==
    ASSUME NEW a, NEW b, IsDoc(a), IsDoc(b), Says(a, b), NEW ks
    PROVE  Says(Only(a, ks), Only(b, ks)) /\ Says(a, Only(b, ks))
<1>1. /\ DOMAIN Only(a, ks) = {p \in DOMAIN a : p[1] \in ks}
      /\ \A p \in DOMAIN Only(a, ks) : Only(a, ks)[p] = a[p]
    BY OnlyIs
<1>2. /\ DOMAIN Only(b, ks) = {p \in DOMAIN b : p[1] \in ks}
      /\ \A p \in DOMAIN Only(b, ks) : Only(b, ks)[p] = b[p]
    BY OnlyIs
<1> QED BY <1>1, <1>2 DEF Says

\* What a report says of the nodes and of their statistics.
NodesOf(doc) == Members(doc, "node", IF Single(doc) THEN InfoFields \ {"role"} ELSE InfoFields)
StatsIn(doc) == Members(doc, "nodestats", StatsFields)

\* It is found in a report in the cluster's shape.
Shows(rep, doc) ==
    /\ \A h \in DOMAIN NodesOf(doc) :
        h \in Keys(Part(rep, "node")) /\ Says(Only(Part(Part(rep, "node"), h), InfoFields), NodesOf(doc)[h])
    /\ \A h \in DOMAIN StatsIn(doc) :
        h \in Keys(Part(rep, "nodestats")) /\ Says(Part(Part(rep, "nodestats"), h), StatsIn(doc)[h])

LEMMA SingleShows ==
    ASSUME NEW m, NEW doc, IsDoc(m), IsDoc(doc), AllWell(m), Says(m, doc), Single(doc),
           "nodestats" \in Keys(doc)
    PROVE  Shows(compatibleSingleNode(m), doc)
<1> DEFINE node == Part(m, "node")
           said == Part(doc, "node")
           h == Hostname(said)
           new == compatibleSingleNode(m)
<1>1. "node" \in JsonKeys /\ "nodestats" \in JsonKeys /\ "hostname" \in JsonKeys
    BY CodeKeys
<1>2. IsDoc(node) /\ IsDoc(said) /\ Says(node, said)
    BY <1>1, PartIs, SaysPart
<1>3. "hostname" \in Keys(said)
    BY DEF Single
<1>4. <<"hostname">> \in DOMAIN said /\ <<"hostname">> \in DOMAIN node /\ node[<<"hostname">>] = said[<<"hostname">>]
    BY <1>2, <1>3, KeyPath DEF Says
<1>5. "hostname" \in Keys(node)
    BY <1>2, <1>4, KeyPath
<1>6. Hostname(node) = h
    BY <1>3, <1>4, <1>5 DEF Hostname
<1>7. <<"node", "hostname">> \in DOMAIN m /\ node[<<"hostname">>] = m[<<"node", "hostname">>] /\ "node" \in Keys(m)
  <2>1. \A n \in JsonKeys, j \in JsonKeys :
            j \in Keys(Part(m, n)) => <<n, j>> \in DOMAIN m /\ Part(m, n)[<<j>>] = m[<<n, j>>] /\ n \in Keys(m)
    BY PartKey
  <2> QED BY <1>1, <1>5, <2>1
<1>8. node[<<"hostname">>] # Object
  <2>1. m[<<"node", "hostname">>][1] = "leaf"
    BY <1>7 DEF AllWell, WellFormed
  <2> QED BY <1>7, <2>1 DEF Object
<1>9. IsSingle(m)
    BY <1>5, <1>7, <1>8 DEF IsSingle, DecodesAsMembers
<1>10. "nodestats" \in Keys(m)
    BY <1>1, SaysPart
<1>11. h \in JsonKeys
    BY <1>6, HostIs
<1>12. Part(new, "node") = Under(h, InfoOf(node)) /\ Part(new, "nodestats") = Under(h, StatsOf(m))
    BY <1>6, <1>9, <1>10, CompatIs
<1>13. /\ IsDoc(InfoOf(node))
       /\ \A p \in DOMAIN node : p[1] \in InfoFields \ {"role"} =>
            p \in DOMAIN InfoOf(node) /\ InfoOf(node)[p] = node[p]
    BY <1>2, InfoIs
<1>14. IsDoc(Part(m, "nodestats")) /\ IsDoc(Part(doc, "nodestats")) /\ Says(Part(m, "nodestats"), Part(doc, "nodestats"))
    BY <1>1, PartIs, SaysPart
<1>15. IsDoc(StatsOf(m)) /\ Says(StatsOf(m), Only(Part(doc, "nodestats"), StatsFields))
    BY <1>14, OnlyIs, SaysOnly DEF StatsOf
<1>16. /\ DOMAIN NodesOf(doc) = {h} /\ NodesOf(doc)[h] = Only(said, InfoFields \ {"role"})
       /\ DOMAIN StatsIn(doc) = {h} /\ StatsIn(doc)[h] = Only(Part(doc, "nodestats"), StatsFields)
    BY DEF NodesOf, StatsIn, Members
<1> HIDE DEF node, said, h, new
<1>17. Part(Under(h, InfoOf(node)), h) = InfoOf(node) /\ h \in Keys(Under(h, InfoOf(node)))
    BY <1>11, <1>13, PartUnder, UnderIs
<1>18. Part(Under(h, StatsOf(m)), h) = StatsOf(m) /\ h \in Keys(Under(h, StatsOf(m)))
    BY <1>11, <1>15, PartUnder, UnderIs
<1>19. Says(Only(InfoOf(node), InfoFields), Only(said, InfoFields \ {"role"}))
  <2>1. /\ DOMAIN Only(said, InfoFields \ {"role"}) = {p \in DOMAIN said : p[1] \in InfoFields \ {"role"}}
        /\ \A p \in DOMAIN Only(said, InfoFields \ {"role"}) : Only(said, InfoFields \ {"role"})[p] = said[p]
    BY <1>2, OnlyIs
  <2>2. /\ DOMAIN Only(InfoOf(node), InfoFields) = {p \in DOMAIN InfoOf(node) : p[1] \in InfoFields}
        /\ \A p \in DOMAIN Only(InfoOf(node), InfoFields) : Only(InfoOf(node), InfoFields)[p] = InfoOf(node)[p]
    BY <1>13, OnlyIs
  <2>3. ASSUME NEW p \in DOMAIN said, p[1] \in InfoFields \ {"role"}
        PROVE  p \in DOMAIN Only(InfoOf(node), InfoFields) /\ Only(InfoOf(node), InfoFields)[p] = said[p]
    <3>1. p \in DOMAIN node /\ node[p] = said[p]
        BY <1>2 DEF Says
    <3>2. p \in DOMAIN InfoOf(node) /\ InfoOf(node)[p] = said[p]
        BY <1>13, <2>3, <3>1
    <3> QED BY <2>2, <2>3, <3>2
  <2> QED BY <2>1, <2>3 DEF Says
<1>20. Shows(new, doc)
    BY <1>12, <1>15, <1>16, <1>17, <1>18, <1>19 DEF Shows
<1> QED BY <1>20 DEF new

LEMMA ClusterShows ==
    ASSUME NEW m, NEW doc, IsDoc(m), IsDoc(doc), Says(m, doc), ~Single(doc),
           DecodesAsMembers(Part(m, "node"))
    PROVE  Shows(compatibleSingleNode(m), doc)
<1>1. compatibleSingleNode(m) = m
    BY CompatForm DEF IsSingle
<1>2. /\ NodesOf(doc) = [h \in Keys(Part(doc, "node")) |-> Only(Part(Part(doc, "node"), h), InfoFields)]
      /\ StatsIn(doc) = [h \in Keys(Part(doc, "nodestats")) |-> Only(Part(Part(doc, "nodestats"), h), StatsFields)]
    BY DEF NodesOf, StatsIn, Members
<1>3. "node" \in JsonKeys /\ "nodestats" \in JsonKeys
    BY CodeKeys
<1>4. ASSUME NEW k \in JsonKeys, NEW h \in Keys(Part(doc, k))
      PROVE  /\ h \in Keys(Part(m, k)) /\ Says(Part(Part(m, k), h), Part(Part(doc, k), h))
             /\ IsDoc(Part(Part(m, k), h)) /\ IsDoc(Part(Part(doc, k), h))
  <2>1. IsDoc(Part(m, k)) /\ IsDoc(Part(doc, k)) /\ Says(Part(m, k), Part(doc, k))
    BY PartIs, SaysPart
  <2>2. h \in JsonKeys
    BY <2>1, KeyPath
  <2>3. Keys(Part(doc, k)) \subseteq Keys(Part(m, k))
    BY <2>1, <2>2, SaysPart
  <2> QED BY <2>1, <2>2, <2>3, PartIs, SaysPart
<1>5. \A h \in Keys(Part(doc, "node")) :
        /\ h \in Keys(Part(m, "node"))
        /\ Says(Only(Part(Part(m, "node"), h), InfoFields), Only(Part(Part(doc, "node"), h), InfoFields))
    BY <1>3, <1>4, SaysOnly
<1>6. \A h \in Keys(Part(doc, "nodestats")) :
        /\ h \in Keys(Part(m, "nodestats"))
        /\ Says(Part(Part(m, "nodestats"), h), Only(Part(Part(doc, "nodestats"), h), StatsFields))
    BY <1>3, <1>4, SaysOnly
<1> QED BY <1>1, <1>2, <1>5, <1>6 DEF Shows

\* The shown report stays shown as long as the two parts stay.
LEMMA ShowsSame ==
    ASSUME NEW a, NEW b, IsDoc(a), IsDoc(b), AllWell(a), AllWell(b), NEW doc,
           "node" \in Keys(a), "nodestats" \in Keys(a), "node" \in Keys(b), "nodestats" \in Keys(b),
           Part(a, "node") = Part(b, "node"), Part(a, "nodestats") = Part(b, "nodestats"),
           Shows(compatibleSingleNode(a), doc)
    PROVE  Shows(compatibleSingleNode(b), doc)
<1> DEFINE ca == compatibleSingleNode(a)
           cb == compatibleSingleNode(b)
<1>1. Part(ca, "node") = Part(cb, "node") /\ Part(ca, "nodestats") = Part(cb, "nodestats")
  <2>1. IsSingle(a) <=> IsSingle(b)
    BY DEF IsSingle
  <2>2. CASE ~IsSingle(a)
    BY <2>1, <2>2, CompatForm
  <2>3. CASE IsSingle(a)
    <3>1. /\ Part(ca, "node") = Under(Hostname(Part(a, "node")), InfoOf(Part(a, "node")))
          /\ Part(ca, "nodestats") = Under(Hostname(Part(a, "node")), StatsOf(a))
        BY <2>3, CompatIs
    <3>2. /\ Part(cb, "node") = Under(Hostname(Part(b, "node")), InfoOf(Part(b, "node")))
          /\ Part(cb, "nodestats") = Under(Hostname(Part(b, "node")), StatsOf(b))
        BY <2>1, <2>3, CompatIs
    <3>3. StatsOf(a) = StatsOf(b)
        BY DEF StatsOf
    <3> QED BY <3>1, <3>2, <3>3
  <2> QED BY <2>2, <2>3
<1> HIDE DEF ca, cb
<1>2. Shows(ca, doc) => Shows(cb, doc)
    BY <1>1 DEF Shows
<1> QED BY <1>2 DEF ca, cb

\* A view of what was viewed changes nothing.
LEMMA CompatTwice ==
    ASSUME NEW doc, IsDoc(doc), AllWell(doc), Shaped(doc)
    PROVE  LET new == compatibleSingleNode(doc) IN compatibleSingleNode(new) = new /\ Shaped(new)
<1> DEFINE new == compatibleSingleNode(doc)
<1>1. CASE ~IsSingle(doc)
    BY <1>1, CompatForm
<1>2. CASE IsSingle(doc)
  <2> DEFINE h == Hostname(Part(doc, "node"))
             info == InfoOf(Part(doc, "node"))
  <2>1. Part(new, "node") = Under(h, info)
    BY <1>2, CompatIs
  <2>2. h \in JsonKeys
    BY HostIs
  <2>3. IsDoc(info)
    BY CodeKeys, PartIs, InfoIs
  <2> HIDE DEF h, info
  <2>4. Keys(Under(h, info)) = {h} /\ Under(h, info)[<<h>>] = Object
    BY <2>2, <2>3, UnderIs
  <2>5. DecodesAsMembers(Part(new, "node"))
    BY <2>1, <2>4 DEF DecodesAsMembers
  <2> HIDE DEF new
  <2>6. ~IsSingle(new)
    BY <2>5 DEF IsSingle
  <2>7. compatibleSingleNode(new) = new /\ Shaped(new)
    BY <2>5, <2>6, CompatForm DEF Shaped
  <2> QED BY <2>7 DEF new
<1> QED BY <1>1, <1>2

\* The report is in one of the shapes, and what was reported last is found in it.
LastShown ==
    last.op \in {"report", "touched"} /\ "node" \in Keys(last.doc) /\ "nodestats" \in Keys(last.doc) /\ ~hidden =>
        /\ "node" \in Keys(report) /\ "nodestats" \in Keys(report)
        /\ IsDoc(last.doc) /\ Shows(compatibleSingleNode(report), last.doc)

ShownInv ==
    /\ Shaped(report)
    /\ last = [op |-> last.op, doc |-> last.doc]
    /\ LastShown

\* The report was changed, but not in these parts.
LEMMA TouchedShown ==
    ASSUME ViewInv, ViewInv', ShownInv, last' = Touched, hidden' = hidden,
           Part(report', "node") = Part(report, "node"), Part(report', "nodestats") = Part(report, "nodestats"),
           "node" \in Keys(report) => "node" \in Keys(report'),
           "nodestats" \in Keys(report) => "nodestats" \in Keys(report')
    PROVE  ShownInv'
<1>1. Shaped(report')
    BY DEF ShownInv, Shaped, Single
<1>2. /\ last'.op = IF last.op = "report" THEN "touched" ELSE last.op
      /\ last'.doc = last.doc /\ last' = [op |-> last'.op, doc |-> last'.doc]
    BY DEF ShownInv, Touched
<1>3. IsDoc(report) /\ AllWell(report) /\ IsDoc(report') /\ AllWell(report')
    BY DEF ViewInv
<1>4. LastShown'
  <2> SUFFICES ASSUME last'.op \in {"report", "touched"}, "node" \in Keys(last'.doc),
                      "nodestats" \in Keys(last'.doc), ~hidden'
               PROVE  /\ "node" \in Keys(report') /\ "nodestats" \in Keys(report')
                      /\ IsDoc(last'.doc) /\ Shows(compatibleSingleNode(report'), last'.doc)
    BY DEF LastShown
  <2>1. last.op \in {"report", "touched"}
    BY <1>2
  <2>2. /\ "node" \in Keys(report) /\ "nodestats" \in Keys(report)
        /\ IsDoc(last.doc) /\ Shows(compatibleSingleNode(report), last.doc)
    BY <1>2, <2>1 DEF ShownInv, LastShown
  <2>3. "node" \in Keys(report') /\ "nodestats" \in Keys(report')
    BY <2>2
  <2>4. Shows(compatibleSingleNode(report'), last.doc)
    BY <1>3, <2>2, <2>3, ShowsSame
  <2> QED BY <1>2, <2>2, <2>3, <2>4
<1> QED BY <1>1, <1>2, <1>4 DEF ShownInv

\* A change of the applications leaves the rest of the report alone.
LEMMA AppsApart ==
    ASSUME ViewInv, ViewInv',
           (\E list \in InfoLists : SetAppInfos(list)) \/ Reload
    PROVE  /\ Part(report', "node") = Part(report, "node") /\ Part(report', "nodestats") = Part(report, "nodestats")
           /\ "node" \in Keys(report) => "node" \in Keys(report')
           /\ "nodestats" \in Keys(report) => "nodestats" \in Keys(report')
<1>1. ASSUME NEW p \in Paths, p[1] # "apps"
      PROVE  (p \in DOMAIN report' <=> p \in DOMAIN report) /\ (p \in DOMAIN report' => report'[p] = report[p])
  <2>1. p # <<"apps">>
    BY <1>1
  <2>2. CASE Reload
    BY <2>1, <2>2 DEF Reload
  <2>3. ASSUME NEW list \in InfoLists, SetAppInfos(list)
        PROVE  (p \in DOMAIN report' <=> p \in DOMAIN report) /\ (p \in DOMAIN report' => report'[p] = report[p])
    <3> DEFINE a == Only(report, Keys(report) \ {"apps"})
               b == Put("apps", <<"leaf", list>>)
    <3>1. report' = Join(a, b)
        BY <2>3 DEF SetAppInfos
    <3>2. /\ DOMAIN a = {q \in DOMAIN report : q[1] \in Keys(report) \ {"apps"}}
          /\ \A q \in DOMAIN a : a[q] = report[q]
        BY OnlyIs DEF ViewInv
    <3>3. DOMAIN b = {<<"apps">>}
        BY DEF Put
    <3> HIDE DEF a, b
    <3>4. DOMAIN report' = DOMAIN a \cup DOMAIN b /\ \A q \in DOMAIN a : report'[q] = a[q]
        BY <3>1 DEF Join
    <3>5. p \in DOMAIN report => p \in DOMAIN a
        BY <1>1, <3>2 DEF Keys
    <3> QED BY <2>1, <3>2, <3>3, <3>4, <3>5
  <2> QED BY <2>2, <2>3
<1>2. "node" \in JsonKeys /\ "nodestats" \in JsonKeys
    BY CodeKeys
<1>3. IsDoc(report) /\ IsDoc(report')
    BY DEF ViewInv
<1>4. Part(report', "node") = Part(report, "node") /\ Part(report', "nodestats") = Part(report, "nodestats")
    BY <1>1, <1>2, <1>3, SamePart
<1>5. ASSUME NEW k \in {"node", "nodestats"}, k \in Keys(report) PROVE k \in Keys(report')
  <2>1. <<k>> \in DOMAIN report /\ <<k>> \in Paths /\ <<k>>[1] = k
    BY <1>2, <1>3, <1>5, KeyPath, OneKey
  <2>2. <<k>> \in DOMAIN report'
    BY <1>1, <2>1
  <2> QED BY <1>3, <2>2, KeyPath
<1> QED BY <1>4, <1>5

LEMMA ShownInit == ViewInit => ShownInv
<1> SUFFICES ASSUME ViewInit PROVE ShownInv
    OBVIOUS
<1>1. report = EmptyDoc /\ last = [op |-> "new", doc |-> EmptyDoc]
    BY DEF ViewInit, ShadowInit
<1>2. Part(EmptyDoc, "node") = EmptyDoc
    BY CodeKeys, EmptyIs, PartNone
<1>3. Shaped(EmptyDoc)
    BY <1>2, EmptyIs DEF Shaped, DecodesAsMembers
<1> QED BY <1>1, <1>3 DEF ShownInv, LastShown

LEMMA ShownNext == ViewInv /\ ViewInv' /\ ShownInv /\ [ViewNext]_viewVars => ShownInv'
<1> SUFFICES ASSUME ViewInv, ViewInv', ShownInv, [ViewNext]_viewVars PROVE ShownInv'
    OBVIOUS
<1>1. CASE TickView \/ UNCHANGED viewVars
    BY <1>1 DEF TickView, viewVars, shadowVars, ShownInv, LastShown
<1>2. CASE ViewNode
  <2>1. report' = compatibleSingleNode(report) /\ last' = Touched /\ hidden' = hidden
    BY <1>2 DEF ViewNode
  <2>2. compatibleSingleNode(report') = report' /\ Shaped(report') /\ Keys(report') = Keys(report)
    BY <2>1, CompatTwice, CompatDoc DEF ViewInv, ShownInv
  <2>3. /\ last'.op = IF last.op = "report" THEN "touched" ELSE last.op
        /\ last'.doc = last.doc /\ last' = [op |-> last'.op, doc |-> last'.doc]
    BY <2>1 DEF ShownInv, Touched
  <2>4. last'.op \in {"report", "touched"} => last.op \in {"report", "touched"}
    BY <2>3
  <2>5. LastShown'
    BY <2>1, <2>2, <2>3, <2>4 DEF ShownInv, LastShown
  <2> QED BY <2>2, <2>3, <2>5 DEF ShownInv
<1>3. CASE (\E list \in InfoLists : SetAppInfos(list)) \/ Reload
  <2>1. last' = Touched /\ hidden' = hidden
    BY <1>3 DEF SetAppInfos, Reload
  <2> QED BY <1>3, <2>1, AppsApart, TouchedShown
<1>4. ASSUME NEW doc \in Reports, ReportNode(doc) PROVE ShownInv'
  <2>1. /\ report' = Merge(report, doc) /\ last' = [op |-> "report", doc |-> doc]
        /\ hidden' = (Single(report') /\ ~Single(doc))
    BY <1>4 DEF ReportNode, MergeReport
  <2>2. IsDoc(doc) /\ AllWell(doc) /\ Shaped(doc)
    BY ReportsAssumption DEF AllWell, Shaped
  <2>3. IsDoc(report) /\ AllWell(report) /\ IsDoc(report') /\ AllWell(report') /\ Shaped(report)
    BY DEF ViewInv, ShownInv
  <2>4. Shaped(report') /\ Says(report', doc)
    BY <2>1, <2>2, <2>3, MergeShape, MergeHolds
  <2>5. ASSUME "node" \in Keys(doc), "nodestats" \in Keys(doc), ~hidden'
        PROVE  /\ "node" \in Keys(report') /\ "nodestats" \in Keys(report')
               /\ Shows(compatibleSingleNode(report'), doc)
    <3>1. Keys(doc) \subseteq Keys(report')
        BY <2>2, <2>3, <2>4, CodeKeys, SaysPart
    <3>2. CASE Single(doc)
        BY <2>2, <2>3, <2>4, <2>5, <3>1, <3>2, SingleShows
    <3>3. CASE ~Single(doc)
      <4>1. DecodesAsMembers(Part(report', "node"))
        BY <2>1, <2>4, <2>5, <3>3 DEF Shaped
      <4> QED BY <2>2, <2>3, <2>4, <2>5, <3>1, <3>3, <4>1, ClusterShows
    <3> QED BY <3>2, <3>3
  <2>6. LastShown'
    BY <2>1, <2>2, <2>5 DEF LastShown
  <2> QED BY <2>1, <2>4, <2>6 DEF ShownInv
<1>5. ASSUME NEW doc \in Reports, NEW part \in Parts(report, doc), ReportNodeFails(doc, part) PROVE ShownInv'
  <2>1. report' = Merge(report, part) /\ last' = [op |-> "failed", doc |-> doc]
    BY <1>5 DEF ReportNodeFails, MergeReportFails
  <2>2. IsDoc(report) /\ Shaped(report) /\ IsDoc(part) /\ Shaped(part)
    BY PartWell, PartsShape DEF ViewInv, ShownInv
  <2>3. Shaped(report')
    BY <2>1, <2>2, MergeShape
  <2> QED BY <2>1, <2>3 DEF ShownInv, LastShown
<1>6. ASSUME NEW doc \in Reports, ReportNodePanics(doc) PROVE ShownInv'
  <2>1. report' = EmptyDoc /\ last' = [op |-> "panic", doc |-> doc]
    BY <1>6 DEF ReportNodePanics
  <2>2. Part(EmptyDoc, "node") = EmptyDoc
    BY CodeKeys, EmptyIs, PartNone
  <2>3. Shaped(EmptyDoc)
    BY <2>2, EmptyIs DEF Shaped, DecodesAsMembers
  <2> QED BY <2>1, <2>3 DEF ShownInv, LastShown
<1> QED BY <1>1, <1>2, <1>3, <1>4, <1>5, <1>6 DEF ViewNext

\* The same quantities make the same share.
LEMMA ShareSame ==
    ASSUME NEW a, NEW b, IsDoc(a), IsDoc(b), Says(a, b), NEW r \in Resources,
           r \in DOMAIN Fields(Part(b, "usage")), r \in DOMAIN Fields(Part(b, "capacity"))
    PROVE  Stats(a).percent[r][2] = processResourcePercent(r, Fields(Part(b, "usage")), Fields(Part(b, "capacity")))
<1>1. ASSUME NEW f \in {"usage", "capacity"}
      PROVE  r \in DOMAIN Fields(Part(a, f)) /\ Fields(Part(a, f))[r] = Fields(Part(b, f))[r]
  <2>1. f \in JsonKeys
    BY CodeKeys
  <2>2. IsDoc(Part(a, f)) /\ IsDoc(Part(b, f)) /\ Says(Part(a, f), Part(b, f))
    BY <2>1, PartIs, SaysPart
  <2>3. r \in Keys(Part(b, f))
    BY DEF Fields
  <2>4. <<r>> \in DOMAIN Part(b, f) /\ <<r>> \in DOMAIN Part(a, f) /\ Part(a, f)[<<r>>] = Part(b, f)[<<r>>]
    BY <2>2, <2>3, KeyPath DEF Says
  <2>5. r \in Keys(Part(a, f))
    BY <2>2, <2>4, KeyPath
  <2> QED BY <2>3, <2>4, <2>5 DEF Fields
<1>2. Stats(a).percent[r][2] = processResourcePercent(r, Fields(Part(a, "usage")), Fields(Part(a, "capacity")))
    BY PercentIs
<1>3. /\ r \in DOMAIN Fields(Part(a, "usage")) /\ Fields(Part(a, "usage"))[r] = Fields(Part(b, "usage"))[r]
      /\ r \in DOMAIN Fields(Part(a, "capacity")) /\ Fields(Part(a, "capacity"))[r] = Fields(Part(b, "capacity"))[r]
    BY <1>1
<1> QED BY <1>2, <1>3 DEF processResourcePercent

LEMMA StatsDoc ==
    ASSUME NEW doc, IsDoc(doc), NEW h \in DOMAIN StatsIn(doc)
    PROVE  IsDoc(StatsIn(doc)[h])
<1>1. "nodestats" \in JsonKeys
    BY CodeKeys
<1>2. IsDoc(Part(doc, "nodestats"))
    BY <1>1, PartIs
<1>3. CASE Single(doc)
  <2>1. StatsIn(doc)[h] = Only(Part(doc, "nodestats"), StatsFields)
    BY <1>3 DEF StatsIn, Members
  <2>2. IsDoc(Only(Part(doc, "nodestats"), StatsFields))
    BY <1>2, OnlyIs
  <2> QED BY <2>1, <2>2
<1>4. CASE ~Single(doc)
  <2>1. h \in Keys(Part(doc, "nodestats")) /\ StatsIn(doc)[h] = Only(Part(Part(doc, "nodestats"), h), StatsFields)
    BY <1>4 DEF StatsIn, Members
  <2>2. h \in JsonKeys
    BY <1>2, <2>1, KeyPath
  <2>3. IsDoc(Part(Part(doc, "nodestats"), h))
    BY <1>2, <2>2, PartIs
  <2>4. IsDoc(Only(Part(Part(doc, "nodestats"), h), StatsFields))
    BY <2>3, OnlyIs
  <2> QED BY <2>1, <2>4
<1> QED BY <1>3, <1>4

\* The view shows what was reported last, in either shape and after every sequence of
\* reports, failed reports, views and reloads (Report.Merge, View and compatibleSingleNode
\* of src/spec/v1/node.go).
THEOREM ReportShown == ViewSpec => []ViewShowsReport
<1>1. ViewInv /\ ShownInv => ViewShowsReport
  <2> DEFINE doc == last.doc
             rep == compatibleSingleNode(report)
             shown == ViewOf(rep, now)
  <2> SUFFICES ASSUME ViewInv, ShownInv, last.op \in {"report", "touched"},
                      {"node", "nodestats"} \subseteq Keys(doc), ~hidden
               PROVE  /\ \A h \in DOMAIN NodesOf(doc) :
                            h \in DOMAIN shown.nodes /\ Says(shown.nodes[h], NodesOf(doc)[h])
                      /\ \A h \in DOMAIN StatsIn(doc) :
                            /\ h \in DOMAIN shown.stats
                            /\ LET usage == Fields(Part(StatsIn(doc)[h], "usage"))
                                   capacity == Fields(Part(StatsIn(doc)[h], "capacity"))
                               IN  \A r \in Resources \cap DOMAIN usage \cap DOMAIN capacity :
                                    shown.stats[h].percent[r][2] = processResourcePercent(r, usage, capacity)
    BY Zenon DEF ViewShowsReport, NodesOf, StatsIn
  <2>1. IsDoc(doc) /\ Shows(rep, doc)
    BY DEF ShownInv, LastShown
  <2>2. IsDoc(rep)
    BY CompatDoc DEF ViewInv
  <2> HIDE DEF doc, rep
  <2>3. /\ shown.nodes = [h \in Keys(Part(rep, "node")) |-> Only(Part(Part(rep, "node"), h), InfoFields)]
        /\ shown.stats = [h \in Keys(Part(rep, "nodestats")) |-> Stats(Part(Part(rep, "nodestats"), h))]
    BY DEF ViewOf
  <2> HIDE DEF shown
  <2>4. ASSUME NEW h \in DOMAIN NodesOf(doc)
        PROVE  h \in DOMAIN shown.nodes /\ Says(shown.nodes[h], NodesOf(doc)[h])
    BY <2>1, <2>3 DEF Shows
  <2>5. ASSUME NEW h \in DOMAIN StatsIn(doc)
        PROVE  /\ h \in DOMAIN shown.stats /\ h \in Keys(Part(rep, "nodestats"))
               /\ shown.stats[h] = Stats(Part(Part(rep, "nodestats"), h))
               /\ Says(Part(Part(rep, "nodestats"), h), StatsIn(doc)[h])
    BY <2>1, <2>3 DEF Shows
  <2>6. ASSUME NEW h \in DOMAIN StatsIn(doc), NEW r \in Resources,
               r \in DOMAIN Fields(Part(StatsIn(doc)[h], "usage")),
               r \in DOMAIN Fields(Part(StatsIn(doc)[h], "capacity"))
        PROVE  shown.stats[h].percent[r][2] =
                    processResourcePercent(r, Fields(Part(StatsIn(doc)[h], "usage")),
                                              Fields(Part(StatsIn(doc)[h], "capacity")))
    <3>1. IsDoc(StatsIn(doc)[h])
        BY <2>1, StatsDoc
    <3>2. IsDoc(Part(Part(rep, "nodestats"), h))
      <4>1. IsDoc(Part(rep, "nodestats"))
        BY <2>2, CodeKeys, PartIs
      <4>2. h \in JsonKeys
        BY <2>5, <4>1, KeyPath
      <4> QED BY <4>1, <4>2, PartIs
    <3> QED BY <2>5, <2>6, <3>1, <3>2, ShareSame
  <2> QED BY <2>4, <2>5, <2>6
<1> QED BY <1>1, ViewInvInit, ViewInvNext, ShownInit, ShownNext, PTL DEF ViewSpec
=============================================================================
