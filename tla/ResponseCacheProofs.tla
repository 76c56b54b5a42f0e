------------------------- MODULE ResponseCacheProofs -------------------------
(***************************************************************************)
(* Proofs about ResponseCache, for any finite number of requests, every    *)
(* duration, and with the forget timeout or without.                       *)
(***************************************************************************)
EXTENDS ResponseCache, FiniteSetTheorems, TLAPS

\* The request leads a run of the handler that has not ended.
Leads(r) == pc[r] \in {"run", "fill", "finish"}

\* A run has one leader, whose place tells the run's status; a request has no run
\* before Do, and no reply before it is done.
RunInv ==
    /\ \A f \in Runs : f > runs => status[f] = "none" /\ ~ended[f] /\ timer[f] = "off"
    /\ \A r \in Requests : run[r] <= runs /\ arrived[r] <= now
    /\ \A r \in Requests : pc[r] \in {"idle", "get", "do"} => run[r] = NoRun
    /\ \A r \in Requests : pc[r] # "done" => reply[r] = NoRun
    /\ \A r \in Requests : Leads(r) => run[r] # NoRun /\ ~ended[run[r]]
    /\ \A r \in Requests : pc[r] = "wait" => run[r] # NoRun /\ status[run[r]] # "none"
    /\ \A r \in Requests : pc[r] = "run" => status[run[r]] = "running"
    /\ \A r \in Requests : pc[r] = "fill" => status[run[r]] \in {"2xx", "other"}
    /\ \A r \in Requests : pc[r] = "finish" => status[run[r]] \in {"2xx", "other", "panic"}
    /\ \A q, r \in Requests : Leads(q) /\ Leads(r) /\ run[q] = run[r] => q = r

\* What the store holds was kept until then, and is a good response.
ServeInv ==
    /\ store.run # NoRun => status[store.run] = "2xx" /\ kept[store.run] = store.until
    /\ \A r \in Requests : reply[r] \notin {NoRun, run[r]} =>
        status[reply[r]] = "2xx" /\ arrived[r] < kept[reply[r]]

\* Each run has taken a request of its own from those that are still to come; of the
\* runs under way all but the group's were taken out of it by a timer of their own;
\* before a timer does so, the latest run is the only one.
FlightInv ==
    /\ \E L \in SUBSET Requests :
        Cardinality(L) = runs /\ \A r \in L : pc[r] \notin {"idle", "get", "do"}
    /\ Cardinality(Running \ {group}) <= Cardinality(Fired)
    /\ Fired = {} => /\ group \in {NoRun, runs}
                     /\ \A r \in Requests : Leads(r) => run[r] = group

CacheInv == TypeOK /\ RunInv /\ ServeInv /\ FlightInv

LEMMA RunsType == /\ Cardinality(Requests) \in Nat /\ IsFiniteSet(Runs)
                  /\ NoRun \notin Runs /\ \A f \in Runs \cup {NoRun} : f \in Nat
  <1>1. Cardinality(Requests) \in Nat
    BY FS_CardinalityType, CacheAssumption
  <1>2. IsFiniteSet(Runs)
    BY <1>1, FS_Interval DEF Runs
  <1> QED
    BY <1>1, <1>2 DEF Runs, NoRun

LEMMA InitCache == Init => CacheInv
  <1> SUFFICES ASSUME Init PROVE CacheInv
    OBVIOUS
  <1>1. TypeOK
    <2>1. ended \in [Runs -> BOOLEAN]
      BY DEF Init
    <2>2. /\ now \in 1 .. MaxTime /\ store \in [run : Runs \cup {NoRun}, until : 0 .. MaxTime + Duration]
          /\ arrived \in [Requests -> 0 .. MaxTime] /\ kept \in [Runs -> 0 .. MaxTime + Duration]
      BY CacheAssumption DEF Init
    <2> QED
      BY <2>1, <2>2, RunsType DEF Init, TypeOK, Statuses, NoRun
  <1>2. RunInv /\ ServeInv
    BY DEF Init, RunInv, ServeInv, Leads, NoRun
  <1>3. FlightInv
    <2>1. Running = {} /\ Fired = {} /\ Running \ {group} = {}
      BY DEF Init, Running, Fired
    <2>2. Cardinality({}) = 0
      BY FS_EmptySet
    <2> QED
      BY <2>1, <2>2 DEF Init, FlightInv, Leads, NoRun
  <1> QED
    BY <1>1, <1>2, <1>3 DEF CacheInv

-----------------------------------------------------------------------------
(* Runs and what they leave in the store                                   *)

\* There is a run for every request that leads one.
LEMMA RoomToLead ==
    ASSUME CacheInv, NEW r \in Requests, pc[r] = "do"
    PROVE  runs \in Nat /\ runs + 1 \in Runs
  <1>1. runs \in Nat
    BY RunsType DEF CacheInv, TypeOK, NoRun
  <1>2. PICK L \in SUBSET Requests :
            Cardinality(L) = runs /\ \A q \in L : pc[q] \notin {"idle", "get", "do"}
    BY DEF CacheInv, FlightInv
  <1>3. IsFiniteSet(L) /\ r \notin L
    BY <1>2, CacheAssumption, FS_Subset
  <1>4. Cardinality(L \cup {r}) = runs + 1
    BY <1>2, <1>3, FS_AddElement
  <1>5. Cardinality(L \cup {r}) <= Cardinality(Requests)
    BY CacheAssumption, FS_Subset
  <1> QED
    BY <1>1, <1>4, <1>5, RunsType DEF Runs

\* The steps of a request that make no run.
LEMMA RequestKeepsRuns ==
    ASSUME CacheInv, NEW r \in Requests,
           Arrive(r) \/ GetHit(r) \/ GetMiss(r) \/ Join(r) \/ Share(r)
    PROVE  TypeOK' /\ RunInv' /\ ServeInv'
  <1> USE CacheAssumption DEF CacheInv, TypeOK, RunInv, ServeInv, Leads, Statuses, NoRun,
          reqVars, Goto, replyWithCache
  <1>1. CASE Arrive(r)
    BY <1>1, RunsType DEF Arrive
  <1>2. CASE GetHit(r)
    BY <1>2, RunsType DEF GetHit, Fresh
  <1>3. CASE GetMiss(r)
    BY <1>3, RunsType DEF GetMiss
  <1>4. CASE Join(r)
    BY <1>4, RunsType DEF Join
  <1>5. CASE Share(r)
    BY <1>5, RunsType DEF Share
  <1> QED
    BY <1>1, <1>2, <1>3, <1>4, <1>5

\* A request leads a run, whose number is new.
LEMMA LeadKeepsRuns ==
    ASSUME CacheInv, NEW r \in Requests, Lead(r)
    PROVE  TypeOK' /\ RunInv' /\ ServeInv'
  <1> USE CacheAssumption DEF CacheInv, TypeOK, RunInv, ServeInv, Leads, Statuses, NoRun,
          reqVars, Goto, replyWithCache
  <1>1. PICK f \in Runs : f = runs + 1 /\ runs \in Nat
    BY RoomToLead DEF Lead
  <1>2. /\ runs' = f /\ group' = f /\ run' = [run EXCEPT ![r] = f]
        /\ status' = [status EXCEPT ![f] = "running"]
        /\ timer' \in [Runs -> {"off", "armed", "firing", "fired"}]
        /\ \A g \in Runs : g # f => timer'[g] = timer[g]
        /\ pc' = [pc EXCEPT ![r] = "run"]
        /\ UNCHANGED <<now, store, ended, reply, arrived, kept>>
    BY <1>1 DEF Lead
  <1>3. status[f] = "none" /\ ~ended[f] /\ run[r] = NoRun /\ reply[r] = NoRun
    BY <1>1 DEF Lead
  <1>4. \A q \in Requests : run[q] # f
    BY <1>1, RunsType
  <1>5. TypeOK'
    BY <1>1, <1>2, <1>3, RunsType
  <1>6. ServeInv'
    BY <1>1, <1>2, <1>3, <1>4, RunsType
  <1>7. RunInv'
    <2>1. \A g \in Runs : g > f => g > runs /\ g # f
      BY <1>1, RunsType
    <2>2. \A q \in Requests : q # r => run'[q] = run[q] /\ run[q] <= f /\ pc'[q] = pc[q]
      <3>1. \A q \in Requests : run[q] \in Nat /\ run[q] <= runs
        BY RunsType
      <3> QED
        BY <1>1, <1>2, <3>1
    <2>3. run'[r] = f /\ pc'[r] = "run" /\ f # NoRun
      BY <1>2, RunsType
    <2> QED
      BY <1>1, <1>2, <1>3, <1>4, <2>1, <2>2, <2>3
  <1> QED
    BY <1>5, <1>6, <1>7

\* The steps of a leader.
LEMMA LeaderKeepsRuns ==
    ASSUME CacheInv, NEW r \in Requests,
           HandlerReturns(r) \/ HandlerPanics(r) \/ Fill(r) \/ Finish(r)
    PROVE  TypeOK' /\ RunInv' /\ ServeInv'
  <1> USE CacheAssumption DEF CacheInv, TypeOK, RunInv, ServeInv, Leads, Statuses, NoRun,
          reqVars, Goto, replyWithCache
  <1>1. run[r] \in Runs
    BY DEF HandlerReturns, HandlerPanics, Fill, Finish
  <1>2. CASE HandlerReturns(r)
    BY <1>1, <1>2, RunsType DEF HandlerReturns, fillWithCacheWriter
  <1>3. CASE HandlerPanics(r)
    BY <1>1, <1>3, RunsType DEF HandlerPanics
  <1>4. CASE Fill(r)
    <2>1. CASE UNCHANGED <<store, kept>>
      BY <1>1, <1>4, <2>1, RunsType DEF Fill
    <2>2. CASE /\ Cacheable(run[r]) /\ store' = Stored(run[r])
               /\ kept' = [kept EXCEPT ![run[r]] = now + Duration]
      BY <1>1, <1>4, <2>2, RunsType DEF Fill, Cacheable, Stored
    <2> QED
      BY <1>4, <2>1, <2>2 DEF Fill
  <1>5. CASE Finish(r)
    <2>1. /\ timer' \in [Runs -> {"off", "armed", "firing", "fired"}]
          /\ \A f \in Runs : f # run[r] => timer'[f] = timer[f]
          /\ ended' = [ended EXCEPT ![run[r]] = TRUE] /\ ended' \in [Runs -> BOOLEAN]
      BY <1>1, <1>5 DEF Finish
    <2>2. /\ reply' = [reply EXCEPT ![r] = IF status[run[r]] = "panic" THEN NoRun ELSE run[r]]
          /\ pc' = [pc EXCEPT ![r] = "done"] /\ pc[r] = "finish"
          /\ group' = IF group = run[r] THEN NoRun ELSE group
          /\ UNCHANGED <<now, store, runs, status, run, arrived, kept>>
      BY <1>5 DEF Finish
    <2>3. TypeOK'
      BY <1>1, <2>1, <2>2, RunsType
    <2>4. ServeInv'
      BY <1>1, <2>2, RunsType
    <2>5. RunInv'
      <3>1. \A q \in Requests : Leads(q) /\ q # r => run[q] # run[r]
        BY <2>2
      <3>2. run[r] <= runs /\ \A f \in Runs : f > runs => f # run[r]
        BY <1>1, RunsType
      <3> QED
        BY <1>1, <2>1, <2>2, <3>1, <3>2
    <2> QED
      BY <2>3, <2>4, <2>5
  <1> QED
    BY <1>2, <1>3, <1>4, <1>5

\* Time, and the forget timer.
LEMMA TimeKeepsRuns ==
    ASSUME CacheInv, Tick \/ (\E f \in Runs : TimerFires(f) \/ Forget(f)) \/ UNCHANGED vars
    PROVE  TypeOK' /\ RunInv' /\ ServeInv'
  <1> USE CacheAssumption DEF CacheInv, TypeOK, RunInv, ServeInv, Leads, Statuses, NoRun,
          reqVars, Goto, replyWithCache
  <1>1. CASE Tick
    BY <1>1, RunsType DEF Tick
  <1>2. ASSUME NEW f \in Runs, TimerFires(f)
        PROVE  TypeOK' /\ RunInv' /\ ServeInv'
    BY <1>2, RunsType DEF TimerFires
  <1>3. ASSUME NEW f \in Runs, Forget(f)
        PROVE  TypeOK' /\ RunInv' /\ ServeInv'
    BY <1>3, RunsType DEF Forget
  <1>4. CASE UNCHANGED vars
    BY <1>4 DEF vars
  <1> QED
    BY <1>1, <1>2, <1>3, <1>4


-----------------------------------------------------------------------------
(* How many runs there are                                                 *)

LEMMA SetsFinite ==
    /\ IsFiniteSet(Running \ {group}) /\ Cardinality(Running \ {group}) \in Nat
    /\ IsFiniteSet(Fired) /\ Cardinality(Fired) \in Nat
    /\ IsFiniteSet(Running) /\ Cardinality(Running) \in Nat
  <1>1. Running \in SUBSET Runs /\ Fired \in SUBSET Runs /\ Running \ {group} \in SUBSET Runs
    BY DEF Running, Fired
  <1> QED
    BY <1>1, RunsType, FS_Subset, FS_CardinalityType

\* Requests do not come back.
LEMMA LeadersStay ==
    ASSUME FlightInv, runs' = runs,
           \A r \in Requests : pc[r] \notin {"idle", "get", "do"} => pc'[r] \notin {"idle", "get", "do"}
    PROVE  \E L \in SUBSET Requests :
                Cardinality(L) = runs' /\ \A r \in L : pc'[r] \notin {"idle", "get", "do"}
  BY DEF FlightInv

\* Steps that begin no run and forget none.
LEMMA QuietKeepsFlight ==
    ASSUME CacheInv, UNCHANGED <<runs, Fired>>, Running' \ {group'} \subseteq Running \ {group},
           \A r \in Requests : pc[r] \notin {"idle", "get", "do"} => pc'[r] \notin {"idle", "get", "do"},
           Fired = {} => /\ group' \in {NoRun, group}
                         /\ \A r \in Requests : Leads(r)' =>
                                Leads(r) /\ run'[r] = run[r] /\ (run[r] = group => group' = group)
    PROVE  FlightInv'
  <1>1. Fired' = Fired
    OBVIOUS
  <1>2. Cardinality(Running' \ {group'}) <= Cardinality(Running \ {group})
    BY SetsFinite, FS_Subset
  <1>3. IsFiniteSet(Running' \ {group'}) /\ Cardinality(Running' \ {group'}) \in Nat
    BY SetsFinite, FS_Subset, FS_CardinalityType
  <1>4. Cardinality(Running' \ {group'}) <= Cardinality(Fired')
    BY <1>1, <1>2, <1>3, SetsFinite DEF CacheInv, FlightInv
  <1>5. \E L \in SUBSET Requests :
            Cardinality(L) = runs' /\ \A r \in L : pc'[r] \notin {"idle", "get", "do"}
    BY LeadersStay DEF CacheInv
  <1>6. Fired' = {} => /\ group' \in {NoRun, runs'}
                       /\ \A r \in Requests : Leads(r)' => run'[r] = group'
    BY <1>1 DEF CacheInv, FlightInv
  <1> QED
    BY <1>4, <1>5, <1>6 DEF FlightInv

\* The steps of a request, but for leading a run.
LEMMA RequestKeepsFlight ==
    ASSUME CacheInv, NEW r \in Requests, Arrive(r) \/ (Step(r) /\ ~Lead(r))
    PROVE  FlightInv'
  <1> USE DEF CacheInv, TypeOK, Goto, replyWithCache
  <1>1. CASE Arrive(r) \/ GetHit(r) \/ GetMiss(r) \/ Join(r) \/ Share(r)
    <2>1. UNCHANGED <<runs, timer, status, group>>
      BY <1>1 DEF Arrive, GetHit, GetMiss, Join, Share
    <2>2. UNCHANGED <<runs, Fired>> /\ Running' \ {group'} = Running \ {group}
      BY <2>1 DEF Fired, Running
    <2>3. \A q \in Requests : Leads(q)' => Leads(q) /\ run'[q] = run[q]
      BY <1>1 DEF Arrive, GetHit, GetMiss, Join, Share, Leads
    <2>4. \A q \in Requests :
            pc[q] \notin {"idle", "get", "do"} => pc'[q] \notin {"idle", "get", "do"}
      BY <1>1 DEF Arrive, GetHit, GetMiss, Join, Share
    <2> QED
      BY <2>1, <2>2, <2>3, <2>4, QuietKeepsFlight
  <1>2. CASE HandlerReturns(r) \/ HandlerPanics(r) \/ Fill(r)
    <2>1. run[r] \in Runs
      BY <1>2 DEF HandlerReturns, HandlerPanics, Fill, RunInv, Leads
    <2>2. UNCHANGED <<runs, timer, group, run>>
      BY <1>2 DEF HandlerReturns, HandlerPanics, Fill
    <2>3. UNCHANGED <<runs, Fired>>
      BY <2>2 DEF Fired
    <2>4. Running' \subseteq Running
      BY <1>2, <2>1 DEF HandlerReturns, HandlerPanics, Fill, Running, fillWithCacheWriter
    <2>5. \A q \in Requests : Leads(q)' => Leads(q)
      BY <1>2 DEF HandlerReturns, HandlerPanics, Fill, Leads
    <2>6. \A q \in Requests :
            pc[q] \notin {"idle", "get", "do"} => pc'[q] \notin {"idle", "get", "do"}
      BY <1>2 DEF HandlerReturns, HandlerPanics, Fill
    <2> QED
      BY <2>2, <2>3, <2>4, <2>5, <2>6, QuietKeepsFlight
  <1>3. CASE Finish(r)
    <2>1. /\ run[r] \in Runs /\ pc[r] = "finish" /\ status[run[r]] # "running"
          /\ pc' = [pc EXCEPT ![r] = "done"]
          /\ UNCHANGED <<runs, status, run>> /\ group' = IF group = run[r] THEN NoRun ELSE group
          /\ timer' = [timer EXCEPT ![run[r]] = IF @ = "armed" THEN "off" ELSE @]
      BY <1>3 DEF Finish, RunInv, Leads
    <2>2. UNCHANGED <<runs, Fired>>
      BY <2>1 DEF Fired
    <2>3. Running' \ {group'} \subseteq Running \ {group}
      BY <2>1 DEF Running
    <2>4. \A q \in Requests : Leads(q)' => Leads(q) /\ run[q] # run[r]
      BY <2>1 DEF Leads, RunInv
    <2>5. \A q \in Requests :
            pc[q] \notin {"idle", "get", "do"} => pc'[q] \notin {"idle", "get", "do"}
      BY <2>1
    <2> QED
      BY <2>1, <2>2, <2>3, <2>4, <2>5, QuietKeepsFlight
  <1> QED
    BY <1>1, <1>2, <1>3 DEF Step

\* A run is begun when the group has none: the one it forgot is not counted twice.
LEMMA LeadKeepsFlight ==
    ASSUME CacheInv, NEW r \in Requests, Lead(r)
    PROVE  FlightInv'
  <1>1. PICK f \in Runs : f = runs + 1 /\ runs \in Nat
    BY RoomToLead DEF Lead
  <1>2. /\ pc[r] = "do" /\ group = NoRun /\ runs' = f /\ group' = f
        /\ run' = [run EXCEPT ![r] = f]
        /\ status' = [status EXCEPT ![f] = "running"]
        /\ timer' = [timer EXCEPT ![f] = IF Forgets THEN "armed" ELSE "off"]
        /\ pc' = [pc EXCEPT ![r] = "run"]
    BY <1>1 DEF Lead, Goto
  <1>3. Running' \ {group'} \subseteq Running \ {group}
    BY <1>1, <1>2, RunsType DEF Running, CacheInv, TypeOK
  <1>4. Fired' = Fired
    <2>1. timer[f] # "fired"
      BY <1>1 DEF CacheInv, RunInv
    <2> QED
      BY <1>2, <2>1 DEF Fired, CacheInv, TypeOK
  <1>5. Cardinality(Running' \ {group'}) <= Cardinality(Fired')
    <2>1. /\ Cardinality(Running' \ {group'}) <= Cardinality(Running \ {group})
          /\ IsFiniteSet(Running' \ {group'})
      BY <1>3, SetsFinite, FS_Subset
    <2>2. Cardinality(Running' \ {group'}) \in Nat
      BY <2>1, FS_CardinalityType
    <2> QED
      BY <1>4, <2>1, <2>2, SetsFinite DEF CacheInv, FlightInv
  <1>6. \E L \in SUBSET Requests :
            Cardinality(L) = runs' /\ \A q \in L : pc'[q] \notin {"idle", "get", "do"}
    <2>1. PICK L \in SUBSET Requests :
              Cardinality(L) = runs /\ \A q \in L : pc[q] \notin {"idle", "get", "do"}
      BY DEF CacheInv, FlightInv
    <2>2. IsFiniteSet(L) /\ r \notin L
      BY <1>2, <2>1, CacheAssumption, FS_Subset
    <2>3. Cardinality(L \cup {r}) = runs'
      BY <1>1, <1>2, <2>1, <2>2, FS_AddElement
    <2>4. \A q \in L \cup {r} : pc'[q] \notin {"idle", "get", "do"}
      BY <1>2, <2>1 DEF CacheInv, TypeOK
    <2> QED
      BY <2>3, <2>4
  <1>7. Fired' = {} => /\ group' \in {NoRun, runs'}
                       /\ \A q \in Requests : Leads(q)' => run'[q] = group'
    <2>1. Fired = {} => \A q \in Requests : ~Leads(q)
      BY <1>2 DEF CacheInv, FlightInv, RunInv
    <2>2. \A q \in Requests : q # r => (Leads(q)' <=> Leads(q))
      BY <1>2 DEF Leads, CacheInv, TypeOK
    <2> QED
      BY <1>2, <1>4, <2>1, <2>2 DEF CacheInv, TypeOK
  <1> QED
    BY <1>5, <1>6, <1>7 DEF FlightInv

\* A timer takes at most one run out of the group, and is counted for it.
LEMMA ForgetKeepsFlight ==
    ASSUME CacheInv, NEW f \in Runs, Forget(f)
    PROVE  FlightInv'
  <1>1. /\ timer[f] = "firing" /\ timer' = [timer EXCEPT ![f] = "fired"] /\ group' = NoRun
        /\ UNCHANGED <<runs, status, pc, run>>
    BY DEF Forget, reqVars
  <1>2. Fired' = Fired \cup {f} /\ f \notin Fired
    BY <1>1 DEF Fired, CacheInv, TypeOK
  <1>3. Cardinality(Fired') = Cardinality(Fired) + 1
    BY <1>2, SetsFinite, FS_AddElement
  <1>4. Running' \ {group'} = Running
    BY <1>1, RunsType DEF Running
  <1>5. Cardinality(Running) <= Cardinality(Running \ {group}) + 1
    BY SetsFinite, FS_RemoveElement
  <1>6. Cardinality(Running' \ {group'}) <= Cardinality(Fired')
    BY <1>3, <1>4, <1>5, SetsFinite DEF CacheInv, FlightInv
  <1>7. Fired' # {}
    BY <1>2
  <1> QED
    BY <1>1, <1>6, <1>7, LeadersStay DEF CacheInv, FlightInv

LEMMA TimeKeepsFlight ==
    ASSUME CacheInv, Tick \/ (\E f \in Runs : TimerFires(f)) \/ UNCHANGED vars
    PROVE  FlightInv'
  <1>1. UNCHANGED <<runs, status, group, pc, run>>
    BY DEF Tick, TimerFires, vars, reqVars
  <1>2. Fired' = Fired
    BY DEF Tick, TimerFires, vars, Fired, CacheInv, TypeOK
  <1>3. Running' \ {group'} = Running \ {group}
    BY <1>1 DEF Running
  <1>4. \A r \in Requests : Leads(r)' <=> Leads(r)
    BY <1>1 DEF Leads
  <1> QED
    BY <1>1, <1>2, <1>3, <1>4, QuietKeepsFlight

-----------------------------------------------------------------------------
LEMMA NextCache == CacheInv /\ [Next]_vars => CacheInv'
  <1> SUFFICES ASSUME CacheInv, [Next]_vars PROVE CacheInv'
    OBVIOUS
  <1>1. CASE Tick \/ (\E f \in Runs : TimerFires(f)) \/ UNCHANGED vars
    BY <1>1, TimeKeepsRuns, TimeKeepsFlight DEF CacheInv
  <1>2. CASE \E f \in Runs : Forget(f)
    BY <1>2, TimeKeepsRuns, ForgetKeepsFlight DEF CacheInv
  <1>3. ASSUME NEW r \in Requests, Lead(r)
        PROVE  CacheInv'
    BY <1>3, LeadKeepsRuns, LeadKeepsFlight DEF CacheInv
  <1>4. ASSUME NEW r \in Requests, Arrive(r) \/ (Step(r) /\ ~Lead(r))
        PROVE  CacheInv'
    <2>1. FlightInv'
      BY <1>4, RequestKeepsFlight
    <2>2. TypeOK' /\ RunInv' /\ ServeInv'
      BY <1>4, RequestKeepsRuns, LeaderKeepsRuns DEF Step
    <2> QED
      BY <2>1, <2>2 DEF CacheInv
  <1> QED
    BY <1>1, <1>2, <1>3, <1>4 DEF Next

LEMMA CacheInvariant == Spec => []CacheInv
  BY InitCache, NextCache, PTL DEF Spec

\* A response that a request did not wait for is a good one that had not expired when
\* the request came; the handler runs once at a time, and once more for each run
\* that was forgotten.
THEOREM CacheServesRecent == Spec => []RepliesAreRecent
  <1>1. CacheInv => RepliesAreRecent
    <2> SUFFICES ASSUME CacheInv PROVE RepliesAreRecent
      OBVIOUS
    <2>1. Cardinality(Running) <= Cardinality(Running \ {group}) + 1
      BY SetsFinite, FS_RemoveElement
    <2>2. Cardinality(Running) <= 1 + Cardinality(Fired)
      BY <2>1, SetsFinite DEF CacheInv, FlightInv
    <2> QED
      BY <2>2 DEF CacheInv, ServeInv, RepliesAreRecent
  <1> QED
    BY <1>1, CacheInvariant, PTL

\* Without a run that was forgotten, a response in the store gives way to a newer one
\* only.
THEOREM CacheMovesOn == Spec => StoreMovesOn
  <1>1. CacheInv /\ [Next]_vars => [store'.run < store.run => Fired # {}]_vars
    <2> SUFFICES ASSUME CacheInv, Next, store'.run < store.run, Fired = {}
                 PROVE  FALSE
      OBVIOUS
    <2>1. store.run \in Nat /\ ~(store.run < store.run)
      BY RunsType DEF CacheInv, TypeOK, NoRun
    <2>2. PICK r \in Requests : Fill(r) /\ store' = Stored(run[r])
      BY <2>1 DEF Next, Step, Tick, Arrive, GetHit, GetMiss, Lead, Join, HandlerReturns,
            HandlerPanics, Fill, Finish, Share, TimerFires, Forget
    <2>3. run[r] = group /\ group = runs /\ runs \in Nat /\ store'.run = runs
      BY <2>2, RunsType DEF Fill, Stored, CacheInv, FlightInv, RunInv, Leads, TypeOK, NoRun
    <2>4. store.run <= runs
      BY <2>1, <2>3, RunsType DEF CacheInv, RunInv, ServeInv, TypeOK, NoRun
    <2> QED
      BY <2>1, <2>3, <2>4
  <1> QED
    BY <1>1, CacheInvariant, PTL DEF Spec, StoreMovesOn
=============================================================================
