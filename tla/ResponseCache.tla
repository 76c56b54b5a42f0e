----------------------------- MODULE ResponseCache -----------------------------
(***************************************************************************)
(* The response cache (src/cache/cache.go): a request is answered from the *)
(* store, or by the handler; requests of the same key that miss while the  *)
(* handler runs share its response (golang.org/x/sync/singleflight).  With *)
(* a forget timeout a run that is too long is forgotten, and the next      *)
(* request runs the handler beside it.                                     *)
(*                                                                         *)
(* One key: keys do not interact.  A run of the handler is a number, and   *)
(* so is the response it makes; a later run sees newer data.  Requests     *)
(* that are not to be cached go to the handler and are left out.           *)
(***************************************************************************)
EXTENDS Naturals, FiniteSets

CONSTANTS
    Requests,
    Duration,       \* how long a response is kept
    Forgets,        \* singleFlightForgetTimeout is set
    MaxTime         \* bound: the clock

ASSUME CacheAssumption ==
    /\ IsFiniteSet(Requests)
    /\ Duration \in Nat \ {0}
    /\ Forgets \in BOOLEAN
    /\ MaxTime \in Nat \ {0}

\* A request makes at most one run.
Runs == 1 .. Cardinality(Requests)
NoRun == 0

VARIABLES
    now,        \* the clock
    store,      \* the entry of the key: [run, until], run = NoRun if there is none
    group,      \* singleflight.Group: the run in its map, or NoRun
    runs,       \* how many runs were begun
    status,     \* per run: none, running, 2xx, other, panic
    ended,      \* per run: Do has returned, and its waiters go on
    timer,      \* per run: the forget timer: off, armed, firing, fired
    pc,         \* per request: idle, get, do, run, fill, finish, wait, done
    run,        \* per request: the run it leads or waits for
    reply,      \* per request: the run whose response it got, or NoRun
    arrived,    \* history: when the request came
    kept        \* history: per run: until when its response may be served from the
                \* store; 0 if it was not stored

reqVars == <<pc, run, reply, arrived>>
vars == <<now, store, group, runs, status, ended, timer, reqVars, kept>>

Init ==
    /\ now = 1 /\ store = [run |-> NoRun, until |-> 0]
    /\ group = NoRun /\ runs = 0
    /\ status = [f \in Runs |-> "none"]
    /\ ended = [f \in Runs |-> FALSE]
    /\ timer = [f \in Runs |-> "off"]
    /\ pc = [r \in Requests |-> "idle"]
    /\ run = [r \in Requests |-> NoRun]
    /\ reply = [r \in Requests |-> NoRun]
    /\ arrived = [r \in Requests |-> 0]
    /\ kept = [f \in Runs |-> 0]

Goto(r, place) == pc' = [pc EXCEPT ![r] = place]

Tick ==
    /\ now < MaxTime
    /\ now' = now + 1
    /\ UNCHANGED <<store, group, runs, status, ended, timer, reqVars, kept>>

-----------------------------------------------------------------------------
Arrive(r) ==
    /\ pc[r] = "idle"
    /\ Goto(r, "get")
    /\ arrived' = [arrived EXCEPT ![r] = now]
    /\ UNCHANGED <<now, store, group, runs, status, ended, timer, run, reply, kept>>

\* The store's rule.
Fresh(entry) == entry.run # NoRun /\ now < entry.until

\* The response of run f is written, and the chain of handlers ends.
replyWithCache(r, f) == reply' = [reply EXCEPT ![r] = f] /\ Goto(r, "done")

\* "read cache first"
GetHit(r) ==
    /\ pc[r] = "get" /\ Fresh(store)
    /\ replyWithCache(r, store.run)
    /\ UNCHANGED <<now, store, group, runs, status, ended, timer, run, arrived, kept>>

\* There is no entry, or the store fails (which is logged and taken as a miss).
GetMiss(r) ==
    /\ pc[r] = "get"
    /\ Goto(r, "do")
    /\ UNCHANGED <<now, store, group, runs, status, ended, timer, run, reply, arrived, kept>>

\* Do finds no run of the key: this request leads one, arms the forget timer and
\* calls the handler.
Lead(r) ==
    /\ pc[r] = "do" /\ group = NoRun
    /\ runs' = runs + 1 /\ group' = runs'
    /\ run' = [run EXCEPT ![r] = runs']
    /\ status' = [status EXCEPT ![runs'] = "running"]
    /\ timer' = [timer EXCEPT ![runs'] = IF Forgets THEN "armed" ELSE "off"]
    /\ Goto(r, "run")
    /\ UNCHANGED <<now, store, ended, reply, arrived, kept>>

\* Do finds a run and waits for it.
Join(r) ==
    /\ pc[r] = "do" /\ group # NoRun
    /\ run' = [run EXCEPT ![r] = group]
    /\ Goto(r, "wait")
    /\ UNCHANGED <<now, store, group, runs, status, ended, timer, reply, arrived, kept>>

\* What the handler wrote becomes the response of its run.
fillWithCacheWriter(f, s) == status' = [status EXCEPT ![f] = s]

\* Faulty variant: singleflight ends with the handler, and the store is filled later.
HandlerReturnsReleased(r) ==
    /\ pc[r] = "run"
    /\ \E s \in {"2xx", "other"} : fillWithCacheWriter(run[r], s)
    /\ group' = NoRun
    /\ Goto(r, "fill")
    /\ UNCHANGED <<now, store, runs, ended, timer, run, reply, arrived, kept>>

HandlerReturns(r) ==
    /\ pc[r] = "run"
    /\ \E s \in {"2xx", "other"} : fillWithCacheWriter(run[r], s)
    /\ Goto(r, "fill")
    /\ UNCHANGED <<now, store, group, runs, ended, timer, run, reply, arrived, kept>>

\* The handler panics: nothing is stored, and the panic goes on to the waiters.
HandlerPanics(r) ==
    /\ pc[r] = "run"
    /\ status' = [status EXCEPT ![run[r]] = "panic"]
    /\ Goto(r, "finish")
    /\ UNCHANGED <<now, store, group, runs, ended, timer, run, reply, arrived, kept>>

\* Faulty variant: every response is stored.
CacheableAll(f) == TRUE

\* "only cache 2xx response"
Cacheable(f) == status[f] = "2xx"

\* Set of the store.
Stored(f) == [run |-> f, until |-> now + Duration]

\* The response is kept; the store may fail, which is only logged.
Fill(r) ==
    /\ pc[r] = "fill"
    /\ \/ /\ Cacheable(run[r])
          /\ store' = Stored(run[r])
          /\ kept' = [kept EXCEPT ![run[r]] = now + Duration]
       \/ UNCHANGED <<store, kept>>
    /\ Goto(r, "finish")
    /\ UNCHANGED <<now, group, runs, status, ended, timer, run, reply, arrived>>

\* fn returns: the timer is stopped, unless its goroutine runs already; Do takes its
\* run, but no other, out of the map and lets the waiters go.
Finish(r) ==
    /\ pc[r] = "finish"
    /\ timer' = [timer EXCEPT ![run[r]] = IF @ = "armed" THEN "off" ELSE @]
    /\ group' = IF group = run[r] THEN NoRun ELSE group
    /\ ended' = [ended EXCEPT ![run[r]] = TRUE]
    /\ reply' = [reply EXCEPT ![r] = IF status[run[r]] = "panic" THEN NoRun ELSE run[r]]
    /\ Goto(r, "done")
    /\ UNCHANGED <<now, store, runs, status, run, arrived, kept>>

\* Faulty variant: the waiters of a run that was forgotten stay.
ShareIfCurrent(r) ==
    /\ pc[r] = "wait" /\ ended[run[r]] /\ timer[run[r]] # "fired"
    /\ replyWithCache(r, IF status[run[r]] = "panic" THEN NoRun ELSE run[r])
    /\ UNCHANGED <<now, store, group, runs, status, ended, timer, run, arrived, kept>>

\* A waiter gets the response, whatever its status, or the panic.
Share(r) ==
    /\ pc[r] = "wait" /\ ended[run[r]]
    /\ replyWithCache(r, IF status[run[r]] = "panic" THEN NoRun ELSE run[r])
    /\ UNCHANGED <<now, store, group, runs, status, ended, timer, run, arrived, kept>>

\* The forget timer of run f starts its goroutine, ...
TimerFires(f) ==
    /\ timer[f] = "armed"
    /\ timer' = [timer EXCEPT ![f] = "firing"]
    /\ UNCHANGED <<now, store, group, runs, status, ended, reqVars, kept>>

\* ... which forgets whatever run the key has by then.
Forget(f) ==
    /\ timer[f] = "firing"
    /\ timer' = [timer EXCEPT ![f] = "fired"]
    /\ group' = NoRun
    /\ UNCHANGED <<now, store, runs, status, ended, reqVars, kept>>

Step(r) ==
    \/ GetHit(r) \/ GetMiss(r) \/ Lead(r) \/ Join(r) \/ HandlerReturns(r)
    \/ HandlerPanics(r) \/ Fill(r) \/ Finish(r) \/ Share(r)

Next ==
    \/ Tick
    \/ \E r \in Requests : Arrive(r) \/ Step(r)
    \/ \E f \in Runs : TimerFires(f) \/ Forget(f)

Spec == Init /\ [][Next]_vars

\* Handlers return or panic, and goroutines go on.
FairSpec == Spec /\ \A r \in Requests : WF_vars(Step(r))

-----------------------------------------------------------------------------
Statuses == {"none", "running", "2xx", "other", "panic"}

TypeOK ==
    /\ now \in 1 .. MaxTime
    /\ store \in [run : Runs \cup {NoRun}, until : 0 .. MaxTime + Duration]
    /\ group \in Runs \cup {NoRun} /\ runs \in Runs \cup {NoRun}
    /\ group # NoRun => status[group] # "none" /\ ~ended[group]
    /\ status \in [Runs -> Statuses] /\ ended \in [Runs -> BOOLEAN]
    /\ timer \in [Runs -> {"off", "armed", "firing", "fired"}]
    /\ pc \in [Requests -> {"idle", "get", "do", "run", "fill", "finish", "wait", "done"}]
    /\ run \in [Requests -> Runs \cup {NoRun}]
    /\ reply \in [Requests -> Runs \cup {NoRun}]
    /\ arrived \in [Requests -> 0 .. MaxTime]
    /\ kept \in [Runs -> 0 .. MaxTime + Duration]

Running == {f \in Runs : status[f] = "running"}
Fired == {f \in Runs : timer[f] = "fired"}

\* A response that the request did not wait for is a stored one that had not expired
\* when the request came; so a failure is told to the requests that were there, and
\* to no later one.  The handler runs once at a time, and once more for every run that
\* was forgotten.
RepliesAreRecent ==
    /\ TypeOK
    /\ \A r \in Requests : reply[r] \notin {NoRun, run[r]} =>
        status[reply[r]] = "2xx" /\ arrived[r] < kept[reply[r]]
    /\ Cardinality(Running) <= 1 + Cardinality(Fired)

\* A response takes the place of a newer one only after a run was forgotten.
StoreMovesOn == [][store'.run < store.run => Fired # {}]_vars

\* Every request is answered (or ends with the handler's panic), also the waiters of
\* a run that was forgotten: again and again nobody waits.  (A request does not come
\* back to idle.)
RequestsEnd == []<>(\A r \in Requests : pc[r] \in {"idle", "done"})
=============================================================================
