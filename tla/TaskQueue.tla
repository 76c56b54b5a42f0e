------------------------------ MODULE TaskQueue ------------------------------
(***************************************************************************)
(* The task package (src/task): producers put tasks into the broker's      *)
(* channel, workers take them one per tick, run the registered function    *)
(* and leave its result in the backend, where a getter polls for it.       *)
(*                                                                         *)
(* Tasks are numbered in the order of the calls of AddTask.  A producer    *)
(* does not add a task to a broker that was closed (the send would panic). *)
(***************************************************************************)
EXTENDS Naturals, Sequences, SequencesExt

CONSTANTS
    Cache,          \* capacity of the broker's channel
    Workers,        \* workers that share the broker and the backend
    Getters,        \* goroutines that ask for results
    Signature,      \* what each task name is implemented by, see Signatures
    MaxTasks        \* bound: calls of AddTask and AddTaskWithKey

\* async: implements AsyncTask; arity: parameters of the function;
\* yields: its first result is there and has a kind that GetRealValue keeps.
Signatures == [async : BOOLEAN, arity : Nat, yields : BOOLEAN]

ASSUME TaskAssumption ==
    /\ Cache \in Nat \ {0}
    /\ MaxTasks \in Nat
    /\ Signature \in [DOMAIN Signature -> Signatures]

Names == DOMAIN Signature
Ids == 1 .. MaxTasks
\* A TaskMessage as it is decoded: whether Args is nil, and how many there are.
Message == [name : Names, nilArgs : BOOLEAN, nargs : Nat]

VARIABLES
    issued,     \* how many tasks were added
    msg,        \* the message of every task added, in order
    rejected,   \* tasks whose SendMessage timed out
    broker,     \* the channel
    open,       \* the channel is not closed
    registered, \* every worker's registeredTasks, the names in it
    wpc,        \* off, idle, run (has taken task), set (has a result)
    task,       \* the task a worker has in hand
    cancelled,  \* the worker's context is done
    backend,    \* mapBackend.cache, the tasks in it
    getter,     \* the task a getter polls for in Get, 0 for none
    delivered,  \* history: how often a getter received the task's result
    discarded   \* history: tasks that ended without a result in the backend

vars == <<issued, msg, rejected, broker, open, registered, wpc, task, cancelled,
          backend, getter, delivered, discarded>>
brokerVars == <<broker, open>>
producerVars == <<issued, msg, rejected>>
workerVars == <<registered, wpc, task, cancelled, discarded>>
getterVars == <<getter, delivered>>

Init ==
    /\ issued = 0 /\ msg = <<>> /\ rejected = {} /\ broker = <<>> /\ open = TRUE
    /\ registered = [w \in Workers |-> {}]
    /\ backend = {} /\ discarded = {}
    /\ wpc = [w \in Workers |-> "off"]
    /\ task = [w \in Workers |-> 0]
    /\ cancelled = [w \in Workers |-> FALSE]
    /\ getter = [g \in Getters |-> 0]
    /\ delivered = [t \in Ids |-> 0]

-----------------------------------------------------------------------------
(* Producers                                                               *)

\* SendMessage: the channel takes the message, or a millisecond passes.
SendMessage(t) ==
    \/ /\ Len(broker) < Cache
       /\ broker' = Append(broker, t)
       /\ UNCHANGED rejected
    \/ /\ rejected' = rejected \cup {t}
       /\ UNCHANGED broker

Issue(m) ==
    /\ open /\ issued < MaxTasks
    /\ issued' = issued + 1
    /\ msg' = Append(msg, m)
    /\ SendMessage(issued + 1)
    /\ UNCHANGED <<open, workerVars, backend, getterVars>>

\* AddTask(name, args...): no arguments make a nil slice, which JSON carries as
\* null and decodes to nil.
AddTask(name, nargs) == Issue([name |-> name, nilArgs |-> nargs = 0, nargs |-> nargs])

\* AddTaskWithKey: Args is an empty slice, not nil.
AddTaskWithKey(name) == Issue([name |-> name, nilArgs |-> FALSE, nargs |-> 0])

\* broker.Close: what is in the channel can still be taken.
CloseBroker ==
    /\ open
    /\ open' = FALSE
    /\ UNCHANGED <<broker, producerVars, workerVars, backend, getterVars>>

-----------------------------------------------------------------------------
(* Workers                                                                 *)

Register(w, name) ==
    /\ name \notin registered[w]
    /\ registered' = [registered EXCEPT ![w] = @ \cup {name}]
    /\ UNCHANGED <<wpc, task, cancelled, discarded, producerVars, brokerVars,
                   backend, getterVars>>

\* StartWorker makes a new context each time, so that a worker that was stopped
\* can be started again.  (Started again while its first goroutine is still
\* there, a worker would have two: they act as two of the Workers do.)
StartWorker(w) ==
    /\ wpc[w] = "off"
    /\ wpc' = [wpc EXCEPT ![w] = "idle"]
    /\ cancelled' = [cancelled EXCEPT ![w] = FALSE]
    /\ UNCHANGED <<registered, task, discarded, producerVars, brokerVars,
                   backend, getterVars>>

StopWorker(w) ==
    /\ wpc[w] # "off" /\ ~cancelled[w]
    /\ cancelled' = [cancelled EXCEPT ![w] = TRUE]
    /\ UNCHANGED <<registered, wpc, task, discarded, producerVars, brokerVars,
                   backend, getterVars>>

\* Faulty variant: the worker waits for the broker to be closed.
WorkerQuitsOnClose(w) ==
    /\ wpc[w] = "idle" /\ cancelled[w] /\ ~open
    /\ wpc' = [wpc EXCEPT ![w] = "off"]
    /\ UNCHANGED <<registered, task, cancelled, discarded, producerVars,
                   brokerVars, backend, getterVars>>

\* The select takes Done.
WorkerQuits(w) ==
    /\ wpc[w] = "idle" /\ cancelled[w]
    /\ wpc' = [wpc EXCEPT ![w] = "off"]
    /\ UNCHANGED <<registered, task, cancelled, discarded, producerVars,
                   brokerVars, backend, getterVars>>

\* Faulty variant: nothing is taken from a broker that was closed.
GetMessageOpen(w) ==
    /\ wpc[w] = "idle" /\ broker # <<>> /\ open
    /\ task' = [task EXCEPT ![w] = Head(broker)]
    /\ broker' = Tail(broker)
    /\ wpc' = [wpc EXCEPT ![w] = "run"]
    /\ UNCHANGED <<open, registered, cancelled, discarded, producerVars, backend,
                   getterVars>>

\* The select takes a tick and GetMessage returns a message; one that times
\* out, or that finds the channel closed and empty, changes nothing.
GetMessage(w) ==
    /\ wpc[w] = "idle" /\ broker # <<>>
    /\ task' = [task EXCEPT ![w] = Head(broker)]
    /\ broker' = Tail(broker)
    /\ wpc' = [wpc EXCEPT ![w] = "run"]
    /\ UNCHANGED <<open, registered, cancelled, discarded, producerVars, backend,
                   getterVars>>

\* runTask and runTaskFunc have no error: the arguments are there, the name is
\* registered, and a function is given as many arguments as it has parameters.
Runs(w, m) ==
    /\ ~m.nilArgs
    /\ m.name \in registered[w]
    /\ Signature[m.name].async \/ Signature[m.name].arity = m.nargs

\* A result other than nil goes to the backend next; without one, or after an
\* error, the task is over.  ParseKwargs of an AsyncTask may refuse.
RunTask(w) ==
    LET m == msg[task[w]]
    IN  /\ wpc[w] = "run"
        /\ \/ /\ Runs(w, m) /\ Signature[m.name].yields
              /\ wpc' = [wpc EXCEPT ![w] = "set"]
              /\ UNCHANGED <<task, discarded>>
           \/ /\ ~Runs(w, m) \/ ~Signature[m.name].yields \/ Signature[m.name].async
              /\ wpc' = [wpc EXCEPT ![w] = "idle"]
              /\ task' = [task EXCEPT ![w] = 0]
              /\ discarded' = discarded \cup {task[w]}
        /\ UNCHANGED <<registered, cancelled, producerVars, brokerVars,
                       backend, getterVars>>

\* Faulty variant: the worker forgets the result when it has been stopped.
SetResultUnlessCancelled(w) ==
    /\ wpc[w] = "set"
    /\ backend' = IF cancelled[w] THEN backend ELSE backend \cup {task[w]}
    /\ wpc' = [wpc EXCEPT ![w] = "idle"]
    /\ task' = [task EXCEPT ![w] = 0]
    /\ UNCHANGED <<registered, cancelled, discarded, producerVars, brokerVars,
                   getterVars>>

SetResult(w) ==
    /\ wpc[w] = "set"
    /\ backend' = backend \cup {task[w]}
    /\ wpc' = [wpc EXCEPT ![w] = "idle"]
    /\ task' = [task EXCEPT ![w] = 0]
    /\ UNCHANGED <<registered, cancelled, discarded, producerVars, brokerVars,
                   getterVars>>

-----------------------------------------------------------------------------
(* Getters                                                                 *)

\* mapBackend.GetResult finds the result, and deletes it under the same lock.
GetResult(t) ==
    /\ t \in backend
    /\ backend' = backend \ {t}
    /\ delivered' = [delivered EXCEPT ![t] = @ + 1]

\* TaskResult.Get begins to poll.
GetBegins(g, t) ==
    /\ getter[g] = 0 /\ t <= issued
    /\ getter' = [getter EXCEPT ![g] = t]
    /\ UNCHANGED <<delivered, producerVars, brokerVars, workerVars, backend>>

\* A tick of Get finds the result.  A tick that does not changes nothing.
GetFinds(g) ==
    /\ getter[g] # 0
    /\ GetResult(getter[g])
    /\ getter' = [getter EXCEPT ![g] = 0]
    /\ UNCHANGED <<producerVars, brokerVars, workerVars>>

GetTimesOut(g) ==
    /\ getter[g] # 0
    /\ getter' = [getter EXCEPT ![g] = 0]
    /\ UNCHANGED <<delivered, producerVars, brokerVars, workerVars, backend>>

\* AsyncGet asks once.
AsyncGet(t) ==
    /\ t <= issued
    /\ GetResult(t)
    /\ UNCHANGED <<getter, producerVars, brokerVars, workerVars>>

-----------------------------------------------------------------------------
Worker(w) == WorkerQuits(w) \/ GetMessage(w) \/ RunTask(w) \/ SetResult(w)

Next ==
    \/ \E n \in Names, k \in 0 .. 1 : AddTask(n, k)
    \/ \E n \in Names : AddTaskWithKey(n)
    \/ CloseBroker
    \/ \E w \in Workers : StartWorker(w) \/ StopWorker(w) \/ Worker(w)
    \/ \E w \in Workers, n \in Names : Register(w, n)
    \/ \E g \in Getters : GetFinds(g) \/ GetTimesOut(g) \/ \E t \in Ids : GetBegins(g, t)
    \/ \E t \in Ids : AsyncGet(t)

Spec == Init /\ [][Next]_vars

\* The worker's goroutine goes on: functions return and its ticker ticks.  Which
\* ready case of the select is taken is left open.
FairSpec == Spec /\ \A w \in Workers : WF_vars(Worker(w))

-----------------------------------------------------------------------------
TypeOK ==
    /\ issued \in 0 .. MaxTasks
    /\ msg \in Seq(Message)
    /\ rejected \subseteq Ids /\ backend \subseteq Ids /\ discarded \subseteq Ids
    /\ broker \in Seq(Ids) /\ Len(broker) <= Cache
    /\ open \in BOOLEAN
    /\ registered \in [Workers -> SUBSET Names]
    /\ wpc \in [Workers -> {"off", "idle", "run", "set"}]
    /\ task \in [Workers -> {0} \cup Ids]
    /\ cancelled \in [Workers -> BOOLEAN]
    /\ getter \in [Getters -> {0} \cup Ids]
    /\ delivered \in [Ids -> Nat]

InHand == {task[w] : w \in Workers} \ {0}
Delivered == {t \in Ids : delivered[t] > 0}
Accepted == (1 .. issued) \ rejected

\* No accepted task is lost or doubled between broker, workers, backend and
\* getters: each is in exactly one place, and one that was rejected is nowhere,
\* whatever workers are stopped and whenever the broker is closed.  A result is
\* delivered to one caller, however many poll for it.
TaskLedger ==
    LET places == <<ToSet(broker), InHand, backend, Delivered, discarded>>
    IN  /\ TypeOK
        /\ UNION ToSet(places) = Accepted
        /\ \A i, j \in DOMAIN places : i # j => places[i] \cap places[j] = {}
        /\ \A t \in Ids : delivered[t] <= 1

\* An accepted task is served by one worker that goes on running, whatever others
\* are started, stopped and started again: for every worker, again and again, every
\* task added so far has ended or that worker does not run or was told to stop.
\* (The tasks are finitely many, and one that has ended stays so.)
TaskServed ==
    \A w \in Workers :
        []<>(\/ Accepted \subseteq backend \cup Delivered \cup discarded
             \/ wpc[w] = "off" \/ cancelled[w])

\* A worker that was stopped finishes the task in hand and quits, although
\* its select may take a tick and the next task instead, each time it is stopped.
StoppedWorkerQuits == \A w \in Workers : []<>(cancelled[w] => wpc[w] = "off")
=============================================================================
