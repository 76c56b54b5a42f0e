--------------------------- MODULE TaskQueueProofs ---------------------------
(***************************************************************************)
(* Proofs about TaskQueue, for every capacity of the channel and any       *)
(* number of tasks, workers, getters and registered functions.             *)
(***************************************************************************)
EXTENDS TaskQueue, SequenceTheorems, TLAPS

\* The places of a task as five sets: in the channel, in a worker's hands, in the
\* backend, delivered and discarded.
Split(B, H, S, D, X, A) ==
    /\ B \cup H \cup S \cup D \cup X = A
    /\ B \cap H = {} /\ B \cap S = {} /\ B \cap D = {} /\ B \cap X = {}
    /\ H \cap S = {} /\ H \cap D = {} /\ H \cap X = {}
    /\ S \cap D = {} /\ S \cap X = {} /\ D \cap X = {}

LEMMA SplitIsLedger ==
    Split(ToSet(broker), InHand, backend, Delivered, discarded, Accepted)
        => LET places == <<ToSet(broker), InHand, backend, Delivered, discarded>>
           IN  /\ UNION ToSet(places) = Accepted
               /\ \A i, j \in DOMAIN places : i # j => places[i] \cap places[j] = {}
  <1> DEFINE B == ToSet(broker)
             places == <<B, InHand, backend, Delivered, discarded>>
  <1> SUFFICES ASSUME Split(B, InHand, backend, Delivered, discarded, Accepted)
               PROVE  /\ UNION ToSet(places) = Accepted
                      /\ \A i, j \in DOMAIN places : i # j => places[i] \cap places[j] = {}
    OBVIOUS
  <1> HIDE DEF B
  <1>1. DOMAIN places = 1 .. 5
    OBVIOUS
  <1>2. /\ places[1] = B /\ places[2] = InHand /\ places[3] = backend
        /\ places[4] = Delivered /\ places[5] = discarded
    OBVIOUS
  <1>3. ToSet(places) = {B, InHand, backend, Delivered, discarded}
    BY <1>1, <1>2 DEF ToSet
  <1>4. UNION ToSet(places) = Accepted
    BY <1>3 DEF Split
  <1>5. \A i, j \in 1 .. 5 : i # j => places[i] \cap places[j] = {}
    BY <1>2 DEF Split
  <1> QED
    BY <1>1, <1>4, <1>5

\* Tasks move between the places one at a time.
LEMMA SplitMoves ==
    ASSUME NEW B, NEW H, NEW S, NEW D, NEW X, NEW A, Split(B, H, S, D, X, A), NEW t
    PROVE  /\ t \notin A => Split(B \cup {t}, H, S, D, X, A \cup {t})
           /\ t \in B => Split(B \ {t}, H \cup {t}, S, D, X, A)
           /\ t \in H => Split(B, H \ {t}, S \cup {t}, D, X, A)
           /\ t \in H => Split(B, H \ {t}, S, D, X \cup {t}, A)
           /\ t \in S => Split(B, H, S \ {t}, D \cup {t}, X, A)
  <1>1. t \notin A => Split(B \cup {t}, H, S, D, X, A \cup {t})
    BY DEF Split
  <1>2. t \in B => Split(B \ {t}, H \cup {t}, S, D, X, A)
    BY DEF Split
  <1>3. t \in H => Split(B, H \ {t}, S \cup {t}, D, X, A)
    BY DEF Split
  <1>4. t \in H => Split(B, H \ {t}, S, D, X \cup {t}, A)
    BY DEF Split
  <1>5. t \in S => Split(B, H, S \ {t}, D \cup {t}, X, A)
    BY DEF Split
  <1> QED
    BY <1>1, <1>2, <1>3, <1>4, <1>5

\* What the two ends of the channel do to the tasks in it.
LEMMA PutInChannel ==
    ASSUME NEW T, NEW q \in Seq(T), NEW t \in T, IsInjective(q), t \notin ToSet(q)
    PROVE  /\ ToSet(Append(q, t)) = ToSet(q) \cup {t}
           /\ IsInjective(Append(q, t))
  <1> DEFINE r == Append(q, t)
  <1>1. /\ r \in Seq(T) /\ Len(r) = Len(q) + 1 /\ Len(q) \in Nat
        /\ DOMAIN q = 1 .. Len(q) /\ DOMAIN r = 1 .. (Len(q) + 1)
        /\ \A i \in 1 .. Len(q) : r[i] = q[i]
        /\ r[Len(q) + 1] = t
    BY AppendProperties, LenProperties
  <1> HIDE DEF r
  <1>2. ToSet(r) = ToSet(q) \cup {t}
    BY <1>1 DEF ToSet
  <1>3. IsInjective(r)
    BY <1>1 DEF IsInjective, ToSet
  <1> QED
    BY <1>2, <1>3 DEF r

LEMMA TakeFromChannel ==
    ASSUME NEW T, NEW q \in Seq(T), IsInjective(q), q # <<>>
    PROVE  /\ Head(q) \in ToSet(q)
           /\ ToSet(Tail(q)) = ToSet(q) \ {Head(q)}
           /\ IsInjective(Tail(q))
  <1> DEFINE r == Tail(q)
  <1>1. /\ Len(q) \in Nat \ {0} /\ DOMAIN q = 1 .. Len(q)
        /\ DOMAIN r = 1 .. (Len(q) - 1)
        /\ \A i \in 1 .. (Len(q) - 1) : r[i] = q[i + 1]
        /\ Head(q) = q[1]
    BY HeadTailProperties, LenProperties
  <1> HIDE DEF r
  <1>2. IsInjective(r)
    BY <1>1 DEF IsInjective
  <1>3. \A x : x \in ToSet(q) /\ x # q[1] => x \in ToSet(r)
    <2> SUFFICES ASSUME NEW i \in 1 .. Len(q), q[i] # q[1] PROVE q[i] \in ToSet(r)
      BY <1>1 DEF ToSet
    <2>1. i - 1 \in 1 .. (Len(q) - 1) /\ (i - 1) + 1 = i
      BY <1>1
    <2> QED
      BY <1>1, <2>1 DEF ToSet
  <1>4. \A x \in ToSet(r) : x \in ToSet(q) /\ x # q[1]
    BY <1>1 DEF ToSet, IsInjective
  <1>5. ToSet(r) = ToSet(q) \ {q[1]}
    BY <1>3, <1>4
  <1>6. Head(q) \in ToSet(q)
    BY <1>1 DEF ToSet
  <1> QED
    BY <1>1, <1>2, <1>5, <1>6 DEF r

-----------------------------------------------------------------------------
(* The inductive invariant: no task is twice in the channel or in the hands *)
(* of two workers, and a worker has one in hand exactly while it runs it.   *)

HandInv ==
    /\ IsInjective(broker)
    /\ \A w \in Workers : wpc[w] \in {"run", "set"} <=> task[w] # 0
    /\ \A v, w \in Workers : task[v] = task[w] /\ task[v] # 0 => v = w

LedgerInv ==
    /\ TypeOK
    /\ HandInv
    /\ \A t \in rejected : t <= issued
    /\ \A t \in Ids : delivered[t] <= 1
    /\ Split(ToSet(broker), InHand, backend, Delivered, discarded, Accepted)

LEMMA InitLedger == Init => LedgerInv
  <1> SUFFICES ASSUME Init PROVE LedgerInv
    OBVIOUS
  <1>1. TypeOK
    BY TaskAssumption DEF Init, TypeOK
  <1>2. HandInv
    BY DEF Init, HandInv, IsInjective
  <1>3. /\ ToSet(broker) = {} /\ InHand = {} /\ Delivered = {} /\ Accepted = {}
    BY DEF Init, ToSet, InHand, Delivered, Accepted
  <1> QED
    BY <1>1, <1>2, <1>3 DEF Init, LedgerInv, Split

\* A step that changes neither the tasks nor where they are.
LEMMA LedgerFrame ==
    ASSUME LedgerInv, TypeOK',
           UNCHANGED <<issued, rejected, broker, task, backend, delivered, discarded>>,
           \A w \in Workers : wpc'[w] \in {"run", "set"} <=> wpc[w] \in {"run", "set"}
    PROVE  LedgerInv'
  <1>1. HandInv'
    BY DEF LedgerInv, HandInv, IsInjective
  <1>2. /\ ToSet(broker)' = ToSet(broker) /\ InHand' = InHand
        /\ Delivered' = Delivered /\ Accepted' = Accepted
    BY DEF ToSet, InHand, Delivered, Accepted
  <1> QED
    BY <1>1, <1>2 DEF LedgerInv

\* A producer's call: the task is put into the channel or rejected.
LEMMA IssueLedger ==
    ASSUME LedgerInv, NEW m \in Message, Issue(m)
    PROVE  LedgerInv'
  <1> DEFINE t == issued + 1
  <1>1. t \in Ids /\ issued \in Nat /\ issued' \in 0 .. MaxTasks
    BY TaskAssumption DEF Issue, LedgerInv, TypeOK, Ids
  <1>2. t \notin Accepted /\ t \notin rejected
    BY <1>1 DEF Accepted, LedgerInv
  <1>3. t \notin ToSet(broker)
    BY <1>2 DEF LedgerInv, Split
  <1>4. msg' \in Seq(Message)
    BY AppendProperties DEF Issue, LedgerInv, TypeOK
  <1>5. /\ UNCHANGED <<open, registered, wpc, task, cancelled, discarded, backend, getter,
                       delivered>>
        /\ UNCHANGED InHand /\ UNCHANGED Delivered
    BY DEF Issue, workerVars, getterVars, InHand, Delivered
  <1>6. CASE Len(broker) < Cache /\ broker' = Append(broker, t) /\ UNCHANGED rejected
    <2>1. broker' \in Seq(Ids) /\ Len(broker') <= Cache
      BY <1>1, <1>6, AppendProperties, LenProperties, TaskAssumption DEF LedgerInv, TypeOK
    <2>2. TypeOK'
      BY <1>1, <1>4, <1>5, <1>6, <2>1 DEF LedgerInv, TypeOK, Issue
    <2>3. ToSet(broker') = ToSet(broker) \cup {t} /\ IsInjective(broker')
      BY <1>1, <1>3, <1>6, PutInChannel DEF LedgerInv, TypeOK, HandInv
    <2>4. Accepted' = Accepted \cup {t}
      BY <1>1, <1>2, <1>6 DEF Accepted, Issue
    <2>5. Split(ToSet(broker'), InHand', backend', Delivered', discarded', Accepted')
      <3>1. Split(ToSet(broker) \cup {t}, InHand, backend, Delivered, discarded, Accepted \cup {t})
        BY <1>2, SplitMoves DEF LedgerInv
      <3> QED
        BY <1>5, <2>3, <2>4, <3>1
    <2>6. \A u \in rejected' : u <= issued'
      BY <1>1, <1>6 DEF LedgerInv, TypeOK, Issue, Ids
    <2> QED
      BY <1>5, <2>2, <2>3, <2>5, <2>6 DEF LedgerInv, HandInv
  <1>7. CASE rejected' = rejected \cup {t} /\ UNCHANGED broker
    <2>1. TypeOK'
      BY <1>1, <1>4, <1>5, <1>7 DEF LedgerInv, TypeOK, Issue
    <2>2. Accepted' = Accepted
      BY <1>1, <1>2, <1>7 DEF Accepted, Issue
    <2>3. \A u \in rejected' : u <= issued'
      BY <1>1, <1>7 DEF LedgerInv, TypeOK, Issue, Ids
    <2> QED
      BY <1>5, <1>7, <2>1, <2>2, <2>3 DEF LedgerInv, HandInv
  <1> QED
    BY <1>6, <1>7 DEF Issue, SendMessage

\* A worker takes a task, and it is in nobody else's hands.
LEMMA GetMessageLedger ==
    ASSUME LedgerInv, NEW w \in Workers, GetMessage(w)
    PROVE  LedgerInv'
  <1> DEFINE t == Head(broker)
  <1> USE DEF LedgerInv, HandInv, TypeOK
  <1>1. /\ t \in ToSet(broker) /\ ToSet(Tail(broker)) = ToSet(broker) \ {t}
        /\ IsInjective(Tail(broker))
    BY TakeFromChannel DEF GetMessage
  <1>2. t \in Ids /\ t # 0 /\ Tail(broker) \in Seq(Ids) /\ Len(Tail(broker)) <= Cache
    BY HeadTailProperties, LenProperties, TaskAssumption DEF GetMessage, Ids
  <1>3. task[w] = 0 /\ t \notin InHand
    BY <1>1 DEF GetMessage, Split
  <1>4. task' = [task EXCEPT ![w] = t] /\ InHand' = InHand \cup {t}
    BY <1>2, <1>3 DEF GetMessage, InHand
  <1>5. \A v \in Workers : task[v] # t
    BY <1>2, <1>3 DEF InHand
  <1>6. TypeOK'
    BY <1>2 DEF GetMessage, producerVars, getterVars
  <1>7. HandInv'
    <2>1. IsInjective(broker')
      BY <1>1 DEF GetMessage
    <2>2. \A v \in Workers : wpc'[v] \in {"run", "set"} <=> task'[v] # 0
      BY <1>2, <1>4 DEF GetMessage
    <2>3. \A u, v \in Workers : task'[u] = task'[v] /\ task'[u] # 0 => u = v
      BY <1>2, <1>4, <1>5
    <2> QED
      BY <2>1, <2>2, <2>3
  <1>8. UNCHANGED <<issued, rejected, backend, delivered, discarded>>
    BY DEF GetMessage, producerVars, getterVars
  <1>9. UNCHANGED Delivered /\ UNCHANGED Accepted
    BY <1>8 DEF Delivered, Accepted
  <1>10. Split(ToSet(broker'), InHand', backend', Delivered', discarded', Accepted')
    <2>1. Split(ToSet(broker) \ {t}, InHand \cup {t}, backend, Delivered, discarded, Accepted)
      BY <1>1, SplitMoves
    <2>2. ToSet(broker') = ToSet(broker) \ {t}
      BY <1>1 DEF GetMessage
    <2> QED
      BY <1>4, <1>8, <1>9, <2>1, <2>2
  <1> QED
    BY <1>6, <1>7, <1>8, <1>10

\* A worker puts the task in hand down.
LEMMA PutDown ==
    ASSUME LedgerInv, NEW w \in Workers, wpc[w] \in {"run", "set"},
           wpc' = [wpc EXCEPT ![w] = "idle"], task' = [task EXCEPT ![w] = 0],
           UNCHANGED broker
    PROVE  /\ HandInv' /\ InHand' = InHand \ {task[w]}
           /\ task[w] \in InHand /\ task[w] \in Ids
  <1> USE DEF LedgerInv, HandInv, TypeOK
  <1>1. HandInv'
    BY DEF IsInjective
  <1>2. task[w] \in InHand /\ task[w] \in Ids
    BY DEF InHand
  <1>3. InHand' = InHand \ {task[w]}
    BY DEF InHand
  <1> QED
    BY <1>1, <1>2, <1>3

LEMMA RunTaskLedger ==
    ASSUME LedgerInv, NEW w \in Workers, RunTask(w)
    PROVE  LedgerInv'
  <1> USE DEF producerVars, brokerVars, getterVars
  <1>1. CASE wpc' = [wpc EXCEPT ![w] = "set"] /\ UNCHANGED <<task, discarded>>
    <2>1. TypeOK'
      BY <1>1 DEF RunTask, LedgerInv, TypeOK
    <2> QED
      BY <1>1, <2>1, LedgerFrame DEF RunTask, LedgerInv, TypeOK
  <1>2. CASE /\ wpc' = [wpc EXCEPT ![w] = "idle"]
             /\ task' = [task EXCEPT ![w] = 0]
             /\ discarded' = discarded \cup {task[w]}
    <2>1. UNCHANGED <<issued, rejected, broker, backend, delivered>>
      BY DEF RunTask
    <2>2. /\ HandInv' /\ InHand' = InHand \ {task[w]}
          /\ task[w] \in InHand /\ task[w] \in Ids
      BY <1>2, <2>1, PutDown DEF RunTask
    <2>3. TypeOK'
      BY <1>2, <2>2 DEF RunTask, LedgerInv, TypeOK
    <2>4. UNCHANGED Delivered /\ UNCHANGED Accepted
      BY <2>1 DEF Delivered, Accepted
    <2>5. Split(ToSet(broker'), InHand', backend', Delivered', discarded', Accepted')
      BY <1>2, <2>1, <2>2, <2>4, SplitMoves DEF LedgerInv
    <2> QED
      BY <2>1, <2>2, <2>3, <2>5 DEF LedgerInv
  <1> QED
    BY <1>1, <1>2 DEF RunTask

LEMMA SetResultLedger ==
    ASSUME LedgerInv, NEW w \in Workers, SetResult(w)
    PROVE  LedgerInv'
  <1> USE DEF producerVars, brokerVars, getterVars
  <1>1. UNCHANGED <<issued, rejected, broker, discarded, delivered>>
    BY DEF SetResult
  <1>2. /\ HandInv' /\ InHand' = InHand \ {task[w]}
        /\ task[w] \in InHand /\ task[w] \in Ids
    BY <1>1, PutDown DEF SetResult
  <1>3. TypeOK'
    BY <1>2 DEF SetResult, LedgerInv, TypeOK
  <1>4. UNCHANGED Delivered /\ UNCHANGED Accepted
    BY <1>1 DEF Delivered, Accepted
  <1>5. Split(ToSet(broker'), InHand', backend', Delivered', discarded', Accepted')
    BY <1>1, <1>2, <1>4, SplitMoves DEF LedgerInv, SetResult
  <1> QED
    BY <1>1, <1>2, <1>3, <1>5 DEF LedgerInv

\* A getter takes a result: it has not been delivered to another one.
LEMMA GetResultLedger ==
    ASSUME LedgerInv, NEW t, GetResult(t), getter' \in [Getters -> {0} \cup Ids],
           UNCHANGED <<producerVars, brokerVars, workerVars>>
    PROVE  LedgerInv'
  <1> USE DEF producerVars, brokerVars, workerVars
  <1>1. t \in Ids /\ t \in backend
    BY DEF GetResult, LedgerInv, TypeOK
  <1>2. t \notin Delivered
    BY <1>1 DEF LedgerInv, Split
  <1>3. delivered[t] = 0
    BY <1>1, <1>2 DEF Delivered, LedgerInv, TypeOK
  <1>4. /\ delivered' = [delivered EXCEPT ![t] = 1]
        /\ delivered' \in [Ids -> Nat]
        /\ backend' = backend \ {t}
    BY <1>3 DEF GetResult, LedgerInv, TypeOK
  <1>5. Delivered' = Delivered \cup {t}
    BY <1>1, <1>4 DEF Delivered, LedgerInv, TypeOK
  <1>6. \A u \in Ids : delivered'[u] <= 1
    BY <1>1, <1>4 DEF LedgerInv, TypeOK
  <1>7. TypeOK'
    BY <1>4 DEF LedgerInv, TypeOK
  <1>8. HandInv'
    BY DEF LedgerInv, HandInv, IsInjective
  <1>9. UNCHANGED InHand /\ UNCHANGED Accepted
    BY DEF InHand, Accepted
  <1>10. Split(ToSet(broker'), InHand', backend', Delivered', discarded', Accepted')
    BY <1>1, <1>4, <1>5, <1>9, SplitMoves DEF LedgerInv
  <1> QED
    BY <1>6, <1>7, <1>8, <1>10 DEF LedgerInv

LEMMA NextLedger == LedgerInv /\ [Next]_vars => LedgerInv'
  <1> SUFFICES ASSUME LedgerInv, [Next]_vars PROVE LedgerInv'
    OBVIOUS
  <1> USE DEF producerVars, brokerVars, workerVars, getterVars
  <1>1. ASSUME NEW n \in Names, NEW k \in 0 .. 1, AddTask(n, k)
        PROVE  LedgerInv'
    <2>1. [name |-> n, nilArgs |-> k = 0, nargs |-> k] \in Message
      BY DEF Message
    <2> QED
      BY <1>1, <2>1, IssueLedger DEF AddTask
  <1>2. ASSUME NEW n \in Names, AddTaskWithKey(n)
        PROVE  LedgerInv'
    <2>1. [name |-> n, nilArgs |-> FALSE, nargs |-> 0] \in Message
      BY DEF Message
    <2> QED
      BY <1>2, <2>1, IssueLedger DEF AddTaskWithKey
  <1>3. CASE CloseBroker
    <2>1. open' \in BOOLEAN
      BY <1>3 DEF CloseBroker
    <2>2. TypeOK'
      BY <1>3, <2>1 DEF CloseBroker, LedgerInv, TypeOK
    <2> QED
      BY <1>3, <2>2, LedgerFrame DEF CloseBroker
  <1>4. ASSUME NEW w \in Workers, StartWorker(w) \/ WorkerQuits(w)
        PROVE  LedgerInv'
    <2>1. cancelled' \in [Workers -> BOOLEAN]
      BY <1>4 DEF StartWorker, WorkerQuits, LedgerInv, TypeOK
    <2>2. TypeOK'
      BY <1>4, <2>1 DEF StartWorker, WorkerQuits, LedgerInv, TypeOK
    <2> QED
      BY <1>4, <2>2, LedgerFrame DEF StartWorker, WorkerQuits, LedgerInv, TypeOK
  <1>5. ASSUME NEW w \in Workers, StopWorker(w)
        PROVE  LedgerInv'
    <2>1. cancelled' \in [Workers -> BOOLEAN]
      BY <1>5 DEF StopWorker, LedgerInv, TypeOK
    <2>2. TypeOK'
      BY <1>5, <2>1 DEF StopWorker, LedgerInv, TypeOK
    <2> QED
      BY <1>5, <2>2, LedgerFrame DEF StopWorker
  <1>6. ASSUME NEW w \in Workers, NEW n \in Names, Register(w, n)
        PROVE  LedgerInv'
    <2>1. TypeOK'
      BY <1>6 DEF Register, LedgerInv, TypeOK
    <2> QED
      BY <1>6, <2>1, LedgerFrame DEF Register
  <1>7. ASSUME NEW w \in Workers, GetMessage(w) \/ RunTask(w) \/ SetResult(w)
        PROVE  LedgerInv'
    BY <1>7, GetMessageLedger, RunTaskLedger, SetResultLedger
  <1>8. ASSUME NEW g \in Getters, GetFinds(g)
        PROVE  LedgerInv'
    <2>1. getter' \in [Getters -> {0} \cup Ids]
      BY <1>8 DEF GetFinds, LedgerInv, TypeOK
    <2> QED
      BY <1>8, <2>1, GetResultLedger DEF GetFinds
  <1>9. ASSUME NEW g \in Getters, GetTimesOut(g) \/ \E t \in Ids : GetBegins(g, t)
        PROVE  LedgerInv'
    <2>1. TypeOK'
      BY <1>9 DEF GetTimesOut, GetBegins, LedgerInv, TypeOK
    <2> QED
      BY <1>9, <2>1, LedgerFrame DEF GetTimesOut, GetBegins
  <1>10. ASSUME NEW t \in Ids, AsyncGet(t)
         PROVE  LedgerInv'
    BY <1>10, GetResultLedger DEF AsyncGet, LedgerInv, TypeOK
  <1>11. CASE UNCHANGED vars
    <2>1. TypeOK'
      BY <1>11 DEF vars, LedgerInv, TypeOK
    <2> QED
      BY <1>11, <2>1, LedgerFrame DEF vars
  <1> QED
    BY <1>1, <1>2, <1>3, <1>4, <1>5, <1>6, <1>7, <1>8, <1>9, <1>10, <1>11 DEF Next, Worker

\* Every accepted task is in exactly one place, whatever workers stop and whenever
\* the broker is closed, and its result is delivered to at most one caller.
THEOREM TasksAccounted == Spec => []TaskLedger
  <1>1. LedgerInv => TaskLedger
    BY SplitIsLedger DEF LedgerInv, TaskLedger
  <1> QED
    BY <1>1, InitLedger, NextLedger, PTL DEF Spec
=============================================================================
