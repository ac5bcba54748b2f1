---------------------------- MODULE ThreadPool ----------------------------
(***************************************************************************)
(* The two thread pools of a validator, which have the same code: a        *)
(* bounded queue, one mutex, and one condition variable on which idle      *)
(* workers and blocked producers wait together.  Producers are the threads *)
(* that serve requests and the main thread; a task may enqueue further     *)
(* tasks in its own pool (a block from a peer its attestation and its      *)
(* gossip, a transaction from a peer its pre-processing).                  *)
(*                                                                         *)
(* The pools are never resized or shut down while the program runs, and    *)
(* those operations are left out.                                          *)
(*                                                                         *)
(* A definition whose name ends in "Faulty" is a variant with a plausible  *)
(* mistake, not part of the model.                                         *)
(***************************************************************************)
EXTENDS Naturals, Sequences, FiniteSets

CONSTANTS
    Task,          \* tasks, each enqueued once
    Worker,        \* threads of the pool
    Producer,      \* other threads
    Requests,      \* Requests[p]: what a producer enqueues, in order
    Spawns,        \* Spawns[t]: what a task enqueues, in order
    MaxQueueSize,  \* 20000 and 10000 in the code
    NoTask         \* no task

ASSUME ThreadAssumption == Worker \cap Producer = {} /\ Worker # {}
ASSUME RequestsAssumption == Requests \in [Producer -> Seq(Task)]
ASSUME SpawnsAssumption == Spawns \in [Task -> Seq(Task)]

Elements(s) == {s[i] : i \in DOMAIN s}
Once(s) == \A i, k \in DOMAIN s : s[i] = s[k] => i = k

(* A task is an object of its own: nothing is enqueued at two places.      *)
ASSUME TaskAssumption ==
    /\ \A p \in Producer : Once(Requests[p])
    /\ \A t \in Task : Once(Spawns[t])
    /\ \A p, q \in Producer : p # q => Elements(Requests[p]) \cap Elements(Requests[q]) = {}
    /\ \A t, u \in Task : t # u => Elements(Spawns[t]) \cap Elements(Spawns[u]) = {}
    /\ \A p \in Producer, t \in Task : Elements(Requests[p]) \cap Elements(Spawns[t]) = {}
ASSUME MaxQueueSizeAssumption == MaxQueueSize \in Nat \ {0}
ASSUME NoTaskAssumption == NoTask \notin Task

Thread == Worker \cup Producer

VARIABLES
    tasks,  \* the queue
    at,     \* at[th]: where a thread is
    task,   \* task[w]: what a worker runs
    todo,   \* todo[th]: what a thread still has to enqueue
    ran,    \* tasks that have finished
    waited  \* whether a thread has had to wait for room; not in the code

poolVars == <<tasks, at, task, todo, ran, waited>>

(* "full" and "empty" are the two places that wait on the condition.       *)
PoolPlaces == {"run", "full", "notify", "look", "empty"}

PoolTypeOK ==
    /\ tasks \in Seq(Task)
    /\ at \in [Thread -> PoolPlaces]
    /\ task \in [Worker -> Task \cup {NoTask}]
    /\ todo \in [Thread -> Seq(Task)]
    /\ ran \subseteq Task
    /\ waited \in BOOLEAN
    /\ \A p \in Producer : at[p] \in {"run", "full", "notify"}
    /\ \A th \in Thread : at[th] = "full" => todo[th] # <<>>

PoolInit ==
    /\ tasks = <<>>
    /\ at = [th \in Thread |-> IF th \in Worker THEN "look" ELSE "run"]
    /\ task = [w \in Worker |-> NoTask]
    /\ todo = [th \in Thread |-> IF th \in Worker THEN <<>> ELSE Requests[th]]
    /\ ran = {}
    /\ waited = FALSE

-----------------------------------------------------------------------------
(* enqueueTask. *)

PushFaulty(th) ==
    /\ at[th] = "run"
    /\ todo[th] # <<>>
    /\ Len(tasks) <= MaxQueueSize
    /\ tasks' = Append(tasks, Head(todo[th]))
    /\ todo' = [todo EXCEPT ![th] = Tail(@)]
    /\ at' = [at EXCEPT ![th] = "notify"]
    /\ UNCHANGED <<task, ran, waited>>

Push(th) ==
    /\ at[th] = "run"
    /\ todo[th] # <<>>
    /\ Len(tasks) < MaxQueueSize
    /\ tasks' = Append(tasks, Head(todo[th]))
    /\ todo' = [todo EXCEPT ![th] = Tail(@)]
    /\ at' = [at EXCEPT ![th] = "notify"]
    /\ UNCHANGED <<task, ran, waited>>

BlockFaulty(th) ==
    /\ at[th] = "run"
    /\ todo[th] # <<>>
    /\ Len(tasks) >= MaxQueueSize
    /\ todo' = [todo EXCEPT ![th] = Tail(@)]
    /\ at' = [at EXCEPT ![th] = "full"]
    /\ waited' = TRUE
    /\ UNCHANGED <<tasks, task, ran>>

Block(th) ==
    /\ at[th] = "run"
    /\ todo[th] # <<>>
    /\ Len(tasks) >= MaxQueueSize
    /\ at' = [at EXCEPT ![th] = "full"]
    /\ waited' = TRUE
    /\ UNCHANGED <<tasks, task, todo, ran>>

Waiting == {th \in Thread : at[th] \in {"full", "empty"}}

(* A thread that wakes up tests its condition again.                       *)
Woken(th) == IF at[th] = "full" THEN "run" ELSE "look"

NotifyFaulty(th) ==
    /\ at[th] = "notify"
    /\ at' = [at EXCEPT ![th] = "run"]
    /\ UNCHANGED <<tasks, task, todo, ran, waited>>

(* notify_one after the mutex has been released: any one of the waiting.   *)
Notify(th) ==
    /\ at[th] = "notify"
    /\ \/ /\ Waiting = {}
          /\ at' = [at EXCEPT ![th] = "run"]
       \/ \E u \in Waiting : at' = [at EXCEPT ![th] = "run", ![u] = Woken(u)]
    /\ UNCHANGED <<tasks, task, todo, ran, waited>>

-----------------------------------------------------------------------------
(* workerThread. *)

Take(w) ==
    /\ at[w] = "look"
    /\ tasks # <<>>
    /\ task' = [task EXCEPT ![w] = Head(tasks)]
    /\ tasks' = Tail(tasks)
    /\ todo' = [todo EXCEPT ![w] = Spawns[Head(tasks)]]
    /\ at' = [at EXCEPT ![w] = "run"]
    /\ UNCHANGED <<ran, waited>>

Sleep(w) ==
    /\ at[w] = "look"
    /\ tasks = <<>>
    /\ at' = [at EXCEPT ![w] = "empty"]
    /\ UNCHANGED <<tasks, task, todo, ran, waited>>

Finish(w) ==
    /\ at[w] = "run"
    /\ task[w] # NoTask
    /\ todo[w] = <<>>
    /\ ran' = ran \cup {task[w]}
    /\ task' = [task EXCEPT ![w] = NoTask]
    /\ at' = [at EXCEPT ![w] = "look"]
    /\ UNCHANGED <<tasks, todo, waited>>

(* A condition variable may wake a thread for no reason.                   *)
SpuriousWake(th) ==
    /\ th \in Waiting
    /\ at' = [at EXCEPT ![th] = Woken(th)]
    /\ UNCHANGED <<tasks, task, todo, ran, waited>>

EnqueueStep(th) == Push(th) \/ Block(th) \/ Notify(th)
WorkerStep(w) == Take(w) \/ Sleep(w) \/ Finish(w)
ThreadStep(th) == EnqueueStep(th) \/ (th \in Worker /\ WorkerStep(th))

PoolNext == \E th \in Thread : ThreadStep(th) \/ SpuriousWake(th)

PoolSpec == PoolInit /\ [][PoolNext]_poolVars

(* Threads are scheduled and tasks end; nobody counts on spurious wakes.   *)
PoolFairSpec == PoolSpec /\ \A th \in Thread : WF_poolVars(ThreadStep(th))

-----------------------------------------------------------------------------
(* Properties. *)

(* The queue stays within its limit, however many threads are woken at the *)
(* same time to put something into it.                                     *)
QueueBounded == Len(tasks) <= MaxQueueSize

Running == {task[w] : w \in Worker} \ {NoTask}
ToEnqueue == UNION {Elements(todo[th]) : th \in Thread}
Started == ran \cup Running
Known == (UNION {Elements(Requests[p]) : p \in Producer})
            \cup (UNION {Elements(Spawns[t]) : t \in Started})

(* Every task that a producer or a started task enqueues is in exactly one *)
(* place: still to be enqueued, in the queue, running, or done.            *)
InOnePlace ==
    /\ ToEnqueue \cup Elements(tasks) \cup Started = Known
    /\ ToEnqueue \cap (Elements(tasks) \cup Started) = {}
    /\ Elements(tasks) \cap Started = {}
    /\ ran \cap Running = {}
    /\ Cardinality(Elements(tasks)) = Len(tasks)
    /\ \A v, w \in Worker : v # w /\ task[v] # NoTask => task[v] # task[w]

(* Neither a task nor a place in the queue is lost or given out twice,     *)
(* whichever threads are woken at the same time.                           *)
WorkConserved == PoolTypeOK /\ QueueBounded /\ InOnePlace

(* As long as nobody has had to wait for room, the workers do not sleep    *)
(* beside a queued task, unless a notification is on its way.  (After that *)
(* the notification may go to a thread that waits for room.)               *)
NoSleepBesideWork ==
    ~waited /\ tasks # <<>> /\ (\A w \in Worker : at[w] = "empty")
        => \E th \in Thread : at[th] = "notify"

(* Every task in the queue is run, as long as nobody has had to wait for   *)
(* room.                                                                   *)
QueuedIsRun == \A t \in Task : t \in Elements(tasks) ~> t \in ran \/ waited
=============================================================================
