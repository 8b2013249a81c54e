----------------------------- MODULE AsyncQueue -----------------------------
(***************************************************************************)
(* util::AsyncQueue (src/src/util/async_queue.hpp): a bounded queue guarded *)
(* by one mutex and one condition variable shared by producers, consumers  *)
(* and stop().                                                             *)
(*                                                                         *)
(* Every critical section, from taking mtx_ to releasing it or to falling  *)
(* asleep in cv_.wait, is one action, so no lock variable is needed.  What *)
(* stays visible between two actions is what really interleaves: a caller  *)
(* that has not yet got the mutex, a caller asleep on cv_, and a consumer  *)
(* that has released the mutex but not yet called cv_.notify_all().        *)
(***************************************************************************)
EXTENDS Naturals, Sequences, Functions

CONSTANTS Threads,    \* the threads that call the queue
          Elements,   \* what it holds
          Capacity,   \* capacity_
          None        \* the empty optional

ASSUME QueueAssumption == Capacity \in Nat /\ None \notin Elements

VARIABLES q,              \* q_
          stopRequested,  \* stop_requested_
          deleted,        \* what deleter_ has been applied to
          pc,             \* the operation each thread is in
          arg,            \* the element an enqueue() is to add
          asleep,         \* the threads blocked in cv_.wait
          result          \* what each thread's latest dequeue() returned

vars == <<q, stopRequested, deleted, pc, arg, asleep, result>>

Operations == {"idle", "enqueue", "dequeue", "notify"}

TypeOK == /\ q \in Seq(Elements)
          /\ stopRequested \in BOOLEAN
          /\ deleted \in SUBSET Elements
          /\ pc \in [Threads -> Operations]
          /\ arg \in [Threads -> Elements \cup {None}]
          /\ \A t \in Threads : pc[t] = "enqueue" => arg[t] \in Elements
          /\ asleep \in SUBSET Threads
          /\ \A t \in asleep : pc[t] \in {"enqueue", "dequeue"}
          /\ result \in [Threads -> Elements \cup {None}]

Init == /\ q = <<>>
        /\ stopRequested = FALSE
        /\ deleted = {}
        /\ pc = [t \in Threads |-> "idle"]
        /\ arg = [t \in Threads |-> None]
        /\ asleep = {}
        /\ result = [t \in Threads |-> None]

-----------------------------------------------------------------------------
\* Definitions that start with Slip are what a maintainer could have written by
\* mistake in place of the definition after them; the specification uses none.

SlipRoomOffByOne   == Len(q) <= Capacity \/ stopRequested
SlipAnswerIsQueued == q # <<>>

\* The predicates of the two cv_.wait calls.
HasRoom   == Len(q) < Capacity \/ stopRequested
HasAnswer == q # <<>> \/ stopRequested

SlipWakeOne    == \/ asleep = {} /\ asleep' = {}
                  \/ \E t \in asleep : asleep' = asleep \ {t}
SlipWakeNobody == asleep' = asleep

\* cv_.notify_all(): every sleeper contends for the mutex again.
NotifyAll == asleep' = {}

SlipPushFront(e) == q' = <<e>> \o q
Push(e) == q' = Append(q, e)

Goto(t, op) == pc' = [pc EXCEPT ![t] = op]

\* t is in operation op and can be given the mutex.
Awake(t, op) == pc[t] = op /\ t \notin asleep

\* The predicate is false: release the mutex and sleep.
Sleep(t) == /\ asleep' = asleep \cup {t}
            /\ UNCHANGED <<q, stopRequested, deleted, pc, arg, result>>

-----------------------------------------------------------------------------
CallEnqueue(t, e) ==
    /\ Awake(t, "idle")
    /\ Goto(t, "enqueue")
    /\ arg' = [arg EXCEPT ![t] = e]
    /\ UNCHANGED <<q, stopRequested, deleted, asleep, result>>

EnqueueWaits(t) == Awake(t, "enqueue") /\ ~HasRoom /\ Sleep(t)

\* Tries again with an element that was moved from.
SlipPushesAgain(t) == Goto(t, "enqueue") /\ arg' = [arg EXCEPT ![t] = None]

EnqueueReturns(t) == Goto(t, "idle") /\ arg' = [arg EXCEPT ![t] = None]

EnqueuePushes(t) ==
    /\ Awake(t, "enqueue") /\ HasRoom
    /\ ~stopRequested
    /\ Push(arg[t])
    /\ NotifyAll
    /\ EnqueueReturns(t)
    /\ UNCHANGED <<stopRequested, deleted, result>>

\* After stop() the element is neither kept nor handed to the deleter.
EnqueueDrops(t) ==
    /\ Awake(t, "enqueue") /\ HasRoom
    /\ stopRequested
    /\ EnqueueReturns(t)
    /\ UNCHANGED <<q, stopRequested, deleted, asleep, result>>

CallDequeue(t) ==
    /\ Awake(t, "idle")
    /\ Goto(t, "dequeue")
    /\ UNCHANGED <<q, stopRequested, deleted, arg, asleep, result>>

DequeueWaits(t) == Awake(t, "dequeue") /\ ~HasAnswer /\ Sleep(t)

\* The mutex is released before cv_.notify_all(): t notifies in a later step.
DequeuePops(t) ==
    /\ Awake(t, "dequeue") /\ HasAnswer
    /\ ~stopRequested
    /\ q' = Tail(q)
    /\ result' = [result EXCEPT ![t] = Head(q)]
    /\ Goto(t, "notify")
    /\ UNCHANGED <<stopRequested, deleted, arg, asleep>>

DequeueNotifies(t) ==
    /\ Awake(t, "notify")
    /\ NotifyAll
    /\ Goto(t, "idle")
    /\ UNCHANGED <<q, stopRequested, deleted, arg, result>>

DequeueFindsStop(t) ==
    /\ Awake(t, "dequeue") /\ HasAnswer
    /\ stopRequested
    /\ result' = [result EXCEPT ![t] = None]
    /\ Goto(t, "idle")
    /\ UNCHANGED <<q, stopRequested, deleted, arg, asleep>>

\* stop(): empty the queue into the deleter under the mutex and wake everyone.
Stop ==
    /\ stopRequested' = TRUE
    /\ deleted' = deleted \cup Range(q)
    /\ q' = <<>>
    /\ NotifyAll
    /\ UNCHANGED <<pc, arg, result>>

\* A condition variable may wake a sleeper for no reason.
SpuriousWakeup(t) ==
    /\ t \in asleep
    /\ asleep' = asleep \ {t}
    /\ UNCHANGED <<q, stopRequested, deleted, pc, arg, result>>

-----------------------------------------------------------------------------
\* What a thread inside an operation does next.
Proceed(t) == \/ EnqueueWaits(t) \/ EnqueuePushes(t) \/ EnqueueDrops(t)
              \/ DequeueWaits(t) \/ DequeuePops(t) \/ DequeueNotifies(t)
              \/ DequeueFindsStop(t)

Next == \/ \E t \in Threads : \/ \E e \in Elements : CallEnqueue(t, e)
                              \/ CallDequeue(t)
                              \/ Proceed(t)
                              \/ SpuriousWakeup(t)
        \/ Stop

\* The scheduler runs every thread that is inside an operation and not asleep.
\* Nobody is obliged to call the queue, and spurious wakeups are not owed.
Fairness == \A t \in Threads : WF_vars(Proceed(t))

Spec == Init /\ [][Next]_vars /\ Fairness

-----------------------------------------------------------------------------
\* The queue never holds more than capacity_ elements, whichever producers
\* wake up together for the one free place (enqueue re-tests under the mutex).
CapacityRespected == Len(q) <= Capacity

\* No lost wakeup: a thread asleep although it could go on (room for a
\* producer, an element for a consumer, a stop for both) is about to be woken
\* by a consumer that has popped and not yet notified.  enqueue() notifies
\* with the mutex held, dequeue() after releasing it.
NoLostWakeup ==
    \A t \in asleep :
        \/ pc[t] = "enqueue" /\ HasRoom
        \/ pc[t] = "dequeue" /\ HasAnswer
        => \E u \in Threads : pc[u] = "notify"

\* Once stopped the queue is and stays empty: what it held went to the deleter,
\* and nobody is left asleep.
StoppedIsQuiet == stopRequested => q = <<>> /\ asleep = {}

\* The detailed queue implements the abstract one.
Fifo == INSTANCE BoundedFifo WITH stopped <- stopRequested
ImplementsFifo == Fifo!Spec

\* stop() releases every caller, sleeping or not, as the notify_all() in it means
\* to.  In cliot only the main thread calls the queue, the stop() of the pool's
\* destructor included, so this is a promise of the class to its next user.
StopReleasesEveryone ==
    \A t \in Threads : stopRequested /\ pc[t] # "idle" ~> pc[t] = "idle"

\* A consumer does not stay inside dequeue() while the queue holds something,
\* nor a producer inside enqueue() while there is room: either it gets its turn
\* or another thread used the chance.
NobodyOversleeps ==
    \A t \in Threads : /\ pc[t] = "dequeue" /\ HasAnswer ~> pc[t] # "dequeue" \/ ~HasAnswer
                       /\ pc[t] = "enqueue" /\ HasRoom ~> pc[t] # "enqueue" \/ ~HasRoom
=============================================================================
