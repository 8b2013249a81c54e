-------------------------- MODULE AsyncQueueProofs --------------------------
(***************************************************************************)
(* Theorems about AsyncQueue, for any set of threads, any elements and any *)
(* capacity.                                                               *)
(***************************************************************************)
EXTENDS AsyncQueue, TLAPS

\* The four state properties are inductive together: that nobody sleeps through
\* a chance needs that nobody sleeps after stop(), and both need the types.
IInv == TypeOK /\ CapacityRespected /\ StoppedIsQuiet /\ NoLostWakeup

LEMMA InitInv == Init => IInv
  <1> SUFFICES ASSUME Init PROVE IInv
    OBVIOUS
  <1> USE QueueAssumption DEF Init
  <1>1. TypeOK
    <2>1. q \in Seq(Elements)
      <3>1. <<>> \in Seq(Elements)
        OBVIOUS
      <3> QED BY <3>1, Zenon
    <2>2. pc \in [Threads -> Operations] /\ arg \in [Threads -> Elements \cup {None}]
      BY DEF Operations
    <2>3. \A t \in Threads : pc[t] # "enqueue"
      OBVIOUS
    <2>4. stopRequested \in BOOLEAN /\ deleted = {} /\ asleep = {} /\ result \in [Threads -> Elements \cup {None}]
      OBVIOUS
    <2> QED BY <2>1, <2>2, <2>3, <2>4 DEF TypeOK
  <1>2. CapacityRespected /\ StoppedIsQuiet /\ NoLostWakeup
    BY DEF CapacityRespected, StoppedIsQuiet, NoLostWakeup
  <1> QED BY <1>1, <1>2 DEF IInv

-----------------------------------------------------------------------------
\* Types are kept by every step.
LEMMA TypeStep == TypeOK /\ [Next]_vars => TypeOK'
  <1> SUFFICES ASSUME TypeOK, [Next]_vars PROVE TypeOK'
    OBVIOUS
  <1> USE QueueAssumption DEF TypeOK, Operations, Goto, Awake, Sleep, NotifyAll
  <1>1. ASSUME NEW t \in Threads, NEW e \in Elements, CallEnqueue(t, e) PROVE TypeOK'
    BY <1>1 DEF CallEnqueue
  <1>2. ASSUME NEW t \in Threads, CallDequeue(t) PROVE TypeOK'
    BY <1>2 DEF CallDequeue
  <1>3. ASSUME NEW t \in Threads, EnqueueWaits(t) PROVE TypeOK'
    BY <1>3 DEF EnqueueWaits
  <1>4. ASSUME NEW t \in Threads, EnqueuePushes(t) PROVE TypeOK'
    BY <1>4 DEF EnqueuePushes, EnqueueReturns, Push
  <1>5. ASSUME NEW t \in Threads, EnqueueDrops(t) PROVE TypeOK'
    BY <1>5 DEF EnqueueDrops, EnqueueReturns
  <1>6. ASSUME NEW t \in Threads, DequeueWaits(t) PROVE TypeOK'
    BY <1>6 DEF DequeueWaits
  <1>7. ASSUME NEW t \in Threads, DequeuePops(t) PROVE TypeOK'
    <2>1. q # <<>>
      BY <1>7 DEF DequeuePops, HasAnswer
    <2>2. Head(q) \in Elements /\ Tail(q) \in Seq(Elements)
      BY <2>1
    <2> QED BY <1>7, <2>2 DEF DequeuePops
  <1>8. ASSUME NEW t \in Threads, DequeueNotifies(t) PROVE TypeOK'
    BY <1>8 DEF DequeueNotifies
  <1>9. ASSUME NEW t \in Threads, DequeueFindsStop(t) PROVE TypeOK'
    BY <1>9 DEF DequeueFindsStop
  <1>10. ASSUME NEW t \in Threads, SpuriousWakeup(t) PROVE TypeOK'
    BY <1>10 DEF SpuriousWakeup
  <1>11. CASE Stop
    <2>1. Range(q) \subseteq Elements
      BY DEF Range
    <2> QED BY <1>11, <2>1 DEF Stop
  <1>12. CASE UNCHANGED vars
    BY <1>12 DEF vars
  <1> QED
    BY <1>1, <1>2, <1>3, <1>4, <1>5, <1>6, <1>7, <1>8, <1>9, <1>10, <1>11, <1>12
    DEF Next, Proceed

-----------------------------------------------------------------------------
\* A push finds room, and nothing else makes the queue longer; after stop()
\* nothing is pushed and nobody goes to sleep.
LEMMA QueueStep == IInv /\ [Next]_vars => CapacityRespected' /\ StoppedIsQuiet'
  <1> SUFFICES ASSUME IInv, [Next]_vars PROVE CapacityRespected' /\ StoppedIsQuiet'
    OBVIOUS
  <1> USE QueueAssumption
      DEF IInv, TypeOK, CapacityRespected, StoppedIsQuiet, HasRoom, HasAnswer, NotifyAll
  <1>1. ASSUME NEW t \in Threads, EnqueuePushes(t)
        PROVE CapacityRespected' /\ StoppedIsQuiet'
    <2>1. Len(q') = Len(q) + 1
      BY <1>1 DEF EnqueuePushes, Push
    <2> QED BY <1>1, <2>1 DEF EnqueuePushes
  <1>2. ASSUME NEW t \in Threads, DequeuePops(t)
        PROVE CapacityRespected' /\ StoppedIsQuiet'
    <2>1. Len(q') = Len(q) - 1
      BY <1>2 DEF DequeuePops
    <2> QED BY <1>2, <2>1 DEF DequeuePops
  <1>3. ASSUME NEW t \in Threads,
               EnqueueWaits(t) \/ DequeueWaits(t) \/ SpuriousWakeup(t)
        PROVE CapacityRespected' /\ StoppedIsQuiet'
    BY <1>3 DEF EnqueueWaits, DequeueWaits, SpuriousWakeup, Sleep
  <1>4. ASSUME NEW t \in Threads,
               \/ \E e \in Elements : CallEnqueue(t, e)
               \/ CallDequeue(t) \/ EnqueueDrops(t) \/ DequeueNotifies(t) \/ DequeueFindsStop(t)
        PROVE CapacityRespected' /\ StoppedIsQuiet'
    BY <1>4 DEF CallEnqueue, CallDequeue, EnqueueDrops, DequeueNotifies, DequeueFindsStop
  <1>5. CASE Stop
    BY <1>5 DEF Stop
  <1>6. CASE UNCHANGED vars
    BY <1>6 DEF vars
  <1> QED
    BY <1>1, <1>2, <1>3, <1>4, <1>5, <1>6 DEF Next, Proceed

-----------------------------------------------------------------------------
\* Whoever changes the queue or stops it wakes everyone, or is a consumer that
\* will; whoever goes to sleep has just found that there is nothing to do.
LEMMA WakeupStep == IInv /\ [Next]_vars => NoLostWakeup'
  <1> SUFFICES ASSUME IInv, [Next]_vars PROVE NoLostWakeup'
    OBVIOUS
  <1> USE DEF IInv, TypeOK, StoppedIsQuiet, NoLostWakeup, HasRoom, HasAnswer, Goto, Awake
  <1>1. ASSUME NEW t \in Threads,
               EnqueuePushes(t) \/ DequeueNotifies(t)
        PROVE NoLostWakeup'
    BY <1>1 DEF EnqueuePushes, DequeueNotifies, NotifyAll
  <1>2. ASSUME NEW t \in Threads, DequeuePops(t) PROVE NoLostWakeup'
    BY <1>2 DEF DequeuePops
  <1>3. ASSUME NEW t \in Threads,
               EnqueueWaits(t) \/ DequeueWaits(t) \/ SpuriousWakeup(t)
        PROVE NoLostWakeup'
    BY <1>3 DEF EnqueueWaits, DequeueWaits, SpuriousWakeup, Sleep
  <1>4. ASSUME NEW t \in Threads,
               (\E e \in Elements : CallEnqueue(t, e)) \/ CallDequeue(t)
        PROVE NoLostWakeup'
    BY <1>4 DEF CallEnqueue, CallDequeue
  <1>5. ASSUME NEW t \in Threads, EnqueueDrops(t) \/ DequeueFindsStop(t)
        PROVE NoLostWakeup'
    BY <1>5 DEF EnqueueDrops, DequeueFindsStop, EnqueueReturns
  <1>6. CASE Stop
    BY <1>6 DEF Stop, NotifyAll
  <1>7. CASE UNCHANGED vars
    BY <1>7 DEF vars
  <1> QED
    BY <1>1, <1>2, <1>3, <1>4, <1>5, <1>6, <1>7 DEF Next, Proceed

-----------------------------------------------------------------------------
\* The invariant of every behaviour of the queue.
THEOREM Invariance == Spec => []IInv
  <1>1. IInv /\ [Next]_vars => IInv'
    BY TypeStep, QueueStep, WakeupStep DEF IInv
  <1> QED BY <1>1, InitInv, PTL DEF Spec

\* Variables keep their types.
THEOREM TypeCorrect == Spec => []TypeOK
  BY Invariance, PTL DEF IInv

\* The queue never grows beyond its capacity.
THEOREM CapacityAlways == Spec => []CapacityRespected
  BY Invariance, PTL DEF IInv

\* enqueue(), dequeue() and stop() lose no wakeup.
THEOREM WakeupAlways == Spec => []NoLostWakeup
  BY Invariance, PTL DEF IInv

\* A stopped queue is empty and nobody sleeps on it.
THEOREM QuietAlways == Spec => []StoppedIsQuiet
  BY Invariance, PTL DEF IInv

-----------------------------------------------------------------------------
\* Every step of the detailed queue is a step of the abstract one or leaves its
\* variables alone.
LEMMA StepRefines == IInv /\ [Next]_vars => [Fifo!Next]_(Fifo!vars)
  <1> SUFFICES ASSUME IInv, [Next]_vars PROVE [Fifo!Next]_(Fifo!vars)
    OBVIOUS
  <1> USE DEF Fifo!vars, Fifo!Next
  <1>1. ASSUME NEW t \in Threads, EnqueuePushes(t) PROVE [Fifo!Next]_(Fifo!vars)
    <2>1. arg[t] \in Elements
      BY <1>1 DEF EnqueuePushes, Awake, IInv, TypeOK
    <2>2. Fifo!Put(arg[t])
      BY <1>1 DEF EnqueuePushes, HasRoom, Push, Fifo!Put
    <2> QED BY <2>1, <2>2
  <1>2. ASSUME NEW t \in Threads, DequeuePops(t) PROVE [Fifo!Next]_(Fifo!vars)
    <2>1. Fifo!Take(t)
      BY <1>2 DEF DequeuePops, HasAnswer, Fifo!Take
    <2> QED BY <2>1
  <1>3. ASSUME NEW t \in Threads, DequeueFindsStop(t) PROVE [Fifo!Next]_(Fifo!vars)
    <2>1. Fifo!TakeNothing(t)
      BY <1>3 DEF DequeueFindsStop, Fifo!TakeNothing
    <2> QED BY <2>1
  <1>4. CASE Stop
    <2>1. Fifo!Stop
      BY <1>4 DEF Stop, Fifo!Stop, Range, Fifo!Range
    <2> QED BY <2>1
  <1>5. ASSUME NEW t \in Threads,
               \/ \E e \in Elements : CallEnqueue(t, e)
               \/ CallDequeue(t) \/ EnqueueWaits(t) \/ DequeueWaits(t)
               \/ EnqueueDrops(t) \/ DequeueNotifies(t) \/ SpuriousWakeup(t)
        PROVE UNCHANGED Fifo!vars
    BY <1>5 DEF CallEnqueue, CallDequeue, EnqueueWaits, DequeueWaits, Sleep,
                EnqueueDrops, DequeueNotifies, SpuriousWakeup
  <1>6. CASE UNCHANGED vars
    BY <1>6 DEF vars
  <1> QED
    BY <1>1, <1>2, <1>3, <1>4, <1>5, <1>6 DEF Next, Proceed

\* The queue with its threads, its mutex and its condition variable implements
\* the bounded first-in first-out queue.
THEOREM Refinement == Spec => ImplementsFifo
  <1>1. Init => Fifo!Init
    BY DEF Init, Fifo!Init
  <1> QED BY <1>1, StepRefines, Invariance, PTL DEF Spec, ImplementsFifo, Fifo!Spec
=============================================================================
